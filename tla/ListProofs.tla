------------------------------ MODULE ListProofs ------------------------------
(***************************************************************************)
(* The theorems about LinkedList: whatever calls are made of list.go, and  *)
(* with whatever indices, the list stays whole (Inv, inductive: Chain      *)
(* names the nodes in order, which WellFormed, a statement about their     *)
(* number and the tail, does not give), and it implements the sequence of  *)
(* SeqList. The number of addresses, the values and the bound on the       *)
(* length are arbitrary.                                                   *)
(***************************************************************************)
EXTENDS LinkedList, ListLemmas

\* What a value field may hold.
Entry == Value \cup {NoValue}

\* The inductive invariant.
Inv == list \in ListOf(Entry) /\ list.length <= MaxLen /\ Whole(list)

\* Insert with an index that is out of range returns ErrInvalidIndex and the
\* list as it was.
LEMMA BadInsert ==
  ASSUME NEW l, l.length \in Nat, NEW v, NEW i \in Int, i \notin 0..l.length
  PROVE  Insert(l, v, i) = Return(l, ErrInvalidIndex)
<1>1. (i > l.length \/ i < 0) /\ ~(i = 0) /\ ~(i > 0 /\ i < l.length) /\ ~(i > 0 /\ i = l.length)
  OBVIOUS
<1> QED
  BY <1>1, Zenon DEF Insert

\* So does removeNodeAt, with ErrEmptyList when there is nothing to remove.
LEMMA BadRemove ==
  ASSUME NEW l, l.length \in Nat, NEW i \in Int, i \notin 0..(l.length - 1)
  PROVE  RemoveNodeAt(l, i) =
           Return(l, IF l.length = 0 THEN ErrEmptyList ELSE ErrInvalidIndex)
<1>1. CASE l.length = 0
  <2>1. ~(l.length > 0)
    BY <1>1
  <2> QED
    BY <1>1, <2>1, Zenon DEF RemoveNodeAt
<1>2. CASE l.length # 0
  <2>1. /\ l.length > 0 /\ ~(i = 0) /\ (i < 0 \/ i >= l.length)
        /\ ~(i > 0 /\ i < l.length)
    BY <1>2
  <2> QED
    BY <1>2, <2>1, Zenon DEF RemoveNodeAt
<1> QED
  BY <1>1, <1>2

\* And MoveToFirst.
LEMMA BadMove ==
  ASSUME NEW l, l.length \in Nat, NEW i \in Int, i \notin 0..(l.length - 1)
  PROVE  MoveToFirst(l, i) = Return(l, ErrInvalidIndex)
<1>1. (i < 0 \/ i >= l.length) /\ ~(i = 0 /\ i < l.length) /\ ~(i > 0 /\ i < l.length)
  OBVIOUS
<1> QED
  BY <1>1, Zenon DEF MoveToFirst

\* NewLinkedList returns a whole list.
LEMMA InitInv == Init => Inv
<1> SUFFICES ASSUME Init PROVE Inv
  OBVIOUS
<1>1. /\ list \in ListOf(Entry) /\ list.length = 0 /\ list.head = Nil /\ list.tail = Nil
  BY DEF Init, NewLinkedList, ListOf, Entry
<1>2. Chain(list, [i \in 0..(0 - 1) |-> Nil])
  BY <1>1 DEF Chain, Path
<1> QED
  BY <1>1, <1>2, NodeAssumption DEF Inv, Whole

\* The list a call leaves, before the collection.
Good(l) == l \in ListOf(Entry) /\ Whole(l) /\ l.length <= MaxLen

\* A method that writes leaves what it built.
LEMMA WriteInv ==
  ASSUME NEW r, Write(r), Good(r.list)
  PROVE  Inv' /\ GetAll(list') = GetAll(r.list)
  BY CollectFacts DEF Write, Good, Inv, Entry

\* What a call that writes comes to: the values q, the error e.
Outcome(q, e) == Inv' /\ GetAll(list') = q /\ ret' = Nothing(e)

\* What the steps below use of the invariant.
LEMMA InvFacts ==
  ASSUME Inv
  PROVE  /\ Good(list) /\ list \in ListOf(Entry) /\ Whole(list) /\ NoValue \in Entry
         /\ list.length \in Nat /\ list.length <= MaxLen /\ MaxLen \in Nat
         /\ \A v \in Value : v \in Entry
         /\ \A i \in Index : i \in Int
  BY NodeAssumption DEF Inv, ListOf, Good, Entry, Index

\* A call that returns an error leaves the values alone.
LEMMA FailedWrite ==
  ASSUME Inv, NEW e, Write(Return(list, e))
  PROVE  Outcome(GetAll(list), e)
<1>1. Good(list)
  BY InvFacts
<1>2. Return(list, e).list = list /\ Return(list, e).err = e
  BY DEF Return
<1> QED
  BY <1>1, <1>2, WriteInv DEF Write, Outcome

\* Insert, with any index.
LEMMA InsertCall ==
  ASSUME Inv, list.length < MaxLen, NEW v \in Value, NEW i \in Int,
         Write(Insert(list, v, i))
  PROVE  IF i \in 0..list.length
         THEN Outcome([j \in 1..(list.length + 1) |->
                         IF j <= i THEN GetAll(list)[j]
                         ELSE IF j = i + 1 THEN v ELSE GetAll(list)[j - 1]], Ok)
         ELSE Outcome(GetAll(list), ErrInvalidIndex)
<1>1. CASE i \in 0..list.length
  <2> DEFINE r == Insert(list, v, i)
             m == r.list
             q == [j \in 1..(list.length + 1) |->
                     IF j <= i THEN GetAll(list)[j]
                     ELSE IF j = i + 1 THEN v ELSE GetAll(list)[j - 1]]
  <2>1. Cardinality(Node) > list.length
    BY InvFacts, NodeAssumption, FS_CardinalityType
  <2>2. /\ r.err = Ok /\ m \in ListOf(Entry) /\ Whole(m)
        /\ m.length = list.length + 1 /\ GetAll(m) = q
    BY <1>1, <2>1, InvFacts, InsertFacts
  <2> HIDE DEF r, q
  <2>3. Good(m)
    BY <2>2, InvFacts DEF Good
  <2> QED
    BY <1>1, <2>2, <2>3, WriteInv DEF Write, Outcome, r, q
<1>2. CASE i \notin 0..list.length
  BY <1>2, InvFacts, BadInsert, FailedWrite
<1> QED
  BY <1>1, <1>2

\* removeNodeAt, with any index.
LEMMA RemoveCall ==
  ASSUME Inv, NEW i \in Int, Write(RemoveNodeAt(list, i))
  PROVE  IF i \in 0..(list.length - 1)
         THEN Outcome([j \in 1..(list.length - 1) |->
                         IF j <= i THEN GetAll(list)[j] ELSE GetAll(list)[j + 1]], Ok)
         ELSE Outcome(GetAll(list),
                      IF list.length = 0 THEN ErrEmptyList ELSE ErrInvalidIndex)
<1>1. CASE i \in 0..(list.length - 1)
  <2> DEFINE r == RemoveNodeAt(list, i)
             m == r.list
             q == [j \in 1..(list.length - 1) |->
                     IF j <= i THEN GetAll(list)[j] ELSE GetAll(list)[j + 1]]
  <2>1. /\ r.err = Ok /\ m \in ListOf(Entry) /\ Whole(m)
        /\ m.length = list.length - 1 /\ GetAll(m) = q
    BY <1>1, InvFacts, RemoveFacts
  <2> HIDE DEF r, q
  <2>2. Good(m)
    BY <2>1, InvFacts DEF Good
  <2> QED
    BY <1>1, <2>1, <2>2, WriteInv DEF Write, Outcome, r, q
<1>2. CASE i \notin 0..(list.length - 1)
  BY <1>2, InvFacts, BadRemove, FailedWrite
<1> QED
  BY <1>1, <1>2

\* RemoveFirst is RemoveAt of index 0, for the empty list too.
LEMMA RemoveFirstIsRemove ==
  ASSUME Inv
  PROVE  RemoveFirstNode(list) = RemoveNodeAt(list, 0)
<1>1. CASE list.length = 0
  <2>1. ~(list.length > 0)
    BY <1>1
  <2>2. RemoveNodeAt(list, 0) = Return(list, ErrEmptyList)
    BY <1>1, <2>1, Zenon DEF RemoveNodeAt
  <2> QED
    BY <1>1, <2>2 DEF RemoveFirstNode
<1>2. CASE list.length > 0
  <2>1. ~(list.length = 0) /\ ~(0 < 0 \/ 0 >= list.length) /\ ~(0 > 0)
    BY <1>2, InvFacts
  <2> QED
    BY <1>2, <2>1, Zenon DEF RemoveNodeAt
<1> QED
  BY <1>1, <1>2, InvFacts

\* MoveToFirst, with any index.
LEMMA MoveCall ==
  ASSUME Inv, NEW i \in Int, Write(MoveToFirst(list, i))
  PROVE  IF i \in 0..(list.length - 1)
         THEN Outcome([j \in 1..list.length |->
                         IF j = 1 THEN GetAll(list)[i + 1]
                         ELSE IF j <= i + 1 THEN GetAll(list)[j - 1]
                         ELSE GetAll(list)[j]], Ok)
         ELSE Outcome(GetAll(list), ErrInvalidIndex)
<1>1. CASE i \in 0..(list.length - 1)
  <2> DEFINE r == MoveToFirst(list, i)
             m == r.list
             q == [j \in 1..list.length |->
                     IF j = 1 THEN GetAll(list)[i + 1]
                     ELSE IF j <= i + 1 THEN GetAll(list)[j - 1] ELSE GetAll(list)[j]]
  <2>1. /\ r.err = Ok /\ m \in ListOf(Entry) /\ Whole(m)
        /\ m.length = list.length /\ GetAll(m) = q
    BY <1>1, InvFacts, MoveFacts
  <2> HIDE DEF r, q
  <2>2. Good(m)
    BY <2>1, InvFacts DEF Good
  <2> QED
    BY <1>1, <2>1, <2>2, WriteInv DEF Write, Outcome, r, q
<1>2. CASE i \notin 0..(list.length - 1)
  BY <1>2, InvFacts, BadMove, FailedWrite
<1> QED
  BY <1>1, <1>2

\* Every call keeps the list whole.
LEMMA StepInv == ASSUME Inv, [Next]_vars PROVE Inv'
<1>1. ASSUME NEW v \in Value, NEW i \in Index, CallInsert(v, i) PROVE Inv'
  BY <1>1, InvFacts, InsertCall DEF CallInsert, Outcome
<1>2. ASSUME NEW v \in Value, CallInsertLast(v) PROVE Inv'
  BY <1>2, InvFacts, InsertCall DEF CallInsertLast, InsertLast, Outcome
<1>3. ASSUME NEW i \in Index, CallRemoveAt(i) PROVE Inv'
  BY <1>3, InvFacts, RemoveCall DEF CallRemoveAt, Outcome
<1>4. ASSUME NEW i \in Index, CallMoveToFirst(i) PROVE Inv'
  BY <1>4, InvFacts, MoveCall DEF CallMoveToFirst, Outcome
<1>5. CASE CallRemoveFirst
  BY <1>5, RemoveFirstIsRemove, RemoveCall DEF CallRemoveFirst, Outcome
<1>6. CASE CallRemoveLast
  <2>1. list.length - 1 \in Int
    BY InvFacts
  <2> QED
    BY <1>6, <2>1, RemoveCall DEF CallRemoveLast, RemoveLast, Outcome
<1>7. CASE \/ UNCHANGED vars \/ CallGetFirst \/ CallGetLast
           \/ (\E v \in Value : CallGetIndex(v))
           \/ (\E i \in Index : CallGetAt(i))
  BY <1>7 DEF vars, CallGetFirst, CallGetLast, CallGetIndex, CallGetAt, Read, Inv
<1> QED
  BY <1>1, <1>2, <1>3, <1>4, <1>5, <1>6, <1>7 DEF Next

\* The invariant, for all behaviours.
LEMMA AlwaysInv == Spec => []Inv
  BY InitInv, StepInv, PTL DEF Spec

\* The pointers of list.go lead to nodes or are nil, and length stays in its
\* bound, whatever is called.
THEOREM ListTyped == Spec => []TypeOK
<1>1. Inv => TypeOK
  BY NodeAssumption DEF Inv, TypeOK, ListOf, Entry
<1> QED
  BY <1>1, AlwaysInv, PTL

\* Insert, InsertLast, RemoveAt, RemoveFirst, RemoveLast and MoveToFirst, in
\* any order and with any index, keep length and tail of list.go right and
\* never make a cycle.
THEOREM ListStaysWhole == Spec => []WellFormed
<1>1. Inv => WellFormed
  BY NilAssumption, WholeIsWellFormed DEF Inv, WellFormed, ListOf
<1> QED
  BY <1>1, AlwaysInv, PTL

\* The values of the list as a sequence, and where each of them is.
LEMMA EntriesAreSeq ==
  ASSUME Inv
  PROVE  /\ GetAll(list) \in Seq(Entry) /\ Len(GetAll(list)) = list.length
         /\ \A i \in 0..(list.length - 1) :
              GetAll(list)[i + 1] = list.value[NodeAt(list, i)]
<1>1. \A i \in 0..(list.length - 1) : GetAll(list)[i + 1] = list.value[NodeAt(list, i)]
  BY InvFacts DEF GetAll
<1> QED
  BY <1>1, ValuesAreSeq DEF Inv

\* Two sequences, one after the other, written position by position.
Joined(s, t) ==
  [j \in 1..(Len(s) + Len(t)) |-> IF j <= Len(s) THEN s[j] ELSE t[j - Len(s)]]

\* ... which is what \o makes of them.
LEMMA ConcatIs ==
  ASSUME NEW S, NEW s \in Seq(S), NEW t \in Seq(S)
  PROVE  s \o t \in Seq(S) /\ Len(s \o t) = Len(s) + Len(t) /\ s \o t = Joined(s, t)
<1> DEFINE u == s \o t
           n == Len(s) + Len(t)
<1>1. /\ u \in Seq(S) /\ Len(u) = n /\ n \in Nat
      /\ \A j \in 1..n : u[j] = IF j <= Len(s) THEN s[j] ELSE t[j - Len(s)]
  OBVIOUS
<1> HIDE DEF u, n
<1>2. u = [j \in 1..n |-> u[j]]
  BY <1>1
<1>3. u = [j \in 1..n |-> IF j <= Len(s) THEN s[j] ELSE t[j - Len(s)]]
  BY <1>1, <1>2
<1> QED
  BY <1>1, <1>3 DEF u, n, Joined

\* A part of a sequence, position by position.
LEMMA SubSeqIs ==
  ASSUME NEW S, NEW s \in Seq(S), NEW a \in 1..(Len(s) + 1), NEW b \in (a - 1)..Len(s)
  PROVE  /\ SubSeq(s, a, b) \in Seq(S) /\ Len(SubSeq(s, a, b)) = b - a + 1
         /\ \A j \in 1..(b - a + 1) : SubSeq(s, a, b)[j] = s[a + j - 1]
  OBVIOUS

\* The abstract RemoveAt, position by position, as RemoveFacts has it.
LEMMA RemoveAtIs ==
  ASSUME NEW S, NEW s \in Seq(S), NEW n \in Nat, Len(s) = n, NEW i \in 0..(n - 1)
  PROVE  /\ Abstract!RemoveAt(s, i + 1) \in Seq(S)
         /\ Len(Abstract!RemoveAt(s, i + 1)) = n - 1
         /\ Abstract!RemoveAt(s, i + 1) =
              [j \in 1..(n - 1) |-> IF j <= i THEN s[j] ELSE s[j + 1]]
<1> DEFINE a == SubSeq(s, 1, i)
           b == SubSeq(s, i + 2, n)
           m == n - i - 1
<1>1. Abstract!RemoveAt(s, i + 1) = a \o b
  BY DEF Abstract!RemoveAt
<1>2. a \in Seq(S) /\ Len(a) = i /\ \A j \in 1..i : a[j] = s[j]
  BY SubSeqIs
<1>3. b \in Seq(S) /\ Len(b) = m /\ \A j \in 1..m : b[j] = s[i + 1 + j]
  BY SubSeqIs
<1> HIDE DEF a, b
<1>4. i \in Nat /\ m \in Nat /\ i + m = n - 1
  OBVIOUS
<1>5. /\ a \o b \in Seq(S) /\ Len(a \o b) = i + m
      /\ a \o b = [j \in 1..(i + m) |-> IF j <= i THEN a[j] ELSE b[j - i]]
  <2> HIDE DEF m
  <2>1. a \o b \in Seq(S) /\ Len(a \o b) = Len(a) + Len(b) /\ a \o b = Joined(a, b)
    BY <1>2, <1>3, ConcatIs
  <2> QED
    BY <1>2, <1>3, <1>4, <2>1 DEF Joined
<1>6. \A j \in 1..(n - 1) : (IF j <= i THEN a[j] ELSE b[j - i]) = IF j <= i THEN s[j] ELSE s[j + 1]
  BY <1>2, <1>3
<1> HIDE DEF m
<1> QED
  BY <1>1, <1>4, <1>5, <1>6

\* A sequence with e at index i, position by position, as InsertFacts has it.
Inserted(s, i, e, n) ==
  [j \in 1..(n + 1) |-> IF j <= i THEN s[j] ELSE IF j = i + 1 THEN e ELSE s[j - 1]]

\* The abstract InsertAt is that.
LEMMA InsertAtIs ==
  ASSUME NEW S, NEW s \in Seq(S), NEW n \in Nat, Len(s) = n, NEW i \in 0..n, NEW e \in S
  PROVE  Abstract!InsertAt(s, i + 1, e) = Inserted(s, i, e, n)
<1> DEFINE a == SubSeq(s, 1, i)
           b == SubSeq(s, i + 1, n)
           c == a \o <<e>>
           k == i + 1
           m == n - i
<1>1. Abstract!InsertAt(s, i + 1, e) = c \o b
  BY DEF Abstract!InsertAt
<1>2. a \in Seq(S) /\ Len(a) = i /\ \A j \in 1..i : a[j] = s[j]
  BY SubSeqIs
<1>3. b \in Seq(S) /\ Len(b) = m /\ \A j \in 1..m : b[j] = s[i + j]
  BY SubSeqIs
<1> HIDE DEF a, b
<1>4. <<e>> \in Seq(S) /\ Len(<<e>>) = 1 /\ <<e>>[1] = e /\ i \in Nat /\ k \in Nat /\ 1 \in Nat
  OBVIOUS
<1>5. /\ c \in Seq(S) /\ Len(c) = k
      /\ c = [j \in 1..k |-> IF j <= i THEN a[j] ELSE <<e>>[j - i]]
  <2>1. c \in Seq(S) /\ Len(c) = Len(a) + Len(<<e>>) /\ c = Joined(a, <<e>>)
    BY <1>2, <1>4, ConcatIs
  <2> QED
    BY <1>2, <1>4, <2>1 DEF Joined
<1>6. \A j \in 1..k : c[j] = IF j <= i THEN s[j] ELSE e
  BY <1>2, <1>4, <1>5
<1> HIDE DEF c
<1>7. m \in Nat /\ k + m = n + 1
  OBVIOUS
<1>8. c \o b = [j \in 1..(k + m) |-> IF j <= k THEN c[j] ELSE b[j - k]]
  <2> HIDE DEF m, k
  <2>1. c \o b = Joined(c, b)
    BY <1>3, <1>5, ConcatIs
  <2> QED
    BY <1>3, <1>5, <2>1 DEF Joined
<1>9. \A j \in 1..(n + 1) :
        (IF j <= k THEN c[j] ELSE b[j - k]) =
           IF j <= i THEN s[j] ELSE IF j = i + 1 THEN e ELSE s[j - 1]
  BY <1>3, <1>4, <1>6
<1> QED
  BY <1>1, <1>7, <1>8, <1>9 DEF Inserted

\* The abstract MoveToFirst, position by position, as MoveFacts has it.
LEMMA MovedIs ==
  ASSUME NEW S, NEW s \in Seq(S), NEW n \in Nat, Len(s) = n, NEW i \in 0..(n - 1)
  PROVE  <<s[i + 1]>> \o Abstract!RemoveAt(s, i + 1) =
           [j \in 1..n |-> IF j = 1 THEN s[i + 1]
                           ELSE IF j <= i + 1 THEN s[j - 1] ELSE s[j]]
<1> DEFINE a == <<s[i + 1]>>
           b == Abstract!RemoveAt(s, i + 1)
           m == n - 1
<1>1. a \in Seq(S) /\ Len(a) = 1 /\ a[1] = s[i + 1] /\ m \in Nat /\ 1 + m = n
  OBVIOUS
<1>2. /\ b \in Seq(S) /\ Len(b) = m
      /\ b = [j \in 1..m |-> IF j <= i THEN s[j] ELSE s[j + 1]]
  BY RemoveAtIs
<1> HIDE DEF a, b
<1>3. a \o b = [j \in 1..(1 + m) |-> IF j <= 1 THEN a[j] ELSE b[j - 1]]
  <2> HIDE DEF m
  <2>1. a \o b = Joined(a, b)
    BY <1>1, <1>2, ConcatIs
  <2> QED
    BY <1>1, <1>2, <2>1 DEF Joined
<1>4. \A j \in 1..n :
        (IF j <= 1 THEN a[j] ELSE b[j - 1]) =
           IF j = 1 THEN s[i + 1] ELSE IF j <= i + 1 THEN s[j - 1] ELSE s[j]
  BY <1>1, <1>2
<1> QED
  BY <1>1, <1>3, <1>4 DEF a, b

\* The methods ask whether the list is empty before anything else.
EmptyOr(e) == IF list.length = 0 THEN ErrEmptyList ELSE e

\* What the getters answer for index i.
Found(i) ==
  IF i \in 0..(list.length - 1) THEN [value |-> GetAll(list)[i + 1], err |-> Ok]
  ELSE [value |-> NoValue, err |-> EmptyOr(ErrInvalidIndex)]

\* A getter that found a node returns its value.
LEMMA ValueOfNode ==
  ASSUME NEW n, n # Nil
  PROVE  ValueOf(list, [node |-> n, err |-> Ok]) = [value |-> list.value[n], err |-> Ok]
<1> DEFINE f == [node |-> n, err |-> Ok]
<1>1. f.err = Ok /\ f.node = n
  OBVIOUS
<1> HIDE DEF f
<1>2. ~(f.err # Ok) /\ ~(f.err = Ok /\ f.node = Nil) /\ f.node # Nil
  BY <1>1
<1>3. ValueOf(list, f) = [value |-> list.value[f.node], err |-> Ok]
  BY <1>1, <1>2, Zenon DEF ValueOf
<1> QED
  BY <1>1, <1>3 DEF f

\* A getter that found an error returns the zero value with it.
LEMMA ValueOfError ==
  ASSUME NEW n, NEW e, e # Ok
  PROVE  ValueOf(list, [node |-> n, err |-> e]) = [value |-> NoValue, err |-> e]
<1> DEFINE f == [node |-> n, err |-> e]
<1>1. f.err = e
  OBVIOUS
<1> HIDE DEF f
<1>2. ValueOf(list, f) = [value |-> NoValue, err |-> f.err]
  BY <1>1, Zenon DEF ValueOf
<1> QED
  BY <1>1, <1>2 DEF f

\* What getNodeAt finds for an index in range, and what the node holds; head
\* and tail are the nodes at either end.
LEMMA NodesInRange ==
  ASSUME Inv, NEW i \in 0..(list.length - 1)
  PROVE  /\ NodeAt(list, i) # Nil /\ GetNodeAt(list, i) = [node |-> NodeAt(list, i), err |-> Ok]
         /\ list.value[NodeAt(list, i)] = GetAll(list)[i + 1]
         /\ list.head = NodeAt(list, 0) /\ list.tail = NodeAt(list, list.length - 1)
<1>1. PICK s : Chain(list, s)
  BY DEF Inv, Whole
<1>2. \A j \in 0..(list.length - 1) : NodeAt(list, j) = s[j] /\ s[j] \in Node
  <2>1. list.length \in Nat
    BY InvFacts
  <2>2. \A j \in 0..(list.length - 1) : NodeAt(list, j) = s[j]
    BY <1>1, <2>1, ChainWalk
  <2>3. \A j \in 0..(list.length - 1) : s[j] \in Node
    BY <1>1 DEF Chain, Path
  <2> QED
    BY <2>2, <2>3
<1>3. list.length > 0
  BY InvFacts
<1>4. list.head = s[0] /\ list.tail = s[list.length - 1]
  BY <1>1, <1>3 DEF Chain, Path
<1>5. GetNodeAt(list, i) = [node |-> s[i], err |-> Ok]
  BY <1>1, InvFacts, GetNodeFacts
<1> QED
  BY <1>2, <1>3, <1>4, <1>5, InvFacts, EntriesAreSeq, NilAssumption

\* GetAt, with any index.
LEMMA GetAtIs ==
  ASSUME Inv, NEW i \in Int
  PROVE  GetAt(list, i) = Found(i)
<1>1. CASE i \in 0..(list.length - 1)
  <2>1. GetAt(list, i) = ValueOf(list, [node |-> NodeAt(list, i), err |-> Ok])
    BY <1>1, NodesInRange DEF GetAt
  <2>2. @ = [value |-> list.value[NodeAt(list, i)], err |-> Ok]
    BY <1>1, NodesInRange, ValueOfNode
  <2> QED
    BY <1>1, <2>1, <2>2, NodesInRange DEF Found
<1>2. CASE i \notin 0..(list.length - 1)
  <2>1. GetNodeAt(list, i) = [node |-> Nil, err |-> EmptyOr(ErrInvalidIndex)]
    <3>1. CASE list.length = 0
      <4>1. ~(list.length > 0)
        BY <3>1
      <4> QED
        BY <3>1, <4>1, Zenon DEF GetNodeAt, EmptyOr
    <3>2. CASE list.length # 0
      <4>1. /\ list.length > 0 /\ i # 0 /\ (i < 0 \/ i >= list.length)
            /\ ~(i > 0 /\ i = list.length - 1)
        BY <1>2, <3>2, InvFacts
      <4> QED
        BY <3>2, <4>1, Zenon DEF GetNodeAt, EmptyOr
    <3> QED
      BY <3>1, <3>2
  <2>2. EmptyOr(ErrInvalidIndex) # Ok
    BY DEF EmptyOr, ErrInvalidIndex, ErrEmptyList, Ok
  <2> QED
    BY <1>2, <2>1, <2>2, ValueOfError DEF GetAt, Found
<1> QED
  BY <1>1, <1>2

\* GetFirst and GetLast, which read head and tail, are GetAt of the first and
\* of the last index, for the empty list too.
LEMMA GetEndsIs ==
  ASSUME Inv
  PROVE  GetFirst(list) = Found(0) /\ GetLast(list) = Found(list.length - 1)
<1>1. CASE list.length = 0
  BY <1>1, ValueOfError DEF GetFirst, GetLast, Found, EmptyOr, ErrEmptyList, Ok
<1>2. CASE list.length # 0
  <2>1. 0 \in 0..(list.length - 1) /\ list.length - 1 \in 0..(list.length - 1)
    BY <1>2, InvFacts
  <2>2. GetFirst(list) = [value |-> list.value[NodeAt(list, 0)], err |-> Ok]
    BY <1>2, <2>1, NodesInRange, ValueOfNode DEF GetFirst
  <2>3. GetLast(list) = [value |-> list.value[NodeAt(list, list.length - 1)], err |-> Ok]
    BY <1>2, <2>1, NodesInRange DEF GetLast
  <2> QED
    BY <2>1, <2>2, <2>3, NodesInRange DEF Found
<1> QED
  BY <1>1, <1>2

\* GetIndex returns the first position of a value, or -1.
LEMMA GetIndexIs ==
  ASSUME Inv, NEW v
  PROVE  LET q == GetAll(list)
             r == GetIndex(list, v)
         IN  /\ r.index = IF Abstract!Contains(q, v)
                          THEN Abstract!SelectInSeq(q, LAMBDA x : x = v) - 1 ELSE -1
             /\ r.err = EmptyOr(Ok)
<1> DEFINE q == GetAll(list)
           N == list.length
           hits == {i \in 0..(N - 1) : list.value[NodeAt(list, i)] = v}
           I == {i \in 1..Len(q) : q[i] = v}
<1>1. Len(q) = N /\ N \in Nat /\ \A i \in 0..(N - 1) : q[i + 1] = list.value[NodeAt(list, i)]
  BY InvFacts, EntriesAreSeq
<1>2. hits \subseteq Nat /\ I \subseteq Nat
  BY <1>1
<1>3. \A i \in Nat : i \in hits <=> i + 1 \in I
  BY <1>1
<1>4. \A i \in I : i - 1 \in Nat
  BY <1>1
<1>5. Abstract!Contains(q, v) <=> I # {}
  BY DEF Abstract!Contains
<1>6. I # {} => Abstract!SelectInSeq(q, LAMBDA x : x = v) = CHOOSE i \in I : \A j \in I : i <= j
  BY DEF Abstract!SelectInSeq, Abstract!Min
<1>7. /\ GetIndex(list, v).err = EmptyOr(Ok)
      /\ GetIndex(list, v).index = IF hits = {} THEN -1
                                   ELSE CHOOSE i \in hits : \A j \in hits : i <= j
  BY <1>1 DEF GetIndex, EmptyOr
<1> HIDE DEF hits, I, q
<1>8. CASE hits = {}
  <2>1. I = {}
    BY <1>2, <1>3, <1>4, <1>8
  <2> QED
    BY <1>5, <1>7, <1>8, <2>1 DEF q
<1>9. CASE hits # {}
  <2>1. I # {}
    BY <1>2, <1>3, <1>9
  <2> DEFINE a == CHOOSE i \in hits : \A j \in hits : i <= j
             b == CHOOSE i \in I : \A j \in I : i <= j
  <2>2. a \in hits /\ \A j \in hits : a <= j
    BY <1>2, <1>9, LeastElement
  <2>3. b \in I /\ \A j \in I : b <= j
    BY <1>2, <2>1, LeastElement
  <2> HIDE DEF a, b
  <2>4. b - 1 \in hits /\ a + 1 \in I
    BY <1>2, <1>3, <1>4, <2>2, <2>3
  <2>5. a = b - 1
    BY <1>2, <2>2, <2>3, <2>4
  <2> QED
    BY <1>5, <1>6, <1>7, <1>9, <2>1, <2>5 DEF a, b, q
<1> QED
  BY <1>8, <1>9

\* Insert is the abstract one, result and error included.
LEMMA IsInsert ==
  ASSUME Inv, NEW v \in Value, NEW i \in Index, list.length < MaxLen,
         Write(Insert(list, v, i))
  PROVE  Abstract!Insert(v, i)
<1> DEFINE q == GetAll(list)
<1>1. q \in Seq(Entry) /\ Len(q) = list.length /\ list.length \in Nat /\ v \in Entry /\ i \in Int
  BY InvFacts, EntriesAreSeq
<1>2. CASE i \in 0..list.length
  <2> DEFINE p == Inserted(q, i, v, list.length)
  <2>1. Outcome(Abstract!InsertAt(q, i + 1, v), Ok)
    <3>1. Outcome(p, Ok)
      BY <1>1, <1>2, InsertCall DEF Inserted
    <3>2. Abstract!InsertAt(q, i + 1, v) = p
      <4> HIDE DEF q
      <4> QED
        BY <1>1, <1>2, InsertAtIs
    <3> HIDE DEF p
    <3> QED
      BY <3>1, <3>2
  <2> QED
    BY <1>1, <1>2, <2>1 DEF Outcome, Abstract!Insert, Abstract!Become, Nothing, Ok
<1>3. CASE i \notin 0..list.length
  <2>1. Outcome(q, ErrInvalidIndex)
    BY <1>1, <1>3, InsertCall
  <2> QED
    BY <1>1, <1>3, <2>1 DEF Outcome, Abstract!Insert, Abstract!Fail, Nothing, ErrInvalidIndex
<1> QED
  BY <1>2, <1>3

\* length is 0 exactly when there are no values.
LEMMA EmptyValues ==
  ASSUME Inv
  PROVE  (list.length = 0) <=> (GetAll(list) = <<>>)
<1>1. GetAll(list) \in Seq(Entry) /\ Len(GetAll(list)) = list.length
  BY EntriesAreSeq
<1> QED
  BY <1>1

\* removeNodeAt is the abstract Delete.
LEMMA IsDelete ==
  ASSUME Inv, NEW i \in Int, Write(RemoveNodeAt(list, i))
  PROVE  Abstract!Delete(i)
<1> DEFINE q == GetAll(list)
<1>1. q \in Seq(Entry) /\ Len(q) = list.length /\ list.length \in Nat
  BY InvFacts, EntriesAreSeq
<1>2. CASE i \in 0..(list.length - 1)
  <2> DEFINE p == [j \in 1..(list.length - 1) |-> IF j <= i THEN q[j] ELSE q[j + 1]]
  <2>1. Outcome(Abstract!RemoveAt(q, i + 1), Ok)
    <3>1. Outcome(p, Ok)
      BY <1>1, <1>2, RemoveCall
    <3>2. Abstract!RemoveAt(q, i + 1) = p
      <4> HIDE DEF q
      <4> QED
        BY <1>1, <1>2, RemoveAtIs, SMTT(30)
    <3> HIDE DEF p
    <3> QED
      BY <3>1, <3>2
  <2> QED
    BY <1>1, <1>2, <2>1 DEF Outcome, Abstract!Delete, Abstract!InRange, Abstract!Become, Nothing, Ok
<1>3. CASE i \notin 0..(list.length - 1)
  <2>1. Outcome(q, EmptyOr(ErrInvalidIndex))
    BY <1>1, <1>3, RemoveCall DEF EmptyOr
  <2>2. ~Abstract!InRange(i)
    BY <1>1, <1>3 DEF Abstract!InRange
  <2>3. EmptyOr(ErrInvalidIndex) = Abstract!IndexError
    BY EmptyValues DEF EmptyOr, Abstract!IndexError, ErrInvalidIndex, ErrEmptyList
  <2> QED
    BY <2>1, <2>2, <2>3 DEF Outcome, Abstract!Delete, Abstract!Fail, Nothing
<1> QED
  BY <1>2, <1>3

\* MoveToFirst is the abstract one.
LEMMA IsMove ==
  ASSUME Inv, NEW i \in Int, Write(MoveToFirst(list, i))
  PROVE  Abstract!MoveToFirst(i)
<1> DEFINE q == GetAll(list)
<1>1. q \in Seq(Entry) /\ Len(q) = list.length /\ list.length \in Nat
  BY InvFacts, EntriesAreSeq
<1>2. CASE i \in 0..(list.length - 1)
  <2> DEFINE p == [j \in 1..list.length |->
                      IF j = 1 THEN q[i + 1] ELSE IF j <= i + 1 THEN q[j - 1] ELSE q[j]]
  <2>1. Outcome(<<q[i + 1]>> \o Abstract!RemoveAt(q, i + 1), Ok)
    <3>1. Outcome(p, Ok)
      BY <1>2, MoveCall, Zenon
    <3>2. <<q[i + 1]>> \o Abstract!RemoveAt(q, i + 1) = p
      <4> HIDE DEF q
      <4> QED
        BY <1>1, <1>2, MovedIs, ZenonT(60)
    <3> HIDE DEF p
    <3> QED
      BY <3>1, <3>2
  <2> QED
    BY <1>1, <1>2, <2>1 DEF Outcome, Abstract!MoveToFirst, Abstract!InRange, Abstract!Become, Nothing, Ok
<1>3. CASE i \notin 0..(list.length - 1)
  <2>1. Outcome(q, ErrInvalidIndex)
    BY <1>1, <1>3, MoveCall
  <2>2. ~Abstract!InRange(i)
    BY <1>1, <1>3 DEF Abstract!InRange
  <2> QED
    BY <2>1, <2>2 DEF Outcome, Abstract!MoveToFirst, Abstract!Fail, Nothing, ErrInvalidIndex
<1> QED
  BY <1>2, <1>3

\* The three getters are the abstract Get.
LEMMA IsGet ==
  ASSUME Inv, NEW i \in Int, Read(Found(i))
  PROVE  Abstract!Get(i)
<1> DEFINE q == GetAll(list)
<1>1. Len(q) = list.length /\ list.length \in Nat /\ GetAll(list') = q
  BY InvFacts, EntriesAreSeq DEF Read
<1>2. CASE i \in 0..(list.length - 1)
  <2>1. ret' = [value |-> q[i + 1], index |-> 0, err |-> Ok]
    BY <1>2 DEF Read, Found
  <2> QED
    BY <1>1, <1>2, <2>1 DEF Abstract!Get, Abstract!InRange, Abstract!Answer, Ok
<1>3. CASE i \notin 0..(list.length - 1)
  <2>1. ret' = [value |-> NoValue, index |-> 0, err |-> EmptyOr(ErrInvalidIndex)]
    BY <1>3 DEF Read, Found
  <2>2. ~Abstract!InRange(i)
    BY <1>1, <1>3 DEF Abstract!InRange
  <2>3. EmptyOr(ErrInvalidIndex) = Abstract!IndexError
    BY EmptyValues DEF EmptyOr, Abstract!IndexError, ErrInvalidIndex, ErrEmptyList
  <2> QED
    BY <1>1, <2>1, <2>2, <2>3 DEF Abstract!Get, Abstract!Fail
<1> QED
  BY <1>2, <1>3

\* GetIndex is the abstract one.
LEMMA IsGetIndex ==
  ASSUME Inv, NEW v \in Value, CallGetIndex(v)
  PROVE  Abstract!GetIndex(v)
<1>1. GetAll(list') = GetAll(list)
  BY DEF CallGetIndex
<1>2. EmptyOr(Ok) = IF GetAll(list) = <<>> THEN "ErrEmptyList" ELSE "ok"
  BY EmptyValues DEF EmptyOr, Ok, ErrEmptyList
<1> QED
  BY <1>1, <1>2, GetIndexIs DEF CallGetIndex, Abstract!GetIndex

\* Every call of list.go is a step of SeqList.
LEMMA RefinedStep ==
  ASSUME Inv, [Next]_vars
  PROVE  [Abstract!Next]_(Abstract!vars)
<1>0. /\ list.length \in Int /\ list.length - 1 \in Int /\ 0 \in Int
      /\ list.length \in Index /\ list.length - 1 \in Index /\ 0 \in Index
  BY InvFacts DEF Index
<1>1. ASSUME NEW v \in Value, NEW i \in Index, CallInsert(v, i) PROVE Abstract!Insert(v, i)
  BY <1>1, IsInsert DEF CallInsert
<1>2. ASSUME NEW v \in Value, CallInsertLast(v) PROVE Abstract!Insert(v, list.length)
  BY <1>0, <1>2, IsInsert DEF CallInsertLast, InsertLast
<1>3. ASSUME NEW i \in Index, CallRemoveAt(i) PROVE Abstract!Delete(i)
  BY <1>3, InvFacts, IsDelete DEF CallRemoveAt
<1>4. ASSUME NEW i \in Index, CallGetAt(i) PROVE Abstract!Get(i)
  BY <1>4, InvFacts, GetAtIs, IsGet DEF CallGetAt
<1>5. ASSUME NEW i \in Index, CallMoveToFirst(i) PROVE Abstract!MoveToFirst(i)
  BY <1>5, InvFacts, IsMove DEF CallMoveToFirst
<1>6. CallRemoveFirst => Abstract!Delete(0)
  BY <1>0, RemoveFirstIsRemove, IsDelete DEF CallRemoveFirst
<1>7. CallRemoveLast => Abstract!Delete(list.length - 1)
  BY <1>0, IsDelete DEF CallRemoveLast, RemoveLast
<1>8. CallGetFirst => Abstract!Get(0)
  BY <1>0, GetEndsIs, IsGet DEF CallGetFirst
<1>9. CallGetLast => Abstract!Get(list.length - 1)
  BY <1>0, GetEndsIs, IsGet DEF CallGetLast
<1>10. UNCHANGED vars => UNCHANGED Abstract!vars
  BY DEF vars, Abstract!vars
<1>11. Abstract!Index = Index
  BY DEF Abstract!Index, Index
<1>12. CASE UNCHANGED vars
  BY <1>10, <1>12
<1>13. CASE Next
  BY <1>0, <1>1, <1>2, <1>3, <1>4, <1>5, <1>6, <1>7, <1>8, <1>9, <1>11, <1>13, IsGetIndex
     DEF Next, Abstract!Next
<1> QED
  BY <1>12, <1>13

\* Seen through GetAll, the linked list of list.go is a sequence: each method
\* does to it, and returns, what SeqList says, its errors for bad indices and
\* empty lists included.
THEOREM ListIsSequence == Spec => ImplementsSeqList
<1>1. Init => Abstract!Init
  BY DEF Init, Abstract!Init, NewLinkedList, GetAll, Nothing, Ok
<1> QED
  BY <1>1, RefinedStep, AlwaysInv, PTL DEF Spec, ImplementsSeqList, Abstract!Spec
=============================================================================
