------------------------------ MODULE ListLemmas ------------------------------
(***************************************************************************)
(* What the operations of list.go do to a list, for every list. A list is  *)
(* whole when some sequence of nodes is its chain: the links lead along it *)
(* and end in nil, length counts it, head and tail are its ends. Each      *)
(* operation is shown to keep the list whole, and to do to the values of   *)
(* GetAll what its name says.                                              *)
(*                                                                         *)
(* The walk from the head is recursive (NodeAt). What it computes is       *)
(* proved by induction over a SET of numbers, which needs no operator      *)
(* parameter: SetInduction follows from the least element of a set of      *)
(* naturals.                                                               *)
(***************************************************************************)
EXTENDS LinkedListOps, Sequences, FiniteSetTheorems, TLAPS

\* A set of naturals that is not empty has a least element.
LEMMA LeastElement ==
  ASSUME NEW T, T \subseteq Nat, T # {}
  PROVE  \E x \in T : \A y \in T : x <= y
<1> DEFINE Less == {ss \in Nat \X Nat : ss[1] < ss[2]}
<1>1. IsWellFoundedOn(Less, Nat)
  BY NatLessThanWellFounded DEF OpToRel
<1> HIDE DEF Less
<1>2. PICK x \in T : \A y \in T : ~(<<y, x>> \in Less)
  BY <1>1, WFMin
<1>3. \A y \in T : ~(y < x)
  BY <1>2 DEF Less
<1> QED
  BY <1>3

\* Induction, for a set S: what NodeAt computes (the for loops of getNodeAt
\* and recalculateTail) rests on it.
LEMMA SetInduction ==
  ASSUME NEW S, 0 \in S, \A n \in Nat : n \in S => n + 1 \in S
  PROVE  Nat \subseteq S
<1> DEFINE T == Nat \ S
<1> SUFFICES ASSUME T # {} PROVE FALSE
  OBVIOUS
<1>1. PICK x \in T : \A y \in T : x <= y
  BY LeastElement
<1>2. x - 1 \in Nat /\ x - 1 \notin T
  BY <1>1
<1> QED
  BY <1>2

\* w holds the first n + 1 nodes of the walk from the head.
IsWalk(w, l, n) == w = [j \in 0..n |-> IF j = 0 THEN l.head ELSE l.next[w[j - 1]]]

\* The loop over elem.next that starts at l.head has nodes to visit for every
\* number of steps: the recursive function in NodeAt exists.
LEMMA WalkExists ==
  ASSUME NEW l, NEW n \in Nat
  PROVE  \E w : IsWalk(w, l, n)
<1> DEFINE S == {k \in Nat : \E w : IsWalk(w, l, k)}
<1>1. 0 \in S
  <2> DEFINE w == [j \in 0..0 |-> l.head]
  <2>1. IsWalk(w, l, 0)
    BY DEF IsWalk
  <2> QED
    BY <2>1
<1>2. ASSUME NEW k \in Nat, k \in S PROVE k + 1 \in S
  <2>1. PICK w : IsWalk(w, l, k)
    BY <1>2
  <2> DEFINE v == [j \in 0..(k + 1) |-> IF j = k + 1 THEN l.next[w[k]] ELSE w[j]]
  <2>2. \A j \in 0..k : w[j] = IF j = 0 THEN l.head ELSE l.next[w[j - 1]]
    BY <2>1 DEF IsWalk
  <2>3. \A j \in 0..k : v[j] = w[j]
    OBVIOUS
  <2>4. \A j \in 0..(k + 1) : v[j] = IF j = 0 THEN l.head ELSE l.next[v[j - 1]]
    <3> TAKE j \in 0..(k + 1)
    <3>1. CASE j = k + 1
      BY <3>1, <2>3
    <3>2. CASE j = 0
      BY <3>2, <2>2
    <3>3. CASE j # 0 /\ j # k + 1
      <4>1. j \in 0..k /\ j - 1 \in 0..k
        BY <3>3
      <4> QED
        BY <4>1, <3>3, <2>2, <2>3
    <3> QED
      BY <3>1, <3>2, <3>3
  <2> HIDE DEF v
  <2>5. IsWalk(v, l, k + 1)
    BY <2>4 DEF IsWalk, v
  <2> QED
    BY <2>5
<1> HIDE DEF S
<1>3. Nat \subseteq S
  BY <1>1, <1>2, SetInduction
<1> QED
  BY <1>3 DEF S

\* Two walks over the same links visit the same nodes.
LEMMA WalkUnique ==
  ASSUME NEW l, NEW m \in Nat, NEW n \in Nat, m <= n, NEW v, NEW w,
         IsWalk(v, l, m), IsWalk(w, l, n)
  PROVE  \A j \in 0..m : v[j] = w[j]
<1> DEFINE S == {k \in Nat : k <= m => v[k] = w[k]}
<1>1. \A j \in 0..m : /\ v[j] = IF j = 0 THEN l.head ELSE l.next[v[j - 1]]
                      /\ w[j] = IF j = 0 THEN l.head ELSE l.next[w[j - 1]]
  BY DEF IsWalk
<1>2. 0 \in S
  BY <1>1
<1>3. ASSUME NEW k \in Nat, k \in S PROVE k + 1 \in S
  BY <1>1, <1>3
<1> HIDE DEF S
<1>4. Nat \subseteq S
  BY <1>2, <1>3, SetInduction
<1> QED
  BY <1>4 DEF S

\* NodeAt is the end of such a walk.
LEMMA NodeAtIsWalk ==
  ASSUME NEW l, NEW n \in Nat
  PROVE  \E w : IsWalk(w, l, n) /\ NodeAt(l, n) = w[n]
<1> DEFINE w == CHOOSE u : u = [j \in 0..n |-> IF j = 0 THEN l.head ELSE l.next[u[j - 1]]]
<1>1. NodeAt(l, n) = w[n]
  BY DEF NodeAt
<1>2. \E u : u = [j \in 0..n |-> IF j = 0 THEN l.head ELSE l.next[u[j - 1]]]
  BY WalkExists, ZenonT(60) DEF IsWalk
<1>3. w = [j \in 0..n |-> IF j = 0 THEN l.head ELSE l.next[w[j - 1]]]
  BY <1>2, Zenon
<1>4. IsWalk(w, l, n)
  BY <1>3, Zenon DEF IsWalk
<1> QED
  BY <1>1, <1>4, Zenon

\* The recursion of NodeAt: no step is the head, one step more is one link
\* more.
LEMMA NodeAtSteps ==
  ASSUME NEW l
  PROVE  /\ NodeAt(l, 0) = l.head
         /\ \A n \in Nat : NodeAt(l, n + 1) = l.next[NodeAt(l, n)]
<1>1. NodeAt(l, 0) = l.head
  BY NodeAtIsWalk DEF IsWalk
<1>2. ASSUME NEW n \in Nat PROVE NodeAt(l, n + 1) = l.next[NodeAt(l, n)]
  <2>1. PICK v : IsWalk(v, l, n) /\ NodeAt(l, n) = v[n]
    BY NodeAtIsWalk
  <2>2. PICK w : IsWalk(w, l, n + 1) /\ NodeAt(l, n + 1) = w[n + 1]
    BY NodeAtIsWalk
  <2>3. v[n] = w[n]
    BY <2>1, <2>2, WalkUnique
  <2>4. w[n + 1] = l.next[w[n]]
    BY <2>2 DEF IsWalk
  <2> QED
    BY <2>1, <2>2, <2>3, <2>4
<1> QED
  BY <1>1, <1>2

\* The lists whose values are in V.
ListOf(V) == [head : Node \cup {Nil}, tail : Node \cup {Nil}, length : Nat,
              value : [Node -> V], next : [Node -> Node \cup {Nil}]]

\* s is the sequence of the nodes linked from the head, counted from 0: no
\* node twice, nil at the end.
Path(l, s) ==
  /\ s \in [0..(l.length - 1) -> Node]
  /\ \A i, j \in 0..(l.length - 1) : s[i] = s[j] => i = j
  /\ \A i \in 0..(l.length - 1) :
       l.next[s[i]] = IF i = l.length - 1 THEN Nil ELSE s[i + 1]
  /\ l.head = IF l.length = 0 THEN Nil ELSE s[0]

\* ... and tail is the last of them.
Chain(l, s) ==
  Path(l, s) /\ l.tail = IF l.length = 0 THEN Nil ELSE s[l.length - 1]

\* What list.go keeps of its pointers and of its length field.
Whole(l) == \E s : Chain(l, s)

\* Walking i links from the head of a list with path s leads to s[i].
LEMMA PathWalk ==
  ASSUME NEW l, l.length \in Nat, NEW s, Path(l, s)
  PROVE  \A i \in 0..(l.length - 1) : NodeAt(l, i) = s[i]
<1> DEFINE S == {k \in Nat : k < l.length => NodeAt(l, k) = s[k]}
<1>1. 0 \in S
  BY NodeAtSteps, SMTT(30) DEF Chain, Path
<1>2. ASSUME NEW k \in Nat, k \in S PROVE k + 1 \in S
  <2> SUFFICES ASSUME k + 1 < l.length PROVE NodeAt(l, k + 1) = s[k + 1]
    OBVIOUS
  <2>1. NodeAt(l, k) = s[k]
    BY <1>2
  <2>2. NodeAt(l, k + 1) = l.next[NodeAt(l, k)]
    BY NodeAtSteps
  <2>3. l.next[s[k]] = s[k + 1]
    BY DEF Chain, Path
  <2> QED
    BY <2>1, <2>2, <2>3
<1> HIDE DEF S
<1>3. Nat \subseteq S
  BY <1>1, <1>2, SetInduction
<1> QED
  BY <1>3 DEF S

\* The same, for a list whose tail is right, too.
LEMMA ChainWalk ==
  ASSUME NEW l, l.length \in Nat, NEW s, Chain(l, s)
  PROVE  \A i \in 0..(l.length - 1) : NodeAt(l, i) = s[i]
  BY PathWalk DEF Chain

\* The nodes that can be reached are those of the chain.
LEMMA ChainLinked ==
  ASSUME NEW l, l.length \in Nat, NEW s, Chain(l, s)
  PROVE  /\ Linked(l) = {s[i] : i \in 0..(l.length - 1)}
         /\ Linked(l) \subseteq Node
<1>1. Linked(l) = {s[i] : i \in 0..(l.length - 1)}
  BY ChainWalk DEF Linked
<1> QED
  BY <1>1 DEF Chain, Path

\* In a whole list the length field is the number of nodes.
LEMMA LinkedCardinality ==
  ASSUME NEW l, l.length \in Nat, Whole(l)
  PROVE  Cardinality(Linked(l)) = l.length /\ IsFiniteSet(Linked(l))
<1>1. PICK s : Chain(l, s)
  BY DEF Whole
<1> DEFINE D == 0..(l.length - 1)
<1>2. IsFiniteSet(D) /\ Cardinality(D) = l.length
  <2>1. 0 \in Int /\ l.length - 1 \in Int
    OBVIOUS
  <2>2. IsFiniteSet(D) /\ Cardinality(D) = IF 0 > l.length - 1 THEN 0 ELSE (l.length - 1) - 0 + 1
    BY <2>1, FS_Interval
  <2> HIDE DEF D
  <2> QED
    BY <2>2
<1>3. s \in Bijection(D, Linked(l))
  <2>1. Linked(l) = {s[i] : i \in D}
    BY <1>1, ChainLinked
  <2>2. DOMAIN s = D /\ s \in [D -> Node] /\ \A i, j \in D : s[i] = s[j] => i = j
    BY <1>1 DEF Chain, Path
  <2> HIDE DEF D
  <2>3. s \in [D -> Linked(l)]
    BY <2>1, <2>2
  <2>4. s \in Injection(D, Linked(l))
    BY <2>2, <2>3 DEF Injection, IsInjective
  <2>5. s \in Surjection(D, Linked(l))
    BY <2>1, <2>3 DEF Surjection
  <2> QED
    BY <2>4, <2>5 DEF Bijection
<1>4. ExistsBijection(D, Linked(l))
  BY <1>3 DEF ExistsBijection
<1> HIDE DEF D
<1> QED
  BY <1>2, <1>4, FS_Bijection

\* A whole list is well formed in the sense of LinkedList and LruCache.
LEMMA WholeIsWellFormed ==
  ASSUME NilAssumption, NEW l, l.length \in Nat, Whole(l)
  PROVE  /\ Cardinality(Linked(l)) = l.length /\ Nil \notin Linked(l)
         /\ IF l.length = 0 THEN l.head = Nil /\ l.tail = Nil
            ELSE l.tail = NodeAt(l, l.length - 1) /\ l.next[l.tail] = Nil
<1>1. PICK s : Chain(l, s)
  BY DEF Whole
<1>2. Nil \notin Linked(l)
  BY <1>1, ChainLinked, NilAssumption
<1> QED
  BY <1>1, <1>2, ChainWalk, LinkedCardinality DEF Chain, Path

\* As long as there are more addresses than nodes in use, &Node{} has one to
\* give.
LEMMA FreshFacts ==
  ASSUME NEW l, l.length \in Nat, Whole(l),
         Cardinality(Node) > l.length
  PROVE  Fresh(l) \in Node /\ Fresh(l) \notin Linked(l)
<1>1. Linked(l) \subseteq Node
  BY ChainLinked DEF Whole
<1>2. Linked(l) # Node
  BY LinkedCardinality
<1> QED
  BY <1>1, <1>2 DEF Fresh

\* GetAll returns the values along the chain.
LEMMA ChainValues ==
  ASSUME NEW l, l.length \in Nat, NEW s, Chain(l, s)
  PROVE  GetAll(l) = [i \in 1..l.length |-> l.value[s[i - 1]]]
<1>1. \A i \in 1..l.length : NodeAt(l, i - 1) = s[i - 1]
  BY ChainWalk
<1> QED
  BY <1>1 DEF GetAll

\* The garbage collector changes nothing the list can tell.
LEMMA CollectFacts ==
  ASSUME NEW V, NoValue \in V, NEW l \in ListOf(V), Whole(l)
  PROVE  /\ Collect(l) \in ListOf(V) /\ Whole(Collect(l))
         /\ Collect(l).length = l.length
         /\ GetAll(Collect(l)) = GetAll(l)
<1> DEFINE m == Collect(l)
<1>1. PICK s : Chain(l, s)
  BY DEF Whole
<1>2. \A i \in 0..(l.length - 1) : s[i] \in Linked(l) /\ s[i] \in Node
  BY <1>1, ChainLinked, SMTT(30) DEF Chain, Path, ListOf
<1>3. /\ m \in ListOf(V) /\ m.length = l.length /\ m.head = l.head /\ m.tail = l.tail
      /\ \A n \in Linked(l) \cap Node : m.next[n] = l.next[n] /\ m.value[n] = l.value[n]
  BY DEF ListOf, Collect
<1> HIDE DEF m
<1>4. Chain(m, s)
  BY <1>1, <1>2, <1>3 DEF Chain, Path, ListOf
<1>5. GetAll(m) = [i \in 1..m.length |-> m.value[s[i - 1]]]
  BY <1>3, <1>4, ChainValues DEF ListOf
<1>6. GetAll(l) = [i \in 1..l.length |-> l.value[s[i - 1]]]
  BY <1>1, ChainValues DEF ListOf
<1>7. \A i \in 1..l.length : m.value[s[i - 1]] = l.value[s[i - 1]]
  BY <1>2, <1>3 DEF ListOf
<1> QED
  BY <1>3, <1>4, <1>5, <1>6, <1>7 DEF Whole, m

\* Insert with an index from 0 to the length, both included: the list stays
\* whole, one node longer, and the value is where it was asked for, in front
\* of what was there. (Its three branches, at the head, inside and at the
\* tail, set the tail only in the last.)
LEMMA InsertFacts ==
  ASSUME NEW V, NEW l \in ListOf(V), Whole(l), Cardinality(Node) > l.length,
         NEW data \in V, NEW index \in 0..l.length
  PROVE  LET m == Insert(l, data, index).list
             q == GetAll(l)
         IN  /\ Insert(l, data, index).err = Ok
             /\ m \in ListOf(V) /\ Whole(m) /\ m.length = l.length + 1
             /\ GetAll(m) = [i \in 1..(l.length + 1) |->
                               IF i <= index THEN q[i]
                               ELSE IF i = index + 1 THEN data ELSE q[i - 1]]
<1> DEFINE m == Insert(l, data, index).list
           n == Fresh(l)
           N == l.length
<1>1. PICK s : Chain(l, s)
  BY DEF Whole
<1>2. n \in Node /\ n \notin Linked(l) /\ Linked(l) = {s[i] : i \in 0..(N - 1)}
  BY <1>1, FreshFacts, ChainLinked DEF ListOf
<1>3. \A i \in 0..(N - 1) : s[i] # n /\ s[i] \in Node /\ NodeAt(l, i) = s[i]
  BY <1>1, <1>2, ChainWalk, SMTT(30) DEF ListOf, Chain, Path
<1> DEFINE t == [i \in 0..N |-> IF i < index THEN s[i] ELSE IF i = index THEN n ELSE s[i - 1]]
<1>4. N \in Nat /\ index \in Nat /\ index <= N
  BY DEF ListOf
<1>5. /\ Insert(l, data, index).err = Ok /\ m \in ListOf(V) /\ m.length = N + 1
      /\ m.value = [l.value EXCEPT ![n] = data]
      /\ m.head = IF index = 0 THEN n ELSE l.head
      /\ m.tail = IF index = N THEN n ELSE l.tail
      /\ m.next[n] = IF index = N THEN Nil ELSE s[index]
      /\ index > 0 => m.next[s[index - 1]] = n
      /\ \A i \in 0..(N - 1) : i # index - 1 => m.next[s[i]] = l.next[s[i]]
  <2> DEFINE new == [l EXCEPT !.value[n] = data, !.length = @ + 1,
                              !.tail = IF index = l.length THEN n ELSE @]
  <2>0. ~(index > l.length \/ index < 0)
    BY <1>4
  <2>n. /\ new \in ListOf(V) /\ new.value = [l.value EXCEPT ![n] = data]
        /\ new.length = N + 1 /\ new.head = l.head /\ new.next = l.next
        /\ new.tail = IF index = N THEN n ELSE l.tail
    <3> HIDE DEF n
    <3>1. l.value \in [Node -> V] /\ [l.value EXCEPT ![n] = data] \in [Node -> V]
      BY <1>2 DEF ListOf
    <3>2. (IF index = N THEN n ELSE l.tail) \in Node \cup {Nil} /\ N + 1 \in Nat
      BY <1>2 DEF ListOf
    <3> QED
      BY <3>1, <3>2 DEF ListOf
  <2>1. CASE index = 0
    <3>1. ~(index > 0 /\ index < l.length) /\ ~(index > 0 /\ index = l.length)
      BY <2>1
    <3>2. Insert(l, data, index) = Return([new EXCEPT !.next[n] = l.head, !.head = n], Ok)
      BY <2>0, <2>1, <3>1, Zenon DEF Insert
    <3>3. Insert(l, data, index).err = Ok /\ m = [new EXCEPT !.next[n] = l.head, !.head = n]
      BY <3>2 DEF Return
    <3> HIDE DEF n, new, m
    <3>4. /\ m \in ListOf(V) /\ m.length = new.length /\ m.value = new.value
          /\ m.head = n /\ m.tail = new.tail /\ m.next = [l.next EXCEPT ![n] = l.head]
      BY <1>2, <2>n, <3>3 DEF ListOf
    <3> QED
      BY <2>1, <2>n, <3>3, <3>4, <1>1, <1>2, <1>3, <1>4 DEF ListOf, Chain, Path
  <2>2. CASE index > 0 /\ index < N
    <3> DEFINE prev == NodeAt(l, index - 1)
    <3>1. ~(index = 0) /\ ~(index > 0 /\ index = l.length)
      BY <2>2, <1>4
    <3>2. Insert(l, data, index) =
            Return([new EXCEPT !.next[n] = l.next[prev], !.next[prev] = n], Ok)
      BY <2>0, <2>2, <3>1, Zenon DEF Insert
    <3>3. prev = s[index - 1] /\ prev \in Node /\ l.next[prev] = s[index] /\ s[index] \in Node
      BY <1>1, <1>3, <1>4, <2>2 DEF Chain, Path
    <3>4. \A i \in 0..(N - 1) : i # index - 1 => s[i] # prev
      BY <1>1, <1>4, <2>2, <3>3 DEF Chain, Path
    <3>5. prev # n
      BY <1>3, <1>4, <2>2, <3>3
    <3> HIDE DEF n, prev
    <3>6. /\ Insert(l, data, index).err = Ok
          /\ m = [new EXCEPT !.next[n] = l.next[prev], !.next[prev] = n]
      BY <3>2 DEF Return
    <3> HIDE DEF m, new
    <3>7. /\ m \in ListOf(V) /\ m.length = new.length /\ m.value = new.value
          /\ m.head = new.head /\ m.tail = new.tail
          /\ m.next = [l.next EXCEPT ![n] = l.next[prev], ![prev] = n]
      BY <1>2, <2>n, <3>3, <3>6 DEF ListOf
    <3> QED
      BY <1>2, <1>3, <1>4, <2>2, <2>n, <3>3, <3>4, <3>5, <3>6, <3>7 DEF ListOf
  <2>3. CASE index > 0 /\ index = N
    <3>1. ~(index = 0) /\ ~(index > 0 /\ index < l.length)
      BY <2>3, <1>4
    <3>2. Insert(l, data, index) =
            Return([new EXCEPT !.next[n] = Nil, !.next[l.tail] = n], Ok)
      BY <2>0, <2>3, <3>1, Zenon DEF Insert
    <3>3. l.tail = s[index - 1] /\ l.tail \in Node
      BY <1>1, <1>3, <1>4, <2>3 DEF Chain, Path
    <3>4. \A i \in 0..(N - 1) : i # index - 1 => s[i] # l.tail
      BY <1>1, <1>4, <2>3, <3>3 DEF Chain, Path
    <3>5. l.tail # n
      BY <1>3, <1>4, <2>3, <3>3
    <3> HIDE DEF n
    <3>6. /\ Insert(l, data, index).err = Ok
          /\ m = [new EXCEPT !.next[n] = Nil, !.next[l.tail] = n]
      BY <3>2 DEF Return
    <3> HIDE DEF m, new
    <3>7. /\ m \in ListOf(V) /\ m.length = new.length /\ m.value = new.value
          /\ m.head = new.head /\ m.tail = new.tail
          /\ m.next = [l.next EXCEPT ![n] = Nil, ![l.tail] = n]
      BY <1>2, <2>n, <3>3, <3>6 DEF ListOf
    <3> QED
      BY <1>2, <1>3, <1>4, <2>3, <2>n, <3>3, <3>4, <3>5, <3>6, <3>7 DEF ListOf
  <2> QED
    BY <2>1, <2>2, <2>3, <1>4
<1> HIDE DEF m, n
<1>6. Chain(m, t)
  <2>1. t \in [0..(m.length - 1) -> Node]
    BY <1>2, <1>3, <1>4, <1>5
  <2>2. \A i, j \in 0..(m.length - 1) : t[i] = t[j] => i = j
    <3>1. \A i, j \in 0..(N - 1) : s[i] = s[j] => i = j
      BY <1>1 DEF Chain, Path
    <3> QED
      BY <1>3, <1>4, <1>5, <3>1, SMTT(30)
  <2>3. ASSUME NEW i \in 0..(m.length - 1)
        PROVE  m.next[t[i]] = IF i = m.length - 1 THEN Nil ELSE t[i + 1]
    <3>1. m.length = N + 1 /\ i \in 0..N
      BY <1>4, <1>5
    <3>2. CASE i = index
      BY <1>4, <1>5, <3>1, <3>2
    <3>3. CASE i = index - 1
      BY <1>4, <1>5, <3>1, <3>3
    <3>4. CASE i < index - 1
      <4>1. l.next[s[i]] = s[i + 1]
        BY <1>1, <1>4, <3>1, <3>4, SMTT(30) DEF Chain, Path
      <4> QED
        BY <1>4, <1>5, <3>1, <3>4, <4>1
    <3>5. CASE i > index
      <4>1. l.next[s[i - 1]] = IF i = N THEN Nil ELSE s[i]
        BY <1>1, <1>4, <3>1, <3>5 DEF Chain, Path
      <4>2. m.next[s[i - 1]] = l.next[s[i - 1]]
        BY <1>4, <1>5, <3>1, <3>5
      <4>3. t[i] = s[i - 1] /\ (i < N => t[i + 1] = s[i])
        BY <1>4, <3>1, <3>5
      <4> QED
        BY <1>4, <3>1, <3>5, <4>1, <4>2, <4>3
    <3> QED
      BY <1>4, <3>1, <3>2, <3>3, <3>4, <3>5
  <2>4. /\ m.head = IF m.length = 0 THEN Nil ELSE t[0]
        /\ m.tail = IF m.length = 0 THEN Nil ELSE t[m.length - 1]
    BY <1>1, <1>4, <1>5 DEF Chain, Path
  <2> QED
    BY <2>1, <2>2, <2>3, <2>4 DEF Chain, Path
<1>7. GetAll(m) = [i \in 1..(N + 1) |-> m.value[t[i - 1]]]
  <2> HIDE DEF t
  <2>1. m.length \in Nat /\ m.length = N + 1
    BY <1>4, <1>5
  <2>2. GetAll(m) = [i \in 1..m.length |-> m.value[t[i - 1]]]
    BY <1>6, <2>1, ChainValues
  <2> QED
    BY <2>1, <2>2
<1>8. GetAll(l) = [i \in 1..N |-> l.value[s[i - 1]]]
  BY <1>1, <1>4, ChainValues
<1>9. \A i \in 1..(N + 1) :
        m.value[t[i - 1]] = IF i <= index THEN GetAll(l)[i]
                            ELSE IF i = index + 1 THEN data ELSE GetAll(l)[i - 1]
  <2>1. \A j \in 0..(N - 1) : m.value[s[j]] = GetAll(l)[j + 1]
    BY <1>2, <1>3, <1>4, <1>5, <1>8 DEF ListOf
  <2>2. m.value[n] = data
    BY <1>2, <1>5 DEF ListOf
  <2> TAKE i \in 1..(N + 1)
  <2>3. CASE i <= index
    <3>1. t[i - 1] = s[i - 1] /\ i - 1 \in 0..(N - 1)
      BY <1>4, <2>3
    <3> HIDE DEF t
    <3> QED
      BY <2>1, <2>3, <3>1
  <2>4. CASE i = index + 1
    <3>1. t[i - 1] = n
      BY <1>4, <2>4
    <3> HIDE DEF t
    <3> QED
      BY <1>4, <2>2, <2>4, <3>1
  <2>5. CASE i > index + 1
    <3>1. t[i - 1] = s[i - 2] /\ i - 2 \in 0..(N - 1)
      BY <1>4, <2>5
    <3> HIDE DEF t
    <3> QED
      BY <1>4, <2>1, <2>5, <3>1
  <2> QED
    BY <1>4, <2>3, <2>4, <2>5
<1> HIDE DEF t
<1>10. GetAll(m) = [i \in 1..(N + 1) |->
                      IF i <= index THEN GetAll(l)[i]
                      ELSE IF i = index + 1 THEN data ELSE GetAll(l)[i - 1]]
  BY <1>7, <1>9
<1>11. Insert(l, data, index).err = Ok /\ m \in ListOf(V) /\ m.length = N + 1
  BY <1>5
<1>12. Whole(m)
  BY <1>6, Zenon DEF Whole
<1> QED
  BY <1>10, <1>11, <1>12, Zenon DEF m

\* recalculateTail makes a whole list of one whose links are right.
LEMMA RecalculateFacts ==
  ASSUME NEW V, NEW l \in ListOf(V), NEW s, Path(l, s)
  PROVE  LET m == RecalculateTail(l)
         IN  /\ m \in ListOf(V) /\ Chain(m, s)
             /\ m.length = l.length /\ m.value = l.value
<1> DEFINE last == IF l.length <= 1 THEN l.head ELSE NodeAt(l, l.length - 1)
           m == [l EXCEPT !.tail = last]
<1>1. last = IF l.length = 0 THEN Nil ELSE s[l.length - 1]
  BY PathWalk, SMTT(30) DEF Path, ListOf
<1>2. last \in Node \cup {Nil}
  BY <1>1 DEF Path, ListOf
<1> HIDE DEF last
<1>3. /\ m \in ListOf(V) /\ m.length = l.length /\ m.value = l.value
      /\ m.head = l.head /\ m.next = l.next /\ m.tail = last
  BY <1>2 DEF ListOf
<1>4. RecalculateTail(l) = m
  BY DEF RecalculateTail, last
<1> HIDE DEF m
<1>5. Path(m, s)
  BY <1>3 DEF Path
<1>6. Chain(m, s)
  BY <1>1, <1>3, <1>5 DEF Chain
<1> QED
  BY <1>3, <1>4, <1>6

\* removeFirstNode of a list that is not empty drops the first node of the
\* chain.
LEMMA RemoveFirstFacts ==
  ASSUME NEW V, NEW l \in ListOf(V), NEW s, Chain(l, s), l.length > 0
  PROVE  LET m == RemoveFirstNode(l).list
         IN  /\ RemoveFirstNode(l).err = Ok
             /\ m \in ListOf(V) /\ m.length = l.length - 1 /\ m.value = l.value
             /\ Chain(m, [i \in 0..(l.length - 2) |-> s[i + 1]])
<1> DEFINE new == [l EXCEPT !.head = l.next[l.head], !.length = @ - 1]
           t == [i \in 0..(l.length - 2) |-> s[i + 1]]
<1>1. RemoveFirstNode(l) = [list |-> RecalculateTail(new), err |-> Ok]
  BY DEF RemoveFirstNode, Return, ListOf
<1>2. l.length \in Nat /\ l.head = s[0] /\ s[0] \in Node
  BY DEF Chain, Path, ListOf
<1>3. l.next[l.head] = IF l.length = 1 THEN Nil ELSE s[1]
  BY <1>2 DEF Chain, Path
<1>4. l.next[l.head] \in Node \cup {Nil} /\ l.length - 1 \in Nat
  BY <1>2 DEF ListOf
<1>5. /\ new \in ListOf(V) /\ new.length = l.length - 1 /\ new.value = l.value
      /\ new.next = l.next /\ new.head = IF l.length = 1 THEN Nil ELSE s[1]
  BY <1>3, <1>4 DEF ListOf
<1> HIDE DEF new
<1>6. Path(new, t)
  <2>1. t \in [0..(new.length - 1) -> Node]
    BY <1>2, <1>5 DEF Chain, Path
  <2>2. \A i, j \in 0..(new.length - 1) : t[i] = t[j] => i = j
    BY <1>2, <1>5 DEF Chain, Path
  <2>3. \A i \in 0..(new.length - 1) :
          new.next[t[i]] = IF i = new.length - 1 THEN Nil ELSE t[i + 1]
    BY <1>2, <1>5 DEF Chain, Path
  <2>4. new.head = IF new.length = 0 THEN Nil ELSE t[0]
    BY <1>2, <1>5
  <2> QED
    BY <2>1, <2>2, <2>3, <2>4 DEF Path
<1> HIDE DEF t
<1> QED
  BY <1>1, <1>5, <1>6, RecalculateFacts DEF t

\* removeNodeAt of a later node drops that node, the tail moving back when it
\* was the last.
LEMMA RemoveInnerFacts ==
  ASSUME NEW V, NEW l \in ListOf(V), NEW s, Chain(l, s), NEW index \in 1..(l.length - 1)
  PROVE  LET m == RemoveNodeAt(l, index).list
         IN  /\ RemoveNodeAt(l, index).err = Ok
             /\ m \in ListOf(V) /\ m.length = l.length - 1 /\ m.value = l.value
             /\ Chain(m, [i \in 0..(l.length - 2) |-> IF i < index THEN s[i] ELSE s[i + 1]])
<1> DEFINE prev == NodeAt(l, index - 1)
           last == IF index = l.length - 1 THEN prev ELSE l.tail
           links == [l.next EXCEPT ![prev] = l.next[l.next[prev]]]
           m == [l EXCEPT !.next = links, !.tail = last, !.length = @ - 1]
           N == l.length
           t == [i \in 0..(N - 2) |-> IF i < index THEN s[i] ELSE s[i + 1]]
<1>1. N \in Nat /\ index \in Nat /\ index > 0 /\ index < N
  BY DEF ListOf
<1>2. RemoveNodeAt(l, index) = [list |-> m, err |-> Ok]
  <2>1. ~(l.length = 0) /\ ~(index = 0) /\ ~(index < 0 \/ index >= l.length)
        /\ l.length > 0 /\ index > 0 /\ index < l.length
    BY <1>1
  <2> QED
    BY <2>1, Zenon DEF RemoveNodeAt, Return
<1>3. prev = s[index - 1] /\ prev \in Node /\ l.next[prev] = s[index] /\ s[index] \in Node
  <2>1. prev = s[index - 1]
    BY <1>1, ChainWalk
  <2> HIDE DEF prev
  <2> QED
    BY <1>1, <2>1 DEF Chain, Path
<1>4. l.next[s[index]] = IF index = N - 1 THEN Nil ELSE s[index + 1]
  BY <1>1 DEF Chain, Path
<1>5. last \in Node \cup {Nil} /\ last = IF index = N - 1 THEN s[index - 1] ELSE s[N - 1]
  BY <1>1, <1>3 DEF ListOf, Chain
<1>6. links \in [Node -> Node \cup {Nil}]
  BY <1>3 DEF ListOf
<1> HIDE DEF prev, last, links
<1>7. /\ m \in ListOf(V) /\ m.length = N - 1 /\ m.value = l.value
      /\ m.head = l.head /\ m.tail = last
      /\ m.next = links
  <2>1. last \in Node \cup {Nil} /\ l.length - 1 \in Nat
    BY <1>1, <1>5
  <2> QED
    BY <1>6, <2>1 DEF ListOf
<1> HIDE DEF m
<1> USE DEF links
<1>8. Chain(m, t)
  <2>1. t \in [0..(m.length - 1) -> Node]
    BY <1>1, <1>7 DEF Chain, Path
  <2>2. \A i, j \in 0..(m.length - 1) : t[i] = t[j] => i = j
    BY <1>1, <1>7, SMTT(30) DEF Chain, Path
  <2>3. ASSUME NEW i \in 0..(m.length - 1)
        PROVE  m.next[t[i]] = IF i = m.length - 1 THEN Nil ELSE t[i + 1]
    <3>1. CASE i = index - 1
      BY <1>1, <1>3, <1>4, <1>7, <3>1 DEF ListOf
    <3>2. CASE i < index - 1
      <4>1. s[i] # prev /\ s[i] \in Node /\ l.next[s[i]] = s[i + 1]
        BY <1>1, <1>3, <3>2 DEF Chain, Path
      <4> QED
        BY <1>1, <1>7, <3>2, <4>1 DEF ListOf
    <3>3. CASE i > index - 1
      <4>1. /\ s[i + 1] # prev /\ s[i + 1] \in Node
            /\ l.next[s[i + 1]] = IF i + 1 = N - 1 THEN Nil ELSE s[i + 2]
        <5>1. /\ i + 1 \in 0..(N - 1) /\ index - 1 \in 0..(N - 1) /\ i + 1 # index - 1
              /\ (i + 1) + 1 = i + 2
          BY <1>1, <1>7, <3>3
        <5>2. s[i + 1] # s[index - 1]
          BY <5>1 DEF Chain, Path
        <5>3. s[i + 1] \in Node
          BY <5>1 DEF Chain, Path
        <5>4. l.next[s[i + 1]] = IF i + 1 = N - 1 THEN Nil ELSE s[(i + 1) + 1]
          BY <5>1 DEF Chain, Path
        <5> QED
          BY <1>3, <5>1, <5>2, <5>3, <5>4
      <4>2. l.next \in [Node -> Node \cup {Nil}]
        BY DEF ListOf
      <4>3. m.next[s[i + 1]] = l.next[s[i + 1]]
        BY <1>7, <4>1, <4>2
      <4>4. t[i] = s[i + 1] /\ (i < N - 2 => t[i + 1] = s[i + 2])
        BY <1>1, <1>7, <3>3
      <4> HIDE DEF t, links
      <4> QED
        BY <1>1, <1>7, <3>3, <4>1, <4>3, <4>4
    <3> QED
      BY <1>1, <3>1, <3>2, <3>3
  <2>4. /\ m.head = IF m.length = 0 THEN Nil ELSE t[0]
        /\ m.tail = IF m.length = 0 THEN Nil ELSE t[m.length - 1]
    BY <1>1, <1>5, <1>7 DEF Chain, Path
  <2> QED
    BY <2>1, <2>2, <2>3, <2>4 DEF Chain, Path
<1> QED
  BY <1>2, <1>7, <1>8

\* removeNodeAt with an index in range: the list stays whole, one node
\* shorter, and lost the value at that index.
LEMMA RemoveFacts ==
  ASSUME NEW V, NEW l \in ListOf(V), Whole(l), NEW index \in 0..(l.length - 1)
  PROVE  LET m == RemoveNodeAt(l, index).list
             q == GetAll(l)
         IN  /\ RemoveNodeAt(l, index).err = Ok
             /\ m \in ListOf(V) /\ Whole(m) /\ m.length = l.length - 1
             /\ GetAll(m) = [i \in 1..(l.length - 1) |->
                               IF i <= index THEN q[i] ELSE q[i + 1]]
<1> DEFINE m == RemoveNodeAt(l, index).list
           N == l.length
<1>1. PICK s : Chain(l, s)
  BY DEF Whole
<1>2. N \in Nat /\ N > 0 /\ index \in Nat /\ index < N
  BY DEF ListOf
<1> DEFINE t == [i \in 0..(N - 2) |-> IF i < index THEN s[i] ELSE s[i + 1]]
<1>3. /\ RemoveNodeAt(l, index).err = Ok /\ m \in ListOf(V)
      /\ m.length = N - 1 /\ m.value = l.value /\ Chain(m, t)
  <2>1. CASE index = 0
    <3>1. RemoveNodeAt(l, index) = RemoveFirstNode(l)
      <4>1. ~(l.length = 0) /\ l.length > 0 /\ ~(index < 0 \/ index >= l.length)
            /\ ~(index > 0)
        BY <1>2, <2>1
      <4> QED
        BY <2>1, <4>1, Zenon DEF RemoveNodeAt
    <3>2. t = [i \in 0..(N - 2) |-> s[i + 1]]
      BY <2>1
    <3> HIDE DEF t
    <3> QED
      BY <1>1, <1>2, <3>1, <3>2, RemoveFirstFacts
  <2>2. CASE index # 0
    BY <1>1, <1>2, <2>2, RemoveInnerFacts
  <2> QED
    BY <2>1, <2>2
<1> HIDE DEF m
<1>4. GetAll(m) = [i \in 1..m.length |-> m.value[t[i - 1]]]
  <2> HIDE DEF t
  <2> QED
    BY <1>3, ChainValues DEF ListOf
<1>5. GetAll(l) = [i \in 1..N |-> l.value[s[i - 1]]]
  BY <1>1, <1>2, ChainValues
<1>6. \A i \in 1..(N - 1) :
        m.value[t[i - 1]] = IF i <= index THEN GetAll(l)[i] ELSE GetAll(l)[i + 1]
  BY <1>2, <1>3, <1>5
<1> QED
  BY <1>3, <1>4, <1>6 DEF Whole, m

\* getNodeAt with an index in range returns the node there, by the tail or by
\* walking.
LEMMA GetNodeFacts ==
  ASSUME NEW l, l.length \in Nat, NEW s, Chain(l, s), NEW index \in 0..(l.length - 1)
  PROVE  GetNodeAt(l, index) = [node |-> s[index], err |-> Ok]
<1>1. NodeAt(l, index) = s[index] /\ l.tail = s[l.length - 1]
  BY ChainWalk DEF Chain
<1>2. ~(l.length = 0) /\ ~(index # 0 /\ (index < 0 \/ index >= l.length))
  OBVIOUS
<1>3. CASE index > 0 /\ index = l.length - 1
  <2>1. GetNodeAt(l, index) = [node |-> l.tail, err |-> Ok]
    <3>1. l.length > 0
      BY <1>3
    <3> QED
      BY <1>2, <1>3, <3>1, Zenon DEF GetNodeAt
  <2> QED
    BY <1>1, <1>3, <2>1
<1>4. CASE ~(index > 0 /\ index = l.length - 1)
  <2>1. GetNodeAt(l, index) = [node |-> NodeAt(l, index), err |-> Ok]
    BY <1>2, <1>4, Zenon DEF GetNodeAt
  <2> QED
    BY <1>1, <2>1
<1> QED
  BY <1>3, <1>4

\* The chain s with its element number from put in front.
Rotated(s, from) ==
  [i \in DOMAIN s |-> IF i = 0 THEN s[from] ELSE IF i <= from THEN s[i - 1] ELSE s[i]]

\* The three stores of MoveToFirst relink the chain in that order.
LEMMA MovedPath ==
  ASSUME NEW V, NEW l \in ListOf(V), NEW s, Chain(l, s), NEW from \in 1..(l.length - 1),
         NEW m, m.length = l.length, m.head = s[from],
         m.next = [l.next EXCEPT ![s[from]] = l.head, ![s[from - 1]] = l.next[s[from]]]
  PROVE  Path(m, Rotated(s, from))
<1> DEFINE N == l.length
           t == Rotated(s, from)
<1>1. N \in Nat /\ from \in Nat /\ from > 0 /\ from < N /\ DOMAIN s = 0..(N - 1)
  BY DEF ListOf, Chain, Path
<1>2. /\ t = [i \in 0..(N - 1) |-> IF i = 0 THEN s[from] ELSE IF i <= from THEN s[i - 1] ELSE s[i]]
      /\ \A i \in 0..(N - 1) : s[i] \in Node
      /\ \A i, j \in 0..(N - 1) : s[i] = s[j] => i = j
      /\ \A i \in 0..(N - 1) : l.next[s[i]] = IF i = N - 1 THEN Nil ELSE s[i + 1]
      /\ l.head = s[0]
  BY <1>1 DEF Rotated, Chain, Path
<1> HIDE DEF t
<1>3. /\ m.next[s[from]] = s[0]
      /\ m.next[s[from - 1]] = l.next[s[from]]
      /\ \A i \in 0..(N - 1) : i # from /\ i # from - 1 => m.next[s[i]] = l.next[s[i]]
  BY <1>1, <1>2 DEF ListOf
<1>4. t \in [0..(m.length - 1) -> Node] /\ m.head = t[0]
  BY <1>1, <1>2
<1>5. \A i, j \in 0..(m.length - 1) : t[i] = t[j] => i = j
  BY <1>1, <1>2
<1>6. ASSUME NEW i \in 0..(m.length - 1)
      PROVE  m.next[t[i]] = IF i = m.length - 1 THEN Nil ELSE t[i + 1]
  <2>1. CASE i = 0
    BY <1>1, <1>2, <1>3, <2>1
  <2>2. CASE i > 0 /\ i < from
    <3>1. t[i] = s[i - 1] /\ t[i + 1] = s[i]
      BY <1>1, <1>2, <2>2
    <3>2. m.next[s[i - 1]] = l.next[s[i - 1]]
      BY <1>1, <1>3, <2>2, SMTT(30)
    <3>3. l.next[s[i - 1]] = s[i]
      BY <1>1, <1>2, <2>2
    <3> QED
      BY <1>1, <2>2, <3>1, <3>2, <3>3
  <2>3. CASE i = from
    <3>1. t[i] = s[from - 1] /\ (i < N - 1 => t[i + 1] = s[i + 1])
      BY <1>1, <1>2, <2>3
    <3> QED
      BY <1>1, <1>2, <1>3, <2>3, <3>1
  <2>4. CASE i > from
    <3>1. t[i] = s[i] /\ (i < N - 1 => t[i + 1] = s[i + 1])
      BY <1>1, <1>2, <2>4
    <3>2. m.next[s[i]] = l.next[s[i]]
      BY <1>1, <1>3, <2>4
    <3>3. l.next[s[i]] = IF i = N - 1 THEN Nil ELSE s[i + 1]
      BY <1>1, <1>2, <2>4
    <3> QED
      BY <1>1, <2>4, <3>1, <3>2, <3>3, SMTT(30)
  <2> QED
    BY <1>1, <2>1, <2>2, <2>3, <2>4
<1> QED
  BY <1>1, <1>4, <1>5, <1>6, SMTT(30) DEF Path, t

\* The n values of q with the one at the index from in front.
Fronted(q, n, from) ==
  [i \in 1..n |-> IF i = 1 THEN q[from + 1] ELSE IF i <= from + 1 THEN q[i - 1] ELSE q[i]]

\* ... and the values move as their nodes do.
LEMMA RotatedValues ==
  ASSUME NEW l, NEW m, l.length \in Nat, m.length = l.length, m.value = l.value,
         NEW s, Chain(l, s), NEW from \in 1..(l.length - 1), Chain(m, Rotated(s, from))
  PROVE  GetAll(m) = Fronted(GetAll(l), l.length, from)
<1> DEFINE t == Rotated(s, from)
<1>1. GetAll(m) = [i \in 1..m.length |-> m.value[t[i - 1]]]
  <2> HIDE DEF t
  <2> QED
    BY ChainValues DEF t
<1>2. GetAll(l) = [i \in 1..l.length |-> l.value[s[i - 1]]]
  BY ChainValues
<1>3. \A i \in 0..(l.length - 1) :
        t[i] = IF i = 0 THEN s[from] ELSE IF i <= from THEN s[i - 1] ELSE s[i]
  BY DEF Rotated, Chain, Path
<1> HIDE DEF t
<1>4. \A i \in 1..l.length :
        m.value[t[i - 1]] = IF i = 1 THEN GetAll(l)[from + 1]
                            ELSE IF i <= from + 1 THEN GetAll(l)[i - 1] ELSE GetAll(l)[i]
  <2> TAKE i \in 1..l.length
  <2>1. /\ i - 1 \in 0..(l.length - 1) /\ from \in 0..(l.length - 1)
        /\ \A j \in 0..(l.length - 1) : l.value[s[j]] = GetAll(l)[j + 1]
    BY <1>2
  <2>2. CASE i = 1
    BY <1>3, <2>1, <2>2
  <2>3. CASE i # 1 /\ i <= from + 1
    <3>1. t[i - 1] = s[i - 2] /\ i - 2 \in 0..(l.length - 1) /\ (i - 2) + 1 = i - 1
      BY <1>3, <2>1, <2>3
    <3> QED
      BY <2>1, <2>3, <3>1
  <2>4. CASE i > from + 1
    <3>1. t[i - 1] = s[i - 1] /\ (i - 1) + 1 = i /\ i # 1
      BY <1>3, <2>1, <2>4
    <3> QED
      BY <2>1, <2>4, <3>1
  <2> QED
    BY <2>2, <2>3, <2>4
<1> QED
  BY <1>1, <1>4 DEF Fronted

\* MoveToFirst with an index in range: the list stays whole and as long, and
\* the value at that index comes first, the others in the order they had.
LEMMA MoveFacts ==
  ASSUME NEW V, NEW l \in ListOf(V), Whole(l), NEW from \in 0..(l.length - 1)
  PROVE  LET m == MoveToFirst(l, from).list
             q == GetAll(l)
         IN  /\ MoveToFirst(l, from).err = Ok
             /\ m \in ListOf(V) /\ Whole(m) /\ m.length = l.length
             /\ GetAll(m) = [i \in 1..l.length |->
                               IF i = 1 THEN q[from + 1]
                               ELSE IF i <= from + 1 THEN q[i - 1] ELSE q[i]]
<1>1. PICK s : Chain(l, s)
  BY DEF Whole
<1>2. l.length \in Nat /\ from \in Nat /\ from < l.length
  BY DEF ListOf
<1>3. CASE from = 0
  <2>1. MoveToFirst(l, from) = [list |-> l, err |-> Ok]
    <3>1. ~(from < 0 \/ from >= l.length) /\ ~(from > 0)
      BY <1>2, <1>3
    <3> QED
      BY <1>2, <1>3, <3>1, Zenon DEF MoveToFirst, Return
  <2>2. \A i \in 1..l.length : GetAll(l)[i] = IF i = 1 THEN GetAll(l)[from + 1]
                                  ELSE IF i <= from + 1 THEN GetAll(l)[i - 1] ELSE GetAll(l)[i]
    BY <1>3
  <2>3. GetAll(l) = [i \in 1..l.length |-> GetAll(l)[i]]
    BY DEF GetAll
  <2>4. GetAll(l) = Fronted(GetAll(l), l.length, from)
    BY <2>2, <2>3 DEF Fronted
  <2>5. MoveToFirst(l, from).list = l /\ MoveToFirst(l, from).err = Ok
    BY <2>1
  <2> QED
    BY <2>4, <2>5, Zenon DEF Fronted
<1>4. CASE from > 0
  <2> DEFINE prev == GetNodeAt(l, from - 1).node
             node == l.next[prev]
             new == [l EXCEPT !.head = node, !.next[node] = l.head, !.next[prev] = l.next[node]]
             m == RecalculateTail(new)
  <2>1. MoveToFirst(l, from) = [list |-> m, err |-> Ok]
    <3>1. ~(from < 0 \/ from >= l.length) /\ ~(from = 0)
      BY <1>2, <1>4
    <3> QED
      BY <1>2, <1>4, <3>1, Zenon DEF MoveToFirst, Return
  <2>2. prev = s[from - 1]
    BY <1>1, <1>2, <1>4, GetNodeFacts
  <2> HIDE DEF prev
  <2>3. node = s[from] /\ node \in Node /\ prev \in Node
    BY <1>1, <1>2, <1>4, <2>2, SMTT(30) DEF Chain, Path
  <2> HIDE DEF node
  <2>4. /\ new \in ListOf(V) /\ new.length = l.length /\ new.value = l.value
        /\ new.head = node
        /\ new.next = [l.next EXCEPT ![node] = l.head, ![prev] = l.next[node]]
    BY <2>3 DEF ListOf
  <2> HIDE DEF new
  <2>5. Path(new, Rotated(s, from))
    <3>1. /\ Chain(l, s) /\ from \in 1..(l.length - 1)
          /\ new.length = l.length /\ new.head = s[from]
          /\ new.next = [l.next EXCEPT ![s[from]] = l.head, ![s[from - 1]] = l.next[s[from]]]
      BY <1>1, <1>2, <1>4, <2>2, <2>3, <2>4
    <3> QED
      BY <3>1, MovedPath
  <2>6. /\ m \in ListOf(V) /\ Chain(m, Rotated(s, from))
        /\ m.length = l.length /\ m.value = l.value
    BY <2>4, <2>5, RecalculateFacts
  <2> HIDE DEF m
  <2>7. from \in 1..(l.length - 1)
    BY <1>2, <1>4
  <2>8. GetAll(m) = Fronted(GetAll(l), l.length, from)
    BY <1>1, <1>2, <2>6, <2>7, RotatedValues
  <2>9. MoveToFirst(l, from).list = m /\ MoveToFirst(l, from).err = Ok /\ Whole(m)
    BY <2>1, <2>6 DEF Whole
  <2> QED
    BY <2>6, <2>8, <2>9, Zenon DEF Fronted
<1> QED
  BY <1>2, <1>3, <1>4

\* GetIndex returns -1 for a value that is not in the list, and otherwise a
\* position that holds it.
LEMMA GetIndexFacts ==
  ASSUME NEW l, l.length \in Nat, NEW v
  PROVE  LET q == GetAll(l)
             r == GetIndex(l, v).index
         IN  \/ r = -1 /\ \A i \in 1..l.length : q[i] # v
             \/ r \in 0..(l.length - 1) /\ q[r + 1] = v
<1> DEFINE hits == {i \in 0..(l.length - 1) : l.value[NodeAt(l, i)] = v}
           q == GetAll(l)
<1>1. \A i \in 0..(l.length - 1) : q[i + 1] = l.value[NodeAt(l, i)]
  BY DEF GetAll
<1>2. CASE hits = {}
  <2>1. GetIndex(l, v).index = -1
    BY <1>2 DEF GetIndex
  <2>2. ASSUME NEW i \in 1..l.length PROVE q[i] # v
    <3>1. i - 1 \in 0..(l.length - 1) /\ i - 1 \notin hits
      BY <1>2
    <3>2. q[i] = l.value[NodeAt(l, i - 1)]
      BY <1>1, <3>1
    <3> QED
      BY <3>1, <3>2
  <2> QED
    BY <2>1, <2>2
<1>3. CASE hits # {}
  <2> DEFINE r == CHOOSE i \in hits : \A j \in hits : i <= j
  <2>1. GetIndex(l, v).index = r
    BY <1>3 DEF GetIndex
  <2>2. r \in hits
    <3>1. hits \subseteq Nat
      OBVIOUS
    <3> HIDE DEF hits
    <3> QED
      BY <1>3, <3>1, LeastElement
  <2> HIDE DEF r
  <2> QED
    BY <1>1, <2>1, <2>2
<1> QED
  BY <1>2, <1>3

\* GetLast reads the last value through the tail.
LEMMA LastValue ==
  ASSUME NEW l, l.length \in Nat, l.length > 0, Whole(l)
  PROVE  GetLast(l).value = GetAll(l)[l.length]
<1>1. PICK s : Chain(l, s)
  BY DEF Whole
<1>2. GetAll(l) = [i \in 1..l.length |-> l.value[s[i - 1]]]
  BY <1>1, ChainValues
<1>3. l.tail = s[l.length - 1]
  BY <1>1 DEF Chain
<1> QED
  BY <1>2, <1>3 DEF GetLast

\* Lists with the same fields are the same list.
LEMMA SameList ==
  ASSUME NEW V, NEW l \in ListOf(V), NEW m \in ListOf(V),
         l.head = m.head, l.tail = m.tail, l.length = m.length,
         l.value = m.value, l.next = m.next
  PROVE  l = m
  BY DEF ListOf

\* GetAll of a whole list is a sequence as long as the list.
LEMMA ValuesAreSeq ==
  ASSUME NEW V, NEW l \in ListOf(V), Whole(l)
  PROVE  GetAll(l) \in Seq(V) /\ Len(GetAll(l)) = l.length
<1>1. PICK s : Chain(l, s)
  BY DEF Whole
<1>2. l.length \in Nat /\ l.value \in [Node -> V]
  BY DEF ListOf
<1>3. \A i \in 1..l.length : s[i - 1] \in Node
  BY <1>1, <1>2 DEF Chain, Path
<1>4. GetAll(l) \in [1..l.length -> V]
  BY <1>1, <1>2, <1>3, ChainValues
<1> QED
  BY <1>2, <1>4
=============================================================================
