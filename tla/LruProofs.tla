------------------------------ MODULE LruProofs ------------------------------
(***************************************************************************)
(* For every set of keys and values and every capacity: the map and the    *)
(* list of the cache agree, and the cache evicts the least recently used   *)
(* key.                                                                    *)
(***************************************************************************)
EXTENDS LruRecency, TLAPS

(***************************************************************************)
(* What the operators on the key list return.                              *)
(***************************************************************************)

\* A function on 1..n into S is a sequence of length n.
LEMMA FunctionIsSeq ==
  ASSUME NEW S, NEW n \in Nat, NEW f \in [1..n -> S]
  PROVE  f \in Seq(S) /\ Len(f) = n /\ DOMAIN f = 1..n
  OBVIOUS

\* ToFront (MoveToFirst) returns a list of the same length.
LEMMA ToFrontType ==
  ASSUME NEW S, NEW s \in Seq(S), NEW i \in 1..Len(s)
  PROVE  /\ ToFront(s, i) \in Seq(S)
         /\ Len(ToFront(s, i)) = Len(s)
         /\ \A j \in 1..Len(s) :
              ToFront(s, i)[j] = IF j = 1 THEN s[i] ELSE IF j <= i THEN s[j - 1] ELSE s[j]
  <1>1. ToFront(s, i) \in [1..Len(s) -> S]
    BY DEF ToFront
  <1> QED BY <1>1, FunctionIsSeq DEF ToFront

\* Without (RemoveAt) returns a list that is one shorter.
LEMMA WithoutType ==
  ASSUME NEW S, NEW s \in Seq(S), NEW i \in 1..Len(s)
  PROVE  /\ Without(s, i) \in Seq(S)
         /\ Len(Without(s, i)) = Len(s) - 1
         /\ \A j \in 1..(Len(s) - 1) : Without(s, i)[j] = IF j < i THEN s[j] ELSE s[j + 1]
  <1>1. Len(s) - 1 \in Nat OBVIOUS
  <1>2. Without(s, i) \in [1..(Len(s) - 1) -> S]
    BY DEF Without
  <1> QED BY <1>1, <1>2, FunctionIsSeq DEF Without

\* Push (Insert at 0) returns a list that is one longer.
LEMMA PushType ==
  ASSUME NEW S, NEW s \in Seq(S), NEW k \in S
  PROVE  /\ Push(s, k) \in Seq(S)
         /\ Len(Push(s, k)) = Len(s) + 1
         /\ \A j \in 1..(Len(s) + 1) : Push(s, k)[j] = IF j = 1 THEN k ELSE s[j - 1]
  <1>1. Len(s) + 1 \in Nat OBVIOUS
  <1>2. Push(s, k) \in [1..(Len(s) + 1) -> S]
    BY DEF Push
  <1> QED BY <1>1, <1>2, FunctionIsSeq DEF Push

\* DropLast (RemoveLast) returns all but the last element.
LEMMA DropLastType ==
  ASSUME NEW S, NEW s \in Seq(S), Len(s) > 0
  PROVE  /\ DropLast(s) \in Seq(S)
         /\ Len(DropLast(s)) = Len(s) - 1
         /\ \A j \in 1..(Len(s) - 1) : DropLast(s)[j] = s[j]
  <1>1. Len(s) - 1 \in Nat OBVIOUS
  <1>2. DropLast(s) \in [1..(Len(s) - 1) -> S]
    BY DEF DropLast
  <1> QED BY <1>1, <1>2, FunctionIsSeq DEF DropLast

\* Position (GetIndex) finds a key that is in the list, and only then.
LEMMA PositionFinds ==
  ASSUME NEW S, NEW s \in Seq(S), NEW k
  PROVE  \/ Position(s, k) \in 1..Len(s) /\ s[Position(s, k)] = k
         \/ Position(s, k) = 0 /\ \A i \in 1..Len(s) : s[i] # k
  BY DEF Position
-----------------------------------------------------------------------------
(***************************************************************************)
(* What Get and Set do to a list without duplicates.  The last conjunct of *)
(* each lemma says that the keys behind the first keep their order.        *)
(***************************************************************************)
Listed(s) == {s[i] : i \in 1..Len(s)}
Distinct(s) == \A i, j \in 1..Len(s) : s[i] = s[j] => i = j

\* From position m on, the elements of t come in the order they have in s.
KeepsOrder(s, t, m) ==
  \A i, j \in m..Len(t) : i < j =>
    \E a, b \in 1..Len(s) : a < b /\ t[i] = s[a] /\ t[j] = s[b]

LEMMA ToFrontFacts ==
  ASSUME NEW S, NEW s \in Seq(S), Distinct(s), NEW i \in 1..Len(s)
  PROVE  /\ ToFront(s, i) \in Seq(S) /\ Len(ToFront(s, i)) = Len(s)
         /\ ToFront(s, i)[1] = s[i]
         /\ Distinct(ToFront(s, i))
         /\ Listed(ToFront(s, i)) = Listed(s)
         /\ KeepsOrder(s, ToFront(s, i), 2)
  <1> DEFINE t == ToFront(s, i)
  <1>1. /\ t \in Seq(S) /\ Len(t) = Len(s)
        /\ \A j \in 1..Len(s) : t[j] = IF j = 1 THEN s[i] ELSE IF j <= i THEN s[j - 1] ELSE s[j]
    BY ToFrontType
  <1> HIDE DEF t
  <1>2. t[1] = s[i] BY <1>1
  <1>3. Distinct(t)
    <2> SUFFICES ASSUME NEW a \in 1..Len(s), NEW b \in 1..Len(s), t[a] = t[b]
                 PROVE  a = b
      BY <1>1 DEF Distinct
    <2> QED BY <1>1, SMTT(30) DEF Distinct
  <1>4. Listed(t) = Listed(s)
    <2>1. ASSUME NEW a \in 1..Len(s) PROVE t[a] \in Listed(s)
      <3>1. CASE a = 1 BY <1>1, <3>1 DEF Listed
      <3>2. CASE a # 1 /\ a <= i
        <4>1. a - 1 \in 1..Len(s) /\ t[a] = s[a - 1] BY <1>1, <3>2
        <4> QED BY <4>1 DEF Listed
      <3>3. CASE a # 1 /\ a > i BY <1>1, <3>3 DEF Listed
      <3> QED BY <3>1, <3>2, <3>3
    <2>2. ASSUME NEW a \in 1..Len(s) PROVE s[a] \in Listed(t)
      <3>1. CASE a = i
        <4>1. 1 \in 1..Len(t) /\ t[1] = s[a] BY <1>1, <3>1
        <4> QED BY <4>1 DEF Listed
      <3>2. CASE a < i
        <4>1. a + 1 \in 1..Len(t) /\ t[a + 1] = s[a] BY <1>1, <3>2
        <4> QED BY <4>1 DEF Listed
      <3>3. CASE a > i
        <4>1. a \in 1..Len(t) /\ t[a] = s[a] BY <1>1, <3>3
        <4> QED BY <4>1 DEF Listed
      <3> QED BY <3>1, <3>2, <3>3
    <2>3. Listed(t) \subseteq Listed(s) BY <2>1, <1>1 DEF Listed
    <2>4. Listed(s) \subseteq Listed(t) BY <2>2 DEF Listed
    <2> QED BY <2>3, <2>4
  <1>5. KeepsOrder(s, t, 2)
    <2> SUFFICES ASSUME NEW a \in 2..Len(t), NEW b \in 2..Len(t), a < b
                 PROVE  \E c, d \in 1..Len(s) : c < d /\ t[a] = s[c] /\ t[b] = s[d]
      BY DEF KeepsOrder
    <2> DEFINE src(j) == IF j <= i THEN j - 1 ELSE j
    <2>1. src(a) \in 1..Len(s) /\ src(b) \in 1..Len(s) /\ src(a) < src(b)
      BY <1>1
    <2>2. t[a] = s[src(a)] /\ t[b] = s[src(b)]
      BY <1>1
    <2> QED BY <2>1, <2>2
  <1> QED BY <1>1, <1>2, <1>3, <1>4, <1>5 DEF t

LEMMA WithoutFacts ==
  ASSUME NEW S, NEW s \in Seq(S), Distinct(s), NEW i \in 1..Len(s)
  PROVE  /\ Without(s, i) \in Seq(S) /\ Len(Without(s, i)) = Len(s) - 1
         /\ Distinct(Without(s, i))
         /\ Listed(Without(s, i)) = Listed(s) \ {s[i]}
         /\ KeepsOrder(s, Without(s, i), 1)
  <1> DEFINE t == Without(s, i)
  <1>1. /\ t \in Seq(S) /\ Len(t) = Len(s) - 1
        /\ \A j \in 1..(Len(s) - 1) : t[j] = IF j < i THEN s[j] ELSE s[j + 1]
    BY WithoutType
  <1> HIDE DEF t
  <1> DEFINE src(j) == IF j < i THEN j ELSE j + 1
  <1>2. \A j \in 1..Len(t) : src(j) \in 1..Len(s) /\ src(j) # i /\ t[j] = s[src(j)]
    BY <1>1, SMTT(30)
  <1>3. \A a, b \in 1..Len(t) : a < b => src(a) < src(b)
    BY <1>1
  <1>4. Distinct(t)
    <2> SUFFICES ASSUME NEW a \in 1..Len(t), NEW b \in 1..Len(t), t[a] = t[b]
                 PROVE  a = b
      BY DEF Distinct
    <2>1. src(a) = src(b) BY <1>2 DEF Distinct
    <2> QED BY <2>1, <1>1
  <1>5. Listed(t) = Listed(s) \ {s[i]}
    <2>1. Listed(t) \subseteq Listed(s) \ {s[i]}
      <3> SUFFICES ASSUME NEW a \in 1..Len(t) PROVE t[a] \in Listed(s) \ {s[i]}
        BY DEF Listed
      <3>1. src(a) \in 1..Len(s) /\ src(a) # i /\ t[a] = s[src(a)] BY <1>2
      <3> HIDE DEF src
      <3>2. t[a] # s[i] BY <3>1 DEF Distinct
      <3> QED BY <3>1, <3>2 DEF Listed
    <2>2. ASSUME NEW a \in 1..Len(s), s[a] # s[i] PROVE s[a] \in Listed(t)
      <3>1. CASE a < i
        <4>1. a \in 1..Len(t) /\ t[a] = s[a] BY <1>1, <3>1
        <4> QED BY <4>1 DEF Listed
      <3>2. CASE a > i
        <4>1. a - 1 \in 1..Len(t) /\ t[a - 1] = s[a] BY <1>1, <3>2
        <4> QED BY <4>1 DEF Listed
      <3> QED BY <3>1, <3>2, <2>2
    <2>3. Listed(s) \ {s[i]} \subseteq Listed(t) BY <2>2 DEF Listed
    <2> QED BY <2>1, <2>3
  <1>6. KeepsOrder(s, t, 1)
    <2> SUFFICES ASSUME NEW a \in 1..Len(t), NEW b \in 1..Len(t), a < b
                 PROVE  \E c, d \in 1..Len(s) : c < d /\ t[a] = s[c] /\ t[b] = s[d]
      BY DEF KeepsOrder
    <2>1. /\ src(a) \in 1..Len(s) /\ src(b) \in 1..Len(s) /\ src(a) < src(b)
          /\ t[a] = s[src(a)] /\ t[b] = s[src(b)]
      BY <1>2, <1>3
    <2> QED BY <2>1
  <1> QED BY <1>1, <1>4, <1>5, <1>6 DEF t

\* Push in front of a list that does not have the key.
LEMMA PushFacts ==
  ASSUME NEW S, NEW s \in Seq(S), Distinct(s), NEW k \in S, k \notin Listed(s)
  PROVE  /\ Push(s, k) \in Seq(S) /\ Len(Push(s, k)) = Len(s) + 1
         /\ Push(s, k)[1] = k
         /\ Distinct(Push(s, k))
         /\ Listed(Push(s, k)) = Listed(s) \cup {k}
         /\ \A a \in 2..Len(Push(s, k)) : a - 1 \in 1..Len(s) /\ Push(s, k)[a] = s[a - 1]
  <1> DEFINE t == Push(s, k)
  <1>1. /\ t \in Seq(S) /\ Len(t) = Len(s) + 1
        /\ \A j \in 1..(Len(s) + 1) : t[j] = IF j = 1 THEN k ELSE s[j - 1]
    <2>1. t \in Seq(S) BY ONLY PushType, s \in Seq(S), k \in S, Zenon
    <2>2. Len(t) = Len(s) + 1 BY ONLY PushType, s \in Seq(S), k \in S, Zenon
    <2>3. \A j \in 1..(Len(s) + 1) : t[j] = IF j = 1 THEN k ELSE s[j - 1]
      BY ONLY PushType, s \in Seq(S), k \in S, ZenonT(60)
    <2> QED BY <2>1, <2>2, <2>3, Zenon
  <1> HIDE DEF t
  <1>2. \A j \in 1..Len(s) : s[j] # k BY DEF Listed
  <1>3. t[1] = k /\ \A a \in 2..Len(t) : a - 1 \in 1..Len(s) /\ t[a] = s[a - 1]
    BY <1>1
  <1>4. Distinct(t)
    <2> SUFFICES ASSUME NEW a \in 1..Len(t), NEW b \in 1..Len(t), t[a] = t[b]
                 PROVE  a = b
      BY DEF Distinct
    <2>1. CASE a = 1 \/ b = 1
      <3>1. \A c \in 2..Len(t) : t[c] # k BY <1>2, <1>3
      <3>2. \A c \in 1..Len(t) : c = 1 \/ c \in 2..Len(t) BY <1>1
      <3> QED BY <2>1, <3>1, <3>2, <1>3
    <2>2. CASE a # 1 /\ b # 1
      <3>1. a \in 2..Len(t) /\ b \in 2..Len(t) BY <2>2, <1>1
      <3>2. a - 1 \in 1..Len(s) /\ b - 1 \in 1..Len(s) /\ s[a - 1] = s[b - 1]
        BY <3>1, <1>3
      <3>3. a - 1 = b - 1 BY <3>2 DEF Distinct
      <3> QED BY <3>1, <3>3
    <2> QED BY <2>1, <2>2
  <1>5. Listed(t) = Listed(s) \cup {k}
    <2>1. Listed(t) \subseteq Listed(s) \cup {k}
      <3> SUFFICES ASSUME NEW a \in 1..Len(t) PROVE t[a] \in Listed(s) \cup {k}
        BY DEF Listed
      <3>1. CASE a = 1 BY <3>1, <1>3
      <3>2. CASE a # 1
        <4>1. a \in 2..Len(t) BY <3>2, <1>1
        <4>2. a - 1 \in 1..Len(s) /\ t[a] = s[a - 1] BY <4>1, <1>3
        <4> QED BY <4>2 DEF Listed
      <3> QED BY <3>1, <3>2
    <2>2. ASSUME NEW a \in 1..Len(s) PROVE s[a] \in Listed(t)
      <3>1. a + 1 \in 1..Len(t) /\ t[a + 1] = s[a] BY <1>1
      <3> QED BY <3>1 DEF Listed
    <2>3. k \in Listed(t)
      <3>1. 1 \in 1..Len(t) BY <1>1
      <3> QED BY <3>1, <1>3 DEF Listed
    <2> QED BY <2>1, <2>2, <2>3 DEF Listed
  <1> QED BY <1>1, <1>3, <1>4, <1>5 DEF t

\* Set's list before the check for room.
LEMMA RenewedFacts ==
  ASSUME NEW S, NEW s \in Seq(S), Distinct(s), NEW k \in S
  PROVE  /\ Renewed(s, k) \in Seq(S)
         /\ Len(Renewed(s, k)) \in 1..(Len(s) + 1)
         /\ Renewed(s, k)[1] = k
         /\ Distinct(Renewed(s, k))
         /\ Listed(Renewed(s, k)) = Listed(s) \cup {k}
         /\ KeepsOrder(s, Renewed(s, k), 2)
  <1> DEFINE p == Position(s, k)
             base == IF p = 0 THEN s ELSE Without(s, p)
  <1>1. \/ p \in 1..Len(s) /\ s[p] = k
        \/ p = 0 /\ \A i \in 1..Len(s) : s[i] # k
    BY PositionFinds
  <1> HIDE DEF p
  <1>2. /\ base \in Seq(S) /\ Len(base) <= Len(s) /\ Distinct(base)
        /\ Listed(base) = Listed(s) \ {k}
        /\ KeepsOrder(s, base, 1)
    <2>1. CASE p = 0
      <3>1. base = s BY <2>1
      <3>2. Listed(s) = Listed(s) \ {k} BY <1>1, <2>1 DEF Listed
      <3>3. KeepsOrder(s, s, 1) BY DEF KeepsOrder
      <3> QED BY <3>1, <3>2, <3>3
    <2>2. CASE p \in 1..Len(s) /\ s[p] = k
      <3>1. base = Without(s, p) BY <2>2
      <3> HIDE DEF base
      <3>2. Len(s) - 1 <= Len(s) OBVIOUS
      <3>3. Len(base) = Len(s) - 1 BY <3>1, <2>2, WithoutFacts
      <3>4. base \in Seq(S) /\ Distinct(base) /\ Listed(base) = Listed(s) \ {k}
        BY <3>1, <2>2, WithoutFacts
      <3>5. KeepsOrder(s, base, 1) BY <3>1, <2>2, WithoutFacts
      <3> QED BY <3>2, <3>3, <3>4, <3>5
    <2> QED BY <1>1, <2>1, <2>2
  <1>3. Renewed(s, k) = Push(base, k) BY DEF Renewed, p
  <1> HIDE DEF base
  <1> DEFINE t == Push(base, k)
  <1>4. k \notin Listed(base) BY <1>2
  <1>5. /\ t \in Seq(S) /\ Len(t) = Len(base) + 1 /\ t[1] = k /\ Distinct(t)
        /\ Listed(t) = Listed(base) \cup {k}
        /\ \A a \in 2..Len(t) : a - 1 \in 1..Len(base) /\ t[a] = base[a - 1]
    BY <1>2, <1>4, PushFacts
  <1> HIDE DEF t
  <1>6. Len(t) \in 1..(Len(s) + 1) BY <1>2, <1>5
  <1>7. Listed(t) = Listed(s) \cup {k} BY <1>2, <1>5
  <1>8. KeepsOrder(s, t, 2)
    <2> SUFFICES ASSUME NEW a \in 2..Len(t), NEW b \in 2..Len(t), a < b
                 PROVE  \E c, d \in 1..Len(s) : c < d /\ t[a] = s[c] /\ t[b] = s[d]
      BY DEF KeepsOrder
    <2>1. /\ a - 1 \in 1..Len(base) /\ b - 1 \in 1..Len(base) /\ a - 1 < b - 1
          /\ t[a] = base[a - 1] /\ t[b] = base[b - 1]
      BY <1>5
    <2>2. \E c, d \in 1..Len(s) : c < d /\ base[a - 1] = s[c] /\ base[b - 1] = s[d]
      BY <2>1, <1>2 DEF KeepsOrder
    <2> QED BY <2>1, <2>2
  <1> QED BY <1>3, <1>5, <1>6, <1>7, <1>8 DEF t

LEMMA DropLastFacts ==
  ASSUME NEW S, NEW s \in Seq(S), Distinct(s), Len(s) > 0
  PROVE  /\ DropLast(s) \in Seq(S) /\ Len(DropLast(s)) = Len(s) - 1
         /\ Distinct(DropLast(s))
         /\ Listed(DropLast(s)) = Listed(s) \ {s[Len(s)]}
         /\ \A j \in 1..Len(DropLast(s)) : j \in 1..Len(s) /\ DropLast(s)[j] = s[j]
  <1> DEFINE t == DropLast(s)
  <1>1. /\ t \in Seq(S) /\ Len(t) = Len(s) - 1
        /\ \A j \in 1..(Len(s) - 1) : t[j] = s[j]
    BY DropLastType
  <1> HIDE DEF t
  <1>2. \A j \in 1..Len(t) : j \in 1..Len(s) /\ j # Len(s) /\ t[j] = s[j] BY <1>1
  <1>3. Distinct(t) BY <1>2 DEF Distinct
  <1>4. Listed(t) = Listed(s) \ {s[Len(s)]}
    <2>1. Len(s) \in 1..Len(s) OBVIOUS
    <2>2. \A j \in 1..Len(t) : t[j] \in Listed(s) /\ t[j] # s[Len(s)]
      BY <1>2, <2>1 DEF Distinct, Listed
    <2>3. \A j \in 1..Len(s) : s[j] # s[Len(s)] => s[j] \in Listed(t)
      <3> SUFFICES ASSUME NEW j \in 1..Len(s), s[j] # s[Len(s)] PROVE s[j] \in Listed(t)
        OBVIOUS
      <3>1. j \in 1..Len(t) /\ t[j] = s[j] BY <1>1
      <3> QED BY <3>1 DEF Listed
    <2> QED BY <2>2, <2>3 DEF Listed
  <1> QED BY <1>1, <1>2, <1>3, <1>4 DEF t
-----------------------------------------------------------------------------
(***************************************************************************)
(* The map and the list agree.                                             *)
(***************************************************************************)

\* Before the first call the map and the list are empty.
LEMMA InitConsistent == Init => TypeOK /\ CacheConsistent
  <1> SUFFICES ASSUME Init PROVE TypeOK /\ CacheConsistent
    OBVIOUS
  <1>1. order = <<>> /\ Len(order) = 0 /\ 1..Len(order) = {} BY DEF Init
  <1>2. TypeOK BY <1>1 DEF Init, TypeOK
  <1>3. Stored = {} BY DEF Init, Stored
  <1>4. Len(order) <= Room BY <1>1, CapAssumption DEF Room
  <1> QED BY <1>1, <1>2, <1>3, <1>4 DEF CacheConsistent, NoDuplicates, SameKeys

\* A hit of k: k is listed, and the list becomes the one ToFrontFacts
\* describes.
LEMMA HitFacts ==
  ASSUME TypeOK, CacheConsistent, NEW k \in Key, GetHit(k)
  PROVE  /\ Position(order, k) \in 1..Len(order)
         /\ order[Position(order, k)] = k
         /\ order' \in Seq(Key) /\ Len(order') = Len(order) /\ order'[1] = k
         /\ Distinct(order') /\ Listed(order') = Listed(order)
         /\ KeepsOrder(order, order', 2)
         /\ Stored' = Stored
  <1>1. order \in Seq(Key) BY DEF TypeOK
  <1>2. Distinct(order) BY DEF CacheConsistent, NoDuplicates, Distinct
  <1>3. k \in Stored BY DEF GetHit, Stored
  <1>4. \E i \in 1..Len(order) : order[i] = k BY <1>3 DEF CacheConsistent, SameKeys
  <1>5. Position(order, k) \in 1..Len(order) /\ order[Position(order, k)] = k
    BY <1>1, <1>4, PositionFinds
  <1>6. order' = ToFront(order, Position(order, k)) BY DEF GetHit
  <1>7. Stored' = Stored BY DEF GetHit, Stored
  <1> QED BY <1>1, <1>2, <1>5, <1>6, <1>7, ToFrontFacts

\* What every Set does to the map and the list before the check for room.
LEMMA SetFacts ==
  ASSUME TypeOK, CacheConsistent, NEW k \in Key, NEW keys, keys = Renewed(order, k)
  PROVE  /\ keys \in Seq(Key) /\ Len(keys) \in 1..(Len(order) + 1) /\ keys[1] = k
         /\ Distinct(keys) /\ Listed(keys) = Listed(order) \cup {k}
         /\ KeepsOrder(order, keys, 2)
         /\ Listed(order) = Stored
  <1>1. order \in Seq(Key) BY DEF TypeOK
  <1>2. Distinct(order) BY DEF CacheConsistent, NoDuplicates, Distinct
  <1>3. Listed(order) = Stored BY DEF CacheConsistent, SameKeys, Listed
  <1> DEFINE r == Renewed(order, k)
  <1>4. /\ r \in Seq(Key) /\ Len(r) \in 1..(Len(order) + 1) /\ r[1] = k
        /\ Distinct(r) /\ Listed(r) = Listed(order) \cup {k} /\ KeepsOrder(order, r, 2)
    <2>1. k \in Key OBVIOUS
    <2> QED BY ONLY <1>1, <1>2, <2>1, RenewedFacts
  <1> QED BY <1>3, <1>4

\* A Set that evicts drops the last key of the renewed list.
LEMMA EvictFacts ==
  ASSUME TypeOK, CacheConsistent, NEW k \in Key, NEW v \in Value, SetEvicts(k, v),
         NEW keys, keys = Renewed(order, k)
  PROVE  /\ order' \in Seq(Key) /\ Len(order') = Len(keys) - 1
         /\ Distinct(order') /\ Listed(order') = Listed(keys) \ {keys[Len(keys)]}
         /\ \A j \in 1..Len(order') : j \in 1..Len(keys) /\ order'[j] = keys[j]
         /\ keys[Len(keys)] \in Key
         /\ data' = [data EXCEPT ![k] = v, ![keys[Len(keys)]] = NoValue]
         /\ Stored' = (Stored \cup {k}) \ {keys[Len(keys)]}
  <1>1. /\ keys \in Seq(Key) /\ Len(keys) \in 1..(Len(order) + 1)
        /\ Distinct(keys)
    BY SetFacts
  <1>2. order' = DropLast(keys) BY DEF SetEvicts
  <1>3. Len(keys) > 0 BY <1>1
  <1>4. /\ order' \in Seq(Key) /\ Len(order') = Len(keys) - 1
        /\ Distinct(order') /\ Listed(order') = Listed(keys) \ {keys[Len(keys)]}
        /\ \A j \in 1..Len(order') : j \in 1..Len(keys) /\ order'[j] = keys[j]
    BY <1>1, <1>2, <1>3, DropLastFacts
  <1>5. keys[Len(keys)] \in Key BY <1>1, <1>3
  <1>6. data' = [data EXCEPT ![k] = v, ![keys[Len(keys)]] = NoValue] BY DEF SetEvicts
  <1>7. Stored' = (Stored \cup {k}) \ {keys[Len(keys)]}
    BY <1>5, <1>6, NoValueAssumption DEF Stored, TypeOK
  <1> QED BY <1>4, <1>5, <1>6, <1>7

\* Every call preserves the agreement of the map and the list.
LEMMA StepConsistent ==
  ASSUME TypeOK, CacheConsistent, [Next]_lruVars
  PROVE  TypeOK' /\ CacheConsistent'
  <1> USE CapAssumption, NoValueAssumption
  <1>1. ASSUME NEW k \in Key, GetHit(k) PROVE TypeOK' /\ CacheConsistent'
    <2>1. /\ order' \in Seq(Key) /\ Len(order') = Len(order)
          /\ Distinct(order') /\ Listed(order') = Listed(order) /\ Stored' = Stored
      BY <1>1, HitFacts
    <2>2. TypeOK' BY <1>1, <2>1 DEF TypeOK, GetHit
    <2>3. NoDuplicates' BY <2>1 DEF NoDuplicates, Distinct
    <2>4. SameKeys' BY <2>1 DEF CacheConsistent, SameKeys, Listed
    <2>5. Len(order') <= Room BY <2>1 DEF CacheConsistent
    <2> QED BY <2>2, <2>3, <2>4, <2>5 DEF CacheConsistent, Room
  <1>2. ASSUME NEW k \in Key, GetMiss(k) PROVE TypeOK' /\ CacheConsistent'
    BY <1>2 DEF GetMiss, TypeOK, CacheConsistent, NoDuplicates, SameKeys, Stored, Room
  <1>3. ASSUME NEW k \in Key, NEW v \in Value, SetFits(k, v)
        PROVE  TypeOK' /\ CacheConsistent'
    <2>1. /\ order' \in Seq(Key) /\ Len(order') \in 1..(Len(order) + 1)
          /\ Distinct(order') /\ Listed(order') = Stored \cup {k}
          /\ Len(order') <= Cap
      BY <1>3, SetFacts DEF SetFits
    <2>2. TypeOK' BY <1>3, <2>1 DEF TypeOK, SetFits
    <2>3. Stored' = Stored \cup {k} BY <1>3 DEF SetFits, Stored, TypeOK
    <2>4. NoDuplicates' BY <2>1 DEF NoDuplicates, Distinct
    <2>5. SameKeys' BY <2>1, <2>3 DEF SameKeys, Listed
    <2>6. Len(order') <= Room BY <2>1 DEF Room
    <2> QED BY <2>2, <2>4, <2>5, <2>6 DEF CacheConsistent, Room
  <1>4. ASSUME NEW k \in Key, NEW v \in Value, SetEvicts(k, v)
        PROVE  TypeOK' /\ CacheConsistent'
    <2> DEFINE keys == Renewed(order, k)
    <2>1. /\ Len(keys) \in 1..(Len(order) + 1) /\ Listed(keys) = Stored \cup {k}
      BY SetFacts
    <2>2. /\ order' \in Seq(Key) /\ Len(order') = Len(keys) - 1
          /\ Distinct(order') /\ Listed(order') = Listed(keys) \ {keys[Len(keys)]}
          /\ keys[Len(keys)] \in Key
          /\ data' = [data EXCEPT ![k] = v, ![keys[Len(keys)]] = NoValue]
          /\ Stored' = (Stored \cup {k}) \ {keys[Len(keys)]}
      BY <1>4, EvictFacts
    <2>3. got' = got BY <1>4 DEF SetEvicts
    <2> HIDE DEF keys
    <2>4. TypeOK' BY <2>2, <2>3 DEF TypeOK
    <2>5. NoDuplicates' BY <2>2 DEF NoDuplicates, Distinct
    <2>6. SameKeys' BY <2>1, <2>2 DEF SameKeys, Listed
    <2>7. Len(order) \in Nat /\ Len(order) <= Room BY DEF TypeOK, CacheConsistent
    <2>8. Len(order') <= Room BY <2>1, <2>2, <2>7 DEF Room
    <2> QED BY <2>4, <2>5, <2>6, <2>8 DEF CacheConsistent, Room
  <1>5. ASSUME UNCHANGED lruVars PROVE TypeOK' /\ CacheConsistent'
    BY <1>5 DEF lruVars, TypeOK, CacheConsistent, NoDuplicates, SameKeys, Stored, Room
  <1> QED BY <1>1, <1>2, <1>3, <1>4, <1>5 DEF Next

\* Get and Set (in_memory.go) keep the map and the key list in agreement,
\* without duplicates and within the capacity, whatever the keys, the values
\* and the configured capacity are.
THEOREM LruConsistent == Spec => [](TypeOK /\ CacheConsistent)
  <1>1. TypeOK /\ CacheConsistent /\ [Next]_lruVars => TypeOK' /\ CacheConsistent'
    BY StepConsistent
  <1> QED BY InitConsistent, <1>1, PTL DEF Spec
-----------------------------------------------------------------------------
(***************************************************************************)
(* The cache evicts the least recently used key.                           *)
(***************************************************************************)
HInv == HTypeOK /\ CacheConsistent /\ LeastRecentlyUsed /\ ClockBounds

\* Using k makes its time the latest of all.
LEMMA UseFacts ==
  ASSUME HInv, NEW k \in Key, Use(k)
  PROVE  /\ used' \in [Key -> Nat] /\ clock' \in Nat
         /\ used'[k] = clock'
         /\ \A u \in Key : u # k => used'[u] = used[u] /\ used'[u] < clock'
         /\ \A u \in Key : used'[u] <= clock'
         /\ clock' > 0
  BY DEF HInv, HTypeOK, ClockBounds, Use

\* A list that has the key just used in front and the others in their old
\* order is sorted by use.
LEMMA SortedAfterUse ==
  ASSUME HInv, NEW k \in Key, Use(k),
         NEW t \in Seq(Key), t[1] = k, Distinct(t), KeepsOrder(order, t, 2)
  PROVE  \A i, j \in 1..Len(t) : i < j => used'[t[i]] > used'[t[j]]
  <1> SUFFICES ASSUME NEW i \in 1..Len(t), NEW j \in 1..Len(t), i < j
               PROVE  used'[t[i]] > used'[t[j]]
    OBVIOUS
  <1>1. t[i] \in Key /\ t[j] \in Key OBVIOUS
  <1>2. t[j] # k BY DEF Distinct
  <1>3. /\ used' \in [Key -> Nat] /\ clock' \in Nat /\ used'[k] = clock'
        /\ \A u \in Key : u # k => used'[u] = used[u] /\ used'[u] < clock'
    BY UseFacts
  <1>4. CASE i = 1
    <2>1. used'[t[j]] < clock' BY <1>1, <1>2, <1>3
    <2>2. used'[t[i]] = clock' BY <1>3, <1>4
    <2>3. used'[t[j]] \in Nat BY <1>1, <1>3
    <2> QED BY <2>1, <2>2, <2>3, <1>3
  <1>5. CASE i # 1
    <2>1. i \in 2..Len(t) /\ j \in 2..Len(t) BY <1>5
    <2>2. t[i] # k BY <1>5 DEF Distinct
    <2>3. PICK a \in 1..Len(order), b \in 1..Len(order) :
            a < b /\ t[i] = order[a] /\ t[j] = order[b]
      BY <2>1 DEF KeepsOrder
    <2>4. used[order[a]] > used[order[b]]
      BY <2>3 DEF HInv, LeastRecentlyUsed, SortedByUse
    <2> QED BY <1>1, <1>2, <1>3, <2>2, <2>3, <2>4
  <1> QED BY <1>4, <1>5

\* A hit and a Set with room: nothing is evicted, k becomes the latest.
LEMMA UseKeepsOrder ==
  ASSUME HInv, NEW k \in Key, Use(k), order' \in Seq(Key), order'[1] = k,
         Distinct(order'), KeepsOrder(order, order', 2), Stored' = Stored \cup {k}
  PROVE  LeastRecentlyUsed' /\ ClockBounds'
  <1>1. /\ used' \in [Key -> Nat] /\ clock' \in Nat /\ used'[k] = clock'
        /\ \A u \in Key : u # k => used'[u] = used[u] /\ used'[u] < clock'
        /\ \A u \in Key : used'[u] <= clock'
        /\ clock' > 0
    BY UseFacts
  <1>2. SortedByUse' BY SortedAfterUse DEF SortedByUse
  <1>3. ASSUME NEW h \in Stored', NEW u \in Key \ Stored' PROVE used'[h] > used'[u]
    <2>1. u # k /\ u \in Key \ Stored /\ h \in Key BY DEF Stored
    <2>2. CASE h = k BY <1>1, <2>1, <2>2
    <2>3. CASE h # k
      <3>1. h \in Stored BY <2>3
      <3>2. used[h] > used[u] BY <2>1, <3>1 DEF HInv, LeastRecentlyUsed
      <3> QED BY <1>1, <2>1, <2>3, <3>2
    <2> QED BY <2>2, <2>3
  <1>4. ASSUME NEW h \in Key, h \in Stored' PROVE used'[h] > 0
    <2>1. CASE h = k BY <1>1, <2>1
    <2>2. CASE h # k
      <3>1. used[h] > 0 BY <1>4, <2>2 DEF HInv, ClockBounds
      <3> QED BY <1>1, <2>2, <3>1
    <2> QED BY <2>1, <2>2
  <1>5. LeastRecentlyUsed' BY <1>2, <1>3 DEF LeastRecentlyUsed
  <1>6. ClockBounds' BY <1>1, <1>4 DEF ClockBounds
  <1> QED BY <1>5, <1>6

\* A Set without room: the last key of the renewed list leaves, and it was
\* used before all the others.
LEMMA EvictsOldest ==
  ASSUME HInv, NEW k \in Key, NEW v \in Value, SetEvicts(k, v), Use(k)
  PROVE  LeastRecentlyUsed' /\ ClockBounds'
  <1> DEFINE keys == Renewed(order, k)
             last == keys[Len(keys)]
  <1>1. TypeOK /\ CacheConsistent BY DEF HInv, HTypeOK
  <1>2. /\ keys \in Seq(Key) /\ Len(keys) \in 1..(Len(order) + 1) /\ keys[1] = k
        /\ Distinct(keys) /\ Listed(keys) = Stored \cup {k}
        /\ KeepsOrder(order, keys, 2)
    BY <1>1, SetFacts
  <1>3. /\ order' \in Seq(Key) /\ Len(order') = Len(keys) - 1
        /\ Listed(order') = Listed(keys) \ {last}
        /\ \A j \in 1..Len(order') : j \in 1..Len(keys) /\ order'[j] = keys[j]
        /\ last \in Key
        /\ Stored' = (Stored \cup {k}) \ {last}
    BY <1>1, EvictFacts
  <1> HIDE DEF keys
  <1>4. /\ used' \in [Key -> Nat] /\ clock' \in Nat /\ used'[k] = clock'
        /\ \A u \in Key : u # k => used'[u] = used[u] /\ used'[u] < clock'
        /\ \A u \in Key : used'[u] <= clock'
        /\ clock' > 0
    BY UseFacts
  <1>5. \A i, j \in 1..Len(keys) : i < j => used'[keys[i]] > used'[keys[j]]
    BY <1>2, SortedAfterUse
  <1>6. SortedByUse'
    <2> SUFFICES ASSUME NEW i \in 1..Len(order'), NEW j \in 1..Len(order'), i < j
                 PROVE  used'[order'[i]] > used'[order'[j]]
      BY DEF SortedByUse
    <2> QED BY <1>3, <1>5
  <1>7. ASSUME NEW h \in Stored', NEW u \in Key \ Stored' PROVE used'[h] > used'[u]
    <2>1. h \in Listed(order') BY <1>2, <1>3
    <2>2. PICK i \in 1..Len(order') : h = order'[i] BY <2>1 DEF Listed
    <2>3. i \in 1..Len(keys) /\ i < Len(keys) /\ h = keys[i] BY <1>2, <1>3, <2>2
    <2>4. Len(keys) \in 1..Len(keys) BY <1>2
    <2>5. used'[h] > used'[last] BY <1>5, <2>3, <2>4
    <2>6. h \in Key /\ h \in Stored \cup {k} BY <1>3 DEF Stored
    <2>7. CASE u = last BY <2>5, <2>7
    <2>8. CASE u # last
      <3>1. u # k /\ u \in Key \ Stored BY <1>3, <2>8
      <3>2. CASE h = k BY <1>4, <3>1, <3>2
      <3>3. CASE h # k
        <4>1. h \in Stored BY <2>6, <3>3
        <4>2. used[h] > used[u] BY <3>1, <4>1 DEF HInv, LeastRecentlyUsed
        <4> QED BY <1>4, <2>6, <3>1, <3>3, <4>2
      <3> QED BY <3>2, <3>3
    <2> QED BY <2>7, <2>8
  <1>8. ASSUME NEW h \in Key, h \in Stored' PROVE used'[h] > 0
    <2>1. CASE h = k BY <1>4, <2>1
    <2>2. CASE h # k
      <3>1. used[h] > 0 BY <1>3, <1>8, <2>2 DEF HInv, ClockBounds
      <3> QED BY <1>4, <2>2, <3>1
    <2> QED BY <2>1, <2>2
  <1>9. LeastRecentlyUsed' BY <1>6, <1>7 DEF LeastRecentlyUsed
  <1>10. ClockBounds' BY <1>4, <1>8 DEF ClockBounds
  <1> QED BY <1>9, <1>10

LEMMA HInitInv == HInit => HInv
  <1> SUFFICES ASSUME HInit PROVE HInv
    OBVIOUS
  <1>1. TypeOK /\ CacheConsistent BY InitConsistent DEF HInit
  <1>2. Stored = {} /\ 1..Len(order) = {} BY DEF HInit, Init, Stored
  <1>3. used \in [Key -> Nat] /\ clock = 0 /\ \A k \in Key : used[k] = 0 BY DEF HInit
  <1>4. LeastRecentlyUsed BY <1>2 DEF LeastRecentlyUsed, SortedByUse
  <1>5. ClockBounds
    <2> SUFFICES ASSUME NEW k \in Key PROVE used[k] <= clock /\ (k \in Stored => used[k] > 0)
      BY DEF ClockBounds
    <2>1. used[k] = 0 /\ clock = 0 /\ k \notin Stored BY <1>2, <1>3
    <2> QED BY <2>1
  <1> QED BY <1>1, <1>3, <1>4, <1>5 DEF HInv, HTypeOK

LEMMA HStepInv ==
  ASSUME HInv, [HNext]_vars
  PROVE  HInv'
  <1>1. TypeOK /\ CacheConsistent /\ used \in [Key -> Nat] /\ clock \in Nat
    BY DEF HInv, HTypeOK
  <1>2. ASSUME NEW k \in Key, GetHit(k), Use(k) PROVE HInv'
    <2>1. TypeOK' /\ CacheConsistent' BY <1>1, <1>2, StepConsistent DEF Next
    <2>2. /\ order' \in Seq(Key) /\ order'[1] = k /\ Distinct(order')
          /\ KeepsOrder(order, order', 2) /\ Stored' = Stored
      BY <1>1, <1>2, HitFacts
    <2>3. Stored' = Stored \cup {k} BY <1>2, <2>2 DEF GetHit, Stored
    <2>4. LeastRecentlyUsed' /\ ClockBounds' BY <1>2, <2>2, <2>3, UseKeepsOrder
    <2>5. used' \in [Key -> Nat] /\ clock' \in Nat BY <1>2, UseFacts
    <2> QED BY <2>1, <2>4, <2>5 DEF HInv, HTypeOK
  <1>3. ASSUME NEW k \in Key, GetMiss(k), UNCHANGED <<used, clock>> PROVE HInv'
    <2>1. TypeOK' /\ CacheConsistent' BY <1>1, <1>3, StepConsistent DEF Next
    <2>2. order' = order /\ Stored' = Stored BY <1>3 DEF GetMiss, Stored
    <2>3. LeastRecentlyUsed' /\ ClockBounds'
      BY <1>3, <2>2 DEF HInv, LeastRecentlyUsed, SortedByUse, ClockBounds
    <2> QED BY <1>1, <1>3, <2>1, <2>3 DEF HInv, HTypeOK
  <1>4. ASSUME NEW k \in Key, NEW v \in Value, SetFits(k, v), Use(k) PROVE HInv'
    <2>1. TypeOK' /\ CacheConsistent' BY <1>1, <1>4, StepConsistent DEF Next
    <2>2. /\ order' \in Seq(Key) /\ order'[1] = k /\ Distinct(order')
          /\ KeepsOrder(order, order', 2)
      BY <1>1, <1>4, SetFacts DEF SetFits
    <2>3. Stored' = Stored \cup {k}
      BY <1>1, <1>4, NoValueAssumption DEF SetFits, Stored, TypeOK
    <2>4. LeastRecentlyUsed' /\ ClockBounds' BY <1>4, <2>2, <2>3, UseKeepsOrder
    <2>5. used' \in [Key -> Nat] /\ clock' \in Nat BY <1>4, UseFacts
    <2> QED BY <2>1, <2>4, <2>5 DEF HInv, HTypeOK
  <1>5. ASSUME NEW k \in Key, NEW v \in Value, SetEvicts(k, v), Use(k) PROVE HInv'
    <2>1. TypeOK' /\ CacheConsistent' BY <1>1, <1>5, StepConsistent DEF Next
    <2>2. LeastRecentlyUsed' /\ ClockBounds' BY <1>5, EvictsOldest
    <2>3. used' \in [Key -> Nat] /\ clock' \in Nat BY <1>5, UseFacts
    <2> QED BY <2>1, <2>2, <2>3 DEF HInv, HTypeOK
  <1>6. ASSUME UNCHANGED vars PROVE HInv'
    <2>1. TypeOK' /\ CacheConsistent' BY <1>1, <1>6, StepConsistent DEF vars, lruVars
    <2>2. order' = order /\ Stored' = Stored /\ used' = used /\ clock' = clock
      BY <1>6 DEF vars, Stored
    <2>3. LeastRecentlyUsed' /\ ClockBounds'
      BY <2>2 DEF HInv, LeastRecentlyUsed, SortedByUse, ClockBounds
    <2> QED BY <1>1, <2>1, <2>2, <2>3 DEF HInv, HTypeOK
  <1> QED BY <1>2, <1>3, <1>4, <1>5, <1>6 DEF HNext

\* After any sequence of Get and Set the key list is in order of last use
\* and no key outside the cache was used later than one inside: Set
\* (in_memory.go) evicts the least recently used key and no other, for every
\* set of keys and every capacity.
THEOREM EvictsLeastRecentlyUsed == HSpec => []LeastRecentlyUsed
  <1>1. HInv /\ [HNext]_vars => HInv' BY HStepInv
  <1>2. HInv => LeastRecentlyUsed BY DEF HInv
  <1> QED BY HInitInv, <1>1, <1>2, PTL DEF HSpec
=============================================================================
