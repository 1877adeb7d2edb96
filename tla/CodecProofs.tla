---------------------------- MODULE CodecProofs ----------------------------
(***************************************************************************)
(* What the documents of ApiCodec say, for every document. A decoder walks *)
(* along the members; what it has after each of them is proved by          *)
(* induction over a set of numbers.                                        *)
(***************************************************************************)
EXTENDS ApiCodec, NaturalsInduction, WellFoundedInduction, TLAPS

\* A set of naturals that is not empty has a least element.
LEMMA LeastNumber ==
  ASSUME NEW T, T \subseteq Nat, T # {}
  PROVE  \E x \in T : \A y \in T : x <= y
<1> DEFINE Less == {ss \in Nat \X Nat : ss[1] < ss[2]}
<1>1. IsWellFoundedOn(Less, Nat)
  BY NatLessThanWellFounded DEF OpToRel
<1> HIDE DEF Less
<1>2. PICK x \in T : \A y \in T : ~(<<y, x>> \in Less)
  BY <1>1, WFMin
<1>3. \A y \in T : ~(y < x)
  BY <1>2 DEF Less
<1> QED
  BY <1>3

\* Induction, for a set S.
LEMMA SetInduction ==
  ASSUME NEW S, 0 \in S, \A n \in Nat : n \in S => n + 1 \in S
  PROVE  Nat \subseteq S
<1> DEFINE T == Nat \ S
<1> SUFFICES ASSUME T # {} PROVE FALSE
  OBVIOUS
<1>1. PICK x \in T : \A y \in T : x <= y
  BY LeastNumber
<1>2. x - 1 \in Nat /\ x - 1 \notin T
  BY <1>1
<1> QED
  BY <1>2
-----------------------------------------------------------------------------
(***************************************************************************)
(* The walks: the recursive functions of ApiCodec exist.                   *)
(***************************************************************************)
\* w[n] is what Kept has of the first n members.
Keeping(w, doc, keys, n) ==
  w = [j \in 0..n |-> IF j = 0 THEN <<>> ELSE Keep(w[j - 1], doc[j], keys)]

\* Kept comes to its end.
LEMMA KeepingExists ==
  ASSUME NEW doc, NEW n \in Nat, NEW keys
  PROVE  \E w : Keeping(w, doc, keys, n)
<1> DEFINE S == {k \in Nat : \E w : Keeping(w, doc, keys, k)}
<1>1. 0 \in S
  <2>1. Keeping([j \in 0..0 |-> <<>>], doc, keys, 0)
    BY DEF Keeping
  <2> QED
    BY <2>1
<1>2. ASSUME NEW k \in Nat, k \in S PROVE k + 1 \in S
  <2>1. PICK w : Keeping(w, doc, keys, k)
    BY <1>2
  <2> DEFINE v == [j \in 0..(k + 1) |-> IF j = k + 1 THEN Keep(w[k], doc[k + 1], keys) ELSE w[j]]
  <2>2. \A j \in 0..k : w[j] = IF j = 0 THEN <<>> ELSE Keep(w[j - 1], doc[j], keys)
    BY <2>1 DEF Keeping
  <2>3. (\A j \in 0..k : v[j] = w[j]) /\ v[k + 1] = Keep(w[k], doc[k + 1], keys)
    OBVIOUS
  <2>4. \A j \in 0..(k + 1) : v[j] = IF j = 0 THEN <<>> ELSE Keep(v[j - 1], doc[j], keys)
    <3> HIDE DEF v
    <3> TAKE j \in 0..(k + 1)
    <3>1. CASE j = k + 1
      BY <2>3, <3>1
    <3>2. CASE j \in 0..k
      BY <2>2, <2>3, <3>2
    <3> QED
      BY <3>1, <3>2
  <2>5. v = [j \in 0..(k + 1) |-> v[j]]
    OBVIOUS
  <2> HIDE DEF v
  <2>6. Keeping(v, doc, keys, k + 1)
    BY <2>4, <2>5 DEF Keeping
  <2> QED
    BY <2>6
<1> HIDE DEF S
<1>3. Nat \subseteq S
  BY <1>1, <1>2, SetInduction
<1> QED
  BY <1>3 DEF S

\* w[n] is what DecodeFields has after n members.
FieldWalk(w, doc, names, begin, n) ==
  w = [j \in 0..n |-> IF j = 0 THEN begin ELSE DecodeField(w[j - 1], doc[j], names)]

\* Decode of a struct of scalars comes to its end.
LEMMA FieldWalkExists ==
  ASSUME NEW doc, NEW n \in Nat, NEW names, NEW begin
  PROVE  \E w : FieldWalk(w, doc, names, begin, n)
<1> DEFINE S == {k \in Nat : \E w : FieldWalk(w, doc, names, begin, k)}
<1>1. 0 \in S
  <2>1. FieldWalk([j \in 0..0 |-> begin], doc, names, begin, 0)
    BY DEF FieldWalk
  <2> QED
    BY <2>1
<1>2. ASSUME NEW k \in Nat, k \in S PROVE k + 1 \in S
  <2>1. PICK w : FieldWalk(w, doc, names, begin, k)
    BY <1>2
  <2> DEFINE v == [j \in 0..(k + 1) |-> IF j = k + 1 THEN DecodeField(w[k], doc[k + 1], names) ELSE w[j]]
  <2>2. \A j \in 0..k : w[j] = IF j = 0 THEN begin ELSE DecodeField(w[j - 1], doc[j], names)
    BY <2>1 DEF FieldWalk
  <2>3. (\A j \in 0..k : v[j] = w[j]) /\ v[k + 1] = DecodeField(w[k], doc[k + 1], names)
    OBVIOUS
  <2>4. \A j \in 0..(k + 1) : v[j] = IF j = 0 THEN begin ELSE DecodeField(v[j - 1], doc[j], names)
    <3> HIDE DEF v
    <3> TAKE j \in 0..(k + 1)
    <3>1. CASE j = k + 1
      BY <2>3, <3>1
    <3>2. CASE j \in 0..k
      BY <2>2, <2>3, <3>2
    <3> QED
      BY <3>1, <3>2
  <2>5. v = [j \in 0..(k + 1) |-> v[j]]
    OBVIOUS
  <2> HIDE DEF v
  <2>6. FieldWalk(v, doc, names, begin, k + 1)
    BY <2>4, <2>5 DEF FieldWalk
  <2> QED
    BY <2>6
<1> HIDE DEF S
<1>3. Nat \subseteq S
  BY <1>1, <1>2, SetInduction
<1> QED
  BY <1>3 DEF S

\* w[n] is what DecodeElems has after n elements.
ElemWalk(w, doc, n) ==
  w = [j \in 0..n |-> IF j = 0 THEN Got(<<>>) ELSE DecodeElem(w[j - 1], doc[j])]

\* d.Arr comes to its end.
LEMMA ElemWalkExists ==
  ASSUME NEW doc, NEW n \in Nat
  PROVE  \E w : ElemWalk(w, doc, n)
<1> DEFINE S == {k \in Nat : \E w : ElemWalk(w, doc, k)}
<1>1. 0 \in S
  <2>1. ElemWalk([j \in 0..0 |-> Got(<<>>)], doc, 0)
    BY DEF ElemWalk
  <2> QED
    BY <2>1
<1>2. ASSUME NEW k \in Nat, k \in S PROVE k + 1 \in S
  <2>1. PICK w : ElemWalk(w, doc, k)
    BY <1>2
  <2> DEFINE v == [j \in 0..(k + 1) |-> IF j = k + 1 THEN DecodeElem(w[k], doc[k + 1]) ELSE w[j]]
  <2>2. \A j \in 0..k : w[j] = IF j = 0 THEN Got(<<>>) ELSE DecodeElem(w[j - 1], doc[j])
    BY <2>1 DEF ElemWalk
  <2>3. (\A j \in 0..k : v[j] = w[j]) /\ v[k + 1] = DecodeElem(w[k], doc[k + 1])
    OBVIOUS
  <2>4. \A j \in 0..(k + 1) : v[j] = IF j = 0 THEN Got(<<>>) ELSE DecodeElem(v[j - 1], doc[j])
    <3> HIDE DEF v
    <3> TAKE j \in 0..(k + 1)
    <3>1. CASE j = k + 1
      BY <2>3, <3>1
    <3>2. CASE j \in 0..k
      BY <2>2, <2>3, <3>2
    <3> QED
      BY <3>1, <3>2
  <2>5. v = [j \in 0..(k + 1) |-> v[j]]
    OBVIOUS
  <2> HIDE DEF v
  <2>6. ElemWalk(v, doc, k + 1)
    BY <2>4, <2>5 DEF ElemWalk
  <2> QED
    BY <2>6
<1> HIDE DEF S
<1>3. Nat \subseteq S
  BY <1>1, <1>2, SetInduction
<1> QED
  BY <1>3 DEF S

\* w[n] is what DecodeOrderResponse has after n members.
OrderWalk(w, doc, begin, n) ==
  w = [j \in 0..n |-> IF j = 0 THEN begin ELSE DecodeOrderField(w[j - 1], doc[j])]

\* OrderResponse.Decode comes to its end.
LEMMA OrderWalkExists ==
  ASSUME NEW doc, NEW n \in Nat, NEW begin
  PROVE  \E w : OrderWalk(w, doc, begin, n)
<1> DEFINE S == {k \in Nat : \E w : OrderWalk(w, doc, begin, k)}
<1>1. 0 \in S
  <2>1. OrderWalk([j \in 0..0 |-> begin], doc, begin, 0)
    BY DEF OrderWalk
  <2> QED
    BY <2>1
<1>2. ASSUME NEW k \in Nat, k \in S PROVE k + 1 \in S
  <2>1. PICK w : OrderWalk(w, doc, begin, k)
    BY <1>2
  <2> DEFINE v == [j \in 0..(k + 1) |-> IF j = k + 1 THEN DecodeOrderField(w[k], doc[k + 1]) ELSE w[j]]
  <2>2. \A j \in 0..k : w[j] = IF j = 0 THEN begin ELSE DecodeOrderField(w[j - 1], doc[j])
    BY <2>1 DEF OrderWalk
  <2>3. (\A j \in 0..k : v[j] = w[j]) /\ v[k + 1] = DecodeOrderField(w[k], doc[k + 1])
    OBVIOUS
  <2>4. \A j \in 0..(k + 1) : v[j] = IF j = 0 THEN begin ELSE DecodeOrderField(v[j - 1], doc[j])
    <3> HIDE DEF v
    <3> TAKE j \in 0..(k + 1)
    <3>1. CASE j = k + 1
      BY <2>3, <3>1
    <3>2. CASE j \in 0..k
      BY <2>2, <2>3, <3>2
    <3> QED
      BY <3>1, <3>2
  <2>5. v = [j \in 0..(k + 1) |-> v[j]]
    OBVIOUS
  <2> HIDE DEF v
  <2>6. OrderWalk(v, doc, begin, k + 1)
    BY <2>4, <2>5 DEF OrderWalk
  <2> QED
    BY <2>6
<1> HIDE DEF S
<1>3. Nat \subseteq S
  BY <1>1, <1>2, SetInduction
<1> QED
  BY <1>3 DEF S

\* Kept returns the end of its walk.
LEMMA KeptIsWalk ==
  ASSUME NEW ms, NEW n, n = Len(ms), n \in Nat, NEW keys
  PROVE  \E w : Keeping(w, ms, keys, n) /\ Kept(ms, keys) = w[n]
<1> DEFINE w == CHOOSE u : u = [j \in 0..n |-> IF j = 0 THEN <<>> ELSE Keep(u[j - 1], ms[j], keys)]
<1>1. Kept(ms, keys) = w[n]
  BY DEF Kept
<1>2. \E u : u = [j \in 0..n |-> IF j = 0 THEN <<>> ELSE Keep(u[j - 1], ms[j], keys)]
  <2>1. PICK u : Keeping(u, ms, keys, n)
    BY KeepingExists
  <2> QED
    BY <2>1, Zenon DEF Keeping
<1>3. Keeping(w, ms, keys, n)
  BY <1>2, Zenon DEF Keeping
<1> QED
  BY <1>1, <1>3, Zenon

\* So does Decode of a struct of scalars.
LEMMA DecodeFieldsIsWalk ==
  ASSUME NEW doc, NEW n, n = Len(doc), n \in Nat, NEW start, NEW names, NEW mask
  PROVE  \E w : /\ FieldWalk(w, doc, names, Begin(start, mask), n)
                /\ DecodeFields(start, doc, names, mask) = Ended(w[n], names, mask)
<1> DEFINE w == CHOOSE u : u = [j \in 0..n |-> IF j = 0 THEN Begin(start, mask)
                                             ELSE DecodeField(u[j - 1], doc[j], names)]
<1>1. DecodeFields(start, doc, names, mask) = Ended(w[n], names, mask)
  BY DEF DecodeFields
<1>2. \E u : u = [j \in 0..n |-> IF j = 0 THEN Begin(start, mask)
                               ELSE DecodeField(u[j - 1], doc[j], names)]
  <2>1. PICK u : FieldWalk(u, doc, names, Begin(start, mask), n)
    BY FieldWalkExists
  <2> QED
    BY <2>1, Zenon DEF FieldWalk
<1>3. FieldWalk(w, doc, names, Begin(start, mask), n)
  BY <1>2, Zenon DEF FieldWalk
<1> QED
  BY <1>1, <1>3, Zenon

\* So does d.Arr.
LEMMA DecodeElemsIsWalk ==
  ASSUME NEW es, NEW n, n = Len(es), n \in Nat
  PROVE  \E w : ElemWalk(w, es, n) /\ DecodeElems(es) = w[n]
<1> DEFINE w == CHOOSE u : u = [j \in 0..n |-> IF j = 0 THEN Got(<<>>) ELSE DecodeElem(u[j - 1], es[j])]
<1>1. DecodeElems(es) = w[n]
  BY DEF DecodeElems
<1>2. \E u : u = [j \in 0..n |-> IF j = 0 THEN Got(<<>>) ELSE DecodeElem(u[j - 1], es[j])]
  <2>1. PICK u : ElemWalk(u, es, n)
    BY ElemWalkExists
  <2> QED
    BY <2>1, Zenon DEF ElemWalk
<1>3. ElemWalk(w, es, n)
  BY <1>2, Zenon DEF ElemWalk
<1> QED
  BY <1>1, <1>3, Zenon

\* So does OrderResponse.Decode.
LEMMA DecodeOrderIsWalk ==
  ASSUME NEW doc, NEW n, n = Len(doc), n \in Nat
  PROVE  \E w : /\ OrderWalk(w, doc, Begin(ZeroOrderResponse, MaskOfOrderResponse), n)
                /\ DecodeOrderResponse(doc) = Ended(w[n], NamesOfOrderResponse, MaskOfOrderResponse)
<1> DEFINE w == CHOOSE u : u = [j \in 0..n |-> IF j = 0 THEN Begin(ZeroOrderResponse, MaskOfOrderResponse)
                                             ELSE DecodeOrderField(u[j - 1], doc[j])]
<1>1. DecodeOrderResponse(doc) = Ended(w[n], NamesOfOrderResponse, MaskOfOrderResponse)
  BY DEF DecodeOrderResponse
<1>2. \E u : u = [j \in 0..n |-> IF j = 0 THEN Begin(ZeroOrderResponse, MaskOfOrderResponse)
                               ELSE DecodeOrderField(u[j - 1], doc[j])]
  <2>1. PICK u : OrderWalk(u, doc, Begin(ZeroOrderResponse, MaskOfOrderResponse), n)
    BY OrderWalkExists
  <2> QED
    BY <2>1, Zenon DEF OrderWalk
<1>3. OrderWalk(w, doc, Begin(ZeroOrderResponse, MaskOfOrderResponse), n)
  BY <1>2, Zenon DEF OrderWalk
<1> QED
  BY <1>1, <1>3, Zenon
-----------------------------------------------------------------------------
(***************************************************************************)
(* Encode.                                                                 *)
(***************************************************************************)
\* What a sequence holds.
Elems(s) == {s[i] : i \in 1..Len(s)}

\* Append adds one element.
LEMMA ElemsAppend ==
  ASSUME NEW S, NEW s \in Seq(S), NEW x \in S
  PROVE  Append(s, x) \in Seq(S) /\ Elems(Append(s, x)) = Elems(s) \cup {x}
<1> DEFINE t == Append(s, x)
<1>1. /\ t \in Seq(S) /\ Len(t) = Len(s) + 1 /\ Len(s) \in Nat /\ t[Len(s) + 1] = x
      /\ \A i \in 1..Len(s) : t[i] = s[i]
  OBVIOUS
<1> HIDE DEF t
<1>2. Elems(t) \subseteq Elems(s) \cup {x}
  BY <1>1 DEF Elems
<1>3. Elems(s) \subseteq Elems(t)
  BY <1>1 DEF Elems
<1>4. x \in Elems(t)
  BY <1>1 DEF Elems
<1> QED
  BY <1>1, <1>2, <1>3, <1>4 DEF t

\* Kept leaves out the members with other keys, and no more.
LEMMA KeptFacts ==
  ASSUME NEW M, NEW ms \in Seq(M), NEW keys
  PROVE  /\ Kept(ms, keys) \in Seq(M)
         /\ Elems(Kept(ms, keys)) = {m \in Elems(ms) : m.key \in keys}
<1> DEFINE N == Len(ms)
<1>1. N \in Nat /\ \A i \in 1..N : ms[i] \in M
  OBVIOUS
<1>2. PICK w : Keeping(w, ms, keys, N) /\ Kept(ms, keys) = w[N]
  BY <1>1, KeptIsWalk
<1>3. \A j \in 0..N : w[j] = IF j = 0 THEN <<>> ELSE Keep(w[j - 1], ms[j], keys)
  BY <1>2 DEF Keeping
<1> DEFINE Of(k) == {m \in {ms[i] : i \in 1..k} : m.key \in keys}
           S == {k \in Nat : k <= N => w[k] \in Seq(M) /\ Elems(w[k]) = Of(k)}
<1>4. 0 \in S
  <2>1. w[0] = <<>> /\ <<>> \in Seq(M)
    BY <1>1, <1>3
  <2>2. Elems(<<>>) = {} /\ Of(0) = {}
    BY DEF Elems
  <2> QED
    BY <2>1, <2>2
<1>5. ASSUME NEW k \in Nat, k \in S PROVE k + 1 \in S
  <2> SUFFICES ASSUME k + 1 <= N PROVE w[k + 1] \in Seq(M) /\ Elems(w[k + 1]) = Of(k + 1)
    OBVIOUS
  <2>1. w[k] \in Seq(M) /\ Elems(w[k]) = Of(k) /\ ms[k + 1] \in M
    BY <1>1, <1>5
  <2>2. w[k + 1] = Keep(w[k], ms[k + 1], keys)
    BY <1>1, <1>3, SMTT(30)
  <2>3. {ms[i] : i \in 1..(k + 1)} = {ms[i] : i \in 1..k} \cup {ms[k + 1]}
    <3>1. \A i \in 1..(k + 1) : i \in 1..k \/ i = k + 1
      OBVIOUS
    <3>2. k + 1 \in 1..(k + 1) /\ \A i \in 1..k : i \in 1..(k + 1)
      OBVIOUS
    <3> QED
      BY <3>1, <3>2
  <2>4. CASE ms[k + 1].key \in keys
    <3>1. w[k + 1] = Append(w[k], ms[k + 1])
      BY <2>2, <2>4 DEF Keep
    <3>2. w[k + 1] \in Seq(M) /\ Elems(w[k + 1]) = Elems(w[k]) \cup {ms[k + 1]}
      BY <2>1, <3>1, ElemsAppend
    <3> QED
      BY <2>1, <2>3, <2>4, <3>2
  <2>5. CASE ms[k + 1].key \notin keys
    <3>1. w[k + 1] = w[k]
      BY <2>2, <2>5 DEF Keep
    <3> QED
      BY <2>1, <2>3, <2>5, <3>1
  <2> QED
    BY <2>4, <2>5
<1> HIDE DEF S
<1>6. Nat \subseteq S
  BY <1>4, <1>5, SetInduction
<1>7. N \in S
  BY <1>1, <1>6
<1> QED
  BY <1>1, <1>2, <1>7 DEF S, Elems
-----------------------------------------------------------------------------
(***************************************************************************)
(* Decode, member by member.                                               *)
(***************************************************************************)
\* The outcomes of a Decode method.
LEMMA OutcomeFacts ==
  ASSUME NEW x, NEW r
  PROVE  /\ Fine(Got(x)) /\ Got(x).s = x
         /\ ~Fine(Bad(x)) /\ Bad(x).s = x
         /\ (Fine(Over(r, x)) <=> Fine(r)) /\ Over(r, x).s = x
<1>1. Fine(Got(x)) /\ ~Fine(Bad(x))
  BY Zenon DEF Got, Bad, Fine
<1>2. Fine(Over(r, x)) <=> Fine(r)
  BY Zenon DEF Over, Fine
<1>3. Got(x).s = x /\ Bad(x).s = x /\ Over(r, x).s = x
  BY Zenon DEF Got, Bad, Over
<1> QED
  BY <1>1, <1>2, <1>3, Zenon

\* The decoded x is what the field f of a struct has as v: an OptString may
\* also be not set, a date has no fractions.
TellsScalar(f, x, v) ==
  IF f \in OptNames THEN x.Set => x.Value = v.Value
  ELSE x = IF f = "date_created" THEN DateTime(v) ELSE v

\* null is no value of a scalar.
LEMMA ScalarNull ==
  ASSUME NEW old, NEW f
  PROVE  ~Fine(DecodeScalar(old, f, Null))
<1>0. \A g \in IntNames : g \notin OptNames
  BY DEF IntNames, OptNames, OrderInt, PaymentInt, ItemInt
<1> DEFINE val == Null
<1>1. val.t # "number" /\ val.t # "string"
  BY DEF Null
<1>2. DecodeScalar(old, f, val) = Bad(old) \/ DecodeScalar(old, f, val) = Bad([old EXCEPT !.Set = TRUE])
  <2> HIDE DEF val
  <2>1. CASE f \in IntNames
    BY <1>0, <1>1, <2>1, Zenon DEF DecodeScalar
  <2>2. CASE f \notin IntNames /\ f \in OptNames
    BY <1>1, <2>2, Zenon DEF DecodeScalar
  <2>3. CASE f \notin IntNames /\ f \notin OptNames
    BY <1>1, <2>3, Zenon DEF DecodeScalar
  <2> QED
    BY <2>1, <2>2, <2>3, Zenon
<1>3. \E x : DecodeScalar(old, f, val) = Bad(x)
  BY <1>2, Zenon
<1> QED
  BY <1>3, OutcomeFacts

\* A scalar that decodes tells what was encoded.
LEMMA ScalarTells ==
  ASSUME NEW old, NEW f, NEW v, NEW val, val \in {Null, EncodeScalar(f, v)},
         Fine(DecodeScalar(old, f, val))
  PROVE  TellsScalar(f, DecodeScalar(old, f, val).s, v)
<1>0. /\ "date_created" \notin IntNames /\ "date_created" \notin OptNames
      /\ \A g \in IntNames : g \notin OptNames
  BY DEF IntNames, OptNames, OrderInt, PaymentInt, ItemInt
<1>1. val # Null
  BY ScalarNull
<1>2. CASE f \in IntNames
  <2>1. val.t = "number" /\ val.v = v
    BY <1>1, <1>2 DEF EncodeScalar, Num
  <2>2. DecodeScalar(old, f, val) = Got(v)
    BY <1>0, <1>2, <2>1, Zenon DEF DecodeScalar
  <2> QED
    BY <1>0, <1>2, <2>2, OutcomeFacts DEF TellsScalar
<1>3. CASE f \notin IntNames /\ f \in OptNames
  <2>1. val.t = "string" /\ val.v = v.Value
    BY <1>1, <1>3 DEF EncodeScalar, Str
  <2>2. PICK y : y = [Set |-> TRUE, Value |-> v.Value]
    BY Zenon
  <2>3. y.Value = v.Value
    BY <2>2, Zenon
  <2>4. DecodeScalar(old, f, val) = Got(y)
    BY <1>3, <2>1, <2>2, Zenon DEF DecodeScalar
  <2>5. DecodeScalar(old, f, val).s = y
    BY <2>4, OutcomeFacts
  <2> QED
    BY <1>3, <2>3, <2>5, Zenon DEF TellsScalar
<1>4. CASE f \notin IntNames /\ f \notin OptNames
  <2>1. val.t = "string" /\ val.v = IF f = "date_created" THEN DateTime(v) ELSE v
    BY <1>1, <1>4 DEF EncodeScalar, Str
  <2>2. DecodeScalar(old, f, val) = Got(val.v)
    BY <1>4, <2>1, Zenon DEF DecodeScalar
  <2> QED
    BY <1>4, <2>1, <2>2, OutcomeFacts DEF TellsScalar
<1> QED
  BY <1>2, <1>3, <1>4

\* The bit of the n-th field.
HasBit(bits, n) == (n - 1) % 8 \in bits[(n - 1) \div 8 + 1]

\* A table of names and masks is right when every name comes once and the
\* mask has the bits of the fields that are not optional, and no others.
Table(names, mask) ==
  /\ Len(names) \in 0..16 /\ Len(mask) \in Nat
  /\ \A a, b \in 1..Len(names) : names[a] = names[b] => a = b
  /\ \A n \in 1..Len(names) : (n - 1) \div 8 + 1 \in 1..Len(mask)
  /\ \A n \in 1..Len(names) : names[n] \in OptNames \/ HasBit(mask, n)
  /\ \A i \in 1..Len(mask) : \A b \in mask[i] :
       /\ b \in 0..7 /\ (i - 1) * 8 + b + 1 \in 1..Len(names)
       /\ names[(i - 1) * 8 + b + 1] \notin OptNames

\* Byte and bit tell the fields apart.
LEMMA BitsDiffer ==
  ASSUME NEW a \in 1..16, NEW b \in 1..16,
         (a - 1) \div 8 = (b - 1) \div 8, (a - 1) % 8 = (b - 1) % 8
  PROVE  a = b
  OBVIOUS

\* The tables the generator wrote are right.
LEMMA TablesRight ==
  /\ Table(NamesOfDelivery, MaskOfDelivery)
  /\ Table(NamesOfPayment, MaskOfPayment)
  /\ Table(NamesOfOrderItem, MaskOfOrderItem)
  /\ Table(NamesOfOrderResponse, MaskOfOrderResponse)
  /\ Table(NamesOfError, MaskOfError)
<1>1. Table(NamesOfDelivery, MaskOfDelivery)
  BY DEF Table, NamesOfDelivery, MaskOfDelivery, HasBit, OptNames
<1>2. Table(NamesOfPayment, MaskOfPayment)
  BY DEF Table, NamesOfPayment, MaskOfPayment, HasBit, OptNames
<1>3. Table(NamesOfOrderItem, MaskOfOrderItem)
  BY DEF Table, NamesOfOrderItem, MaskOfOrderItem, HasBit, OptNames
<1>4. Table(NamesOfOrderResponse, MaskOfOrderResponse)
  BY DEF Table, NamesOfOrderResponse, MaskOfOrderResponse, HasBit, OptNames
<1>5. Table(NamesOfError, MaskOfError)
  BY DEF Table, NamesOfError, MaskOfError, HasBit, OptNames
<1> QED
  BY <1>1, <1>2, <1>3, <1>4, <1>5

\* What a right table gives of one field.
LEMMA TableFacts ==
  ASSUME NEW names, NEW mask, Table(names, mask), NEW n \in 1..Len(names)
  PROVE  /\ n \in 1..16 /\ (n - 1) \div 8 + 1 \in 1..Len(mask)
         /\ names[n] \in OptNames \/ HasBit(mask, n)
<1>1. Len(names) \in 0..16
  BY Zenon DEF Table
<1>2. (n - 1) \div 8 + 1 \in 1..Len(mask)
  BY Zenon DEF Table
<1>3. names[n] \in OptNames \/ HasBit(mask, n)
  BY Zenon DEF Table
<1>4. n \in 1..16
  <2>1. PICK len \in 0..16 : n \in 1..len
    BY <1>1
  <2> QED
    BY <2>1
<1> QED
  BY <1>2, <1>3, <1>4, Zenon

\* No bit is set at the start.
LEMMA BeginFacts ==
  ASSUME NEW names, NEW mask, Table(names, mask), NEW start
  PROVE  /\ Begin(start, mask).s = start /\ Fine(Begin(start, mask).end)
         /\ DOMAIN Begin(start, mask).bits = 1..Len(mask)
         /\ \A n \in 1..Len(names) : ~HasBit(Begin(start, mask).bits, n)
<1>1. /\ Begin(start, mask).s = start /\ Begin(start, mask).end = Got(0)
      /\ Begin(start, mask).bits = [i \in 1..Len(mask) |-> {}]
  BY DEF Begin
<1>2. \A n \in 1..Len(names) : (n - 1) \div 8 + 1 \in 1..Len(mask)
  BY DEF Table
<1> QED
  BY <1>1, <1>2, OutcomeFacts DEF HasBit

\* The place of a name.
LEMMA IndexFacts ==
  ASSUME NEW names, NEW mask, Table(names, mask), NEW k \in 1..Len(names)
  PROVE  Index(names, names[k]) = k
<1>1. \E n \in 1..Len(names) : names[n] = names[k]
  OBVIOUS
<1>2. Index(names, names[k]) \in 1..Len(names) /\ names[Index(names, names[k])] = names[k]
  BY <1>1 DEF Index
<1> QED
  BY <1>2 DEF Table

\* What a member with a known key does.
LEMMA MemberFacts ==
  ASSUME NEW names, NEW mask, Table(names, mask), NEW acc, DOMAIN acc.bits = 1..Len(mask),
         Fine(acc.end), NEW m, NEW k \in 1..Len(names), m.key = names[k], NEW r
  PROVE  LET new == Member(acc, m, names, r)
         IN  /\ new.end = r /\ new.s = [acc.s EXCEPT ![m.key] = r.s]
             /\ DOMAIN new.bits = 1..Len(mask)
             /\ \A n \in 1..Len(names) :
                  HasBit(new.bits, n) <=> HasBit(acc.bits, n) \/ (n = k /\ m.key \notin OptNames)
<1> DEFINE new == Member(acc, m, names, r)
           at == Index(names, m.key) - 1
           bits == IF m.key \in OptNames THEN acc.bits
                   ELSE [acc.bits EXCEPT ![at \div 8 + 1] = @ \cup {at % 8}]
<1>1. at = k - 1 /\ k \in 1..16 /\ at \div 8 + 1 \in 1..Len(mask)
  BY IndexFacts, TableFacts
<1>2. new = [s |-> [acc.s EXCEPT ![m.key] = r.s], bits |-> bits, end |-> r]
  <2>1. ~(~Fine(acc.end) \/ \A n \in 1..Len(names) : names[n] # m.key)
    OBVIOUS
  <2> QED
    BY <2>1, Zenon DEF Member
<1> HIDE DEF at
<1>3. new.end = r /\ new.s = [acc.s EXCEPT ![m.key] = r.s] /\ new.bits = bits
  BY <1>2
<1> HIDE DEF new
<1>4. DOMAIN bits = 1..Len(mask)
  OBVIOUS
<1>5. ASSUME NEW n \in 1..Len(names)
      PROVE  HasBit(bits, n) <=> HasBit(acc.bits, n) \/ (n = k /\ m.key \notin OptNames)
  <2>1. n \in 1..16 /\ (n - 1) \div 8 + 1 \in 1..Len(mask)
    BY TableFacts
  <2>2. CASE m.key \in OptNames
    BY <2>2
  <2>3. CASE m.key \notin OptNames /\ n = k
    BY <1>1, <2>1, <2>3 DEF HasBit
  <2>4. CASE m.key \notin OptNames /\ n # k
    <3>1. (n - 1) \div 8 # (k - 1) \div 8 \/ (n - 1) % 8 # (k - 1) % 8
      BY <1>1, <2>1, <2>4, BitsDiffer
    <3>2. CASE (n - 1) \div 8 + 1 # at \div 8 + 1
      BY <2>1, <2>4, <3>2 DEF HasBit
    <3>3. CASE (n - 1) % 8 # at % 8
      BY <2>1, <2>4, <3>3 DEF HasBit
    <3>4. (n - 1) \div 8 \in Int /\ (k - 1) \div 8 \in Int
      BY <1>1, <2>1
    <3> QED
      BY <1>1, <3>1, <3>2, <3>3, <3>4
  <2> QED
    BY <2>2, <2>3, <2>4
<1> QED
  BY <1>3, <1>4, <1>5 DEF new

\* What the others do.
LEMMA MemberSkips ==
  ASSUME NEW names, NEW acc, NEW m, NEW r,
         ~Fine(acc.end) \/ \A n \in 1..Len(names) : names[n] # m.key
  PROVE  Member(acc, m, names, r) = acc
  BY Zenon DEF Member

\* The fields that are not optional and whose bits are not set.
Lacking(bits, names) ==
  {names[n] : n \in {k \in 1..Len(names) : names[k] \notin OptNames /\ ~HasBit(bits, k)}}

\* The loop over the masks finds those.
LEMMA MissedFacts ==
  ASSUME NEW names, NEW mask, Table(names, mask), NEW bits
  PROVE  Missed(bits, mask, names) = Lacking(bits, names)
<1>1. ASSUME NEW i \in 1..Len(mask), NEW b \in mask[i] \ bits[i]
      PROVE  names[(i - 1) * 8 + b + 1] \in Lacking(bits, names)
  <2> DEFINE n == (i - 1) * 8 + b + 1
  <2>1. b \in 0..7 /\ n \in 1..Len(names) /\ names[n] \notin OptNames /\ i \in Nat
    BY DEF Table
  <2>2. (n - 1) \div 8 + 1 = i /\ (n - 1) % 8 = b
    BY <2>1
  <2> HIDE DEF n
  <2>3. ~HasBit(bits, n)
    BY <2>2 DEF HasBit
  <2>4. names[n] \in Lacking(bits, names)
    BY <2>1, <2>3 DEF Lacking
  <2> QED
    BY <2>4 DEF n
<1>2. ASSUME NEW n \in 1..Len(names), names[n] \notin OptNames, ~HasBit(bits, n)
      PROVE  \E i \in 1..Len(mask) : \E b \in mask[i] \ bits[i] : names[n] = names[(i - 1) * 8 + b + 1]
  <2> DEFINE i == (n - 1) \div 8 + 1
             b == (n - 1) % 8
  <2>1. HasBit(mask, n) /\ i \in 1..Len(mask) /\ n \in 1..16
    BY <1>2, TableFacts
  <2>2. b \in mask[i] \ bits[i]
    BY <1>2, <2>1 DEF HasBit
  <2>3. (i - 1) * 8 + b + 1 = n
    BY <2>1
  <2> HIDE DEF i, b
  <2> QED
    BY <2>1, <2>2, <2>3
<1>3. \A x \in Missed(bits, mask, names) : x \in Lacking(bits, names)
  BY <1>1 DEF Missed
<1>4. \A x \in Lacking(bits, names) : x \in Missed(bits, mask, names)
  <2> TAKE x \in Lacking(bits, names)
  <2>1. PICK n \in 1..Len(names) : x = names[n] /\ names[n] \notin OptNames /\ ~HasBit(bits, n)
    BY DEF Lacking
  <2>2. PICK i \in 1..Len(mask) : \E b \in mask[i] \ bits[i] : x = names[(i - 1) * 8 + b + 1]
    BY <1>2, <2>1
  <2> DEFINE T == {names[(i - 1) * 8 + b + 1] : b \in mask[i] \ bits[i]}
  <2>3. x \in T /\ T \in {{names[(k - 1) * 8 + b + 1] : b \in mask[k] \ bits[k]} : k \in 1..Len(mask)}
    BY <2>2, Zenon
  <2> QED
    BY <2>3, Zenon DEF Missed
<1> QED
  BY <1>3, <1>4

\* Decode at its end.
LEMMA EndedFacts ==
  ASSUME NEW names, NEW mask, Table(names, mask), NEW last
  PROVE  LET r == Ended(last, names, mask)
         IN  /\ r.s = last.s
             /\ Fine(r) => Fine(last.end) /\ Lacking(last.bits, names) = {}
             /\ Fine(last.end) => ~r.bad /\ r.missed = Lacking(last.bits, names)
<1>1. CASE ~Fine(last.end)
  <2>1. Ended(last, names, mask) = Over(last.end, last.s)
    BY <1>1, Zenon DEF Ended
  <2> QED
    BY <1>1, <2>1, OutcomeFacts
<1>2. CASE Fine(last.end)
  <2>1. Ended(last, names, mask) =
          [s |-> last.s, bad |-> FALSE, missed |-> Missed(last.bits, mask, names)]
    BY <1>2, Zenon DEF Ended
  <2>2. PICK no : no = FALSE
    BY Zenon
  <2>3. Ended(last, names, mask) =
          [s |-> last.s, bad |-> no, missed |-> Missed(last.bits, mask, names)]
    BY <2>1, <2>2, Zenon
  <2>4. /\ Ended(last, names, mask).s = last.s /\ Ended(last, names, mask).bad = no
        /\ Ended(last, names, mask).missed = Missed(last.bits, mask, names)
    BY <2>3
  <2>5. ~Ended(last, names, mask).bad
    BY <2>2, <2>4, Zenon
  <2> QED
    BY <1>2, <2>4, <2>5, MissedFacts DEF Fine
<1> QED
  BY <1>1, <1>2
-----------------------------------------------------------------------------
(***************************************************************************)
(* What a document says, and what the client makes of it.                  *)
(***************************************************************************)
\* The member m says what the struct v has; extra is what it may hold
\* instead.
SaysField(m, v, extra) == m.val \in extra \cup {EncodeScalar(m.key, v[m.key])}

\* So do all members of doc.
SaysFields(doc, v, extra) ==
  \E M : doc \in Seq(M) /\ \A m \in M : SaysField(m, v, extra)

\* The decoded struct x has every field, and what it has of the optional
\* ones is what v has.
Ready(x, v, names) ==
  \A n \in 1..Len(names) :
    /\ names[n] \in DOMAIN x
    /\ names[n] \in OptNames => TellsScalar(names[n], x[names[n]], v[names[n]])

\* The decoded struct x is what v has.
Tells(x, v, names) ==
  /\ Ready(x, v, names)
  /\ \A n \in 1..Len(names) : TellsScalar(names[n], x[names[n]], v[names[n]])

\* Decode of a struct of scalars so far: the fields whose bits are set are
\* those of v.
FieldsSoFar(acc, v, names, mask) ==
  /\ DOMAIN acc.bits = 1..Len(mask)
  /\ Ready(acc.s, v, names)
  /\ \A n \in 1..Len(names) :
       HasBit(acc.bits, n) => TellsScalar(names[n], acc.s[names[n]], v[names[n]])

\* A struct of scalars that decodes is the one that was encoded, whatever
\* members were dropped, doubled, added or made null on the way.
LEMMA FieldsTell ==
  ASSUME NEW names, NEW mask, Table(names, mask), NEW v, NEW start, Ready(start, v, names),
         NEW doc, SaysFields(doc, v, {Null}), Fine(DecodeFields(start, doc, names, mask))
  PROVE  Tells(DecodeFields(start, doc, names, mask).s, v, names)
<1>1. PICK M : doc \in Seq(M) /\ \A m \in M : SaysField(m, v, {Null})
  BY DEF SaysFields
<1> DEFINE N == Len(doc)
<1>2. N \in Nat /\ \A i \in 1..N : SaysField(doc[i], v, {Null})
  <2>1. N \in Nat /\ \A i \in 1..N : doc[i] \in M
    BY <1>1
  <2> QED
    BY <1>1, <2>1, Zenon
<1>3. PICK w : /\ FieldWalk(w, doc, names, Begin(start, mask), N)
               /\ DecodeFields(start, doc, names, mask) = Ended(w[N], names, mask)
  BY ONLY <1>2, DecodeFieldsIsWalk
<1>4. \A j \in 0..N : w[j] = IF j = 0 THEN Begin(start, mask) ELSE DecodeField(w[j - 1], doc[j], names)
  BY <1>3 DEF FieldWalk
<1> DEFINE S == {k \in Nat : k <= N /\ Fine(w[k].end) => FieldsSoFar(w[k], v, names, mask)}
<1>5. 0 \in S
  <2>1. w[0] = Begin(start, mask)
    BY <1>2, <1>4
  <2>2. FieldsSoFar(w[0], v, names, mask)
    BY <2>1, BeginFacts DEF FieldsSoFar
  <2> QED
    BY <2>2
<1>6. ASSUME NEW k \in Nat, k \in S PROVE k + 1 \in S
  <2> SUFFICES ASSUME k + 1 <= N, Fine(w[k + 1].end) PROVE FieldsSoFar(w[k + 1], v, names, mask)
    OBVIOUS
  <2> DEFINE acc == w[k]
             m == doc[k + 1]
             r == DecodeScalar(acc.s[m.key], m.key, m.val)
  <2>1. w[k + 1] = Member(acc, m, names, r) /\ SaysField(m, v, {Null}) /\ k <= N
    <3>1. k + 1 \in 0..N /\ k + 1 \in 1..N /\ k + 1 # 0 /\ (k + 1) - 1 = k /\ k <= N
      BY <1>2
    <3>2. w[k + 1] = DecodeField(w[k], doc[k + 1], names)
      BY <1>4, <3>1
    <3> QED
      BY <1>2, <3>1, <3>2, Zenon DEF DecodeField
  <2>2. k <= N /\ Fine(acc.end) => FieldsSoFar(acc, v, names, mask)
    BY <1>6
  <2> HIDE DEF acc, m, r
  <2>3. CASE ~Fine(acc.end) \/ \A n \in 1..Len(names) : names[n] # m.key
    BY <2>1, <2>2, <2>3, MemberSkips
  <2>4. ASSUME Fine(acc.end), NEW a \in 1..Len(names), names[a] = m.key
        PROVE  FieldsSoFar(w[k + 1], v, names, mask)
    <3> DEFINE new == w[k + 1]
    <3>1. FieldsSoFar(acc, v, names, mask)
      BY <2>1, <2>2, <2>4
    <3>2. /\ new.end = r /\ new.s = [acc.s EXCEPT ![m.key] = r.s]
          /\ DOMAIN new.bits = 1..Len(mask)
          /\ \A n \in 1..Len(names) :
               HasBit(new.bits, n) <=> HasBit(acc.bits, n) \/ (n = a /\ m.key \notin OptNames)
      BY <2>1, <2>4, <3>1, MemberFacts DEF FieldsSoFar
    <3> HIDE DEF new
    <3>3. TellsScalar(m.key, r.s, v[m.key])
      <4>1. m.val \in {Null, EncodeScalar(m.key, v[m.key])} /\ Fine(r)
        BY <2>1, <3>2 DEF SaysField, new
      <4> QED
        BY <4>1, ScalarTells DEF r
    <3>4. \A n \in 1..Len(names) : names[n] \in DOMAIN acc.s
      BY <3>1 DEF FieldsSoFar, Ready
    <3>5. \A n \in 1..Len(names) :
            /\ names[n] \in DOMAIN new.s
            /\ new.s[names[n]] = IF names[n] = m.key THEN r.s ELSE acc.s[names[n]]
      BY <3>2, <3>4
    <3>6. ASSUME NEW n \in 1..Len(names)
          PROVE  /\ names[n] \in OptNames => TellsScalar(names[n], new.s[names[n]], v[names[n]])
                 /\ HasBit(new.bits, n) => TellsScalar(names[n], new.s[names[n]], v[names[n]])
      <4>1. CASE names[n] = m.key
        BY <3>3, <3>5, <4>1
      <4>2. CASE names[n] # m.key
        BY <2>4, <3>1, <3>2, <3>5, <4>2 DEF FieldsSoFar, Ready
      <4> QED
        BY <4>1, <4>2
    <3> QED
      BY <3>2, <3>5, <3>6 DEF FieldsSoFar, Ready, new
  <2> QED
    BY <2>3, <2>4
<1> HIDE DEF S
<1>7. Nat \subseteq S
  BY <1>5, <1>6, SetInduction
<1>8. N \in S
  BY <1>2, <1>7
<1>9. /\ DecodeFields(start, doc, names, mask).s = w[N].s
      /\ Fine(w[N].end) /\ Lacking(w[N].bits, names) = {}
  BY <1>3, EndedFacts, SMTT(30)
<1>10. FieldsSoFar(w[N], v, names, mask)
  BY <1>2, <1>8, <1>9 DEF S
<1>11. \A n \in 1..Len(names) : TellsScalar(names[n], w[N].s[names[n]], v[names[n]])
  BY <1>9, <1>10 DEF FieldsSoFar, Ready, Lacking
<1> QED
  BY <1>9, <1>10, <1>11 DEF FieldsSoFar, Tells

\* The values of a struct before it is decoded claim nothing.
LEMMA ZeroReady ==
  ASSUME NEW v
  PROVE  /\ Ready(ZeroDelivery, v, NamesOfDelivery)
         /\ Ready(ZeroPayment, v, NamesOfPayment)
         /\ Ready(ZeroOrderItem, v, NamesOfOrderItem)
<1>1. ASSUME NEW f \in OptNames, NEW x PROVE TellsScalar(f, ZeroOpt(f), x)
  BY Zenon DEF TellsScalar, ZeroOpt
<1>2. \A n \in 1..Len(NamesOfDelivery) : NamesOfDelivery[n] \in DeliveryText /\ NamesOfDelivery[n] \notin OptNames
  BY DEF NamesOfDelivery, DeliveryText, OptNames
<1>3. \A n \in 1..Len(NamesOfOrderItem) :
        NamesOfOrderItem[n] \in ItemText \cup ItemInt /\ NamesOfOrderItem[n] \notin OptNames
  BY DEF NamesOfOrderItem, ItemText, ItemInt, OptNames
<1>4. \A n \in 1..Len(NamesOfPayment) : NamesOfPayment[n] \in PaymentText \cup PaymentInt
  BY DEF NamesOfPayment, PaymentText, PaymentInt
<1>5. \A f \in OptNames : f \notin IntNames
  BY DEF IntNames, OptNames, OrderInt, PaymentInt, ItemInt
<1>6. \A f \in OptNames : f \in PaymentText \cup PaymentInt => ZeroPayment[f] = ZeroOpt(f)
  BY <1>5 DEF ZeroPayment, Zero
<1>7. Ready(ZeroPayment, v, NamesOfPayment)
  <2>1. DOMAIN ZeroPayment = PaymentText \cup PaymentInt
    BY DEF ZeroPayment
  <2> QED
    BY <1>1, <1>4, <1>6, <2>1 DEF Ready
<1>8. DOMAIN ZeroDelivery = DeliveryText /\ DOMAIN ZeroOrderItem = ItemText \cup ItemInt
  BY DEF ZeroDelivery, ZeroOrderItem
<1> QED
  BY <1>2, <1>3, <1>7, <1>8 DEF Ready

\* The elements of items say what the items vs are.
SaysElems(es, vs, extra) ==
  /\ Len(es) \in Nat /\ Len(vs) = Len(es)
  /\ \A n \in 1..Len(es) : es[n].t = "object" /\ SaysFields(es[n].v, vs[n], extra)

\* Items that decode are the ones that were encoded, in their order.
LEMMA ElemsTell ==
  ASSUME NEW es, NEW vs, SaysElems(es, vs, {Null}), Fine(DecodeElems(es))
  PROVE  /\ Len(DecodeElems(es).s) = Len(vs)
         /\ \A n \in 1..Len(vs) : Tells(DecodeElems(es).s[n], vs[n], NamesOfOrderItem)
<1> DEFINE N == Len(es)
           item(n) == DecodeOrderItem(es[n].v)
           X == {item(n).s : n \in 1..N}
<1>1. /\ N \in Nat /\ Len(vs) = N
      /\ \A n \in 1..N : es[n].t = "object" /\ SaysFields(es[n].v, vs[n], {Null})
  BY DEF SaysElems
<1>2. PICK w : ElemWalk(w, es, N) /\ DecodeElems(es) = w[N]
  BY <1>1, DecodeElemsIsWalk
<1>3. \A j \in 0..N : w[j] = IF j = 0 THEN Got(<<>>) ELSE DecodeElem(w[j - 1], es[j])
  BY <1>2 DEF ElemWalk
<1>4. ASSUME NEW n \in 1..N, Fine(item(n)) PROVE Tells(item(n).s, vs[n], NamesOfOrderItem)
  <2>1. /\ Fine(DecodeFields(ZeroOrderItem, es[n].v, NamesOfOrderItem, MaskOfOrderItem))
        /\ item(n).s = DecodeFields(ZeroOrderItem, es[n].v, NamesOfOrderItem, MaskOfOrderItem).s
    BY <1>4 DEF DecodeOrderItem
  <2>2. SaysFields(es[n].v, vs[n], {Null})
    BY <1>1
  <2> HIDE DEF item
  <2> QED
    BY <2>1, <2>2, ZeroReady, TablesRight, FieldsTell
<1> DEFINE Q(k) == /\ w[k].s \in Seq(X) /\ Len(w[k].s) = k
                   /\ \A n \in 1..k : Tells(w[k].s[n], vs[n], NamesOfOrderItem)
           S == {k \in Nat : k <= N /\ Fine(w[k]) => Q(k)}
<1> HIDE DEF item
<1>5. 0 \in S
  <2>1. w[0] = Got(<<>>)
    BY <1>1, <1>3
  <2>2. w[0].s = <<>>
    BY <2>1, OutcomeFacts
  <2>3. Q(0)
    <3> HIDE DEF X
    <3>1. <<>> \in Seq(X) /\ Len(<<>>) = 0
      OBVIOUS
    <3> QED
      BY <2>2, <3>1
  <2> HIDE DEF Q
  <2> QED
    BY <2>3
<1>6. ASSUME NEW k \in Nat, k \in S PROVE k + 1 \in S
  <2> SUFFICES ASSUME k + 1 <= N, Fine(w[k + 1]) PROVE Q(k + 1)
    OBVIOUS
  <2>1. k + 1 \in 1..N /\ k + 1 \in 0..N /\ (k + 1) - 1 = k /\ k + 1 # 0 /\ k <= N
    BY <1>1
  <2>2. w[k + 1] = DecodeElem(w[k], es[k + 1]) /\ es[k + 1].t = "object"
    BY <1>1, <1>3, <2>1
  <2>3. /\ ~Fine(w[k]) => w[k + 1] = w[k]
        /\ Fine(w[k]) /\ Fine(item(k + 1)) => w[k + 1] = Got(Append(w[k].s, item(k + 1).s))
        /\ Fine(w[k]) /\ ~Fine(item(k + 1)) => w[k + 1] = Over(item(k + 1), w[k].s)
    BY <2>2, Zenon DEF DecodeElem, item
  <2>4. Fine(w[k]) /\ Fine(item(k + 1))
    BY <2>3, OutcomeFacts
  <2>5. Q(k)
    BY <1>6, <2>1, <2>4
  <2>6. w[k + 1].s = Append(w[k].s, item(k + 1).s) /\ item(k + 1).s \in X
    BY <2>1, <2>3, <2>4, OutcomeFacts
  <2>7. Tells(item(k + 1).s, vs[k + 1], NamesOfOrderItem)
    BY <1>4, <2>1, <2>4
  <2> DEFINE a == w[k].s
             b == w[k + 1].s
             x == item(k + 1).s
  <2>8. a \in Seq(X) /\ Len(a) = k /\ b = Append(a, x) /\ x \in X
    BY <2>5, <2>6
  <2> HIDE DEF a, b, x, X
  <2>9. b \in Seq(X) /\ Len(b) = k + 1 /\ b[k + 1] = x /\ \A n \in 1..k : b[n] = a[n]
    BY <2>8
  <2>10. \A n \in 1..(k + 1) : Tells(b[n], vs[n], NamesOfOrderItem)
    BY <2>5, <2>7, <2>9 DEF a, x
  <2> QED
    BY <2>9, <2>10 DEF b
<1> HIDE DEF S
<1>7. Nat \subseteq S
  BY <1>5, <1>6, SetInduction
<1>8. N \in S
  BY <1>1, <1>7
<1>9. Q(N)
  <2>1. N <= N /\ Fine(w[N])
    BY <1>1, <1>2
  <2> HIDE DEF Q
  <2> QED
    BY <1>8, <2>1 DEF S
<1> HIDE DEF X
<1> QED
  BY <1>1, <1>2, <1>9

-----------------------------------------------------------------------------
(***************************************************************************)
(* The whole OrderResponse.                                                *)
(***************************************************************************)
\* The fields that are structs or slices of structs.
Structs == {"delivery", "payment", "items"}

\* The member m of an OrderResponse says what v has.
SaysValue(m, v, extra) ==
  \/ m.val \in extra
  \/ m.key = "delivery" /\ m.val.t = "object" /\ SaysFields(m.val.v, v.delivery, extra)
  \/ m.key = "payment" /\ m.val.t = "object" /\ SaysFields(m.val.v, v.payment, extra)
  \/ m.key = "items" /\ m.val.t = "array" /\ SaysElems(m.val.v, v.items.elems, extra)
  \/ m.key \notin Structs /\ m.val = EncodeScalar(m.key, v[m.key])

\* So do all members of doc.
SaysOrder(doc, v, extra) ==
  \E M : doc \in Seq(M) /\ \A m \in M : SaysValue(m, v, extra)

\* The decoded items x are those of v.
TellsItems(x, v) ==
  /\ ~x.isNil /\ Len(x.elems) = Len(v.elems)
  /\ \A n \in 1..Len(v.elems) : Tells(x.elems[n], v.elems[n], NamesOfOrderItem)

\* The decoded value x of the field f is v.
TellsValue(f, x, v) ==
  /\ f = "delivery" => Tells(x, v, NamesOfDelivery)
  /\ f = "payment" => Tells(x, v, NamesOfPayment)
  /\ f = "items" => TellsItems(x, v)
  /\ f \notin Structs => TellsScalar(f, x, v)

\* What x has of the optional fields is what v has.
ReadyValue(f, x, v) ==
  /\ f = "delivery" => Ready(x, v, NamesOfDelivery)
  /\ f = "payment" => Ready(x, v, NamesOfPayment)
  /\ f \in OptNames => TellsScalar(f, x, v)

\* A value that tells everything claims nothing else.
LEMMA TellsIsReady ==
  ASSUME NEW f, NEW x, NEW v, TellsValue(f, x, v)
  PROVE  ReadyValue(f, x, v)
<1>1. f \in OptNames => f \notin Structs
  BY DEF OptNames, Structs
<1> QED
  BY <1>1 DEF TellsValue, ReadyValue, Tells

\* The branches of DecodeValue.
LEMMA ValueBranches ==
  ASSUME NEW old, NEW val
  PROVE  /\ DecodeValue(old, "delivery", val) =
              IF val.t = "object" THEN DecodeDelivery(old, val.v) ELSE Bad(old)
         /\ DecodeValue(old, "payment", val) =
              IF val.t = "object" THEN DecodePayment(old, val.v) ELSE Bad(old)
         /\ DecodeValue(old, "items", val) = DecodeItems(val)
         /\ \A f : f \notin Structs => DecodeValue(old, f, val) = DecodeScalar(old, f, val)
<1>1. DecodeValue(old, "delivery", val) =
        IF val.t = "object" THEN DecodeDelivery(old, val.v) ELSE Bad(old)
  BY Zenon DEF DecodeValue
<1>2. DecodeValue(old, "payment", val) =
        IF val.t = "object" THEN DecodePayment(old, val.v) ELSE Bad(old)
  BY Zenon DEF DecodeValue
<1>3. DecodeValue(old, "items", val) = DecodeItems(val)
  BY Zenon DEF DecodeValue
<1>4. ASSUME NEW f, f \notin Structs PROVE DecodeValue(old, f, val) = DecodeScalar(old, f, val)
  <2>1. f # "delivery" /\ f # "payment" /\ f # "items"
    BY <1>4 DEF Structs
  <2> QED
    BY <2>1, Zenon DEF DecodeValue
<1> QED
  BY <1>1, <1>2, <1>3, <1>4

\* null is no value of any field.
LEMMA NullIsBad ==
  ASSUME NEW old, NEW f
  PROVE  ~Fine(DecodeValue(old, f, Null))
<1>1. Null.t = "null"
  BY DEF Null
<1>2. CASE f = "delivery"
  <2>1. DecodeValue(old, f, Null) = Bad(old)
    BY <1>1, <1>2, ValueBranches
  <2> QED
    BY <2>1, OutcomeFacts
<1>3. CASE f = "payment"
  <2>1. DecodeValue(old, f, Null) = Bad(old)
    BY <1>1, <1>3, ValueBranches
  <2> QED
    BY <2>1, OutcomeFacts
<1>4. CASE f = "items"
  <2> DEFINE r == IF Null.t = "array" THEN DecodeElems(Null.v) ELSE Bad(<<>>)
  <2>1. DecodeValue(old, f, Null) = Over(r, [isNil |-> FALSE, elems |-> r.s])
    BY <1>4, ValueBranches, Zenon DEF DecodeItems
  <2>2. r = Bad(<<>>)
    BY <1>1
  <2> HIDE DEF r
  <2>3. ~Fine(r)
    BY <2>2, OutcomeFacts
  <2>4. PICK x : DecodeValue(old, f, Null) = Over(r, x)
    BY <2>1, Zenon
  <2> QED
    BY <2>3, <2>4, OutcomeFacts
<1>5. CASE f \notin Structs
  <2>1. DecodeValue(old, f, Null) = DecodeScalar(old, f, Null)
    BY <1>5, ValueBranches
  <2>2. ~Fine(DecodeScalar(old, f, Null))
    BY ScalarNull
  <2> QED
    BY <2>1, <2>2
<1> QED
  BY <1>2, <1>3, <1>4, <1>5 DEF Structs

\* Items that decode are those of v.
LEMMA ItemsTell ==
  ASSUME NEW val, NEW v, val.t = "array", SaysElems(val.v, v.elems, {Null}), Fine(DecodeItems(val))
  PROVE  TellsItems(DecodeItems(val).s, v)
<1> DEFINE r == IF val.t = "array" THEN DecodeElems(val.v) ELSE Bad(<<>>)
<1>1. DecodeItems(val) = Over(r, [isNil |-> FALSE, elems |-> r.s])
  BY Zenon DEF DecodeItems
<1>2. r = DecodeElems(val.v)
  OBVIOUS
<1> HIDE DEF r
<1>3. PICK x : x = [isNil |-> FALSE, elems |-> r.s]
  BY Zenon
<1>4. ~x.isNil /\ x.elems = r.s
  BY <1>3, Zenon
<1>5. DecodeItems(val) = Over(r, x)
  BY <1>1, <1>3, Zenon
<1>6. Fine(r) /\ DecodeItems(val).s = x
  BY <1>5, OutcomeFacts
<1>7. /\ Len(r.s) = Len(v.elems)
      /\ \A n \in 1..Len(v.elems) : Tells(r.s[n], v.elems[n], NamesOfOrderItem)
  BY <1>2, <1>6, ElemsTell
<1> QED
  BY <1>4, <1>6, <1>7, Zenon DEF TellsItems

\* A value that decodes tells what was encoded.
LEMMA ValueTells ==
  ASSUME NEW old, NEW m, NEW v, SaysValue(m, v, {Null}), ReadyValue(m.key, old, v[m.key]),
         Fine(DecodeValue(old, m.key, m.val))
  PROVE  TellsValue(m.key, DecodeValue(old, m.key, m.val).s, v[m.key])
<1> DEFINE r == DecodeValue(old, m.key, m.val)
<1>1. m.val # Null
  BY NullIsBad
<1>2. CASE m.key = "delivery" /\ m.val.t = "object" /\ SaysFields(m.val.v, v.delivery, {Null})
  <2>1. r = DecodeFields(old, m.val.v, NamesOfDelivery, MaskOfDelivery)
    BY <1>2, ValueBranches DEF DecodeDelivery
  <2>2. Ready(old, v.delivery, NamesOfDelivery)
    BY <1>2 DEF ReadyValue
  <2>3. Tells(r.s, v.delivery, NamesOfDelivery)
    BY <1>2, <2>1, <2>2, TablesRight, FieldsTell
  <2> QED
    BY <1>2, <2>3 DEF TellsValue, Structs
<1>3. CASE m.key = "payment" /\ m.val.t = "object" /\ SaysFields(m.val.v, v.payment, {Null})
  <2>1. r = DecodeFields(old, m.val.v, NamesOfPayment, MaskOfPayment)
    BY <1>3, ValueBranches DEF DecodePayment
  <2>2. Ready(old, v.payment, NamesOfPayment)
    BY <1>3 DEF ReadyValue
  <2>3. Tells(r.s, v.payment, NamesOfPayment)
    BY <1>3, <2>1, <2>2, TablesRight, FieldsTell
  <2> QED
    BY <1>3, <2>3 DEF TellsValue, Structs
<1>4. CASE m.key = "items" /\ m.val.t = "array" /\ SaysElems(m.val.v, v.items.elems, {Null})
  <2>1. r = DecodeItems(m.val)
    BY <1>4, ValueBranches
  <2>2. TellsItems(r.s, v.items)
    BY <1>4, <2>1, ItemsTell
  <2> QED
    BY <1>4, <2>2 DEF TellsValue, Structs
<1>5. CASE m.key \notin Structs /\ m.val = EncodeScalar(m.key, v[m.key])
  <2>1. r = DecodeScalar(old, m.key, m.val)
    BY <1>5, ValueBranches
  <2>2. TellsScalar(m.key, r.s, v[m.key])
    BY <1>5, <2>1, ScalarTells
  <2> QED
    BY <1>5, <2>2 DEF TellsValue, Structs
<1> QED
  BY <1>1, <1>2, <1>3, <1>4, <1>5 DEF SaysValue

\* OrderResponse.Decode so far: the fields whose bits are set are those of v.
OrderSoFar(acc, v) ==
  /\ DOMAIN acc.bits = 1..Len(MaskOfOrderResponse)
  /\ \A n \in 1..Len(NamesOfOrderResponse) :
       LET f == NamesOfOrderResponse[n]
       IN  /\ f \in DOMAIN acc.s /\ ReadyValue(f, acc.s[f], v[f])
           /\ HasBit(acc.bits, n) => TellsValue(f, acc.s[f], v[f])

\* The zero OrderResponse claims nothing.
LEMMA ZeroOrderReady ==
  ASSUME NEW v, NEW n \in 1..Len(NamesOfOrderResponse)
  PROVE  LET f == NamesOfOrderResponse[n]
         IN  f \in DOMAIN ZeroOrderResponse /\ ReadyValue(f, ZeroOrderResponse[f], v[f])
<1> DEFINE f == NamesOfOrderResponse[n]
           D == OrderText \cup OrderInt \cup {"order_uid", "date_created", "delivery", "payment", "items"}
<1>1. f \in D /\ f # "request_id"
  BY DEF NamesOfOrderResponse, OrderText, OrderInt
<1>2. DOMAIN ZeroOrderResponse = D
  BY Zenon DEF ZeroOrderResponse
<1> HIDE DEF f
<1>3. CASE f = "delivery"
  <2>1. ZeroOrderResponse[f] = ZeroDelivery
    BY <1>1, <1>3, Zenon DEF ZeroOrderResponse
  <2> QED
    BY <1>1, <1>2, <1>3, <2>1, ZeroReady DEF ReadyValue, OptNames, f
<1>4. CASE f = "payment"
  <2>1. ZeroOrderResponse[f] = ZeroPayment
    BY <1>1, <1>4, Zenon DEF ZeroOrderResponse
  <2> QED
    BY <1>1, <1>2, <1>4, <2>1, ZeroReady DEF ReadyValue, OptNames, f
<1>5. CASE f = "internal_signature"
  <2>1. ZeroOrderResponse[f] = Zero(f)
    BY <1>1, <1>5, Zenon DEF ZeroOrderResponse
  <2>2. Zero(f) = ZeroOpt(f)
    BY <1>5 DEF Zero, IntNames, OptNames, OrderInt, PaymentInt, ItemInt
  <2>3. f \in OptNames
    BY <1>5 DEF OptNames
  <2>4. TellsScalar(f, ZeroOpt(f), v[f])
    BY <2>3, Zenon DEF TellsScalar, ZeroOpt
  <2> QED
    BY <1>1, <1>2, <1>5, <2>1, <2>2, <2>4 DEF ReadyValue, f
<1>6. CASE f \notin {"delivery", "payment", "internal_signature"}
  BY <1>1, <1>2, <1>6 DEF ReadyValue, OptNames, f
<1> QED
  BY <1>3, <1>4, <1>5, <1>6

\* The decoded order x is v, field by field.
TellsOrder(x, v) ==
  \A n \in 1..Len(NamesOfOrderResponse) :
    LET f == NamesOfOrderResponse[n]
    IN  /\ ReadyValue(f, x[f], v[f])
        /\ f \notin OptNames => TellsValue(f, x[f], v[f])

\* An OrderResponse that decodes is the one that was encoded, whatever
\* members of it or of its objects were dropped, doubled, added or made null.
LEMMA OrderTells ==
  ASSUME NEW v, NEW doc, SaysOrder(doc, v, {Null}), Fine(DecodeOrderResponse(doc))
  PROVE  TellsOrder(DecodeOrderResponse(doc).s, v)
<1> DEFINE N == Len(doc)
           names == NamesOfOrderResponse
           mask == MaskOfOrderResponse
<1>0. Table(names, mask)
  BY TablesRight
<1>1. PICK M : doc \in Seq(M) /\ \A m \in M : SaysValue(m, v, {Null})
  BY DEF SaysOrder
<1>2. N \in Nat /\ \A i \in 1..N : SaysValue(doc[i], v, {Null})
  <2>1. N \in Nat /\ \A i \in 1..N : doc[i] \in M
    BY <1>1
  <2> QED
    BY <1>1, <2>1, Zenon
<1>3. PICK w : /\ OrderWalk(w, doc, Begin(ZeroOrderResponse, mask), N)
               /\ DecodeOrderResponse(doc) = Ended(w[N], names, mask)
  BY ONLY <1>2, DecodeOrderIsWalk
<1>4. \A j \in 0..N : w[j] = IF j = 0 THEN Begin(ZeroOrderResponse, mask)
                             ELSE DecodeOrderField(w[j - 1], doc[j])
  BY <1>3 DEF OrderWalk
<1> HIDE DEF names, mask
<1> DEFINE S == {k \in Nat : k <= N /\ Fine(w[k].end) => OrderSoFar(w[k], v)}
<1>5. 0 \in S
  <2>1. w[0] = Begin(ZeroOrderResponse, mask)
    BY <1>2, <1>4
  <2>2. /\ w[0].s = ZeroOrderResponse /\ DOMAIN w[0].bits = 1..Len(mask)
        /\ \A n \in 1..Len(names) : ~HasBit(w[0].bits, n)
    BY <1>0, <2>1, BeginFacts
  <2>3. OrderSoFar(w[0], v)
    BY <2>2, ZeroOrderReady DEF OrderSoFar, names, mask
  <2> QED
    BY <2>3
<1>6. ASSUME NEW k \in Nat, k \in S PROVE k + 1 \in S
  <2> SUFFICES ASSUME k + 1 <= N, Fine(w[k + 1].end) PROVE OrderSoFar(w[k + 1], v)
    OBVIOUS
  <2> DEFINE acc == w[k]
             m == doc[k + 1]
             r == DecodeValue(acc.s[m.key], m.key, m.val)
  <2>1. w[k + 1] = Member(acc, m, names, r) /\ SaysValue(m, v, {Null}) /\ k <= N
    <3>1. k + 1 \in 0..N /\ k + 1 \in 1..N /\ k + 1 # 0 /\ (k + 1) - 1 = k /\ k <= N
      BY <1>2
    <3>2. w[k + 1] = DecodeOrderField(w[k], doc[k + 1])
      BY <1>4, <3>1
    <3> QED
      BY <1>2, <3>1, <3>2, Zenon DEF DecodeOrderField, names
  <2>2. k <= N /\ Fine(acc.end) => OrderSoFar(acc, v)
    BY <1>6
  <2> HIDE DEF acc, m, r
  <2>3. CASE ~Fine(acc.end) \/ \A n \in 1..Len(names) : names[n] # m.key
    BY <2>1, <2>2, <2>3, MemberSkips
  <2>4. ASSUME Fine(acc.end), NEW a \in 1..Len(names), names[a] = m.key
        PROVE  OrderSoFar(w[k + 1], v)
    <3> DEFINE new == w[k + 1]
    <3>1. OrderSoFar(acc, v)
      BY <2>1, <2>2, <2>4
    <3>2. /\ new.end = r /\ new.s = [acc.s EXCEPT ![m.key] = r.s]
          /\ DOMAIN new.bits = 1..Len(mask)
          /\ \A n \in 1..Len(names) :
               HasBit(new.bits, n) <=> HasBit(acc.bits, n) \/ (n = a /\ m.key \notin OptNames)
      <4>1. DOMAIN acc.bits = 1..Len(mask)
        BY <3>1 DEF OrderSoFar, mask
      <4> QED
        BY <1>0, <2>1, <2>4, <4>1, MemberFacts
    <3> HIDE DEF new
    <3>3. \A n \in 1..Len(names) :
            /\ names[n] \in DOMAIN acc.s /\ ReadyValue(names[n], acc.s[names[n]], v[names[n]])
            /\ HasBit(acc.bits, n) => TellsValue(names[n], acc.s[names[n]], v[names[n]])
      BY <3>1 DEF OrderSoFar, names
    <3>4. TellsValue(m.key, r.s, v[m.key])
      <4>1. ReadyValue(m.key, acc.s[m.key], v[m.key]) /\ Fine(r)
        BY <2>4, <3>2, <3>3 DEF new
      <4> QED
        BY <2>1, <4>1, ValueTells DEF r
    <3>5. ReadyValue(m.key, r.s, v[m.key])
      BY <3>4, TellsIsReady
    <3>6. \A n \in 1..Len(names) :
            /\ names[n] \in DOMAIN new.s
            /\ new.s[names[n]] = IF names[n] = m.key THEN r.s ELSE acc.s[names[n]]
      BY <3>2, <3>3
    <3>7. ASSUME NEW n \in 1..Len(names)
          PROVE  /\ ReadyValue(names[n], new.s[names[n]], v[names[n]])
                 /\ HasBit(new.bits, n) => TellsValue(names[n], new.s[names[n]], v[names[n]])
      <4>1. CASE names[n] = m.key
        BY <3>4, <3>5, <3>6, <4>1
      <4>2. CASE names[n] # m.key
        BY <2>4, <3>2, <3>3, <3>6, <4>2
      <4> QED
        BY <4>1, <4>2
    <3> QED
      BY <3>2, <3>6, <3>7 DEF OrderSoFar, new, names, mask
  <2> QED
    BY <2>3, <2>4
<1> HIDE DEF S
<1>7. Nat \subseteq S
  BY <1>5, <1>6, SetInduction
<1>8. N \in S
  BY <1>2, <1>7
<1>9. /\ DecodeOrderResponse(doc).s = w[N].s
      /\ Fine(w[N].end) /\ Lacking(w[N].bits, names) = {}
  BY <1>0, <1>3, EndedFacts, SMTT(30)
<1>10. OrderSoFar(w[N], v)
  BY <1>2, <1>8, <1>9 DEF S
<1>11. ASSUME NEW n \in 1..Len(names)
       PROVE  /\ ReadyValue(names[n], w[N].s[names[n]], v[names[n]])
              /\ names[n] \notin OptNames => TellsValue(names[n], w[N].s[names[n]], v[names[n]])
  <2>1. names[n] \notin OptNames => HasBit(w[N].bits, n)
    BY <1>9 DEF Lacking
  <2> QED
    BY <1>10, <2>1 DEF OrderSoFar, names
<1> QED
  BY <1>9, <1>11 DEF TellsOrder, names
-----------------------------------------------------------------------------
(***************************************************************************)
(* What Encode writes.                                                     *)
(***************************************************************************)
\* The members encodeFields may write for the struct v.
FieldMembers(v, names) == {Pair(f, EncodeScalar(f, v[f])) : f \in Elems(names)}

\* The members OrderResponse.encodeFields may write.
OrderMembers(v) == {Pair(f, EncodeValue(f, v[f])) : f \in Elems(NamesOfOrderResponse)}

\* What a member has.
LEMMA PairFacts ==
  ASSUME NEW f, NEW val
  PROVE  Pair(f, val).key = f /\ Pair(f, val).val = val
  BY DEF Pair

\* encodeFields writes the members of the fields that are set.
LEMMA EncodedFields ==
  ASSUME NEW v, NEW names, Len(names) \in Nat
  PROVE  /\ EncodeFields(v, names) \in Seq(FieldMembers(v, names))
         /\ Elems(EncodeFields(v, names)) = {m \in FieldMembers(v, names) : m.key \in Written(v, names)}
<1> DEFINE ms == [n \in 1..Len(names) |-> Pair(names[n], EncodeScalar(names[n], v[names[n]]))]
           M == FieldMembers(v, names)
<1>1. EncodeFields(v, names) = Kept(ms, Written(v, names))
  BY Zenon DEF EncodeFields
<1>2. \A n \in 1..Len(names) : ms[n] \in M
  BY DEF FieldMembers, Elems
<1>3. ms \in Seq(M) /\ Len(ms) = Len(names)
  <2>1. ms \in [1..Len(names) -> M]
    BY <1>2
  <2> HIDE DEF ms, M
  <2> QED
    BY <2>1
<1>4. Elems(ms) = M
  <2>1. \A n \in 1..Len(names) : ms[n] = Pair(names[n], EncodeScalar(names[n], v[names[n]]))
    OBVIOUS
  <2> HIDE DEF ms
  <2>2. ASSUME NEW m \in M PROVE m \in Elems(ms)
    <3>1. PICK n \in 1..Len(names) : m = Pair(names[n], EncodeScalar(names[n], v[names[n]]))
      BY DEF FieldMembers, Elems
    <3> QED
      BY <1>3, <2>1, <3>1 DEF Elems
  <2>3. \A x \in Elems(ms) : x \in M
    BY <1>2, <1>3 DEF Elems
  <2> QED
    BY <2>2, <2>3
<1> HIDE DEF ms, M
<1> QED
  BY <1>1, <1>3, <1>4, KeptFacts DEF M

\* So does the one of OrderResponse.
LEMMA EncodedOrder ==
  ASSUME NEW v
  PROVE  /\ EncodeOrderResponse(v) \in Seq(OrderMembers(v))
         /\ Elems(EncodeOrderResponse(v)) =
              {m \in OrderMembers(v) : m.key \in Written(v, NamesOfOrderResponse)}
<1> DEFINE names == NamesOfOrderResponse
           ms == [n \in 1..Len(names) |-> Pair(names[n], EncodeValue(names[n], v[names[n]]))]
           M == OrderMembers(v)
<1>0. Len(names) \in Nat
  BY DEF NamesOfOrderResponse
<1>1. EncodeOrderResponse(v) = Kept(ms, Written(v, names))
  BY Zenon DEF EncodeOrderResponse
<1>2. M = {Pair(f, EncodeValue(f, v[f])) : f \in Elems(names)}
  BY Zenon DEF OrderMembers
<1> HIDE DEF names, M
<1>3. \A n \in 1..Len(names) : ms[n] \in M
  BY <1>2 DEF Elems
<1>4. ms \in Seq(M) /\ Len(ms) = Len(names)
  <2>1. ms \in [1..Len(names) -> M]
    BY <1>3
  <2> HIDE DEF ms
  <2> QED
    BY <1>0, <2>1
<1>5. Elems(ms) = M
  <2>1. \A n \in 1..Len(names) : ms[n] = Pair(names[n], EncodeValue(names[n], v[names[n]]))
    OBVIOUS
  <2> HIDE DEF ms
  <2>2. ASSUME NEW m \in M PROVE m \in Elems(ms)
    <3>1. PICK n \in 1..Len(names) : m = Pair(names[n], EncodeValue(names[n], v[names[n]]))
      BY <1>2 DEF Elems
    <3> QED
      BY <1>4, <2>1, <3>1 DEF Elems
  <2>3. \A x \in Elems(ms) : x \in M
    BY <1>3, <1>4 DEF Elems
  <2> QED
    BY <2>2, <2>3
<1> HIDE DEF ms
<1> QED
  BY <1>1, <1>4, <1>5, KeptFacts DEF M, names

\* The branches of EncodeValue.
LEMMA EncodeBranches ==
  ASSUME NEW v
  PROVE  /\ EncodeValue("delivery", v) = Obj(EncodeDelivery(v))
         /\ EncodeValue("payment", v) = Obj(EncodePayment(v))
         /\ EncodeValue("items", v) =
              [t |-> "array", v |-> [n \in 1..Len(v.elems) |-> Obj(EncodeOrderItem(v.elems[n]))]]
         /\ \A f : f \notin Structs => EncodeValue(f, v) = EncodeScalar(f, v)
<1>1. EncodeValue("delivery", v) = Obj(EncodeDelivery(v))
  BY Zenon DEF EncodeValue
<1>2. EncodeValue("payment", v) = Obj(EncodePayment(v))
  BY Zenon DEF EncodeValue
<1>3. EncodeValue("items", v) =
        [t |-> "array", v |-> [n \in 1..Len(v.elems) |-> Obj(EncodeOrderItem(v.elems[n]))]]
  BY Zenon DEF EncodeValue
<1>4. ASSUME NEW f, f \notin Structs PROVE EncodeValue(f, v) = EncodeScalar(f, v)
  <2>1. f # "delivery" /\ f # "payment" /\ f # "items"
    BY <1>4 DEF Structs
  <2> QED
    BY <2>1, Zenon DEF EncodeValue
<1> QED
  BY <1>1, <1>2, <1>3, <1>4, Zenon

\* The members of a struct of scalars say what it has.
LEMMA FieldMembersSay ==
  ASSUME NEW v, NEW names, NEW extra
  PROVE  \A m \in FieldMembers(v, names) : SaysField(m, v, extra)
  BY PairFacts DEF FieldMembers, SaysField

\* So do the documents encodeFields writes.
LEMMA EncodedSays ==
  ASSUME NEW v, NEW extra
  PROVE  /\ EncodeDelivery(v) \in Seq(FieldMembers(v, NamesOfDelivery))
         /\ EncodePayment(v) \in Seq(FieldMembers(v, NamesOfPayment))
         /\ EncodeOrderItem(v) \in Seq(FieldMembers(v, NamesOfOrderItem))
         /\ EncodeError(v) \in Seq(FieldMembers(v, NamesOfError))
         /\ SaysFields(EncodeDelivery(v), v, extra)
         /\ SaysFields(EncodePayment(v), v, extra)
         /\ SaysFields(EncodeOrderItem(v), v, extra)
         /\ SaysFields(EncodeError(v), v, extra)
<1>1. /\ Len(NamesOfDelivery) \in Nat /\ Len(NamesOfPayment) \in Nat
      /\ Len(NamesOfOrderItem) \in Nat /\ Len(NamesOfError) \in Nat
  BY DEF NamesOfDelivery, NamesOfPayment, NamesOfOrderItem, NamesOfError
<1>2. EncodeDelivery(v) \in Seq(FieldMembers(v, NamesOfDelivery))
  BY <1>1, EncodedFields DEF EncodeDelivery
<1>3. EncodePayment(v) \in Seq(FieldMembers(v, NamesOfPayment))
  BY <1>1, EncodedFields DEF EncodePayment
<1>4. EncodeOrderItem(v) \in Seq(FieldMembers(v, NamesOfOrderItem))
  BY <1>1, EncodedFields DEF EncodeOrderItem
<1>5. EncodeError(v) \in Seq(FieldMembers(v, NamesOfError))
  BY <1>1, EncodedFields DEF EncodeError
<1> QED
  BY <1>2, <1>3, <1>4, <1>5, FieldMembersSay, Zenon DEF SaysFields

\* The elements of items say what they are.
LEMMA EncodedElemsSay ==
  ASSUME NEW v, Len(v.elems) \in Nat, NEW extra
  PROVE  SaysElems(EncodeValue("items", v).v, v.elems, extra) /\ EncodeValue("items", v).t = "array"
<1> DEFINE es == [n \in 1..Len(v.elems) |-> Obj(EncodeOrderItem(v.elems[n]))]
<1>1. EncodeValue("items", v) = [t |-> "array", v |-> es]
  BY EncodeBranches, Zenon
<1>2. Len(es) = Len(v.elems)
  OBVIOUS
<1>3. ASSUME NEW n \in 1..Len(es)
      PROVE  es[n].t = "object" /\ SaysFields(es[n].v, v.elems[n], extra)
  <2>1. es[n] = Obj(EncodeOrderItem(v.elems[n]))
    BY <1>2
  <2> HIDE DEF es
  <2>2. es[n].t = "object" /\ es[n].v = EncodeOrderItem(v.elems[n])
    BY <2>1 DEF Obj
  <2> QED
    BY <2>2, EncodedSays
<1> HIDE DEF es
<1>4. EncodeValue("items", v).v = es /\ EncodeValue("items", v).t = "array"
  BY <1>1
<1> QED
  BY <1>2, <1>3, <1>4 DEF SaysElems

\* The members of an OrderResponse say what it has.
LEMMA OrderMembersSay ==
  ASSUME NEW v, Len(v.items.elems) \in Nat, NEW extra
  PROVE  \A m \in OrderMembers(v) : SaysValue(m, v, extra)
<1> TAKE m \in OrderMembers(v)
<1>1. PICK f : m = Pair(f, EncodeValue(f, v[f]))
  BY DEF OrderMembers
<1>2. m.key = f /\ m.val = EncodeValue(f, v[f])
  BY <1>1, PairFacts
<1>3. CASE f = "delivery"
  <2>0. v[f] = v.delivery
    BY <1>3
  <2>1. m.val = Obj(EncodeDelivery(v.delivery))
    BY <1>2, <1>3, <2>0, EncodeBranches, Zenon
  <2>2. m.val.t = "object" /\ m.val.v = EncodeDelivery(v.delivery)
    BY <2>1 DEF Obj
  <2> QED
    BY <1>2, <1>3, <2>2, EncodedSays DEF SaysValue
<1>4. CASE f = "payment"
  <2>0. v[f] = v.payment
    BY <1>4
  <2>1. m.val = Obj(EncodePayment(v.payment))
    BY <1>2, <1>4, <2>0, EncodeBranches, Zenon
  <2>2. m.val.t = "object" /\ m.val.v = EncodePayment(v.payment)
    BY <2>1 DEF Obj
  <2> QED
    BY <1>2, <1>4, <2>2, EncodedSays DEF SaysValue
<1>5. CASE f = "items"
  BY <1>2, <1>5, EncodedElemsSay DEF SaysValue
<1>6. CASE f \notin Structs
  BY <1>2, <1>6, EncodeBranches DEF SaysValue
<1> QED
  BY <1>3, <1>4, <1>5, <1>6 DEF Structs
-----------------------------------------------------------------------------
(***************************************************************************)
(* What decodes, and which fields are reported missing.                    *)
(***************************************************************************)
\* A Decode method ends with no wrong type and the fields L missing.
Ends(r, L) == ~r.bad /\ r.missed = L

\* The keys of an object.
Keys(doc) == {doc[i].key : i \in 1..Len(doc)}

\* The fields of a struct that are required.
Needed(names) == Elems(names) \ OptNames

\* The outcomes, in these terms.
LEMMA EndsFacts ==
  ASSUME NEW r, NEW x
  PROVE  /\ Fine(r) <=> Ends(r, {})
         /\ Ends(Got(x), {})
         /\ \A L : Ends(r, L) => Ends(Over(r, x), L)
         /\ \A L : Ends(r, L) /\ L # {} => ~Fine(r)
<1>1. Fine(r) <=> Ends(r, {})
  BY Zenon DEF Fine, Ends
<1>2. Ends(Got(x), {})
  BY Zenon DEF Got, Ends
<1>3. \A L : Ends(r, L) => Ends(Over(r, x), L)
  BY Zenon DEF Over, Ends
<1>4. \A L : Ends(r, L) /\ L # {} => ~Fine(r)
  BY Zenon DEF Fine, Ends
<1> QED
  BY <1>1, <1>2, <1>3, <1>4, Zenon

\* What Encode writes for a scalar decodes.
LEMMA ScalarDecodes ==
  ASSUME NEW old, NEW f, NEW v
  PROVE  Fine(DecodeScalar(old, f, EncodeScalar(f, v)))
<1> DEFINE val == EncodeScalar(f, v)
<1>0. \A g \in IntNames : g \notin OptNames
  BY DEF IntNames, OptNames, OrderInt, PaymentInt, ItemInt
<1>1. CASE f \in IntNames
  <2>1. val.t = "number"
    BY <1>1 DEF EncodeScalar, Num
  <2> HIDE DEF val
  <2>2. DecodeScalar(old, f, val) = Got(val.v)
    BY <1>0, <1>1, <2>1, Zenon DEF DecodeScalar
  <2> QED
    BY <2>2, OutcomeFacts DEF val
<1>2. CASE f \notin IntNames
  <2>1. val.t = "string"
    BY <1>2 DEF EncodeScalar, Str
  <2> HIDE DEF val
  <2>2. DecodeScalar(old, f, val) = Got([Set |-> TRUE, Value |-> val.v]) \/ DecodeScalar(old, f, val) = Got(val.v)
    BY <1>2, <2>1, Zenon DEF DecodeScalar
  <2>3. \E x : DecodeScalar(old, f, val) = Got(x)
    BY <2>2, Zenon
  <2> QED
    BY <2>3, OutcomeFacts DEF val
<1> QED
  BY <1>1, <1>2

\* The bits that are set are those of the required fields that came.
BitsSoFar(acc, doc, k, names, mask) ==
  /\ Fine(acc.end) /\ DOMAIN acc.bits = 1..Len(mask)
  /\ \A n \in 1..Len(names) :
       HasBit(acc.bits, n) <=> names[n] \notin OptNames /\ \E i \in 1..k : doc[i].key = names[n]

\* No bit at the start.
LEMMA BitsBegin ==
  ASSUME NEW names, NEW mask, Table(names, mask), NEW start, NEW doc
  PROVE  BitsSoFar(Begin(start, mask), doc, 0, names, mask)
<1>1. \A n \in 1..Len(names) : ~HasBit(Begin(start, mask).bits, n)
  BY BeginFacts
<1>2. Fine(Begin(start, mask).end) /\ DOMAIN Begin(start, mask).bits = 1..Len(mask)
  BY BeginFacts
<1>3. \A i : i \notin 1..0
  OBVIOUS
<1> QED
  BY <1>1, <1>2, <1>3, Zenon DEF BitsSoFar

\* One more with every member that decodes.
LEMMA BitsMember ==
  ASSUME NEW names, NEW mask, Table(names, mask), NEW acc, NEW doc, NEW k \in Nat,
         BitsSoFar(acc, doc, k, names, mask), NEW r, Fine(r)
  PROVE  BitsSoFar(Member(acc, doc[k + 1], names, r), doc, k + 1, names, mask)
<1> DEFINE m == doc[k + 1]
           new == Member(acc, m, names, r)
<1>1. \A x : (\E i \in 1..(k + 1) : doc[i].key = x) <=> (\E i \in 1..k : doc[i].key = x) \/ m.key = x
  <2>1. \A i \in 1..(k + 1) : i \in 1..k \/ i = k + 1
    OBVIOUS
  <2>2. k + 1 \in 1..(k + 1) /\ \A i \in 1..k : i \in 1..(k + 1)
    OBVIOUS
  <2> QED
    BY <2>1, <2>2, Zenon
<1> HIDE DEF m
<1>2. CASE \A n \in 1..Len(names) : names[n] # m.key
  <2>1. new = acc
    BY <1>2, MemberSkips
  <2> QED
    BY <1>1, <1>2, <2>1, Zenon DEF BitsSoFar, m
<1>3. ASSUME NEW a \in 1..Len(names), names[a] = m.key
      PROVE  BitsSoFar(new, doc, k + 1, names, mask)
  <2>1. Fine(acc.end) /\ DOMAIN acc.bits = 1..Len(mask)
    BY Zenon DEF BitsSoFar
  <2>2. /\ new.end = r /\ new.s = [acc.s EXCEPT ![m.key] = r.s]
        /\ DOMAIN new.bits = 1..Len(mask)
        /\ \A n \in 1..Len(names) :
             HasBit(new.bits, n) <=> HasBit(acc.bits, n) \/ (n = a /\ m.key \notin OptNames)
    BY <1>3, <2>1, MemberFacts
  <2>3. \A n \in 1..Len(names) : names[n] = names[a] => n = a
    BY Zenon DEF Table
  <2> HIDE DEF new
  <2>4. ASSUME NEW n \in 1..Len(names)
        PROVE  HasBit(new.bits, n) <=>
                 names[n] \notin OptNames /\ \E i \in 1..(k + 1) : doc[i].key = names[n]
    <3>1. HasBit(acc.bits, n) <=> names[n] \notin OptNames /\ \E i \in 1..k : doc[i].key = names[n]
      BY Zenon DEF BitsSoFar
    <3> QED
      BY <1>1, <1>3, <2>2, <2>3, <3>1, Zenon
  <2> QED
    BY <2>2, <2>4, Zenon DEF BitsSoFar
<1> QED
  BY <1>2, <1>3 DEF m

\* At the end the required fields that did not come are missing.
LEMMA BitsEnd ==
  ASSUME NEW names, NEW mask, Table(names, mask), NEW last, NEW doc,
         BitsSoFar(last, doc, Len(doc), names, mask)
  PROVE  Ends(Ended(last, names, mask), Needed(names) \ Keys(doc))
<1>1. Lacking(last.bits, names) = Needed(names) \ Keys(doc)
  <2>1. \A n \in 1..Len(names) : ~HasBit(last.bits, n) <=> names[n] \in OptNames \/ names[n] \notin Keys(doc)
    BY DEF BitsSoFar, Keys
  <2> QED
    BY <2>1 DEF Lacking, Needed, Elems
<1>2. Fine(last.end)
  BY Zenon DEF BitsSoFar
<1> QED
  BY <1>1, <1>2, EndedFacts DEF Ends

\* A struct of scalars decodes whatever fields are left out, and exactly the
\* required ones among these are reported.
LEMMA FieldsDecode ==
  ASSUME NEW names, NEW mask, Table(names, mask), NEW v, NEW start,
         NEW doc, SaysFields(doc, v, {})
  PROVE  Ends(DecodeFields(start, doc, names, mask), Needed(names) \ Keys(doc))
<1>1. PICK M : doc \in Seq(M) /\ \A m \in M : SaysField(m, v, {})
  BY DEF SaysFields
<1> DEFINE N == Len(doc)
<1>2. N \in Nat /\ \A i \in 1..N : doc[i].val = EncodeScalar(doc[i].key, v[doc[i].key])
  <2>1. N \in Nat /\ \A i \in 1..N : doc[i] \in M
    BY <1>1
  <2>2. \A m \in M : m.val = EncodeScalar(m.key, v[m.key])
    BY <1>1 DEF SaysField
  <2> QED
    BY <2>1, <2>2, Zenon
<1>3. PICK w : /\ FieldWalk(w, doc, names, Begin(start, mask), N)
               /\ DecodeFields(start, doc, names, mask) = Ended(w[N], names, mask)
  BY ONLY <1>2, DecodeFieldsIsWalk
<1>4. \A j \in 0..N : w[j] = IF j = 0 THEN Begin(start, mask) ELSE DecodeField(w[j - 1], doc[j], names)
  BY <1>3 DEF FieldWalk
<1> DEFINE S == {k \in Nat : k <= N => BitsSoFar(w[k], doc, k, names, mask)}
<1>5. 0 \in S
  <2>1. w[0] = Begin(start, mask)
    BY <1>2, <1>4
  <2>2. BitsSoFar(w[0], doc, 0, names, mask)
    BY <2>1, BitsBegin
  <2> QED
    BY <2>2
<1>6. ASSUME NEW k \in Nat, k \in S PROVE k + 1 \in S
  <2> SUFFICES ASSUME k + 1 <= N PROVE BitsSoFar(w[k + 1], doc, k + 1, names, mask)
    OBVIOUS
  <2> DEFINE m == doc[k + 1]
             r == DecodeScalar(w[k].s[m.key], m.key, m.val)
  <2>1. k + 1 \in 0..N /\ k + 1 \in 1..N /\ k + 1 # 0 /\ (k + 1) - 1 = k /\ k <= N
    BY <1>2
  <2>2. w[k + 1] = DecodeField(w[k], doc[k + 1], names)
    BY <1>4, <2>1
  <2>3. w[k + 1] = Member(w[k], doc[k + 1], names, r)
    BY <2>2, Zenon DEF DecodeField
  <2>4. m.val = EncodeScalar(m.key, v[m.key])
    BY <1>2, <2>1
  <2>5. Fine(r)
    BY <2>4, ScalarDecodes
  <2>6. BitsSoFar(w[k], doc, k, names, mask)
    BY <1>6, <2>1
  <2> HIDE DEF r
  <2> QED
    BY <2>3, <2>5, <2>6, BitsMember
<1> HIDE DEF S
<1>7. Nat \subseteq S
  BY <1>5, <1>6, SetInduction
<1>8. N \in S
  BY <1>2, <1>7
<1>9. BitsSoFar(w[N], doc, N, names, mask)
  BY <1>2, <1>8 DEF S
<1> QED
  BY <1>3, <1>9, BitsEnd

\* Items of which the first ends with the fields L missing, and the others
\* decode.
ElemsEnd(es, L) ==
  \A n \in 1..Len(es) : es[n].t = "object" /\ Ends(DecodeOrderItem(es[n].v), IF n = 1 THEN L ELSE {})

\* d.Arr ends as its first element does; without elements nothing is missing.
LEMMA ElemsDecode ==
  ASSUME NEW es, Len(es) \in Nat, NEW L, ElemsEnd(es, L), Len(es) # 0 \/ L = {}
  PROVE  Ends(DecodeElems(es), L)
<1> DEFINE N == Len(es)
           item(n) == DecodeOrderItem(es[n].v)
<1>1. N \in Nat /\ \A n \in 1..N : es[n].t = "object" /\ Ends(item(n), IF n = 1 THEN L ELSE {})
  BY DEF ElemsEnd
<1>2. PICK w : ElemWalk(w, es, N) /\ DecodeElems(es) = w[N]
  BY <1>1, DecodeElemsIsWalk
<1>3. \A j \in 0..N : w[j] = IF j = 0 THEN Got(<<>>) ELSE DecodeElem(w[j - 1], es[j])
  BY <1>2 DEF ElemWalk
<1> HIDE DEF item
<1> DEFINE S == {k \in Nat : k <= N => Ends(w[k], IF k = 0 THEN {} ELSE L)}
<1>4. 0 \in S
  <2>1. w[0] = Got(<<>>)
    BY <1>1, <1>3
  <2>2. Ends(w[0], {})
    BY <2>1, EndsFacts
  <2> QED
    BY <2>2
<1>5. ASSUME NEW k \in Nat, k \in S PROVE k + 1 \in S
  <2> SUFFICES ASSUME k + 1 <= N PROVE Ends(w[k + 1], L)
    OBVIOUS
  <2>1. k + 1 \in 1..N /\ k + 1 \in 0..N /\ (k + 1) - 1 = k /\ k + 1 # 0 /\ k <= N
    BY <1>1
  <2>2. w[k + 1] = DecodeElem(w[k], es[k + 1]) /\ es[k + 1].t = "object"
    BY <1>1, <1>3, <2>1
  <2>3. /\ ~Fine(w[k]) => w[k + 1] = w[k]
        /\ Fine(w[k]) /\ Fine(item(k + 1)) => w[k + 1] = Got(Append(w[k].s, item(k + 1).s))
        /\ Fine(w[k]) /\ ~Fine(item(k + 1)) => w[k + 1] = Over(item(k + 1), w[k].s)
    BY <2>2, Zenon DEF DecodeElem, item
  <2>4. Ends(w[k], IF k = 0 THEN {} ELSE L) /\ Ends(item(k + 1), IF k = 0 THEN L ELSE {})
    <3>1. k + 1 = 1 <=> k = 0
      OBVIOUS
    <3> QED
      BY <1>1, <1>5, <2>1, <3>1
  <2>5. CASE k = 0
    <3>1. Fine(w[k]) /\ Ends(item(k + 1), L)
      BY <2>4, <2>5, EndsFacts
    <3>2. CASE L = {}
      <4>1. Fine(item(k + 1))
        BY <3>1, <3>2, EndsFacts
      <4> QED
        BY <2>3, <3>1, <3>2, <4>1, EndsFacts
    <3>3. CASE L # {}
      <4>1. ~Fine(item(k + 1))
        BY <3>1, <3>3, EndsFacts
      <4> QED
        BY <2>3, <3>1, <4>1, EndsFacts
    <3> QED
      BY <3>2, <3>3
  <2>6. CASE k # 0
    <3>1. Ends(w[k], L) /\ Fine(item(k + 1))
      BY <2>4, <2>6, EndsFacts
    <3>2. CASE L = {}
      <4>1. Fine(w[k])
        BY <3>1, <3>2, EndsFacts
      <4> QED
        BY <2>3, <3>1, <3>2, <4>1, EndsFacts
    <3>3. CASE L # {}
      <4>1. ~Fine(w[k])
        BY <3>1, <3>3, EndsFacts
      <4> QED
        BY <2>3, <3>1, <4>1
    <3> QED
      BY <3>2, <3>3
  <2> QED
    BY <2>5, <2>6
<1> HIDE DEF S
<1>6. Nat \subseteq S
  BY <1>4, <1>5, SetInduction
<1>7. N \in S
  BY <1>1, <1>6
<1>8. Ends(w[N], IF N = 0 THEN {} ELSE L) /\ (N = 0 => L = {})
  BY <1>1, <1>7 DEF S
<1> QED
  BY <1>2, <1>8

\* The member m ends with the fields L missing, whatever the struct has.
ValueEnds(m, L) == \A old : Ends(DecodeValue(old, m.key, m.val), L)

\* So does a member with items in it.
LEMMA ItemsEnd ==
  ASSUME NEW m, m.key = "items", m.val.t = "array", Len(m.val.v) \in Nat,
         NEW L, ElemsEnd(m.val.v, L), Len(m.val.v) # 0 \/ L = {}
  PROVE  ValueEnds(m, L)
<1> DEFINE val == m.val
           r == IF val.t = "array" THEN DecodeElems(val.v) ELSE Bad(<<>>)
<1>1. DecodeItems(val) = Over(r, [isNil |-> FALSE, elems |-> r.s])
  BY Zenon DEF DecodeItems
<1>2. r = DecodeElems(val.v)
  OBVIOUS
<1>3. Ends(DecodeElems(val.v), L)
  BY ElemsDecode
<1> HIDE DEF r, val
<1>4. Ends(DecodeItems(val), L)
  <2>1. PICK x : DecodeItems(val) = Over(r, x)
    BY <1>1, Zenon
  <2> QED
    BY <1>2, <1>3, <2>1, EndsFacts
<1>5. ASSUME NEW old PROVE DecodeValue(old, m.key, m.val) = DecodeItems(val)
  BY ValueBranches DEF val
<1> QED
  BY <1>4, <1>5 DEF ValueEnds

\* A member with an object of scalars in it.
LEMMA ObjectEnds ==
  ASSUME NEW m, NEW v, m.val.t = "object", SaysFields(m.val.v, v, {})
  PROVE  /\ m.key = "delivery" => ValueEnds(m, Needed(NamesOfDelivery) \ Keys(m.val.v))
         /\ m.key = "payment" => ValueEnds(m, Needed(NamesOfPayment) \ Keys(m.val.v))
<1>1. ASSUME NEW old, m.key = "delivery"
      PROVE  Ends(DecodeValue(old, m.key, m.val), Needed(NamesOfDelivery) \ Keys(m.val.v))
  <2>1. DecodeValue(old, m.key, m.val) = DecodeFields(old, m.val.v, NamesOfDelivery, MaskOfDelivery)
    BY <1>1, ValueBranches DEF DecodeDelivery
  <2>2. Ends(DecodeFields(old, m.val.v, NamesOfDelivery, MaskOfDelivery), Needed(NamesOfDelivery) \ Keys(m.val.v))
    BY TablesRight, FieldsDecode
  <2> QED
    BY <2>1, <2>2
<1>2. ASSUME NEW old, m.key = "payment"
      PROVE  Ends(DecodeValue(old, m.key, m.val), Needed(NamesOfPayment) \ Keys(m.val.v))
  <2>1. DecodeValue(old, m.key, m.val) = DecodeFields(old, m.val.v, NamesOfPayment, MaskOfPayment)
    BY <1>2, ValueBranches DEF DecodePayment
  <2>2. Ends(DecodeFields(old, m.val.v, NamesOfPayment, MaskOfPayment), Needed(NamesOfPayment) \ Keys(m.val.v))
    BY TablesRight, FieldsDecode
  <2> QED
    BY <2>1, <2>2
<1> QED
  BY <1>1, <1>2 DEF ValueEnds

\* An OrderResponse decodes whatever fields are left out, when all that is
\* there decodes, and exactly the required ones among these are reported.
LEMMA OrderDecodes ==
  ASSUME NEW doc, Len(doc) \in Nat, \A i \in 1..Len(doc) : ValueEnds(doc[i], {})
  PROVE  Ends(DecodeOrderResponse(doc), Needed(NamesOfOrderResponse) \ Keys(doc))
<1> DEFINE N == Len(doc)
           names == NamesOfOrderResponse
           mask == MaskOfOrderResponse
<1>0. Table(names, mask)
  BY TablesRight
<1>2. N \in Nat
  OBVIOUS
<1>3. PICK w : /\ OrderWalk(w, doc, Begin(ZeroOrderResponse, mask), N)
               /\ DecodeOrderResponse(doc) = Ended(w[N], names, mask)
  BY ONLY <1>2, DecodeOrderIsWalk
<1>4. \A j \in 0..N : w[j] = IF j = 0 THEN Begin(ZeroOrderResponse, mask)
                             ELSE DecodeOrderField(w[j - 1], doc[j])
  BY <1>3 DEF OrderWalk
<1> HIDE DEF names, mask
<1> DEFINE S == {k \in Nat : k <= N => BitsSoFar(w[k], doc, k, names, mask)}
<1>5. 0 \in S
  <2>1. w[0] = Begin(ZeroOrderResponse, mask)
    BY <1>2, <1>4
  <2>2. BitsSoFar(w[0], doc, 0, names, mask)
    BY <1>0, <2>1, BitsBegin
  <2> QED
    BY <2>2
<1>6. ASSUME NEW k \in Nat, k \in S PROVE k + 1 \in S
  <2> SUFFICES ASSUME k + 1 <= N PROVE BitsSoFar(w[k + 1], doc, k + 1, names, mask)
    OBVIOUS
  <2> DEFINE m == doc[k + 1]
             r == DecodeValue(w[k].s[m.key], m.key, m.val)
  <2>1. k + 1 \in 0..N /\ k + 1 \in 1..N /\ k + 1 # 0 /\ (k + 1) - 1 = k /\ k <= N
    BY <1>2
  <2>2. w[k + 1] = DecodeOrderField(w[k], doc[k + 1])
    BY <1>4, <2>1
  <2>3. w[k + 1] = Member(w[k], doc[k + 1], names, r)
    BY <2>2, Zenon DEF DecodeOrderField, names
  <2>4. ValueEnds(m, {})
    BY <2>1
  <2>5. Fine(r)
    BY <2>4, EndsFacts DEF ValueEnds
  <2>6. BitsSoFar(w[k], doc, k, names, mask)
    BY <1>6, <2>1
  <2> HIDE DEF r
  <2> QED
    BY <1>0, <2>3, <2>5, <2>6, BitsMember
<1> HIDE DEF S
<1>7. Nat \subseteq S
  BY <1>5, <1>6, SetInduction
<1>8. N \in S
  BY <1>2, <1>7
<1>9. BitsSoFar(w[N], doc, N, names, mask)
  BY <1>2, <1>8 DEF S
<1> QED
  BY <1>0, <1>3, <1>9, BitsEnd DEF names

\* An OrderResponse ends as the first member in it that does not decode.
LEMMA OrderFails ==
  ASSUME NEW doc, Len(doc) \in Nat, NEW L, L # {},
         \A i \in 1..Len(doc) : ValueEnds(doc[i], {}) \/ ValueEnds(doc[i], L),
         \A i \in 1..Len(doc) : doc[i].key \in Elems(NamesOfOrderResponse),
         \E i \in 1..Len(doc) : ValueEnds(doc[i], L)
  PROVE  Ends(DecodeOrderResponse(doc), L)
<1> DEFINE N == Len(doc)
           names == NamesOfOrderResponse
           mask == MaskOfOrderResponse
<1>0. Table(names, mask)
  BY TablesRight
<1>1. \A i \in 1..N : \E n \in 1..Len(names) : names[n] = doc[i].key
  BY DEF Elems
<1>2. N \in Nat
  OBVIOUS
<1>3. PICK w : /\ OrderWalk(w, doc, Begin(ZeroOrderResponse, mask), N)
               /\ DecodeOrderResponse(doc) = Ended(w[N], names, mask)
  BY ONLY <1>2, DecodeOrderIsWalk
<1>4. \A j \in 0..N : w[j] = IF j = 0 THEN Begin(ZeroOrderResponse, mask)
                             ELSE DecodeOrderField(w[j - 1], doc[j])
  BY <1>3 DEF OrderWalk
<1> HIDE DEF names, mask
<1> DEFINE Still(k) == BitsSoFar(w[k], doc, k, names, mask) /\ \A i \in 1..k : ~ValueEnds(doc[i], L)
           S == {k \in Nat : k <= N => Still(k) \/ Ends(w[k].end, L)}
<1>5. 0 \in S
  <2>1. w[0] = Begin(ZeroOrderResponse, mask)
    BY <1>2, <1>4
  <2>2. BitsSoFar(w[0], doc, 0, names, mask)
    BY <1>0, <2>1, BitsBegin
  <2>3. \A i : i \notin 1..0
    OBVIOUS
  <2>4. Still(0)
    BY <2>2, <2>3
  <2> HIDE DEF Still
  <2> QED
    BY <2>4
<1>6. ASSUME NEW k \in Nat, k \in S PROVE k + 1 \in S
  <2>0. k + 1 \in Nat
    OBVIOUS
  <2> SUFFICES ASSUME k + 1 <= N PROVE Still(k + 1) \/ Ends(w[k + 1].end, L)
    BY <2>0, Zenon
  <2> DEFINE m == doc[k + 1]
             r == DecodeValue(w[k].s[m.key], m.key, m.val)
  <2>1. k + 1 \in 0..N /\ k + 1 \in 1..N /\ k + 1 # 0 /\ (k + 1) - 1 = k /\ k <= N
    BY <1>2
  <2>2. w[k + 1] = DecodeOrderField(w[k], doc[k + 1])
    BY <1>4, <2>1
  <2>3. w[k + 1] = Member(w[k], m, names, r)
    BY <2>2, Zenon DEF DecodeOrderField, names
  <2>4. Still(k) \/ Ends(w[k].end, L)
    BY <1>6, <2>1, Zenon
  <2>5. ValueEnds(m, {}) \/ ValueEnds(m, L)
    BY <2>1
  <2>6. Ends(r, {}) \/ Ends(r, L)
    BY <2>5, Zenon DEF ValueEnds
  <2>7. ValueEnds(m, L) => Ends(r, L)
    BY Zenon DEF ValueEnds
  <2> HIDE DEF r
  <2>8. CASE Ends(w[k].end, L)
    <3>1. ~Fine(w[k].end)
      BY <2>8, EndsFacts
    <3>2. w[k + 1] = w[k]
      BY <2>3, <3>1, MemberSkips
    <3> QED
      BY <2>8, <3>2
  <2>9. CASE Still(k) /\ Ends(r, L)
    <3>1. PICK a \in 1..Len(names) : names[a] = m.key
      BY <1>1, <2>1
    <3>2. Fine(w[k].end) /\ DOMAIN w[k].bits = 1..Len(mask)
      BY <2>9, Zenon DEF BitsSoFar
    <3> DEFINE new == Member(w[k], m, names, r)
    <3>3. /\ new.end = r /\ new.s = [w[k].s EXCEPT ![m.key] = r.s]
          /\ DOMAIN new.bits = 1..Len(mask)
          /\ \A n \in 1..Len(names) :
               HasBit(new.bits, n) <=> HasBit(w[k].bits, n) \/ (n = a /\ m.key \notin OptNames)
      <4> HIDE DEF m
      <4> QED
        BY <1>0, <3>1, <3>2, MemberFacts, SMTT(60)
    <3> QED
      BY <2>3, <2>9, <3>3
  <2>10. CASE Still(k) /\ ~Ends(r, L)
    <3>1. Fine(r) /\ ~ValueEnds(m, L)
      BY <2>6, <2>7, <2>10, EndsFacts
    <3>2. BitsSoFar(w[k + 1], doc, k + 1, names, mask)
      BY <1>0, <2>3, <2>10, <3>1, BitsMember
    <3>3. \A i \in 1..(k + 1) : i \in 1..k \/ i = k + 1
      OBVIOUS
    <3>4. \A i \in 1..(k + 1) : ~ValueEnds(doc[i], L)
      BY <2>10, <3>1, <3>3, Zenon
    <3> QED
      BY <3>2, <3>4, Zenon
  <2> QED
    BY <2>4, <2>8, <2>9, <2>10, Zenon
<1> HIDE DEF S
<1>7. Nat \subseteq S
  BY <1>5, <1>6, SetInduction
<1>8. N \in S
  BY <1>2, <1>7
<1>9. Still(N) \/ Ends(w[N].end, L)
  <2>1. N <= N
    BY <1>2
  <2> HIDE DEF Still
  <2> QED
    BY <1>8, <2>1 DEF S
<1>10. Ends(w[N].end, L)
  BY <1>9, Zenon
<1>11. ~Fine(w[N].end)
  BY <1>10, EndsFacts
<1>12. DecodeOrderResponse(doc) = Over(w[N].end, w[N].s)
  BY <1>3, <1>11, Zenon DEF Ended
<1> QED
  BY <1>10, <1>12, EndsFacts
=============================================================================
