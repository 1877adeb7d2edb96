---------------------------- MODULE ServiceProofs ----------------------------
(***************************************************************************)
(* OrderService keeps cache and storage together, and its answers           *)
(* consistent, for every number of orders and of concurrent calls.          *)
(***************************************************************************)
EXTENDS OrderService, TLAPS

\* What the actions rely on besides the properties: a busy slot has an order,
\* a transaction that still inserts has a table left, and a Getter whose
\* order was known works on a stored order.
Shape ==
  /\ \A s \in Saver : save[s].pc # "idle" => save[s].order \in Order
  /\ \A s \in Saver : save[s].pc = "insert" => save[s].tables < LastTable
  /\ \A s \in Saver : save[s].pc = "commit" => save[s].tables = LastTable
  /\ \A s \in Saver : save[s].pc \in {"idle", "cache"} => save[s].tables = 0
  /\ \A g \in Getter : get[g].pc # "idle" => get[g].order \in Order
  /\ \A g \in Getter : get[g].pc = "cache" => get[g].items \in View

KnownIsStored ==
  \A g \in known : /\ get[g].pc # "idle" => get[g].order \in db
                   /\ get[g].base # "notfound"

Inv == TypeOK /\ Shape /\ CachedIsStored /\ KnownIsStored /\ KnownIsFound

\* Set adds the order it is given and no other, whatever it evicts.
LEMMA PutSafe ==
  ASSUME cache \in [Order -> View \cup {Absent}], NEW o \in Order, NEW v \in View,
         NEW c \in Put(o, v)
  PROVE  /\ c \in [Order -> View \cup {Absent}]
         /\ Cached(c) \subseteq Cached(cache) \cup {o}
<1> DEFINE new == [cache EXCEPT ![o] = v]
<1>1. new \in [Order -> View \cup {Absent}] /\ Cached(new) \subseteq Cached(cache) \cup {o}
  BY DEF Cached
<1>2. CASE c = new
  BY <1>1, <1>2
<1>3. CASE \E e \in Cached(new) : c = [new EXCEPT ![e] = Absent]
  BY <1>1, <1>3 DEF Cached
<1> QED
  BY <1>2, <1>3 DEF Put

LEMMA InitInv == ASSUME Init PROVE Inv
<1>1. TypeOK /\ Shape
  BY DEF Init, TypeOK, Shape, SaveIdle, At, GetIdle, Answer, LastTable
<1>2. CachedIsStored
  BY DEF Init, CachedIsStored, Cached, SaveIdle, At, GetIdle
<1>3. KnownIsStored /\ KnownIsFound
  BY DEF Init, KnownIsStored, KnownIsFound
<1> QED
  BY <1>1, <1>2, <1>3 DEF Inv
-----------------------------------------------------------------------------
(***************************************************************************)
(* The steps, by the state they change.                                    *)
(***************************************************************************)
\* Warm-up.
LEMMA WarmInv == ASSUME Inv, Warming PROVE Inv'
<1> USE DEF Inv
<1>0. UNCHANGED <<db, save, get, doubt, seen, known>>
  BY DEF Warming, WarmLoad, WarmFails, WarmDone, WarmSet
<1> DEFINE Filled == /\ warm' \in [Order -> View \cup {Absent}]
                     /\ phase' \in {"start", "warm", "serving"}
                     /\ cache' \in [Order -> View \cup {Absent}]
                     /\ Cached(cache') \cup Cached(warm') \subseteq db \cup doubt
<1>1. Filled
  <2>1. CASE WarmLoad
    <3>1. PICK S \in SUBSET db :
            \E v \in [S -> View] :
              warm' = [o \in Order |-> IF o \in S THEN v[o] ELSE Absent]
      BY <2>1 DEF WarmLoad
    <3>2. warm' \in [Order -> View \cup {Absent}] /\ Cached(warm') \subseteq db
      BY <3>1 DEF View, Cached
    <3> QED
      BY <2>1, <3>2 DEF WarmLoad, TypeOK, CachedIsStored
  <2>2. CASE WarmFails \/ WarmDone
    BY <2>2 DEF WarmFails, WarmDone, TypeOK, CachedIsStored
  <2>3. ASSUME NEW o \in Order, WarmSet(o) PROVE Filled
    <3>1. cache \in [Order -> View \cup {Absent}] /\ warm[o] \in View /\ cache' \in Put(o, warm[o])
      BY <2>3 DEF TypeOK, WarmSet
    <3>2. /\ cache' \in [Order -> View \cup {Absent}]
          /\ Cached(cache') \subseteq Cached(cache) \cup {o}
      BY <3>1, PutSafe
    <3>3. o \in Cached(warm) /\ Cached(warm') \subseteq Cached(warm)
      BY <2>3 DEF WarmSet, Cached, TypeOK
    <3>4. warm' \in [Order -> View \cup {Absent}] /\ phase' = phase
      BY <2>3 DEF WarmSet, TypeOK
    <3> QED
      BY <3>2, <3>3, <3>4 DEF TypeOK, CachedIsStored
  <2> QED
    BY <2>1, <2>2, <2>3 DEF Warming
<1>2. TypeOK' /\ Shape'
  BY <1>0, <1>1 DEF TypeOK, Shape
<1>3. CachedIsStored'
  BY <1>0, <1>1 DEF CachedIsStored, Cached
<1>4. (KnownIsStored /\ KnownIsFound)'
  BY <1>0 DEF KnownIsStored, KnownIsFound
<1> QED
  BY <1>2, <1>3, <1>4

\* The steps of SaveOrder inside its transaction.
LEMMA TransactionInv ==
  ASSUME Inv, NEW s \in Saver,
         (\E o \in Order : SaveCall(s, o)) \/ InsertRow(s) \/ InsertConflict(s)
           \/ InsertFails(s) \/ Rollback(s)
  PROVE  Inv'
<1> USE DEF Inv
<1>0. UNCHANGED <<phase, warm, db, cache, get, doubt, seen, known>>
  BY DEF SaveCall, InsertRow, InsertConflict, InsertFails, Rollback
<1>1. TypeOK' /\ Shape'
  <2>1. CASE \E o \in Order : SaveCall(s, o)
    BY <1>0, <2>1 DEF SaveCall, At, TypeOK, Shape, LastTable
  <2>2. CASE InsertRow(s)
    BY <1>0, <2>2 DEF InsertRow, At, TypeOK, Shape, LastTable
  <2>3. CASE InsertConflict(s)
    BY <1>0, <2>3 DEF InsertConflict, TypeOK, Shape, LastTable
  <2>4. CASE InsertFails(s)
    BY <1>0, <2>4 DEF InsertFails, TypeOK, Shape, LastTable
  <2>5. CASE Rollback(s)
    BY <1>0, <2>5 DEF Rollback, SaveIdle, At, TypeOK, Shape, LastTable
  <2> QED
    BY <2>1, <2>2, <2>3, <2>4, <2>5
<1>2. CachedIsStored'
  <2>1. \A t \in Saver : save'[t].pc = "cache" => t # s /\ save'[t] = save[t]
    BY DEF SaveCall, InsertRow, InsertConflict, InsertFails, Rollback, SaveIdle, At, TypeOK
  <2> QED
    BY <1>0, <2>1 DEF CachedIsStored, Cached
<1>3. (KnownIsStored /\ KnownIsFound)'
  BY <1>0 DEF KnownIsStored, KnownIsFound
<1> QED
  BY <1>1, <1>2, <1>3

\* Commit, with or without an error, and the goroutine behind SaveOrder.
LEMMA CommitInv ==
  ASSUME Inv, NEW s \in Saver, CommitOk(s) \/ CommitFails(s)
  PROVE  Inv'
<1> USE DEF Inv
<1> DEFINE o == save[s].order
<1>0. /\ UNCHANGED <<phase, warm, cache, get, known>> /\ o \in Order
      /\ save[s].pc = "commit"
      /\ save' = [save EXCEPT ![s] = At("cache", o, 0)]
      /\ seen' = seen \cup {o} /\ db \subseteq db' /\ db' \subseteq db \cup {o}
      /\ doubt \subseteq doubt' /\ doubt' \subseteq doubt \cup {o}
      /\ o \in db' \cup doubt'
  BY DEF CommitOk, CommitFails, Shape
<1> HIDE DEF o
<1>1. TypeOK' /\ Shape'
  BY <1>0 DEF TypeOK, Shape, LastTable, At
<1>2. CachedIsStored'
  BY <1>0 DEF CachedIsStored, Cached, TypeOK, At, o
<1>3. (KnownIsStored /\ KnownIsFound)'
  BY <1>0 DEF KnownIsStored, KnownIsFound
<1> QED
  BY <1>1, <1>2, <1>3

LEMMA SaverCachesInv == ASSUME Inv, NEW s \in Saver, SaverCaches(s) PROVE Inv'
<1> USE DEF Inv
<1> DEFINE o == save[s].order
<1>0. /\ UNCHANGED <<phase, warm, db, get, doubt, seen, known>> /\ o \in Order
      /\ save' = [save EXCEPT ![s] = SaveIdle] /\ o \in db \cup doubt
      /\ "whole" \in View /\ cache' \in Put(o, "whole")
      /\ cache \in [Order -> View \cup {Absent}]
  BY DEF SaverCaches, Shape, CachedIsStored, TypeOK, View
<1> HIDE DEF o
<1>1. /\ cache' \in [Order -> View \cup {Absent}]
      /\ Cached(cache') \subseteq Cached(cache) \cup {o}
  BY <1>0, PutSafe
<1>2. TypeOK' /\ Shape'
  BY <1>0, <1>1 DEF TypeOK, Shape, SaveIdle, At, LastTable
<1>3. CachedIsStored'
  BY <1>0, <1>1 DEF CachedIsStored, Cached, TypeOK, SaveIdle, At
<1>4. (KnownIsStored /\ KnownIsFound)'
  BY <1>0 DEF KnownIsStored, KnownIsFound
<1> QED
  BY <1>2, <1>3, <1>4

LEMMA OtherSavesInv == ASSUME Inv, NEW o \in Order, OtherSaves(o) PROVE Inv'
<1> USE DEF Inv, OtherSaves
<1>1. TypeOK' /\ Shape'
  BY DEF TypeOK, Shape
<1>2. CachedIsStored'
  BY DEF CachedIsStored, Cached
<1>3. (KnownIsStored /\ KnownIsFound)'
  BY DEF KnownIsStored, KnownIsFound
<1> QED
  BY <1>1, <1>2, <1>3

\* The steps of GetOrder up to its answer.
LEMMA GetInv ==
  ASSUME Inv, NEW g \in Getter,
         \/ \E o \in Order : GetCall(g, o)
         \/ CacheHit(g) \/ CacheMiss(g) \/ CacheFails(g) \/ QueryBase(g)
         \/ QueryItems(g) \/ GetFound(g) \/ GetError(g)
  PROVE  Inv'
<1> USE DEF Inv
<1>0. UNCHANGED <<phase, warm, db, cache, save, doubt>>
  BY DEF GetCall, CacheHit, CacheMiss, CacheFails, QueryBase, QueryItems, GetFound, GetError
<1> DEFINE Good ==
      /\ get' \in [Getter -> [pc : {"idle", "lookup", "query", "cache"},
                              order : Order \cup {None},
                              base : {"wait", "found", "notfound", "error"},
                              items : {"wait", "error"} \cup View, answer : Answer]]
      /\ known' \subseteq Getter /\ seen' \subseteq Order /\ seen' \subseteq db \cup doubt
      /\ \A h \in Getter : get'[h].pc # "idle" => get'[h].order \in Order
      /\ \A h \in Getter : get'[h].pc = "cache" => get'[h].items \in View /\ get'[h].order \in db
      /\ \A h \in known' : /\ get'[h].pc # "idle" => get'[h].order \in db
                           /\ get'[h].base # "notfound" /\ get'[h].answer # "notfound"
<1>1. Good
  <2> USE DEF TypeOK, Shape, CachedIsStored, KnownIsStored, KnownIsFound
  <2>1. ASSUME NEW o \in Order, GetCall(g, o) PROVE Good
    BY <2>1, ZenonT(60) DEF GetCall, GetIdle, Answer
  <2>2. CASE CacheHit(g)
    <3>1. /\ get[g].order \in Order /\ get[g].order \in Cached(cache)
          /\ cache[get[g].order] \in View
      BY <2>2 DEF CacheHit, Cached
    <3>2. cache[get[g].order] # "notfound"
      BY <3>1 DEF View
    <3> QED
      BY <2>2, <3>1, <3>2 DEF CacheHit, Answers, GetIdle, Answer
  <2>3. CASE CacheMiss(g)
    BY <2>3 DEF CacheMiss
  <2>4. CASE CacheFails(g)
    BY <2>4 DEF CacheFails, Answers, GetIdle, Answer
  <2>5. CASE QueryBase(g)
    BY <2>5 DEF QueryBase
  <2>6. CASE QueryItems(g)
    BY <2>6 DEF QueryItems, View
  <2>7. CASE GetFound(g)
    BY <2>7 DEF GetFound, Answer
  <2>8. CASE GetError(g)
    BY <2>8 DEF GetError, Answers, GetIdle, Answer
  <2> QED
    BY <2>1, <2>2, <2>3, <2>4, <2>5, <2>6, <2>7, <2>8
<1>2. TypeOK' /\ Shape'
  BY <1>0, <1>1 DEF TypeOK, Shape
<1>3. CachedIsStored'
  BY <1>0, <1>1 DEF CachedIsStored, Cached
<1>4. (KnownIsStored /\ KnownIsFound)'
  BY <1>0, <1>1 DEF KnownIsStored, KnownIsFound
<1> QED
  BY <1>2, <1>3, <1>4

\* The goroutine behind GetOrder.
LEMMA GetterCachesInv == ASSUME Inv, NEW g \in Getter, GetterCaches(g) PROVE Inv'
<1> USE DEF Inv
<1> DEFINE o == get[g].order
           v == get[g].items
<1>0. /\ UNCHANGED <<phase, warm, db, save, doubt, seen, known>>
      /\ o \in Order /\ o \in db /\ v \in View /\ cache' \in Put(o, v)
      /\ get' = [get EXCEPT ![g] = [GetIdle EXCEPT !.answer = get[g].answer]]
      /\ cache \in [Order -> View \cup {Absent}]
  BY DEF GetterCaches, Answers, Shape, CachedIsStored, TypeOK
<1> HIDE DEF o, v
<1>1. /\ cache' \in [Order -> View \cup {Absent}]
      /\ Cached(cache') \subseteq Cached(cache) \cup {o}
  BY <1>0, PutSafe
<1>2. TypeOK' /\ Shape'
  BY <1>0, <1>1 DEF TypeOK, Shape, GetIdle
<1>3. CachedIsStored'
  BY <1>0, <1>1 DEF CachedIsStored, Cached, TypeOK, GetIdle
<1>4. (KnownIsStored /\ KnownIsFound)'
  BY <1>0 DEF KnownIsStored, KnownIsFound, TypeOK, GetIdle
<1> QED
  BY <1>2, <1>3, <1>4
-----------------------------------------------------------------------------
LEMMA NextInv == ASSUME Inv, [Next]_vars PROVE Inv'
<1>1. CASE UNCHANGED vars
  BY <1>1 DEF vars, Inv, TypeOK, Shape, CachedIsStored, Cached,
              KnownIsStored, KnownIsFound
<1>2. CASE Warming
  BY <1>2, WarmInv
<1>3. ASSUME NEW s \in Saver,
             (\E o \in Order : SaveCall(s, o)) \/ InsertRow(s) \/ InsertFails(s) \/ Saving(s)
      PROVE  Inv'
  BY <1>3, TransactionInv, CommitInv, SaverCachesInv DEF Saving
<1>4. ASSUME NEW o \in Order, OtherSaves(o) PROVE Inv'
  BY <1>4, OtherSavesInv
<1>5. ASSUME NEW g \in Getter,
             (\E o \in Order : GetCall(g, o)) \/ QueryBase(g) \/ QueryItems(g) \/ Getting(g)
      PROVE  Inv'
  BY <1>5, GetInv, GetterCachesInv DEF Getting
<1> QED
  BY <1>1, <1>2, <1>3, <1>4, <1>5 DEF Next

LEMMA AlwaysInv == Spec => []Inv
  BY InitInv, NextInv, PTL DEF Spec

\* Every variable of SaveOrder, GetOrder and CacheLastOrders, at any number
\* of calls, stays within the values the code gives it.
THEOREM ServiceTyped == Spec => []TypeOK
<1>1. Inv => TypeOK
  BY DEF Inv
<1> QED
  BY AlwaysInv, <1>1, PTL

\* The cache holds no order the storage does not have (Commit errors aside),
\* whatever the goroutines of SaveOrder, GetOrder and CacheLastOrders that
\* fill it, and whatever it evicts.
THEOREM CacheFollowsStorage == Spec => []CachedIsStored
<1>1. Inv => CachedIsStored
  BY DEF Inv
<1> QED
  BY AlwaysInv, <1>1, PTL

\* An order that a caller has seen stays found: GetOrder does not answer "not
\* found" for it in a later call.
THEOREM SeenStaysFound == Spec => []KnownIsFound
<1>1. Inv => KnownIsFound
  BY DEF Inv
<1> QED
  BY AlwaysInv, <1>1, PTL
=============================================================================
