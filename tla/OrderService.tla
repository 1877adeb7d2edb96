---------------------------- MODULE OrderService ----------------------------
(***************************************************************************)
(* OrderService (internal/service/order_service.go) between its cache and  *)
(* OrdersStoragePostgres (internal/ports/adapters/storage/postgres.go):    *)
(* the warm-up at the start of the process, SaveOrder called by the        *)
(* receiver's goroutines, GetOrder called by the HTTP handlers, and the    *)
(* goroutines both leave behind to fill the cache.                         *)
(*                                                                         *)
(* PostgreSQL is external: a transaction's rows are seen by others when it *)
(* commits, an insert waits for an open transaction that inserted the same *)
(* key, every query runs on its own snapshot.  The cache is taken at its   *)
(* weakest: a Set that overflows it evicts some other entry, a Get may     *)
(* fail (LruCache says how).  An order is its uid; what varies is how many *)
(* of its items a view of it has.                                          *)
(***************************************************************************)
EXTENDS Integers, FiniteSets

CONSTANTS Order,        \* order uids
          Saver,        \* bound: concurrent SaveOrder calls
          Getter,       \* bound: concurrent GetOrder calls
          Cap,          \* the capacity of the cache
          WarmLimit,    \* CachedOrdersOnStartupCount
          None          \* no order

ASSUME ServiceAssumption ==
  /\ Cap \in Int /\ WarmLimit \in Nat
  /\ None \notin Order

\* An order as GetOrderByID puts it together: with all its items (the
\* validator wants at least one), with none, or with some of them.
View == {"whole", "empty", "cut"}
Absent == "absent"

\* The inserts of SaveOrder: orders, payments, deliveries, order_items.
LastTable == 4

VARIABLES phase,       \* "start", "warm" (filling the cache), "serving"
          warm,        \* the views CacheLastOrders has yet to Set
          db,          \* the orders committed
          cache,       \* the view cached of each order
          save,        \* of each Saver: where its call is, tables inserted
          get,         \* of each Getter: where its call is, what its queries gave
          doubt,       \* history: orders whose Commit returned an error
          seen,        \* history: orders SaveOrder or GetOrder gave to a caller
          known        \* history: Getters whose order was seen before the call

vars == <<phase, warm, db, cache, save, get, doubt, seen, known>>

At(p, o, n) == [pc |-> p, order |-> o, tables |-> n]
SaveIdle == At("idle", None, 0)
GetIdle  == [pc |-> "idle", order |-> None, base |-> "wait", items |-> "wait",
             answer |-> "none"]

Init ==
  /\ phase = "start" /\ warm = [o \in Order |-> Absent]
  /\ db \in SUBSET Order
  /\ cache = [o \in Order |-> Absent]
  /\ save = [s \in Saver |-> SaveIdle] /\ get = [g \in Getter |-> GetIdle]
  /\ doubt = {} /\ seen = {} /\ known = {}

Cached(c) == {o \in Order : c[o] # Absent}

\* What cache.Set(o, v) may leave in the cache; with a capacity of 0 or less
\* the key just set is the one to go.
Put(o, v) ==
  LET new == [cache EXCEPT ![o] = v]
  IN  IF Cardinality(Cached(new)) <= Cap THEN {new}
      ELSE {[new EXCEPT ![e] = Absent] : e \in {k \in Cached(new) : Cap > 0 => k # o}}
-----------------------------------------------------------------------------
(***************************************************************************)
(* CacheLastOrders, before anything is served.                             *)
(***************************************************************************)
\* GetLastOrders: some of the orders committed, no more than the limit; the
\* items of each come from a later query, cut short or empty when that query
\* fails on its way, which only rows.Err would tell.
WarmLoad ==
  /\ phase = "start"
  /\ \E S \in SUBSET db :
       /\ Cardinality(S) <= WarmLimit
       /\ \E v \in [S -> View] :
            warm' = [o \in Order |-> IF o \in S THEN v[o] ELSE Absent]
  /\ phase' = "warm"
  /\ UNCHANGED <<db, cache, save, get, doubt, seen, known>>

\* A query fails: main logs it and goes on.
WarmFails ==
  /\ phase = "start"
  /\ phase' = "serving"
  /\ UNCHANGED <<warm, db, cache, save, get, doubt, seen, known>>

\* One goroutine of the errgroup.
WarmSet(o) ==
  /\ phase = "warm" /\ warm[o] # Absent
  /\ cache' \in Put(o, warm[o])
  /\ warm' = [warm EXCEPT ![o] = Absent]
  /\ UNCHANGED <<phase, db, save, get, doubt, seen, known>>

WarmDone ==
  /\ phase = "warm" /\ Cached(warm) = {}
  /\ phase' = "serving"
  /\ UNCHANGED <<warm, db, cache, save, get, doubt, seen, known>>
-----------------------------------------------------------------------------
(***************************************************************************)
(* SaveOrder.                                                              *)
(***************************************************************************)
\* The transactions that have inserted o, in this process.
Holds(s, o) == save[s].order = o /\ save[s].tables > 0

SaveCall(s, o) ==
  /\ phase = "serving" /\ save[s].pc = "idle"
  /\ save' = [save EXCEPT ![s] = At("insert", o, 0)]
  /\ UNCHANGED <<phase, warm, db, cache, get, doubt, seen, known>>

\* Mutant: the items are counted past the last table.
InsertRowOneMore(s) ==
  /\ save[s].pc = "insert"
  /\ save[s].tables = 0 => /\ save[s].order \notin db
                           /\ \A t \in Saver : ~Holds(t, save[s].order)
  /\ LET n == save[s].tables + 1
     IN  save' = [save EXCEPT ![s] = At(IF n > LastTable THEN "commit" ELSE "insert",
                                        save[s].order, n)]
  /\ UNCHANGED <<phase, warm, db, cache, get, doubt, seen, known>>

\* The next insert of the transaction succeeds.
InsertRow(s) ==
  /\ save[s].pc = "insert"
  /\ save[s].tables = 0 => /\ save[s].order \notin db
                           /\ \A t \in Saver : ~Holds(t, save[s].order)
  /\ LET n == save[s].tables + 1
     IN  save' = [save EXCEPT ![s] = At(IF n = LastTable THEN "commit" ELSE "insert",
                                        save[s].order, n)]
  /\ UNCHANGED <<phase, warm, db, cache, get, doubt, seen, known>>

\* The order is stored already: its primary key is taken.
InsertConflict(s) ==
  /\ save[s].pc = "insert" /\ save[s].tables = 0 /\ save[s].order \in db
  /\ save' = [save EXCEPT ![s].pc = "rollback"]
  /\ UNCHANGED <<phase, warm, db, cache, get, doubt, seen, known>>

\* Begin or an insert fails for another reason (a lost connection, a
\* cancelled context, a value the columns do not take).
InsertFails(s) ==
  /\ save[s].pc = "insert"
  /\ save' = [save EXCEPT ![s].pc = "rollback"]
  /\ UNCHANGED <<phase, warm, db, cache, get, doubt, seen, known>>

\* Mutants: the goroutine that caches is started before the error is looked
\* at; the transaction is left open.
RollbackCaches(s) ==
  /\ save[s].pc = "rollback"
  /\ save' = [save EXCEPT ![s] = At("cache", save[s].order, 0)]
  /\ UNCHANGED <<phase, warm, db, cache, get, doubt, seen, known>>

RollbackForgotten(s) ==
  /\ save[s].pc = "rollback"
  /\ save' = [save EXCEPT ![s] = At("idle", save[s].order, save[s].tables)]
  /\ UNCHANGED <<phase, warm, db, cache, get, doubt, seen, known>>

\* The deferred function after an error: whatever Rollback and the Commit
\* behind it return, the transaction is over and the caller gets the error.
Rollback(s) ==
  /\ save[s].pc = "rollback"
  /\ save' = [save EXCEPT ![s] = SaveIdle]
  /\ UNCHANGED <<phase, warm, db, cache, get, doubt, seen, known>>

CommitOk(s) ==
  /\ save[s].pc = "commit"
  /\ db' = db \cup {save[s].order}
  /\ seen' = seen \cup {save[s].order}
  /\ save' = [save EXCEPT ![s] = At("cache", save[s].order, 0)]
  /\ UNCHANGED <<phase, warm, cache, get, doubt, known>>

\* Commit returns an error (the connection broke, the context is done), the
\* transaction is committed or not; the error is assigned to a variable that
\* nobody reads and the caller gets nil.
CommitFails(s) ==
  /\ save[s].pc = "commit"
  /\ db' \in {db, db \cup {save[s].order}}
  /\ doubt' = doubt \cup {save[s].order}
  /\ seen' = seen \cup {save[s].order}
  /\ save' = [save EXCEPT ![s] = At("cache", save[s].order, 0)]
  /\ UNCHANGED <<phase, warm, cache, get, known>>

\* The goroutine started before SaveOrder returned nil.
SaverCaches(s) ==
  /\ save[s].pc = "cache"
  /\ cache' \in Put(save[s].order, "whole")
  /\ save' = [save EXCEPT ![s] = SaveIdle]
  /\ UNCHANGED <<phase, warm, db, get, doubt, seen, known>>

\* Another replica of the service saves an order.
OtherSaves(o) ==
  /\ o \notin db /\ \A s \in Saver : ~Holds(s, o)
  /\ db' = db \cup {o}
  /\ UNCHANGED <<phase, warm, cache, save, get, doubt, seen, known>>
-----------------------------------------------------------------------------
(***************************************************************************)
(* GetOrder.                                                               *)
(***************************************************************************)
GetCall(g, o) ==
  /\ phase = "serving" /\ get[g].pc = "idle"
  /\ get' = [get EXCEPT ![g] = [GetIdle EXCEPT !.pc = "lookup", !.order = o]]
  /\ known' = IF o \in seen \ doubt THEN known \cup {g} ELSE known \ {g}
  /\ UNCHANGED <<phase, warm, db, cache, save, doubt, seen>>

\* The call of g ends with answer a.
Answers(g, a) == get' = [get EXCEPT ![g] = [GetIdle EXCEPT !.answer = a]]

CacheHit(g) ==
  LET o == get[g].order
  IN  /\ get[g].pc = "lookup" /\ cache[o] # Absent
      /\ Answers(g, cache[o])
      /\ seen' = seen \cup {o}
      /\ UNCHANGED <<phase, warm, db, cache, save, doubt, known>>

\* Mutant: a miss is the answer.
CacheMissNotFound(g) ==
  /\ get[g].pc = "lookup" /\ cache[get[g].order] = Absent
  /\ Answers(g, "notfound")
  /\ UNCHANGED <<phase, warm, db, cache, save, doubt, seen, known>>

CacheMiss(g) ==
  /\ get[g].pc = "lookup" /\ cache[get[g].order] = Absent
  /\ get' = [get EXCEPT ![g].pc = "query"]
  /\ UNCHANGED <<phase, warm, db, cache, save, doubt, seen, known>>

CacheFails(g) ==
  /\ get[g].pc = "lookup" /\ cache[get[g].order] # Absent
  /\ Answers(g, "error")
  /\ UNCHANGED <<phase, warm, db, cache, save, doubt, seen, known>>

\* getOrderByIDBase, in a goroutine of its own.  It joins order_items, so
\* there is a row only for an order with items.
QueryBase(g) ==
  /\ get[g].pc = "query" /\ get[g].base = "wait"
  /\ \E b \in {IF get[g].order \in db THEN "found" ELSE "notfound", "error"} :
       get' = [get EXCEPT ![g].base = b]
  /\ UNCHANGED <<phase, warm, db, cache, save, doubt, seen, known>>

\* getOrderItemsByID, in another.  No row is no error, and neither is a query
\* that fails before its first row or between two of them: pgx leaves such
\* an error to rows.Err, which is not asked.
QueryItems(g) ==
  /\ get[g].pc = "query" /\ get[g].items = "wait"
  /\ \E i \in {"error", "empty"} \cup IF get[g].order \in db THEN {"whole", "cut"} ELSE {} :
       get' = [get EXCEPT ![g].items = i]
  /\ UNCHANGED <<phase, warm, db, cache, save, doubt, seen, known>>

\* eg.Wait returns no error: the caller gets the order ...
GetFound(g) ==
  /\ get[g].pc = "query" /\ get[g].base = "found" /\ get[g].items \in View
  /\ get' = [get EXCEPT ![g].answer = get[g].items, ![g].pc = "cache"]
  /\ seen' = seen \cup {get[g].order}
  /\ UNCHANGED <<phase, warm, db, cache, save, doubt, known>>

\* Mutant: the error of the items goroutine is not looked at.
GetErrorOfBase(g) ==
  /\ get[g].pc = "query" /\ get[g].base # "wait" /\ get[g].items # "wait"
  /\ \E e \in {get[g].base} \cap {"notfound", "error"} : Answers(g, e)
  /\ UNCHANGED <<phase, warm, db, cache, save, doubt, seen, known>>

\* ... or the error that came first.
GetError(g) ==
  /\ get[g].pc = "query" /\ get[g].base # "wait" /\ get[g].items # "wait"
  /\ \E e \in {get[g].base, get[g].items} \cap {"notfound", "error"} : Answers(g, e)
  /\ UNCHANGED <<phase, warm, db, cache, save, doubt, seen, known>>

\* The goroutine GetOrder started after a miss.
GetterCaches(g) ==
  /\ get[g].pc = "cache"
  /\ cache' \in Put(get[g].order, get[g].items)
  /\ Answers(g, get[g].answer)
  /\ UNCHANGED <<phase, warm, db, save, doubt, seen, known>>
-----------------------------------------------------------------------------
Warming == WarmLoad \/ WarmFails \/ WarmDone \/ \E o \in Order : WarmSet(o)

Saving(s) == \/ InsertConflict(s) \/ Rollback(s) \/ CommitOk(s) \/ CommitFails(s)
             \/ SaverCaches(s)

Getting(g) == \/ CacheHit(g) \/ CacheMiss(g) \/ CacheFails(g)
              \/ GetFound(g) \/ GetError(g) \/ GetterCaches(g)

Next ==
  \/ Warming
  \/ \E s \in Saver : \/ \E o \in Order : SaveCall(s, o)
                      \/ InsertRow(s) \/ InsertFails(s) \/ Saving(s)
  \/ \E o \in Order : OtherSaves(o)
  \/ \E g \in Getter : \/ \E o \in Order : GetCall(g, o)
                       \/ QueryBase(g) \/ QueryItems(g) \/ Getting(g)

Spec == Init /\ [][Next]_vars

\* Goroutines run, queries and statements come back, and PostgreSQL queues
\* those that wait for a row: an insert that can go on again and again does.
Fairness ==
  /\ WF_vars(Warming)
  /\ \A s \in Saver : WF_vars(Saving(s)) /\ SF_vars(InsertRow(s))
  /\ \A g \in Getter : WF_vars(Getting(g)) /\ WF_vars(QueryBase(g)) /\ WF_vars(QueryItems(g))

FairSpec == Spec /\ Fairness
-----------------------------------------------------------------------------
Answer == View \cup {"none", "notfound", "error"}

TypeOK ==
  /\ phase \in {"start", "warm", "serving"}
  /\ warm \in [Order -> View \cup {Absent}] /\ cache \in [Order -> View \cup {Absent}]
  /\ db \subseteq Order /\ doubt \subseteq Order /\ seen \subseteq Order
  /\ known \subseteq Getter
  /\ save \in [Saver -> [pc : {"idle", "insert", "rollback", "commit", "cache"},
                         order : Order \cup {None}, tables : 0..LastTable]]
  /\ get \in [Getter -> [pc : {"idle", "lookup", "query", "cache"},
                         order : Order \cup {None},
                         base : {"wait", "found", "notfound", "error"},
                         items : {"wait", "error"} \cup View,
                         answer : Answer]]

\* CachedIsStored: whatever the goroutines that fill the cache and the
\* evictions do, a cached order is in the storage, unless its Commit failed;
\* a call that has been answered or will cache its order found it there too.
CachedIsStored ==
  /\ Cached(cache) \cup Cached(warm) \subseteq db \cup doubt
  /\ seen \subseteq db \cup doubt
  /\ \A s \in Saver : save[s].pc = "cache" => save[s].order \in db \cup doubt
  /\ \A g \in Getter : get[g].pc = "cache" => get[g].order \in db

\* KnownIsFound: GetOrder never answers "not found" for an order that was
\* saved or answered before the call (Commit errors aside), in or out of the
\* cache.
KnownIsFound == \A g \in known : get[g].answer # "notfound"

\* SaveEnds: SaveOrder ends, also when it waits for another transaction.
SaveEnds ==
  \A s \in Saver : save[s].pc \in {"insert", "commit", "rollback"}
                  ~> save[s].pc \in {"idle", "cache"}

\* GetAnswers: GetOrder answers, and its goroutine ends.
GetAnswers == \A g \in Getter : get[g].pc # "idle" ~> get[g].pc = "idle"

\* OnlySavedIsCached: SaveOrder caches an order only if it was saved.
OnlySavedIsCached == Cached(cache) \subseteq db
=============================================================================
