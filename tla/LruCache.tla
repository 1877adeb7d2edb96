------------------------------ MODULE LruCache ------------------------------
(***************************************************************************)
(* CacheLRUInMemory (pkg/pkgports/adapters/cache/lru/in_memory.go) with    *)
(* its map, its linked list of keys and its two locks, called by several   *)
(* goroutines.  Set holds c.mu for writing and is one step.  Get holds it  *)
(* for reading only, although it rearranges the list: its search of the    *)
(* list takes no further lock, and MoveToFirst takes list.mu.  So the      *)
(* steps of a Get are the loads of the search and the stores of the move,  *)
(* interleaved with those of every other Get.  Loads and stores are single *)
(* words in program order, which is what amd64 makes of this code.         *)
(***************************************************************************)
EXTENDS LinkedListOps, Sequences

CONSTANTS Key, Value,
          Cap,       \* the capacity
          Getter,    \* goroutines that call Get: HTTP requests
          Setter,    \* goroutines that call Set: savers, cache fillers
          NoOne      \* the holder of a free lock

ASSUME CacheAssumption ==
  /\ Cap \in Int /\ IsFiniteSet(Node)
  /\ Cardinality(Node) > Cap /\ Cardinality(Node) > 0
  /\ NoValue \notin Key \cup Value /\ NoOne \notin Getter \cup Setter
  /\ Getter \cap Setter = {}

VARIABLES list,      \* c.keysList
          data,      \* c.data; NoValue where the map has no entry
          readers,   \* the getters that hold c.mu for reading
          writer,    \* the setter that is inside c.mu.Lock or holds c.mu
          mu,        \* the getter that holds list.mu
          pc,        \* where each goroutine is
          loc,       \* the local variables of each getter
          arg,       \* the arguments of each setter
          ret        \* what each getter returned last

vars == <<list, data, readers, writer, mu, pc, loc, arg, ret>>

Stored == {k \in Key : data[k] # NoValue}

\* The locals of Get, GetIndex and MoveToFirst.
Locals == [key |-> NoValue, value |-> NoValue,           \* Get
           elem |-> Nil, i |-> 0,                        \* GetIndex
           prev |-> Nil, node |-> Nil,                   \* MoveToFirst
           after |-> Nil, first |-> Nil]

\* NewCacheLRUInMemory.
Init ==
  /\ list = NewLinkedList
  /\ data = [k \in Key |-> NoValue]
  /\ readers = {} /\ writer = NoOne /\ mu = NoOne
  /\ pc = [p \in Getter \cup Setter |-> "idle"]
  /\ loc = [g \in Getter |-> Locals]
  /\ arg = [s \in Setter |-> [key |-> NoValue, value |-> NoValue]]
  /\ ret = [g \in Getter |-> [status |-> "none", value |-> NoValue]]
-----------------------------------------------------------------------------
\* Get returns; the deferred RUnlock runs on every path, a panic included.
Leave(g, status, value) ==
  /\ pc' = [pc EXCEPT ![g] = "idle"]
  /\ loc' = [loc EXCEPT ![g] = Locals]
  /\ readers' = readers \ {g}
  /\ ret' = [ret EXCEPT ![g] = [status |-> status, value |-> value]]

CallGet(g, k) ==
  /\ pc[g] = "idle"
  /\ pc' = [pc EXCEPT ![g] = "rlock"]
  /\ loc' = [loc EXCEPT ![g].key = k]
  /\ ret' = [ret EXCEPT ![g].status = "none"]
  /\ UNCHANGED <<list, data, readers, writer, mu, arg>>

\* Mutant: a miss returns without RUnlock.
GetMissKeepsLock(g) ==
  /\ pc[g] = "rlock" /\ writer = NoOne
  /\ data[loc[g].key] = NoValue
  /\ pc' = [pc EXCEPT ![g] = "idle"]
  /\ loc' = [loc EXCEPT ![g] = Locals]
  /\ readers' = readers \cup {g}
  /\ ret' = [ret EXCEPT ![g] = [status |-> "miss", value |-> NoValue]]
  /\ UNCHANGED <<list, data, writer, mu, arg>>

\* c.mu.RLock waits while a writer is in Lock.  The map does not change
\* under it, so the lookup is part of the step, and so is the return of a
\* miss.
GetMiss(g) ==
  /\ pc[g] = "rlock" /\ writer = NoOne
  /\ data[loc[g].key] = NoValue
  /\ Leave(g, "miss", NoValue)
  /\ UNCHANGED <<list, data, writer, mu, arg>>

GetLookup(g) ==
  /\ pc[g] = "rlock" /\ writer = NoOne
  /\ data[loc[g].key] # NoValue
  /\ readers' = readers \cup {g}
  /\ pc' = [pc EXCEPT ![g] = "head"]
  /\ loc' = [loc EXCEPT ![g].value = data[loc[g].key]]
  /\ UNCHANGED <<list, data, writer, mu, arg, ret>>

\* GetIndex: an empty list is an error, else the search starts at the head.
ReadHead(g) ==
  /\ pc[g] = "head"
  /\ IF list.length = 0 THEN Leave(g, "error", NoValue)
     ELSE /\ pc' = [pc EXCEPT ![g] = "scan"]
          /\ loc' = [loc EXCEPT ![g].elem = list.head, ![g].i = 0]
          /\ UNCHANGED <<readers, ret>>
  /\ UNCHANGED <<list, data, writer, mu, arg>>

Scanning(g) == pc[g] = "scan" /\ loc[g].i < list.length

\* elem.value of a nil elem: the goroutine panics and net/http recovers it.
ScanNil(g) ==
  /\ Scanning(g) /\ loc[g].elem = Nil
  /\ Leave(g, "panic", NoValue)
  /\ UNCHANGED <<list, data, writer, mu, arg>>

ScanFound(g) ==
  /\ Scanning(g) /\ loc[g].elem # Nil
  /\ list.value[loc[g].elem] = loc[g].key
  /\ pc' = [pc EXCEPT ![g] = "move"]
  /\ UNCHANGED <<list, data, readers, writer, mu, loc, arg, ret>>

ScanNext(g) ==
  /\ Scanning(g) /\ loc[g].elem # Nil
  /\ list.value[loc[g].elem] # loc[g].key
  /\ loc' = [loc EXCEPT ![g].elem = list.next[@], ![g].i = @ + 1]
  /\ UNCHANGED <<list, data, readers, writer, mu, pc, arg, ret>>

\* GetIndex returned -1: "is stored in data, but not in non-empty linked list".
ScanEnd(g) ==
  /\ pc[g] = "scan" /\ loc[g].i >= list.length
  /\ Leave(g, "error", NoValue)
  /\ UNCHANGED <<list, data, writer, mu, arg>>

\* Mutant: the early return of MoveToFirst keeps list.mu.
MoveNothingKeepsLock(g) ==
  /\ pc[g] = "move" /\ mu = NoOne
  /\ loc[g].i = 0
  /\ mu' = g
  /\ Leave(g, "hit", loc[g].value)
  /\ UNCHANGED <<list, data, writer, arg>>

\* MoveToFirst of index 0 takes list.mu and changes nothing.  (The index came
\* from GetIndex and no reader changes the length: it is always in range.)
MoveNothing(g) ==
  /\ pc[g] = "move" /\ mu = NoOne
  /\ loc[g].i = 0
  /\ Leave(g, "hit", loc[g].value)
  /\ UNCHANGED <<list, data, writer, mu, arg>>

\* MoveToFirst: only the holder of list.mu stores into the list, so what it
\* reads before its first store, l.head = nodeToMove, belongs to that step.
MoveHead(g) ==
  /\ pc[g] = "move" /\ mu = NoOne
  /\ loc[g].i > 0
  /\ LET prev == GetNodeAt(list, loc[g].i - 1).node
         node == list.next[prev]
     IN  /\ loc' = [loc EXCEPT ![g].prev = prev, ![g].node = node,
                               ![g].after = list.next[node], ![g].first = list.head]
         /\ list' = [list EXCEPT !.head = node]
  /\ mu' = g
  /\ pc' = [pc EXCEPT ![g] = "link"]
  /\ UNCHANGED <<data, readers, writer, arg, ret>>

\* nodeToMove.next = currentHead
MoveLink(g) ==
  /\ pc[g] = "link"
  /\ list' = [list EXCEPT !.next[loc[g].node] = loc[g].first]
  /\ pc' = [pc EXCEPT ![g] = "unlink"]
  /\ UNCHANGED <<data, readers, writer, mu, loc, arg, ret>>

\* Mutant: the tail is not recalculated when the moved node was the last one.
MoveUnlinkKeepsTail(g) ==
  /\ pc[g] = "unlink"
  /\ list' = [list EXCEPT !.next[loc[g].prev] = loc[g].after]
  /\ mu' = NoOne
  /\ Leave(g, "hit", loc[g].value)
  /\ UNCHANGED <<data, writer, arg>>

\* prevNode.next = nextNode, recalculateTail, and the two unlocks.
MoveUnlink(g) ==
  /\ pc[g] = "unlink"
  /\ list' = RecalculateTail([list EXCEPT !.next[loc[g].prev] = loc[g].after])
  /\ mu' = NoOne
  /\ Leave(g, "hit", loc[g].value)
  /\ UNCHANGED <<data, writer, arg>>
-----------------------------------------------------------------------------
CallSet(s, k, v) ==
  /\ pc[s] = "idle"
  /\ pc' = [pc EXCEPT ![s] = "lock"]
  /\ arg' = [arg EXCEPT ![s] = [key |-> k, value |-> v]]
  /\ UNCHANGED <<list, data, readers, writer, mu, loc, ret>>

\* c.mu.Lock, first half: writers queue for the right to wait for readers.
SetAnnounce(s) ==
  /\ pc[s] = "lock" /\ writer = NoOne
  /\ writer' = s
  /\ pc' = [pc EXCEPT ![s] = "set"]
  /\ UNCHANGED <<list, data, readers, mu, loc, arg, ret>>

\* Mutant: the evicted key stays in the map.
StoresKeepsEntry(k, v) ==
  LET old    == GetIndex(list, k).index
      rest   == IF old = -1 THEN list ELSE RemoveNodeAt(list, old).list
      keys   == Insert(rest, k, 0).list
      values == [data EXCEPT ![k] = v]
  IN  IF keys.length > Cap THEN [list |-> RemoveLast(keys).list, data |-> values]
      ELSE [list |-> keys, data |-> values]

\* The list and the map after the body of Set(k, v).
Stores(k, v) ==
  LET old    == GetIndex(list, k).index
      rest   == IF old = -1 THEN list ELSE RemoveNodeAt(list, old).list
      keys   == Insert(rest, k, 0).list
      values == [data EXCEPT ![k] = v]
      last   == GetLast(keys).value
  IN  IF keys.length > Cap
      THEN [list |-> RemoveLast(keys).list, data |-> [values EXCEPT ![last] = NoValue]]
      ELSE [list |-> keys, data |-> values]

\* c.mu.Lock, second half, once the readers have left; then the whole body.
SetBody(s) ==
  /\ pc[s] = "set" /\ readers = {}
  /\ LET new == Stores(arg[s].key, arg[s].value)
     IN  list' = Collect(new.list) /\ data' = new.data
  /\ writer' = NoOne
  /\ pc' = [pc EXCEPT ![s] = "idle"]
  /\ arg' = [arg EXCEPT ![s] = [key |-> NoValue, value |-> NoValue]]
  /\ UNCHANGED <<readers, mu, loc, ret>>
-----------------------------------------------------------------------------
Search(g) == ReadHead(g) \/ ScanNil(g) \/ ScanFound(g) \/ ScanNext(g) \/ ScanEnd(g)
Move(g)   == MoveNothing(g) \/ MoveHead(g) \/ MoveLink(g) \/ MoveUnlink(g)

Next ==
  \/ \E g \in Getter, k \in Key : CallGet(g, k)
  \/ \E g \in Getter : GetMiss(g) \/ GetLookup(g) \/ Search(g) \/ Move(g)
  \/ \E s \in Setter, k \in Key, v \in Value : CallSet(s, k, v)
  \/ \E s \in Setter : SetAnnounce(s) \/ SetBody(s)

\* A goroutine that can run is run.  Neither sync.RWMutex nor sync.Mutex
\* lets a goroutine wait for ever while others come and go (blocked readers
\* enter when a writer leaves, mutexes have a starvation mode): that is
\* strong fairness of the steps that take a lock.
Fairness ==
  /\ \A g \in Getter :
       /\ WF_vars(Search(g) \/ MoveLink(g) \/ MoveUnlink(g))
       /\ SF_vars(GetMiss(g) \/ GetLookup(g))
       /\ SF_vars(MoveNothing(g) \/ MoveHead(g))
  /\ \A s \in Setter : SF_vars(SetAnnounce(s)) /\ WF_vars(SetBody(s))

Spec == Init /\ [][Next]_vars
FairSpec == Spec /\ Fairness
-----------------------------------------------------------------------------
TypeOK ==
  /\ list.head \in Node \cup {Nil} /\ list.tail \in Node \cup {Nil}
  /\ list.length \in Nat
  /\ list.next \in [Node -> Node \cup {Nil}]
  /\ list.value \in [Node -> Key \cup {NoValue}]
  /\ data \in [Key -> Value \cup {NoValue}]
  /\ readers \subseteq Getter /\ writer \in Setter \cup {NoOne}
  /\ mu \in Getter \cup {NoOne}
  /\ \A g \in Getter : pc[g] \in {"idle", "rlock", "head", "scan", "move", "link", "unlink"}
  /\ \A s \in Setter : pc[s] \in {"idle", "lock", "set"}

\* The list as it was before the move that is under way, if one is.
Settled ==
  IF mu = NoOne THEN list
  ELSE [list EXCEPT !.head = loc[mu].first,
                    !.next = [@ EXCEPT ![loc[mu].node] = loc[mu].after,
                                       ![loc[mu].prev] = loc[mu].node]]

\* ListSurvivesReaders: however the Gets that share c.mu interleave, once
\* the move under way is discounted the list is whole (length nodes, no
\* cycle, tail at the end), it holds exactly the keys of the map, once each,
\* and not more than the capacity.  MoveToFirst owes this to list.mu alone.
ListSurvivesReaders ==
  LET l == Settled
  IN  /\ Cardinality(Linked(l)) = l.length /\ Nil \notin Linked(l)
      /\ l.length > 0 => l.tail = NodeAt(l, l.length - 1) /\ l.next[l.tail] = Nil
      /\ {l.value[n] : n \in Linked(l)} = Stored
      /\ Cardinality(Stored) = l.length
      /\ l.length <= (IF Cap > 0 THEN Cap ELSE 0)

\* GetReturns and SetReturns: every call comes back.  The search ends even
\* on a list that another Get is rearranging, every path releases its locks,
\* and readers and writers do not starve each other.
GetReturns == \A g \in Getter : pc[g] # "idle" ~> pc[g] = "idle"
SetReturns == \A s \in Setter : pc[s] # "idle" ~> pc[s] = "idle"

\* ImplementsLru: as long as only one goroutine calls Get, the cache is the
\* atomic one of AbstractLru, however many goroutines call Set.
Atomic == INSTANCE AbstractLru
            WITH order <- GetAll(Settled),
                 got <- ret[CHOOSE g \in Getter : TRUE].value
ImplementsLru == Atomic!Spec

\* StoredKeyIsFound: no Get ends in ErrUnexpectedLinkedListBehaviour (or in
\* a panic): the key of an entry of the map is in the list.
StoredKeyIsFound == \A g \in Getter : ret[g].status \notin {"error", "panic"}
=============================================================================
