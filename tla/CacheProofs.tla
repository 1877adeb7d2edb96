----------------------------- MODULE CacheProofs -----------------------------
(***************************************************************************)
(* The theorems about LruCache. For any number of goroutines, any capacity *)
(* and any keys: the list survives the readers that share c.mu             *)
(* (ReadersKeepList). With one reader and any number of writers: the cache *)
(* is the atomic one of AbstractLru, and no Get ends in an error           *)
(* (OneReaderIsLru, OneReaderFinds); with two readers the last two are     *)
(* false, and the run lru_stored_key shows how.                            *)
(*                                                                         *)
(* The inductive invariant looks through the move under way: Settled is    *)
(* the list with that move undone, and Moving says exactly which of the    *)
(* three stores of MoveToFirst have been made. Settled, not list, is whole *)
(* and holds the keys of the map.                                          *)
(***************************************************************************)
EXTENDS LruCache, ListLemmas

\* What a value field of the list of keys may hold.
Entry == Key \cup {NoValue}

\* A capacity of 0 or less leaves no room.
Room == IF Cap > 0 THEN Cap ELSE 0

\* The places of a Get.
GetPlace == {"idle", "rlock", "head", "scan", "move", "link", "unlink"}

\* The places of a Set.
SetPlace == {"idle", "lock", "set"}

\* Between RLock and RUnlock.
Inside   == {"head", "scan", "move", "link", "unlink"}

\* With list.mu.
Holding  == {"link", "unlink"}

\* The locals of a Get.
LocalsType ==
  [key : Key \cup {NoValue}, value : Value \cup {NoValue},
   elem : Node \cup {Nil}, i : Nat, prev : Node \cup {Nil}, node : Node \cup {Nil},
   after : Node \cup {Nil}, first : Node \cup {Nil}]

\* The arguments of a Set.
ArgType == [key : Key \cup {NoValue}, value : Value \cup {NoValue}]

\* The types of the state.
Types ==
  /\ list \in ListOf(Entry)
  /\ data \in [Key -> Value \cup {NoValue}]
  /\ writer \in Setter \cup {NoOne} /\ mu \in Getter \cup {NoOne}
  /\ pc \in [Getter \cup Setter -> GetPlace \cup SetPlace]
  /\ loc \in [Getter -> LocalsType]
  /\ arg \in [Setter -> ArgType]
  /\ \A g \in Getter : pc[g] \in GetPlace
  /\ \A s \in Setter : pc[s] \in SetPlace

\* A call under way has its arguments.
Calls ==
  /\ \A g \in Getter : pc[g] # "idle" => loc[g].key \in Key
  /\ \A s \in Setter : pc[s] # "idle" => arg[s].key \in Key /\ arg[s].value \in Value

\* The locks are held by those who are between their Lock and Unlock.
Locks ==
  /\ readers = {g \in Getter : pc[g] \in Inside}
  /\ \A g \in Getter : pc[g] \in Holding <=> mu = g

\* An index GetIndex returned stays in range: no reader changes the length,
\* and no writer enters while readers are inside.
InRange ==
  \A g \in Getter : pc[g] \in {"move", "link", "unlink"} => loc[g].i < list.length

\* The move at place p with the locals r, now that the list is m, against the
\* list l it started from.
Moving(l, m, r, p) ==
  \E s : /\ Chain(l, s) /\ r.i \in 1..(l.length - 1)
         /\ r.first = l.head /\ r.node = s[r.i]
         /\ r.prev = s[r.i - 1] /\ r.after = l.next[s[r.i]]
         /\ m.head = s[r.i]
         /\ m.next = IF p = "link" THEN l.next ELSE [l.next EXCEPT ![s[r.i]] = l.head]

\* q lists the elements of R, each once, at the positions 1..n.
Lists(q, n, R) == /\ \A i, j \in 1..n : q[i] = q[j] => i = j
                  /\ R = {q[i] : i \in 1..n}

\* The list is whole, holds the keys of the map once each, and fits.
Sound(l) == /\ l \in ListOf(Entry) /\ Whole(l) /\ l.length <= Room
            /\ Lists(GetAll(l), l.length, Stored)

\* What does not concern the links of the list.
Control == Types /\ Calls /\ Locks /\ InRange

\* The inductive invariant.
Inv == /\ Control /\ Sound(Settled)
       /\ mu # NoOne => Moving(Settled, list, loc[mu], pc[mu])

\* NewCacheLRUInMemory.
LEMMA InitInv == Init => Inv
<1> SUFFICES ASSUME Init PROVE Inv
  OBVIOUS
<1>a. NewLinkedList \in ListOf(Entry)
  BY DEF NewLinkedList, ListOf, Entry
<1>b. Locals \in LocalsType
  BY DEF LocalsType, Locals
<1>1. Types
  BY <1>a, <1>b DEF Init, Types, GetPlace, SetPlace, ArgType
<1>2. Calls /\ Locks /\ InRange /\ Settled = list /\ mu = NoOne
  BY CacheAssumption DEF Init, Calls, Locks, InRange, Settled, Inside, Holding
<1>3. list.length = 0 /\ list.head = Nil /\ list.tail = Nil
  BY DEF Init, NewLinkedList
<1>4. Chain(list, [i \in 0..(0 - 1) |-> Nil])
  BY <1>3 DEF Chain, Path
<1>5. Lists(GetAll(list), list.length, Stored)
  BY <1>3 DEF Init, Lists, Stored
<1> QED
  BY <1>1, <1>2, <1>3, <1>4, <1>5, CacheAssumption DEF Inv, Control, Sound, Whole, Room, Types

\* A step of a Get that goes to p with the locals r.
LEMMA GetterControl ==
  ASSUME Control, NEW g \in Getter, NEW p \in GetPlace, NEW r \in LocalsType,
         pc' = [pc EXCEPT ![g] = p], loc' = [loc EXCEPT ![g] = r],
         readers' = IF p \in Inside THEN readers \cup {g} ELSE readers \ {g},
         UNCHANGED <<data, writer, arg>>,
         list' \in ListOf(Entry), list'.length = list.length,
         mu' \in Getter \cup {NoOne},
         \A h \in Getter \ {g} : mu' = h <=> mu = h,
         p \in Holding <=> mu' = g,
         p # "idle" => r.key \in Key,
         p \in {"move", "link", "unlink"} => r.i < list.length
  PROVE  Control'
<1> USE DEF Control
<1>1. g \in Getter \cup Setter /\ \A s \in Setter : s # g
  BY CacheAssumption
<1>2. /\ pc'[g] = p /\ loc'[g] = r
      /\ \A h \in Getter \cup Setter : h # g => pc'[h] = pc[h]
      /\ \A h \in Getter : h # g => loc'[h] = loc[h]
  BY <1>1 DEF Types
<1>3. Types'
  <2>1. pc' \in [Getter \cup Setter -> GetPlace \cup SetPlace] /\ loc' \in [Getter -> LocalsType]
    BY <1>1 DEF Types
  <2>2. (\A h \in Getter : pc'[h] \in GetPlace) /\ (\A s \in Setter : pc'[s] \in SetPlace)
    BY <1>1, <1>2 DEF Types
  <2> QED
    BY <2>1, <2>2 DEF Types
<1>4. Calls'
  BY <1>1, <1>2 DEF Calls
<1>5. Locks'
  <2>1. readers' = {h \in Getter : pc'[h] \in Inside}
    BY <1>2 DEF Locks
  <2>2. \A h \in Getter : pc'[h] \in Holding <=> mu' = h
    BY <1>2 DEF Locks
  <2> QED
    BY <2>1, <2>2 DEF Locks
<1>6. InRange'
  BY <1>2 DEF InRange
<1> QED
  BY <1>3, <1>4, <1>5, <1>6

\* A step that leaves list, data and list.mu alone, and the mover too.
LEMMA QuietStep ==
  ASSUME Inv, UNCHANGED <<list, data, mu>>,
         mu # NoOne => loc'[mu] = loc[mu] /\ pc'[mu] = pc[mu]
  PROVE  Sound(Settled)' /\ (mu # NoOne => Moving(Settled, list, loc[mu], pc[mu]))'
<1>1. Settled' = Settled
  BY DEF Settled
<1>2. Stored' = Stored
  BY DEF Stored
<1>3. Sound(Settled)'
  BY <1>1, <1>2 DEF Inv, Sound
<1>4. ASSUME mu # NoOne PROVE Moving(Settled, list, loc[mu], pc[mu])'
  <2>1. Moving(Settled, list, loc[mu], pc[mu])
    BY <1>4 DEF Inv
  <2>3. loc'[mu'] = loc[mu] /\ pc'[mu'] = pc[mu] /\ list' = list
    BY <1>4
  <2>4. Moving(Settled', list', loc'[mu'], pc'[mu'])
    BY <1>1, <2>1, <2>3
  <2> QED
    BY <2>4 DEF Moving
<1> QED
  BY <1>3, <1>4

\* The steps of a Get that store nothing into the list.
GetterQuiet(g) == \/ \E k \in Key : CallGet(g, k)
                  \/ GetMiss(g) \/ GetLookup(g) \/ Search(g) \/ MoveNothing(g)

\* They keep the invariant: the search only reads, whatever it sees.
LEMMA GetterStep ==
  ASSUME Inv, NEW g \in Getter, GetterQuiet(g)
  PROVE  Inv'
<1> DEFINE P(p, r) ==
      /\ p \in GetPlace /\ r \in LocalsType /\ p \notin Holding
      /\ pc' = [pc EXCEPT ![g] = p] /\ loc' = [loc EXCEPT ![g] = r]
      /\ readers' = IF p \in Inside THEN readers \cup {g} ELSE readers \ {g}
      /\ p # "idle" => r.key \in Key
      /\ p \in {"move", "link", "unlink"} => r.i < list.length
<1> USE DEF GetPlace, Inside, Holding
<1>0. /\ loc[g] \in LocalsType /\ pc[g] \in GetPlace /\ list \in ListOf(Entry)
      /\ pc[g] # "idle" => loc[g].key \in Key
      /\ readers = {h \in Getter : pc[h] \in Inside}
      /\ (pc[g] \in Holding <=> mu = g)
      /\ pc \in [Getter \cup Setter -> GetPlace \cup SetPlace]
      /\ loc \in [Getter -> LocalsType]
  BY DEF Inv, Control, Types, Calls, Locks
<1>b. Locals \in LocalsType
  BY DEF LocalsType, Locals
<1>1. UNCHANGED <<list, data, mu, writer, arg>>
  BY DEF GetterQuiet, CallGet, GetMiss, GetLookup, Search, ReadHead, ScanNil, ScanFound,
         ScanNext, ScanEnd, MoveNothing
<1>2. pc[g] \notin Holding /\ mu # g
  BY <1>0 DEF GetterQuiet, CallGet, GetMiss, GetLookup, Search, ReadHead, ScanNil, ScanFound,
         ScanNext, ScanEnd, MoveNothing, Scanning
<1>l. ASSUME NEW st, NEW v, Leave(g, st, v) PROVE P("idle", Locals)
  BY <1>b, <1>l DEF Leave
<1>3. \E p, r : P(p, r)
  <2>1. ASSUME NEW k \in Key, CallGet(g, k) PROVE P("rlock", [loc[g] EXCEPT !.key = k])
    BY <1>0, <2>1 DEF CallGet, LocalsType
  <2>2. CASE GetMiss(g)
    BY <1>l, <2>2 DEF GetMiss
  <2>3. CASE GetLookup(g)
    <3>1. data[loc[g].key] \in Value \cup {NoValue}
      BY <1>0, <2>3 DEF GetLookup, Inv, Control, Types
    <3>2. P("head", [loc[g] EXCEPT !.value = data[loc[g].key]])
      BY <1>0, <2>3, <3>1 DEF GetLookup, LocalsType
    <3> QED
      BY <3>2
  <2>4. CASE ReadHead(g)
    <3>1. CASE list.length = 0
      BY <1>l, <2>4, <3>1 DEF ReadHead
    <3>2. CASE list.length # 0
      <4>0. list.head \in Node \cup {Nil}
        BY <1>0 DEF ListOf
      <4>a. [loc[g] EXCEPT !.elem = list.head, !.i = 0] \in LocalsType
        BY <1>0, <4>0 DEF LocalsType
      <4>b. [loc[g] EXCEPT !.elem = list.head, !.i = 0].key = loc[g].key
        BY <1>0 DEF LocalsType
      <4>c. /\ pc' = [pc EXCEPT ![g] = "scan"] /\ UNCHANGED readers /\ pc[g] = "head"
            /\ loc' = [loc EXCEPT ![g] = [loc[g] EXCEPT !.elem = list.head, !.i = 0]]
        BY <1>0, <2>4, <3>2 DEF ReadHead
      <4>d. readers = readers \cup {g}
        BY <1>0, <4>c
      <4>1. P("scan", [loc[g] EXCEPT !.elem = list.head, !.i = 0])
        BY <1>0, <4>a, <4>b, <4>c, <4>d
      <4> QED
        BY <4>1
    <3> QED
      BY <3>1, <3>2
  <2>5. CASE ScanNil(g) \/ ScanEnd(g)
    BY <1>l, <2>5 DEF ScanNil, ScanEnd
  <2>6. CASE ScanFound(g)
    <3>1. P("move", loc[g])
      BY <1>0, <2>6 DEF ScanFound, Scanning
    <3> QED
      BY <3>1
  <2>7. CASE ScanNext(g)
    <3>1. list.next[loc[g].elem] \in Node \cup {Nil}
      BY <1>0, <2>7 DEF ScanNext, LocalsType, ListOf
    <3>2. P("scan", [loc[g] EXCEPT !.elem = list.next[loc[g].elem], !.i = loc[g].i + 1])
      BY <1>0, <2>7, <3>1 DEF ScanNext, LocalsType, Scanning
    <3> QED
      BY <3>2
  <2>8. CASE MoveNothing(g)
    BY <1>l, <2>8 DEF MoveNothing
  <2> HIDE DEF P
  <2> QED
    BY <2>1, <2>2, <2>3, <2>4, <2>5, <2>6, <2>7, <2>8 DEF GetterQuiet, Search
<1>4. PICK p, r : P(p, r)
  BY <1>3
<1>5. Control'
  <2>1. mu \in Getter \cup {NoOne} /\ Control
    BY DEF Inv, Control, Types
  <2> QED
    BY <1>0, <1>1, <1>2, <1>4, <2>1, GetterControl
<1>6. mu # NoOne => loc'[mu] = loc[mu] /\ pc'[mu] = pc[mu]
  BY <1>0, <1>2, <1>4 DEF Inv, Control, Types
<1> QED
  BY <1>1, <1>5, <1>6, QuietStep DEF Inv

\* The list m with the stores of the move with the locals r taken back.
Undo(m, r) ==
  [m EXCEPT !.head = r.first,
            !.next = [@ EXCEPT ![r.node] = r.after, ![r.prev] = r.node]]

\* Settled is that, while someone moves.
LEMMA SettledIsUndo ==
  ASSUME mu # NoOne
  PROVE  Settled = Undo(list, loc[mu])
  BY DEF Settled, Undo

\* Taking back the stores of a move leads to the list it started from,
\* whether the node has been linked already or not.
LEMMA UndoFacts ==
  ASSUME NEW l \in ListOf(Entry), NEW m \in ListOf(Entry),
         m.tail = l.tail, m.length = l.length, m.value = l.value,
         NEW r, NEW p, Moving(l, m, r, p)
  PROVE  Undo(m, r) = l
<1>1. PICK s : /\ Chain(l, s) /\ r.i \in 1..(l.length - 1)
               /\ r.first = l.head /\ r.node = s[r.i]
               /\ r.prev = s[r.i - 1] /\ r.after = l.next[s[r.i]]
               /\ m.head = s[r.i]
               /\ m.next = IF p = "link" THEN l.next ELSE [l.next EXCEPT ![s[r.i]] = l.head]
  BY DEF Moving
<1> DEFINE i == r.i
           links == [m.next EXCEPT ![s[i]] = l.next[s[i]], ![s[i - 1]] = s[i]]
           u == [m EXCEPT !.head = l.head, !.next = links]
<1>2. l.length \in Nat /\ l.next \in [Node -> Node \cup {Nil}] /\ l.head \in Node \cup {Nil}
  BY DEF ListOf
<1>3. /\ i \in 0..(l.length - 1) /\ i - 1 \in 0..(l.length - 1) /\ i - 1 + 1 = i /\ i - 1 # l.length - 1
      /\ i # i - 1
  BY <1>1, <1>2
<1>4. s[i] \in Node /\ s[i - 1] \in Node /\ s[i] # s[i - 1] /\ l.next[s[i - 1]] = s[i]
  BY <1>1, <1>3 DEF Chain, Path
<1>5. m.next \in [Node -> Node \cup {Nil}] /\ \A n \in Node \ {s[i]} : m.next[n] = l.next[n]
  BY <1>1, <1>2, <1>4
<1>6. links = l.next
  <2>1. links \in [Node -> Node \cup {Nil}]
    BY <1>2, <1>4, <1>5
  <2>2. \A n \in Node : links[n] = l.next[n]
    BY <1>2, <1>4, <1>5
  <2> QED
    BY <1>2, <2>1, <2>2
<1> HIDE DEF links
<1>7. u \in ListOf(Entry) /\ u.head = l.head /\ u.next = l.next /\ u.tail = l.tail
      /\ u.length = l.length /\ u.value = l.value
  BY <1>2, <1>6 DEF ListOf
<1>8. u = l
  BY <1>7, SameList
<1>9. Undo(m, r) = u
  BY <1>1 DEF Undo, links
<1> QED
  BY <1>8, <1>9

\* l.head = nodeToMove, with what MoveToFirst reads before it.
LEMMA MoveHeadStep ==
  ASSUME Inv, NEW g \in Getter, MoveHead(g)
  PROVE  Inv' /\ Settled' = Settled
<1> DEFINE i == loc[g].i
           prev == GetNodeAt(list, i - 1).node
           node == list.next[prev]
           r == [loc[g] EXCEPT !.prev = prev, !.node = node,
                               !.after = list.next[node], !.first = list.head]
<1>1. mu = NoOne /\ Settled = list /\ Control /\ Sound(list)
  BY DEF MoveHead, Inv, Settled
<1>2. /\ pc[g] = "move" /\ loc[g] \in LocalsType /\ i \in Nat /\ i > 0 /\ i < list.length
      /\ list \in ListOf(Entry) /\ list.length \in Nat /\ loc[g].key \in Key /\ g # NoOne
  BY <1>1, CacheAssumption DEF MoveHead, Control, Types, InRange, LocalsType, ListOf, Calls
<1>3. PICK s : Chain(list, s)
  BY <1>1 DEF Sound, Whole
<1>4. i \in 0..(list.length - 1) /\ i - 1 \in 0..(list.length - 1) /\ i \in 1..(list.length - 1)
  BY <1>2
<1>5. prev = s[i - 1]
  BY <1>2, <1>3, <1>4, GetNodeFacts
<1>6. s[i - 1] \in Node /\ s[i] \in Node /\ list.next[s[i - 1]] = s[i]
  BY <1>2, <1>3, <1>4, SMTT(30) DEF Chain, Path
<1>7. node = s[i] /\ node \in Node /\ prev \in Node
  BY <1>5, <1>6
<1>8. list.next[node] \in Node \cup {Nil} /\ list.head \in Node \cup {Nil}
  BY <1>2, <1>7 DEF ListOf
<1>9. /\ loc' = [loc EXCEPT ![g] = r] /\ list' = [list EXCEPT !.head = node]
      /\ mu' = g /\ pc' = [pc EXCEPT ![g] = "link"] /\ UNCHANGED <<data, readers, writer, arg, ret>>
  BY <1>1, <1>2 DEF MoveHead, Control, Types
<1> HIDE DEF prev, node
<1>10. /\ r \in LocalsType /\ r.key = loc[g].key /\ r.i = i
       /\ r.prev = prev /\ r.node = node /\ r.after = list.next[node] /\ r.first = list.head
  BY <1>2, <1>7, <1>8, ZenonT(60) DEF LocalsType
<1>11. /\ list' \in ListOf(Entry) /\ list'.head = node /\ list'.tail = list.tail
       /\ list'.length = list.length /\ list'.value = list.value /\ list'.next = list.next
  BY <1>2, <1>7, <1>9 DEF ListOf
<1> HIDE DEF r
<1>12. Control'
  <2>1. readers = readers \cup {g}
    BY <1>1, <1>2 DEF Control, Locks, Inside
  <2>2. /\ "link" \in GetPlace /\ "link" \in Inside /\ "link" \in Holding /\ mu' \in Getter \cup {NoOne}
        /\ \A h \in Getter \ {g} : mu' = h <=> mu = h
    BY <1>1, <1>9, CacheAssumption DEF GetPlace, Inside, Holding
  <2> QED
    BY <1>1, <1>2, <1>9, <1>10, <1>11, <2>1, <2>2, GetterControl
<1>13. Moving(list, list', r, "link")
  BY <1>3, <1>4, <1>5, <1>7, <1>10, <1>11, Zenon DEF Moving
<1>14. Undo(list', r) = list
  BY <1>2, <1>11, <1>13, UndoFacts
<1>15. mu' # NoOne /\ loc'[mu'] = r /\ pc'[mu'] = "link"
  BY <1>1, <1>2, <1>9 DEF Control, Types
<1>16. Settled' = list
  BY <1>14, <1>15 DEF Settled, Undo
<1>17. Sound(Settled)'
  BY <1>1, <1>9, <1>16 DEF Sound, Stored
<1>18. Moving(Settled', list', loc'[mu'], pc'[mu'])
  BY <1>13, <1>15, <1>16
<1> QED
  BY <1>1, <1>12, <1>16, <1>17, <1>18 DEF Inv, Moving

\* nodeToMove.next = currentHead: for this step the list has a cycle.
LEMMA MoveLinkStep ==
  ASSUME Inv, NEW g \in Getter, MoveLink(g)
  PROVE  Inv' /\ Settled' = Settled
<1> DEFINE r == loc[g]
           i == r.i
           l == Settled
<1>1. /\ pc[g] = "link" /\ mu = g /\ g # NoOne /\ Control
      /\ list \in ListOf(Entry) /\ r \in LocalsType /\ r.key \in Key /\ i < list.length
  BY CacheAssumption DEF MoveLink, Inv, Control, Types, Locks, Holding, Calls, InRange
<1>2. Sound(l) /\ Moving(l, list, r, "link") /\ l = Undo(list, r)
  BY <1>1, SettledIsUndo DEF Inv
<1>3. l \in ListOf(Entry)
  BY <1>2 DEF Sound
<1>4. l.length = list.length /\ l.value = list.value /\ l.tail = list.tail
  BY <1>1, <1>2 DEF Undo, ListOf
<1> HIDE DEF l
<1>5. PICK s : /\ Chain(l, s) /\ i \in 1..(l.length - 1)
               /\ r.first = l.head /\ r.node = s[i]
               /\ r.prev = s[i - 1] /\ r.after = l.next[s[i]]
               /\ list.head = s[i] /\ list.next = l.next
  BY <1>2 DEF Moving
<1>6. s[i] \in Node /\ l.head \in Node \cup {Nil} /\ l.length \in Nat
  BY <1>3, <1>5 DEF ListOf, Chain, Path
<1>7. list' = [list EXCEPT !.next = [list.next EXCEPT ![r.node] = r.first]]
  BY <1>1 DEF MoveLink, ListOf
<1>8. [list.next EXCEPT ![r.node] = r.first] \in [Node -> Node \cup {Nil}]
  BY <1>1, <1>5, <1>6 DEF ListOf
<1>9. /\ list' \in ListOf(Entry) /\ list'.head = list.head /\ list'.tail = list.tail
      /\ list'.length = list.length /\ list'.value = list.value
      /\ list'.next = [list.next EXCEPT ![r.node] = r.first]
  BY <1>1, <1>7, <1>8 DEF ListOf
<1>10. /\ pc' = [pc EXCEPT ![g] = "unlink"] /\ loc' = [loc EXCEPT ![g] = r]
       /\ UNCHANGED <<data, readers, writer, mu, loc, arg, ret>>
  <2>1. /\ pc' = [pc EXCEPT ![g] = "unlink"]
        /\ UNCHANGED <<data, readers, writer, mu, loc, arg, ret>>
    BY DEF MoveLink
  <2>2. loc \in [Getter -> LocalsType]
    BY <1>1 DEF Control, Types
  <2>3. loc = [loc EXCEPT ![g] = loc[g]]
    BY <2>2
  <2> QED
    BY <2>1, <2>3
<1>11. Control'
  <2>1. readers = readers \cup {g}
    BY <1>1 DEF Control, Locks, Inside
  <2>2. "unlink" \in GetPlace /\ "unlink" \in Inside /\ "unlink" \in Holding /\ mu' = g
    BY <1>1, <1>10 DEF GetPlace, Inside, Holding
  <2>3. readers' = IF "unlink" \in Inside THEN readers \cup {g} ELSE readers \ {g}
    BY <1>10, <2>1, <2>2
  <2>4. \A h \in Getter \ {g} : mu' = h <=> mu = h
    BY <1>1, <2>2
  <2> HIDE DEF r
  <2> QED
    BY ONLY <1>1, <1>9, <1>10, <2>2, <2>3, <2>4, GetterControl, ZenonT(60)
<1>12. Moving(l, list', r, "unlink")
  <2>1. list'.next = [l.next EXCEPT ![s[i]] = l.head] /\ list'.head = s[i]
    BY <1>5, <1>9
  <2>2. "unlink" # "link"
    OBVIOUS
  <2> QED
    BY <1>5, <2>1, <2>2, Zenon DEF Moving
<1>13. Undo(list', r) = l
  BY <1>3, <1>4, <1>9, <1>12, UndoFacts
<1>14. mu' # NoOne /\ loc'[mu'] = r /\ pc'[mu'] = "unlink"
  BY <1>1, <1>10 DEF Control, Types
<1>15. Settled' = l
  BY <1>13, <1>14 DEF Settled, Undo
<1>16. Sound(Settled)'
  BY <1>2, <1>10, <1>15 DEF Sound, Stored
<1>17. Moving(Settled', list', loc'[mu'], pc'[mu'])
  BY <1>12, <1>14, <1>15
<1> QED
  BY <1>11, <1>15, <1>16, <1>17 DEF Inv, Moving, l

\* prevNode.next = nextNode and recalculateTail: the list is whole again,
\* with the key in front.
LEMMA MoveUnlinkStep ==
  ASSUME Inv, NEW g \in Getter, MoveUnlink(g)
  PROVE  Inv' /\ GetAll(Settled') = Atomic!ToFront(GetAll(Settled), loc[g].i + 1)
<1> DEFINE r == loc[g]
           i == r.i
           l == Settled
           m == [list EXCEPT !.next = [list.next EXCEPT ![r.prev] = r.after]]
<1>1. /\ pc[g] = "unlink" /\ mu = g /\ g # NoOne /\ Control
      /\ list \in ListOf(Entry) /\ r \in LocalsType
  BY CacheAssumption DEF MoveUnlink, Inv, Control, Types, Locks, Holding
<1>2. Sound(l) /\ Moving(l, list, r, "unlink") /\ l = Undo(list, r)
  BY <1>1, SettledIsUndo DEF Inv
<1>3. l \in ListOf(Entry)
  BY <1>2 DEF Sound
<1>4. l.length = list.length /\ l.value = list.value
  BY <1>1, <1>2 DEF Undo, ListOf
<1> HIDE DEF l
<1>5. PICK s : /\ Chain(l, s) /\ i \in 1..(l.length - 1)
               /\ r.first = l.head /\ r.node = s[i]
               /\ r.prev = s[i - 1] /\ r.after = l.next[s[i]]
               /\ list.head = s[i] /\ list.next = [l.next EXCEPT ![s[i]] = l.head]
  BY <1>2 DEF Moving
<1>6. s[i - 1] \in Node /\ s[i] \in Node /\ l.length \in Nat /\ i - 1 \in Nat
  BY <1>3, <1>5 DEF ListOf, Chain, Path
<1>7. [list.next EXCEPT ![r.prev] = r.after] \in [Node -> Node \cup {Nil}]
  BY <1>1, <1>3, <1>5, <1>6 DEF ListOf
<1>8. /\ m \in ListOf(Entry) /\ m.length = l.length /\ m.value = l.value /\ m.head = s[i]
      /\ m.next = [l.next EXCEPT ![s[i]] = l.head, ![s[i - 1]] = l.next[s[i]]]
  BY <1>1, <1>4, <1>5, <1>7 DEF ListOf
<1>9. list' = RecalculateTail(m)
  BY <1>1 DEF MoveUnlink, ListOf
<1> HIDE DEF m
<1>10. Path(m, Rotated(s, i))
  BY <1>3, <1>5, <1>8, MovedPath, SMTT(30)
<1>11. /\ list' \in ListOf(Entry) /\ Chain(list', Rotated(s, i))
       /\ list'.length = l.length /\ list'.value = l.value
  BY <1>8, <1>9, <1>10, RecalculateFacts
<1>12. GetAll(list') = [j \in 1..l.length |->
                          IF j = 1 THEN GetAll(l)[i + 1]
                          ELSE IF j <= i + 1 THEN GetAll(l)[j - 1] ELSE GetAll(l)[j]]
  <2>1. PICK n : n = list'
    OBVIOUS
  <2>2. Chain(n, Rotated(s, i)) /\ n.length = l.length /\ n.value = l.value
    BY <1>11, <2>1
  <2>3. i \in 1..(l.length - 1) /\ Chain(l, s) /\ l.length \in Nat
    BY <1>5, <1>6
  <2> HIDE DEF i
  <2>4. GetAll(n) = Fronted(GetAll(l), l.length, i)
    BY ONLY <2>2, <2>3, RotatedValues
  <2> QED
    BY <2>1, <2>4, Zenon DEF Fronted
<1>13. /\ pc' = [pc EXCEPT ![g] = "idle"] /\ loc' = [loc EXCEPT ![g] = Locals]
       /\ readers' = readers \ {g} /\ mu' = NoOne /\ UNCHANGED <<data, writer, arg>>
  BY DEF MoveUnlink, Leave
<1>14. Control'
  <2>1. /\ "idle" \in GetPlace /\ "idle" \notin Inside /\ "idle" \notin Holding
        /\ mu' \in Getter \cup {NoOne} /\ \A h \in Getter \ {g} : mu' = h <=> mu = h
        /\ mu' # g /\ "idle" \notin {"move", "link", "unlink"}
    BY <1>1, <1>13, CacheAssumption DEF GetPlace, Inside, Holding
  <2>2. Locals \in LocalsType
    BY DEF LocalsType, Locals
  <2> QED
    BY <1>1, <1>4, <1>11, <1>13, <2>1, <2>2, GetterControl
<1>15. Settled' = list'
  BY <1>13 DEF Settled
<1>16. Lists(GetAll(list'), list'.length, Stored)
  <2> DEFINE q == GetAll(l)
             u == GetAll(list')
             N == l.length
  <2>1. /\ \A a, b \in 1..N : q[a] = q[b] => a = b
        /\ Stored = {q[a] : a \in 1..N}
    BY <1>2 DEF Sound, Lists
  <2>2. /\ \A j \in 1..N : u[j] = IF j = 1 THEN q[i + 1] ELSE IF j <= i + 1 THEN q[j - 1] ELSE q[j]
        /\ N \in Nat /\ i \in 1..(N - 1) /\ list'.length = N
    BY <1>5, <1>6, <1>11, <1>12
  <2> HIDE DEF q, u, N
  <2>3. \A a, b \in 1..N : u[a] = u[b] => a = b
    BY <2>1, <2>2
  <2>4. \A j \in 1..N : \E a \in 1..N : u[j] = q[a]
    BY <2>2
  <2>5. ASSUME NEW a \in 1..N PROVE \E j \in 1..N : u[j] = q[a]
    <3>1. CASE a = i + 1
      <4>1. 1 \in 1..N /\ u[1] = q[a]
        BY <2>2, <3>1
      <4> QED
        BY <4>1
    <3>2. CASE a <= i
      <4>1. a + 1 \in 1..N /\ u[a + 1] = q[a]
        BY <2>2, <3>2
      <4> QED
        BY <4>1
    <3>3. CASE a > i + 1
      <4>1. u[a] = q[a]
        BY <2>2, <3>3
      <4> QED
        BY <4>1
    <3> QED
      BY <2>2, <3>1, <3>2, <3>3
  <2>6. Stored = {u[a] : a \in 1..N}
    BY <2>1, <2>4, <2>5
  <2> QED
    BY <2>2, <2>3, <2>6 DEF Lists, u
<1>17. Sound(Settled)'
  BY <1>2, <1>11, <1>13, <1>15, <1>16 DEF Sound, Stored, Whole
<1>18. GetAll(Settled') = Atomic!ToFront(GetAll(l), i + 1)
  <2>1. Len(GetAll(l)) = l.length
    BY <1>2, <1>3, ValuesAreSeq DEF Sound
  <2> QED
    BY <1>12, <1>15, <2>1 DEF Atomic!ToFront
<1> QED
  BY <1>13, <1>14, <1>17, <1>18 DEF Inv, l

\* A list of keys with one taken out lists the others.
LEMMA ListsRemove ==
  ASSUME NEW q, NEW n \in Nat, NEW R, Lists(q, n, R), NEW p \in 1..n, NEW u,
         \A i \in 1..(n - 1) : u[i] = IF i < p THEN q[i] ELSE q[i + 1]
  PROVE  Lists(u, n - 1, R \ {q[p]})
<1>0. (\A i, j \in 1..n : q[i] = q[j] => i = j) /\ R = {q[i] : i \in 1..n}
  BY DEF Lists
<1>1. \A i, j \in 1..(n - 1) : u[i] = u[j] => i = j
  BY <1>0
<1>2. \A i \in 1..(n - 1) : u[i] \in R /\ u[i] # q[p]
  BY <1>0
<1>3. ASSUME NEW i \in 1..n, i # p PROVE \E j \in 1..(n - 1) : u[j] = q[i]
  <2>1. CASE i < p
    BY <2>1
  <2>2. CASE i > p
    <3>1. i - 1 \in 1..(n - 1) /\ u[i - 1] = q[i]
      BY <2>2
    <3> QED
      BY <3>1
  <2> QED
    BY <1>3, <2>1, <2>2
<1>4. R \ {q[p]} = {u[i] : i \in 1..(n - 1)}
  BY <1>0, <1>2, <1>3
<1> QED
  BY <1>1, <1>4 DEF Lists

\* A list of keys with a new one in front lists that one, too.
LEMMA ListsInsert ==
  ASSUME NEW q, NEW n \in Nat, NEW R, Lists(q, n, R), NEW x, x \notin R, NEW u,
         u[1] = x, \A i \in 2..(n + 1) : u[i] = q[i - 1]
  PROVE  Lists(u, n + 1, R \cup {x})
<1>0. (\A i, j \in 1..n : q[i] = q[j] => i = j) /\ R = {q[i] : i \in 1..n}
  BY DEF Lists
<1>1. \A i \in 2..(n + 1) : u[i] # x /\ u[i] \in R
  BY <1>0
<1>2. \A i, j \in 1..(n + 1) : u[i] = u[j] => i = j
  BY <1>0, <1>1
<1>3. ASSUME NEW i \in 1..n PROVE \E j \in 1..(n + 1) : u[j] = q[i]
  <2>1. i + 1 \in 1..(n + 1) /\ u[i + 1] = q[i]
    OBVIOUS
  <2> QED
    BY <2>1
<1>4. 1 \in 1..(n + 1)
  OBVIOUS
<1>5. R \cup {x} = {u[i] : i \in 1..(n + 1)}
  BY <1>0, <1>1, <1>3, <1>4
<1> QED
  BY <1>2, <1>5 DEF Lists

\* The list after a Set has taken its key out.
RestOf(l, k) == IF GetIndex(l, k).index = -1 THEN l
                ELSE RemoveNodeAt(l, GetIndex(l, k).index).list

\* It is whole and lists the keys but that one.
LEMMA RestFacts ==
  ASSUME NEW l \in ListOf(Entry), Whole(l), NEW R, Lists(GetAll(l), l.length, R), NEW k
  PROVE  LET m == RestOf(l, k)
         IN  /\ m \in ListOf(Entry) /\ Whole(m) /\ m.length <= l.length
             /\ Lists(GetAll(m), m.length, R \ {k})
<1> DEFINE r == GetIndex(l, k).index
           q == GetAll(l)
           N == l.length
<1>1. N \in Nat
  BY DEF ListOf
<1>2. CASE r = -1 /\ \A i \in 1..N : q[i] # k
  <2>1. k \notin R
    BY <1>2 DEF Lists
  <2>2. R \ {k} = R /\ RestOf(l, k) = l
    BY <1>2, <2>1 DEF RestOf
  <2> QED
    BY <1>1, <2>2
<1>3. CASE r \in 0..(N - 1) /\ q[r + 1] = k
  <2> DEFINE m == RemoveNodeAt(l, r).list
  <2>1. /\ m \in ListOf(Entry) /\ Whole(m) /\ m.length = N - 1
        /\ GetAll(m) = [i \in 1..(N - 1) |-> IF i <= r THEN q[i] ELSE q[i + 1]]
    BY <1>3, RemoveFacts
  <2>2. RestOf(l, k) = m
    BY <1>1, <1>3 DEF RestOf
  <2> HIDE DEF m, r, q, N
  <2>3. r + 1 \in 1..N /\ \A i \in 1..(N - 1) : GetAll(m)[i] = IF i < r + 1 THEN q[i] ELSE q[i + 1]
    BY <1>1, <1>3, <2>1
  <2>4. Lists(q, N, R)
    BY DEF q, N
  <2>5. Lists(GetAll(m), N - 1, R \ {q[r + 1]})
    BY <1>1, <2>3, <2>4, ListsRemove
  <2> QED
    BY <1>1, <1>3, <2>1, <2>2, <2>5 DEF N
<1>4. \/ r = -1 /\ \A i \in 1..N : q[i] # k
      \/ r \in 0..(N - 1) /\ q[r + 1] = k
  BY <1>1, GetIndexFacts
<1> QED
  BY <1>2, <1>3, <1>4

\* The body of Set, eviction included, keeps list and map together and within
\* the capacity, for a capacity of 0 or less too, where the key that was just
\* put in goes again.
LEMMA StoresFacts ==
  ASSUME list \in ListOf(Entry), data \in [Key -> Value \cup {NoValue}], Sound(list),
         NEW k \in Key, NEW v \in Value
  PROVE  LET new == Stores(k, v)
         IN  /\ new.list \in ListOf(Entry) /\ Whole(new.list) /\ new.list.length <= Room
             /\ new.data \in [Key -> Value \cup {NoValue}]
             /\ Lists(GetAll(new.list), new.list.length, {x \in Key : new.data[x] # NoValue})
<1> DEFINE rest == RestOf(list, k)
           keys == Insert(rest, k, 0).list
           values == [data EXCEPT ![k] = v]
           last == GetLast(keys).value
           short == RemoveLast(keys).list
           n == rest.length
<1>1. list.length \in Nat /\ Room \in Nat /\ Cardinality(Node) > Room /\ k \in Entry
  BY CacheAssumption, FS_CardinalityType DEF ListOf, Room, Entry
<1>2. Whole(list) /\ list.length <= Room /\ Lists(GetAll(list), list.length, Stored)
  BY DEF Sound
<1>3. /\ rest \in ListOf(Entry) /\ Whole(rest) /\ n <= list.length
      /\ Lists(GetAll(rest), n, Stored \ {k})
  BY <1>2, RestFacts
<1>4. Stores(k, v) = IF keys.length > Cap
                     THEN [list |-> short, data |-> [values EXCEPT ![last] = NoValue]]
                     ELSE [list |-> keys, data |-> values]
  BY DEF Stores, RestOf
<1> HIDE DEF rest
<1>5. n \in Nat /\ Cardinality(Node) > n /\ n <= Room /\ 0 \in 0..n
  <2>1. n \in Nat
    BY <1>3 DEF ListOf
  <2>2. Cardinality(Node) \in Nat
    BY CacheAssumption, FS_CardinalityType
  <2> QED
    BY <1>1, <1>2, <1>3, <2>1, <2>2
<1>6. /\ keys \in ListOf(Entry) /\ Whole(keys) /\ keys.length = n + 1
      /\ GetAll(keys) = [i \in 1..(n + 1) |->
                           IF i <= 0 THEN GetAll(rest)[i]
                           ELSE IF i = 0 + 1 THEN k ELSE GetAll(rest)[i - 1]]
  <2> DEFINE at == 0
  <2>1. at \in 0..n /\ keys = Insert(rest, k, at).list
    BY <1>5
  <2> HIDE DEF at
  <2>2. LET m == Insert(rest, k, at).list
        IN  /\ m \in ListOf(Entry) /\ Whole(m) /\ m.length = n + 1
            /\ GetAll(m) = [i \in 1..(n + 1) |->
                              IF i <= at THEN GetAll(rest)[i]
                              ELSE IF i = at + 1 THEN k ELSE GetAll(rest)[i - 1]]
    BY <1>1, <1>3, <1>5, <2>1, InsertFacts
  <2> QED
    BY <2>1, <2>2 DEF at
<1> HIDE DEF keys
<1>7. Lists(GetAll(keys), n + 1, Stored \cup {k})
  <2>1. GetAll(keys)[1] = k /\ \A i \in 2..(n + 1) : GetAll(keys)[i] = GetAll(rest)[i - 1]
    BY <1>5, <1>6
  <2> HIDE DEF n
  <2>2. Lists(GetAll(keys), n + 1, (Stored \ {k}) \cup {k})
    BY <1>3, <1>5, <2>1, ListsInsert
  <2>3. (Stored \ {k}) \cup {k} = Stored \cup {k}
    OBVIOUS
  <2> QED
    BY <2>2, <2>3
<1>8. v # NoValue /\ values \in [Key -> Value \cup {NoValue}]
  BY CacheAssumption
<1>9. {x \in Key : values[x] # NoValue} = Stored \cup {k}
  BY <1>8 DEF Stored
<1> HIDE DEF values
<1>10. CASE keys.length > Cap
  <2>1. last = GetAll(keys)[n + 1]
    BY <1>5, <1>6, LastValue
  <2> HIDE DEF last
  <2>2. n \in 0..(keys.length - 1) /\ keys.length - 1 = n
    BY <1>5, <1>6
  <2>3. /\ short \in ListOf(Entry) /\ Whole(short) /\ short.length = n
        /\ GetAll(short) = [i \in 1..n |-> IF i <= n THEN GetAll(keys)[i] ELSE GetAll(keys)[i + 1]]
    <3>1. short = RemoveNodeAt(keys, n).list
      BY <2>2 DEF RemoveLast
    <3> HIDE DEF short, n
    <3>2. LET m == RemoveNodeAt(keys, n).list
          IN  /\ m \in ListOf(Entry) /\ Whole(m) /\ m.length = keys.length - 1
              /\ GetAll(m) = [i \in 1..(keys.length - 1) |->
                                IF i <= n THEN GetAll(keys)[i] ELSE GetAll(keys)[i + 1]]
      BY <1>6, <2>2, RemoveFacts, ZenonT(60)
    <3> QED
      BY <2>2, <3>1, <3>2
  <2> HIDE DEF short, n
  <2>4. Lists(GetAll(short), n, (Stored \cup {k}) \ {last})
    <3>1. n + 1 \in 1..(n + 1) /\ n + 1 \in Nat /\ (n + 1) - 1 = n
      BY <1>5
    <3>2. \A i \in 1..((n + 1) - 1) : GetAll(short)[i] = IF i < n + 1 THEN GetAll(keys)[i] ELSE GetAll(keys)[i + 1]
      BY <1>5, <2>3
    <3>3. Lists(GetAll(short), (n + 1) - 1, (Stored \cup {k}) \ {GetAll(keys)[n + 1]})
      BY <1>7, <3>1, <3>2, ListsRemove
    <3> QED
      BY <2>1, <3>1, <3>3
  <2>5. {x \in Key : [values EXCEPT ![last] = NoValue][x] # NoValue} = (Stored \cup {k}) \ {last}
    BY <1>8, <1>9
  <2>6. [values EXCEPT ![last] = NoValue] \in [Key -> Value \cup {NoValue}]
    BY <1>8
  <2> DEFINE left == [values EXCEPT ![last] = NoValue]
  <2>7. Stores(k, v).list = short /\ Stores(k, v).data = left
    BY <1>4, <1>10
  <2>8. left \in [Key -> Value \cup {NoValue}] /\ {x \in Key : left[x] # NoValue} = (Stored \cup {k}) \ {last}
    BY <2>5, <2>6
  <2> HIDE DEF left
  <2> QED
    BY <1>5, <2>3, <2>4, <2>7, <2>8
<1>11. CASE ~(keys.length > Cap)
  <2>1. keys.length <= Room
    BY <1>5, <1>6, <1>11, CacheAssumption DEF Room
  <2>2. Stores(k, v).list = keys /\ Stores(k, v).data = values
    BY <1>4, <1>11
  <2> QED
    BY <1>6, <1>7, <1>8, <1>9, <2>1, <2>2
<1> QED
  BY <1>10, <1>11

\* A step of a Set that goes to p with the arguments a.
LEMMA SetterControl ==
  ASSUME Control, NEW s \in Setter, NEW p \in SetPlace, NEW a \in ArgType,
         pc' = [pc EXCEPT ![s] = p], arg' = [arg EXCEPT ![s] = a],
         p # "idle" => a.key \in Key /\ a.value \in Value,
         writer' \in Setter \cup {NoOne}, UNCHANGED <<readers, mu, loc>>,
         list' \in ListOf(Entry), data' \in [Key -> Value \cup {NoValue}],
         readers = {} \/ UNCHANGED list
  PROVE  Control'
<1> USE DEF Control
<1>1. s \in Getter \cup Setter /\ \A g \in Getter : g # s
  BY CacheAssumption
<1>2. /\ pc'[s] = p /\ arg'[s] = a
      /\ \A h \in Getter \cup Setter : h # s => pc'[h] = pc[h]
      /\ \A h \in Setter : h # s => arg'[h] = arg[h]
      /\ \A g \in Getter : pc'[g] = pc[g]
  BY <1>1 DEF Types
<1>3. Types'
  <2>1. pc' \in [Getter \cup Setter -> GetPlace \cup SetPlace] /\ arg' \in [Setter -> ArgType]
    BY <1>1 DEF Types
  <2>2. (\A h \in Getter : pc'[h] \in GetPlace) /\ (\A t \in Setter : pc'[t] \in SetPlace)
    BY <1>1, <1>2 DEF Types
  <2> QED
    BY <2>1, <2>2 DEF Types
<1>4. Calls'
  BY <1>1, <1>2 DEF Calls
<1>5. Locks'
  BY <1>2 DEF Locks
<1>6. InRange'
  <2>1. CASE UNCHANGED list
    BY <1>2, <2>1 DEF InRange
  <2>2. CASE readers = {}
    BY <1>2, <2>2 DEF InRange, Locks, Inside
  <2> QED
    BY <2>1, <2>2
<1> QED
  BY <1>3, <1>4, <1>5, <1>6

\* The steps of a Set keep the invariant: its body runs only when no reader
\* is inside, so no move is under way.
LEMMA SetterStep ==
  ASSUME Inv, NEW s \in Setter,
         \/ \E k \in Key, v \in Value : CallSet(s, k, v)
         \/ SetAnnounce(s) \/ SetBody(s)
  PROVE  Inv'
<1>0. /\ Control /\ arg \in [Setter -> ArgType] /\ arg[s] \in ArgType
      /\ list \in ListOf(Entry) /\ data \in [Key -> Value \cup {NoValue}]
      /\ writer \in Setter \cup {NoOne} /\ pc[s] \in SetPlace
      /\ pc[s] # "idle" => arg[s].key \in Key /\ arg[s].value \in Value
      /\ pc \in [Getter \cup Setter -> GetPlace \cup SetPlace]
      /\ mu \in Getter \cup {NoOne} /\ \A g \in Getter : g # s
  BY CacheAssumption DEF Inv, Control, Types, Calls
<1>1. CASE \E k \in Key, v \in Value : CallSet(s, k, v)
  <2>1. PICK k \in Key, v \in Value : CallSet(s, k, v)
    BY <1>1
  <2>2. "lock" \in SetPlace /\ [key |-> k, value |-> v] \in ArgType
    BY DEF SetPlace, ArgType
  <2>3. Control'
    BY <1>0, <2>1, <2>2, SetterControl DEF CallSet
  <2>4. mu # NoOne => loc'[mu] = loc[mu] /\ pc'[mu] = pc[mu]
    BY <1>0, <2>1 DEF CallSet
  <2> QED
    BY <2>1, <2>3, <2>4, QuietStep DEF CallSet, Inv
<1>2. CASE SetAnnounce(s)
  <2>1. "set" \in SetPlace /\ arg' = [arg EXCEPT ![s] = arg[s]]
    BY <1>0, <1>2 DEF SetPlace, SetAnnounce
  <2>2. Control'
    BY <1>0, <1>2, <2>1, SetterControl DEF SetAnnounce
  <2>3. mu # NoOne => loc'[mu] = loc[mu] /\ pc'[mu] = pc[mu]
    BY <1>0, <1>2 DEF SetAnnounce
  <2> QED
    BY <1>2, <2>2, <2>3, QuietStep DEF SetAnnounce, Inv
<1>3. CASE SetBody(s)
  <2> DEFINE new == Stores(arg[s].key, arg[s].value)
  <2>1. readers = {} /\ mu = NoOne
    BY <1>0, <1>3 DEF SetBody, Control, Locks, Inside, Holding
  <2>2. Settled = list /\ Sound(list)
    BY <2>1 DEF Settled, Inv
  <2>3. arg[s].key \in Key /\ arg[s].value \in Value
    BY <1>0, <1>3 DEF SetBody
  <2>4. /\ new.list \in ListOf(Entry) /\ Whole(new.list) /\ new.list.length <= Room
        /\ new.data \in [Key -> Value \cup {NoValue}]
        /\ Lists(GetAll(new.list), new.list.length, {x \in Key : new.data[x] # NoValue})
    BY <1>0, <2>2, <2>3, StoresFacts
  <2>5. list' = Collect(new.list) /\ data' = new.data
    BY <1>3 DEF SetBody
  <2> HIDE DEF new
  <2>6. /\ list' \in ListOf(Entry) /\ Whole(list') /\ list'.length = new.list.length
        /\ GetAll(list') = GetAll(new.list)
    <3>1. NoValue \in Entry
      BY DEF Entry
    <3> QED
      BY <2>4, <2>5, <3>1, CollectFacts
  <2>7. Control'
    <3>1. "idle" \in SetPlace /\ [key |-> NoValue, value |-> NoValue] \in ArgType
      BY DEF SetPlace, ArgType
    <3>2. data' \in [Key -> Value \cup {NoValue}]
      BY <2>4, <2>5
    <3> QED
      BY <1>0, <1>3, <2>1, <2>6, <3>1, <3>2, SetterControl DEF SetBody
  <2>8. mu' = NoOne /\ Settled' = list'
    BY <1>3, <2>1 DEF SetBody, Settled
  <2>9. Sound(Settled)'
    BY <2>4, <2>5, <2>6, <2>8 DEF Sound, Stored
  <2> QED
    BY <2>7, <2>8, <2>9 DEF Inv
<1> QED
  BY <1>1, <1>2, <1>3

\* The invariant, for all behaviours.
LEMMA AlwaysInv == Spec => []Inv
<1>1. ASSUME Inv, [Next]_vars PROVE Inv'
  <2>1. CASE UNCHANGED vars
    <3>1. Control'
      BY <1>1, <2>1 DEF vars, Inv, Control, Types, Calls, Locks, InRange
    <3> QED
      BY <1>1, <2>1, <3>1, QuietStep DEF vars, Inv
  <2>2. ASSUME NEW g \in Getter, NEW k \in Key, CallGet(g, k) PROVE Inv'
    BY <1>1, <2>2, GetterStep DEF GetterQuiet
  <2>3. ASSUME NEW g \in Getter, GetMiss(g) \/ GetLookup(g) \/ Search(g) \/ Move(g) PROVE Inv'
    BY <1>1, <2>3, GetterStep, MoveHeadStep, MoveLinkStep, MoveUnlinkStep DEF GetterQuiet, Move
  <2>4. ASSUME NEW s \in Setter, \/ \E k \in Key, v \in Value : CallSet(s, k, v)
                                 \/ SetAnnounce(s) \/ SetBody(s)
        PROVE  Inv'
    BY <1>1, <2>4, SetterStep
  <2> QED
    BY <1>1, <2>1, <2>2, <2>3, <2>4 DEF Next
<1> QED
  BY <1>1, InitInv, PTL DEF Spec

\* The pointers, the map and the locks of the cache hold what they may, and
\* every goroutine is at a place of Get or of Set.
THEOREM CacheTyped == Spec => []TypeOK
<1>1. Inv => TypeOK
  BY DEF Inv, Control, Types, Locks, TypeOK, ListOf, Entry, GetPlace, SetPlace
<1> QED
  BY <1>1, AlwaysInv, PTL

\* Get of in_memory.go rearranges the list while it holds c.mu for reading
\* only. Whatever the number of Gets and Sets and however they interleave,
\* list.mu is enough to keep the list whole: no node is lost, the tail is
\* right, the list holds the keys of the map, and not more than the capacity.
THEOREM ReadersKeepList == Spec => []ListSurvivesReaders
<1>1. ASSUME Inv PROVE ListSurvivesReaders
  <2> DEFINE l == Settled
             q == GetAll(l)
             N == l.length
  <2>1. l \in ListOf(Entry) /\ Whole(l) /\ N <= Room /\ Lists(q, N, Stored)
    BY <1>1 DEF Inv, Sound
  <2>2. N \in Nat
    BY <2>1 DEF ListOf
  <2> HIDE DEF l
  <2>3. /\ Cardinality(Linked(l)) = N /\ Nil \notin Linked(l)
        /\ N > 0 => l.tail = NodeAt(l, N - 1) /\ l.next[l.tail] = Nil
    BY <2>1, <2>2, NilAssumption, WholeIsWellFormed
  <2>4. {l.value[n] : n \in Linked(l)} = {l.value[NodeAt(l, i)] : i \in 0..(N - 1)}
    BY DEF Linked
  <2>5. {l.value[NodeAt(l, i)] : i \in 0..(N - 1)} = {q[i] : i \in 1..N}
    <3>1. \A i \in 1..N : q[i] = l.value[NodeAt(l, i - 1)]
      BY <2>2 DEF GetAll
    <3>2. ASSUME NEW i \in 0..(N - 1) PROVE \E j \in 1..N : q[j] = l.value[NodeAt(l, i)]
      <4>1. i + 1 \in 1..N /\ (i + 1) - 1 = i
        BY <2>2
      <4> QED
        BY <3>1, <4>1
    <3>3. \A j \in 1..N : j - 1 \in 0..(N - 1)
      BY <2>2
    <3> HIDE DEF q, N
    <3> QED
      BY <3>1, <3>2, <3>3
  <2>6. {l.value[n] : n \in Linked(l)} = Stored
    BY <2>1, <2>4, <2>5 DEF Lists
  <2>7. Cardinality(Stored) = N
    <3> DEFINE f == [i \in 1..N |-> q[i]]
    <3>1. f \in Bijection(1..N, Stored)
      <4> HIDE DEF q, N
      <4>1. (\A i, j \in 1..N : q[i] = q[j] => i = j) /\ Stored = {q[i] : i \in 1..N}
        BY <2>1 DEF Lists
      <4> QED
        BY <4>1 DEF Bijection, Injection, Surjection, IsInjective
    <3>2. IsFiniteSet(1..N) /\ Cardinality(1..N) = N
      BY <2>2, FS_Interval
    <3>3. ExistsBijection(1..N, Stored)
      BY <3>1 DEF ExistsBijection
    <3> QED
      BY <3>2, <3>3, FS_Bijection
  <2> QED
    BY <2>1, <2>3, <2>6, <2>7 DEF ListSurvivesReaders, l, Room
<1> QED
  BY <1>1, AlwaysInv, PTL
-----------------------------------------------------------------------------
(***************************************************************************)
(* One reader.                                                             *)
(***************************************************************************)
\* The position of a key that is listed once.
LEMMA PositionIs ==
  ASSUME NEW q, NEW n \in Nat, NEW R, Lists(q, n, R), Len(q) = n, NEW k, NEW p \in 1..n, q[p] = k
  PROVE  Atomic!Position(q, k) = p
<1>1. \A i \in 1..Len(q) : q[i] = k <=> i = p
  BY DEF Lists
<1> QED
  BY <1>1 DEF Atomic!Position

\* Taking a key out of the list is taking it out of the abstract order.
LEMMA RestIs ==
  ASSUME NEW l \in ListOf(Entry), Whole(l), NEW R, Lists(GetAll(l), l.length, R), NEW k
  PROVE  LET q == GetAll(l)
             p == Atomic!Position(q, k)
         IN  GetAll(RestOf(l, k)) = IF p = 0 THEN q ELSE Atomic!Without(q, p)
<1> DEFINE r == GetIndex(l, k).index
           q == GetAll(l)
           N == l.length
<1>1. N \in Nat /\ Len(q) = N
  BY ValuesAreSeq DEF ListOf
<1>2. CASE r = -1 /\ \A i \in 1..N : q[i] # k
  <2>1. Atomic!Position(q, k) = 0
    BY <1>1, <1>2 DEF Atomic!Position
  <2> QED
    BY <1>2, <2>1 DEF RestOf
<1>3. CASE r \in 0..(N - 1) /\ q[r + 1] = k
  <2> DEFINE m == RemoveNodeAt(l, r).list
  <2>1. GetAll(m) = [i \in 1..(N - 1) |-> IF i <= r THEN q[i] ELSE q[i + 1]]
    BY <1>3, RemoveFacts
  <2>2. RestOf(l, k) = m
    BY <1>1, <1>3 DEF RestOf
  <2>3. Atomic!Position(q, k) = r + 1
    <3>1. r + 1 \in 1..N /\ Lists(q, N, R)
      BY <1>1, <1>3
    <3> HIDE DEF q, N, r
    <3> QED
      BY <1>1, <1>3, <3>1, PositionIs
  <2> HIDE DEF m, r, q, N
  <2>4. Atomic!Without(q, r + 1) = [i \in 1..(N - 1) |-> IF i < r + 1 THEN q[i] ELSE q[i + 1]]
    BY <1>1 DEF Atomic!Without
  <2>5. \A i \in 1..(N - 1) : (i < r + 1) <=> (i <= r)
    BY <1>1, <1>3
  <2>6. GetAll(m) = Atomic!Without(q, r + 1) /\ r + 1 # 0
    BY <1>1, <1>3, <2>1, <2>4, <2>5
  <2> QED
    BY <2>2, <2>3, <2>6 DEF q
<1>4. \/ r = -1 /\ \A i \in 1..N : q[i] # k
      \/ r \in 0..(N - 1) /\ q[r + 1] = k
  BY <1>1, GetIndexFacts
<1> QED
  BY <1>2, <1>3, <1>4

\* Insert at 0 is Push.
LEMMA PushIs ==
  ASSUME NEW l \in ListOf(Entry), Whole(l), Cardinality(Node) > l.length, NEW k \in Entry
  PROVE  LET m == Insert(l, k, 0).list
         IN  /\ m \in ListOf(Entry) /\ Whole(m) /\ m.length = l.length + 1
             /\ GetAll(m) = Atomic!Push(GetAll(l), k)
<1> DEFINE at == 0
           m == Insert(l, k, at).list
           q == GetAll(l)
           N == l.length
<1>1. at \in 0..N /\ N \in Nat /\ Len(q) = N
  BY ValuesAreSeq, SMTT(30) DEF ListOf
<1>2. at = 0
  OBVIOUS
<1> HIDE DEF at
<1>3. /\ m \in ListOf(Entry) /\ Whole(m) /\ m.length = N + 1
      /\ GetAll(m) = [i \in 1..(N + 1) |-> IF i <= at THEN q[i]
                                         ELSE IF i = at + 1 THEN k ELSE q[i - 1]]
  BY <1>1, InsertFacts
<1> HIDE DEF m, q, N
<1>4. \A i \in 1..(N + 1) : ~(i <= at) /\ (i = at + 1 <=> i = 1)
  BY <1>1, <1>2
<1>5. Atomic!Push(q, k) = [i \in 1..(N + 1) |-> IF i = 1 THEN k ELSE q[i - 1]]
  BY <1>1 DEF Atomic!Push
<1>6. GetAll(m) = Atomic!Push(q, k)
  BY <1>3, <1>4, <1>5
<1> QED
  BY <1>2, <1>3, <1>6 DEF m, q, N

\* RemoveLast is DropLast.
LEMMA DropLastIs ==
  ASSUME NEW l \in ListOf(Entry), Whole(l), l.length > 0
  PROVE  GetAll(RemoveLast(l).list) = Atomic!DropLast(GetAll(l))
<1> DEFINE at == l.length - 1
           m == RemoveNodeAt(l, at).list
           q == GetAll(l)
           N == l.length
<1>a. N \in Nat /\ Len(q) = N
  BY ValuesAreSeq DEF ListOf
<1>1. at \in 0..(N - 1) /\ N \in Nat /\ Len(q) = N /\ at = N - 1
  BY <1>a
<1>2. m = RemoveLast(l).list
  BY DEF RemoveLast
<1> HIDE DEF at
<1>3. GetAll(m) = [i \in 1..(N - 1) |-> IF i <= at THEN q[i] ELSE q[i + 1]]
  BY <1>1, RemoveFacts
<1> HIDE DEF m, q, N
<1>4. \A i \in 1..(N - 1) : i <= at
  BY <1>1
<1>5. Atomic!DropLast(q) = [i \in 1..(N - 1) |-> q[i]]
  BY <1>1 DEF Atomic!DropLast
<1>6. GetAll(m) = Atomic!DropLast(q)
  BY <1>3, <1>4, <1>5
<1> QED
  BY <1>2, <1>6 DEF q

\* The body of Set is the abstract one, the evicted key included.
LEMMA StoresIs ==
  ASSUME list \in ListOf(Entry), data \in [Key -> Value \cup {NoValue}], Sound(list),
         NEW k \in Key, NEW v \in Value
  PROVE  LET new  == Stores(k, v)
             keys == Atomic!Renewed(GetAll(list), k)
         IN  /\ Len(keys) \in Nat
             /\ IF Len(keys) > Cap
                THEN /\ GetAll(new.list) = Atomic!DropLast(keys)
                     /\ new.data = [data EXCEPT ![k] = v, ![keys[Len(keys)]] = NoValue]
                ELSE GetAll(new.list) = keys /\ new.data = [data EXCEPT ![k] = v]
<1> DEFINE rest == RestOf(list, k)
           keys == Insert(rest, k, 0).list
           last == GetLast(keys).value
           short == RemoveLast(keys).list
           q == GetAll(list)
           p == Atomic!Position(q, k)
<1>1. list.length \in Nat /\ k \in Entry
  BY DEF ListOf, Entry
<1>2. Whole(list) /\ list.length <= Room /\ Lists(q, list.length, Stored)
  BY DEF Sound
<1>3. rest \in ListOf(Entry) /\ Whole(rest) /\ rest.length <= list.length
  BY <1>2, RestFacts
<1>4. GetAll(rest) = IF p = 0 THEN q ELSE Atomic!Without(q, p)
  BY <1>2, RestIs
<1>5. Stores(k, v) = IF keys.length > Cap
                     THEN [list |-> short, data |-> [data EXCEPT ![k] = v, ![last] = NoValue]]
                     ELSE [list |-> keys, data |-> [data EXCEPT ![k] = v]]
  BY DEF Stores, RestOf
<1> HIDE DEF rest
<1>6. rest.length \in Nat /\ Cardinality(Node) > rest.length /\ 0 \in 0..rest.length
  <2>1. rest.length \in Nat
    BY <1>3 DEF ListOf
  <2>2. Cardinality(Node) \in Nat
    BY CacheAssumption, FS_CardinalityType
  <2> QED
    BY <1>1, <1>2, <1>3, <2>1, <2>2, CacheAssumption DEF Room
<1>7. GetAll(keys) = Atomic!Renewed(q, k)
  <2>1. GetAll(keys) = Atomic!Push(GetAll(rest), k)
    BY <1>1, <1>3, <1>6, PushIs
  <2> QED
    BY <1>4, <2>1 DEF Atomic!Renewed
<1>8. keys \in ListOf(Entry) /\ Whole(keys) /\ keys.length = rest.length + 1
  BY <1>1, <1>3, <1>6, PushIs
<1> HIDE DEF keys, q
<1>9. keys.length > 0 /\ keys.length \in Nat /\ Len(GetAll(keys)) = keys.length
  BY <1>6, <1>8, ValuesAreSeq
<1>10. last = GetAll(keys)[keys.length] /\ GetAll(short) = Atomic!DropLast(GetAll(keys))
  BY <1>8, <1>9, LastValue, DropLastIs
<1> HIDE DEF last, short
<1>11. CASE keys.length > Cap
  <2>1. Stores(k, v).list = short /\ Stores(k, v).data = [data EXCEPT ![k] = v, ![last] = NoValue]
    BY <1>5, <1>11
  <2> QED
    BY <1>7, <1>9, <1>10, <1>11, <2>1 DEF q
<1>12. CASE ~(keys.length > Cap)
  <2>1. Stores(k, v).list = keys /\ Stores(k, v).data = [data EXCEPT ![k] = v]
    BY <1>5, <1>12
  <2> QED
    BY <1>7, <1>9, <1>12, <2>1 DEF q
<1> QED
  BY <1>11, <1>12

\* The value a Get read from the map is still the one in the map: no writer
\* can have been there since.
Sees(g) == pc[g] \in Inside => /\ data[loc[g].key] # NoValue
                               /\ loc[g].value = data[loc[g].key]

\* The search of the only reader sees the list as it is, and has not passed
\* its key.
Scans(g) == pc[g] = "scan" =>
  /\ loc[g].i <= list.length
  /\ loc[g].i < list.length => loc[g].elem = NodeAt(list, loc[g].i)
  /\ \A j \in 1..loc[g].i : GetAll(list)[j] # loc[g].key

\* The index it found is the one of its key.
Found(g) == pc[g] \in {"move", "link", "unlink"} => GetAll(Settled)[loc[g].i + 1] = loc[g].key

\* What Get may return to the only reader.
Returned == [status : {"none", "miss", "hit"}, value : Value \cup {NoValue}]

\* The inductive invariant for one reader.
OneInv(g) == Inv /\ Sees(g) /\ Scans(g) /\ Found(g) /\ ret \in [Getter -> Returned]

\* What the steps below use of it.
LEMMA OneFacts ==
  ASSUME NEW g, Getter = {g}, OneInv(g)
  PROVE  /\ g \in Getter /\ loc[g] \in LocalsType /\ pc[g] \in GetPlace /\ ret[g] \in Returned
         /\ loc[g].i \in Nat /\ list.length \in Nat /\ Sound(Settled)
         /\ list \in ListOf(Entry) /\ data \in [Key -> Value \cup {NoValue}]
         /\ pc \in [Getter \cup Setter -> GetPlace \cup SetPlace] /\ loc \in [Getter -> LocalsType]
         /\ pc[g] # "idle" => loc[g].key \in Key
         /\ pc[g] \notin Holding => mu = NoOne /\ Settled = list
         /\ (CHOOSE x \in Getter : TRUE) = g
<1>1. Types /\ Calls /\ Locks /\ Sound(Settled)
  BY DEF OneInv, Inv, Control
<1>2. g \in Getter /\ (CHOOSE x \in Getter : TRUE) = g
  OBVIOUS
<1>3. pc[g] \notin Holding => mu = NoOne
  BY <1>1, <1>2 DEF Types, Locks
<1>4. loc[g] \in LocalsType /\ list \in ListOf(Entry) /\ ret[g] \in Returned
  BY <1>1, <1>2 DEF Types, OneInv
<1>5. loc[g].i \in Nat /\ list.length \in Nat
  BY <1>4 DEF LocalsType, ListOf
<1>6. mu = NoOne => Settled = list
  BY DEF Settled
<1> QED
  BY <1>1, <1>2, <1>3, <1>4, <1>5, <1>6 DEF Types, Calls

\* While nothing moves, elem.next leads from each node to the next one.
LEMMA SearchFacts ==
  ASSUME Sound(list), NEW i \in 0..(list.length - 1)
  PROVE  /\ NodeAt(list, i) \in Node /\ NodeAt(list, i) # Nil
         /\ list.value[NodeAt(list, i)] = GetAll(list)[i + 1]
         /\ list.next[NodeAt(list, i)] = NodeAt(list, i + 1)
<1>1. list.length \in Nat /\ i \in Nat
  BY DEF Sound, ListOf
<1>2. PICK s : Chain(list, s)
  BY DEF Sound, Whole
<1>3. NodeAt(list, i) = s[i] /\ s[i] \in Node
  <2>1. NodeAt(list, i) = s[i]
    BY <1>1, <1>2, ChainWalk
  <2>2. s[i] \in Node
    BY <1>2 DEF Chain, Path
  <2> QED
    BY <2>1, <2>2
<1>4. list.value[NodeAt(list, i)] = GetAll(list)[i + 1]
  BY <1>1 DEF GetAll
<1>5. list.next[NodeAt(list, i)] = NodeAt(list, i + 1)
  BY <1>1, NodeAtSteps
<1> QED
  BY <1>3, <1>4, <1>5, NilAssumption

\* A step that leaves the keys, the map and the value returned alone is a
\* stutter of AbstractLru.
LEMMA SeenAlike ==
  ASSUME NEW g, Getter = {g}, OneInv(g), GetAll(Settled') = GetAll(Settled), UNCHANGED data,
         ret'[g].value = ret[g].value
  PROVE  UNCHANGED Atomic!lruVars
  BY OneFacts DEF Atomic!lruVars

\* RLock, the lookup and the search of the only reader are stutters, and the
\* search does not end without its key.
LEMMA OneSearches ==
  ASSUME NEW g, Getter = {g}, OneInv(g),
         (\E k \in Key : CallGet(g, k)) \/ GetLookup(g) \/ Search(g)
  PROVE  OneInv(g)' /\ UNCHANGED Atomic!lruVars
<1> USE DEF GetPlace, Inside, Holding
<1>0. /\ loc[g] \in LocalsType /\ pc[g] \in GetPlace /\ ret[g] \in Returned /\ g \in Getter
      /\ loc[g].i \in Nat /\ list.length \in Nat /\ pc[g] \notin Holding
      /\ mu = NoOne /\ Settled = list /\ Sound(list) /\ list \in ListOf(Entry)
      /\ pc \in [Getter \cup Setter -> GetPlace \cup SetPlace] /\ loc \in [Getter -> LocalsType]
      /\ ret \in [Getter -> Returned]
  <2>1. pc[g] \notin Holding
    BY DEF CallGet, GetLookup, Search, ReadHead, ScanNil, ScanFound, ScanNext, ScanEnd, Scanning
  <2> QED
    BY <2>1, OneFacts DEF OneInv
<1>1. Inv'
  BY <1>0, GetterStep DEF GetterQuiet, OneInv
<1>2. UNCHANGED <<list, data, mu>> /\ Settled' = list
  BY <1>0 DEF CallGet, GetLookup, Search, ReadHead, ScanNil, ScanFound, ScanNext, ScanEnd, Settled
<1>3. /\ pc[g] \in Inside => /\ data[loc[g].key] # NoValue /\ loc[g].value = data[loc[g].key]
                            /\ \E p \in 1..list.length : GetAll(list)[p] = loc[g].key
  <2> SUFFICES ASSUME pc[g] \in Inside
               PROVE  /\ data[loc[g].key] # NoValue /\ loc[g].value = data[loc[g].key]
                      /\ \E p \in 1..list.length : GetAll(list)[p] = loc[g].key
    OBVIOUS
  <2>1. data[loc[g].key] # NoValue /\ loc[g].value = data[loc[g].key] /\ loc[g].key \in Key
    BY OneFacts DEF OneInv, Sees
  <2>2. loc[g].key \in Stored
    BY <2>1 DEF Stored
  <2> QED
    BY <1>0, <2>1, <2>2 DEF Sound, Lists
<1>4. ASSUME NEW k \in Key, CallGet(g, k)
      PROVE  OneInv(g)' /\ ret'[g].value = ret[g].value
  <2>1. pc'[g] = "rlock" /\ ret' \in [Getter -> Returned] /\ ret'[g].value = ret[g].value
    BY <1>0, <1>4 DEF CallGet, Returned
  <2> QED
    BY <1>1, <2>1 DEF OneInv, Sees, Scans, Found
<1>5. ASSUME GetLookup(g)
      PROVE  OneInv(g)' /\ ret'[g].value = ret[g].value
  <2>1. /\ pc'[g] = "head" /\ UNCHANGED ret /\ loc'[g].key = loc[g].key
        /\ loc'[g].value = data[loc[g].key] /\ data[loc[g].key] # NoValue
    BY <1>0, <1>5 DEF GetLookup, LocalsType
  <2> QED
    BY <1>0, <1>1, <1>2, <2>1 DEF OneInv, Sees, Scans, Found
<1>6. ASSUME ReadHead(g)
      PROVE  OneInv(g)' /\ ret'[g].value = ret[g].value
  <2>1. list.length # 0
    BY <1>0, <1>3, <1>6 DEF ReadHead
  <2>2. /\ pc'[g] = "scan" /\ UNCHANGED ret /\ loc'[g].elem = list.head /\ loc'[g].i = 0
        /\ loc'[g].key = loc[g].key /\ loc'[g].value = loc[g].value /\ pc[g] = "head"
    BY <1>0, <1>6, <2>1 DEF ReadHead, LocalsType
  <2>3. list.head = NodeAt(list, 0)
    BY NodeAtSteps
  <2> QED
    BY <1>0, <1>1, <1>2, <1>3, <2>2, <2>3 DEF OneInv, Sees, Scans, Found
<1>7. ~ScanNil(g)
  <2> SUFFICES ASSUME ScanNil(g) PROVE FALSE
    OBVIOUS
  <2>1. loc[g].i \in 0..(list.length - 1) /\ loc[g].elem = NodeAt(list, loc[g].i) /\ loc[g].elem = Nil
    BY <1>0 DEF ScanNil, Scanning, OneInv, Scans
  <2> QED
    BY <1>0, <2>1, SearchFacts
<1>8. ~ScanEnd(g)
  <2> SUFFICES ASSUME ScanEnd(g) PROVE FALSE
    OBVIOUS
  <2>1. pc[g] = "scan" /\ loc[g].i = list.length /\ \A j \in 1..loc[g].i : GetAll(list)[j] # loc[g].key
    BY <1>0 DEF ScanEnd, OneInv, Scans
  <2> QED
    BY <1>3, <2>1
<1>9. ASSUME ScanFound(g)
      PROVE  OneInv(g)' /\ ret'[g].value = ret[g].value
  <2>1. /\ pc'[g] = "move" /\ UNCHANGED <<ret, loc>> /\ pc[g] = "scan"
        /\ loc[g].i \in 0..(list.length - 1) /\ list.value[loc[g].elem] = loc[g].key
        /\ loc[g].elem = NodeAt(list, loc[g].i)
    BY <1>0, <1>9 DEF ScanFound, Scanning, OneInv, Scans
  <2>2. GetAll(list)[loc[g].i + 1] = loc[g].key
    BY <1>0, <2>1, SearchFacts
  <2> QED
    BY <1>0, <1>1, <1>2, <1>3, <2>1, <2>2 DEF OneInv, Sees, Scans, Found
<1>10. ASSUME ScanNext(g)
       PROVE  OneInv(g)' /\ ret'[g].value = ret[g].value
  <2> DEFINE i == loc[g].i
  <2>1. /\ pc'[g] = "scan" /\ UNCHANGED <<ret, pc>> /\ pc[g] = "scan"
        /\ i \in 0..(list.length - 1) /\ list.value[loc[g].elem] # loc[g].key
        /\ loc[g].elem = NodeAt(list, i) /\ \A j \in 1..i : GetAll(list)[j] # loc[g].key
        /\ loc'[g].i = i + 1 /\ loc'[g].elem = list.next[loc[g].elem]
        /\ loc'[g].key = loc[g].key /\ loc'[g].value = loc[g].value
    BY <1>0, <1>10 DEF ScanNext, Scanning, OneInv, Scans, LocalsType
  <2> HIDE DEF i
  <2>2. GetAll(list)[i + 1] # loc[g].key /\ loc'[g].elem = NodeAt(list, i + 1)
    BY <1>0, <2>1, SearchFacts
  <2>3. i + 1 <= list.length /\ \A j \in 1..(i + 1) : GetAll(list)[j] # loc[g].key
    BY <1>0, <2>1, <2>2
  <2>4. Scans(g)'
    BY <1>2, <2>1, <2>2, <2>3 DEF Scans
  <2> QED
    BY <1>0, <1>1, <1>2, <1>3, <2>1, <2>4 DEF OneInv, Sees, Found
<1>11. OneInv(g)' /\ ret'[g].value = ret[g].value
  BY <1>4, <1>5, <1>6, <1>7, <1>8, <1>9, <1>10 DEF Search
<1> QED
  BY <1>0, <1>2, <1>11, SeenAlike

\* So are the first two stores of MoveToFirst.
LEMMA OneMoves ==
  ASSUME NEW g, Getter = {g}, OneInv(g), MoveHead(g) \/ MoveLink(g)
  PROVE  OneInv(g)' /\ UNCHANGED Atomic!lruVars
<1>1. Inv' /\ Settled' = Settled
  BY OneFacts, MoveHeadStep, MoveLinkStep, SMTT(30) DEF OneInv
<1>2. /\ UNCHANGED <<ret, data>> /\ pc[g] \in {"move", "link"} /\ pc'[g] \in {"link", "unlink"}
      /\ loc'[g].i = loc[g].i /\ loc'[g].key = loc[g].key /\ loc'[g].value = loc[g].value
  <2>1. /\ g \in Getter \cup Setter /\ loc[g] \in LocalsType /\ loc \in [Getter -> LocalsType]
        /\ pc \in [Getter \cup Setter -> GetPlace \cup SetPlace] /\ g \in Getter
    BY OneFacts
  <2>2. CASE MoveHead(g)
    <3>1. PICK a, b, c, d : loc' = [loc EXCEPT ![g].prev = a, ![g].node = b, ![g].after = c, ![g].first = d]
      BY <2>2, Zenon DEF MoveHead
    <3>2. pc[g] = "move" /\ pc' = [pc EXCEPT ![g] = "link"] /\ UNCHANGED <<data, ret>>
      BY <2>2, Zenon DEF MoveHead
    <3>3. pc'[g] = "link"
      BY <2>1, <3>2
    <3> DEFINE r == loc[g]
               new == [r EXCEPT !.prev = a, !.node = b, !.after = c, !.first = d]
    <3>4. loc'[g] = new
      BY <2>1, <3>1, SMTT(30)
    <3>5. DOMAIN r = {"key", "value", "elem", "i", "prev", "node", "after", "first"}
      BY <2>1 DEF LocalsType
    <3> HIDE DEF r
    <3>6. new.i = r.i /\ new.key = r.key /\ new.value = r.value
      BY <3>5
    <3> QED
      BY <3>2, <3>3, <3>4, <3>6 DEF r
  <2>3. CASE MoveLink(g)
    BY <2>1, <2>3, SMTT(30) DEF MoveLink, LocalsType
  <2> QED
    BY <2>2, <2>3
<1>3. OneInv(g)'
  BY <1>1, <1>2 DEF OneInv, Sees, Scans, Found, Inside
<1> QED
  BY <1>1, <1>2, <1>3, SeenAlike

\* The step Get returns with is a hit or a miss of AbstractLru.
LEMMA OneReturns ==
  ASSUME NEW g, Getter = {g}, OneInv(g), GetMiss(g) \/ MoveNothing(g) \/ MoveUnlink(g)
  PROVE  OneInv(g)' /\ \E k \in Key : Atomic!GetHit(k) \/ Atomic!GetMiss(k)
<1> DEFINE k == loc[g].key
           q == GetAll(Settled)
           i == loc[g].i
<1>0. /\ g \in Getter /\ k \in Key /\ i \in Nat /\ ret[g] \in Returned /\ Sound(Settled) /\ ret \in [Getter -> Returned]
      /\ pc \in [Getter \cup Setter -> GetPlace \cup SetPlace] /\ list.length \in Nat
      /\ (CHOOSE x \in Getter : TRUE) = g /\ data \in [Key -> Value \cup {NoValue}]
  BY OneFacts DEF OneInv, GetMiss, MoveNothing, MoveUnlink
<1>1. Inv'
  BY <1>0, GetterStep, MoveUnlinkStep DEF GetterQuiet, OneInv
<1>2. UNCHANGED data /\ pc'[g] = "idle"
  BY <1>0 DEF GetMiss, MoveNothing, MoveUnlink, Leave
<1>3. ASSUME GetMiss(g) PROVE OneInv(g)' /\ Atomic!GetMiss(k)
  <2>1. data[k] = NoValue /\ ret' = [ret EXCEPT ![g] = [status |-> "miss", value |-> NoValue]]
    BY <1>3 DEF GetMiss, Leave
  <2>a. mu = NoOne /\ UNCHANGED <<mu, list>>
    BY <1>3, OneFacts DEF GetMiss, Holding
  <2>b. Settled' = Settled
    BY <2>a DEF Settled
  <2>2. ret' \in [Getter -> Returned] /\ ret'[g].value = NoValue
    BY <1>0, <2>1 DEF Returned
  <2>3. OneInv(g)'
    BY <1>1, <1>2, <2>2 DEF OneInv, Sees, Scans, Found, Inside
  <2> QED
    BY <1>0, <1>2, <2>1, <2>b, <2>2, <2>3 DEF Atomic!GetMiss
<1>4. ASSUME MoveNothing(g) \/ MoveUnlink(g) PROVE OneInv(g)' /\ Atomic!GetHit(k)
  <2>1. /\ pc[g] \in {"move", "unlink"} /\ ret' = [ret EXCEPT ![g] = [status |-> "hit", value |-> loc[g].value]]
    BY <1>4 DEF MoveNothing, MoveUnlink, Leave
  <2>2. data[k] # NoValue /\ loc[g].value = data[k] /\ q[i + 1] = k /\ data[k] \in Value \cup {NoValue}
    BY <1>0, <2>1 DEF OneInv, Sees, Found, Inside
  <2>3. ret' \in [Getter -> Returned] /\ ret'[g].value = data[k]
    BY <1>0, <2>1, <2>2 DEF Returned
  <2>4. OneInv(g)'
    BY <1>1, <1>2, <2>3 DEF OneInv, Sees, Scans, Found, Inside
  <2>5. /\ i + 1 \in 1..Settled.length /\ Settled.length \in Nat /\ Len(q) = Settled.length
        /\ Lists(q, Settled.length, Stored)
    <3>1. i < list.length
      BY <1>0, <2>1 DEF OneInv, Inv, Control, InRange
    <3>2. Settled.length = list.length
      BY DEF Settled, OneInv, Inv, Control, Types, ListOf
    <3>3. Len(q) = Settled.length /\ Lists(q, Settled.length, Stored)
      BY <1>0, ValuesAreSeq DEF Sound
    <3> QED
      BY <1>0, <3>1, <3>2, <3>3
  <2> HIDE DEF q, i
  <2>6. Atomic!Position(q, k) = i + 1
    BY <2>2, <2>5, PositionIs
  <2>7. GetAll(Settled') = Atomic!ToFront(q, i + 1)
    <3>1. CASE MoveUnlink(g)
      BY <1>0, <3>1, MoveUnlinkStep DEF OneInv, q, i
    <3>2. CASE MoveNothing(g)
      <4>1. i = 0 /\ Settled' = Settled
        BY <3>2 DEF MoveNothing, Settled, i
      <4>2. q = [j \in 1..Len(q) |-> q[j]]
        BY <2>5 DEF q, GetAll
      <4>3. Atomic!ToFront(q, i + 1) = q
        BY <2>5, <4>1, <4>2 DEF Atomic!ToFront
      <4> QED
        BY <4>1, <4>3 DEF q
    <3> QED
      BY <1>4, <3>1, <3>2
  <2> QED
    BY <1>0, <1>2, <2>2, <2>3, <2>4, <2>6, <2>7 DEF Atomic!GetHit, q
<1> QED
  BY <1>0, <1>3, <1>4

\* The body of Set is its Set, and the waiting for the lock a stutter.
LEMMA OneSets ==
  ASSUME NEW g, Getter = {g}, OneInv(g), NEW s \in Setter,
         \/ \E k \in Key, v \in Value : CallSet(s, k, v)
         \/ SetAnnounce(s) \/ SetBody(s)
  PROVE  OneInv(g)' /\ [Atomic!Next]_(Atomic!lruVars)
<1>0. /\ g \in Getter /\ g # s /\ list \in ListOf(Entry) /\ (CHOOSE x \in Getter : TRUE) = g
      /\ pc \in [Getter \cup Setter -> GetPlace \cup SetPlace] /\ s \in Getter \cup Setter
      /\ data \in [Key -> Value \cup {NoValue}] /\ pc[s] \in SetPlace
      /\ pc[s] # "idle" => arg[s].key \in Key /\ arg[s].value \in Value
  BY OneFacts, CacheAssumption DEF OneInv, Inv, Control, Types, Calls
<1>1. Inv'
  BY SetterStep DEF OneInv
<1>2. pc'[g] = pc[g] /\ UNCHANGED <<loc, ret>>
  BY <1>0 DEF CallSet, SetAnnounce, SetBody
<1>3. CASE (\E k \in Key, v \in Value : CallSet(s, k, v)) \/ SetAnnounce(s)
  <2>1. UNCHANGED <<list, data, mu, loc>>
    BY <1>3 DEF CallSet, SetAnnounce
  <2>2. Settled' = Settled
    BY <2>1 DEF Settled
  <2>3. OneInv(g)'
    BY <1>1, <1>2, <2>1, <2>2 DEF OneInv, Sees, Scans, Found
  <2> QED
    BY <1>2, <2>1, <2>2, <2>3, SeenAlike
<1>4. CASE SetBody(s)
  <2> DEFINE k == arg[s].key
             v == arg[s].value
             new == Stores(k, v)
             keys == Atomic!Renewed(GetAll(list), k)
  <2>1. readers = {} /\ k \in Key /\ v \in Value /\ pc[g] \notin Inside
    BY <1>0, <1>4 DEF SetBody, OneInv, Inv, Control, Locks
  <2>2. mu = NoOne /\ mu' = mu /\ Settled = list /\ Sound(list) /\ Settled' = list'
    <3>1. mu = NoOne
      BY <2>1, OneFacts DEF Holding, Inside
    <3> QED
      BY <1>4, <3>1 DEF SetBody, Settled, OneInv, Inv
  <2>3. OneInv(g)'
    BY <1>1, <1>2, <2>1 DEF OneInv, Sees, Scans, Found, Inside
  <2>4. list' = Collect(new.list) /\ data' = new.data
    BY <1>4 DEF SetBody
  <2>5. new.list \in ListOf(Entry) /\ Whole(new.list)
    BY <1>0, <2>1, <2>2, StoresFacts
  <2>6. /\ Len(keys) \in Nat
        /\ IF Len(keys) > Cap
           THEN /\ GetAll(new.list) = Atomic!DropLast(keys)
                /\ new.data = [data EXCEPT ![k] = v, ![keys[Len(keys)]] = NoValue]
           ELSE GetAll(new.list) = keys /\ new.data = [data EXCEPT ![k] = v]
    BY <1>0, <2>1, <2>2, StoresIs
  <2> HIDE DEF new, keys, k, v
  <2>7. GetAll(Settled') = GetAll(new.list)
    <3>1. NoValue \in Entry
      BY DEF Entry
    <3> QED
      BY <2>2, <2>4, <2>5, <3>1, CollectFacts
  <2>8. CASE Len(keys) > Cap
    <3>1. Atomic!SetEvicts(k, v)
      BY <1>0, <1>2, <2>2, <2>4, <2>6, <2>7, <2>8 DEF Atomic!SetEvicts, keys
    <3> QED
      BY <2>1, <2>3, <3>1 DEF Atomic!Next
  <2>9. CASE ~(Len(keys) > Cap)
    <3>1. Len(keys) <= Cap
      BY <2>6, <2>9, CacheAssumption
    <3>2. Atomic!SetFits(k, v)
      BY <1>0, <1>2, <2>2, <2>4, <2>6, <2>7, <2>9, <3>1 DEF Atomic!SetFits, keys
    <3> QED
      BY <2>1, <2>3, <3>2 DEF Atomic!Next
  <2> QED
    BY <2>8, <2>9
<1> QED
  BY <1>3, <1>4

\* Every step of the cache is a step of AbstractLru or a stutter.
LEMMA OneSteps ==
  ASSUME NEW g, Getter = {g}, OneInv(g), [Next]_vars
  PROVE  OneInv(g)' /\ [Atomic!Next]_(Atomic!lruVars)
<1>1. CASE UNCHANGED vars
  <2>1. Settled' = Settled /\ UNCHANGED <<pc, loc, list, data, ret>>
    BY <1>1 DEF vars, Settled
  <2>2. Control'
    BY <1>1 DEF vars, OneInv, Inv, Control, Types, Calls, Locks, InRange
  <2>3. Inv'
    BY <1>1, <2>2, QuietStep DEF vars, Inv, OneInv
  <2>4. OneInv(g)'
    BY <2>1, <2>3 DEF OneInv, Sees, Scans, Found
  <2> QED
    BY <2>1, <2>4, SeenAlike
<1>2. ASSUME NEW k \in Key, CallGet(g, k) PROVE OneInv(g)' /\ UNCHANGED Atomic!lruVars
  BY <1>2, OneSearches
<1>3. ASSUME GetMiss(g) \/ GetLookup(g) \/ Search(g) \/ Move(g)
      PROVE  OneInv(g)' /\ [Atomic!Next]_(Atomic!lruVars)
  BY <1>3, OneSearches, OneMoves, OneReturns DEF Move, Atomic!Next
<1>4. ASSUME NEW s \in Setter, \/ \E k \in Key, v \in Value : CallSet(s, k, v)
                               \/ SetAnnounce(s) \/ SetBody(s)
      PROVE  OneInv(g)' /\ [Atomic!Next]_(Atomic!lruVars)
  BY <1>4, OneSets
<1> QED
  BY <1>1, <1>2, <1>3, <1>4 DEF Next

\* The empty cache is the empty abstract one.
LEMMA OneStarts ==
  ASSUME NEW g, Getter = {g}, Init
  PROVE  OneInv(g) /\ Atomic!Init
<1>1. Inv
  BY InitInv
<1>2. ret \in [Getter -> Returned] /\ pc[g] = "idle" /\ ret[g].value = NoValue
  BY DEF Init, Returned
<1>3. OneInv(g)
  BY <1>1, <1>2 DEF OneInv, Sees, Scans, Found, Inside
<1>4. Settled = list /\ GetAll(list) = <<>>
  BY DEF Init, Settled, NewLinkedList, GetAll
<1>5. (CHOOSE x \in Getter : TRUE) = g
  OBVIOUS
<1> QED
  BY <1>2, <1>3, <1>4, <1>5 DEF Init, Atomic!Init

\* As long as one goroutine calls Get, the cache of in_memory.go, with its
\* two locks and its pointers, is an atomic LRU cache, however many
\* goroutines call Set: each Get and each Set takes effect at one moment, in
\* the order of use, and evicts the key used least recently.
THEOREM OneReaderIsLru ==
  ASSUME NEW CONSTANT g, Getter = {g}
  PROVE  Spec => ImplementsLru
<1>1. Init => OneInv(g) /\ Atomic!Init
  BY OneStarts
<1>2. OneInv(g) /\ [Next]_vars => OneInv(g)' /\ [Atomic!Next]_(Atomic!lruVars)
  BY OneSteps
<1> QED
  BY <1>1, <1>2, PTL DEF Spec, ImplementsLru, Atomic!Spec

\* With one goroutine calling Get and any number calling Set, Get of
\* in_memory.go never returns ErrUnexpectedLinkedListBehaviour and never
\* panics on a nil node.
THEOREM OneReaderFinds ==
  ASSUME NEW CONSTANT g, Getter = {g}
  PROVE  Spec => []StoredKeyIsFound
<1>1. Init => OneInv(g)
  BY OneStarts
<1>2. OneInv(g) /\ [Next]_vars => OneInv(g)'
  BY OneSteps
<1>3. OneInv(g) => StoredKeyIsFound
  BY OneFacts DEF StoredKeyIsFound, Returned
<1> QED
  BY <1>1, <1>2, <1>3, PTL DEF Spec
=============================================================================
