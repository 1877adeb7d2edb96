----------------------------- MODULE AbstractLru -----------------------------
(***************************************************************************)
(* What the cache of pkg/pkgports/adapters/cache/lru/in_memory.go promises *)
(* its callers: Get and Set are atomic, and the keys are kept in order of  *)
(* use, most recent first.  The list of keys is a sequence here; LruCache  *)
(* has its nodes, its two locks and its goroutines.  Sequences are built   *)
(* position by position, the form the provers take best.                   *)
(***************************************************************************)
EXTENDS Integers, Sequences

CONSTANTS Key,      \* the keys callers use
          Value,    \* the values they store
          NoValue,  \* the zero Value, returned on a miss
          Cap       \* the cap field: any int, it comes from the environment

ASSUME CapAssumption == Cap \in Int
ASSUME NoValueAssumption == NoValue \notin Value

VARIABLES order,    \* keysList, most recently used key first
          data,     \* the map; NoValue where it has no entry
          got       \* the value the last Get returned

lruVars == <<order, data, got>>

\* The keys the map has an entry for.
Stored == {k \in Key : data[k] # NoValue}

\* GetIndex, counted from 1; 0 when k is not in s.
Position(s, k) ==
  IF \E i \in 1..Len(s) : s[i] = k THEN CHOOSE i \in 1..Len(s) : s[i] = k ELSE 0

\* MoveToFirst of the key at position i.
ToFront(s, i) ==
  [j \in 1..Len(s) |-> IF j = 1 THEN s[i] ELSE IF j <= i THEN s[j - 1] ELSE s[j]]

\* RemoveAt of the key at position i.
Without(s, i) ==
  [j \in 1..(Len(s) - 1) |-> IF j < i THEN s[j] ELSE s[j + 1]]

\* Insert(k, 0).
Push(s, k) == [j \in 1..(Len(s) + 1) |-> IF j = 1 THEN k ELSE s[j - 1]]

\* RemoveLast.
DropLast(s) == [j \in 1..(Len(s) - 1) |-> s[j]]
-----------------------------------------------------------------------------
Init ==
  /\ order = <<>>
  /\ data = [k \in Key |-> NoValue]
  /\ got = NoValue

\* Mutant: Get does not move the key.
GetHitStays(k) ==
  /\ data[k] # NoValue
  /\ got' = data[k]
  /\ UNCHANGED <<order, data>>

\* Get of a key the map holds returns its value and makes it the first.
GetHit(k) ==
  /\ data[k] # NoValue
  /\ order' = ToFront(order, Position(order, k))
  /\ got' = data[k]
  /\ UNCHANGED data

GetMiss(k) ==
  /\ data[k] = NoValue
  /\ got' = NoValue
  /\ UNCHANGED <<order, data>>

\* The key list of Set before the check for room: an old entry is removed,
\* the key goes to the front.
Renewed(s, k) ==
  LET i == Position(s, k)
  IN  Push(IF i = 0 THEN s ELSE Without(s, i), k)

\* Set ends here when the list is not longer than cap ...
SetFits(k, v) ==
  /\ Len(Renewed(order, k)) <= Cap
  /\ order' = Renewed(order, k)
  /\ data' = [data EXCEPT ![k] = v]
  /\ UNCHANGED got

\* Mutant: the evicted key stays in the map.
SetEvictsListOnly(k, v) ==
  LET keys == Renewed(order, k)
  IN  /\ Len(keys) > Cap
      /\ order' = DropLast(keys)
      /\ data' = [data EXCEPT ![k] = v]
      /\ UNCHANGED got

\* ... and here, dropping the last key and its entry, when it is.  With no
\* room at all (cap <= 0) the key just set is the one dropped.
SetEvicts(k, v) ==
  LET keys == Renewed(order, k)
      last == keys[Len(keys)]
  IN  /\ Len(keys) > Cap
      /\ order' = DropLast(keys)
      /\ data' = [data EXCEPT ![k] = v, ![last] = NoValue]
      /\ UNCHANGED got

Next ==
  \/ \E k \in Key : GetHit(k) \/ GetMiss(k)
  \/ \E k \in Key, v \in Value : SetFits(k, v) \/ SetEvicts(k, v)

Spec == Init /\ [][Next]_lruVars
-----------------------------------------------------------------------------
TypeOK ==
  /\ order \in Seq(Key)
  /\ data \in [Key -> Value \cup {NoValue}]
  /\ got \in Value \cup {NoValue}

NoDuplicates == \A i, j \in 1..Len(order) : order[i] = order[j] => i = j

SameKeys == Stored = {order[i] : i \in 1..Len(order)}

Room == IF Cap > 0 THEN Cap ELSE 0

\* CacheConsistent: the map and the list of keys, which Set and Get maintain
\* separately, always agree; no key is listed twice; and there are at most
\* cap of them, whatever int cap is.
CacheConsistent == NoDuplicates /\ SameKeys /\ Len(order) <= Room
=============================================================================
