----------------------------- MODULE LruRecency -----------------------------
(***************************************************************************)
(* AbstractLru with a history of use: a clock that ticks on every Get hit  *)
(* and every Set, and the time each key was last used.  The history says   *)
(* what "least recently used" means without mentioning the list.           *)
(***************************************************************************)
EXTENDS AbstractLru

CONSTANT MaxUses   \* bound: the history stops after so many uses

VARIABLES used,    \* used[k]: when k was last used, 0 if never
          clock    \* the number of uses so far

vars == <<order, data, got, used, clock>>

ASSUME MaxUsesAssumption == MaxUses \in Nat

Use(k) ==
  /\ clock < MaxUses
  /\ clock' = clock + 1
  /\ used' = [used EXCEPT ![k] = clock + 1]

HInit == Init /\ used = [k \in Key |-> 0] /\ clock = 0

\* A miss is no use of the key: Get does not touch the list.
HNext ==
  \/ \E k \in Key : GetHit(k) /\ Use(k)
  \/ \E k \in Key : GetMiss(k) /\ UNCHANGED <<used, clock>>
  \/ \E k \in Key, v \in Value : SetFits(k, v) /\ Use(k)
  \/ \E k \in Key, v \in Value : SetEvicts(k, v) /\ Use(k)

HSpec == HInit /\ [][HNext]_vars
-----------------------------------------------------------------------------
HTypeOK == TypeOK /\ used \in [Key -> Nat] /\ clock \in Nat

\* The list is sorted by time of last use.
SortedByUse == \A i, j \in 1..Len(order) : i < j => used[order[i]] > used[order[j]]

\* LeastRecentlyUsed: the list is in order of use, and every key the cache
\* holds was used more recently than every key it does not hold: what Set
\* evicts (in_memory.go, "remove value if we're out of space") is always the
\* least recently used key, after any sequence of calls.
LeastRecentlyUsed ==
  /\ SortedByUse
  /\ \A k \in Stored, u \in Key \ Stored : used[k] > used[u]

\* What the clock adds so that LeastRecentlyUsed is inductive.
ClockBounds == \A k \in Key : used[k] <= clock /\ (k \in Stored => used[k] > 0)
=============================================================================
