----------------------------- MODULE MCLruCache -----------------------------
(* One key more than the cache holds where evictions are to meet Gets.     *)
EXTENDS LruCache, TLC

MCNode == 1..4

Symmetric == Permutations(Key) \cup Permutations(Getter)
=============================================================================
