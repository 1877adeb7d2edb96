---------------------------- MODULE MCLruRecency ----------------------------
(* Four keys, two values, a capacity the keys overflow, eight uses.        *)
EXTENDS LruRecency, TLC

KeySymmetry == Permutations(Key)
=============================================================================
