---------------------------- MODULE MCLifecycle ----------------------------
(* The runs of Lifecycle differ in their bounds only.                      *)
EXTENDS Lifecycle
=============================================================================
