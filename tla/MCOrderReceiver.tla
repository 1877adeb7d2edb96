-------------------------- MODULE MCOrderReceiver --------------------------
(* OrderReceiver by itself; Lifecycle puts it into the process it runs in. *)
EXTENDS OrderReceiver
=============================================================================
