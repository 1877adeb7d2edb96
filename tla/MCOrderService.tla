-------------------------- MODULE MCOrderService --------------------------
(* OrderService on small sets of orders and concurrent calls. *)
EXTENDS OrderService
=============================================================================
