---------------------------- MODULE MCLinkedList ----------------------------
(* Lists of up to four values over two values, so that equal values meet.  *)
EXTENDS LinkedList

MCNode == 1..5
=============================================================================
