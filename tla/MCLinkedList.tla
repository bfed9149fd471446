----------------------------- MODULE MCLinkedList -----------------------------
(* LinkedList for TLC: five items with three keys. *)
EXTENDS LinkedList
=============================================================================
