------------------------------ MODULE MCPointers ------------------------------
(* Pointers for TLC. *)
EXTENDS Pointers
CONSTANTS o1, o2, a, b, w
===============================================================================
