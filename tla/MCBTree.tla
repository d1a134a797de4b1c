------------------------------- MODULE MCBTree -------------------------------
(* BTree for TLC: up to three levels with the smallest nodes. *)
EXTENDS BTree

MCKeys == 1..12
===============================================================================
