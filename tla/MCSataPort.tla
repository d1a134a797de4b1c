----------------------------- MODULE MCSataPort ------------------------------
(* Instances of SataPort for TLC: one slot more than commands an operation   *)
(* has under way, or as many.                                                *)
EXTENDS SataPort

\* Every operation, the reads alone.
AllOperations == {"read", "write", "write many"}
ReadsOnly == {"read"}
==============================================================================
