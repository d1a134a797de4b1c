----------------------------- MODULE MCSataDevice -----------------------------
(* Buffers of up to three pages, in a row, in reverse, and apart. *)
EXTENDS SataDevice

SomeMappings ==
  {[v \in 0..2 |-> v + 1], [v \in 0..2 |-> 2 - v],
   [v \in 0..2 |-> CASE v = 0 -> 3 [] v = 1 -> 4 [] OTHER -> 1]}

===============================================================================
