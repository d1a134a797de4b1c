------------------------------ MODULE MCMessages ------------------------------
(* Messages for TLC, with the four methods of Main::initProcess. *)
EXTENDS Messages

MCMethods == <<<<"number", "number">>, <<"string">>, <<"number">>, <<"string">>>>
MCHalting == {4}
MCNameSize == <<4, 9, 9, 6>>
MCSourceFrame == (0 :> 7) @@ (1 :> 3) @@ (2 :> 4) @@ (3 :> 9)
MCSourcePages == {0, 1, 2}
MCBufferSizes == {12, 31, 128, 191, 316}
MCFrames == 1..3
MCChildSizes == {[size |-> 1, offset |-> 0], [size |-> 2, offset |-> 0], [size |-> 2, offset |-> 1]}
===============================================================================
