------------------------------ MODULE Ownership ------------------------------
(***************************************************************************)
(* What include/features/smart_pointer.h promises to its users: an object  *)
(* lives as long as a shared pointer owns it, and nobody comes to own an   *)
(* object that is gone.                                                    *)
(***************************************************************************)
CONSTANTS Objects, Cells, Null

VARIABLES
  alive,   \* the objects that exist
  owns     \* the object each shared pointer owns, or Null

Owned == {owns[c] : c \in Cells} \ {Null}

Init == alive = {} /\ owns = [c \in Cells |-> Null]

\* A shared pointer takes a new object.
Make(c, o) == /\ o \notin alive
              /\ alive' = alive \cup {o}
              /\ owns' = [owns EXCEPT ![c] = o]
\* Shared pointers are dropped, or come to own what others own.
Change == /\ owns' \in [Cells -> Owned \cup {Null}]
          /\ UNCHANGED alive

\* An object nobody owns goes.
Die(o) == /\ o \in alive \ Owned
          /\ alive' = alive \ {o}
          /\ UNCHANGED owns

Next == \/ \E c \in Cells, o \in Objects : Make(c, o)
        \/ Change
        \/ \E o \in Objects : Die(o)

Spec == Init /\ [][Next]_<<alive, owns>>
===============================================================================
