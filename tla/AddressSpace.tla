---------------------------- MODULE AddressSpace ------------------------------
(* What the page tables promise to the code that uses them: a partial function *)
(* from pages to the frame and the rights behind them, in which a page keeps   *)
(* its translation from the step that maps it to the step that unmaps it.      *)
CONSTANTS
  Page,         \* the virtual pages
  Translation,  \* a frame with its rights
  Unmapped      \* the value of a page that has no translation, itself none

VARIABLE space  \* the translation of every page

Init == space = [p \in Page |-> Unmapped]

\* A page that has no translation may be given one.
MayMap(p) == space[p] = Unmapped /\ space'[p] \in Translation

\* A page may lose its translation.
MayUnmap(p) == space[p] # Unmapped /\ space'[p] = Unmapped

\* One call may map some pages and unmap others.
Next == \A p \in Page : MayMap(p) \/ MayUnmap(p) \/ space'[p] = space[p]

Spec == Init /\ [][Next]_space
===============================================================================
