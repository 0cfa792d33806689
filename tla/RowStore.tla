------------------------------ MODULE RowStore ------------------------------
(***************************************************************************)
(* What nvm.c promises to whoever writes through it: memory that takes a   *)
(* run of cells at any place, and a flash of rows that never holds a cell  *)
(* nobody wrote there and holds everything written once it is flushed.     *)
(***************************************************************************)
EXTENDS Integers

CONSTANTS
    Cells,       \* the addresses
    RowOf(_),    \* the flash row of an address
    Contents     \* what a cell can hold

VARIABLES
    memory,      \* what has been written
    flash        \* what would survive a reset

vars == <<memory, flash>>

Init == memory = flash

\* Some cells are written; a row of the flash may be brought up to date with the
\* memory as it was or as it is, and always as a whole.
Write ==
    /\ memory' \in [Cells -> Contents]
    /\ \A c \in Cells : \E old \in {flash, memory, memory'} :
         \A d \in Cells : RowOf(d) = RowOf(c) => flash'[d] = old[d]

Flush == memory' = memory /\ flash' = memory

Next == Write \/ Flush

Spec == Init /\ [][Next]_vars
=============================================================================
