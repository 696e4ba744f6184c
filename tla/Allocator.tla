------------------------------ MODULE Allocator ------------------------------
(***************************************************************************)
(* What malloc() and free() promise their callers, whatever the heap looks *)
(* like inside: a block handed out overlaps no block still in use, and     *)
(* stays in use until its user frees it.  A free(), or a malloc() that     *)
(* finds no memory, may mislead the heap; then it promises nothing more.   *)
(***************************************************************************)
EXTENDS Integers

CONSTANTS
    Sizes,    \* the lengths asked for
    Addr      \* where blocks may lie

VARIABLES
    live,     \* the blocks in use, as records [at, len]
    misled    \* the heap has lost its way

Bytes(b) == b.at .. b.at + b.len - 1
Disjoint(b, c) == Bytes(b) \cap Bytes(c) = {}

Init == live = {} /\ misled = FALSE

Malloc ==
    \E at \in Addr, len \in Sizes :
        LET b == [at |-> at, len |-> len]
        IN  /\ \A c \in live : Disjoint(b, c)
            /\ live' = live \cup {b}
            /\ UNCHANGED misled

Free ==
    /\ \E b \in live : live' = live \ {b}
    /\ misled' \in {misled, TRUE}

OutOfMemory == misled' = TRUE /\ UNCHANGED live

Misled == misled /\ misled'

Spec == Init /\ [][Malloc \/ Free \/ OutOfMemory \/ Misled]_<<live, misled>>
=============================================================================
