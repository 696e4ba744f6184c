---------------------------- MODULE MCInterrupts ----------------------------
(***************************************************************************)
(* An instance of Interrupts for TLC: the timer, the keyboard and a line   *)
(* of the slave without a handler; a fault without and one with a handler. *)
(***************************************************************************)
EXTENDS Interrupts

DivideAndPage == {0, PAGE_FAULT}
=============================================================================
