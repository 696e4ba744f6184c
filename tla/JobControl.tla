----------------------------- MODULE JobControl -----------------------------
(***************************************************************************)
(* What job control promises the user who does without fg: the life of     *)
(* every pid, and who may change it.  Pids are given in order and never    *)
(* again; the shell alone commands, the process that runs alone blocks or  *)
(* exits; only a process that is able to run is run; and only what has     *)
(* exited or been killed, and is not running, disappears.                  *)
(***************************************************************************)
EXTENDS Integers

CONSTANTS
    Pids,      \* 0 .. n; 0 is the shell
    Shell

VARIABLES
    st,        \* pid -> "unborn", a status, or "gone"
    cur        \* the pid that is running

Living(p) == st[p] \notin {"unborn", "gone"}
Become(p, s) == st' = [st EXCEPT ![p] = s]

Init ==
    /\ st = [p \in Pids |-> IF p = Shell THEN "runnable" ELSE "unborn"]
    /\ cur = Shell

Launch(p) ==
    /\ cur = Shell
    /\ st[p] = "unborn"
    /\ \A q \in Pids : q < p => st[q] # "unborn"
    /\ Become(p, "runnable")
    /\ UNCHANGED cur

\* stop, bring and kill: bring also calls a zombie back that is not yet gone.
Command(p, s) ==
    /\ cur = Shell
    /\ Living(p)
    /\ Become(p, s)
    /\ UNCHANGED cur

Suspend(s) ==
    /\ cur # Shell
    /\ st[cur] = "runnable"
    /\ Become(cur, s)
    /\ UNCHANGED cur

Dispatch(p) ==
    /\ st[p] = "runnable"
    /\ cur' = p
    /\ UNCHANGED st

Bury(p) ==
    /\ p # cur
    /\ st[p] = "zombie"
    /\ Become(p, "gone")
    /\ UNCHANGED cur

Next ==
    \/ \E p \in Pids : Launch(p) \/ Dispatch(p) \/ Bury(p)
    \/ \E p \in Pids, s \in {"stopped", "runnable", "zombie"} : Command(p, s)
    \/ \E s \in {"blocked", "zombie"} : Suspend(s)

Spec == Init /\ [][Next]_<<st, cur>>
=============================================================================
