------------------------------ MODULE MCKernel ------------------------------
(***************************************************************************)
(* Instances of Kernel for TLC: the command lines a user types.            *)
(***************************************************************************)
EXTENDS KernelJobs

Cmd(cmd, pid) == [cmd |-> cmd, pid |-> pid, bg |-> FALSE]
Run(background) == [cmd |-> "run", pid |-> NULL, bg |-> background]
Unknown == Cmd("unknown", NULL)

\* Everything but fg: processes run in the background, or in the foreground
\* as far as their own bg flag says.
JobLines == {Run(TRUE), Run(FALSE), Cmd("jobs", NULL), Cmd("stop", 1),
             Cmd("bring", 1), Cmd("kill", 1), Cmd("kill", 2), Unknown}

\* Two processes and every command that has a target.
FgLines == {Run(TRUE), Cmd("fg", 1), Cmd("fg", 2), Cmd("stop", 1),
            Cmd("bring", 1), Cmd("kill", 1)}

\* The few lines that show one thing.
RunFg == {Run(TRUE), Cmd("fg", 1)}
RunKill == {Run(TRUE), Cmd("kill", 1)}
=============================================================================
