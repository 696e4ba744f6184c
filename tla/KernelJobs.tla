----------------------------- MODULE KernelJobs -----------------------------
(***************************************************************************)
(* Kernel, without the fg command, implements JobControl: a pid is known   *)
(* by its place in the pid map, its life by the Env found there.           *)
(***************************************************************************)
EXTENDS Kernel

Life(p) ==
    IF p >= env_counter THEN "unborn"
    ELSE IF env_map[p] = NULL THEN "gone"
    ELSE env_status[env_map[p]]

Control == INSTANCE JobControl WITH
    Pids <- Pid, Shell <- 0,
    st <- [p \in Pid |-> Life(p)], cur <- env_id[cur_env]

\* Wherever timer interrupts fall in a launch, a command or an exit, the pid
\* map, the slots and the ring together show the user one process per pid,
\* whose life goes as JobControl says.
JobsControlled == Control!Spec
=============================================================================
