-------------------------------- MODULE Env --------------------------------
(***************************************************************************)
(* The process table of Tulk: kernel/env/env.c with include/env.h.         *)
(*                                                                         *)
(* A struct Env lives in one of the MAX_ENV_NUM slots of envs[], except    *)
(* the shell's, which init_sched() carves out of the kernel stack.  A slot *)
(* is named by its index and the shell's Env by ShellEnv.  One TLA+        *)
(* function stands for each field of struct Env that the kernel reads.     *)
(* A process is named by its pid; pids are never reused, so a pid also     *)
(* names the stack, and with it the thread of control, of a process.       *)
(***************************************************************************)
EXTENDS Integers, FiniteSets

CONSTANTS
    MAX_ENV_NUM,    \* length of envs[], env_map[] and free_env_stack[]
    MAX_STACKS      \* how many 16-page stacks the physical memory holds

ASSUME EnvAssumption == MAX_ENV_NUM \in Nat \ {0} /\ MAX_STACKS \in Nat

NULL == -1
Pid == 0 .. MAX_ENV_NUM - 1
Slot == 0 .. MAX_ENV_NUM - 1
ShellEnv == MAX_ENV_NUM
Envs == Slot \cup {ShellEnv}
EnvPtr == Envs \cup {NULL}
Status == {"zombie", "runnable", "stopped", "blocked"}

VARIABLES
    env_map,              \* pid -> the Env of that process, or NULL
    free_env_stack,       \* the array behind the stack of free slots
    free_env_stack_top,   \* number of free slots on that stack
    env_counter,          \* the next pid
    next_env,             \* the ring the scheduler follows, one field per Env
    env_id,               \* the pid kept in each Env
    env_status,
    bg,                   \* TRUE: a background process
    context,              \* the thread whose registers the Env holds, or NULL
    cur_env,              \* the Env the scheduler believes is running
    has_front_env,        \* TRUE: fg handed the console to a process
    stacks                \* pids whose 16 stack pages are mapped

envVars == <<env_map, free_env_stack, free_env_stack_top, env_counter,
             next_env, env_id, env_status, bg, context, cur_env,
             has_front_env, stacks>>

FreeSlots == {free_env_stack[i] : i \in 0 .. free_env_stack_top - 1}

----------------------------------------------------------------------------
\* init_env() fills the free stack, then init_sched() makes the running
\* thread the shell, process 0, alone in the ring.
init_env ==
    /\ free_env_stack = [i \in Slot |-> i]
    /\ free_env_stack_top = MAX_ENV_NUM
    /\ stacks = {}

init_sched ==
    /\ cur_env = ShellEnv
    /\ next_env = [e \in Envs |-> IF e = ShellEnv THEN ShellEnv ELSE NULL]
    /\ env_id = [e \in Envs |-> 0]
    /\ env_map = [p \in Pid |-> IF p = 0 THEN ShellEnv ELSE NULL]
    /\ env_counter = 1
    /\ env_status = [e \in Envs |-> IF e = ShellEnv THEN "runnable"
                                    ELSE "zombie"]
    /\ bg = [e \in Envs |-> FALSE]
    /\ context = [e \in Envs |-> NULL]
    /\ has_front_env = FALSE

----------------------------------------------------------------------------
\* e = free_env_stack[--free_env_stack_top], as the compiler splits it.
TopFree_below == free_env_stack[free_env_stack_top - 1]   \* mutant: one too low
TopFree == free_env_stack[free_env_stack_top]
env_alloc(top) == free_env_stack_top' = top - 1

\* env_free(): page_remove() panics on a stack page that is not mapped, after
\* the map entry is cleared; otherwise the Env is zeroed and pushed.
Unmap_forgets(e) == UNCHANGED env_map   \* mutant: the pid still maps
Unmap(e) == env_map' = [env_map EXCEPT ![env_id[e]] = NULL]

env_free(e) ==
    /\ env_id[e] \in stacks
    /\ Unmap(e)
    /\ stacks' = stacks \ {env_id[e]}
    /\ next_env' = [next_env EXCEPT ![e] = NULL]
    /\ env_id' = [env_id EXCEPT ![e] = 0]
    /\ env_status' = [env_status EXCEPT ![e] = "zombie"]
    /\ bg' = [bg EXCEPT ![e] = FALSE]
    /\ context' = [context EXCEPT ![e] = NULL]
    /\ free_env_stack' = [free_env_stack EXCEPT ![free_env_stack_top] = e]
    /\ free_env_stack_top' = free_env_stack_top + 1

\* Lines 116-123 of load_icode(): the new process becomes known by its pid.
Register(e, background) ==
    /\ env_id' = [env_id EXCEPT ![e] = env_counter]
    /\ env_map' = [env_map EXCEPT ![env_counter] = e]
    /\ env_counter' = env_counter + 1
    /\ env_status' = [env_status EXCEPT ![e] = "runnable"]
    /\ bg' = [bg EXCEPT ![e] = background]

\* Lines 135-141 of load_icode(): 16 stack pages, then the initial context.
MapStack_blank(e) ==   \* mutant: no initial context
    stacks' = stacks \cup {env_id[e]} /\ UNCHANGED context
MapStack(e) ==
    /\ stacks' = stacks \cup {env_id[e]}
    /\ context' = [context EXCEPT ![e] = env_id[e]]

Link(e, n) == next_env' = [next_env EXCEPT ![e] = n]
SetStatus(e, s) == env_status' = [env_status EXCEPT ![e] = s]
SetBg(e, b) == bg' = [bg EXCEPT ![e] = b]
=============================================================================
