------------------------------- MODULE Sched -------------------------------
(***************************************************************************)
(* schedule() and switch_to: kernel/env/sched.c and switch_to.s.           *)
(*                                                                         *)
(* schedule() runs in two contexts.  The "irq" activation is entered from  *)
(* the timer interrupt or from a system call and keeps interrupts off.     *)
(* The "shell" activation is the call the fg command makes on the shell's  *)
(* own stack with interrupts ON: an interrupt may come between any two of  *)
(* its statements and start an "irq" activation on top of it.              *)
(***************************************************************************)
EXTENDS Env

VARIABLES
    running,    \* the thread on the CPU: a pid, or NULL once it runs wild
    pc,         \* where each thread is; "hung" is an endless loop
    frame       \* the activations of schedule(): position and locals

schedVars == <<running, pc, frame>>

Frames == {"irq", "shell"}
Steps == {"idle", "scan", "unlink", "follow", "reap", "pick", "switch"}
Frame == [at : Steps, tail : EnvPtr, pre : EnvPtr, tmp : EnvPtr]
Idle == [at |-> "idle", tail |-> NULL, pre |-> NULL, tmp |-> NULL]
Active(f) == frame[f].at # "idle"

\* An irq activation runs to its end; the shell's only while nothing is
\* nested on it and the shell's thread has the CPU.
May(f) == f = "shell" => running = 0 /\ ~Active("irq")
At(f, step) == frame[f].at = step /\ May(f)

\* Lines 26-27: the locals at entry.
Entered_late_pre == [at |-> "scan", tail |-> next_env[cur_env],   \* mutant
                     pre |-> next_env[cur_env], tmp |-> NULL]
Entered_at_shell == [at |-> "scan", tail |-> next_env[ShellEnv],   \* mutant
                     pre |-> ShellEnv, tmp |-> NULL]
Entered == [at |-> "scan", tail |-> next_env[cur_env], pre |-> cur_env,
            tmp |-> NULL]
schedule(f) == frame' = [frame EXCEPT ![f] = Entered]
Goto(f, step) == frame' = [frame EXCEPT ![f] = [@ EXCEPT !.at = step]]

\* A page fault or a failed assert prints, which turns interrupts on again,
\* and loops for ever: the thread that ran it never gets any further.
Hang == 
    /\ pc' = [pc EXCEPT ![running] = "hung"]
    /\ frame' = [f \in Frames |-> IF f = "irq" \/ running = 0 THEN Idle
                                  ELSE frame[f]]

----------------------------------------------------------------------------
\* The loop of lines 28-44, looking at the Env in the local tail.
Skipped_zombies(e) ==   \* mutant: a zombie is passed over
    \/ env_status[e] # "runnable"
    \/ env_id[e] = 0 /\ has_front_env
Skipped(e) ==
    \/ env_status[e] \in {"stopped", "blocked"}
    \/ env_status[e] = "runnable" /\ env_id[e] = 0 /\ has_front_env

Scanning(f) == At(f, "scan") /\ frame[f].tail \notin {cur_env, NULL}

ScanNull(f) ==
    /\ At(f, "scan")
    /\ frame[f].tail = NULL
    /\ Hang
    /\ UNCHANGED <<envVars, running>>

\* Line 45: nobody else can run, return to the caller.
ScanEnd(f) ==
    /\ At(f, "scan")
    /\ frame[f].tail = cur_env
    /\ frame' = [frame EXCEPT ![f] = Idle]
    /\ UNCHANGED <<envVars, running, pc>>

ScanSkip(f) ==
    /\ Scanning(f)
    /\ Skipped(frame[f].tail)
    /\ frame' = [frame EXCEPT ![f] = [@ EXCEPT
                    !.pre = frame[f].tail, !.tail = next_env[frame[f].tail]]]
    /\ UNCHANGED <<envVars, running, pc>>

ScanZombie(f) ==
    /\ Scanning(f)
    /\ env_status[frame[f].tail] = "zombie"
    /\ frame' = [frame EXCEPT ![f] = [@ EXCEPT
                    !.tmp = frame[f].tail, !.at = "unlink"]]
    /\ UNCHANGED <<envVars, running, pc>>

ScanFound(f) ==
    /\ Scanning(f)
    /\ env_status[frame[f].tail] = "runnable"
    /\ ~Skipped(frame[f].tail)
    /\ Goto(f, "pick")
    /\ UNCHANGED <<envVars, running, pc>>

\* Lines 37-39: take the zombie out of the ring and free it.
Unlink(f) ==
    /\ At(f, "unlink")
    /\ Link(frame[f].pre, next_env[frame[f].tail])
    /\ Goto(f, "follow")
    /\ UNCHANGED <<env_map, free_env_stack, free_env_stack_top, env_counter,
                   env_id, env_status, bg, context, cur_env, has_front_env,
                   stacks, running, pc>>

Follow(f) ==
    /\ At(f, "follow")
    /\ frame' = [frame EXCEPT ![f] = [@ EXCEPT
                    !.tail = next_env[frame[f].pre], !.at = "reap"]]
    /\ UNCHANGED <<envVars, running, pc>>

Reap(f) ==
    /\ At(f, "reap")
    /\ env_free(frame[f].tmp)
    /\ frame' = [frame EXCEPT ![f] = [@ EXCEPT !.tmp = NULL, !.at = "scan"]]
    /\ UNCHANGED <<env_counter, cur_env, has_front_env, running, pc>>

ReapPanics(f) ==
    /\ At(f, "reap")
    /\ env_id[frame[f].tmp] \notin stacks
    /\ Unmap(frame[f].tmp)
    /\ Hang
    /\ UNCHANGED <<free_env_stack, free_env_stack_top, env_counter, next_env,
                   env_id, env_status, bg, context, cur_env, has_front_env,
                   stacks, running>>

\* Lines 47-49.  The local prev takes the place of pre, no longer used.
Pick_tmp(f) ==   \* mutant: cur_env = tmp
    /\ At(f, "pick")
    /\ cur_env' = frame[f].tmp
    /\ frame' = [frame EXCEPT ![f] = [@ EXCEPT
                    !.pre = cur_env, !.at = "switch"]]
    /\ UNCHANGED <<env_map, free_env_stack, free_env_stack_top, env_counter,
                   next_env, env_id, env_status, bg, context, has_front_env,
                   stacks, running, pc>>
Pick(f) ==
    /\ At(f, "pick")
    /\ cur_env' = frame[f].tail
    /\ frame' = [frame EXCEPT ![f] = [@ EXCEPT
                    !.pre = cur_env, !.at = "switch"]]
    /\ UNCHANGED <<env_map, free_env_stack, free_env_stack_top, env_counter,
                   next_env, env_id, env_status, bg, context, has_front_env,
                   stacks, running, pc>>

\* switch_to: save the CPU's thread in prev, resume the one cur_env holds.
\* Registers are good for one resumption, after which the stack they point
\* into has moved on: a context that was used is NULL, and loading it sends
\* the CPU wild.
Switch(f) ==
    LET prev == frame[f].pre
    IN  /\ At(f, "switch")
        /\ running' = IF cur_env = prev THEN running ELSE context[cur_env]
        /\ context' = [context EXCEPT ![prev] = running, ![cur_env] = NULL]
        /\ frame' = [frame EXCEPT ![f] = Idle]
        /\ UNCHANGED <<env_map, free_env_stack, free_env_stack_top,
                       env_counter, next_env, env_id, env_status, bg, cur_env,
                       has_front_env, stacks, pc>>

Scheduling(f) ==
    \/ ScanNull(f) \/ ScanEnd(f) \/ ScanSkip(f) \/ ScanZombie(f)
    \/ ScanFound(f) \/ Unlink(f) \/ Follow(f) \/ Reap(f) \/ ReapPanics(f)
    \/ Pick(f) \/ Switch(f)
=============================================================================
