------------------------------- MODULE Kernel -------------------------------
(***************************************************************************)
(* The running kernel: the shell loop of init/entry.c with load_icode(),   *)
(* the system calls of idt/idt.c, the timer and the keyboard, all on top   *)
(* of the scheduler.  One CPU; a step is one C statement (or a few that    *)
(* touch nothing shared), and the timer or the keyboard may interrupt the  *)
(* running thread between two steps whenever interrupts are on.            *)
(***************************************************************************)
EXTENDS Sched

CONSTANTS
    Lines,       \* the command lines a user may type
    MaxLines,    \* bound: how many lines are typed in a behaviour
    Syscalls,    \* the system calls processes make
    CtrlKeys,    \* {"ctrl-B"}, or {} to leave that key alone
    PopAtomic    \* TRUE: no interrupt falls into env_alloc()'s pop

PidCmds == {"fg", "stop", "bring", "kill"}
Cmds == PidCmds \cup {"jobs", "run", "unknown"}
Line == [cmd : Cmds, pid : Pid \cup {NULL}, bg : BOOLEAN]
NoLine == [cmd |-> "none", pid |-> NULL, bg |-> FALSE]

ASSUME KernelAssumption ==
    /\ Lines \subseteq Line
    /\ MaxLines \in Nat
    /\ Syscalls \subseteq {"cputc", "cgetc", "destroy"}
    /\ CtrlKeys \subseteq {"ctrl-B"}
    /\ PopAtomic \in BOOLEAN

VARIABLES
    buffer,     \* the keyboard's one-place buffer: a line, or NoLine
    typed,      \* number of lines typed so far
    runinfo,    \* the line the shell is executing
    reg,        \* the register in which env_alloc() decrements the stack top
    new_env,    \* load_icode()'s new process
    tail        \* the Env load_icode() or listing_all_jobs() has walked to

inputVars == <<buffer, typed>>
shellVars == <<runinfo, reg, new_env, tail>>
vars == <<envVars, schedVars, inputVars, shellVars>>

Popping == {"pop_store", "pop_read"}
Loading == {"register", "map", "link", "walk", "append"}
Fg == {"fg_bg", "fg_front", "fg_sched", "fg_wake"}
InKernel == {"cputc", "cgetc", "cgetc_2", "destroy", "destroyed"}
Label == {"getline", "parsed", "act", "jobs", "alloc", "user", "hung"}
             \cup Popping \cup Loading \cup Fg \cup InKernel

Init ==
    /\ init_env
    /\ init_sched
    /\ running = 0
    /\ pc = [p \in Pid |-> IF p = 0 THEN "getline" ELSE "user"]
    /\ frame = [f \in Frames |-> Idle]
    /\ buffer = NoLine
    /\ typed = 0
    /\ runinfo = NoLine
    /\ reg = 0
    /\ new_env = NULL
    /\ tail = NULL

PcTo(label) == pc' = [pc EXCEPT ![running] = label]

----------------------------------------------------------------------------
\* Interrupts.  Handlers and system calls run with interrupts off.
IntrOn ==
    /\ running # NULL
    /\ ~Active("irq")
    /\ pc[running] \notin InKernel
    /\ PopAtomic => pc[running] \notin Popping

Tick ==
    /\ IntrOn
    /\ schedule("irq")
    /\ UNCHANGED <<envVars, running, pc, inputVars, shellVars>>

\* The keyboard's buffer has one place: what is not read in time is lost.
Key(line) ==
    /\ IntrOn
    /\ typed < MaxLines
    /\ typed' = typed + 1
    /\ buffer' = line
    /\ UNCHANGED <<envVars, schedVars, shellVars>>

\* ctrl-B marks whichever process the interrupt found on the CPU.
CtrlB ==
    /\ "ctrl-B" \in CtrlKeys
    /\ IntrOn
    /\ has_front_env
    /\ SetBg(cur_env, TRUE)
    /\ has_front_env' = FALSE
    /\ UNCHANGED <<env_map, free_env_stack, free_env_stack_top, env_counter,
                   next_env, env_id, env_status, context, cur_env, stacks,
                   schedVars, inputVars, shellVars>>

----------------------------------------------------------------------------
\* System calls.  A label in InKernel is a point of kern_sys_call() where
\* the thread has the CPU with interrupts off.
InCall(label) == ~Active("irq") /\ running # NULL /\ pc[running] = label

Call(s) ==
    /\ IntrOn
    /\ pc[running] = "user"
    /\ PcTo(s)
    /\ UNCHANGED <<envVars, running, frame, inputVars, shellVars>>

\* cur_env->env_status = s; schedule();
Yield(s) ==
    /\ SetStatus(cur_env, s)
    /\ schedule("irq")
    /\ UNCHANGED <<env_map, free_env_stack, free_env_stack_top, env_counter,
                   next_env, env_id, bg, context, cur_env, stacks, running,
                   inputVars, shellVars>>

Cputc ==
    /\ InCall("cputc")
    /\ ~bg[cur_env]
    /\ PcTo("user")
    /\ UNCHANGED <<envVars, running, frame, inputVars, shellVars>>

\* goto make_a_try: the thread comes back to the same label.
CputcBlocks ==
    /\ InCall("cputc")
    /\ bg[cur_env]
    /\ Yield("blocked")
    /\ UNCHANGED <<has_front_env, pc>>

\* The shell polls until it has a line; a process gets what there is.
TakeInput ==
    /\ buffer' = NoLine
    /\ IF running # 0 THEN PcTo("user") /\ UNCHANGED runinfo
       ELSE IF buffer = NoLine THEN PcTo("getline") /\ UNCHANGED runinfo
       ELSE PcTo("parsed") /\ runinfo' = buffer
    /\ UNCHANGED <<envVars, running, frame, typed, reg, new_env, tail>>

Cgetc == InCall("cgetc") /\ ~bg[cur_env] /\ TakeInput

CgetcBlocks ==
    /\ InCall("cgetc")
    /\ bg[cur_env]
    /\ Yield("blocked")
    /\ PcTo("cgetc_2")
    /\ UNCHANGED has_front_env

\* Back from schedule(): bg is not looked at again.
CgetcResumes == InCall("cgetc_2") /\ TakeInput

Destroy ==
    /\ InCall("destroy")
    /\ has_front_env' = (has_front_env /\ bg[cur_env])
    /\ Yield("zombie")
    /\ PcTo("destroyed")

\* schedule() was not supposed to come back: the process returns from its
\* entry function to address 0 and faults.
DestroyReturns ==
    /\ InCall("destroyed")
    /\ Hang
    /\ UNCHANGED <<envVars, running, inputVars, shellVars>>

----------------------------------------------------------------------------
\* The shell's loop in kern_init(): it moves when no activation of
\* schedule() is on top of it.
ShellAt(label) ==
    running = 0 /\ ~Active("irq") /\ ~Active("shell") /\ pc[0] = label

\* Polling an empty buffer changes nothing and is left out.
Getline ==
    /\ ShellAt("getline")
    /\ buffer # NoLine \/ bg[cur_env]
    /\ PcTo("cgetc")
    /\ UNCHANGED <<envVars, running, frame, inputVars, shellVars>>

check_pid(pid) == pid # NULL /\ env_map[pid] # NULL

CheckPid ==
    /\ ShellAt("parsed")
    /\ runinfo.cmd \in PidCmds
    /\ PcTo(IF ~check_pid(runinfo.pid) THEN "getline"
            ELSE IF runinfo.cmd = "fg" THEN "fg_bg" ELSE "act")
    /\ UNCHANGED <<envVars, running, frame, inputVars, shellVars>>

Target == env_map[runinfo.pid]

\* The target may have been freed since check_pid(): a write through NULL.
TargetGone ==
    /\ ShellAt("act") \/ ShellAt("fg_bg") \/ ShellAt("fg_wake")
    /\ Target = NULL
    /\ Hang
    /\ UNCHANGED <<envVars, running, inputVars, shellVars>>

NewStatus == [stop |-> "stopped", bring |-> "runnable", kill |-> "zombie",
              fg |-> "runnable"]

\* stop, bring and kill; fg does the same to its target when it gets back
\* from schedule().
ChangeStatus ==
    /\ ShellAt("act") \/ ShellAt("fg_wake")
    /\ Target # NULL
    /\ SetStatus(Target, NewStatus[runinfo.cmd])
    /\ PcTo("getline")
    /\ UNCHANGED <<env_map, free_env_stack, free_env_stack_top, env_counter,
                   next_env, env_id, bg, context, cur_env, has_front_env,
                   stacks, running, frame, inputVars, shellVars>>

FgTarget ==
    /\ ShellAt("fg_bg")
    /\ Target # NULL
    /\ SetBg(Target, FALSE)
    /\ PcTo("fg_front")
    /\ UNCHANGED <<env_map, free_env_stack, free_env_stack_top, env_counter,
                   next_env, env_id, env_status, context, cur_env,
                   has_front_env, stacks, running, frame, inputVars,
                   shellVars>>

FgFront ==
    /\ ShellAt("fg_front")
    /\ has_front_env' = TRUE
    /\ PcTo("fg_sched")
    /\ UNCHANGED <<env_map, free_env_stack, free_env_stack_top, env_counter,
                   next_env, env_id, env_status, bg, context, cur_env, stacks,
                   running, frame, inputVars, shellVars>>

FgSchedule ==
    /\ ShellAt("fg_sched")
    /\ schedule("shell")
    /\ PcTo("fg_wake")
    /\ UNCHANGED <<envVars, running, inputVars, shellVars>>

\* listing_all_jobs() walks the ring.
Jobs ==
    /\ ShellAt("parsed")
    /\ runinfo.cmd = "jobs"
    /\ tail' = next_env[cur_env]
    /\ PcTo("jobs")
    /\ UNCHANGED <<envVars, running, frame, inputVars, runinfo, reg,
                   new_env>>

JobsNext ==
    /\ ShellAt("jobs")
    /\ tail \notin {cur_env, NULL}
    /\ tail' = next_env[tail]
    /\ UNCHANGED <<envVars, schedVars, inputVars, runinfo, reg,
                   new_env>>

JobsEnd ==
    /\ ShellAt("jobs")
    /\ tail = cur_env
    /\ PcTo("getline")
    /\ UNCHANGED <<envVars, running, frame, inputVars, shellVars>>

----------------------------------------------------------------------------
\* load_icode().  The slot is taken before the program is looked up, and not
\* given back when there is no such program.
Launch ==
    /\ ShellAt("parsed")
    /\ runinfo.cmd \in {"run", "unknown"}
    /\ PcTo("alloc")
    /\ UNCHANGED <<envVars, running, frame, inputVars, shellVars>>

\* env_alloc() pops a slot in three instructions: load the stack's top, store
\* it decremented, read it again as the index.  An interrupt between two of
\* them may push the slot of a process it reaps.
Alloc ==
    /\ ShellAt("alloc")
    /\ free_env_stack_top # 0
    /\ reg' = free_env_stack_top
    /\ PcTo("pop_store")
    /\ UNCHANGED <<envVars, running, frame, inputVars, runinfo, new_env, tail>>

PopStore ==
    /\ ShellAt("pop_store")
    /\ env_alloc(reg)
    /\ PcTo("pop_read")
    /\ UNCHANGED <<env_map, free_env_stack, env_counter, next_env, env_id,
                   env_status, bg, context, cur_env, has_front_env, stacks,
                   running, frame, inputVars, shellVars>>

PopRead ==
    /\ ShellAt("pop_read")
    /\ new_env' = TopFree
    /\ PcTo(IF runinfo.cmd = "run" THEN "register" ELSE "getline")
    /\ UNCHANGED <<envVars, running, frame, inputVars, runinfo, reg, tail>>

\* Bound: the model stops short of writing env_map[MAX_ENV_NUM].
RegisterEnv ==
    /\ ShellAt("register")
    /\ env_counter < MAX_ENV_NUM
    /\ Register(new_env, runinfo.bg)
    /\ PcTo("map")
    /\ UNCHANGED <<free_env_stack, free_env_stack_top, next_env, context,
                   cur_env, has_front_env, stacks, running, frame, inputVars,
                   shellVars>>

MapEnv ==
    /\ ShellAt("map")
    /\ Cardinality(stacks) < MAX_STACKS
    /\ MapStack(new_env)
    /\ PcTo("link")
    /\ UNCHANGED <<env_map, free_env_stack, free_env_stack_top, env_counter,
                   next_env, env_id, env_status, bg, cur_env, has_front_env,
                   running, frame, inputVars, shellVars>>

LinkEnv_after_current ==   \* mutant: insert behind cur_env, do not walk
    /\ ShellAt("link")
    /\ Link(new_env, next_env[cur_env])
    /\ tail' = cur_env
    /\ PcTo("append")
    /\ UNCHANGED <<env_map, free_env_stack, free_env_stack_top, env_counter,
                   env_id, env_status, bg, context, cur_env, has_front_env,
                   stacks, running, frame, inputVars, runinfo, reg,
                   new_env>>
LinkEnv ==
    /\ ShellAt("link")
    /\ Link(new_env, cur_env)
    /\ tail' = cur_env
    /\ PcTo("walk")
    /\ UNCHANGED <<env_map, free_env_stack, free_env_stack_top, env_counter,
                   env_id, env_status, bg, context, cur_env, has_front_env,
                   stacks, running, frame, inputVars, runinfo, reg,
                   new_env>>

WalkNext ==
    /\ ShellAt("walk")
    /\ tail # NULL
    /\ next_env[tail] # cur_env
    /\ tail' = next_env[tail]
    /\ UNCHANGED <<envVars, schedVars, inputVars, runinfo, reg,
                   new_env>>

WalkEnd ==
    /\ ShellAt("walk")
    /\ tail # NULL
    /\ next_env[tail] = cur_env
    /\ PcTo("append")
    /\ UNCHANGED <<envVars, running, frame, inputVars, shellVars>>

Append ==
    /\ ShellAt("append")
    /\ Link(tail, new_env)
    /\ PcTo("getline")
    /\ UNCHANGED <<env_map, free_env_stack, free_env_stack_top, env_counter,
                   env_id, env_status, bg, context, cur_env, has_front_env,
                   stacks, running, frame, inputVars, shellVars>>

\* Failures that end in a panic or a page fault in the shell's thread: no
\* free slot, no memory for a stack (the heap takes pages too, so this may
\* come before MAX_STACKS), or an Env on the way that was freed while the
\* shell was interrupted.
ShellFails ==
    /\ \/ ShellAt("alloc") /\ free_env_stack_top = 0
       \/ ShellAt("map")
       \/ ShellAt("walk") /\ tail = NULL
       \/ ShellAt("jobs") /\ tail = NULL
    /\ Hang
    /\ UNCHANGED <<envVars, running, inputVars, shellVars>>

----------------------------------------------------------------------------
ScheduleStep(f) == Scheduling(f) /\ UNCHANGED <<inputVars, shellVars>>

KernelStep ==
    \/ ScheduleStep("irq")
    \/ Cputc \/ CputcBlocks \/ Cgetc \/ CgetcBlocks \/ CgetcResumes
    \/ Destroy \/ DestroyReturns

ShellStep ==
    \/ ScheduleStep("shell")
    \/ Getline \/ CheckPid \/ TargetGone \/ ChangeStatus
    \/ FgTarget \/ FgFront \/ FgSchedule
    \/ Jobs \/ JobsNext \/ JobsEnd
    \/ Launch \/ Alloc \/ PopStore \/ PopRead
    \/ RegisterEnv \/ MapEnv \/ LinkEnv
    \/ WalkNext \/ WalkEnd \/ Append \/ ShellFails

Next ==
    \/ Tick \/ CtrlB \/ \E line \in Lines : Key(line)
    \/ \E s \in Syscalls : Call(s)
    \/ KernelStep \/ ShellStep

\* The timer interrupt stays pending in the PIC while interrupts are off, and
\* a time slice is long enough for the shell to get something done.  What a
\* process does with its time is its own business.
Fairness == WF_vars(KernelStep) /\ SF_vars(Tick) /\ SF_vars(ShellStep)

Spec == Init /\ [][Next]_vars
FairSpec == Spec /\ Fairness
----------------------------------------------------------------------------
(***************************************************************************)
(* Properties                                                              *)
(***************************************************************************)

\* Every variable keeps to its type.
TypeOK ==
    /\ env_map \in [Pid -> EnvPtr]
    /\ free_env_stack \in [Slot -> Envs]
    /\ free_env_stack_top \in Nat
    /\ env_counter \in 1 .. MAX_ENV_NUM
    /\ next_env \in [Envs -> EnvPtr]
    /\ env_id \in [Envs -> Pid]
    /\ env_status \in [Envs -> Status]
    /\ bg \in [Envs -> BOOLEAN]
    /\ context \in [Envs -> Pid \cup {NULL}]
    /\ cur_env \in Envs
    /\ has_front_env \in BOOLEAN
    /\ stacks \subseteq Pid
    /\ running \in Pid \cup {NULL}
    /\ pc \in [Pid -> Label]
    /\ frame \in [Frames -> Frame]
    /\ buffer \in Line \cup {NoLine}
    /\ typed \in 0 .. MaxLines
    /\ runinfo \in Line \cup {NoLine}
    /\ reg \in Nat
    /\ new_env \in EnvPtr
    /\ tail \in EnvPtr

\* The Envs met by following next_env from e.
Path(e) ==
    LET path[n \in 0 .. MAX_ENV_NUM + 1] ==
            IF n = 0 THEN e
            ELSE IF path[n - 1] = NULL THEN NULL
            ELSE next_env[path[n - 1]]
    IN  path

Ring == {Path(cur_env)[n] : n \in 0 .. MAX_ENV_NUM}

\* The Envs the scheduler can reach form one ring that closes on the current
\* process, holds the shell and never a freed slot, whatever load_icode() was
\* doing when a zombie was taken out of it.
RingSound ==
    /\ NULL \notin Ring
    /\ \E n \in 1 .. MAX_ENV_NUM + 1 : Path(cur_env)[n] = cur_env
    /\ ShellEnv \in Ring
    /\ Ring \cap FreeSlots = {}

\* An Env is linked when an Env in use points to it: the ring, and what a
\* launch is about to add to it.
Linked(e) == \E d \in Envs \ FreeSlots : next_env[d] = e

\* The ring keeps the order in which processes were launched: going round
\* from the shell, pids grow.
LaunchOrder ==
    \A d \in Ring \ {NULL} :
        next_env[d] \notin {NULL, ShellEnv} => env_id[d] < env_id[next_env[d]]

\* The free stack of slots never holds a slot twice and never outgrows its
\* array, even when schedule() is interrupted by itself.
NoDoubleFree ==
    /\ free_env_stack_top <= MAX_ENV_NUM
    /\ \A i, j \in 0 .. free_env_stack_top - 1 :
           free_env_stack[i] = free_env_stack[j] => i = j

\* A slot on the free stack is out of reach: of the scheduler, of the pid map,
\* of every other Env's link and of the launch in progress.
FreeUnreachable ==
    \A e \in FreeSlots :
        /\ e # cur_env
        /\ \A d \in Envs : next_env[d] # e
        /\ \A p \in Pid : env_map[p] # e
        /\ pc[0] \in Loading => e # new_env

\* A pid names the process it was given to, or nobody: a stop, bring or kill
\* that was interrupted never lands on another process.
MapSound ==
    \A p \in Pid : env_map[p] # NULL => env_id[env_map[p]] = p

\* The thread on the CPU is the one cur_env names, and every other linked Env
\* holds the thread of its own process, whose stack is still mapped.
\* (Between lines 49 and 50 of the fg command's schedule() they differ.)
ContextSound ==
    (IntrOn /\ frame["shell"].at # "switch") =>
        /\ running = env_id[cur_env]
        /\ \A e \in Envs : Linked(e) =>
               /\ e # cur_env => context[e] = env_id[e]
               /\ e # ShellEnv => env_id[e] \in stacks

\* A process in the ring that stays able to run is scheduled again and again.
Eligible(e) == e \in Ring /\ env_status[e] = "runnable" /\ ~Skipped(e)
RoundRobin == \A e \in Envs : []<>(~Eligible(e) \/ cur_env = e)

\* An exited or killed process does not stay in the ring: it is freed, unless
\* the shell changes its status again.
ZombiesReaped ==
    \A e \in Envs :
        (e \in Ring /\ env_status[e] = "zombie")
            ~> ~(e \in Ring /\ env_status[e] = "zombie")

\* A blocked process that is brought to the foreground gets unblocked, at
\* least when no interrupt falls into the schedule() call of the fg command.
Nested == Active("shell") /\ Active("irq")
FgWakes ==
    []~Nested =>
        \A p \in Pid \ {0} :
            (/\ pc[0] = "fg_front"
             /\ runinfo.pid = p
             /\ env_map[p] # NULL
             /\ env_status[env_map[p]] = "blocked")
                ~> (env_map[p] = NULL \/ env_status[env_map[p]] # "blocked")

\* The stack keeps the slots that are not in use: the slot a launch has taken
\* belongs to no process and is not on the stack any more.
NewSlotUnused ==
    pc[0] = "register" =>
        /\ new_env \notin FreeSlots
        /\ \A p \in Pid : env_map[p] # new_env
=============================================================================
