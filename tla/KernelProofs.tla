---------------------------- MODULE KernelProofs ----------------------------
(***************************************************************************)
(* Proofs about Kernel, for any number of slots and stacks, any command    *)
(* lines and any system calls.                                             *)
(***************************************************************************)
EXTENDS Kernel, FiniteSetTheorems, TLAPS

\* The locals of schedule() are Envs where it dereferences them.
LocalsOK(r) ==
    /\ r.at # "idle" => r.pre \in Envs
    /\ r.at \in {"unlink", "pick"} => r.tail \in Envs
    /\ r.at \in {"unlink", "follow", "reap"} => r.tmp \in Envs
FrameOK == \A f \in Frames : LocalsOK(frame[f])

\* A free slot and the shell's Env carry pid 0, which never has a stack.
FreeOK ==
    /\ \A i \in 0 .. free_env_stack_top - 1 :
           free_env_stack[i] \in Slot /\ env_id[free_env_stack[i]] = 0
    /\ env_id[ShellEnv] = 0
    /\ stacks \subseteq 1 .. env_counter - 1

MapOK ==
    /\ MapSound
    /\ env_map[0] \in {ShellEnv, NULL}

\* What the shell's position says of its locals: a new Env cannot be freed
\* under load_icode()'s feet before it has a stack.
ShellOK ==
    /\ pc[0] = "register" =>
           new_env \in Slot \ FreeSlots /\ env_id[new_env] = 0
    /\ pc[0] = "map" =>
           /\ new_env \in Slot
           /\ env_counter > 1
           /\ env_id[new_env] = env_counter - 1
           /\ env_counter - 1 \notin stacks
    /\ pc[0] \in {"act"} \cup Fg => runinfo.cmd \in PidCmds

\* While env_alloc() pops, nothing else moves: this needs PopAtomic.
PopOK ==
    /\ pc[0] \in Popping => running = 0 /\ \A f \in Frames : ~Active(f)
    /\ pc[0] = "pop_store" =>
           reg = free_env_stack_top /\ free_env_stack_top # 0
    /\ pc[0] = "pop_read" =>
           TopFree \in Slot \ FreeSlots /\ env_id[TopFree] = 0

SlotInv == TypeOK /\ FrameOK /\ NoDoubleFree /\ FreeOK /\ MapOK /\ ShellOK

\* What the three conjuncts in the middle depend on.
slotVars == <<env_map, free_env_stack, free_env_stack_top, env_counter,
              env_id, stacks>>

\* The sets of pids, slots and Env pointers, as the provers are to see them.
LEMMA Basics ==
    /\ 0 \in Pid /\ Slot \subseteq Envs /\ ShellEnv \in Envs
    /\ ShellEnv \notin Slot /\ Envs \subseteq EnvPtr
    /\ \A e \in Envs : e \in Slot \/ e = ShellEnv
    /\ NULL \in EnvPtr /\ NULL \notin Envs /\ NULL \notin Pid
    /\ \A e \in EnvPtr : e = NULL \/ e \in Envs
    /\ Idle \in Frame
  BY EnvAssumption DEF Pid, Slot, ShellEnv, Envs, EnvPtr, NULL, Idle, Frame,
     Steps

\* What the arithmetic steps need of them.
LEMMA Ranges ==
    /\ MAX_ENV_NUM \in Nat \ {0}
    /\ \A i : i \in Slot <=> i \in Int /\ 0 <= i /\ i < MAX_ENV_NUM
    /\ \A i : i \in Pid <=> i \in Int /\ 0 <= i /\ i < MAX_ENV_NUM
  BY EnvAssumption DEF Pid, Slot

\* init_env() and init_sched() establish the inductive invariant.
THEOREM InitSlotInv == Init => SlotInv /\ PopOK
<1> SUFFICES ASSUME Init PROVE SlotInv /\ PopOK
  OBVIOUS
<1> USE Basics
<1>1. TypeOK
  <2>1. frame \in [Frames -> Frame] /\ pc \in [Pid -> Label]
    BY DEF Init, Label
  <2>2. /\ env_map \in [Pid -> EnvPtr] /\ next_env \in [Envs -> EnvPtr]
        /\ env_id \in [Envs -> Pid] /\ cur_env \in Envs
        /\ env_status \in [Envs -> Status] /\ bg \in [Envs -> BOOLEAN]
        /\ context \in [Envs -> Pid \cup {NULL}]
        /\ has_front_env \in BOOLEAN
    BY DEF Init, init_sched, Status
  <2>3. /\ free_env_stack \in [Slot -> Envs] /\ free_env_stack_top \in Nat
        /\ stacks \subseteq Pid /\ env_counter \in 1 .. MAX_ENV_NUM
    BY Ranges DEF Init, init_env, init_sched
  <2>4. /\ running \in Pid \cup {NULL} /\ new_env \in EnvPtr
        /\ tail \in EnvPtr /\ reg \in Nat /\ buffer \in Line \cup {NoLine}
        /\ runinfo \in Line \cup {NoLine} /\ typed \in 0 .. MaxLines
    BY KernelAssumption DEF Init
  <2> QED
    BY <2>1, <2>2, <2>3, <2>4 DEF TypeOK
<1>2. FrameOK
  BY DEF Init, FrameOK, LocalsOK, Idle
<1>3. NoDoubleFree
  BY Ranges DEF Init, init_env, NoDoubleFree
<1>4. FreeOK
  BY Ranges DEF Init, init_env, init_sched, FreeOK
<1>5. MapOK
  BY DEF Init, init_sched, MapOK, MapSound
<1>6. ShellOK
  BY DEF Init, ShellOK, Fg
<1>7. PopOK
  BY DEF Init, PopOK, Popping
<1> QED
  BY <1>1, <1>2, <1>3, <1>4, <1>5, <1>6, <1>7 DEF SlotInv

----------------------------------------------------------------------------
\* The free stack has room for a slot that is not on it.
LEMMA RoomOnStack ==
    ASSUME TypeOK, NoDoubleFree, FreeOK, NEW e \in Slot, e \notin FreeSlots
    PROVE  free_env_stack_top < MAX_ENV_NUM
<1> DEFINE I == 0 .. free_env_stack_top - 1
           f == [i \in I |-> free_env_stack[i]]
           S == Slot \ {e}
<1>1. free_env_stack_top \in Nat /\ MAX_ENV_NUM \in Nat
  BY Ranges DEF TypeOK
<1>2. f \in Injection(I, S)
  <2>1. f \in [I -> S]
    BY DEF FreeOK, FreeSlots
  <2>2. \A i, j \in I : f[i] = f[j] => i = j
    BY DEF NoDoubleFree
  <2> QED
    BY <2>1, <2>2 DEF Injection, IsInjective
<1>3. IsFiniteSet(Slot) /\ Cardinality(Slot) = MAX_ENV_NUM
  BY <1>1, FS_Interval DEF Slot
<1>4. IsFiniteSet(S) /\ Cardinality(S) = MAX_ENV_NUM - 1
  BY <1>3, FS_RemoveElement
<1>5. Cardinality(I) = free_env_stack_top
  BY <1>1, FS_Interval
<1>6. Cardinality(I) <= Cardinality(S)
  <2> HIDE DEF f, I, S
  <2> QED BY <1>2, <1>4, FS_Injection
<1> QED
  BY <1>1, <1>4, <1>5, <1>6

\* A step that frees no slot, gives none away and registers no pid.
LEMMA QuietSlots ==
    ASSUME SlotInv, UNCHANGED slotVars
    PROVE  NoDoubleFree' /\ FreeOK' /\ MapOK' /\ FreeSlots' = FreeSlots
  BY DEF SlotInv, slotVars, NoDoubleFree, FreeOK, MapOK, MapSound, FreeSlots

\* schedule() frees a zombie.  The zombie has a stack, so its pid is not 0, so
\* it is neither on the free stack nor the shell: env_free() pushes a slot that
\* was not there, and there is room for it.
LEMMA ReapSlots ==
    ASSUME SlotInv, NEW f \in Frames, ScheduleStep(f), Reap(f)
    PROVE  SlotInv'
<1> DEFINE e == frame[f].tmp
<1> USE Basics
<1>1. e \in Envs /\ env_id[e] \in stacks
  BY DEF SlotInv, FrameOK, LocalsOK, Reap, At, env_free
<1>2. e \in Slot /\ e \notin FreeSlots
  <2>1. 0 \notin stacks
    BY DEF SlotInv, TypeOK, FreeOK
  <2> QED
    BY <1>1, <2>1 DEF SlotInv, FreeOK, FreeSlots
<1>3. free_env_stack_top < MAX_ENV_NUM
  BY <1>2, RoomOnStack DEF SlotInv
<1>4. /\ free_env_stack' = [free_env_stack EXCEPT ![free_env_stack_top] = e]
      /\ free_env_stack_top' = free_env_stack_top + 1
      /\ free_env_stack_top \in Slot /\ free_env_stack \in [Slot -> Envs]
      /\ \A i \in 0 .. free_env_stack_top - 1 :
             i \in Slot /\ free_env_stack'[i] = free_env_stack[i]
      /\ free_env_stack'[free_env_stack_top] = e
  BY <1>3, Ranges DEF Reap, env_free, SlotInv, TypeOK
<1>5. TypeOK'
  <2>1. free_env_stack' \in [Slot -> Envs] /\ free_env_stack_top' \in Nat
    BY <1>1, <1>4 DEF SlotInv, TypeOK
  <2> QED
    BY <1>1, <2>1 DEF SlotInv, TypeOK, Reap, env_free, Unmap, Status, Frame,
       Steps, ScheduleStep, inputVars, shellVars
<1>6. FrameOK'
  BY DEF SlotInv, TypeOK, FrameOK, LocalsOK, Frame, Reap, At
<1>7. NoDoubleFree'
  BY <1>2, <1>3, <1>4, Ranges DEF SlotInv, TypeOK, NoDoubleFree, FreeSlots
<1>8. FreeOK'
  BY <1>1, <1>2, <1>4 DEF SlotInv, TypeOK, FreeOK, FreeSlots, Reap, env_free
<1>9. MapOK'
  BY <1>1, <1>2 DEF SlotInv, TypeOK, FreeOK, MapOK, MapSound, Reap, env_free,
     Unmap
<1>10. ShellOK'
  <2>1. FreeSlots' \subseteq FreeSlots \cup {e}
    BY <1>4, Ranges DEF FreeSlots
  <2>2. 0 \notin stacks
    BY DEF SlotInv, TypeOK, FreeOK
  <2>3. /\ env_id' = [env_id EXCEPT ![e] = 0] /\ stacks' \subseteq stacks
        /\ UNCHANGED <<pc, env_counter, new_env, runinfo>>
    BY DEF Reap, env_free, ScheduleStep, shellVars
  <2> QED
    BY <1>1, <2>1, <2>2, <2>3 DEF SlotInv, TypeOK, ShellOK
<1> QED
  BY <1>5, <1>6, <1>7, <1>8, <1>9, <1>10 DEF SlotInv

\* Giving one activation of schedule() new locals.
LEMMA FrameStep ==
    ASSUME frame \in [Frames -> Frame], FrameOK, NEW f \in Frames,
           NEW r \in Frame, LocalsOK(r), frame' = [frame EXCEPT ![f] = r]
    PROVE  frame' \in [Frames -> Frame] /\ FrameOK'
  BY DEF FrameOK

\* Entering schedule(): pre is the current process.
LEMMA EnteredOK ==
    ASSUME TypeOK, FrameOK, NEW f \in Frames, schedule(f)
    PROVE  frame' \in [Frames -> Frame] /\ FrameOK'
<1>1. Entered \in Frame /\ LocalsOK(Entered)
  BY Basics DEF TypeOK, Entered, Frame, Steps, LocalsOK
<1> QED
  BY <1>1, FrameStep DEF TypeOK, schedule

\* A thread that hangs leaves schedule().
LEMMA HangOK ==
    ASSUME TypeOK, FrameOK, ShellOK, Hang,
           UNCHANGED <<free_env_stack, free_env_stack_top, env_counter, env_id,
                       stacks, new_env, runinfo>>
    PROVE  /\ frame' \in [Frames -> Frame] /\ FrameOK'
           /\ pc' \in [Pid -> Label] /\ ShellOK'
<1>1. frame' \in [Frames -> Frame] /\ FrameOK'
  <2>1. LocalsOK(Idle)
    BY DEF LocalsOK, Idle
  <2> QED
    BY <2>1, Basics DEF TypeOK, FrameOK, Hang
<1>2. pc' \in [Pid -> Label]
  BY Basics DEF TypeOK, Hang, Label
<1>3. ShellOK'
  BY Basics DEF TypeOK, ShellOK, Hang, FreeSlots, Fg
<1> QED
  BY <1>1, <1>2, <1>3

\* Every step of schedule(), in an interrupt or in the fg command.
LEMMA ScheduleSlots ==
    ASSUME SlotInv, NEW f \in Frames, ScheduleStep(f)
    PROVE  SlotInv'
<1> USE Basics
<1>1. frame[f] \in Frame /\ LocalsOK(frame[f])
  BY DEF SlotInv, TypeOK, FrameOK
<1>2. CASE ScanNull(f)
  <2>0. UNCHANGED slotVars
    BY <1>2 DEF ScanNull, slotVars, envVars
  <2>1. /\ FrameOK' /\ ShellOK'
        /\ frame' \in [Frames -> Frame] /\ pc' \in [Pid -> Label]
    BY <1>2, HangOK, <2>0 DEF SlotInv, ScanNull, ScheduleStep, shellVars,
       slotVars
  <2> QED
    BY <1>2, <2>1, <2>0, QuietSlots DEF SlotInv, TypeOK, ScanNull, envVars,
       ScheduleStep, inputVars, shellVars
<1>3. CASE ScanEnd(f)
  <2>0. UNCHANGED slotVars
    BY <1>3 DEF ScanEnd, slotVars, envVars
  <2> DEFINE r == Idle
  <2>1. r \in Frame /\ LocalsOK(r)
    BY <1>1, <1>3 DEF SlotInv, TypeOK, ScanEnd, Scanning, At, Frame, Steps,
       LocalsOK, Idle
  <2>2. frame' = [frame EXCEPT ![f] = r]
    BY <1>3 DEF ScanEnd, Idle
  <2>3. FrameOK' /\ frame' \in [Frames -> Frame]
    <3> HIDE DEF r
    <3> QED BY <2>1, <2>2, FrameStep DEF SlotInv, TypeOK
  <2>4. ShellOK'
    BY <1>3, <2>0 DEF SlotInv, ShellOK, FreeSlots, ScanEnd, ScheduleStep,
       shellVars, slotVars
  <2> QED
    BY <1>1, <1>3, <2>3, <2>4, <2>0, QuietSlots DEF SlotInv, TypeOK, ScanEnd,
       At, Frame, LocalsOK, envVars, ScheduleStep, inputVars, shellVars
<1>4. CASE ScanSkip(f)
  <2>0. UNCHANGED slotVars
    BY <1>4 DEF ScanSkip, slotVars, envVars
  <2> DEFINE r == [frame[f] EXCEPT !.pre = frame[f].tail,
                            !.tail = next_env[frame[f].tail]]
  <2>1. r \in Frame /\ LocalsOK(r)
    BY <1>1, <1>4 DEF SlotInv, TypeOK, ScanSkip, Scanning, At, Frame, Steps,
       LocalsOK, Idle
  <2>2. frame' = [frame EXCEPT ![f] = r]
    BY <1>4 DEF ScanSkip
  <2>3. FrameOK' /\ frame' \in [Frames -> Frame]
    <3> HIDE DEF r
    <3> QED BY <2>1, <2>2, FrameStep DEF SlotInv, TypeOK
  <2>4. ShellOK'
    BY <1>4, <2>0 DEF SlotInv, ShellOK, FreeSlots, ScanSkip, ScheduleStep,
       shellVars, slotVars
  <2> QED
    BY <1>1, <1>4, <2>3, <2>4, <2>0, QuietSlots DEF SlotInv, TypeOK, ScanSkip,
       At, Frame, LocalsOK, envVars, ScheduleStep, inputVars, shellVars
<1>5. CASE ScanZombie(f)
  <2>0. UNCHANGED slotVars
    BY <1>5 DEF ScanZombie, slotVars, envVars
  <2> DEFINE r == [frame[f] EXCEPT !.tmp = frame[f].tail, !.at = "unlink"]
  <2>1. r \in Frame /\ LocalsOK(r)
    BY <1>1, <1>5 DEF SlotInv, TypeOK, ScanZombie, Scanning, At, Frame, Steps,
       LocalsOK, Idle
  <2>2. frame' = [frame EXCEPT ![f] = r]
    BY <1>5 DEF ScanZombie
  <2>3. FrameOK' /\ frame' \in [Frames -> Frame]
    <3> HIDE DEF r
    <3> QED BY <2>1, <2>2, FrameStep DEF SlotInv, TypeOK
  <2>4. ShellOK'
    BY <1>5, <2>0 DEF SlotInv, ShellOK, FreeSlots, ScanZombie, ScheduleStep,
       shellVars, slotVars
  <2> QED
    BY <1>1, <1>5, <2>3, <2>4, <2>0, QuietSlots DEF SlotInv, TypeOK,
       ScanZombie, At, Frame, LocalsOK, envVars, ScheduleStep, inputVars,
       shellVars
<1>6. CASE ScanFound(f)
  <2>0. UNCHANGED slotVars
    BY <1>6 DEF ScanFound, slotVars, envVars
  <2> DEFINE r == [frame[f] EXCEPT !.at = "pick"]
  <2>1. r \in Frame /\ LocalsOK(r)
    BY <1>1, <1>6 DEF SlotInv, TypeOK, ScanFound, Scanning, At, Frame, Steps,
       LocalsOK, Idle
  <2>2. frame' = [frame EXCEPT ![f] = r]
    BY <1>6 DEF ScanFound, Goto
  <2>3. FrameOK' /\ frame' \in [Frames -> Frame]
    <3> HIDE DEF r
    <3> QED BY <2>1, <2>2, FrameStep DEF SlotInv, TypeOK
  <2>4. ShellOK'
    BY <1>6, <2>0 DEF SlotInv, ShellOK, FreeSlots, ScanFound, ScheduleStep,
       shellVars, slotVars
  <2> QED
    BY <1>1, <1>6, <2>3, <2>4, <2>0, QuietSlots DEF SlotInv, TypeOK,
       ScanFound, At, Frame, LocalsOK, envVars, ScheduleStep, inputVars,
       shellVars
<1>7. CASE Unlink(f)
  <2>0. UNCHANGED slotVars
    BY <1>7 DEF Unlink, slotVars, envVars
  <2> DEFINE r == [frame[f] EXCEPT !.at = "follow"]
  <2>1. r \in Frame /\ LocalsOK(r)
    BY <1>1, <1>7 DEF SlotInv, TypeOK, Unlink, Scanning, At, Frame, Steps,
       LocalsOK, Idle
  <2>2. frame' = [frame EXCEPT ![f] = r]
    BY <1>7 DEF Unlink, Goto
  <2>3. FrameOK' /\ frame' \in [Frames -> Frame]
    <3> HIDE DEF r
    <3> QED BY <2>1, <2>2, FrameStep DEF SlotInv, TypeOK
  <2>4. ShellOK'
    BY <1>7, <2>0 DEF SlotInv, ShellOK, FreeSlots, Unlink, ScheduleStep,
       shellVars, slotVars
  <2> QED
    BY <1>1, <1>7, <2>3, <2>4, <2>0, QuietSlots DEF SlotInv, TypeOK, Unlink,
       At, Frame, LocalsOK, Link, envVars, ScheduleStep, inputVars, shellVars
<1>8. CASE Follow(f)
  <2>0. UNCHANGED slotVars
    BY <1>8 DEF Follow, slotVars, envVars
  <2> DEFINE r == [frame[f] EXCEPT !.tail = next_env[frame[f].pre],
                            !.at = "reap"]
  <2>1. r \in Frame /\ LocalsOK(r)
    BY <1>1, <1>8 DEF SlotInv, TypeOK, Follow, Scanning, At, Frame, Steps,
       LocalsOK, Idle
  <2>2. frame' = [frame EXCEPT ![f] = r]
    BY <1>8 DEF Follow
  <2>3. FrameOK' /\ frame' \in [Frames -> Frame]
    <3> HIDE DEF r
    <3> QED BY <2>1, <2>2, FrameStep DEF SlotInv, TypeOK
  <2>4. ShellOK'
    BY <1>8, <2>0 DEF SlotInv, ShellOK, FreeSlots, Follow, ScheduleStep,
       shellVars, slotVars
  <2> QED
    BY <1>1, <1>8, <2>3, <2>4, <2>0, QuietSlots DEF SlotInv, TypeOK, Follow,
       At, Frame, LocalsOK, envVars, ScheduleStep, inputVars, shellVars
<1>9. CASE Pick(f)
  <2>0. UNCHANGED slotVars
    BY <1>9 DEF Pick, slotVars, envVars
  <2> DEFINE r == [frame[f] EXCEPT !.pre = cur_env, !.at = "switch"]
  <2>1. r \in Frame /\ LocalsOK(r)
    BY <1>1, <1>9 DEF SlotInv, TypeOK, Pick, Scanning, At, Frame, Steps,
       LocalsOK, Idle
  <2>2. frame' = [frame EXCEPT ![f] = r]
    BY <1>9 DEF Pick
  <2>3. FrameOK' /\ frame' \in [Frames -> Frame]
    <3> HIDE DEF r
    <3> QED BY <2>1, <2>2, FrameStep DEF SlotInv, TypeOK
  <2>4. ShellOK'
    BY <1>9, <2>0 DEF SlotInv, ShellOK, FreeSlots, Pick, ScheduleStep,
       shellVars, slotVars
  <2> QED
    BY <1>1, <1>9, <2>3, <2>4, <2>0, QuietSlots DEF SlotInv, TypeOK, Pick, At,
       Frame, LocalsOK, envVars, ScheduleStep, inputVars, shellVars
<1>10. CASE Switch(f)
  <2>0. UNCHANGED slotVars
    BY <1>10 DEF Switch, slotVars, envVars
  <2> DEFINE r == Idle
  <2>1. r \in Frame /\ LocalsOK(r)
    BY <1>1, <1>10 DEF SlotInv, TypeOK, Switch, Scanning, At, Frame, Steps,
       LocalsOK, Idle
  <2>2. frame' = [frame EXCEPT ![f] = r]
    BY <1>10 DEF Switch, Idle
  <2>3. FrameOK' /\ frame' \in [Frames -> Frame]
    <3> HIDE DEF r
    <3> QED BY <2>1, <2>2, FrameStep DEF SlotInv, TypeOK
  <2>4. ShellOK'
    BY <1>10, <2>0 DEF SlotInv, ShellOK, FreeSlots, Switch, ScheduleStep,
       shellVars, slotVars
  <2> QED
    BY <1>1, <1>10, <2>3, <2>4, <2>0, QuietSlots DEF SlotInv, TypeOK, Switch,
       At, Frame, LocalsOK, envVars, ScheduleStep, inputVars, shellVars
<1>11. CASE ReapPanics(f)
  <2>1. env_map' = [env_map EXCEPT ![env_id[frame[f].tmp]] = NULL]
    BY <1>11 DEF ReapPanics, Unmap
  <2>2. /\ UNCHANGED <<free_env_stack, free_env_stack_top, env_counter,
                       env_id, stacks, new_env, runinfo, running>>
        /\ FreeSlots' = FreeSlots
    BY <1>11 DEF ReapPanics, ScheduleStep, shellVars, FreeSlots
  <2>3. FrameOK' /\ ShellOK'
        /\ frame' \in [Frames -> Frame] /\ pc' \in [Pid -> Label]
    BY <1>11, <2>2, HangOK DEF SlotInv, ReapPanics
  <2>4. TypeOK'
    BY <1>11, <2>1, <2>2, <2>3 DEF SlotInv, TypeOK, ReapPanics, ScheduleStep,
       inputVars, shellVars
  <2>5. NoDoubleFree' /\ FreeOK'
    BY <2>2 DEF SlotInv, NoDoubleFree, FreeOK
  <2>6. MapOK'
    BY <2>1, <2>2 DEF SlotInv, TypeOK, MapOK, MapSound
  <2> QED
    BY <2>3, <2>4, <2>5, <2>6 DEF SlotInv
<1> QED
  BY ReapSlots, <1>2, <1>3, <1>4, <1>5, <1>6, <1>7, <1>8, <1>9, <1>10, <1>11
     DEF ScheduleStep, Scheduling

\* The steps that free no slot, give none away and register no pid.
Quiet ==
    \/ Tick
    \/ CtrlB
    \/ \E line \in Lines : Key(line)
    \/ \E s \in Syscalls : Call(s)
    \/ Cputc
    \/ CputcBlocks
    \/ Cgetc
    \/ CgetcBlocks
    \/ CgetcResumes
    \/ Destroy
    \/ DestroyReturns
    \/ Getline
    \/ CheckPid
    \/ TargetGone
    \/ ChangeStatus
    \/ FgTarget
    \/ FgFront
    \/ FgSchedule
    \/ Jobs
    \/ JobsNext
    \/ JobsEnd
    \/ Launch
    \/ LinkEnv
    \/ WalkNext
    \/ WalkEnd
    \/ Append
    \/ ShellFails

\* Those steps keep the invariant.
LEMMA QuietStep ==
    ASSUME SlotInv, Quiet
    PROVE  SlotInv'
<1> USE Basics
<1>1. CASE Tick
  <2>0. UNCHANGED slotVars
    BY <1>1 DEF Tick, slotVars, envVars
  <2>1. FrameOK' /\ frame' \in [Frames -> Frame]
    BY <1>1, EnteredOK DEF SlotInv, Frames, Tick, schedule, inputVars,
       shellVars, envVars, schedVars, slotVars
  <2>2. ShellOK'
    BY <1>1, <2>0 DEF SlotInv, TypeOK, Tick, schedule, ShellOK, FreeSlots, Fg,
       PcTo, ShellAt, inputVars, shellVars, envVars, schedVars, slotVars
  <2>3. pc' \in [Pid -> Label]
    BY <1>1 DEF SlotInv, TypeOK, Tick, schedule, PcTo, Label, Loading, Fg,
       InKernel, inputVars, shellVars, envVars, schedVars, slotVars
  <2> QED
    BY <1>1, <2>1, <2>2, <2>3, <2>0, QuietSlots DEF SlotInv, TypeOK, Tick,
       schedule, inputVars, shellVars, envVars, schedVars, slotVars
<1>2. CASE CtrlB
  <2>0. UNCHANGED slotVars
    BY <1>2 DEF CtrlB, slotVars, envVars
  <2>1. FrameOK' /\ frame' \in [Frames -> Frame]
    BY <1>2 DEF SlotInv, TypeOK, FrameOK, CtrlB, SetBg, inputVars, shellVars,
       envVars, schedVars, slotVars
  <2>2. ShellOK'
    BY <1>2, <2>0 DEF SlotInv, TypeOK, CtrlB, SetBg, ShellOK, FreeSlots, Fg,
       PcTo, ShellAt, inputVars, shellVars, envVars, schedVars, slotVars
  <2>3. pc' \in [Pid -> Label]
    BY <1>2 DEF SlotInv, TypeOK, CtrlB, SetBg, PcTo, Label, Loading, Fg,
       InKernel, inputVars, shellVars, envVars, schedVars, slotVars
  <2> QED
    BY <1>2, <2>1, <2>2, <2>3, <2>0, QuietSlots DEF SlotInv, TypeOK, CtrlB,
       SetBg, inputVars, shellVars, envVars, schedVars, slotVars
<1>3. CASE \E line \in Lines : Key(line)
  <2>0. UNCHANGED slotVars
    BY <1>3 DEF Key, slotVars, envVars
  <2>1. FrameOK' /\ frame' \in [Frames -> Frame]
    BY <1>3 DEF SlotInv, TypeOK, FrameOK, Key, inputVars, shellVars, envVars,
       schedVars, slotVars
  <2>2. ShellOK'
    BY <1>3, KernelAssumption, <2>0 DEF SlotInv, TypeOK, Key, ShellOK,
       FreeSlots, Fg, PcTo, ShellAt, inputVars, shellVars, envVars, schedVars,
       slotVars
  <2>3. pc' \in [Pid -> Label]
    BY <1>3, KernelAssumption DEF SlotInv, TypeOK, Key, PcTo, Label, Loading,
       Fg, InKernel, inputVars, shellVars, envVars, schedVars, slotVars
  <2> QED
    BY <1>3, KernelAssumption, <2>1, <2>2, <2>3, <2>0, QuietSlots DEF SlotInv,
       TypeOK, Key, inputVars, shellVars, envVars, schedVars, slotVars
<1>4. CASE \E s \in Syscalls : Call(s)
  <2>0. UNCHANGED slotVars
    BY <1>4 DEF Call, slotVars, envVars
  <2>1. PICK s \in Syscalls : Call(s)
    BY <1>4
  <2>2. s \in InKernel /\ s \notin {"register", "map", "act"} \cup Fg
    BY KernelAssumption DEF InKernel, Fg
  <2>3. pc' \in [Pid -> Label] /\ ShellOK'
    BY <2>1, <2>2, <2>0 DEF SlotInv, TypeOK, ShellOK, FreeSlots, Call, PcTo,
       Label, slotVars, shellVars
  <2>4. FrameOK' /\ frame' \in [Frames -> Frame]
    BY <2>1 DEF SlotInv, TypeOK, FrameOK, Call
  <2> QED
    BY <2>1, <2>3, <2>4, <2>0, QuietSlots DEF SlotInv, TypeOK, Call, envVars,
       inputVars, shellVars
<1>5. CASE Cputc
  <2>0. UNCHANGED slotVars
    BY <1>5 DEF Cputc, slotVars, envVars
  <2>1. FrameOK' /\ frame' \in [Frames -> Frame]
    BY <1>5 DEF SlotInv, TypeOK, FrameOK, Cputc, inputVars, shellVars,
       envVars, schedVars, slotVars
  <2>2. ShellOK'
    BY <1>5, <2>0 DEF SlotInv, TypeOK, Cputc, ShellOK, FreeSlots, Fg, PcTo,
       ShellAt, inputVars, shellVars, envVars, schedVars, slotVars
  <2>3. pc' \in [Pid -> Label]
    BY <1>5 DEF SlotInv, TypeOK, Cputc, PcTo, Label, Loading, Fg, InKernel,
       inputVars, shellVars, envVars, schedVars, slotVars
  <2> QED
    BY <1>5, <2>1, <2>2, <2>3, <2>0, QuietSlots DEF SlotInv, TypeOK, Cputc,
       inputVars, shellVars, envVars, schedVars, slotVars
<1>6. CASE CputcBlocks
  <2>0. UNCHANGED slotVars
    BY <1>6 DEF CputcBlocks, Yield, slotVars, envVars
  <2>1. FrameOK' /\ frame' \in [Frames -> Frame]
    BY <1>6, EnteredOK DEF SlotInv, Frames, CputcBlocks, Yield, SetStatus,
       Status, inputVars, shellVars, envVars, schedVars, slotVars
  <2>2. ShellOK'
    BY <1>6, <2>0 DEF SlotInv, TypeOK, CputcBlocks, Yield, SetStatus, Status,
       ShellOK, FreeSlots, Fg, PcTo, ShellAt, inputVars, shellVars, envVars,
       schedVars, slotVars
  <2>3. pc' \in [Pid -> Label]
    BY <1>6 DEF SlotInv, TypeOK, CputcBlocks, Yield, SetStatus, Status, PcTo,
       Label, Loading, Fg, InKernel, inputVars, shellVars, envVars, schedVars,
       slotVars
  <2> QED
    BY <1>6, <2>1, <2>2, <2>3, <2>0, QuietSlots DEF SlotInv, TypeOK,
       CputcBlocks, Yield, SetStatus, Status, inputVars, shellVars, envVars,
       schedVars, slotVars
<1>7. CASE Cgetc
  <2>0. UNCHANGED slotVars
    BY <1>7 DEF Cgetc, TakeInput, slotVars, envVars
  <2>1. FrameOK' /\ frame' \in [Frames -> Frame]
    BY <1>7 DEF SlotInv, TypeOK, FrameOK, Cgetc, TakeInput, inputVars,
       shellVars, envVars, schedVars, slotVars
  <2>2. ShellOK'
    BY <1>7, <2>0 DEF SlotInv, TypeOK, Cgetc, TakeInput, ShellOK, FreeSlots,
       Fg, PcTo, ShellAt, inputVars, shellVars, envVars, schedVars, slotVars
  <2>3. pc' \in [Pid -> Label]
    BY <1>7 DEF SlotInv, TypeOK, Cgetc, TakeInput, PcTo, Label, Loading, Fg,
       InKernel, inputVars, shellVars, envVars, schedVars, slotVars
  <2> QED
    BY <1>7, <2>1, <2>2, <2>3, <2>0, QuietSlots DEF SlotInv, TypeOK, Cgetc,
       TakeInput, inputVars, shellVars, envVars, schedVars, slotVars
<1>8. CASE CgetcBlocks
  <2>0. UNCHANGED slotVars
    BY <1>8 DEF CgetcBlocks, Yield, slotVars, envVars
  <2>1. FrameOK' /\ frame' \in [Frames -> Frame]
    BY <1>8, EnteredOK DEF SlotInv, Frames, CgetcBlocks, Yield, SetStatus,
       Status, inputVars, shellVars, envVars, schedVars, slotVars
  <2>2. ShellOK'
    BY <1>8, <2>0 DEF SlotInv, TypeOK, CgetcBlocks, Yield, SetStatus, Status,
       ShellOK, FreeSlots, Fg, PcTo, ShellAt, inputVars, shellVars, envVars,
       schedVars, slotVars
  <2>3. pc' \in [Pid -> Label]
    BY <1>8 DEF SlotInv, TypeOK, CgetcBlocks, Yield, SetStatus, Status, PcTo,
       Label, Loading, Fg, InKernel, inputVars, shellVars, envVars, schedVars,
       slotVars
  <2> QED
    BY <1>8, <2>1, <2>2, <2>3, <2>0, QuietSlots DEF SlotInv, TypeOK,
       CgetcBlocks, Yield, SetStatus, Status, inputVars, shellVars, envVars,
       schedVars, slotVars
<1>9. CASE CgetcResumes
  <2>0. UNCHANGED slotVars
    BY <1>9 DEF CgetcResumes, TakeInput, slotVars, envVars
  <2>1. FrameOK' /\ frame' \in [Frames -> Frame]
    BY <1>9 DEF SlotInv, TypeOK, FrameOK, CgetcResumes, TakeInput, inputVars,
       shellVars, envVars, schedVars, slotVars
  <2>2. ShellOK'
    BY <1>9, <2>0 DEF SlotInv, TypeOK, CgetcResumes, TakeInput, ShellOK,
       FreeSlots, Fg, PcTo, ShellAt, inputVars, shellVars, envVars, schedVars,
       slotVars
  <2>3. pc' \in [Pid -> Label]
    BY <1>9 DEF SlotInv, TypeOK, CgetcResumes, TakeInput, PcTo, Label,
       Loading, Fg, InKernel, inputVars, shellVars, envVars, schedVars,
       slotVars
  <2> QED
    BY <1>9, <2>1, <2>2, <2>3, <2>0, QuietSlots DEF SlotInv, TypeOK,
       CgetcResumes, TakeInput, inputVars, shellVars, envVars, schedVars,
       slotVars
<1>10. CASE Destroy
  <2>0. UNCHANGED slotVars
    BY <1>10 DEF Destroy, Yield, slotVars, envVars
  <2>1. FrameOK' /\ frame' \in [Frames -> Frame]
    BY <1>10, EnteredOK DEF SlotInv, Frames, Destroy, Yield, SetStatus,
       Status, inputVars, shellVars, envVars, schedVars, slotVars
  <2>2. ShellOK'
    BY <1>10, <2>0 DEF SlotInv, TypeOK, Destroy, Yield, SetStatus, Status,
       ShellOK, FreeSlots, Fg, PcTo, ShellAt, inputVars, shellVars, envVars,
       schedVars, slotVars
  <2>3. pc' \in [Pid -> Label]
    BY <1>10 DEF SlotInv, TypeOK, Destroy, Yield, SetStatus, Status, PcTo,
       Label, Loading, Fg, InKernel, inputVars, shellVars, envVars, schedVars,
       slotVars
  <2> QED
    BY <1>10, <2>1, <2>2, <2>3, <2>0, QuietSlots DEF SlotInv, TypeOK, Destroy,
       Yield, SetStatus, Status, inputVars, shellVars, envVars, schedVars,
       slotVars
<1>11. CASE DestroyReturns
  <2>0. UNCHANGED slotVars
    BY <1>11 DEF DestroyReturns, slotVars, envVars
  <2>1. /\ FrameOK' /\ ShellOK'
        /\ frame' \in [Frames -> Frame] /\ pc' \in [Pid -> Label]
    BY <1>11, HangOK, <2>0 DEF SlotInv, DestroyReturns, inputVars, shellVars,
       envVars, schedVars, slotVars
  <2> QED
    BY <1>11, <2>1, <2>0, QuietSlots DEF SlotInv, TypeOK, DestroyReturns,
       inputVars, shellVars, envVars, schedVars, slotVars
<1>12. CASE Getline
  <2>0. UNCHANGED slotVars
    BY <1>12 DEF Getline, slotVars, envVars
  <2>1. FrameOK' /\ frame' \in [Frames -> Frame]
    BY <1>12 DEF SlotInv, TypeOK, FrameOK, Getline, inputVars, shellVars,
       envVars, schedVars, slotVars
  <2>2. ShellOK'
    BY <1>12, <2>0 DEF SlotInv, TypeOK, Getline, ShellOK, FreeSlots, Fg, PcTo,
       ShellAt, inputVars, shellVars, envVars, schedVars, slotVars
  <2>3. pc' \in [Pid -> Label]
    BY <1>12 DEF SlotInv, TypeOK, Getline, PcTo, Label, Loading, Fg, InKernel,
       inputVars, shellVars, envVars, schedVars, slotVars
  <2> QED
    BY <1>12, <2>1, <2>2, <2>3, <2>0, QuietSlots DEF SlotInv, TypeOK, Getline,
       inputVars, shellVars, envVars, schedVars, slotVars
<1>13. CASE CheckPid
  <2>0. UNCHANGED slotVars
    BY <1>13 DEF CheckPid, slotVars, envVars
  <2>1. FrameOK' /\ frame' \in [Frames -> Frame]
    BY <1>13 DEF SlotInv, TypeOK, FrameOK, CheckPid, inputVars, shellVars,
       envVars, schedVars, slotVars
  <2>2. ShellOK'
    BY <1>13, <2>0 DEF SlotInv, TypeOK, CheckPid, ShellOK, FreeSlots, Fg,
       PcTo, ShellAt, inputVars, shellVars, envVars, schedVars, slotVars
  <2>3. pc' \in [Pid -> Label]
    BY <1>13 DEF SlotInv, TypeOK, CheckPid, PcTo, Label, Loading, Fg,
       InKernel, inputVars, shellVars, envVars, schedVars, slotVars
  <2> QED
    BY <1>13, <2>1, <2>2, <2>3, <2>0, QuietSlots DEF SlotInv, TypeOK,
       CheckPid, inputVars, shellVars, envVars, schedVars, slotVars
<1>14. CASE TargetGone
  <2>0. UNCHANGED slotVars
    BY <1>14 DEF TargetGone, slotVars, envVars
  <2>1. /\ FrameOK' /\ ShellOK'
        /\ frame' \in [Frames -> Frame] /\ pc' \in [Pid -> Label]
    BY <1>14, HangOK, <2>0 DEF SlotInv, TargetGone, inputVars, shellVars,
       envVars, schedVars, slotVars
  <2> QED
    BY <1>14, <2>1, <2>0, QuietSlots DEF SlotInv, TypeOK, TargetGone,
       inputVars, shellVars, envVars, schedVars, slotVars
<1>15. CASE ChangeStatus
  <2>0. UNCHANGED slotVars
    BY <1>15 DEF ChangeStatus, slotVars, envVars
  <2>1. FrameOK' /\ frame' \in [Frames -> Frame]
    BY <1>15 DEF SlotInv, TypeOK, FrameOK, ChangeStatus, SetStatus, NewStatus,
       Status, PidCmds, inputVars, shellVars, envVars, schedVars, slotVars
  <2>2. ShellOK'
    BY <1>15, <2>0 DEF SlotInv, TypeOK, ChangeStatus, SetStatus, NewStatus,
       Status, PidCmds, ShellOK, FreeSlots, Fg, PcTo, ShellAt, inputVars,
       shellVars, envVars, schedVars, slotVars
  <2>3. pc' \in [Pid -> Label]
    BY <1>15 DEF SlotInv, TypeOK, ChangeStatus, SetStatus, NewStatus, Status,
       PidCmds, PcTo, Label, Loading, Fg, InKernel, inputVars, shellVars,
       envVars, schedVars, slotVars
  <2>4. NewStatus[runinfo.cmd] \in Status
    BY <1>15 DEF SlotInv, ShellOK, ChangeStatus, ShellAt, Fg, PidCmds,
       NewStatus, Status
  <2> QED
    BY <1>15, <2>4, <2>1, <2>2, <2>3, <2>0, QuietSlots DEF SlotInv, TypeOK,
       ChangeStatus, SetStatus, inputVars, shellVars
<1>16. CASE FgTarget
  <2>0. UNCHANGED slotVars
    BY <1>16 DEF FgTarget, slotVars, envVars
  <2>1. FrameOK' /\ frame' \in [Frames -> Frame]
    BY <1>16 DEF SlotInv, TypeOK, FrameOK, FgTarget, SetBg, inputVars,
       shellVars, envVars, schedVars, slotVars
  <2>2. ShellOK'
    BY <1>16, <2>0 DEF SlotInv, TypeOK, FgTarget, SetBg, ShellOK, FreeSlots,
       Fg, PcTo, ShellAt, inputVars, shellVars, envVars, schedVars, slotVars
  <2>3. pc' \in [Pid -> Label]
    BY <1>16 DEF SlotInv, TypeOK, FgTarget, SetBg, PcTo, Label, Loading, Fg,
       InKernel, inputVars, shellVars, envVars, schedVars, slotVars
  <2> QED
    BY <1>16, <2>1, <2>2, <2>3, <2>0, QuietSlots DEF SlotInv, TypeOK,
       FgTarget, SetBg, inputVars, shellVars, envVars, schedVars, slotVars
<1>17. CASE FgFront
  <2>0. UNCHANGED slotVars
    BY <1>17 DEF FgFront, slotVars, envVars
  <2>1. FrameOK' /\ frame' \in [Frames -> Frame]
    BY <1>17 DEF SlotInv, TypeOK, FrameOK, FgFront, inputVars, shellVars,
       envVars, schedVars, slotVars
  <2>2. ShellOK'
    BY <1>17, <2>0 DEF SlotInv, TypeOK, FgFront, ShellOK, FreeSlots, Fg, PcTo,
       ShellAt, inputVars, shellVars, envVars, schedVars, slotVars
  <2>3. pc' \in [Pid -> Label]
    BY <1>17 DEF SlotInv, TypeOK, FgFront, PcTo, Label, Loading, Fg, InKernel,
       inputVars, shellVars, envVars, schedVars, slotVars
  <2> QED
    BY <1>17, <2>1, <2>2, <2>3, <2>0, QuietSlots DEF SlotInv, TypeOK, FgFront,
       inputVars, shellVars, envVars, schedVars, slotVars
<1>18. CASE FgSchedule
  <2>0. UNCHANGED slotVars
    BY <1>18 DEF FgSchedule, slotVars, envVars
  <2>1. FrameOK' /\ frame' \in [Frames -> Frame]
    BY <1>18, EnteredOK DEF SlotInv, Frames, FgSchedule, inputVars, shellVars,
       envVars, schedVars, slotVars
  <2>2. ShellOK'
    BY <1>18, <2>0 DEF SlotInv, TypeOK, FgSchedule, ShellOK, FreeSlots, Fg,
       PcTo, ShellAt, inputVars, shellVars, envVars, schedVars, slotVars
  <2>3. pc' \in [Pid -> Label]
    BY <1>18 DEF SlotInv, TypeOK, FgSchedule, PcTo, Label, Loading, Fg,
       InKernel, inputVars, shellVars, envVars, schedVars, slotVars
  <2> QED
    BY <1>18, <2>1, <2>2, <2>3, <2>0, QuietSlots DEF SlotInv, TypeOK,
       FgSchedule, inputVars, shellVars, envVars, schedVars, slotVars
<1>19. CASE Jobs
  <2>0. UNCHANGED slotVars
    BY <1>19 DEF Jobs, slotVars, envVars
  <2>1. FrameOK' /\ frame' \in [Frames -> Frame]
    BY <1>19 DEF SlotInv, TypeOK, FrameOK, Jobs, inputVars, shellVars,
       envVars, schedVars, slotVars
  <2>2. ShellOK'
    BY <1>19, <2>0 DEF SlotInv, TypeOK, Jobs, ShellOK, FreeSlots, Fg, PcTo,
       ShellAt, inputVars, shellVars, envVars, schedVars, slotVars
  <2>3. pc' \in [Pid -> Label]
    BY <1>19 DEF SlotInv, TypeOK, Jobs, PcTo, Label, Loading, Fg, InKernel,
       inputVars, shellVars, envVars, schedVars, slotVars
  <2> QED
    BY <1>19, <2>1, <2>2, <2>3, <2>0, QuietSlots DEF SlotInv, TypeOK, Jobs,
       inputVars, shellVars, envVars, schedVars, slotVars
<1>20. CASE JobsNext
  <2>0. UNCHANGED slotVars
    BY <1>20 DEF JobsNext, slotVars, envVars
  <2>1. FrameOK' /\ frame' \in [Frames -> Frame]
    BY <1>20 DEF SlotInv, TypeOK, FrameOK, JobsNext, inputVars, shellVars,
       envVars, schedVars, slotVars
  <2>2. ShellOK'
    BY <1>20, <2>0 DEF SlotInv, TypeOK, JobsNext, ShellOK, FreeSlots, Fg,
       PcTo, ShellAt, inputVars, shellVars, envVars, schedVars, slotVars
  <2>3. pc' \in [Pid -> Label]
    BY <1>20 DEF SlotInv, TypeOK, JobsNext, PcTo, Label, Loading, Fg,
       InKernel, inputVars, shellVars, envVars, schedVars, slotVars
  <2> QED
    BY <1>20, <2>1, <2>2, <2>3, <2>0, QuietSlots DEF SlotInv, TypeOK,
       JobsNext, inputVars, shellVars, envVars, schedVars, slotVars
<1>21. CASE JobsEnd
  <2>0. UNCHANGED slotVars
    BY <1>21 DEF JobsEnd, slotVars, envVars
  <2>1. FrameOK' /\ frame' \in [Frames -> Frame]
    BY <1>21 DEF SlotInv, TypeOK, FrameOK, JobsEnd, inputVars, shellVars,
       envVars, schedVars, slotVars
  <2>2. ShellOK'
    BY <1>21, <2>0 DEF SlotInv, TypeOK, JobsEnd, ShellOK, FreeSlots, Fg, PcTo,
       ShellAt, inputVars, shellVars, envVars, schedVars, slotVars
  <2>3. pc' \in [Pid -> Label]
    BY <1>21 DEF SlotInv, TypeOK, JobsEnd, PcTo, Label, Loading, Fg, InKernel,
       inputVars, shellVars, envVars, schedVars, slotVars
  <2> QED
    BY <1>21, <2>1, <2>2, <2>3, <2>0, QuietSlots DEF SlotInv, TypeOK, JobsEnd,
       inputVars, shellVars, envVars, schedVars, slotVars
<1>22. CASE Launch
  <2>0. UNCHANGED slotVars
    BY <1>22 DEF Launch, slotVars, envVars
  <2>1. FrameOK' /\ frame' \in [Frames -> Frame]
    BY <1>22 DEF SlotInv, TypeOK, FrameOK, Launch, inputVars, shellVars,
       envVars, schedVars, slotVars
  <2>2. ShellOK'
    BY <1>22, <2>0 DEF SlotInv, TypeOK, Launch, ShellOK, FreeSlots, Fg, PcTo,
       ShellAt, inputVars, shellVars, envVars, schedVars, slotVars
  <2>3. pc' \in [Pid -> Label]
    BY <1>22 DEF SlotInv, TypeOK, Launch, PcTo, Label, Loading, Fg, InKernel,
       inputVars, shellVars, envVars, schedVars, slotVars
  <2> QED
    BY <1>22, <2>1, <2>2, <2>3, <2>0, QuietSlots DEF SlotInv, TypeOK, Launch,
       inputVars, shellVars, envVars, schedVars, slotVars
<1>23. CASE LinkEnv
  <2>0. UNCHANGED slotVars
    BY <1>23 DEF LinkEnv, slotVars, envVars
  <2>1. FrameOK' /\ frame' \in [Frames -> Frame]
    BY <1>23 DEF SlotInv, TypeOK, FrameOK, LinkEnv, Link, inputVars,
       shellVars, envVars, schedVars, slotVars
  <2>2. ShellOK'
    BY <1>23, <2>0 DEF SlotInv, TypeOK, LinkEnv, Link, ShellOK, FreeSlots, Fg,
       PcTo, ShellAt, inputVars, shellVars, envVars, schedVars, slotVars
  <2>3. pc' \in [Pid -> Label]
    BY <1>23 DEF SlotInv, TypeOK, LinkEnv, Link, PcTo, Label, Loading, Fg,
       InKernel, inputVars, shellVars, envVars, schedVars, slotVars
  <2> QED
    BY <1>23, <2>1, <2>2, <2>3, <2>0, QuietSlots DEF SlotInv, TypeOK, LinkEnv,
       Link, inputVars, shellVars, envVars, schedVars, slotVars
<1>24. CASE WalkNext
  <2>0. UNCHANGED slotVars
    BY <1>24 DEF WalkNext, slotVars, envVars
  <2>1. FrameOK' /\ frame' \in [Frames -> Frame]
    BY <1>24 DEF SlotInv, TypeOK, FrameOK, WalkNext, inputVars, shellVars,
       envVars, schedVars, slotVars
  <2>2. ShellOK'
    BY <1>24, <2>0 DEF SlotInv, TypeOK, WalkNext, ShellOK, FreeSlots, Fg,
       PcTo, ShellAt, inputVars, shellVars, envVars, schedVars, slotVars
  <2>3. pc' \in [Pid -> Label]
    BY <1>24 DEF SlotInv, TypeOK, WalkNext, PcTo, Label, Loading, Fg,
       InKernel, inputVars, shellVars, envVars, schedVars, slotVars
  <2> QED
    BY <1>24, <2>1, <2>2, <2>3, <2>0, QuietSlots DEF SlotInv, TypeOK,
       WalkNext, inputVars, shellVars, envVars, schedVars, slotVars
<1>25. CASE WalkEnd
  <2>0. UNCHANGED slotVars
    BY <1>25 DEF WalkEnd, slotVars, envVars
  <2>1. FrameOK' /\ frame' \in [Frames -> Frame]
    BY <1>25 DEF SlotInv, TypeOK, FrameOK, WalkEnd, inputVars, shellVars,
       envVars, schedVars, slotVars
  <2>2. ShellOK'
    BY <1>25, <2>0 DEF SlotInv, TypeOK, WalkEnd, ShellOK, FreeSlots, Fg, PcTo,
       ShellAt, inputVars, shellVars, envVars, schedVars, slotVars
  <2>3. pc' \in [Pid -> Label]
    BY <1>25 DEF SlotInv, TypeOK, WalkEnd, PcTo, Label, Loading, Fg, InKernel,
       inputVars, shellVars, envVars, schedVars, slotVars
  <2> QED
    BY <1>25, <2>1, <2>2, <2>3, <2>0, QuietSlots DEF SlotInv, TypeOK, WalkEnd,
       inputVars, shellVars, envVars, schedVars, slotVars
<1>26. CASE Append
  <2>0. UNCHANGED slotVars
    BY <1>26 DEF Append, slotVars, envVars
  <2>1. FrameOK' /\ frame' \in [Frames -> Frame]
    BY <1>26 DEF SlotInv, TypeOK, FrameOK, Append, Link, inputVars, shellVars,
       envVars, schedVars, slotVars
  <2>2. ShellOK'
    BY <1>26, <2>0 DEF SlotInv, TypeOK, Append, Link, ShellOK, FreeSlots, Fg,
       PcTo, ShellAt, inputVars, shellVars, envVars, schedVars, slotVars
  <2>3. pc' \in [Pid -> Label]
    BY <1>26 DEF SlotInv, TypeOK, Append, Link, PcTo, Label, Loading, Fg,
       InKernel, inputVars, shellVars, envVars, schedVars, slotVars
  <2> QED
    BY <1>26, <2>1, <2>2, <2>3, <2>0, QuietSlots DEF SlotInv, TypeOK, Append,
       Link, inputVars, shellVars, envVars, schedVars, slotVars
<1>27. CASE ShellFails
  <2>0. UNCHANGED slotVars
    BY <1>27 DEF ShellFails, slotVars, envVars
  <2>1. /\ FrameOK' /\ ShellOK'
        /\ frame' \in [Frames -> Frame] /\ pc' \in [Pid -> Label]
    BY <1>27, HangOK, <2>0 DEF SlotInv, ShellFails, inputVars, shellVars,
       envVars, schedVars, slotVars
  <2> QED
    BY <1>27, <2>1, <2>0, QuietSlots DEF SlotInv, TypeOK, ShellFails,
       inputVars, shellVars, envVars, schedVars, slotVars
<1> QED
  BY <1>1, <1>2, <1>3, <1>4, <1>5, <1>6, <1>7, <1>8, <1>9, <1>10, <1>11,
     <1>12, <1>13, <1>14, <1>15, <1>16, <1>17, <1>18, <1>19, <1>20, <1>21,
     <1>22, <1>23, <1>24, <1>25, <1>26, <1>27 DEF Quiet

----------------------------------------------------------------------------
\* load_icode() takes a slot, gives it a pid and a stack.
Load == Alloc \/ PopStore \/ PopRead \/ RegisterEnv \/ MapEnv

\* Those steps keep the invariant as long as nothing moves during a pop.
LEMMA LoadSlots ==
    ASSUME SlotInv, PopOK, Load
    PROVE  SlotInv'
<1> USE Basics
<1>1. CASE Alloc
  <2>1. /\ UNCHANGED slotVars /\ UNCHANGED <<frame, runinfo, running, new_env>>
        /\ running = 0 /\ reg' = free_env_stack_top
    BY <1>1 DEF Alloc, ShellAt, slotVars, envVars
  <2>2. NoDoubleFree' /\ FreeOK' /\ MapOK'
    BY <2>1, QuietSlots
  <2>3. pc' \in [Pid -> Label] /\ pc'[0] = "pop_store"
    BY <1>1, <2>1 DEF SlotInv, TypeOK, Alloc, PcTo, Label, Popping
  <2>4. ShellOK'
    BY <2>3 DEF ShellOK, Fg
  <2>5. TypeOK' /\ FrameOK'
    BY <1>1, <2>1, <2>3 DEF SlotInv, TypeOK, FrameOK, Alloc, inputVars,
       envVars
  <2> QED
    BY <2>2, <2>4, <2>5 DEF SlotInv
<1>4. CASE PopStore
  <2>1. pc[0] = "pop_store" /\ running = 0
    BY <1>4 DEF PopStore, ShellAt
  <2>2. /\ free_env_stack_top \in Nat \ {0}
        /\ free_env_stack_top' = free_env_stack_top - 1
        /\ UNCHANGED <<env_map, free_env_stack, env_counter, env_id, stacks,
                       frame, runinfo, running, reg, new_env>>
    BY <1>4, <2>1 DEF SlotInv, TypeOK, PopOK, PopStore, env_alloc, shellVars
  <2>3. NoDoubleFree'
    BY <2>2, Ranges DEF SlotInv, NoDoubleFree
  <2>4. FreeOK'
    BY <2>2 DEF SlotInv, FreeOK
  <2>5. MapOK'
    BY <2>2 DEF SlotInv, MapOK, MapSound
  <2>6. pc' \in [Pid -> Label] /\ pc'[0] = "pop_read"
    BY <1>4, <2>1 DEF SlotInv, TypeOK, PopStore, PcTo, Label, Popping
  <2>7. ShellOK'
    BY <2>6 DEF ShellOK, Fg
  <2>8. TypeOK' /\ FrameOK'
    BY <1>4, <2>2, <2>6 DEF SlotInv, TypeOK, FrameOK, PopStore, inputVars,
       shellVars
  <2> QED
    BY <2>3, <2>4, <2>5, <2>7, <2>8 DEF SlotInv
<1>5. CASE PopRead
  <2>1. pc[0] = "pop_read" /\ running = 0
    BY <1>5 DEF PopRead, ShellAt
  <2>2. TopFree \in Slot /\ TopFree \notin FreeSlots /\ env_id[TopFree] = 0
    BY <2>1 DEF PopOK
  <2>3. /\ UNCHANGED slotVars /\ UNCHANGED <<frame, runinfo, running, reg>>
        /\ FreeSlots' = FreeSlots /\ new_env' = TopFree
    BY <1>5, QuietSlots DEF PopRead, slotVars, envVars
  <2>4. NoDoubleFree' /\ FreeOK' /\ MapOK'
    BY <2>3, QuietSlots
  <2>5. pc' \in [Pid -> Label] /\ pc'[0] \in {"register", "getline"}
    BY <1>5, <2>1 DEF SlotInv, TypeOK, PopRead, PcTo, Label, Loading
  <2>6. env_id' = env_id
    BY <2>3 DEF slotVars
  <2>7. ShellOK'
    BY <2>2, <2>3, <2>5, <2>6 DEF ShellOK, Fg
  <2>8. TypeOK' /\ FrameOK'
    BY <1>5, <2>2, <2>3, <2>5 DEF SlotInv, TypeOK, FrameOK, PopRead,
       inputVars, envVars
  <2> QED
    BY <2>4, <2>7, <2>8 DEF SlotInv
<1>2. CASE RegisterEnv
  <2>1. pc[0] = "register" /\ running = 0 /\ env_counter < MAX_ENV_NUM
    BY <1>2 DEF RegisterEnv, ShellAt
  <2>2. new_env \in Slot /\ new_env \notin FreeSlots /\ env_id[new_env] = 0
    BY <2>1 DEF SlotInv, ShellOK
  <2>3. env_counter \in Pid /\ env_counter # 0
    BY <2>1, Ranges DEF SlotInv, TypeOK
  <2>4. /\ env_id' = [env_id EXCEPT ![new_env] = env_counter]
        /\ env_map' = [env_map EXCEPT ![env_counter] = new_env]
        /\ env_counter' = env_counter + 1
        /\ UNCHANGED <<free_env_stack, free_env_stack_top, stacks, new_env,
                       running, frame>>
    BY <1>2 DEF RegisterEnv, Register, shellVars
  <2>5. NoDoubleFree'
    BY <2>4 DEF SlotInv, NoDoubleFree
  <2>6. FreeOK'
    BY <2>2, <2>3, <2>4 DEF SlotInv, TypeOK, FreeOK, FreeSlots
  <2>7. MapOK'
    BY <2>2, <2>3, <2>4 DEF SlotInv, TypeOK, FreeOK, MapOK, MapSound
  <2>8. pc' \in [Pid -> Label] /\ pc'[0] = "map"
    BY <1>2, <2>1 DEF SlotInv, TypeOK, RegisterEnv, PcTo, Label, Loading
  <2>9. ShellOK'
    BY <2>2, <2>3, <2>4, <2>8 DEF SlotInv, TypeOK, FreeOK, ShellOK, Fg
  <2>10. env_counter' \in 1 .. MAX_ENV_NUM
    BY <2>1, <2>4, Ranges DEF SlotInv, TypeOK
  <2>11. runinfo.bg \in BOOLEAN
    <3>1. runinfo \in Line \cup {NoLine}
      BY DEF SlotInv, TypeOK
    <3>2. CASE runinfo \in Line
      BY <3>2, Zenon DEF Line
    <3>3. CASE runinfo = NoLine
      BY <3>3, Zenon DEF NoLine
    <3> QED
      BY <3>1, <3>2, <3>3
  <2>12. env_status' \in [Envs -> Status] /\ bg' \in [Envs -> BOOLEAN]
    BY <1>2, <2>2, <2>11 DEF SlotInv, TypeOK, RegisterEnv, Register, Status
  <2>13. TypeOK' /\ FrameOK'
    BY <1>2, <2>2, <2>3, <2>4, <2>8, <2>10, <2>12 DEF SlotInv, TypeOK,
       FrameOK, RegisterEnv, inputVars, shellVars
  <2> QED
    BY <2>5, <2>6, <2>7, <2>9, <2>13 DEF SlotInv
<1>3. CASE MapEnv
  <2>1. pc[0] = "map" /\ running = 0
    BY <1>3 DEF MapEnv, ShellAt
  <2>2. /\ new_env \in Slot /\ env_id[new_env] = env_counter - 1
        /\ env_counter > 1 /\ env_counter \in 1 .. MAX_ENV_NUM
    BY <2>1 DEF SlotInv, TypeOK, ShellOK
  <2>3. env_counter - 1 \in Pid
    BY <2>2, Ranges
  <2>4. /\ stacks' = stacks \cup {env_counter - 1}
        /\ UNCHANGED <<env_map, free_env_stack, free_env_stack_top,
                       env_counter, env_id, new_env, running, frame>>
    BY <1>3, <2>2 DEF MapEnv, MapStack, shellVars
  <2>5. NoDoubleFree'
    BY <2>4 DEF SlotInv, NoDoubleFree
  <2>6. FreeOK'
    <3>1. stacks' \subseteq 1 .. env_counter' - 1
      BY <2>2, <2>4 DEF SlotInv, FreeOK
    <3> QED
      BY <2>4, <3>1 DEF SlotInv, FreeOK
  <2>7. MapOK'
    BY <2>4 DEF SlotInv, MapOK, MapSound
  <2>8. pc' \in [Pid -> Label] /\ pc'[0] = "link"
    BY <1>3, <2>1 DEF SlotInv, TypeOK, MapEnv, PcTo, Label, Loading
  <2>9. ShellOK'
    BY <2>8 DEF ShellOK, Fg
  <2>10. TypeOK' /\ FrameOK'
    BY <1>3, <2>2, <2>3, <2>4, <2>8 DEF SlotInv, TypeOK, FrameOK, MapEnv,
       MapStack, inputVars, shellVars
  <2> QED
    BY <2>5, <2>6, <2>7, <2>9, <2>10 DEF SlotInv
<1> QED
  BY <1>1, <1>2, <1>3, <1>4, <1>5 DEF Load

\* A step that is not part of the pop finds the shell elsewhere and does not
\* bring it there.
LEMMA NotPopping ==
    ASSUME SlotInv, PopOK, PopAtomic,
           \/ Quiet \/ RegisterEnv \/ MapEnv
           \/ \E f \in Frames : ScheduleStep(f)
    PROVE  pc[0] \notin Popping /\ pc'[0] \notin Popping
<1> USE Basics DEF Popping
<1>0. pc \in [Pid -> Label] /\ (running # NULL => running \in Pid)
  BY DEF SlotInv, TypeOK
<1>1. CASE \E f \in Frames : ScheduleStep(f)
  <2>1. PICK f \in Frames : ScheduleStep(f)
    BY <1>1
  <2>2. Active(f)
    BY <2>1 DEF ScheduleStep, Scheduling, ScanNull, ScanEnd, ScanSkip,
       Scanning, ScanZombie, ScanFound, Unlink, Follow, Reap, ReapPanics,
       Pick, Switch, At, Active
  <2>3. pc[0] \notin Popping
    BY <2>2 DEF PopOK
  <2>4. pc' = pc \/ Hang
    BY <2>1 DEF ScheduleStep, Scheduling, ScanNull, ScanEnd, ScanSkip,
       ScanZombie, ScanFound, Unlink, Follow, Reap, ReapPanics, Pick, Switch
  <2> QED
    BY <1>0, <2>3, <2>4 DEF Hang
<1>2. CASE Tick \/ CtrlB \/ (\E line \in Lines : Key(line))
  BY <1>0, <1>2 DEF Tick, CtrlB, Key, IntrOn, PopOK, schedVars
<1>3. CASE \E s \in Syscalls : Call(s)
  BY <1>0, <1>3, KernelAssumption DEF Call, IntrOn, PopOK, PcTo
<1>4. CASE \/ Cputc \/ CputcBlocks \/ Cgetc \/ CgetcBlocks \/ CgetcResumes
           \/ Destroy \/ DestroyReturns
  BY <1>0, <1>4 DEF Cputc, CputcBlocks, Cgetc, CgetcBlocks, CgetcResumes,
     TakeInput, Destroy, DestroyReturns, InCall, PopOK, PcTo, Hang
<1>5. CASE \/ Getline \/ CheckPid \/ TargetGone \/ ChangeStatus \/ FgTarget
           \/ FgFront \/ FgSchedule \/ Jobs \/ JobsNext \/ JobsEnd
  BY <1>0, <1>5 DEF Getline, CheckPid, TargetGone, ChangeStatus, FgTarget,
     FgFront, FgSchedule, Jobs, JobsNext, JobsEnd, ShellAt, PcTo, Hang,
     schedVars
<1>6. CASE \/ Launch \/ LinkEnv \/ WalkNext \/ WalkEnd \/ Append \/ ShellFails
           \/ RegisterEnv \/ MapEnv
  BY <1>0, <1>6 DEF Launch, LinkEnv, WalkNext, WalkEnd, Append, ShellFails,
     RegisterEnv, MapEnv, ShellAt, PcTo, Hang, schedVars
<1> QED
  BY <1>1, <1>2, <1>3, <1>4, <1>5, <1>6 DEF Quiet

\* The pop itself: the slot above the lowered top was on the stack once.
LEMMA PopStep ==
    ASSUME SlotInv, PopOK, Alloc \/ PopStore \/ PopRead
    PROVE  PopOK'
<1> USE Basics
<1>1. /\ running = 0 /\ running' = running /\ frame' = frame
      /\ \A f \in Frames : ~Active(f) /\ ~Active(f)'
      /\ pc \in [Pid -> Label]
  BY DEF Alloc, PopStore, PopRead, ShellAt, Frames, Active, SlotInv, TypeOK
<1>2. CASE Alloc
  BY <1>1, <1>2 DEF Alloc, PopOK, Popping, PcTo, envVars
<1>3. CASE PopStore
  <2>1. pc[0] = "pop_store" /\ pc'[0] = "pop_read"
    BY <1>1, <1>3 DEF PopStore, ShellAt, PcTo
  <2>2. /\ free_env_stack_top \in Nat \ {0}
        /\ free_env_stack_top' = free_env_stack_top - 1
        /\ UNCHANGED <<free_env_stack, env_id>>
    BY <1>3, <2>1 DEF SlotInv, TypeOK, PopOK, PopStore, env_alloc
  <2>3. free_env_stack_top' \in 0 .. free_env_stack_top - 1
    BY <2>2
  <2>4. TopFree' = free_env_stack[free_env_stack_top']
    BY <2>2 DEF TopFree
  <2>5. TopFree' \in Slot /\ env_id'[TopFree'] = 0
    BY <2>2, <2>3, <2>4 DEF SlotInv, FreeOK
  <2>6. TopFree' \notin FreeSlots'
    BY <2>2, <2>3, <2>4 DEF SlotInv, NoDoubleFree, FreeSlots
  <2> QED
    BY <1>1, <2>1, <2>5, <2>6 DEF PopOK
<1>4. CASE PopRead
  BY <1>1, <1>4 DEF PopRead, PopOK, Popping, PcTo
<1> QED
  BY <1>2, <1>3, <1>4

\* Every step of the kernel preserves the inductive invariant.
THEOREM StepSlotInv ==
    PopAtomic /\ SlotInv /\ PopOK /\ [Next]_vars => SlotInv' /\ PopOK'
<1> SUFFICES ASSUME PopAtomic, SlotInv, PopOK, [Next]_vars
             PROVE  SlotInv' /\ PopOK'
  OBVIOUS
<1>1. CASE \E f \in Frames : ScheduleStep(f)
  BY <1>1, ScheduleSlots, NotPopping DEF PopOK, Popping
<1>2. CASE Quiet
  BY <1>2, QuietStep, NotPopping DEF PopOK, Popping
<1>3. CASE Alloc \/ PopStore \/ PopRead
  BY <1>3, LoadSlots, PopStep DEF Load
<1>4. CASE RegisterEnv \/ MapEnv
  BY <1>4, LoadSlots, NotPopping DEF Load, PopOK, Popping
<1>5. CASE UNCHANGED vars
  <2>1. UNCHANGED slotVars
    BY <1>5 DEF vars, envVars, slotVars
  <2>2. TypeOK' /\ FrameOK' /\ ShellOK'
    BY <1>5, <2>1, QuietSlots DEF SlotInv, TypeOK, FrameOK, ShellOK, vars,
       envVars, schedVars, inputVars, shellVars
  <2>3. PopOK'
    BY <1>5, <2>1, QuietSlots DEF PopOK, vars, envVars, schedVars, shellVars,
       TopFree, Active
  <2> QED
    BY <2>1, <2>2, <2>3, QuietSlots DEF SlotInv
<1> QED
  BY <1>1, <1>2, <1>3, <1>4, <1>5 DEF Next, KernelStep, ShellStep, Quiet,
     Frames

\* Types are kept, whatever is typed, called or interrupted.
THEOREM TypeCorrect ==
    ASSUME PopAtomic PROVE Spec => []TypeOK
<1>1. SlotInv => TypeOK
  BY DEF SlotInv
<1>2. SlotInv /\ PopOK /\ [Next]_vars => SlotInv' /\ PopOK'
  BY StepSlotInv
<1> QED
  BY InitSlotInv, <1>1, <1>2, PTL DEF Spec

\* No slot is freed twice, for any number of processes and any commands.
THEOREM FreeStackSound ==
    ASSUME PopAtomic PROVE Spec => []NoDoubleFree
<1>1. SlotInv => NoDoubleFree
  BY DEF SlotInv
<1>2. SlotInv /\ PopOK /\ [Next]_vars => SlotInv' /\ PopOK'
  BY StepSlotInv
<1> QED
  BY InitSlotInv, <1>1, <1>2, PTL DEF Spec

\* A pid names the process it was given to, or nobody.
THEOREM PidsNameTheirProcess ==
    ASSUME PopAtomic PROVE Spec => []MapSound
<1>1. SlotInv => MapSound
  BY DEF SlotInv, MapOK
<1>2. SlotInv /\ PopOK /\ [Next]_vars => SlotInv' /\ PopOK'
  BY StepSlotInv
<1> QED
  BY InitSlotInv, <1>1, <1>2, PTL DEF Spec
=============================================================================
