----------------------------- MODULE RingProofs -----------------------------
(***************************************************************************)
(* Proofs about the scheduler's ring and about the threads its Envs hold,  *)
(* for users who do without fg and leave the shell alive, and the proof    *)
(* that Kernel then implements JobControl.                                 *)
(***************************************************************************)
EXTENDS KernelJobs, KernelProofs, WellFoundedInduction

\* The command lines under which the ring is sound.  While fg runs,
\* schedule() can be interrupted by itself; and a killed shell is taken out
\* of the ring like any other process, though it has no stack to unmap.
Orderly ==
    \A line \in Lines :
        line.cmd # "fg" /\ ~(line.cmd = "kill" /\ line.pid = 0)

irq == frame["irq"]

\* Where the shell's thread is when it never enters schedule() by itself and
\* never leaves its loop; nobody is in front.
ShellInv ==
    /\ frame["shell"] = Idle
    /\ pc[0] \notin Fg \cup {"user", "cputc", "destroy", "destroyed"}
    /\ buffer \in Lines \cup {NoLine}
    /\ runinfo \in Lines \cup {NoLine}
    /\ pc[0] = "act" =>
           runinfo \in Lines /\ runinfo.cmd \in PidCmds /\ runinfo.pid \in Pid
    /\ env_status[ShellEnv] # "zombie"
    /\ ~bg[ShellEnv]
    /\ ~has_front_env

\* load_icode()'s process once it has a stack, until it is in the ring, and
\* schedule()'s zombie once it is out of the ring, until it is freed.
Loaded == IF pc[0] \in {"link", "walk", "append"} THEN {new_env} ELSE {}
Dying == IF irq.at \in {"follow", "reap"} THEN {irq.tmp} ELSE {}

\* R closes on itself and is passed through in the order of pids.
Closed(R) ==
    /\ R \subseteq Envs
    /\ ShellEnv \in R
    /\ cur_env \in R
    /\ \A e \in R : next_env[e] \in R
Ordered(R) ==
    \A e \in R :
        IF next_env[e] = ShellEnv THEN \A d \in R : env_id[d] <= env_id[e]
        ELSE /\ env_id[e] < env_id[next_env[e]]
             /\ \A d \in R : \/ env_id[d] <= env_id[e]
                             \/ env_id[next_env[e]] <= env_id[d]

\* An Env outside R leads nowhere, to the shell or to a lost process: one
\* that load_icode() appended to an Env that had been freed meanwhile.
Strays(R, L) ==
    /\ \A e \in Envs \ (R \cup Dying) :
           next_env[e] \in {NULL, ShellEnv} \cup L
    /\ \A e \in Dying : next_env[e] \in R
    /\ L \subseteq Slot
    /\ R \cap L = {}
    /\ (Loaded \cup Dying) \cap (R \cup L) = {}
    /\ Loaded \cap Dying = {}

\* Every process is found under its pid and has its stack.
Live(R, L) == R \cup L \cup Loaded \cup Dying
Known(R, L) ==
    /\ \A e \in Live(R, L) :
           /\ env_map[env_id[e]] = e
           /\ e # ShellEnv => env_id[e] \in stacks
    /\ pc[0] = "map" => env_map[env_counter - 1] = new_env
    /\ \A p \in Pid : p >= env_counter => env_map[p] = NULL

\* The thread on the CPU is the owner's; every other one is in its Env.
owner == IF irq.at = "switch" THEN irq.pre ELSE cur_env
Threads(R, L) ==
    /\ running = env_id[owner]
    /\ \A e \in R \cup L \cup Loaded : e # owner => context[e] = env_id[e]

\* The locals of schedule() keep their places in the ring.
Locals(R) ==
    /\ irq.at \in {"scan", "unlink", "follow", "reap", "switch"} =>
           irq.pre \in R
    /\ irq.at \in {"scan", "unlink", "reap"} =>
           irq.tail \in R /\ next_env[irq.pre] = irq.tail
    /\ irq.at = "unlink" =>
           irq.tmp = irq.tail /\ irq.tail # cur_env
    /\ irq.at \in {"unlink", "follow", "reap"} =>
           env_status[irq.tmp] = "zombie"
    /\ irq.at = "pick" =>
           /\ irq.tail \in R
           /\ irq.tail # cur_env
           /\ env_status[irq.tail] = "runnable"
    /\ irq.at = "switch" => irq.pre # cur_env

\* How far load_icode() has got: its walk stays in the ring, or it stands on
\* an Env that was freed and leads nowhere.
Launching(R) ==
    /\ pc[0] \in {"link", "walk", "append"} =>
           /\ new_env \in Slot
           /\ env_counter > 1
           /\ env_id[new_env] = env_counter - 1
    /\ pc[0] \in {"walk", "append"} => next_env[new_env] = ShellEnv
    /\ pc[0] = "walk" =>
           \/ tail \in R \cup {NULL} \cup Dying
           \/ tail \in FreeSlots /\ next_env[tail] = NULL
    /\ pc[0] = "append" =>
           \/ tail \in R /\ next_env[tail] = ShellEnv
           \/ tail \in Dying \cup FreeSlots

RInv(R, L) ==
    /\ Closed(R) /\ Ordered(R)
    /\ Strays(R, L) /\ Known(R, L) /\ Threads(R, L)
    /\ Locals(R) /\ Launching(R)

RingInv == ShellInv /\ \E R, L \in SUBSET Envs : RInv(R, L)

----------------------------------------------------------------------------
\* What the ring, the lost and the others in use have in common: distinct
\* pids, none of them on the free stack, and only the shell's is 0.
LEMMA LiveFacts ==
    ASSUME SlotInv, NEW R, NEW L, RInv(R, L)
    PROVE  /\ \A e \in Live(R, L) :
                  /\ e \in Envs /\ e \notin FreeSlots
                  /\ env_id[e] \in Pid /\ env_id[e] < env_counter
                  /\ env_id[e] = 0 <=> e = ShellEnv
           /\ \A d, e \in Live(R, L) : env_id[d] = env_id[e] => d = e
           /\ owner \in R /\ R \subseteq Envs /\ L \subseteq Slot
           /\ env_id[ShellEnv] = 0
<1> USE Basics
<1>1. \A e \in Live(R, L) : e \in Envs
  <2>1. \A e \in Loaded : e \in Envs
    BY DEF RInv, Launching, Loaded
  <2>2. \A e \in Dying : e \in Envs
    BY DEF SlotInv, FrameOK, LocalsOK, Frames, Dying, irq
  <2> QED
    BY <2>1, <2>2 DEF RInv, Closed, Strays, Live
<1>2. env_id[ShellEnv] = 0 /\ ShellEnv \notin FreeSlots
  BY DEF SlotInv, FreeOK, FreeSlots
<1>3. ASSUME NEW e \in Live(R, L)
      PROVE  /\ e \notin FreeSlots
             /\ env_id[e] \in Pid /\ env_id[e] < env_counter
             /\ env_id[e] = 0 <=> e = ShellEnv
  <2>1. e # ShellEnv => env_id[e] \in stacks
    BY DEF RInv, Known
  <2>2. /\ stacks \subseteq 1 .. env_counter - 1 /\ env_counter >= 1
        /\ env_id[e] \in Pid /\ env_counter \in Int
    BY <1>1, Ranges DEF SlotInv, TypeOK, FreeOK
  <2>3. e \in FreeSlots => env_id[e] = 0
    BY DEF SlotInv, FreeOK, FreeSlots
  <2>4. CASE e = ShellEnv
    BY <1>2, <2>2, <2>4
  <2>5. CASE e # ShellEnv
    <3>1. env_id[e] \in 1 .. env_counter - 1
      BY <2>1, <2>2, <2>5
    <3> QED
      BY <2>2, <2>3, <2>5, <3>1
  <2> QED
    BY <2>4, <2>5
<1>4. \A d, e \in Live(R, L) : env_id[d] = env_id[e] => d = e
  BY DEF RInv, Known
<1>5. owner \in R
  BY DEF RInv, Closed, Locals, owner
<1> QED
  BY <1>1, <1>2, <1>3, <1>4, <1>5 DEF RInv, Closed, Strays

\* Between interrupts the thread on the CPU is cur_env's, and the shell's when
\* it is thread 0.
LEMMA OnCpu ==
    ASSUME SlotInv, NEW R, NEW L, RInv(R, L), ~Active("irq")
    PROVE  /\ running = env_id[cur_env] /\ cur_env \in R
           /\ running = 0 <=> cur_env = ShellEnv
           /\ owner = cur_env /\ Dying = {}
<1>1. irq.at = "idle"
  BY DEF Active, irq
<1>2. owner = cur_env /\ Dying = {}
  BY <1>1 DEF owner, Dying
<1> QED
  BY <1>2, LiveFacts DEF RInv, Threads, Live

\* What RInv depends on.
ringVars == <<env_map, env_counter, next_env, env_id, context, cur_env, stacks,
              running>>

\* A step outside schedule() that leaves the ring alone, and load_icode()
\* where it is.
LEMMA StillRing ==
    ASSUME SlotInv, NEW R, NEW L, RInv(R, L), ~Active("irq"),
           UNCHANGED ringVars, ~Active("irq")',
           \/ pc'[0] \notin {"map", "link", "walk", "append"}
           \/ /\ pc'[0] = pc[0] /\ UNCHANGED <<new_env, tail>>
              /\ FreeSlots' = FreeSlots
    PROVE  RInv(R, L)'
<1>1. irq.at = "idle" /\ irq'.at = "idle"
  BY DEF Active, irq
<1>2. Dying = {} /\ Dying' = {} /\ owner' = owner
  BY <1>1 DEF Dying, owner, ringVars
<1>3. Loaded' = {} \/ Loaded' = Loaded
  BY DEF Loaded
<1>4. Closed(R)' /\ Ordered(R)'
  BY DEF RInv, Closed, Ordered, ringVars
<1>5. Strays(R, L)'
  BY <1>2, <1>3 DEF RInv, Strays, ringVars
<1>6. Known(R, L)'
  BY <1>2, <1>3 DEF RInv, Known, Live, ringVars
<1>7. Threads(R, L)'
  BY <1>2, <1>3 DEF RInv, Threads, ringVars
<1>8. Locals(R)'
  BY <1>1 DEF Locals
<1>9. Launching(R)'
  BY <1>2 DEF RInv, Launching, ringVars
<1> QED
  BY <1>4, <1>5, <1>6, <1>7, <1>8, <1>9 DEF RInv

\* A step that moves nothing but the locals of schedule().
LEMMA LocalsRing ==
    ASSUME NEW R, NEW L, RInv(R, L), UNCHANGED ringVars, pc'[0] = pc[0],
           UNCHANGED <<new_env, tail, free_env_stack, free_env_stack_top>>,
           Dying' = Dying, owner' = owner, Locals(R)'
    PROVE  RInv(R, L)'
<1>1. Loaded' = Loaded /\ FreeSlots' = FreeSlots
  BY DEF Loaded, FreeSlots
<1>2. Closed(R)' /\ Ordered(R)'
  BY DEF RInv, Closed, Ordered, ringVars
<1>3. Strays(R, L)' /\ Known(R, L)' /\ Threads(R, L)'
  BY <1>1 DEF RInv, Strays, Known, Live, Threads, ringVars
<1>4. Launching(R)'
  BY <1>1 DEF RInv, Launching, ringVars
<1> QED
  BY <1>2, <1>3, <1>4 DEF RInv

\* Entering schedule() from an interrupt or a system call.
LEMMA EnterRing ==
    ASSUME SlotInv, NEW R, NEW L, RInv(R, L), ~Active("irq"), schedule("irq"),
           UNCHANGED ringVars, pc'[0] = pc[0],
           UNCHANGED <<new_env, tail, free_env_stack, free_env_stack_top>>
    PROVE  RInv(R, L)'
<1>1. irq.at = "idle"
  BY DEF Active, irq
<1>2. irq' = Entered
  BY DEF SlotInv, TypeOK, schedule, Frames, irq
<1>3. irq'.at = "scan" /\ irq'.pre = cur_env /\ irq'.tail = next_env[cur_env]
  BY <1>2 DEF Entered
<1>4. Dying' = Dying /\ owner' = owner
  BY <1>1, <1>3 DEF Dying, owner, ringVars
<1>5. Locals(R)'
  BY <1>3 DEF RInv, Closed, Locals, ringVars
<1> QED
  BY <1>4, <1>5, LocalsRing

\* What a step of schedule() does to its locals.
LEMMA IrqStep ==
    ASSUME SlotInv
    PROVE  /\ irq \in Frame
           /\ \A r \in Frame :
                  frame' = [frame EXCEPT !["irq"] = r] => irq' = r
  BY DEF SlotInv, TypeOK, Frames, irq

\* The scan only moves its locals.
LEMMA ScanRing ==
    ASSUME SlotInv, NEW R, NEW L, RInv(R, L), ScheduleStep("irq"),
           \/ ScanEnd("irq") \/ ScanSkip("irq") \/ ScanZombie("irq")
           \/ ScanFound("irq") \/ Follow("irq")
    PROVE  RInv(R, L)'
<1> USE Basics DEF At
<1>0. /\ R \subseteq Envs /\ cur_env \in R
      /\ \A e \in R : next_env[e] \in R
      /\ irq \in Frame
  BY IrqStep DEF RInv, Closed
<1>1. UNCHANGED envVars /\ UNCHANGED <<running, pc, new_env, tail>>
  BY DEF ScanEnd, ScanSkip, ScanZombie, ScanFound, Follow, ScheduleStep,
     shellVars
<1>2. UNCHANGED ringVars /\ UNCHANGED <<free_env_stack, free_env_stack_top>>
  BY <1>1 DEF envVars, ringVars
<1>3. CASE ScanEnd("irq")
  <2>1. irq.at = "scan" /\ irq' = Idle /\ irq'.at = "idle"
    BY <1>3 DEF SlotInv, TypeOK, Frames, Frame, ScanEnd, Idle, irq
  <2> QED
    BY <1>1, <1>2, <2>1, LocalsRing DEF Dying, owner, Locals, ringVars
<1>4. CASE ScanSkip("irq")
  <2>1. /\ irq.at = "scan" /\ irq'.at = "scan" /\ irq'.pre = irq.tail
        /\ irq'.tail = next_env[irq.tail]
    BY <1>4 DEF SlotInv, TypeOK, Frames, Frame, ScanSkip, Scanning, irq
  <2>2. Locals(R)'
    BY <1>0, <1>2, <2>1 DEF RInv, Locals, ringVars
  <2> QED
    BY <1>1, <1>2, <2>1, <2>2, LocalsRing DEF Dying, owner, ringVars
<1>5. CASE ScanZombie("irq")
  <2>1. /\ irq.at = "scan" /\ irq'.at = "unlink" /\ irq'.pre = irq.pre
        /\ irq'.tail = irq.tail /\ irq'.tmp = irq.tail
        /\ irq.tail # cur_env /\ env_status[irq.tail] = "zombie"
    BY <1>5 DEF SlotInv, TypeOK, Frames, Frame, ScanZombie, Scanning, irq
  <2>2. Locals(R)'
    BY <1>0, <1>1, <1>2, <2>1 DEF RInv, Locals, ringVars, envVars
  <2> QED
    BY <1>1, <1>2, <2>1, <2>2, LocalsRing DEF Dying, owner, ringVars
<1>6. CASE ScanFound("irq")
  <2>1. /\ irq.at = "scan" /\ irq'.at = "pick" /\ irq'.pre = irq.pre
        /\ irq'.tail = irq.tail
        /\ irq.tail # cur_env /\ env_status[irq.tail] = "runnable"
    BY <1>6 DEF SlotInv, TypeOK, Frames, Frame, ScanFound, Scanning, Goto, irq
  <2>2. Locals(R)'
    BY <1>0, <1>1, <1>2, <2>1 DEF RInv, Locals, ringVars, envVars
  <2> QED
    BY <1>1, <1>2, <2>1, <2>2, LocalsRing DEF Dying, owner, ringVars
<1>7. CASE Follow("irq")
  <2>1. /\ irq.at = "follow" /\ irq'.at = "reap" /\ irq'.pre = irq.pre
        /\ irq'.tail = next_env[irq.pre] /\ irq'.tmp = irq.tmp
    BY <1>7 DEF SlotInv, TypeOK, Frames, Frame, Follow, irq
  <2>2. Locals(R)'
    BY <1>0, <1>1, <1>2, <2>1 DEF RInv, Locals, ringVars, envVars
  <2> QED
    BY <1>1, <1>2, <2>1, <2>2, LocalsRing DEF Dying, owner, ringVars
<1> QED
  BY <1>3, <1>4, <1>5, <1>6, <1>7

\* No two Envs of the ring point to the same one.
LEMMA NextInjective ==
    ASSUME SlotInv, NEW R, NEW L, RInv(R, L), NEW d \in R, NEW e \in R,
           next_env[d] = next_env[e]
    PROVE  d = e
<1>1. /\ d \in Live(R, L) /\ e \in Live(R, L) /\ next_env[d] \in Live(R, L)
  BY DEF RInv, Closed, Live
<1>2. /\ env_id[d] \in Int /\ env_id[e] \in Int /\ env_id[next_env[d]] \in Int
  BY <1>1, LiveFacts, Ranges
<1>3. env_id[d] <= env_id[e] /\ env_id[e] <= env_id[d]
  BY <1>1, <1>2 DEF RInv, Ordered
<1> QED
  BY <1>1, <1>2, <1>3, LiveFacts

\* The zombie leaves the ring: the pids before and after it are neighbours.
LEMMA UnlinkRing ==
    ASSUME SlotInv, ShellInv, NEW R, NEW L, RInv(R, L), ScheduleStep("irq"),
           Unlink("irq"), NEW z, z = irq.tmp
    PROVE  RInv(R \ {z}, L)'
<1> DEFINE p == irq.pre
           Q == R \ {z}
<1> USE Basics
<1>1. /\ irq.at = "unlink" /\ irq'.at = "follow" /\ irq'.pre = irq.pre
      /\ irq'.tmp = irq.tmp
  BY DEF SlotInv, TypeOK, Frames, Frame, Unlink, Goto, At, irq
<1>2. /\ z \in R /\ p \in R /\ next_env[p] = z /\ z # cur_env
      /\ z # ShellEnv /\ irq.tail = z /\ env_status[z] = "zombie"
  BY <1>1 DEF RInv, Locals, ShellInv
<1>3. next_env[z] \in R /\ next_env[z] # z /\ p # z
  <2>1. next_env[z] \in R /\ env_id[z] \in Int
    BY <1>2, LiveFacts, Ranges DEF RInv, Closed, Live
  <2>2. next_env[z] = z => env_id[z] < env_id[z]
    BY <1>2 DEF RInv, Ordered
  <2> QED
    BY <1>2, <2>1, <2>2
<1>4. /\ next_env' = [next_env EXCEPT ![p] = next_env[z]]
      /\ next_env \in [Envs -> EnvPtr] /\ R \subseteq Envs
      /\ UNCHANGED <<env_map, env_counter, env_id, context, cur_env, stacks,
                     running, free_env_stack, free_env_stack_top, pc,
                     env_status, new_env, tail>>
  BY <1>2 DEF SlotInv, TypeOK, Unlink, Link, ScheduleStep, shellVars, irq,
     RInv, Closed
<1>5. /\ \A e \in R : e # p => next_env'[e] = next_env[e] /\ next_env[e] # z
      /\ \A e \in Envs \ R : next_env'[e] = next_env[e]
      /\ next_env'[p] = next_env[z] /\ next_env'[z] = next_env[z]
  BY <1>2, <1>3, <1>4, NextInjective
<1>6. /\ Dying = {} /\ Dying' = {z} /\ owner' = owner /\ Loaded' = Loaded
      /\ FreeSlots' = FreeSlots
  BY <1>1, <1>4 DEF Dying, owner, Loaded, FreeSlots
<1>7. \A e \in R : env_id[e] \in Int
  BY LiveFacts, Ranges DEF Live
<1>8. Closed(Q)'
  BY <1>2, <1>3, <1>4, <1>5 DEF RInv, Closed
<1>9. Ordered(Q)'
  <2>1. SUFFICES ASSUME NEW e \in Q
                 PROVE  IF next_env'[e] = ShellEnv
                        THEN \A d \in Q : env_id[d] <= env_id[e]
                        ELSE /\ env_id[e] < env_id[next_env'[e]]
                             /\ \A d \in Q : \/ env_id[d] <= env_id[e]
                                             \/ env_id[next_env'[e]]
                                                    <= env_id[d]
    BY <1>4 DEF Ordered
  <2>2. CASE e # p
    BY <1>5, <2>2 DEF RInv, Ordered
  <2>3. CASE e = p
    <3>1. /\ env_id[p] < env_id[z]
          /\ \A d \in R : env_id[d] <= env_id[p] \/ env_id[z] <= env_id[d]
      BY <1>2 DEF RInv, Ordered
    <3>2. \A d \in Q : env_id[d] # env_id[z]
      BY <1>2, LiveFacts DEF Live
    <3>3. CASE next_env[z] = ShellEnv
      <4>1. \A d \in R : env_id[d] <= env_id[z]
        BY <1>2, <3>3 DEF RInv, Ordered
      <4> QED
        BY <1>2, <1>5, <1>7, <2>3, <3>1, <3>2, <3>3, <4>1
    <3>4. CASE next_env[z] # ShellEnv
      <4>1. /\ env_id[z] < env_id[next_env[z]]
            /\ \A d \in R : \/ env_id[d] <= env_id[z]
                            \/ env_id[next_env[z]] <= env_id[d]
        BY <1>2, <3>4 DEF RInv, Ordered
      <4> QED
        BY <1>2, <1>3, <1>5, <1>7, <2>3, <3>1, <3>2, <3>4, <4>1
    <3> QED
      BY <3>3, <3>4
  <2> QED
    BY <2>2, <2>3
<1>10. Strays(Q, L)'
  BY <1>2, <1>3, <1>4, <1>5, <1>6 DEF RInv, Strays
<1>11. Known(Q, L)'
  BY <1>2, <1>4, <1>6 DEF RInv, Known, Live
<1>12. Threads(Q, L)'
  BY <1>4, <1>6 DEF RInv, Threads
<1>13. Locals(Q)'
  BY <1>1, <1>2, <1>3, <1>4 DEF Locals
<1>14. Launching(Q)'
  <2>1. /\ tail \in FreeSlots => tail \in Envs \ R
        /\ new_env \in Loaded => new_env \in Envs \ R
    BY LiveFacts DEF RInv, Strays, Live, SlotInv, FreeOK, FreeSlots
  <2>2. pc[0] \in {"walk", "append"} => new_env \in Loaded
    BY DEF Loaded
  <2> QED
    BY <1>2, <1>4, <1>5, <1>6, <2>1, <2>2 DEF RInv, Launching
<1> QED
  BY <1>8, <1>9, <1>10, <1>11, <1>12, <1>13, <1>14 DEF RInv

\* What freeing the zombie does to the free stack.
LEMMA ReapPushes ==
    ASSUME SlotInv, NEW e, e = irq.tmp, Reap("irq"), e \in Slot,
           e \notin FreeSlots
    PROVE  FreeSlots' = FreeSlots \cup {e}
<1>1. free_env_stack_top < MAX_ENV_NUM
  BY RoomOnStack DEF SlotInv
<1>2. /\ free_env_stack' = [free_env_stack EXCEPT ![free_env_stack_top] = e]
      /\ free_env_stack_top' = free_env_stack_top + 1
      /\ free_env_stack_top \in Slot /\ free_env_stack \in [Slot -> Envs]
      /\ free_env_stack_top \in Nat
      /\ \A i \in 0 .. free_env_stack_top - 1 : i \in Slot
  BY <1>1, Ranges DEF Reap, env_free, SlotInv, TypeOK, irq
<1>3. /\ \A i \in 0 .. free_env_stack_top - 1 :
             free_env_stack'[i] = free_env_stack[i]
      /\ free_env_stack'[free_env_stack_top] = e
      /\ 0 .. free_env_stack_top' - 1
             = (0 .. free_env_stack_top - 1) \cup {free_env_stack_top}
  BY <1>2
<1> QED
  BY <1>3 DEF FreeSlots

\* The zombie is freed: nothing in use pointed to it any more.
LEMMA ReapRing ==
    ASSUME SlotInv, ShellInv, NEW R, NEW L, RInv(R, L), ScheduleStep("irq"),
           Reap("irq")
    PROVE  RInv(R, L)'
<1> DEFINE z == irq.tmp
<1> USE Basics
<1>1. /\ irq.at = "reap" /\ irq'.at = "scan" /\ irq'.pre = irq.pre
      /\ irq'.tail = irq.tail
  BY DEF SlotInv, TypeOK, Frames, Frame, Reap, At, irq
<1>2. Dying = {z} /\ Dying' = {} /\ owner = cur_env /\ owner' = cur_env'
  BY <1>1 DEF Dying, owner
<1>3. /\ z \in Live(R, L) /\ z \notin R /\ z \notin L /\ z \notin Loaded
      /\ z \in Slot
  BY <1>2, LiveFacts DEF RInv, Closed, Strays, Live
<1>4. /\ env_map' = [env_map EXCEPT ![env_id[z]] = NULL]
      /\ stacks' = stacks \ {env_id[z]}
      /\ next_env' = [next_env EXCEPT ![z] = NULL]
      /\ env_id' = [env_id EXCEPT ![z] = 0]
      /\ context' = [context EXCEPT ![z] = NULL]
      /\ UNCHANGED <<env_counter, cur_env, running, pc, new_env, tail>>
  BY DEF Reap, env_free, Unmap, ScheduleStep, shellVars, irq
<1>5. /\ next_env \in [Envs -> EnvPtr] /\ env_id \in [Envs -> Pid]
      /\ context \in [Envs -> Pid \cup {NULL}] /\ env_map \in [Pid -> EnvPtr]
      /\ env_counter \in Int
  BY DEF SlotInv, TypeOK
<1>6. Loaded' = Loaded /\ FreeSlots' = FreeSlots \cup {z}
  BY <1>3, <1>4, LiveFacts, ReapPushes DEF Loaded
<1>7. \A e \in Live(R, L) : e # z =>
          /\ env_id[e] # env_id[z] /\ env_id'[e] = env_id[e]
          /\ next_env'[e] = next_env[e] /\ context'[e] = context[e]
          /\ env_map'[env_id[e]] = env_map[env_id[e]]
          /\ e # ShellEnv => (env_id[e] \in stacks' <=> env_id[e] \in stacks)
  BY <1>3, <1>4, <1>5, LiveFacts
<1>8. Closed(R)' /\ Ordered(R)'
  BY <1>3, <1>4, <1>7 DEF RInv, Closed, Ordered, Live
<1>9. Strays(R, L)'
  <2>1. \A e \in Envs : e # z => next_env'[e] = next_env[e]
    BY <1>4, <1>5
  <2>2. next_env'[z] = NULL
    BY <1>3, <1>4, <1>5
  <2> QED
    BY <1>2, <1>3, <1>6, <2>1, <2>2 DEF RInv, Strays
<1>10. Known(R, L)'
  <2>1. Live(R, L)' = Live(R, L) \ {z}
    BY <1>2, <1>3, <1>6 DEF Live
  <2>2. \A e \in Live(R, L)' : /\ env_map'[env_id'[e]] = e
                               /\ e # ShellEnv => env_id'[e] \in stacks'
    BY <1>7, <2>1 DEF RInv, Known
  <2>3. ASSUME pc[0] = "map" PROVE env_map'[env_counter - 1] = new_env
    <3>1. env_id[z] # env_counter - 1 /\ env_counter - 1 \in Pid
      <4>1. env_id[z] \in stacks /\ env_counter - 1 \notin stacks
        BY <1>3, <2>3 DEF RInv, Known, SlotInv, ShellOK
      <4>2. env_id[new_env] = env_counter - 1 /\ new_env \in Slot
        BY <2>3 DEF SlotInv, ShellOK
      <4> QED
        BY <1>5, <4>1, <4>2
    <3> QED
      BY <1>4, <1>5, <2>3, <3>1 DEF RInv, Known
  <2>4. \A q \in Pid : q >= env_counter => env_map'[q] = NULL
    BY <1>4, <1>5 DEF RInv, Known
  <2> QED
    BY <1>4, <2>2, <2>3, <2>4 DEF Known
<1>11. Threads(R, L)'
  <2>1. cur_env \in Live(R, L) /\ cur_env # z
    BY <1>3 DEF RInv, Closed, Live
  <2> QED
    BY <1>2, <1>3, <1>4, <1>6, <1>7, <2>1 DEF RInv, Threads, Live
<1>12. Locals(R)'
  BY <1>1, <1>3, <1>7 DEF RInv, Locals, Live
<1>13. Launching(R)'
  <2>1. next_env'[z] = NULL
    BY <1>3, <1>4, <1>5
  <2>2. \A e \in Envs : e # z => next_env'[e] = next_env[e]
    BY <1>4, <1>5
  <2>3. FreeSlots \subseteq Envs
    BY DEF SlotInv, FreeOK, FreeSlots
  <2>4. \A e \in Loaded : env_id'[e] = env_id[e] /\ e # z /\ e \in Envs
    BY <1>3, <1>7, LiveFacts DEF Live
  <2>5. pc[0] \in {"link", "walk", "append"} => new_env \in Loaded
    BY DEF Loaded
  <2>6. /\ pc'[0] \in {"link", "walk", "append"} =>
               /\ new_env' \in Slot /\ env_counter' > 1
               /\ env_id'[new_env'] = env_counter' - 1
        /\ pc'[0] \in {"walk", "append"} => next_env'[new_env'] = ShellEnv
    BY <1>4, <2>2, <2>4, <2>5 DEF RInv, Launching
  <2>7. pc'[0] = "walk" =>
            \/ tail \in R \cup {NULL} \cup Dying'
            \/ tail \in FreeSlots' /\ next_env'[tail] = NULL
    BY <1>2, <1>3, <1>4, <1>6, <2>1, <2>2, <2>3 DEF RInv, Launching
  <2>8. pc'[0] = "append" =>
            \/ tail \in R /\ next_env'[tail] = ShellEnv
            \/ tail \in Dying' \cup FreeSlots'
    BY <1>2, <1>3, <1>4, <1>6, <2>2, LiveFacts DEF RInv, Launching
  <2> QED
    BY <1>4, <2>6, <2>7, <2>8 DEF Launching
<1> QED
  BY <1>8, <1>9, <1>10, <1>11, <1>12, <1>13 DEF RInv

\* cur_env moves first, the CPU's thread follows it in switch_to.
LEMMA SwitchRing ==
    ASSUME SlotInv, NEW R, NEW L, RInv(R, L), ScheduleStep("irq"),
           Pick("irq") \/ Switch("irq")
    PROVE  RInv(R, L)'
<1> USE Basics
<1>0. /\ UNCHANGED <<env_map, env_counter, next_env, env_id, stacks, pc,
                     free_env_stack, free_env_stack_top, new_env, tail>>
      /\ R \subseteq Envs /\ cur_env \in R /\ L \subseteq Slot
  BY LiveFacts DEF Pick, Switch, ScheduleStep, shellVars, RInv, Closed
<1>1. CASE Pick("irq")
  <2>1. /\ irq.at = "pick" /\ irq'.at = "switch" /\ irq'.pre = cur_env
    BY <1>1 DEF SlotInv, TypeOK, Frames, Frame, Pick, At, irq
  <2>2. /\ cur_env' = irq.tail /\ irq.tail \in R /\ irq.tail # cur_env
        /\ UNCHANGED <<running, context>>
    BY <1>1, <2>1 DEF Pick, irq, RInv, Locals
  <2>3. Dying = {} /\ Dying' = {} /\ owner' = owner
    BY <2>1 DEF Dying, owner
  <2>4. Loaded' = Loaded /\ FreeSlots' = FreeSlots
    BY <1>0 DEF Loaded, FreeSlots
  <2>5. Closed(R)' /\ Ordered(R)'
    BY <1>0, <2>2 DEF RInv, Closed, Ordered
  <2>6. Strays(R, L)' /\ Known(R, L)' /\ Threads(R, L)'
    BY <1>0, <2>2, <2>3, <2>4 DEF RInv, Strays, Known, Live, Threads
  <2>7. Locals(R)'
    BY <1>0, <2>1, <2>2 DEF Locals
  <2>8. Launching(R)'
    BY <1>0, <2>3, <2>4 DEF RInv, Launching
  <2> QED
    BY <2>5, <2>6, <2>7, <2>8 DEF RInv
<1>2. CASE Switch("irq")
  <2>1. irq.at = "switch" /\ irq'.at = "idle"
    BY <1>2 DEF SlotInv, TypeOK, Frames, Frame, Switch, At, irq, Idle
  <2>2. irq.pre \in R /\ irq.pre # cur_env /\ cur_env' = cur_env
    BY <1>2, <2>1 DEF RInv, Locals, Switch
  <2>3. Dying = {} /\ Dying' = {} /\ owner = irq.pre /\ owner' = cur_env
    BY <2>1, <2>2 DEF Dying, owner
  <2>4. Loaded' = Loaded /\ FreeSlots' = FreeSlots
    BY <1>0 DEF Loaded, FreeSlots
  <2>5. Closed(R)' /\ Ordered(R)'
    BY <1>0, <2>2 DEF RInv, Closed, Ordered
  <2>6. Strays(R, L)' /\ Known(R, L)'
    BY <1>0, <2>2, <2>3, <2>4 DEF RInv, Strays, Known, Live
  <2>7. Threads(R, L)'
    <3>1. /\ running' = context[cur_env]
          /\ context' = [context EXCEPT ![irq.pre] = running,
                                        ![cur_env] = NULL]
          /\ context \in [Envs -> Pid \cup {NULL}]
      BY <1>2, <2>2 DEF Switch, irq, SlotInv, TypeOK
    <3>2. context[cur_env] = env_id[cur_env] /\ running = env_id[irq.pre]
      BY <1>0, <2>2, <2>3 DEF RInv, Threads
    <3>3. \A e \in R \cup L \cup Loaded : e \in Envs
      BY LiveFacts DEF Live
    <3>4. \A e \in R \cup L \cup Loaded :
              e # cur_env => context'[e] = env_id[e]
      <4>1. TAKE e \in R \cup L \cup Loaded
      <4>2. CASE e = irq.pre
        BY <3>1, <3>2, <3>3, <4>2, <2>2
      <4>3. CASE e # irq.pre
        BY <3>1, <3>3, <4>3, <2>3 DEF RInv, Threads
      <4> QED
        BY <4>2, <4>3
    <3> QED
      BY <1>0, <2>2, <2>3, <2>4, <3>1, <3>2, <3>4 DEF Threads
  <2>8. Locals(R)'
    BY <2>1 DEF Locals
  <2>9. Launching(R)'
    BY <1>0, <2>3, <2>4 DEF RInv, Launching
  <2> QED
    BY <2>5, <2>6, <2>7, <2>8, <2>9 DEF RInv
<1> QED
  BY <1>1, <1>2

\* schedule() keeps the ring; it meets neither a NULL link nor a zombie
\* without a stack.
LEMMA ScheduleRing ==
    ASSUME SlotInv, ShellInv, NEW R \in SUBSET Envs, NEW L \in SUBSET Envs,
           RInv(R, L), NEW f \in Frames, ScheduleStep(f)
    PROVE  /\ f = "irq"
           /\ ~ScanNull("irq") /\ ~ReapPanics("irq")
           /\ \E Q \in SUBSET Envs : RInv(Q, L)'
<1> USE Basics
<1>1. f = "irq"
  BY DEF ShellInv, Idle, Frames, ScheduleStep, Scheduling, ScanNull, ScanEnd,
     ScanSkip, Scanning, ScanZombie, ScanFound, Unlink, Follow, Reap,
     ReapPanics, Pick, Switch, At
<1>2. ~ScanNull("irq")
  BY LiveFacts DEF ScanNull, At, RInv, Locals, irq
<1>3. ~ReapPanics("irq")
  <2> SUFFICES ASSUME ReapPanics("irq") PROVE FALSE
    OBVIOUS
  <2>1. irq.at = "reap" /\ env_id[irq.tmp] \notin stacks
    BY DEF ReapPanics, At, irq
  <2>2. irq.tmp \in Live(R, L) /\ irq.tmp \notin R
    BY <2>1 DEF Dying, Live, RInv, Strays
  <2> QED
    BY <2>1, <2>2 DEF RInv, Known, Closed
<1>4. \E Q \in SUBSET Envs : RInv(Q, L)'
  <2>1. \/ \/ ScanEnd("irq") \/ ScanSkip("irq") \/ ScanZombie("irq")
           \/ ScanFound("irq") \/ Follow("irq")
        \/ Unlink("irq") \/ Reap("irq") \/ Pick("irq") \/ Switch("irq")
    BY <1>1, <1>2, <1>3 DEF ScheduleStep, Scheduling
  <2>2. ScheduleStep("irq")
    BY <1>1
  <2>3. CASE Unlink("irq")
    <3>1. PICK z : z = irq.tmp
      OBVIOUS
    <3>2. R \ {z} \in SUBSET Envs
      OBVIOUS
    <3> QED
      BY <2>2, <2>3, <3>1, <3>2, UnlinkRing
  <2> QED
    BY <2>1, <2>2, <2>3, ScanRing, ReapRing, SwitchRing
<1> QED
  BY <1>1, <1>2, <1>3, <1>4

----------------------------------------------------------------------------
\* The running thread and the shell's label agree.
LEMMA Thread ==
    ASSUME SlotInv, NEW label, PcTo(label), running \in Pid
    PROVE  /\ running = 0 => pc'[0] = label
           /\ running # 0 => pc'[0] = pc[0]
  BY Basics DEF SlotInv, TypeOK, PcTo

\* The shell stays in its loop, alive and in the foreground.
LEMMA ShellSteps ==
    ASSUME Orderly, SlotInv, PopOK, ShellInv, NEW R \in SUBSET Envs,
           NEW L \in SUBSET Envs, RInv(R, L), Next
    PROVE  ShellInv'
<1> USE Basics
<1>0. /\ pc \in [Pid -> Label] /\ frame \in [Frames -> Frame]
      /\ env_status \in [Envs -> Status] /\ bg \in [Envs -> BOOLEAN]
      /\ cur_env \in Envs /\ running \in Pid
      /\ (~Active("irq") => (running = 0 <=> cur_env = ShellEnv))
  BY LiveFacts, OnCpu DEF SlotInv, TypeOK, RInv, Threads, Live
<1>1. CASE \E f \in Frames : ScheduleStep(f)
  <2>1. ScheduleStep("irq") /\ ~ScanNull("irq") /\ ~ReapPanics("irq")
    BY <1>1, ScheduleRing
  <2>2. frame'["shell"] = frame["shell"] /\ UNCHANGED <<pc, buffer, runinfo>>
    BY <1>0, <2>1 DEF ScheduleStep, Scheduling, ScanEnd, ScanSkip, ScanZombie,
       ScanFound, Unlink, Follow, Reap, Pick, Switch, Goto, inputVars,
       shellVars, Frames
  <2>3. CASE Reap("irq")
    <3>1. irq.tmp # ShellEnv
      BY <2>3 DEF Reap, At, irq, RInv, Strays, Closed, Dying
    <3>2. /\ env_status'[ShellEnv] = env_status[ShellEnv]
          /\ bg'[ShellEnv] = bg[ShellEnv] /\ has_front_env' = has_front_env
      BY <1>0, <2>3, <3>1 DEF Reap, env_free, irq
    <3> QED
      BY <2>2, <3>2 DEF ShellInv
  <2>4. CASE ~Reap("irq")
    <3>1. UNCHANGED <<env_status, bg, has_front_env>>
      BY <2>1, <2>4 DEF ScheduleStep, Scheduling, ScanEnd, ScanSkip,
         ScanZombie, ScanFound, Unlink, Follow, Pick, Switch, envVars
    <3> QED
      BY <2>2, <3>1 DEF ShellInv
  <2> QED
    BY <2>3, <2>4
<1>2. CASE Tick \/ \E line \in Lines : Key(line)
  BY <1>0, <1>2 DEF Tick, Key, schedule, ShellInv, Frames, inputVars,
     shellVars, envVars, schedVars
<1>3. CASE CtrlB
  BY <1>3 DEF CtrlB, ShellInv
<1>4. CASE \E s \in Syscalls : Call(s)
  <2>1. PICK s \in Syscalls : Call(s)
    BY <1>4
  <2>2. pc[running] = "user" /\ running # 0
    BY <2>1 DEF Call, ShellInv
  <2> QED
    BY <1>0, <2>1, <2>2, Thread DEF Call, ShellInv, inputVars, shellVars,
       envVars
<1>5. CASE Cputc \/ CputcBlocks \/ Destroy \/ DestroyReturns
  <2>1. running # 0 /\ cur_env # ShellEnv /\ ~Active("irq")
    BY <1>0, <1>5 DEF Cputc, CputcBlocks, Destroy, DestroyReturns, InCall,
       ShellInv
  <2>2. /\ pc'[0] = pc[0] /\ frame'["shell"] = frame["shell"]
        /\ env_status'[ShellEnv] = env_status[ShellEnv]
        /\ UNCHANGED <<bg, buffer, runinfo>>
        /\ ~has_front_env'
    BY <1>0, <1>5, <2>1 DEF Cputc, CputcBlocks, Destroy, DestroyReturns, PcTo,
       Yield, Hang, SetStatus, schedule, Frames, ShellInv, envVars, inputVars,
       shellVars
  <2> QED
    BY <2>2 DEF ShellInv
<1>6. CASE CgetcBlocks
  <2>1. running # 0 /\ cur_env # ShellEnv
    BY <1>0, <1>6 DEF CgetcBlocks, InCall, ShellInv
  <2> QED
    BY <1>0, <1>6, <2>1 DEF CgetcBlocks, Yield, PcTo, SetStatus, schedule,
       Frames, ShellInv, inputVars, shellVars
<1>7. CASE Cgetc \/ CgetcResumes
  BY <1>0, <1>7 DEF Cgetc, CgetcResumes, TakeInput, PcTo, ShellInv, Fg,
     envVars
<1>8. CASE \/ Getline \/ Jobs \/ JobsNext \/ JobsEnd \/ Launch \/ Alloc
           \/ PopStore \/ PopRead \/ MapEnv \/ LinkEnv \/ WalkNext \/ WalkEnd
           \/ Append
  <2>1. /\ UNCHANGED <<env_status, bg, has_front_env, frame, buffer, runinfo>>
        /\ running = 0
    BY <1>8 DEF Getline, Jobs, JobsNext, JobsEnd, Launch, Alloc, PopStore,
       PopRead, MapEnv, LinkEnv, WalkNext, WalkEnd, Append, ShellAt, envVars,
       schedVars, inputVars, shellVars
  <2>2. \/ pc' = pc
        \/ pc'[0] \in {"cgetc", "jobs", "getline", "alloc", "pop_store",
                       "pop_read", "register", "link", "walk", "append"}
    BY <1>0, <1>8, <2>1 DEF Getline, Jobs, JobsNext, JobsEnd, Launch, Alloc,
       PopStore, PopRead, MapEnv, LinkEnv, WalkNext, WalkEnd, Append, PcTo,
       schedVars
  <2> QED
    BY <2>1, <2>2 DEF ShellInv, Fg
<1>9. CASE CheckPid
  <2>1. /\ UNCHANGED <<env_status, bg, has_front_env, frame, buffer, runinfo>>
        /\ running = 0 /\ runinfo.cmd \in PidCmds
    BY <1>9 DEF CheckPid, ShellAt, envVars, inputVars, shellVars
  <2>2. runinfo \in Lines /\ runinfo.cmd # "fg"
    BY <2>1 DEF ShellInv, Orderly, NoLine, PidCmds
  <2>3. \/ pc'[0] = "getline"
        \/ pc'[0] = "act" /\ runinfo.pid # NULL
    <3>1. CASE check_pid(runinfo.pid)
      BY <1>0, <1>9, <2>1, <2>2, <3>1 DEF CheckPid, PcTo, check_pid
    <3>2. CASE ~check_pid(runinfo.pid)
      <4>1. PcTo("getline")
        BY <1>9, <3>2 DEF CheckPid
      <4> QED
        BY <1>0, <2>1, <4>1 DEF PcTo
    <3> QED
      BY <3>1, <3>2
  <2>4. runinfo.pid \in Pid \cup {NULL}
    BY <2>2, KernelAssumption DEF Line
  <2> QED
    BY <2>1, <2>2, <2>3, <2>4 DEF ShellInv, Fg
<1>10. CASE TargetGone \/ ShellFails
  BY <1>0, <1>10 DEF TargetGone, ShellFails, Hang, ShellInv, Fg, Frames,
     envVars, inputVars, shellVars, ShellAt
<1>11. CASE ChangeStatus
  <2>1. /\ pc[0] = "act" /\ running = 0 /\ pc'[0] = "getline"
        /\ env_status' = [env_status EXCEPT ![Target]
                              = NewStatus[runinfo.cmd]]
        /\ UNCHANGED <<bg, has_front_env, frame, buffer, runinfo>>
    BY <1>0, <1>11 DEF ChangeStatus, ShellAt, PcTo, SetStatus, ShellInv, Fg,
       inputVars, shellVars
  <2>2. /\ runinfo \in Lines /\ runinfo.pid \in Pid
        /\ runinfo.cmd \in {"stop", "bring", "kill"}
    BY <2>1 DEF ShellInv, Orderly, PidCmds
  <2>3. ASSUME Target = ShellEnv PROVE runinfo.cmd # "kill"
    <3>1. runinfo.pid = 0
      BY <2>2, <2>3 DEF SlotInv, MapOK, MapSound, FreeOK, Target
    <3> QED
      BY <2>2, <3>1 DEF Orderly
  <2>4. env_status'[ShellEnv] # "zombie"
    <3>1. CASE Target = ShellEnv
      BY <1>0, <2>1, <2>2, <2>3, <3>1 DEF NewStatus
    <3>2. CASE Target # ShellEnv
      BY <1>0, <2>1, <3>2 DEF ShellInv
    <3> QED
      BY <3>1, <3>2
  <2> QED
    BY <2>1, <2>4 DEF ShellInv, Fg
<1>12. CASE FgTarget \/ FgFront \/ FgSchedule
  BY <1>12 DEF FgTarget, FgFront, FgSchedule, ShellAt, ShellInv, Fg
<1>13. CASE RegisterEnv
  <2>1. /\ new_env \in Slot /\ new_env # ShellEnv
        /\ pc'[0] = "map"
        /\ env_status' = [env_status EXCEPT ![new_env] = "runnable"]
        /\ bg' = [bg EXCEPT ![new_env] = runinfo.bg]
        /\ UNCHANGED <<has_front_env, frame, buffer, runinfo>>
    BY <1>0, <1>13 DEF RegisterEnv, Register, ShellAt, PcTo, SlotInv, ShellOK,
       inputVars, shellVars
  <2> QED
    BY <1>0, <2>1 DEF ShellInv, Fg
<1> QED
  BY <1>1, <1>2, <1>3, <1>4, <1>5, <1>6, <1>7, <1>8, <1>9, <1>10, <1>11,
     <1>12, <1>13 DEF Next, KernelStep, ShellStep, Frames

\* What a step of load_icode() finds.
LEMMA LoadFacts ==
    ASSUME SlotInv, NEW R, NEW L, RInv(R, L), NEW label, ShellAt(label)
    PROVE  /\ irq.at = "idle" /\ Dying = {} /\ owner = cur_env
           /\ running = 0 /\ cur_env = ShellEnv /\ pc[0] = label
           /\ R \subseteq Envs /\ L \subseteq Slot
           /\ env_id[ShellEnv] = 0 /\ ShellEnv \in R
  BY OnCpu, LiveFacts DEF ShellAt, Active, irq, RInv, Closed

\* Everything but schedule() and load_icode() leaves the ring alone.
LEMMA RestRing ==
    ASSUME Orderly, SlotInv, PopOK, ShellInv, NEW R, NEW L, RInv(R, L), Next,
           ~ScheduleStep("irq"), ~ScheduleStep("shell"),
           ~RegisterEnv, ~MapEnv, ~LinkEnv, ~WalkNext, ~WalkEnd, ~Append
    PROVE  RInv(R, L)'
<1> USE Basics
<1>0. /\ pc \in [Pid -> Label] /\ running \in Pid
      /\ frame \in [Frames -> Frame]
  BY LiveFacts DEF SlotInv, TypeOK, RInv, Threads, Live
<1>1. CASE Tick
  BY <1>1, EnterRing DEF Tick, IntrOn, envVars, ringVars, shellVars
<1>2. CASE \/ \E line \in Lines : Key(line)
           \/ \E s \in Syscalls : Call(s)
           \/ CtrlB \/ Cputc \/ Cgetc \/ CgetcResumes \/ DestroyReturns
  <2>1. /\ ~Active("irq") /\ UNCHANGED ringVars
        /\ UNCHANGED <<free_env_stack, free_env_stack_top, new_env, tail>>
    BY <1>2 DEF Key, Call, CtrlB, Cputc, Cgetc, CgetcResumes, DestroyReturns,
       IntrOn, InCall, TakeInput, SetBg, envVars, schedVars, inputVars,
       shellVars, ringVars
  <2>4. ~Active("irq")'
    <3>1. CASE DestroyReturns
      BY <3>1 DEF DestroyReturns, Hang, Active, Frames, Idle
    <3>2. CASE ~DestroyReturns
      BY <1>2, <2>1, <3>2 DEF Key, Call, CtrlB, Cputc, Cgetc, CgetcResumes,
         TakeInput, Active, schedVars
    <3> QED
      BY <3>1, <3>2
  <2>2. \/ pc'[0] = pc[0]
        \/ pc'[0] \notin {"map", "link", "walk", "append"}
    BY <1>0, <1>2, KernelAssumption DEF Key, Call, CtrlB, Cputc, Cgetc,
       CgetcResumes, DestroyReturns, TakeInput, Hang, PcTo, schedVars
  <2>3. FreeSlots' = FreeSlots
    BY <2>1 DEF FreeSlots
  <2> QED
    BY <2>1, <2>2, <2>3, <2>4, StillRing
<1>3. CASE CputcBlocks \/ CgetcBlocks \/ Destroy
  <2>1. /\ ~Active("irq") /\ schedule("irq") /\ UNCHANGED ringVars
        /\ UNCHANGED <<free_env_stack, free_env_stack_top, new_env, tail>>
    BY <1>3 DEF CputcBlocks, CgetcBlocks, Destroy, InCall, Yield, shellVars,
       ringVars
  <2>2. pc'[0] = pc[0]
    <3>1. running # 0
      BY <1>0, <1>3, OnCpu DEF CputcBlocks, CgetcBlocks, Destroy, InCall,
         ShellInv
    <3> QED
      BY <1>0, <1>3, <3>1 DEF CputcBlocks, CgetcBlocks, Destroy, PcTo
  <2> QED
    BY <2>1, <2>2, EnterRing
<1>4. CASE \/ Getline \/ CheckPid \/ TargetGone \/ ChangeStatus \/ FgTarget
           \/ FgFront \/ FgSchedule \/ Jobs \/ JobsNext \/ JobsEnd
           \/ Launch \/ Alloc \/ PopStore \/ PopRead \/ ShellFails
  <2>1. /\ ~FgTarget /\ ~FgFront /\ ~FgSchedule
    BY DEF FgTarget, FgFront, FgSchedule, ShellAt, ShellInv, Fg
  <2>2. /\ ~Active("irq") /\ running = 0 /\ UNCHANGED ringVars
    BY <1>4, <2>1 DEF Getline, CheckPid, TargetGone, ChangeStatus, Jobs,
       JobsNext, JobsEnd, Launch, Alloc, PopStore, PopRead, ShellFails,
       ShellAt, envVars, schedVars, ringVars
  <2>3. ~Active("irq")'
    <3>1. CASE TargetGone \/ ShellFails
      BY <3>1 DEF TargetGone, ShellFails, Hang, Active, Frames, Idle
    <3>2. CASE ~TargetGone /\ ~ShellFails
      BY <1>4, <2>1, <2>2, <3>2 DEF Getline, CheckPid, ChangeStatus, Jobs,
         JobsNext, JobsEnd, Launch, Alloc, PopStore, PopRead, Active,
         schedVars
    <3> QED
      BY <3>1, <3>2
  <2>4. pc'[0] \notin {"map", "link", "walk", "append"}
    <3>1. CASE ShellFails \/ TargetGone
      BY <1>0, <2>2, <3>1 DEF ShellFails, TargetGone, Hang
    <3>2. CASE CheckPid
      <4>1. runinfo.cmd # "fg"
        BY <3>2 DEF CheckPid, ShellInv, Orderly, NoLine, PidCmds
      <4>2. CASE check_pid(runinfo.pid)
        BY <1>0, <2>2, <3>2, <4>1, <4>2 DEF CheckPid, PcTo
      <4>3. CASE ~check_pid(runinfo.pid)
        BY <1>0, <2>2, <3>2, <4>3 DEF CheckPid, PcTo
      <4> QED
        BY <4>2, <4>3
    <3>3. CASE Jobs \/ JobsNext \/ JobsEnd
      BY <1>0, <2>2, <3>3 DEF Jobs, JobsNext, JobsEnd, PcTo, ShellAt,
         schedVars
    <3>4. CASE \/ Getline \/ ChangeStatus \/ Launch \/ Alloc \/ PopStore
               \/ PopRead
      BY <1>0, <2>2, <3>4 DEF Getline, ChangeStatus, Launch, Alloc, PopStore,
         PopRead, PcTo
    <3> QED
      BY <1>4, <2>1, <3>1, <3>2, <3>3, <3>4
  <2> QED
    BY <2>2, <2>3, <2>4, StillRing
<1> QED
  BY <1>1, <1>2, <1>3, <1>4 DEF Next, KernelStep, ShellStep

\* load_icode() prepares the new process outside the ring.
LEMMA LoadRing ==
    ASSUME SlotInv, NEW R, NEW L, RInv(R, L),
           RegisterEnv \/ MapEnv \/ LinkEnv \/ WalkNext \/ WalkEnd
    PROVE  RInv(R, L)'
<1> USE Basics
<1>0. /\ next_env \in [Envs -> EnvPtr] /\ env_id \in [Envs -> Pid]
      /\ context \in [Envs -> Pid \cup {NULL}] /\ env_map \in [Pid -> EnvPtr]
      /\ env_counter \in 1 .. MAX_ENV_NUM /\ pc \in [Pid -> Label]
      /\ frame \in [Frames -> Frame]
  BY DEF SlotInv, TypeOK
<1>1. PICK label : ShellAt(label)
  BY DEF RegisterEnv, MapEnv, LinkEnv, WalkNext, WalkEnd
<1>2. /\ irq.at = "idle" /\ Dying = {} /\ owner = cur_env
      /\ running = 0 /\ cur_env = ShellEnv
      /\ R \subseteq Envs /\ L \subseteq Slot
      /\ env_id[ShellEnv] = 0 /\ ShellEnv \in R
  BY <1>1, LoadFacts
<1>3. /\ irq' = irq /\ Dying' = {} /\ cur_env' = cur_env
      /\ running' = running /\ owner' = cur_env
      /\ UNCHANGED <<free_env_stack, free_env_stack_top, new_env>>
      /\ FreeSlots' = FreeSlots
  <2>1. /\ UNCHANGED <<frame, cur_env, running, free_env_stack,
                       free_env_stack_top, new_env>>
    BY DEF RegisterEnv, MapEnv, LinkEnv, WalkNext, WalkEnd, shellVars,
       envVars, schedVars
  <2> QED
    BY <1>2, <2>1 DEF irq, Dying, owner, FreeSlots
<1>4. Locals(R)'
  BY <1>2, <1>3 DEF Locals
<1>5. CASE RegisterEnv
  <2>1. /\ pc[0] = "register" /\ pc'[0] = "map" /\ new_env \in Slot
        /\ env_id[new_env] = 0 /\ env_counter \in Pid
        /\ env_id' = [env_id EXCEPT ![new_env] = env_counter]
        /\ env_map' = [env_map EXCEPT ![env_counter] = new_env]
        /\ env_counter' = env_counter + 1
        /\ UNCHANGED <<next_env, context, stacks>>
    BY <1>0, <1>2, <1>5, Ranges DEF RegisterEnv, Register, ShellAt, PcTo,
       SlotInv, ShellOK
  <2>2. Loaded = {} /\ Loaded' = {}
    BY <2>1 DEF Loaded
  <2>3. \A e \in R \cup L :
            /\ e # new_env /\ env_id'[e] = env_id[e]
            /\ env_map'[env_id[e]] = env_map[env_id[e]]
    <3>1. \A e \in R \cup L :
              /\ e \in Envs /\ env_id[e] \in Pid /\ env_id[e] # env_counter
              /\ env_id[e] = 0 => e = ShellEnv
      BY <1>0, LiveFacts DEF Live, Pid
    <3> QED
      BY <1>0, <2>1, <3>1
  <2>4. Closed(R)' /\ Ordered(R)'
    BY <1>3, <2>1, <2>3 DEF RInv, Closed, Ordered
  <2>5. Strays(R, L)'
    BY <1>2, <1>3, <2>1, <2>2 DEF RInv, Strays
  <2>6. Known(R, L)'
    <3>1. env_counter + 1 - 1 = env_counter
      BY <1>0
    <3>2. \A p \in Pid : p >= env_counter' => env_map'[p] = NULL
      BY <1>0, <2>1, Ranges DEF RInv, Known
    <3> QED
      BY <1>0, <1>2, <1>3, <2>1, <2>2, <2>3, <3>1, <3>2 DEF RInv, Known, Live
  <2>7. Threads(R, L)'
    BY <1>2, <1>3, <2>1, <2>2, <2>3 DEF RInv, Threads
  <2>8. Launching(R)'
    BY <2>1 DEF Launching
  <2> QED
    BY <1>4, <2>4, <2>5, <2>6, <2>7, <2>8 DEF RInv
<1>6. CASE MapEnv
  <2>1. /\ pc[0] = "map" /\ pc'[0] = "link" /\ new_env \in Slot
        /\ env_id[new_env] = env_counter - 1 /\ env_counter > 1
        /\ env_counter - 1 \notin stacks
        /\ stacks' = stacks \cup {env_id[new_env]}
        /\ context' = [context EXCEPT ![new_env] = env_id[new_env]]
        /\ env_map[env_counter - 1] = new_env
        /\ UNCHANGED <<next_env, env_id, env_map, env_counter>>
    BY <1>0, <1>2, <1>6 DEF MapEnv, MapStack, ShellAt, PcTo, SlotInv, ShellOK,
       RInv, Known
  <2>2. Loaded = {} /\ Loaded' = {new_env}
    BY <1>3, <2>1 DEF Loaded
  <2>3. new_env \notin R \cup L
    BY <2>1 DEF RInv, Known, Live
  <2>4. Closed(R)' /\ Ordered(R)'
    BY <1>3, <2>1 DEF RInv, Closed, Ordered
  <2>5. Strays(R, L)'
    BY <1>2, <1>3, <2>1, <2>2, <2>3 DEF RInv, Strays
  <2>6. Known(R, L)'
    BY <1>2, <1>3, <2>1, <2>2, <2>3 DEF RInv, Known, Live
  <2>7. Threads(R, L)'
    BY <1>0, <1>2, <1>3, <2>1, <2>2, <2>3 DEF RInv, Threads
  <2>8. Launching(R)'
    BY <1>3, <2>1 DEF Launching
  <2> QED
    BY <1>4, <2>4, <2>5, <2>6, <2>7, <2>8 DEF RInv
<1>7. CASE LinkEnv
  <2>1. /\ pc[0] = "link" /\ pc'[0] = "walk"
        /\ next_env' = [next_env EXCEPT ![new_env] = ShellEnv]
        /\ tail' = ShellEnv
        /\ UNCHANGED <<env_id, env_map, env_counter, stacks, context>>
    BY <1>0, <1>2, <1>7 DEF LinkEnv, Link, ShellAt, PcTo
  <2>2. Loaded = {new_env} /\ Loaded' = {new_env}
    BY <1>3, <2>1 DEF Loaded
  <2>3. new_env \notin R \cup L /\ new_env \in Slot
    BY <2>1, <2>2 DEF RInv, Strays, Launching
  <2>4. Closed(R)' /\ Ordered(R)'
    BY <1>0, <1>2, <1>3, <2>1, <2>3 DEF RInv, Closed, Ordered
  <2>5. Strays(R, L)'
    BY <1>0, <1>2, <1>3, <2>1, <2>2, <2>3 DEF RInv, Strays
  <2>6. Known(R, L)'
    BY <1>2, <1>3, <2>1, <2>2 DEF RInv, Known, Live
  <2>7. Threads(R, L)'
    BY <1>2, <1>3, <2>1, <2>2 DEF RInv, Threads
  <2>8. Launching(R)'
    BY <1>0, <1>2, <1>3, <2>1, <2>3 DEF RInv, Launching
  <2> QED
    BY <1>4, <2>4, <2>5, <2>6, <2>7, <2>8 DEF RInv
<1>8. CASE WalkNext \/ WalkEnd
  <2>1. UNCHANGED ringVars /\ pc[0] = "walk"
    BY <1>2, <1>8 DEF WalkNext, WalkEnd, ShellAt, envVars, schedVars, ringVars
  <2>2. /\ \/ tail \in R
           \/ tail \in FreeSlots /\ next_env[tail] = NULL
        /\ Loaded = {new_env} /\ Loaded' = {new_env}
    <3>1. tail # NULL /\ pc'[0] \in {"walk", "append"}
      BY <1>0, <1>2, <1>8 DEF WalkNext, WalkEnd, ShellAt, PcTo, schedVars
    <3>2. Loaded = {new_env} /\ Loaded' = {new_env}
      BY <1>3, <2>1, <3>1 DEF Loaded
    <3> QED
      BY <1>2, <2>1, <3>1, <3>2 DEF RInv, Launching
  <2>3. Closed(R)' /\ Ordered(R)'
    BY <2>1 DEF RInv, Closed, Ordered, ringVars
  <2>4. Strays(R, L)' /\ Threads(R, L)' /\ Known(R, L)'
    <3>1. pc'[0] # "map"
      BY <1>0, <1>2, <1>8 DEF WalkNext, WalkEnd, ShellAt, PcTo, schedVars
    <3> QED
      BY <1>2, <1>3, <2>1, <2>2, <3>1 DEF RInv, Strays, Threads, Known, Live,
         ringVars
  <2>5. Launching(R)'
    <3>1. CASE WalkNext
      <4>1. tail' = next_env[tail] /\ pc' = pc
        BY <3>1 DEF WalkNext, schedVars
      <4>2. tail' \in R \cup {NULL}
        BY <2>2, <4>1 DEF RInv, Closed
      <4> QED
        BY <1>3, <2>1, <4>1, <4>2 DEF RInv, Launching, ringVars
    <3>2. CASE WalkEnd
      <4>1. tail' = tail /\ pc'[0] = "append" /\ next_env[tail] = ShellEnv
        BY <1>0, <1>2, <3>2 DEF WalkEnd, PcTo, shellVars
      <4> QED
        BY <1>3, <2>1, <2>2, <4>1 DEF RInv, Launching, ringVars
    <3> QED
      BY <1>8, <3>1, <3>2
  <2> QED
    BY <1>4, <2>3, <2>4, <2>5 DEF RInv
<1> QED
  BY <1>5, <1>6, <1>7, <1>8

\* Appended to an Env of the ring, the new process is the last of the ring;
\* appended to an Env that was freed meanwhile, it is lost.
LEMMA AppendRing ==
    ASSUME SlotInv, NEW R \in SUBSET Envs, NEW L \in SUBSET Envs, RInv(R, L),
           Append
    PROVE  \E Q, M \in SUBSET Envs : RInv(Q, M)'
<1> USE Basics
<1>0. /\ next_env \in [Envs -> EnvPtr] /\ env_id \in [Envs -> Pid]
      /\ env_counter \in 1 .. MAX_ENV_NUM /\ pc \in [Pid -> Label]
  BY DEF SlotInv, TypeOK
<1>1. ShellAt("append")
  BY DEF Append
<1>2. /\ irq.at = "idle" /\ Dying = {} /\ owner = cur_env
      /\ running = 0 /\ cur_env = ShellEnv /\ pc[0] = "append"
      /\ env_id[ShellEnv] = 0 /\ ShellEnv \in R /\ L \subseteq Slot
  BY <1>1, LoadFacts
<1>3. /\ next_env' = [next_env EXCEPT ![tail] = new_env]
      /\ pc'[0] = "getline"
      /\ UNCHANGED <<env_map, env_counter, env_id, context, cur_env, stacks,
                     running, frame, free_env_stack, free_env_stack_top>>
  BY <1>0, <1>2 DEF Append, Link, PcTo
<1>4. /\ irq'.at = "idle" /\ Dying' = {} /\ owner' = cur_env
      /\ Loaded = {new_env} /\ Loaded' = {}
  BY <1>2, <1>3 DEF irq, Dying, owner, Loaded
<1>5. PICK n : n = new_env
  OBVIOUS
<1>6. /\ n \in Slot /\ n \notin R \cup L /\ n # ShellEnv
      /\ env_id[n] = env_counter - 1 /\ next_env[n] = ShellEnv
      /\ env_map[env_id[n]] = n /\ env_id[n] \in stacks
      /\ context[n] = env_id[n]
  BY <1>2, <1>4, <1>5 DEF RInv, Strays, Launching, Known, Live, Threads
<1>7. \A Q, M : Locals(Q)' /\ Launching(Q)'
  BY <1>3, <1>4 DEF Locals, Launching
<1>8. /\ \A p \in Pid : p >= env_counter => env_map[p] = NULL
      /\ \A e \in R \cup L :
             /\ env_map[env_id[e]] = e
             /\ e # ShellEnv => env_id[e] \in stacks
             /\ e # cur_env => context[e] = env_id[e]
  BY <1>2 DEF RInv, Known, Live, Threads
<1>9. CASE tail \in R /\ next_env[tail] = ShellEnv
  <2> DEFINE Q == R \cup {n}
  <2>1. /\ next_env'[tail] = n /\ tail # n
        /\ \A e \in Envs : e # tail => next_env'[e] = next_env[e]
    BY <1>0, <1>3, <1>5, <1>6, <1>9
  <2>2. Closed(Q)'
    BY <1>2, <1>3, <1>6, <1>9, <2>1 DEF RInv, Closed
  <2>3. \A e \in R : env_id[e] \in Int /\ env_id[e] < env_id[n]
    BY <1>0, <1>6, <1>8, LiveFacts, Ranges DEF Live
  <2>4. \A e \in R : env_id[e] <= env_id[tail]
    BY <1>9 DEF RInv, Ordered
  <2>5. \A e \in R : e # tail => next_env[e] # ShellEnv
    BY <1>9, NextInjective
  <2>6. Ordered(Q)'
    <3>1. env_id' = env_id
      BY <1>3
    <3>2. SUFFICES ASSUME NEW e \in Q
                   PROVE  IF next_env'[e] = ShellEnv
                          THEN \A d \in Q : env_id[d] <= env_id[e]
                          ELSE /\ env_id[e] < env_id[next_env'[e]]
                               /\ \A d \in Q : \/ env_id[d] <= env_id[e]
                                               \/ env_id[next_env'[e]]
                                                      <= env_id[d]
      BY <3>1 DEF Ordered
    <3>3. CASE e = n
      BY <1>0, <1>6, <2>1, <2>3, <3>3, Ranges
    <3>4. CASE e = tail
      BY <1>6, <1>9, <2>1, <2>3, <2>4, <3>4, Ranges, <1>0
    <3>5. CASE e # n /\ e # tail
      <4>1. /\ next_env'[e] = next_env[e] /\ next_env[e] \in R
            /\ next_env[e] # ShellEnv
        BY <2>1, <2>5, <3>5 DEF RInv, Closed
      <4>2. /\ env_id[e] < env_id[next_env[e]]
            /\ \A d \in R : \/ env_id[d] <= env_id[e]
                            \/ env_id[next_env[e]] <= env_id[d]
        BY <3>5, <4>1 DEF RInv, Ordered
      <4>3. env_id[next_env[e]] <= env_id[n]
        BY <2>3, <4>1, <1>0, <1>6
      <4> QED
        BY <4>1, <4>2, <4>3
    <3> QED
      BY <3>3, <3>4, <3>5
  <2>7. Strays(Q, L)'
    BY <1>2, <1>4, <1>6, <1>9, <2>1 DEF RInv, Strays
  <2>8. Known(Q, L)'
    BY <1>3, <1>4, <1>6, <1>8 DEF Known, Live
  <2>9. Threads(Q, L)'
    BY <1>2, <1>3, <1>4, <1>6, <1>8 DEF Threads
  <2>10. RInv(Q, L)'
    BY <1>7, <2>2, <2>6, <2>7, <2>8, <2>9 DEF RInv
  <2>11. Q \in SUBSET Envs
    BY <1>6
  <2> QED
    BY <2>10, <2>11
<1>10. CASE tail \in FreeSlots
  <2> DEFINE M == L \cup {n}
  <2>1. tail \in Slot /\ tail \notin R
    BY <1>10, LiveFacts DEF SlotInv, FreeOK, FreeSlots, Live
  <2>2. /\ next_env'[tail] = n
        /\ \A e \in Envs : e # tail => next_env'[e] = next_env[e]
    BY <1>0, <1>3, <1>5, <2>1
  <2>3. Closed(R)' /\ Ordered(R)'
    BY <1>3, <2>1, <2>2 DEF RInv, Closed, Ordered
  <2>4. Strays(R, M)'
    BY <1>2, <1>4, <1>6, <2>1, <2>2 DEF RInv, Strays
  <2>5. Known(R, M)'
    BY <1>3, <1>4, <1>6, <1>8 DEF Known, Live
  <2>6. Threads(R, M)'
    BY <1>2, <1>3, <1>4, <1>6, <1>8 DEF Threads
  <2>7. RInv(R, M)'
    BY <1>7, <2>3, <2>4, <2>5, <2>6 DEF RInv
  <2>8. M \in SUBSET Envs
    BY <1>6
  <2> QED
    BY <2>7, <2>8
<1> QED
  BY <1>2, <1>9, <1>10 DEF RInv, Launching

\* The shell is alone in the ring at first.
LEMMA InitRing == ASSUME Init PROVE RingInv
<1> USE Basics
<1>1. PICK R, L : R = {ShellEnv} /\ L = {}
  OBVIOUS
<1>2. /\ cur_env = ShellEnv /\ running = 0 /\ env_counter = 1
      /\ next_env = [e \in Envs |-> IF e = ShellEnv THEN ShellEnv ELSE NULL]
      /\ env_id = [e \in Envs |-> 0]
      /\ env_map = [p \in Pid |-> IF p = 0 THEN ShellEnv ELSE NULL]
      /\ pc[0] = "getline" /\ irq = Idle
  BY DEF Init, init_sched, Frames, irq
<1>3. irq.at = "idle" /\ Dying = {} /\ Loaded = {} /\ owner = ShellEnv
  BY <1>2 DEF Idle, Dying, Loaded, owner
<1>4. ShellInv
  BY DEF Init, init_sched, ShellInv, Frames, Fg
<1>5. Closed(R) /\ Ordered(R)
  BY <1>1, <1>2 DEF Closed, Ordered
<1>6. Strays(R, L) /\ Threads(R, L)
  BY <1>1, <1>2, <1>3 DEF Strays, Threads
<1>7. Known(R, L)
  BY <1>1, <1>2, <1>3, Ranges DEF Known, Live
<1>8. Locals(R) /\ Launching(R)
  BY <1>2, <1>3 DEF Locals, Launching
<1>9. RInv(R, L) /\ R \in SUBSET Envs /\ L \in SUBSET Envs
  BY <1>1, <1>5, <1>6, <1>7, <1>8 DEF RInv
<1> QED
  BY <1>4, <1>9 DEF RingInv

\* Every step of the kernel keeps the ring.
LEMMA NextRing ==
    ASSUME Orderly, SlotInv, PopOK, RingInv, Next
    PROVE  RingInv'
<1>1. PICK R, L \in SUBSET Envs : RInv(R, L)
  BY DEF RingInv
<1>2. ShellInv'
  BY <1>1, ShellSteps DEF RingInv
<1>3. \E Q, M \in SUBSET Envs : RInv(Q, M)'
  <2>1. CASE \E f \in Frames : ScheduleStep(f)
    BY <1>1, <2>1, ScheduleRing DEF RingInv
  <2>2. CASE RegisterEnv \/ MapEnv \/ LinkEnv \/ WalkNext \/ WalkEnd
    BY <1>1, <2>2, LoadRing
  <2>3. CASE Append
    BY <1>1, <2>3, AppendRing
  <2> QED
    BY <1>1, <2>1, <2>2, <2>3, RestRing DEF RingInv, Frames
<1>4. Envs' = Envs
  BY DEF Envs
<1> QED
  BY <1>2, <1>3, <1>4 DEF RingInv

\* The slots, the free stack and the ring together: an inductive invariant.
KernelInv == SlotInv /\ PopOK /\ RingInv

THEOREM KernelInvariant ==
    ASSUME PopAtomic, Orderly PROVE Spec => []KernelInv
<1>1. Init => KernelInv
  BY InitSlotInv, InitRing DEF KernelInv
<1>2. KernelInv /\ [Next]_vars => KernelInv'
  <2> SUFFICES ASSUME KernelInv, [Next]_vars PROVE KernelInv'
    OBVIOUS
  <2>1. SlotInv' /\ PopOK'
    BY StepSlotInv DEF KernelInv
  <2>2. CASE Next
    BY <2>1, <2>2, NextRing DEF KernelInv
  <2>3. CASE UNCHANGED vars
    <3>1. ShellInv'
      BY <2>3 DEF KernelInv, RingInv, ShellInv, vars, envVars, schedVars,
         inputVars, shellVars
    <3>2. PICK R, L \in SUBSET Envs : RInv(R, L)
      BY DEF KernelInv, RingInv
    <3>3. /\ UNCHANGED ringVars /\ irq' = irq /\ pc' = pc
          /\ UNCHANGED <<new_env, tail, free_env_stack, free_env_stack_top,
                         env_status>>
      BY <2>3 DEF vars, envVars, schedVars, shellVars, ringVars, irq
    <3>4. Dying' = Dying /\ owner' = owner /\ Locals(R)'
      BY <3>2, <3>3 DEF Dying, owner, RInv, Locals, ringVars
    <3>5. RInv(R, L)'
      BY <3>2, <3>3, <3>4, LocalsRing
    <3> QED
      BY <2>1, <3>1, <3>2, <3>5 DEF KernelInv, RingInv, Envs
  <2> QED
    BY <2>2, <2>3
<1> QED
  BY <1>1, <1>2, PTL DEF Spec

----------------------------------------------------------------------------
\* A set of numbers has a least one.
LEMMA Least ==
    ASSUME NEW T, T \subseteq Nat, T # {}
    PROVE  \E m \in T : \A k \in T : m <= k
<1>1. PICK m \in T : \A k \in T : ~(<<k, m>> \in OpToRel(<, Nat))
  BY NatLessThanWellFounded, WFMin
<1>2. \A k \in T : ~(k < m)
  BY <1>1 DEF OpToRel
<1>3. m \in Nat /\ \A k \in T : k \in Nat
  OBVIOUS
<1>4. \A k \in T : m <= k
  BY <1>2, <1>3
<1> QED
  BY <1>4

\* Path follows next_env for as long as it stays in a set that is closed.
LEMMA PathInside ==
    ASSUME NEW R, NEW c \in R, NULL \notin R,
           \A e \in R : next_env[e] \in R
    PROVE  /\ Path(c)[0] = c
           /\ \A n \in 0 .. MAX_ENV_NUM + 1 : Path(c)[n] \in R
           /\ \A n \in 0 .. MAX_ENV_NUM :
                  Path(c)[n + 1] = next_env[Path(c)[n]]
<1> DEFINE D == 0 .. MAX_ENV_NUM + 1
           Follows(g, m) ==
               /\ g \in [0 .. m -> R] /\ g[0] = c
               /\ \A n \in 1 .. m : g[n] = next_env[g[n - 1]]
           Short == {m \in Nat : ~ \E g : Follows(g, m)}
           body(h) == [n \in D |-> IF n = 0 THEN c
                                   ELSE IF h[n - 1] = NULL THEN NULL
                                   ELSE next_env[h[n - 1]]]
<1>0. MAX_ENV_NUM \in Nat
  BY Ranges
<1>1. Short = {}
  <2> SUFFICES ASSUME Short # {} PROVE FALSE
    OBVIOUS
  <2>1. PICK m \in Short : \A k \in Short : m <= k
    <3>1. Short \subseteq Nat
      OBVIOUS
    <3> HIDE DEF Short
    <3> QED
      BY <3>1, Least
  <2>2. m \in Nat /\ ~ \E g : Follows(g, m)
    BY <2>1
  <2>3. CASE m = 0
    <3> DEFINE g == [n \in 0 .. 0 |-> c]
    <3>1. Follows(g, 0)
      OBVIOUS
    <3> QED
      BY <2>2, <2>3, <3>1
  <2>4. CASE m # 0
    <3>1. m - 1 \in Nat /\ m - 1 \notin Short
      <4>1. m - 1 \in Nat /\ ~(m <= m - 1)
        BY <2>2, <2>4
      <4> HIDE DEF Short
      <4> QED
        BY <2>1, <4>1
    <3>2. PICK g : Follows(g, m - 1)
      BY <3>1
    <3> DEFINE h == [n \in 0 .. m |-> IF n = m THEN next_env[g[m - 1]]
                                      ELSE g[n]]
    <3>3. h \in [0 .. m -> R] /\ h[0] = c
      BY <2>2, <2>4, <3>1, <3>2
    <3>4. ASSUME NEW n \in 1 .. m PROVE h[n] = next_env[h[n - 1]]
      <4>1. n - 1 \in 0 .. m - 1 /\ n - 1 \in 0 .. m /\ n \in 0 .. m
        BY <2>2
      <4>2. h[n - 1] = g[n - 1]
        BY <2>2, <4>1
      <4>3. n # m => n \in 1 .. m - 1
        BY <2>2
      <4> QED
        BY <3>2, <4>1, <4>2, <4>3
    <3>5. Follows(h, m)
      BY <3>3, <3>4
    <3> QED
      BY <2>2, <3>5
  <2> QED
    BY <2>3, <2>4
<1>2. PICK g : Follows(g, MAX_ENV_NUM + 1)
  <2>1. MAX_ENV_NUM + 1 \in Nat
    BY <1>0
  <2> QED
    BY <1>1, <2>1
<1>3. g = body(g)
  <2>1. \A n \in D : n # 0 => n \in 1 .. MAX_ENV_NUM + 1 /\ n - 1 \in D
    BY <1>0
  <2>2. \A n \in D : g[n] = IF n = 0 THEN c
                            ELSE IF g[n - 1] = NULL THEN NULL
                            ELSE next_env[g[n - 1]]
    BY <1>2, <2>1
  <2> QED
    BY <1>2, <2>2
<1>4. Path(c) = CHOOSE h : h = body(h)
  BY DEF Path
<1>5. PICK f : f = Path(c)
  OBVIOUS
<1>6. f = body(f)
  <2> HIDE DEF body
  <2> QED
    BY <1>3, <1>4, <1>5
<1>7. \A n \in D : f[n] = IF n = 0 THEN c
                          ELSE IF f[n - 1] = NULL THEN NULL
                          ELSE next_env[f[n - 1]]
  BY <1>6
<1>8. f[0] = c
  BY <1>0, <1>7
<1>9. \A n \in D : f[n] = g[n]
  <2> DEFINE T == {n \in D : f[n] # g[n]}
  <2> SUFFICES ASSUME T # {} PROVE FALSE
    OBVIOUS
  <2>1. PICK n \in T : \A k \in T : n <= k
    <3>1. T \subseteq Nat
      BY <1>0
    <3> HIDE DEF T
    <3> QED
      BY <3>1, Least
  <2>2. n # 0 /\ n \in D
    BY <1>2, <1>8, <2>1
  <2>3. n - 1 \in D /\ n - 1 \notin T /\ n \in 1 .. MAX_ENV_NUM + 1
    BY <1>0, <2>1, <2>2
  <2>4. f[n - 1] = g[n - 1] /\ g[n - 1] \in R
    BY <1>2, <2>3
  <2>5. f[n] = next_env[g[n - 1]]
    BY <1>7, <2>2, <2>4
  <2> QED
    BY <1>2, <2>1, <2>3, <2>5
<1>10. \A n \in 0 .. MAX_ENV_NUM : f[n + 1] = next_env[f[n]]
  <2>1. \A n \in 0 .. MAX_ENV_NUM :
            n + 1 \in 1 .. MAX_ENV_NUM + 1 /\ n + 1 - 1 = n /\ n \in D
            /\ n + 1 \in D
    BY <1>0
  <2> QED
    BY <1>2, <1>9, <2>1
<1> QED
  BY <1>2, <1>5, <1>8, <1>9, <1>10

\* Whoever walks from cur_env comes back to it, past the shell.
LEMMA RingCloses ==
    ASSUME SlotInv, NEW R, NEW L, RInv(R, L)
    PROVE  /\ Ring \subseteq R
           /\ \E n \in 1 .. MAX_ENV_NUM + 1 : Path(cur_env)[n] = cur_env
           /\ ShellEnv \in Ring
<1> USE Basics
<1> DEFINE D == 0 .. MAX_ENV_NUM + 1
<1>0. /\ MAX_ENV_NUM \in Nat /\ R \subseteq Envs /\ cur_env \in R
      /\ NULL \notin R /\ \A e \in R : next_env[e] \in R
  BY Ranges DEF RInv, Closed
<1>1. PICK f : f = Path(cur_env)
  OBVIOUS
<1>2. /\ f[0] = cur_env
      /\ \A n \in D : f[n] \in R
      /\ \A n \in 0 .. MAX_ENV_NUM : f[n + 1] = next_env[f[n]]
  BY <1>0, <1>1, PathInside
<1>3. Ring = {f[n] : n \in 0 .. MAX_ENV_NUM}
  BY <1>1 DEF Ring
<1>4. Ring \subseteq R
  BY <1>0, <1>2, <1>3
<1> DEFINE Again == {n \in D : \E k \in D : n < k /\ f[n] = f[k]}
<1>5. Again # {}
  <2> DEFINE g == [n \in D |-> f[n]]
  <2>1. IsFiniteSet(Envs) /\ Cardinality(Envs) = MAX_ENV_NUM + 1
    <3>1. Envs = 0 .. MAX_ENV_NUM
      BY <1>0 DEF Envs, Slot, ShellEnv
    <3> QED
      BY <1>0, <3>1, FS_Interval
  <2>2. IsFiniteSet(R) /\ Cardinality(R) <= MAX_ENV_NUM + 1
    BY <1>0, <2>1, FS_Subset
  <2>3. IsFiniteSet(D) /\ Cardinality(D) = MAX_ENV_NUM + 2
    <3>1. MAX_ENV_NUM + 1 \in Int /\ MAX_ENV_NUM + 1 - 0 + 1 = MAX_ENV_NUM + 2
      BY <1>0
    <3> QED
      BY <1>0, <3>1, FS_Interval
  <2>4. Cardinality(R) < Cardinality(D)
    BY <1>0, <2>2, <2>3, FS_CardinalityType
  <2>5. g \in [D -> R]
    BY <1>2
  <2>6. \E a, b \in D : a # b /\ g[a] = g[b]
    <3> HIDE DEF g, D
    <3> QED
      BY <2>2, <2>3, <2>4, <2>5, FS_PigeonHole
  <2>7. PICK a, b \in D : a # b /\ f[a] = f[b]
    BY <2>6
  <2>8. a < b \/ b < a
    BY <2>7
  <2> QED
    BY <2>7, <2>8
<1>6. PICK n \in Again : \A k \in Again : n <= k
  <2>1. Again \subseteq Nat
    BY <1>0
  <2> HIDE DEF Again
  <2> QED
    BY <1>5, <2>1, Least
<1>7. PICK m \in D : n < m /\ f[n] = f[m]
  BY <1>6
<1>8. n = 0
  <2> SUFFICES ASSUME n # 0 PROVE FALSE
    OBVIOUS
  <2>1. /\ n - 1 \in 0 .. MAX_ENV_NUM /\ m - 1 \in 0 .. MAX_ENV_NUM
        /\ n - 1 \in D /\ m - 1 \in D /\ n - 1 < m - 1
        /\ n - 1 + 1 = n /\ m - 1 + 1 = m /\ ~(n <= n - 1)
    BY <1>0, <1>6, <1>7
  <2>2. next_env[f[n - 1]] = next_env[f[m - 1]]
    BY <1>2, <1>7, <2>1
  <2>3. f[n - 1] = f[m - 1]
    BY <1>2, <2>1, <2>2, NextInjective
  <2>4. n - 1 \in Again
    BY <2>1, <2>3
  <2> HIDE DEF Again
  <2> QED
    BY <1>6, <2>1, <2>4
<1>9. m \in 1 .. MAX_ENV_NUM + 1 /\ f[m] = cur_env
  BY <1>0, <1>2, <1>7, <1>8
<1> DEFINE C == {f[k] : k \in 0 .. m - 1}
           Above == {env_counter - env_id[e] : e \in C}
<1>10. cur_env \in C /\ \A e \in C : next_env[e] \in C
  <2>1. 0 \in 0 .. m - 1
    BY <1>9
  <2>2. ASSUME NEW k \in 0 .. m - 1 PROVE next_env[f[k]] \in C
    <3>1. k \in 0 .. MAX_ENV_NUM /\ f[k + 1] = next_env[f[k]]
      BY <1>0, <1>2, <1>9
    <3>2. k + 1 = m \/ k + 1 \in 0 .. m - 1
      BY <1>9
    <3>3. f[m] = f[0] /\ f[0] \in C
      BY <1>2, <1>9, <2>1
    <3> QED
      BY <3>1, <3>2, <3>3
  <2> QED
    BY <1>2, <2>1, <2>2
<1>11. C \subseteq R /\ C \subseteq Ring
  BY <1>0, <1>2, <1>3, <1>9
<1>12. \A e \in C : env_id[e] \in Int /\ env_id[e] < env_counter
  BY <1>11, LiveFacts, Ranges DEF Live
<1> HIDE DEF C
<1>13. PICK last \in C : \A e \in C : env_id[e] <= env_id[last]
  <2>1. env_counter \in Int
    BY DEF SlotInv, TypeOK
  <2>2. Above \subseteq Nat /\ Above # {}
    BY <1>10, <1>12, <2>1
  <2>3. PICK a \in Above : \A b \in Above : a <= b
    <3> HIDE DEF Above
    <3> QED
      BY <2>2, Least
  <2>4. PICK e \in C : a = env_counter - env_id[e]
    BY <2>3
  <2>5. \A d \in C : env_counter - env_id[e] <= env_counter - env_id[d]
    BY <2>3, <2>4
  <2>6. \A d \in C : env_id[d] <= env_id[e]
    BY <1>12, <2>1, <2>4, <2>5
  <2> QED
    BY <2>4, <2>6
<1>14. next_env[last] = ShellEnv
  <2>1. /\ env_id[next_env[last]] <= env_id[last]
        /\ env_id[next_env[last]] \in Int /\ env_id[last] \in Int
    BY <1>10, <1>12, <1>13
  <2>2. last \in R
    BY <1>11, <1>13
  <2>3. next_env[last] # ShellEnv => env_id[last] < env_id[next_env[last]]
    BY <2>2 DEF RInv, Ordered
  <2> QED
    BY <2>1, <2>3
<1> QED
  BY <1>1, <1>4, <1>9, <1>10, <1>11, <1>13, <1>14

----------------------------------------------------------------------------
\* Whatever load_icode() was doing when a zombie was taken out, the scheduler
\* has one ring that closes, holds the shell and no freed slot.
THEOREM RingStaysSound ==
    ASSUME PopAtomic, Orderly PROVE Spec => []RingSound
<1>1. KernelInv => RingSound
  <2> SUFFICES ASSUME KernelInv PROVE RingSound
    OBVIOUS
  <2>1. PICK R, L \in SUBSET Envs : RInv(R, L)
    BY DEF KernelInv, RingInv
  <2>2. /\ Ring \subseteq R
        /\ \E n \in 1 .. MAX_ENV_NUM + 1 : Path(cur_env)[n] = cur_env
        /\ ShellEnv \in Ring
    BY <2>1, RingCloses DEF KernelInv
  <2>3. R \cap FreeSlots = {} /\ NULL \notin R
    BY <2>1, LiveFacts, Basics DEF KernelInv, Live
  <2> QED
    BY <2>2, <2>3 DEF RingSound
<1> QED
  BY <1>1, KernelInvariant, PTL

\* Going round the ring from the shell, pids grow.
THEOREM RingKeepsOrder ==
    ASSUME PopAtomic, Orderly PROVE Spec => []LaunchOrder
<1>1. KernelInv => LaunchOrder
  <2> SUFFICES ASSUME KernelInv PROVE LaunchOrder
    OBVIOUS
  <2>1. PICK R, L \in SUBSET Envs : RInv(R, L)
    BY DEF KernelInv, RingInv
  <2>2. Ring \subseteq R
    BY <2>1, RingCloses DEF KernelInv
  <2> QED
    BY <2>1, <2>2 DEF RInv, Ordered, LaunchOrder
<1> QED
  BY <1>1, KernelInvariant, PTL

\* Nobody can reach a slot that is on the free stack.
THEOREM FreeSlotsUnreachable ==
    ASSUME PopAtomic, Orderly PROVE Spec => []FreeUnreachable
<1>1. KernelInv => FreeUnreachable
  <2> SUFFICES ASSUME KernelInv, NEW e \in FreeSlots
               PROVE  /\ e # cur_env
                      /\ \A d \in Envs : next_env[d] # e
                      /\ \A p \in Pid : env_map[p] # e
                      /\ pc[0] \in Loading => e # new_env
    BY DEF FreeUnreachable
  <2> USE Basics DEF KernelInv
  <2>1. PICK R, L \in SUBSET Envs : RInv(R, L)
    BY DEF RingInv
  <2>2. e \in Slot /\ env_id[e] = 0 /\ e \notin Live(R, L) /\ cur_env \in R
    BY <2>1, LiveFacts DEF SlotInv, FreeOK, FreeSlots, RInv, Closed
  <2>3. \A d \in Envs : next_env[d] # e
    BY <2>1, <2>2 DEF RInv, Closed, Strays, Live
  <2>4. \A p \in Pid : env_map[p] # e
    BY <2>2 DEF SlotInv, MapOK, MapSound
  <2>5. pc[0] \in Loading => e # new_env
    <3>1. pc[0] = "map" => env_id[new_env] # 0
      BY DEF SlotInv, TypeOK, ShellOK
    <3>2. pc[0] = "register" => new_env \notin FreeSlots
      BY DEF SlotInv, ShellOK
    <3>3. pc[0] \in {"link", "walk", "append"} => new_env \in Live(R, L)
      BY DEF Live, Loaded
    <3> QED
      BY <2>2, <3>1, <3>2, <3>3 DEF Loading
  <2> QED
    BY <2>2, <2>3, <2>4, <2>5 DEF Live
<1> QED
  BY <1>1, KernelInvariant, PTL

\* The thread on the CPU is the current process's, and every other linked Env
\* holds its own process's thread, on a stack that is mapped.
THEOREM ContextsStaySound ==
    ASSUME PopAtomic, Orderly PROVE Spec => []ContextSound
<1>1. KernelInv => ContextSound
  <2> SUFFICES ASSUME KernelInv, IntrOn
               PROVE  /\ running = env_id[cur_env]
                      /\ \A e \in Envs : Linked(e) =>
                             /\ e # cur_env => context[e] = env_id[e]
                             /\ e # ShellEnv => env_id[e] \in stacks
    BY DEF ContextSound
  <2> USE Basics DEF KernelInv
  <2>1. PICK R, L \in SUBSET Envs : RInv(R, L)
    BY DEF RingInv
  <2>2. /\ running = env_id[cur_env] /\ owner = cur_env /\ Dying = {}
        /\ cur_env \in R
    BY <2>1, OnCpu DEF IntrOn
  <2>3. ASSUME NEW e \in Envs, Linked(e) PROVE e \in R \cup L
    <3>1. PICK d \in Envs : next_env[d] = e
      BY <2>3 DEF Linked
    <3>2. ShellEnv \in R /\ (d \in R => e \in R)
      BY <2>1, <3>1 DEF RInv, Closed
    <3>3. d \notin R => e \in {NULL, ShellEnv} \cup L
      BY <2>1, <2>2, <3>1 DEF RInv, Strays
    <3> QED
      BY <3>2, <3>3
  <2> QED
    BY <2>1, <2>2, <2>3 DEF RInv, Known, Live, Threads
<1> QED
  BY <1>1, KernelInvariant, PTL
----------------------------------------------------------------------------
(***************************************************************************)
(* Kernel implements JobControl: proved for any number of processes and    *)
(* any command lines that use neither fg nor the shell's own pid.          *)
(***************************************************************************)

\* The command lines for which job control keeps its promise.  A shell that
\* is stopped is passed over by schedule(), which may then return to a process
\* that is blocked or has exited.
ShellLeftAlone ==
    \A line \in Lines :
        line.cmd # "fg" /\ (line.cmd \in PidCmds => line.pid # 0)

\* The shell can always run, so schedule() never comes back to a process that
\* cannot: going round from cur_env, it meets the shell first.
Runs ==
    /\ env_status[ShellEnv] = "runnable"
    /\ irq.at \in {"idle", "switch"} => env_status[cur_env] = "runnable"
    /\ cur_env # ShellEnv =>
           /\ irq.at \in {"scan", "unlink", "follow", "reap"} =>
                  env_id[cur_env] <= env_id[irq.pre]
           /\ irq.at \in {"scan", "unlink", "reap"} =>
                  \/ irq.tail = ShellEnv
                  \/ env_id[cur_env] < env_id[irq.tail]

LEMMA AloneIsOrderly == ASSUME ShellLeftAlone PROVE Orderly
  BY DEF ShellLeftAlone, Orderly, PidCmds

\* Going on from an Env of the ring leads to the shell or to a higher pid.
LEMMA NextIsHigher ==
    ASSUME SlotInv, NEW R, NEW L, RInv(R, L), NEW e \in R,
           NEW c \in R, env_id[c] <= env_id[e]
    PROVE  \/ next_env[e] = ShellEnv
           \/ env_id[c] < env_id[next_env[e]]
<1>1. /\ env_id[e] \in Int /\ env_id[c] \in Int
      /\ env_id[next_env[e]] \in Int
  BY LiveFacts, Ranges DEF RInv, Closed, Live
<1> QED
  BY <1>1 DEF RInv, Ordered

\* Steps of schedule() keep Runs.
LEMMA ScheduleRuns ==
    ASSUME SlotInv, ShellInv, NEW R \in SUBSET Envs, NEW L \in SUBSET Envs,
           RInv(R, L), Runs, ScheduleStep("irq")
    PROVE  Runs'
<1> USE Basics DEF At
<1>0. /\ cur_env \in R /\ \A e \in R : next_env[e] \in R
      /\ frame \in [Frames -> Frame] /\ "irq" \in Frames
      /\ \A e \in R : env_id[e] \in Int
  BY LiveFacts, Ranges DEF RInv, Closed, Live, SlotInv, TypeOK, Frames
<1>1. ~ScanNull("irq") /\ ~ReapPanics("irq")
  BY <1>0, ScheduleRing
<1>2. CASE \/ ScanEnd("irq") \/ ScanSkip("irq") \/ ScanZombie("irq")
           \/ ScanFound("irq") \/ Follow("irq") \/ Unlink("irq")
  <2>1. UNCHANGED <<env_status, env_id, cur_env>>
    BY <1>2 DEF ScanEnd, ScanSkip, ScanZombie, ScanFound, Follow, Unlink,
       envVars
  <2>2. CASE ScanEnd("irq")
    <3>1. irq.at = "scan" /\ irq.tail = cur_env /\ irq'.at = "idle"
      BY <1>0, <2>2 DEF ScanEnd, Idle, irq
    <3>2. cur_env = ShellEnv
      BY <1>0, <3>1 DEF Runs
    <3> QED
      BY <2>1, <3>1, <3>2 DEF Runs
  <2>3. CASE ScanSkip("irq")
    <3>1. /\ irq.at = "scan" /\ irq'.at = "scan" /\ irq'.pre = irq.tail
          /\ irq'.tail = next_env[irq.tail] /\ Skipped(irq.tail)
      BY <1>0, <2>3 DEF Frame, ScanSkip, Scanning, irq
    <3>2. irq.tail \in R /\ irq.tail # ShellEnv
      BY <3>1 DEF RInv, Locals, Runs, ShellInv, Skipped
    <3>3. cur_env # ShellEnv => env_id[cur_env] <= env_id[irq.tail]
      BY <1>0, <3>1, <3>2 DEF Runs
    <3>4. cur_env # ShellEnv =>
              \/ next_env[irq.tail] = ShellEnv
              \/ env_id[cur_env] < env_id[next_env[irq.tail]]
      BY <1>0, <3>2, <3>3, NextIsHigher
    <3> QED
      BY <2>1, <3>1, <3>3, <3>4 DEF Runs
  <2>4. CASE ScanZombie("irq")
    <3>1. /\ irq.at = "scan" /\ irq'.at = "unlink" /\ irq'.pre = irq.pre
          /\ irq'.tail = irq.tail
      BY <1>0, <2>4 DEF Frame, ScanZombie, Scanning, irq
    <3> QED
      BY <2>1, <3>1 DEF Runs
  <2>5. CASE ScanFound("irq")
    <3>1. irq'.at = "pick"
      BY <1>0, <2>5 DEF Frame, ScanFound, Goto, irq
    <3> QED
      BY <2>1, <3>1 DEF Runs
  <2>6. CASE Follow("irq")
    <3>1. /\ irq.at = "follow" /\ irq'.at = "reap" /\ irq'.pre = irq.pre
          /\ irq'.tail = next_env[irq.pre]
      BY <1>0, <2>6 DEF Frame, Follow, irq
    <3>2. irq.pre \in R
      BY <3>1 DEF RInv, Locals
    <3>3. cur_env # ShellEnv =>
              /\ env_id[cur_env] <= env_id[irq.pre]
              /\ \/ next_env[irq.pre] = ShellEnv
                 \/ env_id[cur_env] < env_id[next_env[irq.pre]]
      BY <1>0, <3>1, <3>2, NextIsHigher DEF Runs
    <3> QED
      BY <2>1, <3>1, <3>3 DEF Runs
  <2>7. CASE Unlink("irq")
    <3>1. irq.at = "unlink" /\ irq'.at = "follow" /\ irq'.pre = irq.pre
      BY <1>0, <2>7 DEF Frame, Unlink, Goto, irq
    <3> QED
      BY <2>1, <3>1 DEF Runs
  <2> QED
    BY <1>2, <2>2, <2>3, <2>4, <2>5, <2>6, <2>7
<1>3. CASE Reap("irq")
  <2>1. /\ irq.at = "reap" /\ irq'.at = "scan" /\ irq'.pre = irq.pre
        /\ irq'.tail = irq.tail
    BY <1>0, <1>3 DEF Frame, Reap, irq
  <2>2. irq.tmp \notin R /\ ShellEnv \in R /\ irq.pre \in R /\ irq.tail \in R
    BY <2>1 DEF RInv, Closed, Strays, Locals, Dying
  <2>3. /\ cur_env' = cur_env
        /\ \A e \in R : /\ env_id'[e] = env_id[e]
                        /\ env_status'[e] = env_status[e]
    BY <1>3, <2>2 DEF Reap, env_free, irq, SlotInv, TypeOK
  <2> QED
    BY <1>0, <2>1, <2>2, <2>3 DEF Runs
<1>4. CASE Pick("irq")
  <2>1. irq.at = "pick" /\ irq'.at = "switch"
    BY <1>0, <1>4 DEF Frame, Pick, irq
  <2>2. /\ cur_env' = irq.tail /\ env_status[irq.tail] = "runnable"
        /\ env_status' = env_status
    BY <1>4, <2>1 DEF Pick, irq, RInv, Locals
  <2> QED
    BY <2>1, <2>2 DEF Runs
<1>5. CASE Switch("irq")
  <2>1. irq.at = "switch" /\ irq'.at = "idle"
    BY <1>0, <1>5 DEF Frame, Switch, Idle, irq
  <2> QED
    BY <1>5, <2>1 DEF Switch, Runs
<1> QED
  BY <1>1, <1>2, <1>3, <1>4, <1>5 DEF ScheduleStep, Scheduling

\* A step that enters schedule() with a status given to cur_env, or none.
LEMMA EnterRuns ==
    ASSUME SlotInv, NEW R, NEW L, RInv(R, L), Runs, ~Active("irq"),
           schedule("irq"), UNCHANGED <<env_id, cur_env, next_env>>,
           env_status'[ShellEnv] = env_status[ShellEnv]
    PROVE  Runs'
<1>1. irq' = Entered /\ cur_env \in R
  BY DEF SlotInv, TypeOK, schedule, Frames, irq, RInv, Closed
<1>2. irq'.at = "scan" /\ irq'.pre = cur_env /\ irq'.tail = next_env[cur_env]
  BY <1>1 DEF Entered
<1>3. env_id[cur_env] \in Int
  BY <1>1, LiveFacts, Ranges DEF Live
<1>4. \/ next_env[cur_env] = ShellEnv
      \/ env_id[cur_env] < env_id[next_env[cur_env]]
  BY <1>1, <1>3, NextIsHigher
<1> QED
  BY <1>2, <1>3, <1>4 DEF Runs

----------------------------------------------------------------------------
\* Refinement: each step of the kernel is a step of JobControl, or none.
ControlStep == [Control!Next]_<<[p \in Pid |-> Life(p)], env_id[cur_env]>>

\* What one pid's life becomes when the others' stay.
LEMMA OneBecomes ==
    ASSUME NEW p \in Pid, NEW s, Life(p)' = s,
           \A q \in Pid : q # p => Life(q)' = Life(q)
    PROVE  Control!Become(p, s)
<1>1. Pid' = Pid
  BY DEF Pid
<1> QED
  BY <1>1 DEF Control!Become

LEMMA NothingBecomes ==
    ASSUME \A q \in Pid : Life(q)' = Life(q), UNCHANGED <<env_id, cur_env>>
    PROVE  ControlStep
<1>1. Pid' = Pid
  BY DEF Pid
<1> QED
  BY <1>1 DEF ControlStep

LEMMA SameLives ==
    ASSUME UNCHANGED <<env_map, env_counter, env_status, env_id, cur_env>>
    PROVE  ControlStep
<1>1. \A q \in Pid : Life(q)' = Life(q)
  BY DEF Life
<1> QED
  BY <1>1, NothingBecomes

\* Giving the Env that a pid maps to a status is a step of that pid's life.
LEMMA StatusLife ==
    ASSUME SlotInv, NEW R, NEW L, RInv(R, L), NEW p \in Pid, NEW e,
           env_map[p] = e, e # NULL, NEW s,
           env_status' = [env_status EXCEPT ![e] = s],
           UNCHANGED <<env_map, env_counter>>
    PROVE  /\ Life(p) = env_status[e] /\ Control!Living(p)
           /\ Control!Become(p, s)
<1> USE Basics
<1>1. /\ env_map \in [Pid -> EnvPtr] /\ env_status \in [Envs -> Status]
      /\ env_counter \in Int /\ \A q \in Pid : q \in Int
  BY Ranges DEF SlotInv, TypeOK
<1>2. e \in Envs /\ ~(p >= env_counter)
  BY <1>1 DEF RInv, Known
<1>3. \A q \in Pid : q # p => env_map[q] # e
  BY DEF SlotInv, MapOK, MapSound
<1>4. Life(p) = env_status[e] /\ Life(p)' = s
  BY <1>1, <1>2 DEF Life
<1>5. \A q \in Pid : q # p => Life(q)' = Life(q)
  BY <1>1, <1>2, <1>3 DEF Life
<1>6. Control!Living(p)
  BY <1>1, <1>2, <1>4 DEF Control!Living, Status
<1> QED
  BY <1>4, <1>5, <1>6, OneBecomes

\* The current process is known by its pid.
LEMMA CurrentLife ==
    ASSUME SlotInv, NEW R, NEW L, RInv(R, L), NEW e \in R
    PROVE  /\ env_id[e] \in Pid /\ env_map[env_id[e]] = e
           /\ Life(env_id[e]) = env_status[e]
<1>1. env_id[e] \in Pid /\ env_id[e] < env_counter
  BY LiveFacts DEF Live
<1>2. env_map[env_id[e]] = e /\ e \in Envs
  BY DEF RInv, Known, Live, Closed
<1>3. env_id[e] \in Int /\ env_counter \in Int
  BY <1>1, Ranges DEF SlotInv, TypeOK
<1> QED
  BY <1>1, <1>2, <1>3, Basics DEF Life

\* schedule() buries a zombie, dispatches a process that can run, or does
\* nothing a user could see.
LEMMA ScheduleControl ==
    ASSUME SlotInv, ShellInv, NEW R \in SUBSET Envs, NEW L \in SUBSET Envs,
           RInv(R, L), ScheduleStep("irq")
    PROVE  ControlStep
<1> USE Basics DEF At
<1>1. ~ScanNull("irq") /\ ~ReapPanics("irq")
  BY ScheduleRing DEF Frames
<1>2. CASE Reap("irq")
  <2>1. PICK z, p : z = irq.tmp /\ p = env_id[z]
    OBVIOUS
  <2>2. /\ z \in Live(R, L) /\ z \notin R /\ env_status[z] = "zombie"
        /\ cur_env \in R /\ z \in Envs
    BY <1>2, <2>1, LiveFacts DEF Reap, irq, Live, Dying, RInv, Strays, Closed,
       Locals
  <2>3. /\ p \in Pid /\ p < env_counter /\ env_map[p] = z
        /\ env_id[cur_env] # p
    BY <2>1, <2>2, LiveFacts DEF RInv, Known, Live
  <2>4. /\ env_map \in [Pid -> EnvPtr] /\ env_status \in [Envs -> Status]
        /\ env_id \in [Envs -> Pid] /\ env_counter \in Int
        /\ \A q \in Pid : q \in Int
    BY Ranges DEF SlotInv, TypeOK
  <2>5. /\ env_map' = [env_map EXCEPT ![p] = NULL]
        /\ env_status' = [env_status EXCEPT ![z] = "zombie"]
        /\ env_id' = [env_id EXCEPT ![z] = 0]
        /\ env_counter' = env_counter /\ cur_env' = cur_env
    BY <1>2, <2>1 DEF Reap, env_free, Unmap, irq
  <2>6. \A q \in Pid : q # p => env_map[q] # z
    BY <2>2, <2>3 DEF SlotInv, MapOK, MapSound
  <2>7. Life(p) = "zombie" /\ Life(p)' = "gone"
    BY <2>2, <2>3, <2>4, <2>5 DEF Life
  <2>8. \A q \in Pid : q # p => Life(q)' = Life(q)
    BY <2>2, <2>4, <2>5, <2>6 DEF Life
  <2>9. env_id'[cur_env'] = env_id[cur_env]
    BY <2>2, <2>4, <2>5
  <2>10. Control!Bury(p)
    BY <2>3, <2>7, <2>8, <2>9, OneBecomes DEF Control!Bury
  <2> QED
    BY <2>3, <2>10 DEF ControlStep, Control!Next
<1>3. CASE Pick("irq")
  <2>1. /\ cur_env' = irq.tail /\ irq.tail \in R
        /\ env_status[irq.tail] = "runnable"
        /\ UNCHANGED <<env_map, env_counter, env_status, env_id>>
    BY <1>3 DEF Pick, irq, RInv, Locals
  <2>2. PICK p : p = env_id[irq.tail]
    OBVIOUS
  <2>3. p \in Pid /\ Life(p) = "runnable"
    BY <2>1, <2>2, CurrentLife
  <2>4. \A q \in Pid : Life(q)' = Life(q)
    BY <2>1 DEF Life
  <2>5. env_id'[cur_env'] = p
    BY <2>1, <2>2
  <2>6. Control!Dispatch(p)
    <3>1. Pid' = Pid
      BY DEF Pid
    <3> QED
      BY <2>3, <2>4, <2>5, <3>1 DEF Control!Dispatch
  <2> QED
    BY <2>3, <2>6 DEF ControlStep, Control!Next
<1>4. CASE ~Reap("irq") /\ ~Pick("irq")
  <2>1. UNCHANGED <<env_map, env_counter, env_status, env_id, cur_env>>
    BY <1>1, <1>4 DEF ScheduleStep, Scheduling, ScanEnd, ScanSkip, ScanZombie,
       ScanFound, Unlink, Follow, Switch, envVars
  <2> QED
    BY <2>1, SameLives
<1> QED
  BY <1>2, <1>3, <1>4

\* A system call that gives up the CPU suspends the process that made it.
LEMMA YieldControl ==
    ASSUME SlotInv, ShellInv, NEW R, NEW L, RInv(R, L), Runs,
           CputcBlocks \/ CgetcBlocks \/ Destroy
    PROVE  Runs' /\ ControlStep
<1> USE Basics
<1>1. PICK s \in {"blocked", "zombie"} : Yield(s)
  BY DEF CputcBlocks, CgetcBlocks, Destroy
<1>2. /\ ~Active("irq") /\ irq.at = "idle" /\ cur_env \in R
      /\ cur_env # ShellEnv
  <2>1. ~Active("irq") /\ pc[running] \in {"cputc", "cgetc", "destroy"}
    BY DEF CputcBlocks, CgetcBlocks, Destroy, InCall
  <2>2. /\ running = 0 <=> cur_env = ShellEnv
        /\ cur_env \in R
    BY <2>1, OnCpu
  <2>3. running # 0 \/ cur_env # ShellEnv
    BY <2>1, <2>2 DEF CputcBlocks, CgetcBlocks, Destroy, InCall, ShellInv
  <2> QED
    BY <2>1, <2>2, <2>3 DEF Active, irq
<1>3. PICK e, p : e = cur_env /\ p = env_id[e]
  OBVIOUS
<1>4. p \in Pid /\ env_map[p] = e /\ Life(p) = "runnable" /\ e \in Envs
  BY <1>2, <1>3, CurrentLife DEF Runs, SlotInv, TypeOK
<1>5. p # 0
  BY <1>2, <1>3, LiveFacts DEF Live
<1>6. /\ env_status' = [env_status EXCEPT ![e] = s]
      /\ UNCHANGED <<env_map, env_counter, env_id, cur_env, next_env>>
      /\ schedule("irq")
  BY <1>1, <1>3 DEF Yield, SetStatus
<1>7. Control!Become(p, s)
  BY <1>4, <1>6, StatusLife
<1>8. Control!Suspend(s)
  BY <1>3, <1>4, <1>5, <1>6, <1>7 DEF Control!Suspend
<1>9. env_status'[ShellEnv] = env_status[ShellEnv]
  BY <1>2, <1>3, <1>6 DEF SlotInv, TypeOK
<1>10. Runs'
  BY <1>2, <1>6, <1>9, EnterRuns
<1> QED
  BY <1>1, <1>8, <1>10 DEF ControlStep, Control!Next

\* stop, bring and kill act on the process the pid names, as the user asked.
LEMMA CommandControl ==
    ASSUME ShellLeftAlone, SlotInv, ShellInv, NEW R, NEW L, RInv(R, L), Runs,
           ChangeStatus
    PROVE  Runs' /\ ControlStep
<1> USE Basics
<1>1. pc[0] = "act" /\ ShellAt("act")
  BY DEF ChangeStatus, ShellAt, ShellInv, Fg
<1>2. /\ irq.at = "idle" /\ cur_env = ShellEnv /\ env_id[ShellEnv] = 0
  BY <1>1, LoadFacts
<1>3. PICK p, e, s : p = runinfo.pid /\ e = env_map[p]
                     /\ s = NewStatus[runinfo.cmd]
  OBVIOUS
<1>4. /\ p \in Pid /\ p # 0 /\ runinfo.cmd \in {"stop", "bring", "kill"}
  BY <1>1, <1>3 DEF ShellInv, ShellLeftAlone, PidCmds
<1>5. s \in {"stopped", "runnable", "zombie"}
  BY <1>3, <1>4 DEF NewStatus
<1>6. /\ e # NULL /\ env_status' = [env_status EXCEPT ![e] = s]
      /\ UNCHANGED <<env_map, env_counter, env_id, cur_env, frame>>
  BY <1>3 DEF ChangeStatus, Target, SetStatus
<1>7. Control!Living(p) /\ Control!Become(p, s)
  BY <1>3, <1>4, <1>6, StatusLife
<1>8. Control!Command(p, s)
  BY <1>2, <1>6, <1>7 DEF Control!Command
<1>9. e # ShellEnv
  BY <1>3, <1>4, <1>6 DEF SlotInv, MapOK, MapSound, FreeOK
<1>10. Runs'
  BY <1>2, <1>6, <1>9 DEF Runs, SlotInv, TypeOK, irq
<1> QED
  BY <1>4, <1>5, <1>8, <1>10 DEF ControlStep, Control!Next

\* load_icode() gives the next pid to its process, which can run at once.
LEMMA LaunchControl ==
    ASSUME SlotInv, ShellInv, NEW R, NEW L, RInv(R, L), Runs, RegisterEnv
    PROVE  Runs' /\ ControlStep
<1> USE Basics
<1>1. pc[0] = "register" /\ ShellAt("register")
  BY DEF RegisterEnv, ShellAt
<1>2. /\ irq.at = "idle" /\ cur_env = ShellEnv /\ env_id[ShellEnv] = 0
  BY <1>1, LoadFacts
<1>3. PICK p, e : p = env_counter /\ e = new_env
  OBVIOUS
<1>4. /\ p \in Pid /\ p # 0 /\ e \in Slot /\ env_id[e] = 0
      /\ env_counter \in Int /\ env_map \in [Pid -> EnvPtr]
      /\ env_status \in [Envs -> Status] /\ env_id \in [Envs -> Pid]
      /\ \A q \in Pid : q \in Int
  <2>1. e \in Slot /\ env_id[e] = 0
    BY <1>1, <1>3 DEF SlotInv, ShellOK
  <2>2. p < MAX_ENV_NUM /\ p \in 1 .. MAX_ENV_NUM
    BY <1>3 DEF RegisterEnv, SlotInv, TypeOK
  <2>3. p \in Pid /\ p # 0 /\ env_counter \in Int
    BY <1>3, <2>2, Ranges
  <2> QED
    BY <2>1, <2>3, Ranges DEF SlotInv, TypeOK
<1>5. /\ env_id' = [env_id EXCEPT ![e] = p]
      /\ env_map' = [env_map EXCEPT ![p] = e]
      /\ env_counter' = p + 1
      /\ env_status' = [env_status EXCEPT ![e] = "runnable"]
      /\ UNCHANGED <<frame, cur_env>>
  BY <1>3 DEF RegisterEnv, Register
<1>6. \A q \in Pid : env_map[q] # e
  BY <1>4 DEF SlotInv, MapOK, MapSound
<1>7. Life(p) = "unborn" /\ Life(p)' = "runnable"
  BY <1>3, <1>4, <1>5 DEF Life
<1>8. \A q \in Pid : q # p => Life(q)' = Life(q)
  <2> SUFFICES ASSUME NEW q \in Pid, q # p PROVE Life(q)' = Life(q)
    OBVIOUS
  <2>1. /\ q >= env_counter' <=> q >= env_counter
        /\ env_map'[q] = env_map[q]
    BY <1>3, <1>4, <1>5
  <2>2. env_map[q] # NULL => env_status'[env_map[q]] = env_status[env_map[q]]
    BY <1>4, <1>5, <1>6
  <2> QED
    BY <2>1, <2>2 DEF Life
<1>9. \A q \in Pid : q < p => Life(q) # "unborn"
  BY <1>3, <1>4 DEF Life, Status
<1>10. env_id'[cur_env'] = env_id[cur_env] /\ env_id[cur_env] = 0
  BY <1>2, <1>4, <1>5
<1>11. Control!Launch(p)
  BY <1>4, <1>7, <1>8, <1>9, <1>10, OneBecomes DEF Control!Launch
<1>12. Runs'
  BY <1>2, <1>4, <1>5 DEF Runs, irq
<1> QED
  BY <1>4, <1>11, <1>12 DEF ControlStep, Control!Next

\* The rest touches no status, no pid and not the current process.
LEMMA RestControl ==
    ASSUME SlotInv, ShellInv, NEW R, NEW L, RInv(R, L), Runs, Next,
           ~ScheduleStep("irq"), ~ScheduleStep("shell"),
           ~CputcBlocks, ~CgetcBlocks, ~Destroy, ~ChangeStatus, ~RegisterEnv
    PROVE  Runs' /\ ControlStep
<1>1. /\ ~FgTarget /\ ~FgFront /\ ~FgSchedule
  BY DEF FgTarget, FgFront, FgSchedule, ShellAt, ShellInv, Fg
<1>2. UNCHANGED <<env_map, env_counter, env_status, env_id, cur_env>>
  <2>1. CASE \/ Tick \/ CtrlB \/ (\E line \in Lines : Key(line))
             \/ (\E s \in Syscalls : Call(s))
    BY <2>1 DEF Tick, CtrlB, Key, Call, envVars
  <2>2. CASE \/ Cputc \/ Cgetc \/ CgetcResumes \/ DestroyReturns \/ Getline
             \/ CheckPid \/ TargetGone \/ Jobs \/ JobsNext \/ JobsEnd
    BY <2>2 DEF Cputc, Cgetc, CgetcResumes, TakeInput, DestroyReturns, Getline,
       CheckPid, TargetGone, Jobs, JobsNext, JobsEnd, envVars
  <2>3. CASE \/ Launch \/ Alloc \/ PopStore \/ PopRead \/ MapEnv \/ LinkEnv
             \/ WalkNext \/ WalkEnd \/ Append \/ ShellFails
    BY <2>3 DEF Launch, Alloc, PopStore, PopRead, MapEnv, LinkEnv, WalkNext,
       WalkEnd, Append, ShellFails, envVars
  <2> QED
    BY <1>1, <2>1, <2>2, <2>3 DEF Next, KernelStep, ShellStep
<1>3. ControlStep
  BY <1>2, SameLives
<1>4. CASE Tick
  <2>1. ~Active("irq") /\ schedule("irq") /\ next_env' = next_env
    BY <1>4 DEF Tick, IntrOn, envVars
  <2> QED
    BY <1>2, <1>3, <2>1, EnterRuns
<1>5. CASE ~Tick
  <2>1. ~Active("irq")
    <3>1. CASE CtrlB \/ (\E line \in Lines : Key(line))
               \/ (\E s \in Syscalls : Call(s))
      BY <3>1 DEF CtrlB, Key, Call, IntrOn
    <3>2. CASE \/ Cputc \/ Cgetc \/ CgetcResumes \/ DestroyReturns \/ Getline
               \/ CheckPid \/ TargetGone \/ Jobs \/ JobsNext \/ JobsEnd
      BY <3>2 DEF Cputc, Cgetc, CgetcResumes, DestroyReturns, Getline,
         CheckPid, TargetGone, Jobs, JobsNext, JobsEnd, InCall, ShellAt
    <3>3. CASE \/ Launch \/ Alloc \/ PopStore \/ PopRead \/ MapEnv \/ LinkEnv
               \/ WalkNext \/ WalkEnd \/ Append \/ ShellFails
      BY <3>3 DEF Launch, Alloc, PopStore, PopRead, MapEnv, LinkEnv, WalkNext,
         WalkEnd, Append, ShellFails, ShellAt
    <3> QED
      BY <1>1, <1>5, <3>1, <3>2, <3>3 DEF Next, KernelStep, ShellStep
  <2>2. irq'.at = "idle"
    <3>1. CASE frame' = frame
      BY <2>1, <3>1 DEF Active, irq
    <3>2. CASE frame' # frame
      <4>1. DestroyReturns \/ TargetGone \/ ShellFails
        BY <1>1, <1>5, <3>2 DEF Next, KernelStep, ShellStep, CtrlB, Key, Call,
           Cputc, Cgetc, CgetcResumes, TakeInput, Getline, CheckPid, Jobs,
           JobsNext, JobsEnd, Launch, Alloc, PopStore, PopRead, MapEnv,
           LinkEnv, WalkNext, WalkEnd, Append, schedVars
      <4> QED
        BY <4>1 DEF DestroyReturns, TargetGone, ShellFails, Hang, Frames,
           Idle, irq
    <3> QED
      BY <3>1, <3>2
  <2>3. irq.at = "idle"
    BY <2>1 DEF Active, irq
  <2> QED
    BY <1>2, <1>3, <2>2, <2>3 DEF Runs
<1> QED
  BY <1>3, <1>4, <1>5

LEMMA InitControl == ASSUME Init PROVE Runs /\ Control!Init
<1>1. Runs
  BY Basics DEF Init, init_sched, Runs, Idle, Frames, irq
<1>2. Control!Init
  BY Ranges, Basics DEF Init, init_sched, Life, Control!Init
<1> QED
  BY <1>1, <1>2

LEMMA StepControl ==
    ASSUME PopAtomic, ShellLeftAlone, KernelInv, Runs, [Next]_vars
    PROVE  Runs' /\ ControlStep
<1>1. PICK R, L \in SUBSET Envs : RInv(R, L)
  BY DEF KernelInv, RingInv
<1> USE DEF KernelInv, RingInv
<1>2. CASE \E f \in Frames : ScheduleStep(f)
  <2>1. ScheduleStep("irq")
    BY <1>1, <1>2, ScheduleRing
  <2> QED
    BY <1>1, <2>1, ScheduleRuns, ScheduleControl
<1>3. CASE CputcBlocks \/ CgetcBlocks \/ Destroy
  BY <1>1, <1>3, YieldControl
<1>4. CASE ChangeStatus
  BY <1>1, <1>4, CommandControl
<1>5. CASE RegisterEnv
  BY <1>1, <1>5, LaunchControl
<1>6. CASE UNCHANGED vars
  <2>1. /\ UNCHANGED <<env_map, env_counter, env_status, env_id, cur_env>>
        /\ irq' = irq
    BY <1>6 DEF vars, envVars, schedVars, irq
  <2> QED
    BY <2>1, SameLives DEF Runs
<1> QED
  BY <1>1, <1>2, <1>3, <1>4, <1>5, <1>6, RestControl DEF Frames

\* Whatever the timer interrupts, the user sees one process per pid, whose
\* life goes as JobControl says.
THEOREM JobsAreControlled ==
    ASSUME PopAtomic, ShellLeftAlone PROVE Spec => JobsControlled
<1>1. Init => Runs /\ Control!Init
  BY InitControl
<1>2. KernelInv /\ Runs /\ [Next]_vars => Runs' /\ ControlStep
  BY StepControl
<1>3. Spec => []KernelInv
  BY AloneIsOrderly, KernelInvariant
<1> QED
  BY <1>1, <1>2, <1>3, PTL
     DEF Spec, JobsControlled, Control!Spec, ControlStep
=============================================================================
