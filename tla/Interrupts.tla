----------------------------- MODULE Interrupts -----------------------------
(***************************************************************************)
(* Interrupts from the request to the return: the two cascaded 8259A PICs  *)
(* as init_idt() sets them up, the stubs of idt_s.s, irq_handler() and     *)
(* isr_handler(), and the interrupt flag on its way through switch_to,     *)
(* vsprintf() and iret.  What handlers do to processes is Kernel's         *)
(* subject; here they return, switch threads, print or loop for ever.      *)
(***************************************************************************)
EXTENDS Integers, Sequences

CONSTANTS
    Threads,      \* 0 is the shell
    Lines,        \* the PICs' request lines that devices use
    Faults        \* the exceptions that threads cause

ASSUME InterruptsAssumption ==
    /\ 0 \in Threads
    /\ Lines \subseteq (0 .. 15) \ {2}
    /\ Faults \subseteq 0 .. 31

VARIABLES
    irr,          \* the lines that request an interrupt
    isr,          \* the lines in service: the PICs wait for their EOI
    intr,         \* the CPU's interrupt flag
    thread,       \* the thread on the CPU
    stack,        \* each thread's unfinished interrupts, the last one on top
    eflags        \* the interrupt flag in each thread's context

vars == <<irr, isr, intr, thread, stack, eflags>>

CASCADE == 2
IRQ(line) == 32 + line
SYSCALL == 255
PAGE_FAULT == 14
interrupt_handlers == {IRQ(0), IRQ(1), PAGE_FAULT, SYSCALL}

\* All lines are open; every gate is an interrupt gate, which turns
\* interrupts off.  load_icode() gives a new thread a context with interrupts
\* on, and kern_init() turns them on once all handlers are registered.
Init ==
    /\ irr \in SUBSET Lines
    /\ isr = {}
    /\ intr = TRUE
    /\ thread = 0
    /\ stack = [t \in Threads |-> <<>>]
    /\ eflags = [t \in Threads |-> TRUE]

----------------------------------------------------------------------------
\* The PICs (modelled from how init_idt() and irq_handler() program them): a
\* line in service holds back itself and the lines behind it.
IsSlave(line) == line >= 8
Master_irq3(line) == IF IsSlave(line) THEN 3 ELSE line   \* mutant: ICW3 is 8
Master(line) == IF IsSlave(line) THEN CASCADE ELSE line
HeldBack(line) ==
    \E m \in isr :
        IF IsSlave(m) THEN IsSlave(line) /\ m <= line ELSE m <= Master(line)
Before(l, m) ==
    \/ Master(l) < Master(m)
    \/ Master(l) = Master(m) /\ l < m
Pending(line) == intr /\ line \in irr /\ ~HeldBack(line)
Urgent(line) == Pending(line) /\ \A m \in Lines : Pending(m) => ~Before(m, line)
Quiet == \A line \in Lines : ~Pending(line)

Raise(line) ==
    /\ line \notin irr
    /\ irr' = irr \cup {line}
    /\ UNCHANGED <<isr, intr, thread, stack, eflags>>

----------------------------------------------------------------------------
\* An interrupt's entry: flags and vector go onto the thread's stack.
Push_open(vec, at) ==   \* mutant: trap gates
    /\ stack' = [stack EXCEPT ![thread] =
                    Append(@, [vec |-> vec, at |-> at, eflags |-> intr])]
    /\ UNCHANGED <<intr, thread, eflags>>
Push(vec, at) ==
    /\ stack' = [stack EXCEPT ![thread] =
                    Append(@, [vec |-> vec, at |-> at, eflags |-> intr])]
    /\ intr' = FALSE
    /\ UNCHANGED <<thread, eflags>>

Accept(line) ==
    /\ Urgent(line)
    /\ Push(IRQ(line), "eoi")
    /\ irr' = irr \ {line}
    /\ isr' = isr \cup {line, Master(line)}

\* A request that went away is answered as line 7, which is not in service.
Spurious ==
    /\ intr /\ irr = {}
    /\ Push(IRQ(7), "eoi")
    /\ UNCHANGED <<irr, isr>>

Depth == Len(stack[thread])
InOwnCode == Depth = 0
Top == stack[thread][Depth]
InHandler(at) == ~InOwnCode /\ Top.at = at

\* The CPU looks for requests before every instruction.
Execute == Quiet /\ UNCHANGED <<irr, isr>>

\* syscall(): int 255.
Syscall == Execute /\ InOwnCode /\ Push(SYSCALL, "handler")

\* A handler at its work: anywhere in it, or in SYS_cputc's loop.
Working == InHandler("handler") \/ InHandler("retry")
Loops == \E k \in 1 .. Depth : stack[thread][k].at = "hung"

\* A thread faults in its own code, and the kernel through a bad pointer in a
\* system call or in the schedule() of the timer's handler.  Bound: a handler
\* on top of a thread that loops does not fault again.
Fault(vec) ==
    /\ Execute
    /\ \/ InOwnCode
       \/ /\ vec = PAGE_FAULT
          /\ Working /\ Top.vec \in {IRQ(0), SYSCALL}
          /\ ~Loops
    /\ Push(vec, "handler")

----------------------------------------------------------------------------
\* irq_handler() ends the service before it calls the handler: the slave's for
\* vectors from 40 on, then the master's.  The EOI is not specific: it is the
\* most urgent line's.
First(lines) == {l \in lines : \A m \in lines : l <= m}
SlaveEoi_never(vec) == {}   \* mutant: only the master gets an EOI
SlaveEoi(vec) ==
    IF vec >= 40 THEN First({l \in isr : IsSlave(l)}) ELSE {}
MasterEoi == First({l \in isr : ~IsSlave(l)})

To(at) == stack' = [stack EXCEPT ![thread][Depth].at = at]
Eoi_last ==   \* mutant: the handler first
    /\ InHandler("eoi")
    /\ To("handler")
    /\ UNCHANGED <<irr, isr, intr, thread, eflags>>
Eoi ==
    /\ InHandler("eoi")
    /\ isr' = isr \ (SlaveEoi(Top.vec) \cup MasterEoi)
    /\ To("handler")
    /\ UNCHANGED <<irr, intr, thread, eflags>>

\* A handler that does its work and returns, or no handler for a line.
Return ==
    /\ InHandler("handler")
    /\ Top.vec # PAGE_FAULT
    /\ Top.vec >= 32 \/ Top.vec \in interrupt_handlers
    /\ To("iret")
    /\ UNCHANGED <<irr, isr, intr, thread, eflags>>

\* switch_to: the flag goes into the old context and comes from the new one.
Switch_no_popf(t) ==   \* mutant: the flag is not restored
    /\ thread' = t
    /\ eflags' = [eflags EXCEPT ![thread] = intr]
    /\ intr' = intr
Switch(t) ==
    /\ thread' = t
    /\ eflags' = [eflags EXCEPT ![thread] = intr]
    /\ intr' = eflags[t]

\* schedule() in the timer's handler or a system call, and in the fg command,
\* which the shell calls with interrupts on.
Schedule(t) ==
    /\ InHandler("handler")
    /\ Top.vec \in {IRQ(0), SYSCALL}
    /\ To("iret")
    /\ Switch(t)
    /\ UNCHANGED <<irr, isr>>

\* make_a_try in SYS_cputc: a background process is blocked and schedule()
\* called, again and again until it comes back as a foreground process and
\* prints.  Where schedule() finds nobody to run nothing changes, and the
\* handler goes round its loop with interrupts off.
Block ==
    /\ InHandler("handler")
    /\ Top.vec = SYSCALL
    /\ To("retry")
    /\ UNCHANGED <<irr, isr, intr, thread, eflags>>
RetrySchedule(t) ==
    /\ InHandler("retry")
    /\ To("iret") \/ UNCHANGED stack
    /\ Switch(t)
    /\ UNCHANGED <<irr, isr>>

FgSchedule(t) ==
    /\ Execute
    /\ InOwnCode /\ thread = 0
    /\ Switch(t)
    /\ UNCHANGED stack

\* isr_handler() without a handler prints: vsprintf() turns interrupts on,
\* whatever they were, and they stay on until iret.
Unhandled ==
    /\ InHandler("handler")
    /\ Top.vec < 32 /\ Top.vec \notin interrupt_handlers
    /\ To("printed")
    /\ intr' = TRUE
    /\ UNCHANGED <<irr, isr, thread, eflags>>

\* page_fault() and panic() print and loop for ever.  Bound: a thread that
\* loops does not panic again in an interrupt on top of the loop.
Hang ==
    /\ Working
    /\ \/ Top.vec = PAGE_FAULT
       \/ Top.vec \in {IRQ(0), SYSCALL} /\ ~Loops
    /\ To("hung")
    /\ intr' = TRUE
    /\ UNCHANGED <<irr, isr, thread, eflags>>

Iret ==
    /\ Execute
    /\ InHandler("iret") \/ InHandler("printed")
    /\ intr' = Top.eflags
    /\ stack' = [stack EXCEPT ![thread] = SubSeq(@, 1, Depth - 1)]
    /\ UNCHANGED <<thread, eflags>>

----------------------------------------------------------------------------
Handling ==
    \/ Eoi \/ Return \/ Unhandled \/ Hang \/ Iret
    \/ \E t \in Threads \ {thread} : Schedule(t)

Next ==
    \/ \E line \in Lines : Raise(line) \/ Accept(line)
    \/ Spurious \/ Syscall \/ \E vec \in Faults : Fault(vec)
    \/ Block
    \/ \E t \in Threads \ {thread} : RetrySchedule(t) \/ FgSchedule(t)
    \/ Handling

\* The CPU goes on with a handler, and takes an interrupt that is pending.
\* Nothing promises that SYS_cputc's loop ends.
Fairness ==
    /\ WF_vars(Handling)
    /\ WF_vars(\E line \in Lines : Accept(line))

Spec == Init /\ [][Next]_vars /\ Fairness
----------------------------------------------------------------------------
(***************************************************************************)
(* Properties                                                              *)
(***************************************************************************)

\* Every variable keeps to its type.
Activation ==
    [vec : {IRQ(line) : line \in Lines \cup {7}} \cup Faults \cup {SYSCALL},
     at : {"eoi", "handler", "retry", "printed", "hung", "iret"},
     eflags : BOOLEAN]
TypeOK ==
    /\ irr \subseteq Lines
    /\ isr \subseteq Lines \cup {CASCADE}
    /\ intr \in BOOLEAN
    /\ thread \in Threads
    /\ stack \in [Threads -> Seq(Activation)]
    /\ eflags \in [Threads -> BOOLEAN]

\* The PICs wait for an EOI only while the thread on the CPU is about to send
\* it: no switch of threads, no handler that loops and no spurious interrupt
\* leaves a line in service, which would hold back all lines behind it.
ServiceEnds ==
    isr # {} =>
        /\ InHandler("eoi")
        /\ \A line \in isr : Master(line) = Master(Top.vec - 32)

\* A thread in its own code runs with interrupts on, whichever handler it was
\* switched away from and whichever switched to it.
Interruptible ==
    \A t \in Threads :
        stack[t] = <<>> => IF t = thread THEN intr ELSE eflags[t]

\* No device's interrupt and no system call comes on top of a handler that has
\* not printed, wherever that is switched away and back; what may lie on it is
\* its own fault, which comes after the EOI.
NotNested ==
    \A t \in Threads : \A k \in 1 .. Len(stack[t]) - 1 :
        \/ stack[t][k].at \in {"printed", "hung"}
        \/ /\ stack[t][k].at \in {"handler", "retry"}
           /\ stack[t][k + 1].vec < 32

\* A request is answered as soon as no more urgent line asks: the timer's
\* always is, even when a thread loops in a panic.  The loop in SYS_cputc is
\* the only place where that ends: as long as the CPU is not stuck in it.
Served ==
    []<>~InHandler("retry") =>
        \A line \in Lines :
            (line \in irr)
                ~> (line \notin irr \/ \E m \in irr : Before(m, line))
=============================================================================
