-------------------------- MODULE InterruptsProofs --------------------------
(***************************************************************************)
(* Theorems about Interrupts, for any threads, request lines and faults:   *)
(* no line stays in service, threads run with interrupts on, and handlers  *)
(* nest only where they have printed.                                      *)
(***************************************************************************)
EXTENDS Interrupts, TLAPS

\* Where an activation stands that has turned interrupts on by printing.
Loud == {"printed", "hung"}

\* What may lie below an activation on a stack.
MayLieBelow(a, b) ==
    /\ b.eflags => a.at \in Loud
    /\ a.at \in Loud \/ (a.at \in {"handler", "retry"} /\ b.vec < 32)

\* A stack's first activation interrupted a thread that had interrupts on,
\* the others what they may.
GoodStack(s) ==
    /\ Len(s) > 0 => s[1].eflags
    /\ \A k \in 1 .. Len(s) - 1 : MayLieBelow(s[k], s[k + 1])

StackInv == \A t \in Threads : GoodStack(stack[t])

\* The CPU's flag follows from where the thread on it stands, and the flag in
\* a waiting thread's context from whether an interrupt took it off the CPU.
FlagInv ==
    /\ intr => InOwnCode \/ Top.at \in Loud
    /\ InOwnCode => intr
    /\ \A t \in Threads \ {thread} :
        /\ Len(stack[t]) = 0 => eflags[t]
        /\ Len(stack[t]) > 0 => ~eflags[t]

\* A line in service is the one whose handler is about to send the EOI.
ServiceInv ==
    isr # {} =>
        /\ InHandler("eoi")
        /\ ~intr
        /\ \E line \in Lines :
            Top.vec = IRQ(line) /\ isr = {line, Master(line)}

IInv == TypeOK /\ StackInv /\ FlagInv /\ ServiceInv

----------------------------------------------------------------------------
\* Activations push, pop and move on; each keeps a stack good.
LEMMA Pushed ==
    ASSUME NEW s \in Seq(Activation), NEW a \in Activation, GoodStack(s),
           Len(s) = 0 => a.eflags,
           Len(s) > 0 => MayLieBelow(s[Len(s)], a)
    PROVE  /\ Append(s, a) \in Seq(Activation)
           /\ Len(Append(s, a)) = Len(s) + 1
           /\ Append(s, a)[Len(s) + 1] = a
           /\ GoodStack(Append(s, a))
<1>1. /\ Append(s, a) \in Seq(Activation)
      /\ Len(Append(s, a)) = Len(s) + 1
      /\ Append(s, a)[Len(s) + 1] = a
      /\ \A k \in 1 .. Len(s) : Append(s, a)[k] = s[k]
  OBVIOUS
<1>2. Append(s, a)[1].eflags
  <2>1. CASE Len(s) = 0
    BY <2>1, <1>1
  <2>2. CASE Len(s) > 0
    BY <2>2, <1>1 DEF GoodStack
  <2> QED  BY <2>1, <2>2
<1>3. ASSUME NEW k \in 1 .. Len(s)
      PROVE  MayLieBelow(Append(s, a)[k], Append(s, a)[k + 1])
  <2>1. CASE k = Len(s)
    BY <2>1, <1>1
  <2>2. CASE k \in 1 .. Len(s) - 1
    <3>1. MayLieBelow(s[k], s[k + 1])
      BY <2>2 DEF GoodStack
    <3>2. k + 1 \in 1 .. Len(s)
      BY <2>2
    <3> QED  BY <3>1, <3>2, <1>1
  <2> QED  BY <2>1, <2>2
<1> QED  BY <1>1, <1>2, <1>3 DEF GoodStack

LEMMA Shorter ==
    ASSUME NEW S, NEW s \in Seq(S), NEW n \in Nat, n = Len(s), n > 0
    PROVE  /\ SubSeq(s, 1, n - 1) \in Seq(S)
           /\ Len(SubSeq(s, 1, n - 1)) = n - 1
           /\ \A k \in 1 .. n - 1 : SubSeq(s, 1, n - 1)[k] = s[k]
  OBVIOUS

LEMMA Popped ==
    ASSUME NEW s \in Seq(Activation), GoodStack(s),
           NEW n \in Nat, n = Len(s), n > 0
    PROVE  /\ SubSeq(s, 1, n - 1) \in Seq(Activation)
           /\ Len(SubSeq(s, 1, n - 1)) = n - 1
           /\ \A k \in 1 .. n - 1 : SubSeq(s, 1, n - 1)[k] = s[k]
           /\ GoodStack(SubSeq(s, 1, n - 1))
<1> DEFINE r == SubSeq(s, 1, n - 1)
<1>1. /\ r \in Seq(Activation)
      /\ Len(r) = n - 1
      /\ \A k \in 1 .. n - 1 : r[k] = s[k]
  BY Shorter
<1> HIDE DEF r
<1>2. Len(r) > 0 => r[1].eflags
  BY <1>1 DEF GoodStack
<1>3. ASSUME NEW k \in 1 .. Len(r) - 1
      PROVE  MayLieBelow(r[k], r[k + 1])
  <2>1. k \in 1 .. n - 1 /\ k + 1 \in 1 .. n - 1
    BY <1>1
  <2>2. MayLieBelow(s[k], s[k + 1])
    BY <2>1 DEF GoodStack
  <2> QED  BY <2>1, <2>2, <1>1
<1> QED  BY <1>1, <1>2, <1>3 DEF GoodStack, r

LEMMA Moved ==
    ASSUME NEW s \in Seq(Activation), GoodStack(s), Len(s) > 0,
           NEW at \in {"eoi", "handler", "retry", "printed", "hung", "iret"}
    PROVE  /\ [s EXCEPT ![Len(s)].at = at] \in Seq(Activation)
           /\ Len([s EXCEPT ![Len(s)].at = at]) = Len(s)
           /\ [s EXCEPT ![Len(s)].at = at][Len(s)].at = at
           /\ [s EXCEPT ![Len(s)].at = at][Len(s)].vec = s[Len(s)].vec
           /\ GoodStack([s EXCEPT ![Len(s)].at = at])
<1> DEFINE r == [s EXCEPT ![Len(s)].at = at]
<1>1. /\ s[Len(s)] \in Activation
      /\ r = [s EXCEPT ![Len(s)] = [s[Len(s)] EXCEPT !.at = at]]
  OBVIOUS
<1>2. /\ [s[Len(s)] EXCEPT !.at = at] \in Activation
      /\ [s[Len(s)] EXCEPT !.at = at].at = at
      /\ [s[Len(s)] EXCEPT !.at = at].vec = s[Len(s)].vec
      /\ [s[Len(s)] EXCEPT !.at = at].eflags = s[Len(s)].eflags
  BY <1>1 DEF Activation
<1>3. /\ r \in Seq(Activation)
      /\ Len(r) = Len(s)
      /\ r[Len(s)] = [s[Len(s)] EXCEPT !.at = at]
      /\ \A k \in 1 .. Len(s) - 1 : r[k] = s[k]
  BY <1>1, <1>2
<1> HIDE DEF r
<1>4. r[1].eflags
  <2> DEFINE n == Len(s)
  <2>1. n \in Nat /\ n > 0
    OBVIOUS
  <2> HIDE DEF n
  <2>2. n = 1 \/ 1 \in 1 .. n - 1
    BY <2>1
  <2>3. r[1].eflags = s[1].eflags
    BY <2>2, <1>2, <1>3 DEF n
  <2>4. s[1].eflags
    BY DEF GoodStack
  <2> QED  BY <2>3, <2>4
<1>5. ASSUME NEW k \in 1 .. Len(s) - 1
      PROVE  MayLieBelow(r[k], r[k + 1])
  <2>1. MayLieBelow(s[k], s[k + 1])
    BY DEF GoodStack
  <2>2. r[k + 1].vec = s[k + 1].vec /\ r[k + 1].eflags = s[k + 1].eflags
    <3>1. CASE k + 1 = Len(s)
      BY <3>1, <1>2, <1>3
    <3>2. CASE k + 1 < Len(s)
      BY <3>2, <1>3
    <3> QED  BY <3>1, <3>2
  <2> QED  BY <2>1, <2>2, <1>3 DEF MayLieBelow
<1> QED  BY <1>2, <1>3, <1>4, <1>5 DEF GoodStack, r

----------------------------------------------------------------------------
\* What a change of the stack on the CPU means for all stacks.
LEMMA OneStack ==
    ASSUME TypeOK, StackInv, NEW s \in Seq(Activation), GoodStack(s),
           stack' = [stack EXCEPT ![thread] = s]
    PROVE  /\ stack' \in [Threads -> Seq(Activation)]
           /\ StackInv'
           /\ stack'[thread] = s
           /\ \A t \in Threads \ {thread} : stack'[t] = stack[t]
<1>1. /\ thread \in Threads
      /\ stack \in [Threads -> Seq(Activation)]
  BY DEF TypeOK
<1>2. /\ stack' \in [Threads -> Seq(Activation)]
      /\ stack'[thread] = s
      /\ \A t \in Threads \ {thread} : stack'[t] = stack[t]
  BY <1>1
<1>3. ASSUME NEW t \in Threads  PROVE GoodStack(stack'[t])
  BY <1>2 DEF StackInv
<1> QED  BY <1>2, <1>3 DEF StackInv

\* An interrupt's entry: interrupts are on, or it is a handler's own fault.
LEMMA PushStep ==
    ASSUME IInv, NEW vec, NEW at \in {"eoi", "handler"},
           vec \in {IRQ(line) : line \in Lines \cup {7}}
                      \cup Faults \cup {SYSCALL},
           Push(vec, at),
           ~InOwnCode =>
               \/ Top.at \in Loud
               \/ ~intr /\ Top.at \in {"handler", "retry"} /\ vec < 32
    PROVE  /\ stack' \in [Threads -> Seq(Activation)]
           /\ StackInv'
           /\ FlagInv'
           /\ InHandler(at)'
           /\ Top'.vec = vec
<1> DEFINE s == stack[thread]
           a == [vec |-> vec, at |-> at, eflags |-> intr]
<1>1. /\ s \in Seq(Activation)
      /\ GoodStack(s)
      /\ a \in Activation
  BY DEF IInv, TypeOK, StackInv, Activation
<1>2. Len(s) = 0 => a.eflags
  BY DEF IInv, FlagInv, InOwnCode, Depth
<1>3. Len(s) > 0 => MayLieBelow(s[Len(s)], a)
  BY DEF IInv, FlagInv, InOwnCode, Depth, Top, MayLieBelow
<1>4. /\ Append(s, a) \in Seq(Activation)
      /\ Len(Append(s, a)) = Len(s) + 1
      /\ Append(s, a)[Len(s) + 1] = a
      /\ GoodStack(Append(s, a))
  BY <1>1, <1>2, <1>3, Pushed
<1>5. stack' = [stack EXCEPT ![thread] = Append(s, a)]
  BY DEF Push
<1>6. /\ stack' \in [Threads -> Seq(Activation)]
      /\ StackInv'
      /\ stack'[thread] = Append(s, a)
      /\ \A t \in Threads \ {thread} : stack'[t] = stack[t]
  BY <1>4, <1>5, OneStack DEF IInv
<1>7. thread' = thread /\ intr' = FALSE /\ eflags' = eflags
  BY DEF Push
<1>8. Len(s) \in Nat
  BY <1>1
<1>9. Top' = a /\ ~InOwnCode'
  BY <1>4, <1>6, <1>7, <1>8 DEF Top, Depth, InOwnCode
<1>10. FlagInv'
  BY <1>6, <1>7, <1>9 DEF IInv, FlagInv
<1> QED  BY <1>6, <1>9, <1>10 DEF InHandler

\* The activation on top moves on.
LEMMA ToStep ==
    ASSUME IInv, ~InOwnCode,
           NEW at \in {"eoi", "handler", "retry", "printed", "hung", "iret"},
           To(at)
    PROVE  /\ stack' \in [Threads -> Seq(Activation)]
           /\ StackInv'
           /\ \A t \in Threads : Len(stack'[t]) = Len(stack[t])
           /\ stack'[thread][Depth].at = at
           /\ stack'[thread][Depth].vec = Top.vec
<1> DEFINE s == stack[thread]
           r == [s EXCEPT ![Len(s)].at = at]
<1>1. /\ s \in Seq(Activation)
      /\ GoodStack(s)
      /\ Len(s) > 0
  BY DEF IInv, TypeOK, StackInv, InOwnCode, Depth
<1>2. /\ r \in Seq(Activation)
      /\ Len(r) = Len(s)
      /\ r[Len(s)].at = at
      /\ r[Len(s)].vec = s[Len(s)].vec
      /\ GoodStack(r)
  BY <1>1, Moved
<1>3. stack' = [stack EXCEPT ![thread] = r]
  BY DEF To, Depth
<1> HIDE DEF r
<1>4. /\ stack' \in [Threads -> Seq(Activation)]
      /\ StackInv'
      /\ stack'[thread] = r
      /\ \A t \in Threads \ {thread} : stack'[t] = stack[t]
  BY <1>2, <1>3, OneStack DEF IInv
<1> QED  BY <1>2, <1>4 DEF Depth, Top

\* A handler prints and keeps interrupts on.
LEMMA LoudStep ==
    ASSUME IInv, ~InOwnCode, NEW at \in Loud, To(at),
           intr' = TRUE, UNCHANGED <<thread, eflags>>
    PROVE  FlagInv'
<1>1. /\ \A t \in Threads : Len(stack'[t]) = Len(stack[t])
      /\ stack'[thread][Depth].at = at
  BY ToStep DEF Loud
<1>2. thread \in Threads
  BY DEF IInv, TypeOK
<1>3. Top'.at = at /\ ~InOwnCode'
  BY <1>1, <1>2 DEF Top, Depth, InOwnCode
<1> QED  BY <1>1, <1>3 DEF IInv, FlagInv

\* A quiet handler moves on, on the same thread.
LEMMA QuietStep ==
    ASSUME IInv, ~InOwnCode, Top.at \notin Loud,
           NEW at \in {"handler", "retry", "iret"}, To(at),
           UNCHANGED <<intr, thread, eflags>>
    PROVE  FlagInv'
<1>1. \A t \in Threads : Len(stack'[t]) = Len(stack[t])
  BY ToStep
<1>2. thread \in Threads /\ ~intr
  BY DEF IInv, TypeOK, FlagInv
<1>3. ~InOwnCode' /\ ~intr'
  BY <1>1, <1>2 DEF Depth, InOwnCode
<1> QED  BY <1>1, <1>3 DEF IInv, FlagInv

\* A switch of threads, by a quiet handler or by the shell's fg command.
LEMMA SwitchStep ==
    ASSUME IInv, InOwnCode \/ Top.at \notin Loud,
           NEW t \in Threads \ {thread}, Switch(t),
           \A u \in Threads : Len(stack'[u]) = Len(stack[u])
    PROVE  /\ FlagInv'
           /\ intr' \in BOOLEAN
           /\ thread' \in Threads
           /\ eflags' \in [Threads -> BOOLEAN]
<1>1. /\ thread \in Threads
      /\ intr \in BOOLEAN
      /\ eflags \in [Threads -> BOOLEAN]
      /\ stack \in [Threads -> Seq(Activation)]
  BY DEF IInv, TypeOK
<1>2. /\ thread' = t
      /\ intr' = eflags[t]
      /\ eflags' = [eflags EXCEPT ![thread] = intr]
  BY DEF Switch
<1>3. /\ eflags'[thread] = intr
      /\ \A u \in Threads \ {thread} : eflags'[u] = eflags[u]
  BY <1>1, <1>2
<1>4. /\ Len(stack[thread]) = 0 => intr
      /\ Len(stack[thread]) > 0 => ~intr
  BY <1>1 DEF IInv, FlagInv, InOwnCode, Depth
<1>5. /\ Len(stack[t]) = 0 => eflags[t]
      /\ Len(stack[t]) > 0 => ~eflags[t]
      /\ Len(stack[t]) = 0 \/ Len(stack[t]) > 0
  BY <1>1 DEF IInv, FlagInv
<1>6. /\ intr' => InOwnCode' \/ Top'.at \in Loud
      /\ InOwnCode' => intr'
  BY <1>2, <1>5 DEF InOwnCode, Depth
<1>7. ASSUME NEW u \in Threads \ {thread'}
      PROVE  /\ Len(stack'[u]) = 0 => eflags'[u]
             /\ Len(stack'[u]) > 0 => ~eflags'[u]
  <2>1. CASE u = thread
    BY <2>1, <1>3, <1>4
  <2>2. CASE u # thread
    BY <2>2, <1>3 DEF IInv, FlagInv
  <2> QED  BY <2>1, <2>2
<1>8. FlagInv'
  BY <1>6, <1>7 DEF FlagInv
<1> QED  BY <1>1, <1>2, <1>8

\* iret: the flag returns to what it was under the activation.
LEMMA IretStep ==
    ASSUME IInv, Iret
    PROVE  /\ stack' \in [Threads -> Seq(Activation)]
           /\ StackInv'
           /\ FlagInv'
           /\ intr' \in BOOLEAN
<1> DEFINE s == stack[thread]
           n == Len(s)
           r == SubSeq(s, 1, n - 1)
<1>1. /\ s \in Seq(Activation)
      /\ GoodStack(s)
      /\ n \in Nat
      /\ n # 0
      /\ thread \in Threads
  BY DEF IInv, TypeOK, StackInv, Iret, InHandler, InOwnCode, Depth
<1>2. \A k \in 1 .. n : s[k] \in Activation
  BY <1>1
<1>3. /\ stack' = [stack EXCEPT ![thread] = r]
      /\ intr' = s[n].eflags
      /\ thread' = thread
      /\ eflags' = eflags
  BY DEF Iret, Depth, Top
<1> HIDE DEF n
<1>4. n > 0 /\ n \in 1 .. n
  BY <1>1
<1>5. s[n].eflags \in BOOLEAN
  BY <1>2, <1>4 DEF Activation
<1>6. /\ r \in Seq(Activation)
      /\ Len(r) = n - 1
      /\ \A k \in 1 .. n - 1 : r[k] = s[k]
      /\ GoodStack(r)
  BY <1>1, <1>4, Popped DEF n
<1> HIDE DEF r
<1>7. /\ stack' \in [Threads -> Seq(Activation)]
      /\ StackInv'
      /\ stack'[thread] = r
      /\ \A t \in Threads \ {thread} : stack'[t] = stack[t]
  BY <1>3, <1>6, OneStack DEF IInv
<1>8. CASE n = 1
  <2>1. s[1].eflags
    BY <1>4 DEF GoodStack, n, IInv, StackInv, TypeOK
  <2>2. InOwnCode' /\ intr'
    BY <2>1, <1>3, <1>6, <1>7, <1>8 DEF InOwnCode, Depth
  <2> QED  BY <2>2, <1>3, <1>7, <1>5 DEF IInv, FlagInv
<1>9. CASE n > 1
  <2>1. n - 1 \in 1 .. n - 1 /\ n - 1 + 1 = n
    BY <1>1, <1>9
  <2>2. MayLieBelow(s[n - 1], s[n])
    BY <2>1, <1>1 DEF GoodStack, n
  <2>3. Top' = s[n - 1] /\ ~InOwnCode'
    BY <2>1, <1>3, <1>6, <1>7, <1>9 DEF Top, InOwnCode, Depth
  <2>4. intr' => Top'.at \in Loud
    BY <2>2, <2>3, <1>3 DEF MayLieBelow
  <2> QED  BY <2>3, <2>4, <1>3, <1>7, <1>5 DEF IInv, FlagInv
<1> QED  BY <1>1, <1>4, <1>8, <1>9

----------------------------------------------------------------------------
\* Only sending the EOI ends a service, and it ends it completely.
LEMMA NoService ==
    ASSUME IInv, intr \/ ~InHandler("eoi")
    PROVE  isr = {}
  BY DEF IInv, ServiceInv

LEMMA EoiEnds ==
    ASSUME IInv, Eoi
    PROVE  isr' = {}
<1>1. isr' = isr \ (SlaveEoi(Top.vec) \cup MasterEoi)
  BY DEF Eoi
<1>2. CASE isr = {}
  BY <1>1, <1>2
<1>3. CASE isr # {}
  <2>1. PICK line \in Lines : Top.vec = IRQ(line) /\ isr = {line, Master(line)}
    BY <1>3 DEF IInv, ServiceInv
  <2>2. line \in 0 .. 15
    BY InterruptsAssumption
  <2>3. CASE line >= 8
    <3>1. isr = {line, 2} /\ Top.vec >= 40
      BY <2>1, <2>2, <2>3 DEF Master, IsSlave, CASCADE, IRQ
    <3>2. line \in SlaveEoi(Top.vec) /\ 2 \in MasterEoi
      BY <2>2, <2>3, <3>1 DEF SlaveEoi, MasterEoi, First, IsSlave
    <3> QED  BY <1>1, <3>1, <3>2
  <2>4. CASE line < 8
    <3>1. isr = {line}
      BY <2>1, <2>2, <2>4 DEF Master, IsSlave
    <3>2. line \in MasterEoi
      BY <2>2, <2>4, <3>1 DEF MasterEoi, First, IsSlave
    <3> QED  BY <1>1, <3>1, <3>2
  <2> QED  BY <2>2, <2>3, <2>4
<1> QED  BY <1>2, <1>3

LEMMA InitInv == Init => IInv
<1> SUFFICES ASSUME Init PROVE IInv
  OBVIOUS
<1>1. /\ irr \subseteq Lines
      /\ isr = {}
      /\ intr = TRUE
      /\ thread \in Threads
      /\ \A t \in Threads : stack[t] = <<>>
      /\ eflags = [t \in Threads |-> TRUE]
  BY InterruptsAssumption DEF Init
<1>2. stack \in [Threads -> Seq(Activation)]
  <2>1. <<>> \in Seq(Activation)
    OBVIOUS
  <2> QED  BY <2>1 DEF Init
<1>3. TypeOK
  BY <1>1, <1>2 DEF TypeOK
<1>4. StackInv
  <2>1. Len(<<>>) = 0 /\ 1 .. 0 - 1 = {}
    OBVIOUS
  <2>2. GoodStack(<<>>)
    BY <2>1 DEF GoodStack
  <2> QED  BY <1>1, <2>2 DEF StackInv
<1>5. FlagInv
  BY <1>1 DEF FlagInv, InOwnCode, Depth
<1> QED  BY <1>1, <1>3, <1>4, <1>5 DEF IInv, ServiceInv

LEMMA StepInv ==
    ASSUME IInv, [Next]_vars
    PROVE  IInv'
<1> USE DEF IInv
<1>1. ASSUME NEW line \in Lines, Raise(line)  PROVE IInv'
  <2>1. TypeOK' /\ StackInv' /\ FlagInv'
    BY <1>1 DEF Raise, TypeOK, StackInv, FlagInv, InOwnCode, Top, Depth
  <2>2. ServiceInv'
    BY <1>1 DEF Raise, ServiceInv, InHandler, InOwnCode, Top, Depth
  <2> QED  BY <2>1, <2>2
<1>2. ASSUME NEW line \in Lines, Accept(line)  PROVE IInv'
  <2>1. intr /\ isr = {}
    BY <1>2, NoService DEF Accept, Urgent, Pending
  <2>2. /\ Push(IRQ(line), "eoi")
        /\ irr' = irr \ {line}
        /\ isr' = {line, Master(line)}
    BY <1>2, <2>1 DEF Accept
  <2>3. ~InOwnCode => Top.at \in Loud
    BY <2>1 DEF FlagInv
  <2>4. /\ stack' \in [Threads -> Seq(Activation)]
        /\ StackInv' /\ FlagInv'
        /\ InHandler("eoi")'
        /\ Top'.vec = IRQ(line)
    BY <2>2, <2>3, PushStep
  <2>5. intr' = FALSE /\ UNCHANGED <<thread, eflags>>
    BY <2>2 DEF Push
  <2>6. TypeOK'
    BY <2>2, <2>4, <2>5 DEF TypeOK, Master
  <2>7. ServiceInv'
    BY <2>2, <2>4, <2>5 DEF ServiceInv
  <2> QED  BY <2>4, <2>6, <2>7
<1>3. CASE Spurious
  <2>1. intr /\ isr = {} /\ Push(IRQ(7), "eoi") /\ UNCHANGED <<irr, isr>>
    BY <1>3, NoService DEF Spurious
  <2>2. ~InOwnCode => Top.at \in Loud
    BY <2>1 DEF FlagInv
  <2>3. stack' \in [Threads -> Seq(Activation)] /\ StackInv' /\ FlagInv'
    BY <2>1, <2>2, PushStep
  <2>4. intr' = FALSE /\ UNCHANGED <<thread, eflags>>
    BY <2>1 DEF Push
  <2>5. TypeOK' /\ ServiceInv'
    BY <2>1, <2>3, <2>4 DEF TypeOK, ServiceInv
  <2> QED  BY <2>3, <2>5
<1>4. CASE Syscall
  <2>1. InOwnCode /\ Push(SYSCALL, "handler") /\ UNCHANGED <<irr, isr>>
    BY <1>4 DEF Syscall, Execute
  <2>2. stack' \in [Threads -> Seq(Activation)] /\ StackInv' /\ FlagInv'
    BY <2>1, PushStep
  <2>3. isr = {}
    BY <2>1, NoService DEF InHandler
  <2>4. intr' = FALSE /\ UNCHANGED <<thread, eflags>>
    BY <2>1 DEF Push
  <2>5. TypeOK' /\ ServiceInv'
    BY <2>1, <2>2, <2>3, <2>4 DEF TypeOK, ServiceInv
  <2> QED  BY <2>2, <2>5
<1>5. ASSUME NEW vec \in Faults, Fault(vec)  PROVE IInv'
  <2>1. /\ InOwnCode \/ (Working /\ vec = PAGE_FAULT)
        /\ Push(vec, "handler")
        /\ UNCHANGED <<irr, isr>>
    BY <1>5 DEF Fault, Execute
  <2>2. ~InOwnCode =>
            /\ ~intr /\ ~InHandler("eoi")
            /\ Top.at \in {"handler", "retry"} /\ vec < 32
    BY <2>1 DEF FlagInv, Working, InHandler, Loud, PAGE_FAULT
  <2>3. stack' \in [Threads -> Seq(Activation)] /\ StackInv' /\ FlagInv'
    BY <2>1, <2>2, PushStep
  <2>4. isr = {}
    BY <2>2, NoService DEF InHandler
  <2>5. intr' = FALSE /\ UNCHANGED <<thread, eflags>>
    BY <2>1 DEF Push
  <2>6. TypeOK' /\ ServiceInv'
    BY <2>1, <2>3, <2>4, <2>5 DEF TypeOK, ServiceInv
  <2> QED  BY <2>3, <2>6
<1>6. CASE Eoi
  <2>1. /\ InHandler("eoi") /\ To("handler")
        /\ UNCHANGED <<irr, intr, thread, eflags>>
    BY <1>6 DEF Eoi
  <2>2. ~InOwnCode /\ Top.at \notin Loud
    BY <2>1 DEF InHandler, Loud
  <2>3. stack' \in [Threads -> Seq(Activation)] /\ StackInv' /\ FlagInv'
    BY <2>1, <2>2, ToStep, QuietStep
  <2>4. isr' = {}
    BY <1>6, EoiEnds
  <2> QED  BY <2>1, <2>3, <2>4 DEF TypeOK, ServiceInv
<1>7. CASE Return \/ Block
  <2>1. PICK at \in {"retry", "iret"} :
        /\ InHandler("handler") /\ To(at)
        /\ UNCHANGED <<irr, isr, intr, thread, eflags>>
    BY <1>7 DEF Return, Block
  <2>2. ~InOwnCode /\ Top.at \notin Loud /\ ~InHandler("eoi")
    BY <2>1 DEF InHandler, Loud
  <2>3. stack' \in [Threads -> Seq(Activation)] /\ StackInv' /\ FlagInv'
    BY <2>1, <2>2, ToStep, QuietStep
  <2>4. isr' = {}
    BY <2>1, <2>2, NoService
  <2> QED  BY <2>1, <2>3, <2>4 DEF TypeOK, ServiceInv
<1>8. CASE Unhandled \/ Hang
  <2>1. PICK at \in Loud :
        /\ Working /\ To(at)
        /\ intr' = TRUE
        /\ UNCHANGED <<irr, isr, thread, eflags>>
    BY <1>8 DEF Unhandled, Hang, Loud, Working
  <2>2. ~InOwnCode /\ ~InHandler("eoi")
    BY <2>1 DEF InHandler, Working
  <2>3. stack' \in [Threads -> Seq(Activation)] /\ StackInv'
    BY <2>1, <2>2, ToStep DEF Loud
  <2>4. FlagInv'
    BY <2>1, <2>2, LoudStep
  <2>5. isr' = {}
    BY <2>1, <2>2, NoService
  <2> QED  BY <2>1, <2>3, <2>4, <2>5 DEF TypeOK, ServiceInv
<1>9. ASSUME NEW t \in Threads \ {thread}, Schedule(t) \/ RetrySchedule(t)
      PROVE  IInv'
  <2>1. /\ Working
        /\ To("iret") \/ UNCHANGED stack
        /\ Switch(t)
        /\ UNCHANGED <<irr, isr>>
    BY <1>9 DEF Schedule, RetrySchedule, Working
  <2>2. ~InOwnCode /\ Top.at \notin Loud /\ ~InHandler("eoi")
    BY <2>1 DEF InHandler, Loud, Working
  <2>3. /\ stack' \in [Threads -> Seq(Activation)] /\ StackInv'
        /\ \A u \in Threads : Len(stack'[u]) = Len(stack[u])
    <3>1. CASE To("iret")
      BY <3>1, <2>2, ToStep
    <3>2. CASE UNCHANGED stack
      BY <3>2 DEF TypeOK, StackInv
    <3> QED  BY <2>1, <3>1, <3>2
  <2>4. /\ FlagInv'
        /\ intr' \in BOOLEAN
        /\ thread' \in Threads
        /\ eflags' \in [Threads -> BOOLEAN]
    BY <2>1, <2>2, <2>3, SwitchStep
  <2>5. isr' = {}
    BY <2>1, <2>2, NoService
  <2> QED  BY <2>1, <2>3, <2>4, <2>5 DEF TypeOK, ServiceInv
<1>10. ASSUME NEW t \in Threads \ {thread}, FgSchedule(t)  PROVE IInv'
  <2>1. InOwnCode /\ Switch(t) /\ UNCHANGED <<irr, isr, stack>>
    BY <1>10 DEF FgSchedule, Execute
  <2>2. /\ FlagInv'
        /\ intr' \in BOOLEAN
        /\ thread' \in Threads
        /\ eflags' \in [Threads -> BOOLEAN]
    BY <2>1, SwitchStep
  <2>3. isr' = {}
    BY <2>1, NoService DEF InHandler
  <2> QED  BY <2>1, <2>2, <2>3 DEF TypeOK, StackInv, ServiceInv
<1>11. CASE Iret
  <2>1. /\ stack' \in [Threads -> Seq(Activation)] /\ StackInv' /\ FlagInv'
        /\ intr' \in BOOLEAN
    BY <1>11, IretStep
  <2>2. UNCHANGED <<irr, isr, thread, eflags>> /\ ~InHandler("eoi")
    BY <1>11 DEF Iret, Execute, InHandler
  <2>3. isr' = {}
    BY <2>2, NoService
  <2> QED  BY <2>1, <2>2, <2>3 DEF TypeOK, ServiceInv
<1>12. CASE UNCHANGED vars
  BY <1>12 DEF vars, TypeOK, StackInv, FlagInv, ServiceInv, InHandler,
               InOwnCode, Top, Depth
<1> QED
  BY <1>1, <1>2, <1>3, <1>4, <1>5, <1>6, <1>7, <1>8, <1>9, <1>10, <1>11,
     <1>12 DEF Next, Handling

----------------------------------------------------------------------------
LEMMA Invariance == Spec => []IInv
<1>1. Init => IInv
  BY InitInv
<1>2. IInv /\ [Next]_vars => IInv'
  BY StepInv
<1> QED  BY <1>1, <1>2, PTL DEF Spec

\* Every variable keeps to its type, for any threads, lines and faults.
THEOREM InterruptsTypeCorrect == Spec => []TypeOK
<1>1. IInv => TypeOK
  BY DEF IInv
<1> QED  BY <1>1, Invariance, PTL

\* Whatever handlers do, switch threads and loop for ever included, the PICs
\* wait for an EOI only in front of the irq_handler() that sends it.
THEOREM ServiceAlwaysEnds == Spec => []ServiceEnds
<1>1. IInv => ServiceEnds
  <2> SUFFICES ASSUME IInv, isr # {}  PROVE ServiceEnds
    BY DEF ServiceEnds
  <2>1. PICK line \in Lines : Top.vec = IRQ(line) /\ isr = {line, Master(line)}
    BY DEF IInv, ServiceInv
  <2>2. line \in 0 .. 15 /\ Top.vec - 32 = line
    BY <2>1, InterruptsAssumption DEF IRQ
  <2>3. \A l \in isr : Master(l) = Master(line)
    BY <2>1, <2>2 DEF Master, IsSlave, CASCADE
  <2> QED  BY <2>2, <2>3 DEF IInv, ServiceInv, ServiceEnds
<1> QED  BY <1>1, Invariance, PTL

\* No handler and no switch of threads leaves a thread running its own code
\* with interrupts off.
THEOREM AlwaysInterruptible == Spec => []Interruptible
<1>1. IInv => Interruptible
  BY DEF IInv, FlagInv, Interruptible, InOwnCode, Depth, TypeOK
<1> QED  BY <1>1, Invariance, PTL

\* On every stack, what lies on a handler that has not printed is a fault of
\* its own, after the EOI: no device's interrupt and no system call.
THEOREM NeverNested == Spec => []NotNested
<1>1. IInv => NotNested
  BY DEF IInv, StackInv, GoodStack, MayLieBelow, Loud, NotNested
<1> QED  BY <1>1, Invariance, PTL
=============================================================================
