---------------------------- MODULE PrintkProofs ----------------------------
(***************************************************************************)
(* Theorems about Printk.                                                  *)
(*                                                                         *)
(* However many threads overtake each other in the two shared buffers,     *)
(* and however long the buffers are, no thread reads behind a buffer's     *)
(* end, and none prints what an earlier call left behind the texts put     *)
(* there since its own call began.                                         *)
(*                                                                         *)
(* The argument: a thread that writes has a NUL before it, at most one     *)
(* behind the longest text since its call.  A call that puts a shorter     *)
(* text in front of it does not touch that NUL, one that puts a longer     *)
(* text over it brings its own, and the thread stops when it meets one.    *)
(* The NUL that vsprintf() puts behind its text is therefore needed: the   *)
(* one that printk() writes with interrupts on may come too late, when     *)
(* another thread already reads, and at another text's end.                *)
(*                                                                         *)
(* A thread whose buffer no other call changes meanwhile prints its own    *)
(* text and nothing else: AloneInv follows it from vsprintf() to the end.  *)
(* That text is what the format asks for: ConvertReadsBack proves it of    *)
(* every conversion of every word, string and character with any flags,    *)
(* width and precision, FormatReadsBack of whole formats, however many     *)
(* directives they have and however long their numbers are.                *)
(***************************************************************************)
EXTENDS Printk, WellFoundedInduction, SequenceTheorems, TLAPS

\* What the operators of Printk are for: calls name one of the two functions,
\* and what vsprintf() makes of their format and arguments is a text.
CallsAreTexts ==
    \A t \in Threads, k \in Nat : \A c \in Calls(t, k) :
        /\ c.fn \in Fn
        /\ Len(vsprintf(c.format, c.args).str) \in Nat

PlaceType ==
    /\ buff = [f \in Fn |-> [k \in 1 .. SIZE |-> buff[f][k]]]
    /\ pc \in [Threads -> {"user", "terminate", "write"}]
    /\ i \in [Threads -> 0 .. SIZE - 1]
    /\ far \in [Threads -> 0 .. SIZE - 1]
    /\ pos \in [Threads -> 1 .. SIZE]
CallType ==
    /\ call = [t \in Threads |-> call[t]]
    /\ \A t \in Threads : call[t].fn \in Fn
    /\ made \in [Threads -> Nat]

\* The inductive invariant.
PrintkInv ==
    /\ PlaceType
    /\ CallType
    /\ \A t \in Threads : i[t] <= far[t]
    /\ StaysInText

----------------------------------------------------------------------------
\* A text put into a buffer ends in a NUL and leaves alone what is behind it.
LEMMA FilledFacts ==
    ASSUME NEW b, NEW text, NEW n \in 0 .. SIZE - 1, n = Len(text)
    PROVE  /\ Filled(b, text) = [k \in 1 .. SIZE |-> Filled(b, text)[k]]
           /\ n + 1 \in 1 .. SIZE
           /\ Filled(b, text)[n + 1] = NUL
           /\ \A k \in n + 2 .. SIZE : Filled(b, text)[k] = b[k]
<1>1. SIZE \in Nat
  BY PrintkAssumption
<1>2. \A k \in 1 .. SIZE :
          Filled(b, text)[k] = IF k <= n THEN text[k]
                               ELSE IF k = n + 1 THEN NUL ELSE b[k]
  BY DEF Filled
<1>3. Filled(b, text) = [k \in 1 .. SIZE |-> Filled(b, text)[k]]
  BY DEF Filled
<1> QED
  BY <1>1, <1>2, <1>3

\* A call keeps the invariant.
LEMMA PrintkStep ==
    ASSUME CallsAreTexts, PrintkInv, NEW t \in Threads, pc[t] = "user",
           NEW c \in Calls(t, made[t] + 1), printk(t, c)
    PROVE  PrintkInv'
<1>1. PICK text : text = vsprintf(c.format, c.args).str
  OBVIOUS
<1>2. PICK n : n = Len(text)
  OBVIOUS
<1>3. c.fn \in Fn /\ n \in 0 .. SIZE - 1 /\ SIZE \in Nat
  <2>1. made[t] + 1 \in Nat
    BY DEF PrintkInv, CallType
  <2>2. c.fn \in Fn /\ n \in Nat
    BY <1>1, <1>2, <2>1 DEF CallsAreTexts
  <2>3. n < SIZE
    BY <1>1, <1>2 DEF printk, Fits
  <2> QED
    BY <2>2, <2>3, PrintkAssumption
<1>4. /\ buff' = [buff EXCEPT ![c.fn] = Filled(@, text)]
      /\ i' = [i EXCEPT ![t] = n]
      /\ call' = [call EXCEPT ![t] = c]
      /\ made' = [made EXCEPT ![t] = @ + 1]
      /\ pc' = [pc EXCEPT ![t] = "terminate"]
      /\ far' = [u \in Threads |->
                    IF u = t THEN n
                    ELSE IF call[u].fn = c.fn THEN Maximum(far[u], n)
                    ELSE far[u]]
      /\ pos' = pos
  BY <1>1, <1>2 DEF printk
<1>5. PICK b : b = Filled(buff[c.fn], text)
  OBVIOUS
<1>6. /\ b = [k \in 1 .. SIZE |-> b[k]]
      /\ n + 1 \in 1 .. SIZE /\ b[n + 1] = NUL
      /\ \A k \in n + 2 .. SIZE : b[k] = buff[c.fn][k]
  <2>1. PICK a : a = buff[c.fn]
    OBVIOUS
  <2>2. b = Filled(a, text)
    BY <1>5, <2>1
  <2>3. /\ Filled(a, text) = [k \in 1 .. SIZE |-> Filled(a, text)[k]]
        /\ n + 1 \in 1 .. SIZE /\ Filled(a, text)[n + 1] = NUL
        /\ \A k \in n + 2 .. SIZE : Filled(a, text)[k] = a[k]
    BY <1>2, <1>3, FilledFacts
  <2> QED
    BY <2>1, <2>2, <2>3
<1>7. \A u \in Threads \ {t} :
          /\ far'[u] \in 0 .. SIZE - 1
          /\ far[u] <= far'[u]
          /\ call[u].fn = c.fn => n <= far'[u]
  BY <1>3, <1>4 DEF PrintkInv, PlaceType, Maximum
<1>8. PlaceType'
  <2>1. buff' = [f \in Fn |-> [k \in 1 .. SIZE |-> buff'[f][k]]]
    BY <1>3, <1>4, <1>5, <1>6 DEF PrintkInv, PlaceType
  <2>2. far' \in [Threads -> 0 .. SIZE - 1]
    BY <1>3, <1>4, <1>7
  <2> QED
    BY <1>3, <1>4, <2>1, <2>2 DEF PrintkInv, PlaceType
<1>9. CallType'
  BY <1>3, <1>4 DEF PrintkInv, CallType
<1>10. \A u \in Threads : i'[u] <= far'[u]
  BY <1>3, <1>4, <1>7 DEF PrintkInv, PlaceType
<1>11. ASSUME NEW u \in Threads, pc'[u] = "write"
       PROVE  \E k \in pos'[u] .. far'[u] + 1 : buff'[call'[u].fn][k] = NUL
  <2>1. u # t /\ pc[u] = "write" /\ pos'[u] = pos[u] /\ call'[u] = call[u]
    BY <1>4, <1>11 DEF PrintkInv, PlaceType, CallType
  <2>2. PICK k \in pos[u] .. far[u] + 1 : buff[call[u].fn][k] = NUL
    BY <2>1 DEF PrintkInv, StaysInText
  <2>3. /\ pos[u] \in 1 .. SIZE /\ far[u] \in 0 .. SIZE - 1
        /\ far'[u] \in 0 .. SIZE - 1 /\ far[u] <= far'[u]
        /\ call[u].fn \in Fn
    BY <1>7, <2>1 DEF PrintkInv, PlaceType, CallType
  <2>4. k \in pos[u] .. far'[u] + 1 /\ k \in 1 .. SIZE
    BY <1>3, <2>3
  <2>5. CASE call[u].fn # c.fn
    <3>1. buff'[call[u].fn] = buff[call[u].fn]
      BY <1>4, <2>3, <2>5 DEF PrintkInv, PlaceType
    <3> QED
      BY <2>1, <2>2, <2>4, <3>1
  <2>6. CASE call[u].fn = c.fn
    <3>1. buff'[call[u].fn] = b
      BY <1>3, <1>4, <1>5, <2>6 DEF PrintkInv, PlaceType
    <3>2. CASE k >= n + 2
      <4>1. k \in n + 2 .. SIZE
        BY <1>3, <2>4, <3>2
      <4>2. b[k] = NUL
        BY <1>6, <2>2, <2>6, <4>1
      <4> QED
        BY <2>1, <2>4, <3>1, <4>2
    <3>3. CASE k < n + 2
      <4>1. n + 1 \in pos[u] .. far'[u] + 1
        BY <1>3, <1>7, <2>1, <2>3, <2>4, <2>6, <3>3
      <4> QED
        BY <1>6, <2>1, <3>1, <4>1
    <3> QED
      BY <1>3, <2>4, <3>2, <3>3
  <2> QED
    BY <2>5, <2>6
<1> QED
  BY <1>8, <1>9, <1>10, <1>11 DEF PrintkInv, StaysInText

\* So does the NUL that printk() itself writes, wherever it falls.
LEMMA TerminateStep ==
    ASSUME PrintkInv, NEW t \in Threads, Terminate(t)
    PROVE  PrintkInv'
<1>1. /\ buff' = [buff EXCEPT ![call[t].fn][i[t] + 1] = NUL]
      /\ pos' = [pos EXCEPT ![t] = 1]
      /\ pc' = [pc EXCEPT ![t] = "write"]
      /\ UNCHANGED <<call, made, i, far>>
  BY DEF Terminate
<1>2. /\ i[t] + 1 \in 1 .. SIZE /\ call[t].fn \in Fn
      /\ i[t] \in Nat /\ SIZE \in Nat \ {0}
  BY PrintkAssumption DEF PrintkInv, PlaceType, CallType
<1>3. buff' = [f \in Fn |-> [k \in 1 .. SIZE |->
                  IF f = call[t].fn /\ k = i[t] + 1 THEN NUL ELSE buff[f][k]]]
  BY <1>1, <1>2 DEF PrintkInv, PlaceType
<1>4. PlaceType'
  <2>1. buff' = [f \in Fn |-> [k \in 1 .. SIZE |-> buff'[f][k]]]
    BY <1>3
  <2> QED
    BY <1>1, <1>2, <2>1 DEF PrintkInv, PlaceType
<1>5. CallType' /\ \A u \in Threads : i'[u] <= far'[u]
  BY <1>1 DEF PrintkInv, CallType
<1>6. ASSUME NEW u \in Threads, pc'[u] = "write"
      PROVE  \E k \in pos'[u] .. far'[u] + 1 : buff'[call'[u].fn][k] = NUL
  <2>0. call[u].fn \in Fn /\ far[u] \in 0 .. SIZE - 1 /\ i[u] <= far[u]
    BY DEF PrintkInv, PlaceType, CallType
  <2>1. CASE u = t
    <3>1. pos'[u] = 1 /\ far'[u] = far[u] /\ call'[u] = call[u]
      BY <1>1, <2>1 DEF PrintkInv, PlaceType
    <3>2. i[t] + 1 \in 1 .. far[u] + 1
      BY <1>2, <2>0, <2>1
    <3> QED
      BY <1>2, <1>3, <2>1, <3>1, <3>2
  <2>2. CASE u # t
    <3>1. /\ pc[u] = "write" /\ pos'[u] = pos[u] /\ far'[u] = far[u]
          /\ call'[u] = call[u] /\ pos[u] \in 1 .. SIZE
      BY <1>1, <1>6, <2>2 DEF PrintkInv, PlaceType
    <3>2. PICK k \in pos[u] .. far[u] + 1 : buff[call[u].fn][k] = NUL
      BY <3>1 DEF PrintkInv, StaysInText
    <3>3. k \in 1 .. SIZE
      BY <1>2, <2>0, <3>1
    <3>4. buff'[call[u].fn][k] = NUL
      BY <1>3, <2>0, <3>2, <3>3
    <3> QED
      BY <3>1, <3>2, <3>4
  <2> QED
    BY <2>1, <2>2
<1> QED
  BY <1>4, <1>5, <1>6 DEF PrintkInv, StaysInText

\* And so does reading on, which stops at the NUL.
LEMMA WriteStep ==
    ASSUME PrintkInv, NEW t \in Threads, Write(t)
    PROVE  PrintkInv'
<1>1. /\ pc[t] = "write" /\ buff[call[t].fn][pos[t]] # NUL
      /\ pos' = [pos EXCEPT ![t] = @ + 1]
      /\ UNCHANGED <<buff, pc, call, made, i, far>>
  BY DEF Write, Next_char
<1>2. PICK k \in pos[t] .. far[t] + 1 : buff[call[t].fn][k] = NUL
  BY <1>1 DEF PrintkInv, StaysInText
<1>3. /\ pos[t] \in 1 .. SIZE /\ far[t] \in 0 .. SIZE - 1 /\ SIZE \in Nat
  BY PrintkAssumption DEF PrintkInv, PlaceType
<1>4. k \in pos[t] + 1 .. far[t] + 1 /\ pos[t] + 1 \in 1 .. SIZE
  BY <1>1, <1>2, <1>3
<1>5. pos'[t] = pos[t] + 1 /\ \A u \in Threads \ {t} : pos'[u] = pos[u]
  BY <1>1 DEF PrintkInv, PlaceType
<1>6. PlaceType' /\ CallType'
  BY <1>1, <1>4 DEF PrintkInv, PlaceType, CallType
<1>7. StaysInText'
  BY <1>1, <1>2, <1>4, <1>5 DEF PrintkInv, StaysInText
<1> QED
  BY <1>1, <1>6, <1>7 DEF PrintkInv

LEMMA ReturnStep ==
    ASSUME PrintkInv, NEW t \in Threads, Return(t)
    PROVE  PrintkInv'
<1>1. /\ pc' = [pc EXCEPT ![t] = "user"]
      /\ UNCHANGED <<buff, call, made, i, pos, far>>
  BY DEF Return
<1>2. PlaceType' /\ CallType'
  BY <1>1 DEF PrintkInv, PlaceType, CallType
<1>3. \A u \in Threads : pc'[u] = "write" => pc[u] = "write"
  BY <1>1 DEF PrintkInv, PlaceType
<1> QED
  BY <1>1, <1>2, <1>3 DEF PrintkInv, StaysInText

LEMMA InitPrintk == Init => PrintkInv
<1> SUFFICES ASSUME Init PROVE PrintkInv
  OBVIOUS
<1>1. SIZE \in Nat \ {0}
  BY PrintkAssumption
<1>2. Fill(SIZE, NUL) = [k \in 1 .. SIZE |-> NUL]
  BY <1>1 DEF Fill, Maximum
<1>3. PlaceType
  <2>1. buff = [f \in Fn |-> [k \in 1 .. SIZE |-> buff[f][k]]]
    BY <1>2 DEF Init
  <2> QED
    BY <1>1, <2>1 DEF Init, PlaceType
<1>4. CallType
  BY DEF Init, CallType, Fn
<1>5. StaysInText /\ \A t \in Threads : i[t] <= far[t]
  BY DEF Init, StaysInText
<1> QED
  BY <1>3, <1>4, <1>5 DEF PrintkInv

LEMMA NextPrintk ==
    ASSUME CallsAreTexts, PrintkInv, [Next]_vars
    PROVE  PrintkInv'
<1>1. ASSUME NEW t \in Threads, NEW c \in Calls(t, made[t] + 1),
             pc[t] = "user", printk(t, c)
      PROVE  PrintkInv'
  BY <1>1, PrintkStep
<1>2. CASE UNCHANGED vars
  BY <1>2 DEF vars, PrintkInv, PlaceType, CallType, StaysInText
<1> QED
  BY <1>1, <1>2, TerminateStep, WriteStep, ReturnStep DEF Next

----------------------------------------------------------------------------
\* The history variable "alone" is a Boolean.
AloneType == alone \in [Threads -> BOOLEAN]

LEMMA StepAlone ==
    ASSUME AloneType, [Next]_vars
    PROVE  AloneType'
<1> USE DEF AloneType
<1>1. ASSUME NEW t \in Threads, NEW c, printk(t, c)
      PROVE  alone' \in [Threads -> BOOLEAN]
  <2>1. alone' = [u \in Threads |->
                     IF u # t THEN alone[u] /\ call[u].fn # c.fn
                     ELSE \A v \in Threads \ {t} :
                             call[v].fn = c.fn => pc[v] # "terminate"]
    BY <1>1 DEF printk
  <2> QED
    BY <2>1, Zenon
<1>2. CASE UNCHANGED alone
  BY <1>2
<1> QED
  BY <1>1, <1>2 DEF Next, Terminate, Write, Return, vars

\* What a thread prints ends within the texts put into its buffer since its
\* own call began: for any number of threads, calls and lengths, without any
\* lock around the buffer.
THEOREM TextsEnd ==
    ASSUME CallsAreTexts
    PROVE  Spec => []StaysInText
<1>1. Init => PrintkInv
  BY InitPrintk
<1>2. PrintkInv /\ [Next]_vars => PrintkInv'
  BY NextPrintk
<1>3. PrintkInv => StaysInText
  BY DEF PrintkInv
<1> QED
  BY <1>1, <1>2, <1>3, PTL DEF Spec

\* Every variable keeps to its type: no index ever leaves its buffer.
THEOREM IndicesStayInside ==
    ASSUME CallsAreTexts
    PROVE  Spec => []TypeOK
<1>1. Init => PrintkInv /\ AloneType
  BY InitPrintk DEF Init, AloneType
<1>2. PrintkInv /\ AloneType /\ [Next]_vars => PrintkInv' /\ AloneType'
  BY NextPrintk, StepAlone
<1>3. PrintkInv /\ AloneType => TypeOK
  BY DEF PrintkInv, PlaceType, CallType, AloneType, TypeOK
<1> QED
  BY <1>1, <1>2, <1>3, PTL DEF Spec

----------------------------------------------------------------------------
\* A set of numbers has a least one.
LEMMA Least ==
    ASSUME NEW T, T \subseteq Nat, T # {}
    PROVE  \E m \in T : \A k \in T : m <= k
<1>1. PICK m \in T : \A k \in T : ~(<<k, m>> \in OpToRel(<, Nat))
  BY NatLessThanWellFounded, WFMin
<1>2. \A k \in T : ~(k < m)
  BY <1>1 DEF OpToRel
<1>3. m \in Nat /\ \A k \in T : k \in Nat
  OBVIOUS
<1>4. \A k \in T : m <= k
  BY <1>2, <1>3
<1> QED
  BY <1>4

\* Texts, and what becomes of their characters.
IsText(s) == s \in Seq(ToSet(s))

LEMMA TextFacts ==
    ASSUME NEW s, IsText(s)
    PROVE  Len(s) \in Nat /\ DOMAIN s = 1 .. Len(s)
BY LenProperties DEF IsText

LEMMA SeqText ==
    ASSUME NEW S, NEW s \in Seq(S)
    PROVE  IsText(s)
<1>1. Len(s) \in Nat /\ DOMAIN s = 1 .. Len(s)
  BY LenProperties
<1>2. \A k \in 1 .. Len(s) : s[k] \in ToSet(s)
  BY <1>1 DEF ToSet
<1> QED
  BY <1>1, <1>2 DEF IsText

LEMMA OneText ==
    ASSUME NEW c
    PROVE  IsText(<<c>>) /\ Len(<<c>>) = 1 /\ <<c>>[1] = c
<1>1. <<c>> \in Seq({c})
  OBVIOUS
<1> QED
  BY <1>1, SeqText

LEMMA NoText == IsText(<<>>) /\ Len(<<>>) = 0
<1>1. <<>> \in Seq({})
  OBVIOUS
<1> QED
  BY <1>1, SeqText

LEMMA SameText ==
    ASSUME NEW s, NEW t, IsText(s), IsText(t), Len(s) = Len(t),
           \A k \in 1 .. Len(s) : s[k] = t[k]
    PROVE  s = t
<1>1. PICK S : S = ToSet(s) \cup ToSet(t)
  OBVIOUS
<1>2. s \in Seq(S) /\ t \in Seq(S)
  <2>1. /\ s \in Seq(ToSet(s)) /\ t \in Seq(ToSet(t))
        /\ ToSet(s) \subseteq S /\ ToSet(t) \subseteq S
    BY <1>1 DEF IsText
  <2> QED
    BY <2>1, SeqMonotonic
<1> QED
  BY <1>2, SeqEqual

LEMMA Joined ==
    ASSUME NEW s, NEW t, IsText(s), IsText(t)
    PROVE  /\ IsText(s \o t)
           /\ Len(s \o t) = Len(s) + Len(t)
           /\ \A k \in 1 .. Len(s) : (s \o t)[k] = s[k]
           /\ \A k \in 1 .. Len(t) : (s \o t)[Len(s) + k] = t[k]
<1>1. PICK S : S = ToSet(s) \cup ToSet(t)
  OBVIOUS
<1>2. s \in Seq(S) /\ t \in Seq(S)
  <2>1. /\ s \in Seq(ToSet(s)) /\ t \in Seq(ToSet(t))
        /\ ToSet(s) \subseteq S /\ ToSet(t) \subseteq S
    BY <1>1 DEF IsText
  <2> QED
    BY <2>1, SeqMonotonic
<1>3. Len(s) \in Nat /\ Len(t) \in Nat
  BY TextFacts
<1>4. /\ s \o t \in Seq(S) /\ Len(s \o t) = Len(s) + Len(t)
      /\ \A k \in 1 .. Len(s) + Len(t) :
            (s \o t)[k] = IF k <= Len(s) THEN s[k] ELSE t[k - Len(s)]
  BY <1>2, ConcatProperties
<1>5. PICK l : l = Len(s)
  OBVIOUS
<1>6. \A k \in 1 .. Len(t) : /\ l + k \in 1 .. l + Len(t)
                            /\ ~(l + k <= l) /\ (l + k) - l = k
  BY <1>3, <1>5
<1>7. \A k \in 1 .. l : k \in 1 .. l + Len(t) /\ k <= l
  BY <1>3, <1>5
<1> QED
  BY <1>4, <1>5, <1>6, <1>7, SeqText

LEMMA Filling ==
    ASSUME NEW n \in Int, NEW c
    PROVE  /\ IsText(Fill(n, c)) /\ Len(Fill(n, c)) = Maximum(n, 0)
           /\ \A k \in 1 .. Maximum(n, 0) : Fill(n, c)[k] = c
<1>1. PICK m : m = Maximum(n, 0)
  OBVIOUS
<1>2. m \in Nat
  BY <1>1 DEF Maximum
<1>3. Fill(n, c) = [k \in 1 .. m |-> c]
  BY <1>1 DEF Fill
<1>4. [k \in 1 .. m |-> c] \in Seq({c}) /\ Len([k \in 1 .. m |-> c]) = m
  BY <1>2
<1> QED
  BY <1>1, <1>3, <1>4, SeqText

----------------------------------------------------------------------------
\* number() divides until nothing is left: the figures of the quotient, and
\* the remainder behind them.
Turned(f, n, base, digits) ==
    (IF n < base THEN <<>> ELSE f[n \div base]) \o <<digits[(n % base) + 1]>>
Divides(f, m, base, digits) ==
    f = [n \in 0 .. m |-> Turned(f, n, base, digits)]
Bases == {2, 8, 10, 16}

LEMMA Divided ==
    ASSUME NEW base \in Bases, NEW n \in Nat
    PROVE  /\ n \div base \in Nat /\ n % base \in 0 .. base - 1
           /\ n = base * (n \div base) + (n % base)
           /\ n >= base => n \div base < n /\ n \div base > 0
           /\ n < base => n \div base = 0 /\ n % base = n
<1>1. CASE base = 2
  BY <1>1
<1>2. CASE base = 8
  BY <1>2
<1>3. CASE base = 10
  BY <1>3
<1>4. CASE base = 16
  BY <1>4
<1> QED
  BY <1>1, <1>2, <1>3, <1>4 DEF Bases

LEMMA DividesFacts ==
    ASSUME NEW m, NEW base, NEW digits, NEW f, Divides(f, m, base, digits)
    PROVE  \A n \in 0 .. m : f[n] = Turned(f, n, base, digits)
<1> DEFINE g(n) == Turned(f, n, base, digits)
<1>1. f = [n \in 0 .. m |-> g(n)]
  BY DEF Divides
<1> HIDE DEF g
<1>2. \A n \in 0 .. m : f[n] = g(n)
  BY <1>1
<1> QED
  BY <1>2 DEF g

LEMMA TurnedSame ==
    ASSUME NEW base \in Bases, NEW digits, NEW n \in Nat, NEW f, NEW g,
           \A k \in 0 .. n - 1 : f[k] = g[k]
    PROVE  Turned(f, n, base, digits) = Turned(g, n, base, digits)
<1>1. CASE n < base
  BY <1>1 DEF Turned
<1>2. CASE ~(n < base)
  <2>1. n \div base \in 0 .. n - 1
    BY <1>2, Divided DEF Bases
  <2>2. f[n \div base] = g[n \div base]
    BY <2>1
  <2> QED
    BY <2>2 DEF Turned
<1> QED
  BY <1>1, <1>2

\* It comes to an end, for every number.
LEMMA DividesSome ==
    ASSUME NEW base \in Bases, NEW digits, NEW n \in Nat
    PROVE  \E f : Divides(f, n, base, digits)
<1> DEFINE T == {m \in Nat : ~ \E f : Divides(f, m, base, digits)}
<1> SUFFICES ASSUME T # {} PROVE FALSE
  OBVIOUS
<1>1. PICK m \in T : \A k \in T : m <= k
  <2>1. T \subseteq Nat
    OBVIOUS
  <2> HIDE DEF T
  <2> QED
    BY <2>1, Least
<1>2. m \in Nat
  OBVIOUS
<1>3. PICK h : m > 0 => Divides(h, m - 1, base, digits)
  <2>1. CASE m > 0
    <3>1. m - 1 \in Nat /\ ~(m <= m - 1)
      BY <1>2, <2>1
    <3>2. m - 1 \notin T
      <4> HIDE DEF T
      <4> QED
        BY <1>1, <3>1
    <3> QED
      BY <3>1, <3>2
  <2> QED
    BY <2>1
<1> DEFINE last == Turned(h, m, base, digits)
           f == [n_1 \in 0 .. m |-> IF n_1 = m THEN last ELSE h[n_1]]
           g(j) == Turned(f, j, base, digits)
<1>4. \A j \in 0 .. m - 1 : h[j] = Turned(h, j, base, digits)
  <2>1. CASE m > 0
    BY <1>3, <2>1, DividesFacts
  <2>2. CASE ~(m > 0)
    <3>1. 0 .. m - 1 = {}
      BY <1>2, <2>2
    <3> QED
      BY <3>1
  <2> QED
    BY <2>1, <2>2
<1>5. /\ f[m] = last /\ \A j \in 0 .. m - 1 : f[j] = h[j]
      /\ f = [j \in 0 .. m |-> f[j]]
  <2> HIDE DEF last
  <2> QED
    BY <1>2
<1> HIDE DEF f, T
<1>6. ASSUME NEW j \in 0 .. m
      PROVE  f[j] = g(j)
  <2>1. j \in Nat /\ \A k \in 0 .. j - 1 : k \in 0 .. m - 1
    BY <1>2
  <2>2. Turned(f, j, base, digits) = Turned(h, j, base, digits)
    <3>1. \A k \in 0 .. j - 1 : f[k] = h[k]
      BY <1>5, <2>1
    <3> QED
      BY <2>1, <3>1, TurnedSame
  <2>3. f[j] = Turned(h, j, base, digits)
    <3>1. CASE j = m
      BY <1>5, <3>1
    <3>2. CASE j # m
      <4>1. j \in 0 .. m - 1
        BY <1>2, <3>2
      <4> QED
        BY <1>4, <1>5, <4>1
    <3> QED
      BY <3>1, <3>2
  <2> QED
    BY <2>2, <2>3
<1>7. f = [j \in 0 .. m |-> g(j)]
  <2> HIDE DEF g
  <2> QED
    BY <1>5, <1>6
<1>8. Divides(f, m, base, digits)
  BY <1>7 DEF Divides
<1> QED
  BY <1>1, <1>8 DEF T

\* And it comes to the same end whatever larger number it began with.
LEMMA DividesOnce ==
    ASSUME NEW base \in Bases, NEW digits, NEW n \in Nat, NEW m \in Nat,
           NEW f, NEW g, Divides(f, n, base, digits),
           Divides(g, m, base, digits), NEW j \in 0 .. n, j <= m
    PROVE  f[j] = g[j]
<1> DEFINE T == {k \in 0 .. j : f[k] # g[k]}
<1>1. ASSUME T # {} PROVE FALSE
  <2>1. PICK k \in T : \A l \in T : k <= l
    <3>1. T \subseteq Nat
      OBVIOUS
    <3> HIDE DEF T
    <3> QED
      BY <1>1, <3>1, Least
  <2>2. k \in 0 .. j /\ f[k] # g[k]
    OBVIOUS
  <2>3. ASSUME NEW l \in 0 .. k - 1
        PROVE  f[l] = g[l]
    <3>1. l \in 0 .. j /\ ~(k <= l)
      BY <2>2
    <3> QED
      BY <2>1, <3>1
  <2>4. Turned(f, k, base, digits) = Turned(g, k, base, digits)
    BY <2>2, <2>3, TurnedSame
  <2>5. k \in 0 .. n /\ k \in 0 .. m
    BY <2>2
  <2>6. f[k] = Turned(f, k, base, digits)
    BY <2>5, DividesFacts
  <2>7. g[k] = Turned(g, k, base, digits)
    BY <2>5, DividesFacts
  <2> QED
    BY <2>2, <2>4, <2>6, <2>7
<1>2. j \in 0 .. j
  OBVIOUS
<1> QED
  BY <1>1, <1>2

LEMMA FiguresAre ==
    ASSUME NEW base \in Bases, NEW digits, NEW n \in Nat
    PROVE  Figures(n, base, digits) =
               (IF n < base THEN <<>>
                ELSE Figures(n \div base, base, digits))
                   \o <<digits[(n % base) + 1]>>
<1>1. ASSUME NEW m \in Nat
      PROVE  \E f : /\ Divides(f, m, base, digits)
                    /\ Figures(m, base, digits) = f[m]
  <2> DEFINE body(f) == [k \in 0 .. m |-> Turned(f, k, base, digits)]
  <2>1. PICK f : f = CHOOSE g : g = body(g)
    OBVIOUS
  <2>2. Figures(m, base, digits) = f[m]
    BY <2>1 DEF Figures, Turned
  <2>3. \E g : g = body(g)
    BY DividesSome DEF Divides
  <2>4. f = body(f)
    <3> HIDE DEF body
    <3> QED
      BY <2>1, <2>3
  <2> QED
    BY <2>2, <2>4 DEF Divides
<1>2. PICK f : Divides(f, n, base, digits) /\ Figures(n, base, digits) = f[n]
  BY <1>1
<1>3. f[n] = Turned(f, n, base, digits)
  BY <1>2, DividesFacts
<1>4. CASE n < base
  BY <1>2, <1>3, <1>4 DEF Turned
<1>5. CASE ~(n < base)
  <2>1. PICK q : q = n \div base
    OBVIOUS
  <2>2. q \in 0 .. n
    BY <1>5, <2>1, Divided DEF Bases
  <2>3. PICK g : Divides(g, q, base, digits) /\ Figures(q, base, digits) = g[q]
    BY <1>1, <2>2
  <2>4. q \in Nat /\ q <= q
    BY <2>2
  <2>5. f[q] = g[q]
    BY <1>2, <2>2, <2>3, <2>4, DividesOnce
  <2> QED
    BY <1>2, <1>3, <1>5, <2>1, <2>3, <2>5 DEF Turned
<1> QED
  BY <1>4, <1>5

----------------------------------------------------------------------------
\* What a reader makes of the first characters of a number.
Shift(base, r, v) == base * r + v
Shifted(f, k, s, digits, base) ==
    IF k = 0 THEN 0 ELSE Shift(base, f[k - 1], Numeral(digits, s[k]))
Reading(f, n, s, digits, base) ==
    f = [k \in 0 .. n |-> Shifted(f, k, s, digits, base)]

LEMMA ReadingFacts ==
    ASSUME NEW n, NEW s, NEW digits, NEW base, NEW f,
           Reading(f, n, s, digits, base)
    PROVE  \A k \in 0 .. n : f[k] = Shifted(f, k, s, digits, base)
<1> DEFINE g(k) == Shifted(f, k, s, digits, base)
<1>1. f = [k \in 0 .. n |-> g(k)]
  BY DEF Reading
<1> HIDE DEF g
<1>2. \A k \in 0 .. n : f[k] = g(k)
  BY <1>1
<1> QED
  BY <1>2 DEF g

LEMMA ReadingSome ==
    ASSUME NEW n \in Nat, NEW s, NEW digits, NEW base
    PROVE  \E f : Reading(f, n, s, digits, base)
<1> DEFINE T == {m \in Nat : ~ \E f : Reading(f, m, s, digits, base)}
<1> SUFFICES ASSUME T # {} PROVE FALSE
  OBVIOUS
<1>1. PICK m \in T : \A k \in T : m <= k
  <2>1. T \subseteq Nat
    OBVIOUS
  <2> HIDE DEF T
  <2> QED
    BY <2>1, Least
<1>2. m \in Nat
  OBVIOUS
<1>3. PICK h : m > 0 => Reading(h, m - 1, s, digits, base)
  <2>1. CASE m > 0
    <3>1. m - 1 \in Nat /\ ~(m <= m - 1)
      BY <1>2, <2>1
    <3>2. m - 1 \notin T
      <4> HIDE DEF T
      <4> QED
        BY <1>1, <3>1
    <3> QED
      BY <3>1, <3>2
  <2> QED
    BY <2>1
<1> DEFINE last == Shifted(h, m, s, digits, base)
           f == [k \in 0 .. m |-> IF k = m THEN last ELSE h[k]]
           g(k) == Shifted(f, k, s, digits, base)
<1>4. \A j \in 0 .. m - 1 : h[j] = Shifted(h, j, s, digits, base)
  <2>1. CASE m > 0
    BY <1>3, <2>1, ReadingFacts
  <2>2. CASE ~(m > 0)
    <3>1. 0 .. m - 1 = {}
      BY <1>2, <2>2
    <3> QED
      BY <3>1
  <2> QED
    BY <2>1, <2>2
<1>5. /\ f[m] = last /\ \A j \in 0 .. m - 1 : f[j] = h[j]
      /\ f = [j \in 0 .. m |-> f[j]]
  <2> HIDE DEF last
  <2> QED
    BY <1>2
<1> HIDE DEF f, T
<1>6. ASSUME NEW j \in 0 .. m
      PROVE  f[j] = g(j)
  <2>1. Shifted(f, j, s, digits, base) = Shifted(h, j, s, digits, base)
    <3>1. CASE j = 0
      BY <3>1, Zenon DEF Shifted
    <3>2. CASE j # 0
      <4>1. j - 1 \in 0 .. m - 1
        BY <1>2, <3>2
      <4>2. f[j - 1] = h[j - 1]
        BY <1>5, <4>1
      <4> QED
        BY <4>2, Zenon DEF Shifted
    <3> QED
      BY <3>1, <3>2
  <2>2. f[j] = Shifted(h, j, s, digits, base)
    <3>1. CASE j = m
      BY <1>5, <3>1
    <3>2. CASE j # m
      <4>1. j \in 0 .. m - 1
        BY <1>2, <3>2
      <4> QED
        BY <1>4, <1>5, <4>1
    <3> QED
      BY <3>1, <3>2
  <2> QED
    BY <2>1, <2>2
<1>7. f = [j \in 0 .. m |-> g(j)]
  <2> HIDE DEF g
  <2> QED
    BY <1>5, <1>6
<1>8. Reading(f, m, s, digits, base)
  BY <1>7 DEF Reading
<1> QED
  BY <1>1, <1>8 DEF T

Follows(f, n, s, digits, base) ==
    \A k \in 0 .. n : f[k] = Shifted(f, k, s, digits, base)
Behind(s, t, p, n) == \A k \in 1 .. n : t[p + k] = s[k]

LEMMA ReadsAre ==
    ASSUME NEW s, NEW n \in Nat, n = Len(s), NEW digits, NEW base
    PROVE  \E f : /\ Reads(s, digits, base) = f[n]
                  /\ Follows(f, n, s, digits, base)
<1> DEFINE body(f) == [k \in 0 .. n |-> Shifted(f, k, s, digits, base)]
<1>1. PICK f : f = CHOOSE g : g = body(g)
  OBVIOUS
<1>2. Reads(s, digits, base) = f[n]
  BY <1>1 DEF Reads, Shifted, Shift
<1>3. \E g : g = body(g)
  <2>1. PICK h : Reading(h, n, s, digits, base)
    BY ReadingSome
  <2>2. h = body(h)
    BY <2>1 DEF Reading
  <2> HIDE DEF body
  <2> QED
    BY <2>2
<1>4. f = body(f)
  <2> HIDE DEF body
  <2> QED
    BY <1>1, <1>3
<1>5. Reading(f, n, s, digits, base)
  BY <1>4 DEF Reading
<1> QED
  BY <1>2, <1>5, ReadingFacts DEF Follows

\* What is read further on depends on what has been read so far, and on the
\* characters that follow.
Alike(s, t, n, p, m, digits, base, f, g) ==
    /\ n \in Nat /\ p \in Nat /\ m = p + n /\ Behind(s, t, p, n)
    /\ Follows(f, n, s, digits, base) /\ Follows(g, m, t, digits, base)
    /\ g[p] = 0

LEMMA ReadOn ==
    ASSUME NEW s, NEW t, NEW n, NEW p, NEW m, NEW digits, NEW base,
           NEW f, NEW g, Alike(s, t, n, p, m, digits, base, f, g)
    PROVE  g[m] = f[n]
<1>0. /\ n \in Nat /\ p \in Nat /\ m = p + n /\ Behind(s, t, p, n)
      /\ Follows(f, n, s, digits, base) /\ Follows(g, m, t, digits, base)
      /\ g[p] = 0
  BY DEF Alike
<1> USE <1>0
<1> DEFINE T == {k \in 0 .. n : g[p + k] # f[k]}
<1>1. ASSUME T # {} PROVE FALSE
  <2>1. PICK k \in T : \A l \in T : k <= l
    <3>1. T \subseteq Nat
      OBVIOUS
    <3> HIDE DEF T
    <3> QED
      BY <1>1, <3>1, Least
  <2>2. k \in 0 .. n /\ g[p + k] # f[k]
    OBVIOUS
  <2>3. k # 0
    <3>1. f[0] = 0
      <4>1. 0 \in 0 .. n
        OBVIOUS
      <4> QED
        BY <4>1 DEF Shifted, Follows
    <3>2. p + 0 = p
      OBVIOUS
    <3> QED
      BY <2>2, <3>1, <3>2
  <2>4. /\ k - 1 \in 0 .. n /\ ~(k <= k - 1) /\ k \in 1 .. n
        /\ p + k \in 0 .. p + n /\ p + k # 0 /\ (p + k) - 1 = p + (k - 1)
    BY <2>2, <2>3
  <2>5. g[p + (k - 1)] = f[k - 1]
    <3>1. k - 1 \notin T
      <4> HIDE DEF T
      <4> QED
        BY <2>1, <2>4
    <3> QED
      BY <2>4, <3>1
  <2>6. f[k] = Shift(base, f[k - 1], Numeral(digits, s[k]))
    BY <2>2, <2>3 DEF Shifted, Follows
  <2>7. g[p + k] = Shift(base, g[(p + k) - 1], Numeral(digits, t[p + k]))
    BY <2>4 DEF Shifted, Follows
  <2>8. t[p + k] = s[k]
    BY <2>4 DEF Behind
  <2> QED
    BY <2>2, <2>4, <2>5, <2>6, <2>7, <2>8
<1>2. n \in 0 .. n
  OBVIOUS
<1> QED
  BY <1>1, <1>2

\* One more character.
LEMMA ReadsMore ==
    ASSUME NEW s, IsText(s), NEW c, NEW digits, NEW base
    PROVE  Reads(s \o <<c>>, digits, base) =
               Shift(base, Reads(s, digits, base), Numeral(digits, c))
<1>1. PICK t : t = s \o <<c>>
  OBVIOUS
<1>2. PICK n \in Nat : n = Len(s)
  BY TextFacts
<1>3. /\ IsText(t) /\ Len(t) = n + 1
      /\ \A k \in 1 .. n : t[k] = s[k]
      /\ t[n + 1] = c
  BY <1>1, <1>2, OneText, Joined
<1>4. PICK f : /\ Reads(s, digits, base) = f[n]
               /\ Follows(f, n, s, digits, base)
  BY <1>2, ReadsAre
<1>5. PICK m \in Nat : m = n + 1
  OBVIOUS
<1>6. PICK g : /\ Reads(t, digits, base) = g[m]
               /\ Follows(g, m, t, digits, base)
  BY <1>3, <1>5, ReadsAre
<1>7. g[n] = f[n]
  <2>0. PICK p \in Nat : p = 0
    OBVIOUS
  <2>1. Behind(s, t, p, n)
    BY <1>3, <2>0 DEF Behind
  <2>2. Follows(g, n, t, digits, base) /\ n = p + n
    BY <1>2, <1>5, <1>6, <2>0 DEF Follows
  <2>3. g[p] = 0
    BY <1>6, <2>0 DEF Shifted, Follows
  <2>4. Alike(s, t, n, p, n, digits, base, f, g)
    BY <1>2, <1>4, <2>0, <2>1, <2>2, <2>3 DEF Alike
  <2> QED
    BY <2>4, ReadOn
<1>8. g[m] = Shift(base, g[n], Numeral(digits, c))
  <2>1. m \in 0 .. m /\ m # 0 /\ m - 1 = n
    BY <1>5
  <2> QED
    BY <1>3, <1>5, <1>6, <2>1 DEF Shifted, Follows
<1> QED
  BY <1>1, <1>4, <1>6, <1>7, <1>8

----------------------------------------------------------------------------
\* The two alphabets.
Chars == {"0", "1", "2", "3", "4", "5", "6", "7", "8", "9",
          "a", "b", "c", "d", "e", "f", "A", "B", "C", "D", "E", "F"}
IsAlphabet(digits) ==
    /\ DOMAIN digits = 1 .. 16 /\ Len(digits) = 16
    /\ \A k \in 1 .. 16 : digits[k] \in Chars
    /\ \A j, k \in 1 .. 16 : digits[j] = digits[k] => j = k
    /\ digits[1] = "0"

LEMMA Alphabets == IsAlphabet(small) /\ IsAlphabet(large)
<1>1. IsAlphabet(small)
  BY DEF small, IsAlphabet, Chars
<1>2. IsAlphabet(large)
  BY DEF large, IsAlphabet, Chars
<1> QED
  BY <1>1, <1>2

LEMMA CharFacts ==
    ASSUME NEW c \in Chars
    PROVE  c # BLANK /\ c # "-" /\ c # "+"
<1>1. c # BLANK
  BY Zenon DEF Chars, BLANK
<1> QED
  BY <1>1 DEF Chars

LEMMA Worth ==
    ASSUME NEW digits, IsAlphabet(digits), NEW n \in 0 .. 15
    PROVE  Numeral(digits, digits[n + 1]) = n
<1> DEFINE T == {k \in 1 .. Len(digits) : digits[k] = digits[n + 1]}
<1>1. T = {n + 1}
  BY DEF IsAlphabet
<1>2. Numeral(digits, digits[n + 1]) =
          (IF T # {} THEN Min(T) ELSE 0) - 1
  BY DEF Numeral, SelectInSeq
<1>3. Min({n + 1}) = n + 1
  <2>1. PICK S : S = {n + 1}
    OBVIOUS
  <2>2. n + 1 = CHOOSE x \in S : \A y \in S : x <= y
    BY <2>1
  <2> QED
    BY <2>1, <2>2 DEF Min
<1> HIDE DEF T
<1> QED
  BY <1>1, <1>2, <1>3

\* The figures of a number are digits, they are read back as the number, and
\* the first is no zero unless it is the only one.
FiguresOf(s, n, base, digits) ==
    /\ IsText(s) /\ Len(s) >= 1
    /\ \A k \in 1 .. Len(s) : s[k] \in Chars
    /\ Reads(s, digits, base) = n
    /\ n > 0 => s[1] # "0"
    /\ n = 0 => Len(s) = 1

LEMMA FiguresRead ==
    ASSUME NEW base \in Bases, NEW digits, IsAlphabet(digits), NEW n \in Nat
    PROVE  FiguresOf(Figures(n, base, digits), n, base, digits)
<1> DEFINE T == {k \in Nat :
                     ~FiguresOf(Figures(k, base, digits), k, base, digits)}
<1> SUFFICES ASSUME T # {} PROVE FALSE
  OBVIOUS
<1>1. PICK m \in T : \A k \in T : m <= k
  <2>1. T \subseteq Nat
    OBVIOUS
  <2> HIDE DEF T
  <2> QED
    BY <2>1, Least
<1>2. m \in Nat
  OBVIOUS
<1>3. PICK q, r : q = m \div base /\ r = m % base
  OBVIOUS
<1>4. /\ q \in Nat /\ r \in 0 .. base - 1 /\ r \in 0 .. 15
      /\ m = base * q + r
      /\ m >= base => q < m /\ q > 0
      /\ m < base => q = 0 /\ r = m
  <2>1. /\ q \in Nat /\ r \in 0 .. base - 1
        /\ m = base * q + r
        /\ m >= base => q < m /\ q > 0
        /\ m < base => q = 0 /\ r = m
    BY <1>2, <1>3, Divided
  <2>2. 0 .. base - 1 \subseteq 0 .. 15
    BY DEF Bases
  <2> QED
    BY <2>1, <2>2
<1>5. PICK c : c = digits[r + 1]
  OBVIOUS
<1>6. c \in Chars /\ Numeral(digits, c) = r
  <2>1. r + 1 \in 1 .. 16
    BY <1>4
  <2> QED
    BY <1>4, <1>5, <2>1, Worth DEF IsAlphabet
<1>7. PICK s : s = IF m < base THEN <<>> ELSE Figures(q, base, digits)
  OBVIOUS
<1>8. PICK t : t = Figures(m, base, digits)
  OBVIOUS
<1>9. t = s \o <<c>>
  BY <1>2, <1>3, <1>5, <1>7, <1>8, FiguresAre
<1>10. IsText(<<c>>) /\ Len(<<c>>) = 1 /\ <<c>>[1] = c
  BY OneText
<1>11. IsText(s) /\ Len(s) \in Nat
  <2>1. CASE m < base
    BY <1>7, <2>1, NoText
  <2>2. CASE ~(m < base)
    <3>1. q \notin T
      <4>1. q < m
        BY <1>2, <1>4, <2>2 DEF Bases
      <4> HIDE DEF T
      <4> QED
        BY <1>1, <1>2, <1>4, <4>1
    <3>2. FiguresOf(s, q, base, digits)
      BY <1>4, <1>7, <2>2, <3>1
    <3> QED
      BY <3>2, TextFacts DEF FiguresOf
  <2> QED
    BY <2>1, <2>2
<1>12. /\ IsText(t) /\ Len(t) = Len(s) + 1
       /\ \A k \in 1 .. Len(s) : t[k] = s[k]
       /\ t[Len(s) + 1] = c
  BY <1>9, <1>10, <1>11, Joined
<1>13. Reads(t, digits, base) = Shift(base, Reads(s, digits, base), r)
  BY <1>6, <1>9, <1>11, ReadsMore
<1>14. FiguresOf(t, m, base, digits)
  <2>1. CASE m < base
    <3>1. s = <<>> /\ Len(s) = 0
      BY <1>7, <2>1, NoText
    <3>2. Reads(s, digits, base) = 0
      <4>1. PICK f : /\ Reads(s, digits, base) = f[0]
                     /\ Follows(f, 0, s, digits, base)
        BY <3>1, ReadsAre
      <4> QED
        BY <4>1 DEF Shifted, Follows
    <3>3. base * 0 + r = m
      BY <1>4, <2>1 DEF Bases
    <3>4. m > 0 => t[1] # "0"
      <4> SUFFICES ASSUME m > 0, c = "0" PROVE FALSE
        BY <1>12, <3>1
      <4>1. r + 1 \in 1 .. 16 /\ r + 1 # 1 /\ 1 \in 1 .. 16
        BY <1>4, <2>1
      <4>2. digits[r + 1] = digits[1]
        BY <1>5 DEF IsAlphabet
      <4> QED
        BY <4>1, <4>2 DEF IsAlphabet
    <3> QED
      BY <1>6, <1>12, <1>13, <3>1, <3>2, <3>3, <3>4 DEF FiguresOf, Shift
  <2>2. CASE ~(m < base)
    <3>1. q < m /\ q > 0 /\ m > 0
      BY <1>2, <1>4, <2>2 DEF Bases
    <3>2. q \notin T
      <4> HIDE DEF T
      <4> QED
        BY <1>1, <1>2, <1>4, <3>1
    <3>3. FiguresOf(s, q, base, digits)
      BY <1>4, <1>7, <2>2, <3>2
    <3>4. Reads(t, digits, base) = m
      BY <1>4, <1>13, <3>3 DEF FiguresOf, Shift
    <3>5. \A k \in 1 .. Len(t) : t[k] \in Chars
      BY <1>6, <1>11, <1>12, <3>3 DEF FiguresOf
    <3>6. t[1] # "0" /\ Len(t) >= 1
      BY <1>11, <1>12, <3>1, <3>3 DEF FiguresOf
    <3> QED
      BY <1>2, <1>12, <3>1, <3>4, <3>5, <3>6 DEF FiguresOf
  <2> QED
    BY <2>1, <2>2
<1>15. m \notin T
  BY <1>8, <1>14
<1> QED
  BY <1>15
----------------------------------------------------------------------------
\* Texts put one behind the other.
LEMMA Associates ==
    ASSUME NEW s, NEW t, NEW u, IsText(s), IsText(t), IsText(u)
    PROVE  (s \o t) \o u = s \o (t \o u)
<1>1. PICK S : S = (ToSet(s) \cup ToSet(t)) \cup ToSet(u)
  OBVIOUS
<1>2. s \in Seq(S) /\ t \in Seq(S) /\ u \in Seq(S)
  <2>1. /\ s \in Seq(ToSet(s)) /\ t \in Seq(ToSet(t)) /\ u \in Seq(ToSet(u))
        /\ ToSet(s) \subseteq S /\ ToSet(t) \subseteq S /\ ToSet(u) \subseteq S
    BY <1>1 DEF IsText
  <2> QED
    BY <2>1, SeqMonotonic
<1> QED
  BY <1>2, ConcatAssociative

LEMMA JoinedNone ==
    ASSUME NEW s, IsText(s)
    PROVE  <<>> \o s = s /\ s \o <<>> = s
BY ConcatEmptySeq DEF IsText

LEMMA FillNone ==
    ASSUME NEW n \in Int, n <= 0, NEW c
    PROVE  Fill(n, c) = <<>>
<1>1. IsText(Fill(n, c)) /\ Len(Fill(n, c)) = 0
  BY Filling DEF Maximum
<1> QED
  BY <1>1, NoText, SameText

\* h stands before d in c.
Headed(c, h, d) ==
    /\ IsText(c) /\ IsText(h) /\ IsText(d) /\ Len(c) = Len(h) + Len(d)
    /\ \A k \in 1 .. Len(h) : c[k] = h[k]
    /\ \A k \in 1 .. Len(d) : c[Len(h) + k] = d[k]

LEMMA HeadedIs ==
    ASSUME NEW h, NEW d, IsText(h), IsText(d)
    PROVE  Headed(h \o d, h, d)
BY Joined DEF Headed

LEMMA HeadedDrop ==
    ASSUME NEW c, NEW h, NEW d, Headed(c, h, d)
    PROVE  SubSeq(c, Len(h) + 1, Len(c)) = d
<1>1. PICK l, n : l = Len(h) /\ n = Len(c)
  OBVIOUS
<1>2. /\ l \in Nat /\ n \in Nat /\ Len(d) \in Nat /\ n = l + Len(d)
      /\ c \in Seq(ToSet(c)) /\ l + 1 \in Int
  BY <1>1, TextFacts DEF Headed, IsText
<1>3. \A k \in l + 1 .. n : c[k] \in ToSet(c)
  <2>1. \A k \in l + 1 .. n : k \in 1 .. n
    BY <1>2
  <2> QED
    BY <1>1, <1>2, <2>1, ElementOfSeq
<1>4. PICK t : t = SubSeq(c, l + 1, n)
  OBVIOUS
<1>5. /\ t \in Seq(ToSet(c))
      /\ Len(t) = IF l + 1 <= n THEN n - (l + 1) + 1 ELSE 0
      /\ \A k \in 1 .. n - (l + 1) + 1 : t[k] = c[(l + 1) + k - 1]
  BY <1>2, <1>3, <1>4, SubSeqProperties
<1>6. Len(t) = Len(d)
  BY <1>2, <1>5
<1>7. \A k \in 1 .. Len(t) : t[k] = d[k]
  <2> SUFFICES ASSUME NEW k \in 1 .. Len(t) PROVE t[k] = d[k]
    OBVIOUS
  <2>1. k \in 1 .. n - (l + 1) + 1 /\ (l + 1) + k - 1 = l + k
        /\ k \in 1 .. Len(d)
    BY <1>2, <1>6
  <2> QED
    BY <1>1, <1>5, <2>1 DEF Headed
<1> QED
  BY <1>1, <1>4, <1>5, <1>6, <1>7, SeqText, SameText DEF Headed

LEMMA HeadedTail ==
    ASSUME NEW c, NEW h, NEW d, Headed(c, h, d), Len(h) = 1
    PROVE  Tail(c) = d
<1>1. Len(d) \in Nat /\ c \in Seq(ToSet(c)) /\ Len(c) = 1 + Len(d)
  BY TextFacts DEF Headed, IsText
<1>2. c # <<>>
  BY <1>1, NoText
<1>3. /\ Tail(c) \in Seq(ToSet(c)) /\ Len(Tail(c)) = Len(c) - 1
      /\ \A k \in 1 .. Len(Tail(c)) : Tail(c)[k] = c[k + 1]
  BY <1>1, <1>2, HeadTailProperties
<1>4. Len(Tail(c)) = Len(d)
  BY <1>1, <1>3
<1>5. \A k \in 1 .. Len(Tail(c)) : Tail(c)[k] = d[k]
  <2>1. \A k \in 1 .. Len(d) : k + 1 = 1 + k
    BY <1>1
  <2> QED
    BY <1>3, <1>4, <2>1 DEF Headed
<1> QED
  BY <1>3, <1>4, <1>5, SeqText, SameText DEF Headed

LEMMA HeadedNone ==
    ASSUME NEW c, NEW h, NEW d, Headed(c, h, d), Len(h) = 0
    PROVE  c = d
<1>1. Len(d) \in Nat
  BY TextFacts DEF Headed
<1>2. \A k \in 1 .. Len(d) : 0 + k = k
  BY <1>1
<1> QED
  BY <1>1, <1>2, SameText DEF Headed

\* A text in its field: b blanks before it, e behind it.
Padded(text, c, b, e) ==
    /\ IsText(text) /\ IsText(c) /\ b \in Nat /\ e \in Nat
    /\ Len(text) = (b + Len(c)) + e
    /\ \A k \in 1 .. b : text[k] = BLANK
    /\ \A k \in 1 .. Len(c) : text[b + k] = c[k]
    /\ \A k \in 1 .. e : text[(b + Len(c)) + k] = BLANK

LEMMA PaddedIs ==
    ASSUME NEW c, IsText(c), NEW b \in Nat, NEW e \in Nat
    PROVE  Padded((Fill(b, BLANK) \o c) \o Fill(e, BLANK), c, b, e)
<1>1. PICK B : B = Fill(b, BLANK)
  OBVIOUS
<1>2. PICK E : E = Fill(e, BLANK)
  OBVIOUS
<1>3. /\ IsText(B) /\ Len(B) = b /\ \A k \in 1 .. b : B[k] = BLANK
      /\ IsText(E) /\ Len(E) = e /\ \A k \in 1 .. e : E[k] = BLANK
  <2>1. Maximum(b, 0) = b /\ Maximum(e, 0) = e
    BY DEF Maximum
  <2> QED
    BY <1>1, <1>2, <2>1, Filling
<1>4. PICK t : t = B \o c
  OBVIOUS
<1>5. /\ IsText(t) /\ Len(t) = b + Len(c)
      /\ \A k \in 1 .. b : t[k] = B[k]
      /\ \A k \in 1 .. Len(c) : t[b + k] = c[k]
  BY <1>3, <1>4, Joined
<1>6. PICK u : u = t \o E
  OBVIOUS
<1>7. /\ IsText(u) /\ Len(u) = Len(t) + e
      /\ \A k \in 1 .. Len(t) : u[k] = t[k]
      /\ \A k \in 1 .. e : u[Len(t) + k] = E[k]
  <2>1. /\ IsText(t \o E) /\ Len(t \o E) = Len(t) + Len(E)
        /\ \A k \in 1 .. Len(t) : (t \o E)[k] = t[k]
        /\ \A k \in 1 .. Len(E) : (t \o E)[Len(t) + k] = E[k]
    <3>1. IsText(t) /\ IsText(E)
      BY <1>3, <1>5
    <3> QED
      BY <3>1, Joined
  <2> QED
    BY <1>3, <1>6, <2>1
<1>8. Len(c) \in Nat
  BY TextFacts
<1>9. /\ \A k \in 1 .. b : k \in 1 .. Len(t)
      /\ \A k \in 1 .. Len(c) : b + k \in 1 .. Len(t)
  BY <1>5, <1>8
<1>10. Padded(u, c, b, e)
  <2>1. Len(u) = (b + Len(c)) + e
    BY <1>5, <1>7
  <2>2. \A k \in 1 .. b : u[k] = BLANK
    BY <1>3, <1>5, <1>7, <1>9
  <2>3. \A k \in 1 .. Len(c) : u[b + k] = c[k]
    BY <1>5, <1>7, <1>9
  <2>4. \A k \in 1 .. e : u[(b + Len(c)) + k] = BLANK
    BY <1>3, <1>5, <1>7
  <2> QED
    BY <1>7, <2>1, <2>2, <2>3, <2>4 DEF Padded
<1> QED
  BY <1>1, <1>2, <1>4, <1>6, <1>10

\* A blank in front of the text is one of the field's.
LEMMA PaddedMore ==
    ASSUME NEW text, NEW c, NEW h, NEW d, NEW b, NEW e,
           Padded(text, c, b, e), Headed(c, h, d), Len(h) = 1, h[1] = BLANK
    PROVE  Padded(text, d, b + 1, e)
<1>1. /\ b \in Nat /\ e \in Nat /\ Len(d) \in Nat
      /\ Len(c) = 1 + Len(d)
  BY TextFacts DEF Padded, Headed
<1>2. Len(text) = ((b + 1) + Len(d)) + e
  BY <1>1 DEF Padded
<1>3. ASSUME NEW k \in 1 .. b + 1
      PROVE  text[k] = BLANK
  <2>1. CASE k \in 1 .. b
    BY <2>1 DEF Padded
  <2>2. CASE k = b + 1
    <3>1. 1 \in 1 .. Len(c) /\ 1 \in 1 .. 1
      BY <1>1
    <3>2. text[b + 1] = c[1]
      BY <3>1 DEF Padded
    <3>3. c[1] = h[1]
      BY <3>1 DEF Headed
    <3> QED
      BY <2>2, <3>2, <3>3
  <2> QED
    BY <1>1, <2>1, <2>2
<1>4. ASSUME NEW k \in 1 .. Len(d)
      PROVE  text[(b + 1) + k] = d[k]
  <2>1. 1 + k \in 1 .. Len(c) /\ (b + 1) + k = b + (1 + k)
    BY <1>1
  <2>2. text[b + (1 + k)] = c[1 + k]
    BY <2>1 DEF Padded
  <2>3. c[1 + k] = d[k]
    BY DEF Headed
  <2> QED
    BY <2>1, <2>2, <2>3
<1>5. ASSUME NEW k \in 1 .. e
      PROVE  text[((b + 1) + Len(d)) + k] = BLANK
  <2>1. ((b + 1) + Len(d)) + k = (b + Len(c)) + k
    BY <1>1
  <2> QED
    BY <2>1 DEF Padded
<1>6. IsText(text) /\ IsText(d) /\ b + 1 \in Nat
  BY <1>1 DEF Padded, Headed
<1> QED
  BY <1>1, <1>2, <1>3, <1>4, <1>5, <1>6 DEF Padded

\* Trimming a field leaves the text, if that neither begins nor ends blank.
LEMMA TrimmedText ==
    ASSUME NEW text, NEW c, NEW b, NEW e, Padded(text, c, b, e),
           Len(c) >= 1, c[1] # BLANK, c[Len(c)] # BLANK
    PROVE  Trimmed(text) = c
<1>1. PICK n : n = Len(c)
  OBVIOUS
<1>2. /\ b \in Nat /\ e \in Nat /\ n \in Nat /\ n >= 1
      /\ Len(text) = (b + n) + e /\ DOMAIN text = 1 .. (b + n) + e
      /\ text \in Seq(ToSet(text))
  BY <1>1, TextFacts DEF Padded, IsText
<1> DEFINE S == {k \in DOMAIN text : ~Blank(text[k])}
<1>3. /\ b + 1 \in S /\ b + n \in S
      /\ \A k \in S : b + 1 <= k /\ k <= b + n /\ k \in Int
  <2>1. text[b + 1] = c[1] /\ text[b + n] = c[n]
    <3>1. 1 \in 1 .. n /\ n \in 1 .. n
      BY <1>2
    <3> QED
      BY <1>1, <3>1 DEF Padded
  <2>2. b + 1 \in DOMAIN text /\ b + n \in DOMAIN text
    BY <1>2
  <2>3. b + 1 \in S /\ b + n \in S
    BY <1>1, <2>1, <2>2 DEF Blank
  <2>4. ASSUME NEW k \in S
        PROVE  b + 1 <= k /\ k <= b + n /\ k \in Int
    <3>1. k \in 1 .. (b + n) + e /\ text[k] # BLANK
      BY <1>2 DEF Blank
    <3>2. k \notin 1 .. b
      BY <3>1 DEF Padded
    <3>3. ASSUME k > b + n PROVE FALSE
      <4>1. k - (b + n) \in 1 .. e /\ k = (b + n) + (k - (b + n))
        BY <1>2, <3>1, <3>3
      <4> QED
        BY <1>1, <3>1, <4>1 DEF Padded
    <3> QED
      BY <1>2, <3>1, <3>2, <3>3
  <2> QED
    BY <2>3, <2>4
<1>4. PICK x : x = CHOOSE k \in S : \A j \in S : k <= j
  OBVIOUS
<1>5. PICK y : y = CHOOSE k \in S : \A j \in S : k >= j
  OBVIOUS
<1>6. Trimmed(text) = IF S = {} THEN <<>> ELSE SubSeq(text, x, y)
  <2>1. Trimmed(text) =
            IF S = {} THEN <<>>
            ELSE SubSeq(text, CHOOSE k \in S : \A j \in S : k <= j,
                              CHOOSE k \in S : \A j \in S : k >= j)
    BY Zenon DEF Trimmed
  <2> HIDE DEF S
  <2> QED
    BY <1>4, <1>5, <2>1
<1> HIDE DEF S
<1>7. x = b + 1
  <2>1. x \in S /\ \A j \in S : x <= j
    BY <1>3, <1>4
  <2> QED
    BY <1>2, <1>3, <2>1
<1>8. y = b + n
  <2>1. y \in S /\ \A j \in S : y >= j
    <3>1. \E k \in S : \A j \in S : k >= j
      BY <1>2, <1>3
    <3> QED
      BY <1>5, <3>1
  <2> QED
    BY <1>2, <1>3, <2>1
<1>9. PICK t : t = SubSeq(text, b + 1, b + n)
  OBVIOUS
<1>10. t = Trimmed(text)
  BY <1>3, <1>6, <1>7, <1>8, <1>9
<1>11. /\ IsText(t) /\ Len(t) = n
       /\ \A k \in 1 .. n : t[k] = text[b + k]
  <2>1. \A k \in b + 1 .. b + n : text[k] \in ToSet(text)
    <3>1. \A k \in b + 1 .. b + n : k \in 1 .. Len(text)
      BY <1>2
    <3> QED
      BY <1>2, <3>1, ElementOfSeq
  <2>2. b + 1 \in Int /\ b + n \in Int
    BY <1>2
  <2>3. /\ t \in Seq(ToSet(text))
        /\ Len(t) = IF b + 1 <= b + n THEN (b + n) - (b + 1) + 1 ELSE 0
        /\ \A k \in 1 .. (b + n) - (b + 1) + 1 : t[k] = text[(b + 1) + k - 1]
    BY <1>2, <1>9, <2>1, <2>2, SubSeqProperties
  <2>4. /\ b + 1 <= b + n /\ (b + n) - (b + 1) + 1 = n
        /\ \A k \in 1 .. n : (b + 1) + k - 1 = b + k
    BY <1>2
  <2> QED
    BY <2>3, <2>4, SeqText
<1>12. \A k \in 1 .. n : t[k] = c[k]
  BY <1>1, <1>11 DEF Padded
<1>13. t = c
  BY <1>1, <1>11, <1>12, SameText DEF Padded
<1> QED
  BY <1>10, <1>13

LEMMA TrimmedNone ==
    ASSUME NEW text, NEW c, NEW b, NEW e, Padded(text, c, b, e), Len(c) = 0
    PROVE  Trimmed(text) = <<>>
<1> DEFINE S == {k \in DOMAIN text : ~Blank(text[k])}
<1>1. b \in Nat /\ e \in Nat /\ DOMAIN text = 1 .. (b + 0) + e
  BY TextFacts DEF Padded
<1>2. ASSUME NEW k \in S PROVE FALSE
  <2>1. k \in 1 .. (b + 0) + e /\ text[k] # BLANK
    BY <1>1 DEF Blank
  <2>2. k \notin 1 .. b
    BY <2>1 DEF Padded
  <2>3. k - (b + 0) \in 1 .. e /\ k = (b + 0) + (k - (b + 0))
    BY <1>1, <2>1, <2>2
  <2> QED
    BY <2>1, <2>3 DEF Padded
<1>3. S = {}
  BY <1>2
<1> QED
  BY <1>3, Zenon DEF Trimmed
----------------------------------------------------------------------------
\* What number() makes of the figures s: zeros, a prefix, a sign and blanks.
Zeroed(d, s, z) ==
    /\ IsText(d) /\ IsText(s) /\ z \in Nat /\ Len(d) = z + Len(s)
    /\ \A k \in 1 .. z : d[k] = "0"
    /\ \A k \in 1 .. Len(s) : d[z + k] = s[k]

LEMMA ZeroedIs ==
    ASSUME NEW s, IsText(s), NEW z \in Nat
    PROVE  Zeroed(Fill(z, "0") \o s, s, z)
<1>1. PICK Z : Z = Fill(z, "0")
  OBVIOUS
<1>2. IsText(Z) /\ Len(Z) = z /\ \A k \in 1 .. z : Z[k] = "0"
  <2>1. Maximum(z, 0) = z
    BY DEF Maximum
  <2> QED
    BY <1>1, <2>1, Filling
<1>3. /\ IsText(Z \o s) /\ Len(Z \o s) = Len(Z) + Len(s)
      /\ \A k \in 1 .. Len(Z) : (Z \o s)[k] = Z[k]
      /\ \A k \in 1 .. Len(s) : (Z \o s)[Len(Z) + k] = s[k]
  BY <1>2, Joined
<1> QED
  BY <1>1, <1>2, <1>3 DEF Zeroed

LEMMA ZeroedMore ==
    ASSUME NEW d, NEW s, NEW z, Zeroed(d, s, z), NEW y \in Nat
    PROVE  Zeroed(Fill(y, "0") \o d, s, y + z)
<1>1. PICK t : t = Fill(y, "0") \o d
  OBVIOUS
<1>2. Zeroed(t, d, y)
  BY <1>1, ZeroedIs DEF Zeroed
<1>3. z \in Nat /\ Len(s) \in Nat /\ Len(d) = z + Len(s)
  BY TextFacts DEF Zeroed
<1>4. Len(t) = (y + z) + Len(s)
  BY <1>2, <1>3 DEF Zeroed
<1>5. ASSUME NEW k \in 1 .. y + z PROVE t[k] = "0"
  <2>1. CASE k \in 1 .. y
    BY <1>2, <2>1 DEF Zeroed
  <2>2. CASE k \notin 1 .. y
    <3>1. k - y \in 1 .. z /\ k - y \in 1 .. Len(d) /\ y + (k - y) = k
      BY <1>3, <2>2
    <3>2. t[y + (k - y)] = d[k - y]
      BY <1>2, <3>1 DEF Zeroed
    <3>3. d[k - y] = "0"
      BY <3>1 DEF Zeroed
    <3> QED
      BY <3>1, <3>2, <3>3
  <2> QED
    BY <2>1, <2>2
<1>6. ASSUME NEW k \in 1 .. Len(s) PROVE t[(y + z) + k] = s[k]
  <2>1. z + k \in 1 .. Len(d) /\ (y + z) + k = y + (z + k)
    BY <1>3
  <2>2. t[y + (z + k)] = d[z + k]
    BY <1>2, <2>1 DEF Zeroed
  <2>3. d[z + k] = s[k]
    BY DEF Zeroed
  <2> QED
    BY <2>1, <2>2, <2>3
<1>7. Zeroed(t, s, y + z)
  <2>1. y + z \in Nat
    BY <1>3
  <2>2. IsText(t) /\ IsText(s)
    BY <1>2 DEF Zeroed
  <2> QED
    BY <1>4, <1>5, <1>6, <2>1, <2>2 DEF Zeroed
<1> QED
  BY <1>1, <1>7

\* Zeros in front of them do not count.
LEMMA ReadsZeros ==
    ASSUME NEW t, NEW s, NEW p, Zeroed(t, s, p), NEW digits,
           IsAlphabet(digits), NEW base \in Nat
    PROVE  Reads(t, digits, base) = Reads(s, digits, base)
<1>0. /\ p \in Nat /\ Len(t) = p + Len(s)
      /\ \A k \in 1 .. p : Numeral(digits, t[k]) = 0
      /\ \A k \in 1 .. Len(s) : t[p + k] = s[k]
  <2>1. digits[0 + 1] = "0" /\ 0 \in 0 .. 15
    BY DEF IsAlphabet
  <2>2. Numeral(digits, "0") = 0
    BY <2>1, Worth
  <2> QED
    BY <2>2 DEF Zeroed
<1>1. PICK n \in Nat : n = Len(s)
  BY TextFacts DEF Zeroed
<1>2. PICK m \in Nat : m = p + n
  BY <1>0, <1>1
<1>3. PICK f : /\ Reads(s, digits, base) = f[n]
               /\ Follows(f, n, s, digits, base)
  BY <1>1, ReadsAre
<1>4. PICK g : /\ Reads(t, digits, base) = g[m]
               /\ Follows(g, m, t, digits, base)
  BY <1>0, <1>1, <1>2, ReadsAre
<1> DEFINE T == {k \in 0 .. p : g[k] # 0}
<1>5. ASSUME T # {} PROVE FALSE
  <2>1. PICK k \in T : \A l \in T : k <= l
    <3>1. T \subseteq Nat
      OBVIOUS
    <3> HIDE DEF T
    <3> QED
      BY <1>5, <3>1, Least
  <2>2. k \in 0 .. p /\ g[k] # 0
    OBVIOUS
  <2>3. k # 0
    BY <1>4, <2>2 DEF Shifted, Follows
  <2>4. /\ k - 1 \in 0 .. p /\ ~(k <= k - 1) /\ k \in 1 .. p
        /\ k \in 0 .. m
    BY <1>0, <1>1, <1>2, <2>2, <2>3
  <2>5. g[k - 1] = 0
    <3>1. k - 1 \notin T
      <4> HIDE DEF T
      <4> QED
        BY <2>1, <2>4
    <3> QED
      BY <2>4, <3>1
  <2>6. g[k] = Shift(base, 0, 0)
    BY <1>0, <1>4, <2>3, <2>4, <2>5 DEF Shifted, Follows
  <2> QED
    BY <2>2, <2>6 DEF Shift
<1>6. g[p] = 0
  <2>1. p \in 0 .. p
    BY <1>0
  <2> QED
    BY <1>5, <2>1
<1>7. g[m] = f[n]
  <2>1. Behind(s, t, p, n)
    BY <1>0, <1>1 DEF Behind
  <2>2. Alike(s, t, n, p, m, digits, base, f, g)
    BY <1>0, <1>1, <1>2, <1>3, <1>4, <1>6, <2>1 DEF Alike
  <2> QED
    BY <2>2, ReadOn
<1> QED
  BY <1>2, <1>3, <1>4, <1>7

LEMMA FillUp ==
    ASSUME NEW n \in Int, NEW c, NEW m, m = Maximum(n, 0)
    PROVE  m \in Nat /\ m >= n /\ Fill(n, c) = Fill(m, c)
<1>1. m \in Nat /\ m >= n /\ Maximum(m, 0) = m
  BY DEF Maximum
<1> QED
  BY <1>1 DEF Fill

LEMMA SignFacts ==
    ASSUME NEW num, NEW type, NEW sign, sign = Sign(num, type)
    PROVE  /\ IsText(sign) /\ Len(sign) \in 0 .. 1
           /\ Minus(num, type) => Len(sign) = 1 /\ sign[1] = "-"
           /\ ~Minus(num, type) /\ "PLUS" \in type
                  => Len(sign) = 1 /\ sign[1] = "+"
           /\ ~Minus(num, type) /\ "PLUS" \notin type /\ "SPACE" \in type
                  => Len(sign) = 1 /\ sign[1] = BLANK
           /\ ~Minus(num, type) /\ "PLUS" \notin type /\ "SPACE" \notin type
                  => Len(sign) = 0
<1>1. CASE Minus(num, type)
  BY <1>1, OneText DEF Sign
<1>2. CASE ~Minus(num, type) /\ "PLUS" \in type
  BY <1>2, OneText DEF Sign
<1>3. CASE ~Minus(num, type) /\ "PLUS" \notin type /\ "SPACE" \in type
  BY <1>3, OneText DEF Sign
<1>4. CASE ~Minus(num, type) /\ "PLUS" \notin type /\ "SPACE" \notin type
  BY <1>4, NoText DEF Sign
<1> QED
  BY <1>1, <1>2, <1>3, <1>4

\* The length of the prefix.
Ahead(base, type) ==
    IF "SPECIAL" \notin type THEN 0
    ELSE IF base = 8 THEN 1 ELSE IF base = 16 THEN 2 ELSE 0

LEMMA PrefixFacts ==
    ASSUME NEW base \in Bases, NEW type, NEW prefix,
           prefix = Prefix(base, type)
    PROVE  /\ IsText(prefix) /\ Len(prefix) = Ahead(base, type)
           /\ Len(prefix) \in 0 .. 2
           /\ Len(prefix) >= 1 => prefix[1] = "0"
           /\ Len(prefix) = 2 =>
                  prefix[2] = (IF "SMALL" \in type THEN "x" ELSE "X")
<1>1. CASE "SPECIAL" \in type /\ base = 8
  BY <1>1, OneText DEF Prefix, Ahead
<1>2. CASE "SPECIAL" \in type /\ base = 16
  <2>1. PICK x : x = IF "SMALL" \in type THEN "x" ELSE "X"
    OBVIOUS
  <2>2. <<"0", x>> \in Seq({"0", x})
    OBVIOUS
  <2>3. IsText(<<"0", x>>)
    BY <2>2, SeqText
  <2>4. prefix = <<"0", x>> /\ Ahead(base, type) = 2
    BY <1>2, <2>1 DEF Prefix, Ahead
  <2> QED
    BY <2>1, <2>3, <2>4
<1>3. CASE ~("SPECIAL" \in type /\ base \in {8, 16})
  BY <1>3, NoText DEF Prefix, Ahead
<1> QED
  BY <1>1, <1>2, <1>3

Laid(text, s, d, x, c, z, b, e, sign, prefix, size, precision, type) ==
    /\ Zeroed(d, s, z) /\ Headed(x, prefix, d) /\ Headed(c, sign, x)
    /\ Padded(text, c, b, e)
    /\ z >= precision - Len(s)
    /\ b > 0 => "LEFT" \notin type
    /\ e > 0 => "LEFT" \in type
    /\ Len(text) >= size
    /\ Len(text) > size =>
           b = 0 /\ e = 0 /\ z = Maximum(precision - Len(s), 0)

LEMMA NumberLaid ==
    ASSUME NEW num, NEW base \in Bases, NEW size \in Int,
           NEW precision \in Int, NEW type, NEW s, IsText(s),
           s = Figures(IF Minus(num, type) THEN Negated(num) ELSE num, base,
                       Digits(type))
    PROVE  \E d, x, c, z, b, e :
               Laid(number(num, base, size, precision, type), s,
                    d, x, c, z, b, e, Sign(num, type), Prefix(base, type),
                    size, precision, type)
<1>1. PICK sign, prefix :
          sign = Sign(num, type) /\ prefix = Prefix(base, type)
  OBVIOUS
<1>2. /\ IsText(sign) /\ Len(sign) \in Nat
      /\ IsText(prefix) /\ Len(prefix) \in Nat
      /\ Len(s) \in Nat
  BY <1>1, SignFacts, PrefixFacts, TextFacts
<1>3. PICK p : p = Maximum(precision - Len(s), 0)
  OBVIOUS
<1>4. /\ p \in Nat /\ p >= precision - Len(s)
      /\ Fill(precision - Len(s), "0") = Fill(p, "0")
  <2>1. precision - Len(s) \in Int
    BY <1>2
  <2> QED
    BY <1>3, <2>1, FillUp
<1>5. PICK body : body = Fill(p, "0") \o s
  OBVIOUS
<1>6. /\ Zeroed(body, s, p) /\ IsText(body)
      /\ Len(body) = p + Len(s) /\ Len(body) \in Nat
  <2>1. Zeroed(body, s, p)
    BY <1>4, <1>5, ZeroedIs
  <2> QED
    BY <2>1, TextFacts DEF Zeroed
<1>7. PICK head : head = sign \o prefix
  OBVIOUS
<1>8. IsText(head) /\ Len(head) = Len(sign) + Len(prefix)
  BY <1>2, <1>7, Joined
<1>9. PICK rest : rest = size - Len(head) - Len(body)
  OBVIOUS
<1>10. rest \in Int /\ Len(head) \in Nat
       /\ size = rest + Len(head) + Len(body)
  BY <1>2, <1>6, <1>8, <1>9
<1>11. number(num, base, size, precision, type) =
           IF "LEFT" \in type THEN (head \o body) \o Fill(rest, BLANK)
           ELSE IF "ZEROPAD" \in type THEN (head \o Fill(rest, "0")) \o body
           ELSE (Fill(rest, BLANK) \o head) \o body
  BY <1>1, <1>4, <1>5, <1>7, <1>9 DEF number
<1>12. PICK m : m = Maximum(rest, 0)
  OBVIOUS
<1>13. m \in Nat /\ m >= rest /\ (rest <= 0 => m = 0)
       /\ (rest >= 0 => m = rest)
       /\ Fill(rest, BLANK) = Fill(m, BLANK)
       /\ Fill(rest, "0") = Fill(m, "0")
  <2>1. (rest <= 0 => m = 0) /\ (rest >= 0 => m = rest)
    BY <1>10, <1>12 DEF Maximum
  <2> QED
    BY <1>10, <1>12, <2>1, FillUp
<1>14. PICK none : none = Fill(0, BLANK)
  OBVIOUS
<1>15. none = <<>>
  BY <1>14, FillNone
\* However the body is, it stands behind the prefix, and that behind the sign.
<1>16. ASSUME NEW d, IsText(d)
       PROVE  /\ Headed(prefix \o d, prefix, d)
              /\ Headed(head \o d, sign, prefix \o d)
              /\ IsText(head \o d) /\ Len(head \o d) = Len(head) + Len(d)
  <2>1. Headed(prefix \o d, prefix, d)
    BY <1>2, <1>16, HeadedIs
  <2>2. IsText(prefix \o d)
    BY <2>1 DEF Headed
  <2>3. Headed(sign \o (prefix \o d), sign, prefix \o d)
    BY <1>2, <2>2, HeadedIs
  <2>4. sign \o (prefix \o d) = head \o d
    BY <1>2, <1>7, <1>16, Associates
  <2>5. IsText(head \o d) /\ Len(head \o d) = Len(head) + Len(d)
    BY <1>8, <1>16, Joined
  <2> QED
    BY <2>1, <2>3, <2>4, <2>5
<1>17. CASE "LEFT" \in type
  <2>1. PICK text : text = (head \o body) \o Fill(m, BLANK)
    OBVIOUS
  <2>2. PICK c : c = head \o body
    OBVIOUS
  <2>3. /\ Headed(prefix \o body, prefix, body)
        /\ Headed(c, sign, prefix \o body)
        /\ IsText(c) /\ Len(c) = Len(head) + Len(body)
    BY <1>6, <1>16, <2>2
  <2>4. text = (none \o c) \o Fill(m, BLANK)
    BY <1>15, <2>1, <2>2, <2>3, JoinedNone
  <2>5. Padded(text, c, 0, m)
    BY <1>13, <1>14, <2>3, <2>4, PaddedIs
  <2>6. Len(text) = m + Len(head) + Len(body)
    BY <1>6, <1>10, <1>13, <2>3, <2>5 DEF Padded
  <2>7. Len(text) >= size /\ (Len(text) > size => m = 0)
    BY <1>6, <1>10, <1>13, <2>6
  <2>8. Laid(text, s, body, prefix \o body, c, p, 0, m, sign, prefix,
             size, precision, type)
    BY <1>3, <1>4, <1>6, <1>17, <2>3, <2>5, <2>7 DEF Laid
  <2>9. number(num, base, size, precision, type) = text
    BY <1>11, <1>13, <1>17, <2>1
  <2> QED
    BY <1>1, <2>8, <2>9
<1>18. CASE "LEFT" \notin type /\ "ZEROPAD" \in type
  <2>1. PICK d : d = Fill(m, "0") \o body
    OBVIOUS
  <2>2. Zeroed(d, s, m + p)
    BY <1>6, <1>13, <2>1, ZeroedMore
  <2>3. IsText(d) /\ Len(d) = m + Len(body)
    BY <1>4, <1>2, <1>6, <1>13, <2>2 DEF Zeroed
  <2>4. PICK text : text = head \o d
    OBVIOUS
  <2>5. /\ Headed(prefix \o d, prefix, d) /\ Headed(text, sign, prefix \o d)
        /\ IsText(text) /\ Len(text) = Len(head) + Len(d)
    BY <1>16, <2>3, <2>4
  <2>6. Padded(text, text, 0, 0)
    <3>1. none \o text = text /\ text \o none = text
      BY <1>15, <2>5, JoinedNone
    <3>2. Padded((none \o text) \o none, text, 0, 0)
      BY <1>14, <2>5, PaddedIs
    <3> QED
      BY <3>1, <3>2
  <2>7. Len(text) >= size /\ (Len(text) > size => m = 0)
    BY <1>6, <1>10, <1>13, <2>3, <2>5
  <2>8. m + p >= precision - Len(s) /\ (m = 0 => m + p = p)
    BY <1>2, <1>4, <1>13
  <2>9. Laid(text, s, d, prefix \o d, text, m + p, 0, 0, sign, prefix,
             size, precision, type)
    BY <1>3, <2>2, <2>5, <2>6, <2>7, <2>8 DEF Laid
  <2>10. number(num, base, size, precision, type) = text
    <3>1. PICK M : M = Fill(m, "0")
      OBVIOUS
    <3>2. IsText(Fill(m, "0"))
      BY <1>13, Filling
    <3>3. IsText(M) /\ IsText(head) /\ IsText(body)
      BY <1>6, <1>8, <3>1, <3>2
    <3>4. (head \o M) \o body = head \o (M \o body)
      BY <3>3, Associates
    <3> QED
      BY <1>11, <1>13, <1>18, <2>1, <2>4, <3>1, <3>4
  <2> QED
    BY <1>1, <2>9, <2>10
<1>19. CASE "LEFT" \notin type /\ "ZEROPAD" \notin type
  <2>1. PICK c : c = head \o body
    OBVIOUS
  <2>2. /\ Headed(prefix \o body, prefix, body)
        /\ Headed(c, sign, prefix \o body)
        /\ IsText(c) /\ Len(c) = Len(head) + Len(body)
    BY <1>6, <1>16, <2>1
  <2>3. PICK text : text = Fill(m, BLANK) \o c
    OBVIOUS
  <2>4. IsText(Fill(m, BLANK))
    BY <1>13, Filling
  <2>5. IsText(text)
    BY <2>2, <2>3, <2>4, Joined
  <2>6. Padded(text, c, m, 0)
    <3>1. text \o none = text
      BY <1>15, <2>5, JoinedNone
    <3>2. Padded((Fill(m, BLANK) \o c) \o none, c, m, 0)
      BY <1>13, <1>14, <2>2, PaddedIs
    <3> QED
      BY <2>3, <3>1, <3>2
  <2>7. Len(text) = m + Len(head) + Len(body)
    BY <1>6, <1>10, <1>13, <2>2, <2>6 DEF Padded
  <2>8. Len(text) >= size /\ (Len(text) > size => m = 0)
    BY <1>6, <1>10, <1>13, <2>7
  <2>9. Laid(text, s, body, prefix \o body, c, p, m, 0, sign, prefix,
             size, precision, type)
    BY <1>3, <1>4, <1>6, <1>19, <2>2, <2>6, <2>8 DEF Laid
  <2>10. number(num, base, size, precision, type) = text
    <3>1. PICK M : M = Fill(m, BLANK)
      OBVIOUS
    <3>2. IsText(M) /\ IsText(head) /\ IsText(body)
      BY <1>6, <1>8, <2>4, <3>1
    <3>3. (M \o head) \o body = M \o (head \o body)
      BY <3>2, Associates
    <3> QED
      BY <1>11, <1>13, <1>19, <2>1, <2>3, <3>1, <3>3
  <2> QED
    BY <1>1, <2>9, <2>10
<1> QED
  BY <1>17, <1>18, <1>19
----------------------------------------------------------------------------
\* Words, their signs and their negations.
LEMMA WordFacts == 2 ^ (W - 1) \in Nat \ {0} /\ 2 ^ W \in Nat
<1> DEFINE P == Nat \ {0}
<1>1. ASSUME NEW n \in {1, 2, 3, 4, 5, 6, 7, 8, 9, 10}
      PROVE  2 ^ n \in P
  <2>1. /\ 2 ^ 1 \in P /\ 2 ^ 2 \in P /\ 2 ^ 3 \in P /\ 2 ^ 4 \in P
        /\ 2 ^ 5 \in P /\ 2 ^ 6 \in P /\ 2 ^ 7 \in P /\ 2 ^ 8 \in P
        /\ 2 ^ 9 \in P /\ 2 ^ 10 \in P
    OBVIOUS
  <2> HIDE DEF P
  <2> QED
    BY <2>1, Zenon
<1>2. ASSUME NEW n \in {11, 12, 13, 14, 15, 16, 17, 18, 19, 20}
      PROVE  2 ^ n \in P
  <2>1. /\ 2 ^ 11 \in P /\ 2 ^ 12 \in P /\ 2 ^ 13 \in P /\ 2 ^ 14 \in P
        /\ 2 ^ 15 \in P /\ 2 ^ 16 \in P /\ 2 ^ 17 \in P /\ 2 ^ 18 \in P
        /\ 2 ^ 19 \in P /\ 2 ^ 20 \in P
    OBVIOUS
  <2> HIDE DEF P
  <2> QED
    BY <2>1, Zenon
<1>3. ASSUME NEW n \in {21, 22, 23, 24, 25, 26, 27, 28, 29, 30}
      PROVE  2 ^ n \in P
  <2>1. /\ 2 ^ 21 \in P /\ 2 ^ 22 \in P /\ 2 ^ 23 \in P /\ 2 ^ 24 \in P
        /\ 2 ^ 25 \in P /\ 2 ^ 26 \in P /\ 2 ^ 27 \in P /\ 2 ^ 28 \in P
        /\ 2 ^ 29 \in P /\ 2 ^ 30 \in P
    OBVIOUS
  <2> HIDE DEF P
  <2> QED
    BY <2>1, Zenon
<1>4. ASSUME NEW n \in 1 .. 30
      PROVE  2 ^ n \in P
  <2>1. \/ n \in {1, 2, 3, 4, 5, 6, 7, 8, 9, 10}
        \/ n \in {11, 12, 13, 14, 15, 16, 17, 18, 19, 20}
        \/ n \in {21, 22, 23, 24, 25, 26, 27, 28, 29, 30}
    OBVIOUS
  <2> HIDE DEF P
  <2> QED
    BY <1>1, <1>2, <1>3, <2>1, Zenon
<1>5. W - 1 \in 1 .. 30 /\ W \in 1 .. 30
  BY PrintkAssumption
<1>6. 2 ^ (W - 1) \in P /\ 2 ^ W \in P
  <2> HIDE DEF P
  <2> QED
    BY <1>4, <1>5, Zenon
<1> QED
  BY <1>6

Word == 0 .. 2 ^ W - 1

LEMMA NegatedIs ==
    ASSUME NEW num \in Word, Negative(num)
    PROVE  Negated(num) \in Nat /\ -Negated(num) = Signed(num)
           /\ Signed(num) < 0
<1>1. PICK m : m = 2 ^ W
  OBVIOUS
<1>2. m \in Nat /\ num \in 1 .. m - 1
  BY <1>1, WordFacts DEF Word, Negative
<1>3. PICK n : n = m - num
  OBVIOUS
<1>4. n \in 0 .. m - 1 /\ m \in Nat \ {0}
  BY <1>2, <1>3
<1>5. n % m = n
  BY <1>4
<1>6. Negated(num) = n /\ Signed(num) = num - m
  BY <1>1, <1>3, <1>5 DEF Negated, Signed
<1> QED
  BY <1>2, <1>3, <1>4, <1>6

\* The flags and what is asked for.
LEMMA FlagIs ==
    /\ DOMAIN Flag = {"-", "+", BLANK, "#", "0"}
    /\ Flag["-"] = "LEFT" /\ Flag["+"] = "PLUS" /\ Flag[BLANK] = "SPACE"
    /\ Flag["#"] = "SPECIAL" /\ Flag["0"] = "ZEROPAD"
<1>1. BLANK # "-" /\ BLANK # "+" /\ BLANK # "#" /\ BLANK # "0"
  BY Zenon DEF BLANK
<1> QED
  BY <1>1 DEF Flag

Asked(w) == [flags |-> {Flag[f] : f \in w.flags}, field_width |-> w.width,
             precision |-> w.precision, conv |-> w.conv]

LEMMA FlagsAre ==
    ASSUME NEW F, F \subseteq DOMAIN Flag, NEW T, T = {Flag[f] : f \in F}
    PROVE  /\ "LEFT" \in T <=> "-" \in F
           /\ "PLUS" \in T <=> "+" \in F
           /\ "SPACE" \in T <=> BLANK \in F
           /\ "SPECIAL" \in T <=> "#" \in F
           /\ "SIGN" \notin T /\ "SMALL" \notin T
<1>1. \A f \in F : f \in {"-", "+", BLANK, "#", "0"}
  BY FlagIs
<1>2. \A t \in T : \E f \in F : t = Flag[f]
  OBVIOUS
<1>3. \A f \in F : Flag[f] \in T
  OBVIOUS
<1>4. "LEFT" \in T <=> "-" \in F
  BY <1>1, <1>2, <1>3, FlagIs
<1>5. "PLUS" \in T <=> "+" \in F
  BY <1>1, <1>2, <1>3, FlagIs
<1>6. "SPACE" \in T <=> BLANK \in F
  BY <1>1, <1>2, <1>3, FlagIs
<1>7. "SPECIAL" \in T <=> "#" \in F
  BY <1>1, <1>2, <1>3, FlagIs
<1>8. "SIGN" \notin T
  BY <1>1, <1>2, FlagIs
<1>9. "SMALL" \notin T
  BY <1>1, <1>2, FlagIs
<1> QED
  BY <1>4, <1>5, <1>6, <1>7, <1>8, <1>9

----------------------------------------------------------------------------
\* Without its sign, a number has no blank and no sign.
LEMMA NoSign ==
    ASSUME NEW s, NEW n, NEW base \in Bases, NEW digits,
           FiguresOf(s, n, base, digits), NEW d, NEW z, Zeroed(d, s, z),
           NEW type, NEW x, Headed(x, Prefix(base, type), d)
    PROVE  /\ IsText(x) /\ Len(x) \in Nat /\ Len(x) >= 1
           /\ \A k \in 1 .. Len(x) : x[k] # BLANK
           /\ x[1] # "-" /\ x[1] # "+"
<1>1. PICK prefix : prefix = Prefix(base, type)
  OBVIOUS
<1>2. /\ Len(prefix) \in 0 .. 2
      /\ Len(prefix) >= 1 => prefix[1] = "0"
      /\ Len(prefix) = 2 => prefix[2] \in {"x", "X"}
  BY <1>1, PrefixFacts
<1>3. /\ IsText(x) /\ Len(x) = Len(prefix) + Len(d)
      /\ \A k \in 1 .. Len(prefix) : x[k] = prefix[k]
      /\ \A k \in 1 .. Len(d) : x[Len(prefix) + k] = d[k]
  BY <1>1 DEF Headed
<1>4. /\ z \in Nat /\ Len(s) \in Nat /\ Len(s) >= 1
      /\ Len(d) = z + Len(s) /\ Len(d) \in Nat /\ Len(d) >= 1
  BY TextFacts DEF Zeroed, FiguresOf
<1>5. "0" \in Chars
  BY DEF Chars
<1>6. ASSUME NEW k \in 1 .. Len(d) PROVE d[k] \in Chars
  <2>1. CASE k \in 1 .. z
    BY <1>5, <2>1 DEF Zeroed
  <2>2. CASE k \notin 1 .. z
    <3>1. k - z \in 1 .. Len(s) /\ z + (k - z) = k
      BY <1>4, <2>2
    <3>2. d[z + (k - z)] = s[k - z]
      BY <3>1 DEF Zeroed
    <3>3. s[k - z] \in Chars
      BY <3>1 DEF FiguresOf
    <3> QED
      BY <3>1, <3>2, <3>3
  <2> QED
    BY <2>1, <2>2
<1>7. ASSUME NEW k \in 1 .. Len(x)
      PROVE  x[k] \in Chars \/ (k = 2 /\ x[k] \in {"x", "X"})
  <2>1. CASE k \in 1 .. Len(prefix)
    <3>1. k = 1 \/ (k = 2 /\ Len(prefix) = 2)
      BY <1>2, <2>1
    <3>2. x[k] = prefix[k]
      BY <1>3, <2>1
    <3> QED
      BY <1>2, <1>5, <2>1, <3>1, <3>2
  <2>2. CASE k \notin 1 .. Len(prefix)
    <3>1. /\ k - Len(prefix) \in 1 .. Len(d)
          /\ Len(prefix) + (k - Len(prefix)) = k
      BY <1>2, <1>3, <1>4, <2>2
    <3>2. x[Len(prefix) + (k - Len(prefix))] = d[k - Len(prefix)]
      BY <1>3, <3>1
    <3> QED
      BY <1>6, <3>1, <3>2
  <2> QED
    BY <2>1, <2>2
<1>8. BLANK # "x" /\ BLANK # "X"
  BY Zenon DEF BLANK
<1>9. \A k \in 1 .. Len(x) : x[k] # BLANK
  BY <1>7, <1>8, CharFacts
<1>10. Len(x) \in Nat /\ Len(x) >= 1
  BY <1>2, <1>3, <1>4
<1>11. x[1] \in Chars
  BY <1>7, <1>10
<1> QED
  BY <1>3, <1>9, <1>10, <1>11, CharFacts

\* What is left of a number's text without its field, and whether it has a
\* sign.
Shows(text, c, b, e, x, num, size, type) ==
    /\ Trimmed(text) = c /\ Padded(text, c, b, e)
    /\ Len(c) >= 1 /\ \A k \in 1 .. Len(c) : c[k] # BLANK
    /\ c[1] \in {"-", "+"} => Tail(c) = x
    /\ c[1] \notin {"-", "+"} => c = x
    /\ c[1] = "-" <=> Minus(num, type)
    /\ "PLUS" \in type /\ ~Minus(num, type) => c[1] = "+"
    /\ b > 0 => "LEFT" \notin type \/ "SPACE" \in type
    /\ e > 0 => "LEFT" \in type
    /\ Len(text) > size =>
           e = 0 /\ b <= 1 /\ (b = 1 => "SPACE" \in type)

LEMMA NumberShown ==
    ASSUME NEW s, NEW n, NEW base \in Bases, NEW digits,
           FiguresOf(s, n, base, digits), NEW num, NEW size, NEW precision,
           NEW type, NEW text, NEW d, NEW x, NEW c, NEW z, NEW b, NEW e,
           Laid(text, s, d, x, c, z, b, e, Sign(num, type),
                Prefix(base, type), size, precision, type)
    PROVE  \E c1, b1 : Shows(text, c1, b1, e, x, num, size, type)
<1>1. PICK sign : sign = Sign(num, type)
  OBVIOUS
<1>2. /\ Zeroed(d, s, z) /\ Headed(x, Prefix(base, type), d)
      /\ Headed(c, sign, x) /\ Padded(text, c, b, e)
      /\ b > 0 => "LEFT" \notin type
      /\ e > 0 => "LEFT" \in type
      /\ Len(text) > size => b = 0 /\ e = 0
      /\ b \in Nat
  BY <1>1 DEF Laid, Padded
<1>3. /\ IsText(x) /\ Len(x) \in Nat /\ Len(x) >= 1
      /\ \A k \in 1 .. Len(x) : x[k] # BLANK
      /\ x[1] # "-" /\ x[1] # "+"
  BY <1>2, NoSign
<1>4. /\ Len(sign) \in 0 .. 1
      /\ Minus(num, type) => Len(sign) = 1 /\ sign[1] = "-"
      /\ ~Minus(num, type) /\ "PLUS" \in type
             => Len(sign) = 1 /\ sign[1] = "+"
      /\ ~Minus(num, type) /\ "PLUS" \notin type /\ "SPACE" \in type
             => Len(sign) = 1 /\ sign[1] = BLANK
      /\ ~Minus(num, type) /\ "PLUS" \notin type /\ "SPACE" \notin type
             => Len(sign) = 0
  BY <1>1, SignFacts
<1>5. BLANK # "-" /\ BLANK # "+"
  BY Zenon DEF BLANK
<1>6. CASE Minus(num, type) \/ "PLUS" \in type
  <2>1. /\ Len(sign) = 1 /\ sign[1] \in {"-", "+"}
        /\ sign[1] = "-" <=> Minus(num, type)
        /\ ~Minus(num, type) => sign[1] = "+"
    BY <1>4, <1>6
  <2>2. c[1] = sign[1] /\ Len(c) = 1 + Len(x) /\ Len(c) >= 1
    <3>1. 1 \in 1 .. 1
      OBVIOUS
    <3> QED
      BY <1>2, <1>3, <2>1, <3>1 DEF Headed
  <2>3. Tail(c) = x
    BY <1>2, <2>1, HeadedTail
  <2>4. \A k \in 1 .. Len(c) : c[k] # BLANK
    <3> SUFFICES ASSUME NEW k \in 1 .. Len(c) PROVE c[k] # BLANK
      OBVIOUS
    <3>1. CASE k = 1
      BY <1>5, <2>1, <2>2, <3>1
    <3>2. CASE k # 1
      <4>1. k - 1 \in 1 .. Len(x) /\ 1 + (k - 1) = k
        BY <1>3, <2>2, <3>2
      <4>2. c[1 + (k - 1)] = x[k - 1]
        BY <1>2, <2>1, <4>1 DEF Headed
      <4> QED
        BY <1>3, <4>1, <4>2
    <3> QED
      BY <3>1, <3>2
  <2>5. Len(c) \in 1 .. Len(c) /\ 1 \in 1 .. Len(c)
    BY <1>3, <2>2
  <2>6. Trimmed(text) = c
    BY <1>2, <2>2, <2>4, <2>5, TrimmedText
  <2>7. Shows(text, c, b, e, x, num, size, type)
    BY <1>2, <2>1, <2>2, <2>3, <2>4, <2>6 DEF Shows
  <2> QED
    BY <2>7
<1>7. CASE ~Minus(num, type) /\ "PLUS" \notin type
  <2>1. 1 \in 1 .. Len(x) /\ Len(x) \in 1 .. Len(x)
    BY <1>3
  <2>2. ASSUME NEW b1, Padded(text, x, b1, e)
        PROVE  Trimmed(text) = x
    BY <1>3, <2>1, <2>2, TrimmedText
  <2>3. CASE "SPACE" \in type
    <3>1. Padded(text, x, b + 1, e)
      BY <1>2, <1>4, <1>7, <2>3, PaddedMore
    <3>2. b + 1 > 0 /\ (b = 0 => b + 1 <= 1)
      BY <1>2
    <3>3. Shows(text, x, b + 1, e, x, num, size, type)
      BY <1>2, <1>3, <1>7, <2>2, <2>3, <3>1, <3>2 DEF Shows
    <3> QED
      BY <3>3
  <2>4. CASE "SPACE" \notin type
    <3>1. c = x
      BY <1>2, <1>4, <1>7, <2>4, HeadedNone
    <3>2. Shows(text, x, b, e, x, num, size, type)
      BY <1>2, <1>3, <1>7, <2>2, <3>1 DEF Shows
    <3> QED
      BY <3>2
  <2> QED
    BY <2>3, <2>4
<1> QED
  BY <1>6, <1>7
----------------------------------------------------------------------------
\* What a directive may ask for: the flags in any order and number, any width
\* and precision, of any word, text or character.  A blank in a text cannot
\* be told from the blanks of its field.
IsWant(w) ==
    /\ w.flags \subseteq DOMAIN Flag /\ w.width \in Int /\ w.precision \in Int
    /\ \/ w.conv \in DOMAIN Base /\ w.arg \in Word
       \/ /\ w.conv = "s" /\ IsText(w.arg)
          /\ \A k \in 1 .. Len(w.arg) : w.arg[k] # BLANK
       \/ w.conv = "c" /\ w.arg # BLANK

\* How the text lies in its field.
LEMMA Sides ==
    ASSUME NEW text, NEW c, NEW b, NEW e, Padded(text, c, b, e),
           Len(c) >= 1, c[1] # BLANK, c[Len(c)] # BLANK
    PROVE  /\ b = 0 => ~Blank(text[1])
           /\ e = 0 => ~Blank(text[Len(text)])
<1>1. /\ b \in Nat /\ e \in Nat /\ Len(c) \in Nat
      /\ Len(text) = (b + Len(c)) + e
      /\ \A k \in 1 .. Len(c) : text[b + k] = c[k]
  BY TextFacts DEF Padded
<1>2. 1 \in 1 .. Len(c) /\ Len(c) \in 1 .. Len(c)
  BY <1>1
<1>3. b = 0 => text[1] = c[1]
  <2>1. b = 0 => b + 1 = 1
    BY <1>1
  <2> QED
    BY <1>1, <1>2, <2>1
<1>4. e = 0 => text[Len(text)] = c[Len(c)]
  <2>1. e = 0 => Len(text) = b + Len(c)
    BY <1>1
  <2> QED
    BY <1>1, <1>2, <2>1
<1> QED
  BY <1>3, <1>4 DEF Blank

\* The conversions of numbers: their base, and what they add to the flags.
Radix(conv) ==
    CASE conv \in {"x", "X", "p"} -> 16 [] conv = "o" -> 8 [] conv = "b" -> 2
      [] OTHER -> 10
More(d) ==
    CASE d.conv = "x" -> {"SMALL"} [] d.conv \in {"d", "i"} -> {"SIGN"}
      [] d.conv = "p" /\ d.field_width = -1 -> {"ZEROPAD"} [] OTHER -> {}

LEMMA Conversions ==
    ASSUME NEW conv \in DOMAIN Base
    PROVE  /\ Base[conv] = Radix(conv) /\ Radix(conv) \in Bases
           /\ conv # "s" /\ conv # "c"
           /\ conv \in {"x", "X", "p"} <=> Radix(conv) = 16
           /\ conv = "o" <=> Radix(conv) = 8
<1>1. conv \in {"o", "p", "x", "X", "d", "i", "u", "b"}
  BY DEF Base
<1> QED
  BY <1>1 DEF Base, Radix, Bases

LEMMA NumberReads ==
    ASSUME NEW w, IsWant(w), w.conv \in DOMAIN Base
    PROVE  DirectiveReadsBack(Convert(Asked(w), w.arg), w)
<1>1. PICK num : num = w.arg
  OBVIOUS
<1>2. PICK conv : conv = w.conv
  OBVIOUS
<1>3. PICK base : base = Radix(conv)
  OBVIOUS
<1>4. PICK type : type = Asked(w).flags \cup More(Asked(w))
  OBVIOUS
<1>5. PICK size :
          size = IF conv = "p" /\ w.width = -1 THEN 8 ELSE w.width
  OBVIOUS
<1>6. PICK text : text = Convert(Asked(w), num)
  OBVIOUS
<1>7. /\ base \in Bases /\ Base[conv] = base
      /\ conv # "s" /\ conv # "c"
      /\ conv \in {"x", "X", "p"} <=> base = 16
      /\ conv = "o" <=> base = 8
      /\ num \in Word
  BY <1>1, <1>2, <1>3, Conversions DEF IsWant
<1>8. /\ Asked(w).conv = conv /\ Asked(w).field_width = w.width
      /\ Asked(w).precision = w.precision
      /\ Asked(w).flags = {Flag[f] : f \in w.flags}
  BY <1>2 DEF Asked
<1>9. text = number(num, base, size, w.precision, type)
  <2>1. PICK d : d = Asked(w)
    OBVIOUS
  <2>2. text = ConvertNumber(d, num)
    BY <1>6, <1>7, <1>8, <2>1 DEF Convert
  <2> QED
    BY <1>4, <1>5, <1>7, <1>8, <2>1, <2>2 DEF ConvertNumber, More
<1>10. /\ "LEFT" \in type <=> "-" \in w.flags
       /\ "PLUS" \in type <=> "+" \in w.flags
       /\ "SPACE" \in type <=> BLANK \in w.flags
       /\ "SPECIAL" \in type <=> "#" \in w.flags
       /\ "SIGN" \in type <=> conv \in {"d", "i"}
       /\ "SMALL" \in type <=> conv = "x"
  <2>1. PICK F : F = Asked(w).flags
    OBVIOUS
  <2>2. /\ "LEFT" \in F <=> "-" \in w.flags
        /\ "PLUS" \in F <=> "+" \in w.flags
        /\ "SPACE" \in F <=> BLANK \in w.flags
        /\ "SPECIAL" \in F <=> "#" \in w.flags
        /\ "SIGN" \notin F /\ "SMALL" \notin F
    BY <1>8, <2>1, FlagsAre DEF IsWant
  <2>3. PICK M : M = More(Asked(w))
    OBVIOUS
  <2>4. M = IF conv = "x" THEN {"SMALL"}
            ELSE IF conv \in {"d", "i"} THEN {"SIGN"}
            ELSE IF conv = "p" /\ w.width = -1 THEN {"ZEROPAD"} ELSE {}
    BY <1>8, <2>3 DEF More
  <2>5. /\ "LEFT" \notin M /\ "PLUS" \notin M /\ "SPACE" \notin M
        /\ "SPECIAL" \notin M
        /\ "SIGN" \in M <=> conv \in {"d", "i"}
        /\ "SMALL" \in M <=> conv = "x"
    BY <2>4
  <2> QED
    BY <1>4, <2>1, <2>2, <2>3, <2>5
<1>11. PICK n : n = IF Minus(num, type) THEN Negated(num) ELSE num
  OBVIOUS
<1>12. /\ num \in Nat /\ n \in Nat
       /\ Minus(num, type) => -n = Signed(num) /\ Signed(num) < 0
       /\ ~Minus(num, type) => n = num
       /\ ~Minus(num, type) /\ conv \in {"d", "i"} => Signed(num) = num
  <2>1. num \in Nat
    BY <1>7, WordFacts DEF Word
  <2>2. CASE Minus(num, type)
    <3>1. Negative(num)
      BY <2>2 DEF Minus
    <3> QED
      BY <1>7, <1>11, <2>1, <2>2, <3>1, NegatedIs
  <2>3. CASE ~Minus(num, type)
    BY <1>10, <1>11, <2>1, <2>3 DEF Minus, Signed
  <2> QED
    BY <2>1, <2>2, <2>3
<1>13. PICK digits : digits = Digits(type)
  OBVIOUS
<1>14. /\ digits = IF conv = "x" THEN small ELSE large
       /\ IsAlphabet(digits)
  BY <1>10, <1>13, Alphabets DEF Digits
<1>15. PICK s : s = Figures(n, base, digits)
  OBVIOUS
<1>16. FiguresOf(s, n, base, digits)
  BY <1>7, <1>12, <1>14, <1>15, FiguresRead
<1>17. size \in Int /\ w.precision \in Int /\ w.width \in Int
       /\ size >= w.width
  BY <1>5 DEF IsWant
<1>18. PICK d, x, c, z, b, e :
           Laid(text, s, d, x, c, z, b, e, Sign(num, type),
                Prefix(base, type), size, w.precision, type)
  <2>1. IsText(s)
    BY <1>16 DEF FiguresOf
  <2> QED
    BY <1>7, <1>9, <1>11, <1>13, <1>15, <1>17, <2>1, NumberLaid
<1>19. PICK trim, b1 : Shows(text, trim, b1, e, x, num, size, type)
  BY <1>7, <1>16, <1>18, NumberShown
<1>20. /\ Trimmed(text) = trim /\ Padded(text, trim, b1, e)
       /\ Len(trim) >= 1 /\ Len(trim) \in Nat
       /\ \A k \in 1 .. Len(trim) : trim[k] # BLANK
  BY <1>19, TextFacts DEF Shows, Padded
<1>21. x = IF trim[1] \in {"-", "+"} THEN Tail(trim) ELSE trim
  BY <1>19 DEF Shows
<1>22. PICK prefix : prefix = Ahead(base, type)
  OBVIOUS
<1>23. /\ prefix = IF "#" \notin w.flags THEN 0
                   ELSE CASE conv \in {"x", "X", "p"} -> 2
                          [] conv = "o" -> 1 [] OTHER -> 0
       /\ prefix \in 0 .. 2
  BY <1>7, <1>10, <1>22 DEF Ahead
<1>24. /\ Headed(x, Prefix(base, type), d)
       /\ Len(Prefix(base, type)) = prefix
       /\ SubSeq(x, prefix + 1, Len(x)) = d
  BY <1>7, <1>18, <1>22, PrefixFacts, HeadedDrop DEF Laid
<1>25. /\ Zeroed(d, s, z) /\ IsText(d) /\ IsText(s)
       /\ z \in Nat /\ Len(s) \in Nat /\ Len(s) >= 1 /\ Len(d) = z + Len(s)
       /\ z >= w.precision - Len(s) /\ Len(text) >= size
       /\ Len(text) > size => z = Maximum(w.precision - Len(s), 0)
  BY <1>16, <1>18, TextFacts DEF Laid, Zeroed, FiguresOf
<1>26. Reads(d, digits, base) = n
  <2>1. base \in Nat
    BY <1>7 DEF Bases
  <2>2. Reads(d, digits, base) = Reads(s, digits, base)
    BY <1>14, <1>25, <2>1, ReadsZeros
  <2> QED
    BY <1>16, <2>2 DEF FiguresOf
<1>27. PICK value :
           value = IF conv \in {"d", "i"} THEN Signed(num) ELSE num
  OBVIOUS
<1>28. /\ trim[1] = "-" <=> Minus(num, type)
       /\ "PLUS" \in type /\ ~Minus(num, type) => trim[1] = "+"
  BY <1>19 DEF Shows
<1>29. /\ value = (IF trim[1] = "-" THEN -n ELSE n)
       /\ "+" \in w.flags /\ value >= 0 => trim[1] = "+"
  <2>1. Minus(num, type) => conv \in {"d", "i"}
    BY <1>10 DEF Minus
  <2>2. CASE Minus(num, type)
    BY <1>12, <1>27, <1>28, <2>1, <2>2
  <2>3. CASE ~Minus(num, type)
    BY <1>10, <1>12, <1>27, <1>28, <2>3
  <2> QED
    BY <2>2, <2>3
<1>30. prefix = 2 => /\ x[1] = "0"
                     /\ x[2] = (IF conv = "x" THEN "x" ELSE "X")
  <2>1. PICK p : p = Prefix(base, type)
    OBVIOUS
  <2>2. prefix = 2 => /\ p[1] = "0"
                      /\ p[2] = (IF "SMALL" \in type THEN "x" ELSE "X")
    BY <1>7, <1>24, <2>1, PrefixFacts
  <2>3. prefix = 2 => x[1] = p[1] /\ x[2] = p[2]
    <3>1. 1 \in 1 .. 2 /\ 2 \in 1 .. 2
      OBVIOUS
    <3> QED
      BY <1>24, <2>1, <3>1 DEF Headed
  <2> QED
    BY <1>10, <2>2, <2>3
<1>31. Len(d) >= w.precision /\ Len(text) >= w.width
  <2>1. Len(text) \in Nat
    BY <1>20, TextFacts DEF Padded
  <2> QED
    BY <1>17, <1>25, <2>1
<1>32. ASSUME Len(text) > size
       PROVE  /\ \A k \in DOMAIN text : Blank(text[k]) =>
                     k = 1 /\ BLANK \in w.flags
              /\ Len(d) > Maximum(w.precision, 1) => d[1] # "0"
  <2>1. e = 0 /\ b1 <= 1 /\ (b1 = 1 => "SPACE" \in type)
    BY <1>19, <1>32 DEF Shows
  <2>2. ASSUME NEW k \in DOMAIN text, Blank(text[k])
        PROVE  k = 1 /\ BLANK \in w.flags
    <3>1. /\ k \in 1 .. (b1 + Len(trim)) + 0 /\ b1 \in Nat
          /\ \A j \in 1 .. Len(trim) : text[b1 + j] = trim[j]
      BY <1>20, <2>1, TextFacts DEF Padded
    <3>2. ASSUME k > b1 PROVE FALSE
      <4>1. k - b1 \in 1 .. Len(trim) /\ b1 + (k - b1) = k
        BY <1>20, <3>1, <3>2
      <4>2. text[b1 + (k - b1)] = trim[k - b1]
        BY <3>1, <4>1
      <4> QED
        BY <1>20, <2>2, <4>1, <4>2 DEF Blank
    <3>3. k = 1 /\ b1 = 1
      BY <2>1, <3>1, <3>2
    <3> QED
      BY <1>10, <2>1, <3>3
  <2>3. ASSUME Len(d) > Maximum(w.precision, 1)
        PROVE  d[1] # "0"
    <3>1. z = 0 /\ Len(s) > 1
      BY <1>17, <1>25, <1>32, <2>3 DEF Maximum
    <3>2. n > 0
      BY <1>12, <1>16, <3>1 DEF FiguresOf
    <3>3. d[0 + 1] = s[1]
      <4>1. 1 \in 1 .. Len(s)
        BY <1>25
      <4> QED
        BY <1>25, <3>1, <4>1 DEF Zeroed
    <3> QED
      BY <1>16, <3>2, <3>3 DEF FiguresOf
  <2> QED
    BY <2>2, <2>3
<1>33. NumberReadsBack(text, w)
  <2>1. PICK field : field = Maximum(w.width, IF conv = "p" THEN 8 ELSE 0)
    OBVIOUS
  <2>2. field >= size /\ field \in Int
    BY <1>5, <1>17, <2>1 DEF Maximum
  <2>3. Len(text) > field => Len(text) > size
    <3>1. Len(text) \in Nat
      BY <1>20, TextFacts DEF Padded
    <3> QED
      BY <1>17, <2>2, <3>1
  <2> QED
    BY <1>1, <1>2, <1>3, <1>14, <1>20, <1>21, <1>23, <1>24, <1>26, <1>27,
       <1>29, <1>30, <1>31, <1>32, <2>1, <2>3, Zenon
       DEF NumberReadsBack, Radix
<1>34. IF "-" \in w.flags THEN ~Blank(text[1]) \/ BLANK \in w.flags
       ELSE ~Blank(text[Len(text)])
  <2>1. 1 \in 1 .. Len(trim) /\ Len(trim) \in 1 .. Len(trim)
    BY <1>20
  <2>2. /\ b1 = 0 => ~Blank(text[1])
        /\ e = 0 => ~Blank(text[Len(text)])
    BY <1>20, <2>1, Sides
  <2>3. /\ b1 > 0 => "LEFT" \notin type \/ "SPACE" \in type
        /\ e > 0 => "LEFT" \in type
        /\ b1 \in Nat /\ e \in Nat
    BY <1>19, <1>20 DEF Shows, Padded
  <2> QED
    BY <1>10, <2>2, <2>3
<1>35. DirectiveReadsBack(text, w)
  BY <1>2, <1>7, <1>33, <1>34 DEF DirectiveReadsBack
<1> QED
  BY <1>1, <1>6, <1>35
\* A string or a character stands in its field as it is.
LEMMA Justified ==
    ASSUME NEW s, IsText(s), NEW w, w.flags \subseteq DOMAIN Flag,
           w.width \in Int, \A k \in 1 .. Len(s) : s[k] # BLANK,
           NEW text, text = Justify(Asked(w), s)
    PROVE  /\ Trimmed(text) = s
           /\ Len(text) = Maximum(w.width, Len(s))
           /\ s # <<>> => IF "-" \in w.flags THEN ~Blank(text[1])
                          ELSE ~Blank(text[Len(text)])
<1>1. PICK n \in Nat : n = Len(s)
  BY TextFacts
<1>2. PICK m : m = Maximum(w.width - n, 0)
  OBVIOUS
<1>3. /\ m \in Nat /\ Fill(w.width - n, BLANK) = Fill(m, BLANK)
      /\ n + m = Maximum(w.width, n)
  <2>1. w.width - n \in Int
    BY <1>1
  <2>2. m \in Nat /\ Fill(w.width - n, BLANK) = Fill(m, BLANK)
    BY <1>2, <2>1, FillUp
  <2>3. n + m = Maximum(w.width, n)
    BY <1>1, <1>2 DEF Maximum
  <2> QED
    BY <2>2, <2>3
<1>4. PICK F : F = Asked(w).flags
  OBVIOUS
<1>5. "LEFT" \in F <=> "-" \in w.flags
  <2>1. F = {Flag[f] : f \in w.flags}
    BY <1>4 DEF Asked
  <2> QED
    BY <2>1, FlagsAre
<1>6. text = IF "LEFT" \in F THEN s \o Fill(m, BLANK)
             ELSE Fill(m, BLANK) \o s
  <2>1. Asked(w).field_width = w.width
    BY DEF Asked
  <2> QED
    BY <1>1, <1>3, <1>4, <2>1 DEF Justify
<1>7. PICK b, e : b = (IF "LEFT" \in F THEN 0 ELSE m)
                  /\ e = (IF "LEFT" \in F THEN m ELSE 0)
  OBVIOUS
<1>8. b \in Nat /\ e \in Nat /\ b + e = m
  BY <1>3, <1>7
<1>9. Padded(text, s, b, e)
  <2>1. Padded((Fill(b, BLANK) \o s) \o Fill(e, BLANK), s, b, e)
    BY <1>8, PaddedIs
  <2>2. PICK none : none = Fill(0, BLANK)
    OBVIOUS
  <2>3. none = <<>>
    BY <2>2, FillNone
  <2>4. IsText(Fill(m, BLANK))
    BY <1>3, Filling
  <2>5. none \o s = s /\ IsText(Fill(m, BLANK) \o s)
    BY <2>3, <2>4, JoinedNone, Joined
  <2>6. (Fill(m, BLANK) \o s) \o none = Fill(m, BLANK) \o s
    BY <2>3, <2>5, JoinedNone
  <2>7. (Fill(b, BLANK) \o s) \o Fill(e, BLANK) = text
    <3>1. CASE "LEFT" \in F
      BY <1>6, <1>7, <2>2, <2>5, <3>1
    <3>2. CASE "LEFT" \notin F
      BY <1>6, <1>7, <2>2, <2>6, <3>2
    <3> QED
      BY <3>1, <3>2
  <2> QED
    BY <2>1, <2>7
<1>10. Len(text) = n + m
  BY <1>1, <1>8, <1>9 DEF Padded
<1>11. CASE n = 0
  <2>1. s = <<>>
    <3>1. PICK t : t = <<>>
      OBVIOUS
    <3>2. IsText(t) /\ Len(t) = 0 /\ Len(s) = 0
      BY <1>1, <1>11, <3>1, NoText
    <3> QED
      BY <3>1, <3>2, SameText
  <2>2. Trimmed(text) = <<>>
    BY <1>1, <1>9, <1>11, TrimmedNone
  <2> QED
    BY <1>1, <1>3, <1>10, <2>1, <2>2
<1>12. CASE n # 0
  <2>1. 1 \in 1 .. n /\ n \in 1 .. n /\ n >= 1
    BY <1>1, <1>12
  <2>2. s[1] # BLANK /\ s[Len(s)] # BLANK /\ Len(s) >= 1
    BY <1>1, <2>1
  <2>3. Trimmed(text) = s
    BY <1>9, <2>2, TrimmedText
  <2>4. /\ b = 0 => ~Blank(text[1])
        /\ e = 0 => ~Blank(text[Len(text)])
    BY <1>9, <2>2, Sides
  <2> QED
    BY <1>1, <1>3, <1>5, <1>7, <1>10, <2>3, <2>4
<1> QED
  BY <1>11, <1>12

LEMMA TextReads ==
    ASSUME NEW w, IsWant(w), w.conv \in {"s", "c"}
    PROVE  DirectiveReadsBack(Convert(Asked(w), w.arg), w)
<1>1. /\ w.flags \subseteq DOMAIN Flag /\ w.width \in Int
      /\ w.precision \in Int
      /\ Asked(w).conv = w.conv /\ Asked(w).precision = w.precision
  BY DEF IsWant, Asked
<1>2. PICK d : d = Asked(w)
  OBVIOUS
<1>3. w.conv \notin DOMAIN Base
  BY DEF Base
<1>4. CASE w.conv = "c"
  <2>1. PICK s : s = <<w.arg>>
    OBVIOUS
  <2>2. IsText(s) /\ Len(s) = 1 /\ s[1] = w.arg
    BY <2>1, OneText
  <2>3. \A k \in 1 .. Len(s) : s[k] # BLANK
    <3>1. w.arg # BLANK
      BY <1>3, <1>4 DEF IsWant
    <3> QED
      BY <2>2, <3>1
  <2>4. PICK text : text = Justify(d, s)
    OBVIOUS
  <2>5. /\ Trimmed(text) = s
        /\ s # <<>> => IF "-" \in w.flags THEN ~Blank(text[1])
                       ELSE ~Blank(text[Len(text)])
    BY <1>1, <1>2, <2>2, <2>3, <2>4, Justified
  <2>6. s # <<>>
    BY <2>2, NoText
  <2>7. Convert(d, w.arg) = text
    BY <1>1, <1>2, <1>4, <2>1, <2>4 DEF Convert
  <2>8. DirectiveReadsBack(text, w)
    BY <1>4, <2>1, <2>5, <2>6 DEF DirectiveReadsBack
  <2> QED
    BY <1>2, <2>7, <2>8
<1>5. CASE w.conv = "s"
  <2>1. IsText(w.arg) /\ \A k \in 1 .. Len(w.arg) : w.arg[k] # BLANK
    BY <1>3, <1>5 DEF IsWant
  <2>2. PICK l : l = Len(w.arg)
    OBVIOUS
  <2>3. PICK n : n = IF w.precision < 0 \/ l <= w.precision THEN l
                     ELSE w.precision
    OBVIOUS
  <2>4. l \in Nat /\ n \in 0 .. l
    BY <1>1, <2>1, <2>2, <2>3, TextFacts
  <2>5. PICK s : s = SubSeq(w.arg, 1, n)
    OBVIOUS
  <2>6. /\ IsText(s) /\ Len(s) = n
        /\ \A k \in 1 .. n : s[k] = w.arg[k]
    <3>1. \A k \in 1 .. n : w.arg[k] \in ToSet(w.arg)
      <4>1. \A k \in 1 .. n : k \in 1 .. l
        BY <2>4
      <4> QED
        BY <2>1, <2>2, <4>1, ElementOfSeq DEF IsText
    <3>2. 1 \in Int /\ n \in Int /\ n - 1 + 1 = n
          /\ \A k \in 1 .. n : 1 + k - 1 = k
      BY <2>4
    <3>3. /\ s \in Seq(ToSet(w.arg))
          /\ Len(s) = IF 1 <= n THEN n - 1 + 1 ELSE 0
          /\ \A k \in 1 .. n - 1 + 1 : s[k] = w.arg[1 + k - 1]
      BY <2>5, <3>1, <3>2, SubSeqProperties
    <3>4. Len(s) = n
      BY <2>4, <3>3
    <3> QED
      BY <3>2, <3>3, <3>4, SeqText
  <2>7. n = l => s = w.arg
    BY <2>1, <2>2, <2>6, SameText
  <2>8. Convert(d, w.arg) = Justify(d, s)
    <3>1. ConvertString(d, w.arg) = Justify(d, s)
      <4>1. w.precision < 0 \/ l <= w.precision => s = w.arg
        BY <2>3, <2>7
      <4>2. ~(w.precision < 0 \/ l <= w.precision) =>
                s = SubSeq(w.arg, 1, w.precision)
        BY <2>3, <2>5
      <4> QED
        BY <1>1, <1>2, <2>2, <4>1, <4>2, Zenon DEF ConvertString
    <3> QED
      BY <1>1, <1>2, <1>5, <3>1 DEF Convert
  <2>9. PICK text : text = Justify(d, s)
    OBVIOUS
  <2>10. \A k \in 1 .. Len(s) : s[k] # BLANK
    BY <2>1, <2>2, <2>4, <2>6
  <2>11. /\ Trimmed(text) = s
         /\ Len(text) = Maximum(w.width, Len(s))
         /\ s # <<>> => IF "-" \in w.flags THEN ~Blank(text[1])
                        ELSE ~Blank(text[Len(text)])
    BY <1>1, <1>2, <2>6, <2>9, <2>10, Justified
  <2>12. IsPrefix(s, w.arg)
    <3>1. Len(s) <= Len(w.arg)
      BY <2>2, <2>4, <2>6
    <3>2. SubSeq(s, 1, Len(s)) = s
      BY <2>6, SubSeqFull DEF IsText
    <3> QED
      BY <2>5, <2>6, <3>1, <3>2 DEF IsPrefix
  <2>13. /\ w.precision < 0 => s = w.arg
         /\ w.precision >= 0 => s = w.arg \/ Len(s) = w.precision
    BY <1>1, <2>3, <2>6, <2>7
  <2>14. StringReadsBack(text, w)
    BY <2>11, <2>12, <2>13, Zenon DEF StringReadsBack
  <2>15. DirectiveReadsBack(text, w)
    BY <1>5, <2>11, <2>14 DEF DirectiveReadsBack
  <2> QED
    BY <1>2, <2>8, <2>9, <2>15
<1> QED
  BY <1>4, <1>5

\* What vsprintf() makes of an argument reads back as what the directive asks
\* for: of every word its value, with the sign, prefix and case asked for and
\* without zeros or blanks nobody asked for; of every string as much as the
\* precision lets through; on the right side of a field that is never too
\* short.  So number()'s divisions, its negation of the least word, and the
\* order in which it spends the width on sign, prefix, zeros and blanks are
\* right for every combination of flags.
THEOREM ConvertReadsBack ==
    ASSUME NEW w, IsWant(w)
    PROVE  DirectiveReadsBack(Convert(Asked(w), w.arg), w)
<1>1. w.conv \in DOMAIN Base \/ w.conv \in {"s", "c"}
  BY DEF IsWant
<1> QED
  BY <1>1, NumberReads, TextReads

----------------------------------------------------------------------------
\* How a format asks for the directive w: a "%" at at, its flags, from a on
\* the digits of its width, from b on those of its precision, and at e the
\* conversion.  A width cannot begin with the flag "0".
Spells(format, at, a, b, e, w) ==
    /\ at < a /\ a <= b /\ b <= e /\ e <= Len(format)
    /\ format[at] = "%"
    /\ w.flags = {format[k] : k \in at + 1 .. a - 1}
    /\ \A k \in a .. b - 1 : is_digit(format[k])
    /\ a < b => format[a] # "0"
    /\ w.width = IF a = b THEN -1 ELSE skip_atoi(SubSeq(format, a, b - 1))
    /\ IF b = e THEN w.precision = -1
       ELSE /\ format[b] = "."
            /\ \A k \in b + 1 .. e - 1 : is_digit(format[k])
            /\ w.precision = skip_atoi(SubSeq(format, b + 1, e - 1))
    /\ format[e] = w.conv

\* The characters of a directive are told apart.
Letters == {"c", "s"} \cup DOMAIN Base
Special == {"%", "n", "*", "h", "l", "L", COMMA, NUL}

LEMMA DigitsAre ==
    ToSet(Numerals) = {"0", "1", "2", "3", "4", "5", "6", "7", "8", "9"}
<1>1. large \in Seq(Chars) /\ Len(large) = 16
  BY DEF large, Chars
<1>2. \A k \in 1 .. 10 : large[k] \in Chars
  BY DEF large, Chars
<1>3. /\ Len(Numerals) = 10 /\ DOMAIN Numerals = 1 .. 10
      /\ \A k \in 1 .. 10 : Numerals[k] = large[k]
  <2>1. PICK l : l = large
    OBVIOUS
  <2>2. /\ SubSeq(l, 1, 10) \in Seq(Chars) /\ Len(SubSeq(l, 1, 10)) = 10
        /\ \A k \in 1 .. 10 : SubSeq(l, 1, 10)[k] = l[k]
    BY <1>1, <1>2, <2>1, SubSeqProperties
  <2> QED
    BY <2>1, <2>2 DEF Numerals
<1>4. ToSet(Numerals) = {large[k] : k \in 1 .. 10}
  BY <1>3 DEF ToSet
<1>5. 1 .. 10 = {1, 2, 3, 4, 5, 6, 7, 8, 9, 10}
  OBVIOUS
<1>6. /\ large[1] = "0" /\ large[2] = "1" /\ large[3] = "2"
      /\ large[4] = "3" /\ large[5] = "4" /\ large[6] = "5"
      /\ large[7] = "6" /\ large[8] = "7" /\ large[9] = "8"
      /\ large[10] = "9"
  BY DEF large
<1> QED
  BY <1>4, <1>5, <1>6

LEMMA LettersAre ==
    /\ \A x \in Letters \cup {"."} :
          /\ x \notin DOMAIN Flag /\ x \notin ToSet(Numerals)
          /\ x \notin Special
    /\ "." \notin Letters
    /\ \A x \in ToSet(Numerals) : /\ x # "0" => x \notin DOMAIN Flag
                                 /\ x \notin Special /\ x # "."
<1>1. Letters = {"c", "s", "o", "p", "x", "X", "d", "i", "u", "b"}
  BY DEF Letters, Base
<1>2. \A x \in Letters \cup {"."} : x # BLANK /\ x # COMMA /\ x # NUL
  BY <1>1, Zenon DEF BLANK, COMMA, NUL
<1>3. \A x \in ToSet(Numerals) : x # BLANK /\ x # COMMA /\ x # NUL
  BY DigitsAre, Zenon DEF BLANK, COMMA, NUL
<1>4. \A x \in Letters \cup {"."} :
         x \notin DOMAIN Flag /\ x \notin ToSet(Numerals) /\ x \notin Special
  BY <1>1, <1>2, DigitsAre, FlagIs DEF Special
<1>5. "." \notin Letters
  BY <1>1
<1>6. \A x \in ToSet(Numerals) :
         (x # "0" => x \notin DOMAIN Flag) /\ x \notin Special /\ x # "."
  BY <1>3, DigitsAre, FlagIs DEF Special
<1> QED
  BY <1>4, <1>5, <1>6

LEMMA PastIs ==
    ASSUME NEW format, Len(format) \in Nat, NEW from \in Nat, NEW S,
           NEW j \in from .. Len(format) + 1, Char(format, j) \notin S,
           \A k \in from .. j - 1 : format[k] \in S
    PROVE  Past(format, from, S) = j
<1> DEFINE P(l) == /\ Char(format, l) \notin S
                   /\ \A k \in from .. l - 1 : format[k] \in S
<1>1. P(j)
  OBVIOUS
<1>2. ASSUME NEW l \in from .. Len(format) + 1, P(l)
      PROVE  l = j
  <2>1. ASSUME l < j PROVE FALSE
    <3>1. l \in from .. j - 1 /\ l <= Len(format)
      BY <2>1
    <3> QED
      BY <1>2, <3>1 DEF Char
  <2>2. ASSUME j < l PROVE FALSE
    <3>1. j \in from .. l - 1 /\ j <= Len(format)
      BY <2>2
    <3> QED
      BY <1>2, <3>1 DEF Char
  <2> QED
    BY <2>1, <2>2
<1>3. Past(format, from, S) = CHOOSE l \in from .. Len(format) + 1 : P(l)
  BY DEF Past
<1> HIDE DEF P
<1> QED
  BY <1>1, <1>2, <1>3

\* vsprintf() takes the directive apart as it was put together.
Understood(d, w, next, args) ==
    /\ d.flags = {Flag[f] : f \in w.flags}
    /\ d.field_width = w.width /\ d.precision = w.precision
    /\ d.conv = w.conv /\ d.next = next /\ d.args = args

LEMMA DirectiveIs ==
    ASSUME NEW format, Len(format) \in Nat, NEW at \in Nat \ {0},
           NEW a \in Nat, NEW b \in Nat, NEW e \in Nat, NEW w,
           w.flags \subseteq DOMAIN Flag, w.conv \in Letters,
           Spells(format, at, a, b, e, w), NEW args
    PROVE  Understood(Directive(format, at, args), w, e + 1, args)
<1>1. /\ at < a /\ a <= b /\ b <= e /\ e <= Len(format)
      /\ w.flags = {format[k] : k \in at + 1 .. a - 1}
      /\ \A k \in a .. b - 1 : format[k] \in ToSet(Numerals)
      /\ a < b => format[a] # "0"
      /\ a = b => w.width = -1
      /\ a # b => w.width = skip_atoi(SubSeq(format, a, b - 1))
      /\ b = e => w.precision = -1
      /\ b # e => /\ format[b] = "."
                  /\ \A k \in b + 1 .. e - 1 : format[k] \in ToSet(Numerals)
                  /\ w.precision = skip_atoi(SubSeq(format, b + 1, e - 1))
      /\ format[e] = w.conv
  BY DEF Spells, is_digit
<1>2. /\ Char(format, a) = format[a] /\ Char(format, b) = format[b]
      /\ Char(format, e) = format[e]
  BY <1>1 DEF Char
<1>3. format[b] \in Letters \cup {"."} /\ (format[b] = "." <=> b # e)
  BY <1>1, LettersAre
<1>4. format[a] \notin DOMAIN Flag /\ format[a] # "*"
  <2>1. CASE a = b
    BY <1>3, <2>1, LettersAre DEF Special
  <2>2. CASE a # b
    <3>1. a \in a .. b - 1 /\ a < b
      BY <1>1, <2>2
    <3> QED
      BY <1>1, <3>1, LettersAre DEF Special
  <2> QED
    BY <2>1, <2>2
<1>5. Past(format, at + 1, DOMAIN Flag) = a
  <2>1. PICK from, S : from = at + 1 /\ S = DOMAIN Flag
    OBVIOUS
  <2>2. a \in from .. Len(format) + 1 /\ from \in Nat
    BY <1>1, <2>1
  <2>3. \A k \in from .. a - 1 : format[k] \in S
    BY <1>1, <2>1
  <2>4. Char(format, a) \notin S
    BY <1>2, <1>4, <2>1
  <2> QED
    BY <2>1, <2>2, <2>3, <2>4, PastIs
<1>6. Past(format, a, ToSet(Numerals)) = b
  <2>1. b \in a .. Len(format) + 1
    BY <1>1
  <2>2. format[b] \notin ToSet(Numerals)
    BY <1>3, LettersAre
  <2> QED
    BY <1>1, <1>2, <2>1, <2>2, PastIs
<1>7. b # e => Past(format, b + 1, ToSet(Numerals)) = e
  <2>1. b # e => e \in b + 1 .. Len(format) + 1 /\ b + 1 \in Nat
    BY <1>1
  <2>2. format[e] \notin ToSet(Numerals)
    BY <1>1, LettersAre
  <2> QED
    BY <1>1, <1>2, <2>1, <2>2, PastIs
<1>8. format[e] \notin {"h", "l", "L"} /\ format[e] # "*"
  BY <1>1, LettersAre DEF Special
<1>9. {Flag[format[k]] : k \in at + 1 .. a - 1} = {Flag[f] : f \in w.flags}
  BY <1>1
<1>10. PICK F : F = {Flag[f] : f \in w.flags}
  OBVIOUS
<1>11. F \cup {} = F
  OBVIOUS
<1> QED
  BY <1>1, <1>2, <1>3, <1>4, <1>5, <1>6, <1>7, <1>8, <1>9, <1>10, <1>11
     DEF Directive, Understood

----------------------------------------------------------------------------
\* Nothing vsprintf() makes of a number is a comma or a NUL, nor of a text
\* that has none.
Clean(s) ==
    IsText(s) /\ \A k \in 1 .. Len(s) : s[k] # COMMA /\ s[k] # NUL
IsPlain(w) ==
    /\ w.conv = "s" => Clean(w.arg)
    /\ w.conv = "c" => w.arg # COMMA /\ w.arg # NUL

LEMMA CharsClean ==
    ASSUME NEW c \in Chars \cup {"x", "X", "-", "+", BLANK}
    PROVE  c # COMMA /\ c # NUL
<1>1. BLANK # COMMA /\ BLANK # NUL
  BY Zenon DEF BLANK, COMMA, NUL
<1>2. ASSUME c # BLANK PROVE c # COMMA /\ c # NUL
  <2>1. c \in Chars \cup {"x", "X", "-", "+"}
    BY <1>2
  <2> QED
    BY <2>1, Zenon DEF Chars, COMMA, NUL
<1> QED
  BY <1>1, <1>2

LEMMA CleanJoined ==
    ASSUME NEW s, NEW t, Clean(s), Clean(t)
    PROVE  Clean(s \o t)
<1>1. PICK m, n, u : m = Len(s) /\ n = Len(t) /\ u = s \o t
  OBVIOUS
<1>2. /\ m \in Nat /\ n \in Nat /\ IsText(u) /\ Len(u) = m + n
      /\ \A k \in 1 .. m : u[k] = s[k]
      /\ \A k \in 1 .. n : u[m + k] = t[k]
  BY <1>1, TextFacts, Joined DEF Clean
<1>3. ASSUME NEW k \in 1 .. m + n PROVE u[k] # COMMA /\ u[k] # NUL
  <2>1. CASE k \in 1 .. m
    BY <1>1, <1>2, <2>1 DEF Clean
  <2>2. CASE k \notin 1 .. m
    <3>1. k - m \in 1 .. n /\ m + (k - m) = k
      BY <1>2, <2>2
    <3>2. u[m + (k - m)] = t[k - m]
      BY <1>2, <3>1
    <3> QED
      BY <1>1, <3>1, <3>2 DEF Clean
  <2> QED
    BY <2>1, <2>2
<1> QED
  BY <1>1, <1>2, <1>3 DEF Clean

LEMMA CleanFill ==
    ASSUME NEW n \in Int, NEW c \in {"0", BLANK}
    PROVE  Clean(Fill(n, c))
<1>1. c # COMMA /\ c # NUL
  BY CharsClean DEF Chars
<1> QED
  BY <1>1, Filling DEF Clean

LEMMA CleanHead ==
    ASSUME NEW num, NEW type, NEW base \in Bases
    PROVE  Clean(Sign(num, type) \o Prefix(base, type))
<1>1. PICK s, p : s = Sign(num, type) /\ p = Prefix(base, type)
  OBVIOUS
<1>2. Clean(s)
  <2>1. /\ IsText(s) /\ Len(s) \in 0 .. 1
        /\ Len(s) = 1 => s[1] \in {"-", "+", BLANK}
    BY <1>1, SignFacts
  <2>2. \A k \in 1 .. Len(s) : Len(s) = 1 /\ k = 1
    <3>1. PICK l \in 0 .. 1 : l = Len(s)
      BY <2>1
    <3>2. \A k \in 1 .. l : l = 1 /\ k = 1
      OBVIOUS
    <3> QED
      BY <3>1, <3>2
  <2> QED
    BY <2>1, <2>2, CharsClean DEF Clean
<1>3. Clean(p)
  <2>1. /\ IsText(p) /\ Len(p) \in 0 .. 2
        /\ Len(p) >= 1 => p[1] = "0"
        /\ Len(p) = 2 => p[2] \in {"x", "X"}
    BY <1>1, PrefixFacts
  <2>2. \A k \in 1 .. Len(p) :
           (k = 1 /\ Len(p) >= 1) \/ (k = 2 /\ Len(p) = 2)
    <3>1. PICK l \in 0 .. 2 : l = Len(p)
      BY <2>1
    <3>2. \A k \in 1 .. l : (k = 1 /\ l >= 1) \/ (k = 2 /\ l = 2)
      OBVIOUS
    <3> QED
      BY <3>1, <3>2
  <2>3. \A k \in 1 .. Len(p) : p[k] \in {"0", "x", "X"}
    BY <2>1, <2>2
  <2>4. "0" \in Chars
    BY DEF Chars
  <2> QED
    BY <2>1, <2>3, <2>4, CharsClean DEF Clean
<1> QED
  BY <1>1, <1>2, <1>3, CleanJoined

LEMMA CleanNumber ==
    ASSUME NEW num, NEW n \in Nat, NEW base \in Bases, NEW size \in Int,
           NEW precision \in Int, NEW type,
           n = IF Minus(num, type) THEN Negated(num) ELSE num
    PROVE  Clean(number(num, base, size, precision, type))
<1>1. PICK figures : figures = Figures(n, base, Digits(type))
  OBVIOUS
<1>2. Clean(figures)
  <2>1. IsAlphabet(Digits(type))
    BY Alphabets DEF Digits
  <2>2. FiguresOf(figures, n, base, Digits(type))
    BY <1>1, <2>1, FiguresRead
  <2>3. IsText(figures) /\ \A k \in 1 .. Len(figures) : figures[k] \in Chars
    BY <2>2 DEF FiguresOf
  <2> QED
    BY <2>3, CharsClean DEF Clean
<1>3. PICK head : head = Sign(num, type) \o Prefix(base, type)
  OBVIOUS
<1>4. PICK body : body = Fill(precision - Len(figures), "0") \o figures
  OBVIOUS
<1>5. Clean(head)
  BY <1>3, CleanHead
<1>6. Clean(body)
  <2>1. precision - Len(figures) \in Int
    BY <1>2, TextFacts DEF Clean
  <2>2. Clean(Fill(precision - Len(figures), "0"))
    BY <2>1, CleanFill
  <2> QED
    BY <1>2, <1>4, <2>2, CleanJoined
<1>7. PICK rest : rest = size - Len(head) - Len(body)
  OBVIOUS
<1>8. rest \in Int
  BY <1>5, <1>6, <1>7, TextFacts DEF Clean
<1>9. PICK Z, B : Z = Fill(rest, "0") /\ B = Fill(rest, BLANK)
  OBVIOUS
<1>10. Clean(Z) /\ Clean(B)
  BY <1>8, <1>9, CleanFill
<1>11. /\ Clean((head \o body) \o B) /\ Clean((head \o Z) \o body)
       /\ Clean((B \o head) \o body)
  BY <1>5, <1>6, <1>10, CleanJoined
<1>12. number(num, base, size, precision, type) =
           IF "LEFT" \in type THEN (head \o body) \o B
           ELSE IF "ZEROPAD" \in type THEN (head \o Z) \o body
           ELSE (B \o head) \o body
  BY <1>1, <1>3, <1>4, <1>7, <1>9 DEF number
<1> QED
  BY <1>11, <1>12

LEMMA CleanJustified ==
    ASSUME NEW s, Clean(s), NEW d, d.field_width \in Int
    PROVE  Clean(Justify(d, s))
<1>1. PICK m, B : m = d.field_width - Len(s) /\ B = Fill(m, BLANK)
  OBVIOUS
<1>2. m \in Int
  BY <1>1, TextFacts DEF Clean
<1>3. Clean(B)
  BY <1>1, <1>2, CleanFill
<1>4. Clean(s \o B) /\ Clean(B \o s)
  BY <1>3, CleanJoined
<1> QED
  BY <1>1, <1>4 DEF Justify

LEMMA CleanConverted ==
    ASSUME NEW w, IsWant(w), IsPlain(w)
    PROVE  Clean(Convert(Asked(w), w.arg))
<1>1. PICK d : d = Asked(w)
  OBVIOUS
<1>2. /\ d.conv = w.conv /\ d.field_width = w.width
      /\ d.precision = w.precision
      /\ w.width \in Int /\ w.precision \in Int
  BY <1>1 DEF Asked, IsWant
<1>3. CASE w.conv \in DOMAIN Base /\ w.arg \in Word
  <2>1. PICK num, base, size, type :
            /\ num = w.arg /\ base = Base[w.conv]
            /\ size = (IF d.conv = "p" /\ d.field_width = -1 THEN 8
                       ELSE d.field_width)
            /\ type = d.flags \cup (CASE d.conv = "x" -> {"SMALL"}
                  [] d.conv \in {"d", "i"} -> {"SIGN"}
                  [] d.conv = "p" /\ d.field_width = -1 -> {"ZEROPAD"}
                  [] OTHER -> {})
    OBVIOUS
  <2>2. /\ base \in Bases /\ size \in Int
        /\ w.conv # "s" /\ w.conv # "c"
    BY <1>2, <1>3, <2>1, Conversions
  <2>3. PICK n : n = IF Minus(num, type) THEN Negated(num) ELSE num
    OBVIOUS
  <2>4. n \in Nat
    <3>1. num \in Nat /\ num \in Word
      BY <1>3, <2>1, WordFacts DEF Word
    <3>2. Minus(num, type) => Negated(num) \in Nat
      BY <3>1, NegatedIs DEF Minus
    <3> QED
      BY <2>3, <3>1, <3>2
  <2>5. Convert(d, num) = number(num, base, size, d.precision, type)
    <3>1. Convert(d, num) = ConvertNumber(d, num)
      BY <1>2, <2>2 DEF Convert
    <3> QED
      BY <1>2, <2>1, <3>1 DEF ConvertNumber
  <2> QED
    BY <1>1, <1>2, <2>1, <2>2, <2>3, <2>4, <2>5, CleanNumber
<1>4. CASE w.conv = "c"
  <2>1. Clean(<<w.arg>>)
    <3>1. PICK s : s = <<w.arg>>
      OBVIOUS
    <3>2. IsText(s) /\ Len(s) = 1 /\ s[1] = w.arg
      BY <3>1, OneText
    <3>3. w.arg # COMMA /\ w.arg # NUL
      BY <1>4 DEF IsPlain
    <3>4. \A k \in 1 .. 1 : k = 1
      OBVIOUS
    <3> QED
      BY <3>1, <3>2, <3>3, <3>4 DEF Clean
  <2> QED
    BY <1>1, <1>2, <1>4, <2>1, CleanJustified DEF Convert
<1>5. CASE w.conv = "s"
  <2>1. PICK s : s = w.arg
    OBVIOUS
  <2>2. Clean(s)
    BY <1>5, <2>1 DEF IsPlain
  <2>3. PICK l, p : l = Len(s) /\ p = d.precision
    OBVIOUS
  <2>4. CASE p < 0 \/ l <= p
    BY <1>1, <1>2, <1>5, <2>1, <2>2, <2>3, <2>4, CleanJustified
       DEF Convert, ConvertString
  <2>5. CASE ~(p < 0 \/ l <= p)
    <3>1. PICK t : t = SubSeq(s, 1, p)
      OBVIOUS
    <3>2. l \in Nat /\ p \in 0 .. l
      BY <1>2, <2>2, <2>3, <2>5, TextFacts DEF Clean
    <3>3. \A k \in 1 .. p : s[k] \in ToSet(s) /\ k \in 1 .. l
      <4>1. \A k \in 1 .. p : k \in 1 .. l
        BY <3>2
      <4> QED
        BY <2>2, <2>3, <4>1, ElementOfSeq DEF Clean, IsText
    <3>4. 1 \in Int /\ p \in Int /\ p - 1 + 1 = p
          /\ \A k \in 1 .. p : 1 + k - 1 = k
      BY <3>2
    <3>5. /\ t \in Seq(ToSet(s))
          /\ Len(t) = IF 1 <= p THEN p - 1 + 1 ELSE 0
          /\ \A k \in 1 .. p - 1 + 1 : t[k] = s[1 + k - 1]
      BY <3>1, <3>3, <3>4, SubSeqProperties
    <3>6. Len(t) = p
      BY <3>2, <3>5
    <3>7. Clean(t)
      BY <2>2, <2>3, <3>3, <3>4, <3>5, <3>6, SeqText DEF Clean
    <3>8. ConvertString(d, s) = Justify(d, t)
      BY <2>3, <2>5, <3>1 DEF ConvertString
    <3> QED
      BY <1>1, <1>2, <1>5, <2>1, <3>7, <3>8, CleanJustified DEF Convert
  <2> QED
    BY <2>4, <2>5
<1> QED
  BY <1>3, <1>4, <1>5 DEF IsWant

\* Only what a directive asks for matters to its conversion.
LEMMA ConvertSame ==
    ASSUME NEW d, NEW e, d.conv = e.conv, d.flags = e.flags,
           d.field_width = e.field_width, d.precision = e.precision, NEW arg
    PROVE  Convert(d, arg) = Convert(e, arg)
<1>1. ConvertNumber(d, arg) = ConvertNumber(e, arg)
  BY DEF ConvertNumber
<1>2. \A s : Justify(d, s) = Justify(e, s)
  BY DEF Justify
<1>3. ConvertString(d, arg) = ConvertString(e, arg)
  BY <1>2 DEF ConvertString
<1> QED
  BY <1>1, <1>2, <1>3 DEF Convert

----------------------------------------------------------------------------
\* A text that has the parts of the first j directives, each with a comma or
\* the text's end behind it: at ends[k] is that of the k-th.
Cut(text, ends, j, want) ==
    /\ IsText(text) /\ ends \in [0 .. j -> Nat] /\ ends[0] = 0
    /\ ends[j] <= Len(text) + 1
    /\ \A k \in 0 .. j - 1 : ends[k] <= Len(text)
    /\ \A k \in 1 .. j :
          /\ ends[k - 1] < ends[k]
          /\ DirectiveReadsBack(SubSeq(text, ends[k - 1] + 1, ends[k] - 1),
                                want[k])
    /\ \A m \in 1 .. Len(text) :
          /\ text[m] = COMMA <=> \E k \in 1 .. j : ends[k] = m
          /\ text[m] # NUL

LEMMA SameParts ==
    ASSUME NEW s, NEW t, IsText(s), IsText(t), Len(s) <= Len(t),
           \A k \in 1 .. Len(s) : t[k] = s[k],
           NEW l \in Nat \ {0}, NEW h \in Int, h <= Len(s)
    PROVE  SubSeq(t, l, h) = SubSeq(s, l, h)
<1>1. Len(s) \in Nat /\ Len(t) \in Nat
  BY TextFacts
<1>2. \A k \in l .. h : k \in 1 .. Len(s) /\ k \in 1 .. Len(t)
  BY <1>1
<1>3. /\ \A k \in l .. h : s[k] \in ToSet(s)
      /\ \A k \in l .. h : t[k] \in ToSet(t)
  BY <1>2, ElementOfSeq DEF IsText
<1>4. PICK u, v : u = SubSeq(s, l, h) /\ v = SubSeq(t, l, h)
  OBVIOUS
<1>5. PICK n : n = IF l <= h THEN h - l + 1 ELSE 0
  OBVIOUS
<1>6. /\ u \in Seq(ToSet(s)) /\ Len(u) = n
      /\ \A k \in 1 .. h - l + 1 : u[k] = s[l + k - 1]
  BY <1>3, <1>4, <1>5, SubSeqProperties
<1>7. /\ v \in Seq(ToSet(t)) /\ Len(v) = n
      /\ \A k \in 1 .. h - l + 1 : v[k] = t[l + k - 1]
  BY <1>3, <1>4, <1>5, SubSeqProperties
<1>8. \A k \in 1 .. n : u[k] = v[k]
  <2> SUFFICES ASSUME NEW k \in 1 .. n PROVE u[k] = v[k]
    OBVIOUS
  <2>1. k \in 1 .. h - l + 1 /\ l + k - 1 \in l .. h
    BY <1>5
  <2> QED
    BY <1>2, <1>6, <1>7, <2>1
<1> QED
  BY <1>4, <1>6, <1>7, <1>8, SeqText, SameText

LEMMA CutNone ==
    ASSUME NEW want
    PROVE  \E ends : Cut(<<>>, ends, 0, want) /\ ends[0] = 0
<1>1. PICK t : t = <<>>
  OBVIOUS
<1>2. IsText(t) /\ Len(t) = 0 /\ 1 .. 0 = {} /\ 0 .. 0 - 1 = {}
  BY <1>1, NoText
<1>3. PICK ends : ends = [k \in 0 .. 0 |-> 0]
  OBVIOUS
<1>4. ends \in [0 .. 0 -> Nat] /\ ends[0] = 0
  BY <1>3
<1>5. Cut(t, ends, 0, want)
  BY <1>2, <1>4 DEF Cut
<1> QED
  BY <1>1, <1>4, <1>5

\* A directive puts the next part behind the last comma.
LEMMA CutPart ==
    ASSUME NEW text, NEW ends, NEW j \in Nat, NEW want,
           Cut(text, ends, j, want), ends[j] = Len(text),
           NEW part, Clean(part), DirectiveReadsBack(part, want[j + 1])
    PROVE  \E more : /\ Cut(text \o part, more, j + 1, want)
                     /\ more[j + 1] = Len(text \o part) + 1
<1> DEFINE whole == text \o part
<1>1. PICK l, n : l = Len(text) /\ n = Len(part)
  OBVIOUS
<1>2. /\ l \in Nat /\ n \in Nat /\ IsText(text) /\ IsText(part)
      /\ IsText(whole) /\ Len(whole) = l + n
      /\ \A k \in 1 .. l : whole[k] = text[k]
      /\ \A k \in 1 .. n : whole[l + k] = part[k]
  BY <1>1, TextFacts, Joined DEF Clean, Cut
<1> HIDE DEF whole
<1>3. PICK more :
          more = [k \in 0 .. j + 1 |-> IF k = j + 1 THEN (l + n) + 1
                                      ELSE ends[k]]
  OBVIOUS
<1>4. /\ ends \in [0 .. j -> Nat] /\ ends[0] = 0 /\ ends[j] = l
      /\ \A k \in 0 .. j - 1 : ends[k] <= l
      /\ \A k \in 1 .. j : ends[k - 1] < ends[k]
  BY <1>1 DEF Cut
<1>5. /\ more[j + 1] = (l + n) + 1
      /\ \A k \in 0 .. j : more[k] = ends[k]
      /\ more \in [0 .. j + 1 -> Nat] /\ more[0] = 0
  <2>1. \A k \in 0 .. j : k \in 0 .. j + 1 /\ k # j + 1
    OBVIOUS
  <2>2. j + 1 \in 0 .. j + 1 /\ 0 \in 0 .. j /\ (l + n) + 1 \in Nat
    BY <1>2
  <2>3. \A k \in 0 .. j + 1 : k # j + 1 => k \in 0 .. j
    OBVIOUS
  <2> QED
    BY <1>3, <1>4, <2>1, <2>2, <2>3
<1>6. \A k \in 0 .. j : ends[k] <= l /\ ends[k] \in Nat
  <2>1. \A k \in 0 .. j : k = j \/ k \in 0 .. j - 1
    OBVIOUS
  <2> QED
    BY <1>2, <1>4, <2>1
<1>7. \A k \in 0 .. (j + 1) - 1 : more[k] <= l + n
  <2> SUFFICES ASSUME NEW k \in 0 .. (j + 1) - 1 PROVE more[k] <= l + n
    OBVIOUS
  <2>1. k \in 0 .. j
    OBVIOUS
  <2>2. PICK x \in Nat : x = ends[k] /\ x <= l
    BY <1>6, <2>1
  <2> QED
    BY <1>2, <1>5, <2>1, <2>2
<1>8. ASSUME NEW k \in 1 .. j + 1
      PROVE  /\ more[k - 1] < more[k]
             /\ DirectiveReadsBack(
                    SubSeq(whole, more[k - 1] + 1, more[k] - 1), want[k])
  <2>1. CASE k = j + 1
    <3>1. k - 1 = j /\ j \in 0 .. j
      BY <2>1
    <3>2. more[k - 1] = l /\ more[k] = (l + n) + 1 /\ more[k] - 1 = l + n
      BY <1>2, <1>4, <1>5, <2>1, <3>1
    <3>3. Headed(whole, text, part)
      BY <1>1, <1>2 DEF Headed
    <3>4. SubSeq(whole, l + 1, l + n) = part
      BY <1>1, <1>2, <3>3, HeadedDrop
    <3>5. l < (l + n) + 1
      BY <1>2
    <3>6. DirectiveReadsBack(SubSeq(whole, l + 1, l + n), want[k])
      BY <2>1, <3>4
    <3> QED
      BY <3>2, <3>5, <3>6
  <2>2. CASE k # j + 1
    <3>1. k \in 1 .. j /\ k - 1 \in 0 .. j /\ k \in 0 .. j
      BY <2>2
    <3>2. more[k - 1] = ends[k - 1] /\ more[k] = ends[k]
      BY <1>5, <3>1
    <3>3. PICK f, h : f = ends[k - 1] + 1 /\ h = ends[k] - 1
      OBVIOUS
    <3>4. f \in Nat \ {0} /\ h \in Int /\ h <= l /\ l <= l + n
      <4>1. /\ ends[k - 1] \in Nat
            /\ ends[k] \in Nat /\ ends[k] <= l
        BY <1>6, <3>1
      <4>2. PICK x \in Nat : x = ends[k - 1]
        BY <4>1
      <4>3. PICK y \in Nat : y = ends[k]
        BY <4>1
      <4>4. f = x + 1 /\ h = y - 1 /\ y <= l
        BY <3>3, <4>1, <4>2, <4>3
      <4>5. l \in Nat /\ n \in Nat
        BY <1>2
      <4>6. l <= l + n
        BY <4>5
      <4>7. f \in Nat \ {0}
        BY <4>2, <4>4
      <4>8. h \in Int /\ h <= l
        BY <4>3, <4>4, <4>5
      <4> QED
        BY <4>6, <4>7, <4>8
    <3>5. SubSeq(whole, f, h) = SubSeq(text, f, h)
      BY <1>1, <1>2, <3>4, SameParts
    <3>6. DirectiveReadsBack(SubSeq(text, f, h), want[k])
      BY <3>1, <3>3 DEF Cut
    <3> QED
      BY <1>4, <3>1, <3>2, <3>3, <3>5, <3>6
  <2> QED
    BY <2>1, <2>2
<1>9. ASSUME NEW m \in 1 .. l + n
      PROVE  /\ whole[m] = COMMA <=> \E k \in 1 .. j + 1 : more[k] = m
             /\ whole[m] # NUL
  <2>1. \A k \in 1 .. j + 1 : more[k] = m => k \in 1 .. j
    BY <1>2, <1>5
  <2>2. \A k \in 1 .. j : k \in 1 .. j + 1 /\ more[k] = ends[k]
                          /\ ends[k] <= l
    <3>1. \A k \in 1 .. j : k \in 1 .. j + 1 /\ k \in 0 .. j
      OBVIOUS
    <3> QED
      BY <1>5, <1>6, <3>1
  <2>3. (\E k \in 1 .. j + 1 : more[k] = m)
            <=> (\E k \in 1 .. j : ends[k] = m)
    BY <2>1, <2>2
  <2>4. CASE m \in 1 .. l
    <3>1. whole[m] = text[m]
      BY <1>2, <2>4
    <3>2. /\ text[m] = COMMA <=> \E k \in 1 .. j : ends[k] = m
          /\ text[m] # NUL
      BY <1>1, <2>4 DEF Cut
    <3> QED
      BY <2>3, <3>1, <3>2
  <2>5. CASE m \notin 1 .. l
    <3>1. m - l \in 1 .. n /\ l + (m - l) = m /\ ~(m <= l)
      BY <1>2, <2>5
    <3>2. whole[l + (m - l)] = part[m - l]
      BY <1>2, <3>1
    <3>3. whole[m] # COMMA /\ whole[m] # NUL
      BY <1>1, <3>1, <3>2 DEF Clean
    <3> QED
      BY <2>2, <2>3, <3>1, <3>3
  <2> QED
    BY <2>4, <2>5
<1>10. Cut(whole, more, j + 1, want)
  <2>1. more[j + 1] <= (l + n) + 1
    BY <1>2, <1>5
  <2> QED
    BY <1>2, <1>5, <1>7, <1>8, <1>9, <2>1 DEF Cut
<1> QED
  BY <1>2, <1>5, <1>10 DEF whole

LEMMA Appended ==
    ASSUME NEW s, IsText(s), NEW c
    PROVE  /\ IsText(Append(s, c)) /\ Len(Append(s, c)) = Len(s) + 1
           /\ Append(s, c)[Len(s) + 1] = c
           /\ \A k \in 1 .. Len(s) : Append(s, c)[k] = s[k]
<1> DEFINE t == Append(s, c)
<1>1. PICK S : S = ToSet(s) \cup {c}
  OBVIOUS
<1>2. s \in Seq(S) /\ c \in S
  <2>1. s \in Seq(ToSet(s)) /\ ToSet(s) \subseteq S /\ c \in S
    BY <1>1 DEF IsText
  <2> QED
    BY <2>1, SeqMonotonic
<1>3. PICK n \in Nat : n = Len(s)
  BY TextFacts
<1>4. /\ t \in Seq(S) /\ Len(t) = n + 1
      /\ \A k \in 1 .. n : t[k] = s[k]
      /\ t[n + 1] = c
  BY <1>2, <1>3, AppendProperties
<1> QED
  BY <1>3, <1>4, SeqText

\* The comma behind it is copied from the format.
LEMMA CutComma ==
    ASSUME NEW text, NEW ends, NEW j \in Nat \ {0}, NEW want,
           Cut(text, ends, j, want), ends[j] = Len(text) + 1,
           NEW whole, whole = Append(text, COMMA)
    PROVE  Cut(whole, ends, j, want) /\ ends[j] = Len(whole)
<1>1. PICK l : l = Len(text)
  OBVIOUS
<1>2. /\ l \in Nat /\ IsText(text) /\ IsText(whole) /\ Len(whole) = l + 1
      /\ \A k \in 1 .. l : whole[k] = text[k]
      /\ whole[l + 1] = COMMA
  <2>1. IsText(text)
    BY DEF Cut
  <2>2. /\ IsText(whole) /\ Len(whole) = Len(text) + 1
        /\ whole[Len(text) + 1] = COMMA
        /\ \A k \in 1 .. Len(text) : whole[k] = text[k]
    BY <2>1, Appended
  <2> QED
    BY <1>1, <2>1, <2>2, TextFacts
<1>3. /\ ends \in [0 .. j -> Nat] /\ ends[0] = 0 /\ ends[j] = l + 1
      /\ \A k \in 0 .. j - 1 : ends[k] <= l
      /\ \A k \in 1 .. j : ends[k - 1] < ends[k]
  BY <1>1 DEF Cut
<1>4. \A k \in 0 .. j : ends[k] <= l + 1 /\ ends[k] \in Nat
  <2>1. \A k \in 0 .. j : k = j \/ k \in 0 .. j - 1
    OBVIOUS
  <2> QED
    BY <1>2, <1>3, <2>1
<1>5. ASSUME NEW k \in 1 .. j
      PROVE  DirectiveReadsBack(
                 SubSeq(whole, ends[k - 1] + 1, ends[k] - 1), want[k])
  <2>1. PICK f, h : f = ends[k - 1] + 1 /\ h = ends[k] - 1
    OBVIOUS
  <2>2. k - 1 \in 0 .. j /\ k \in 0 .. j
    OBVIOUS
  <2>3. f \in Nat \ {0} /\ h \in Int /\ h <= l /\ l <= l + 1
    BY <1>2, <1>4, <2>1, <2>2
  <2>4. SubSeq(whole, f, h) = SubSeq(text, f, h)
    BY <1>1, <1>2, <2>3, SameParts
  <2>5. DirectiveReadsBack(SubSeq(text, f, h), want[k])
    BY <2>1 DEF Cut
  <2> QED
    BY <2>1, <2>4, <2>5
<1>6. ASSUME NEW m \in 1 .. l + 1
      PROVE  /\ whole[m] = COMMA <=> \E k \in 1 .. j : ends[k] = m
             /\ whole[m] # NUL
  <2>1. CASE m \in 1 .. l
    <3>1. whole[m] = text[m]
      BY <1>2, <2>1
    <3> QED
      BY <1>1, <2>1, <3>1 DEF Cut
  <2>2. CASE m \notin 1 .. l
    <3>1. m = l + 1 /\ j \in 1 .. j
      BY <1>2, <2>2
    <3>2. COMMA # NUL
      BY Zenon DEF COMMA, NUL
    <3> QED
      BY <1>2, <1>3, <3>1, <3>2
  <2> QED
    BY <2>1, <2>2
<1>7. /\ \A k \in 0 .. j - 1 : ends[k] <= l + 1
      /\ ends[j] <= (l + 1) + 1
  <2>1. \A k \in 0 .. j - 1 : k \in 0 .. j
    OBVIOUS
  <2> QED
    BY <1>2, <1>3, <1>4, <2>1
<1>8. Cut(whole, ends, j, want)
  BY <1>2, <1>3, <1>5, <1>6, <1>7 DEF Cut
<1> QED
  BY <1>2, <1>3, <1>8

\* With the last part the text is what was wanted.
LEMMA CutAll ==
    ASSUME NEW text, NEW ends, NEW n \in Nat \ {0}, NEW want, Len(want) = n,
           Cut(text, ends, n, want), ends[n] = Len(text) + 1
    PROVE  AsWanted(text, want)
<1>1. PICK l \in Nat : l = Len(text)
  BY TextFacts DEF Cut
<1>2. DOMAIN text = 1 .. l /\ IsText(text)
  BY <1>1, TextFacts DEF Cut
<1>3. /\ ends \in [0 .. n -> Nat] /\ ends[0] = 0 /\ ends[n] = l + 1
      /\ \A k \in 0 .. n - 1 : ends[k] <= l
      /\ \A k \in 1 .. n :
            /\ ends[k - 1] < ends[k]
            /\ DirectiveReadsBack(SubSeq(text, ends[k - 1] + 1, ends[k] - 1),
                                  want[k])
      /\ \A m \in 1 .. l : text[m] = COMMA <=> \E k \in 1 .. n : ends[k] = m
  BY <1>1 DEF Cut
<1>4. PICK C : C = Cuts(text)
  OBVIOUS
<1>5. C = {0, l + 1} \cup {k \in 1 .. l : text[k] = COMMA}
  BY <1>1, <1>2, <1>4 DEF Cuts
<1>6. ASSUME NEW k \in 0 .. n
      PROVE  ends[k] \in C
  <2>1. CASE k = 0 \/ k = n
    BY <1>3, <1>5, <2>1
  <2>2. CASE ~(k = 0 \/ k = n)
    <3>1. k \in 1 .. n /\ k \in 0 .. n - 1 /\ k - 1 \in 0 .. n
      BY <2>2
    <3>2. ends[k - 1] \in Nat /\ ends[k] \in Nat /\ ends[k - 1] < ends[k]
          /\ ends[k] <= l
      BY <1>3, <3>1
    <3>3. ends[k] \in 1 .. l
      BY <3>2
    <3>4. text[ends[k]] = COMMA
      BY <1>3, <3>1, <3>3
    <3> QED
      BY <1>5, <3>3, <3>4
  <2> QED
    BY <2>1, <2>2
<1>7. ends \in [0 .. n -> C] /\ DOMAIN ends = 0 .. n
  BY <1>3, <1>6
<1>8. ASSUME NEW k \in C
      PROVE  \E m \in 0 .. n : ends[m] = k
  <2>1. CASE k \in {0, l + 1}
    <3>1. 0 \in 0 .. n /\ n \in 0 .. n
      OBVIOUS
    <3> QED
      BY <1>3, <2>1, <3>1
  <2>2. CASE k \notin {0, l + 1}
    <3>1. k \in 1 .. l /\ text[k] = COMMA
      BY <1>5, <2>2
    <3>2. PICK m \in 1 .. n : ends[m] = k
      BY <1>3, <3>1
    <3>3. m \in 0 .. n
      OBVIOUS
    <3> QED
      BY <3>2, <3>3
  <2> QED
    BY <2>1, <2>2
<1>9. /\ ends \in [0 .. Len(want) -> Cuts(text)]
      /\ ends[0] = 0 /\ ends[Len(want)] = Len(text) + 1
      /\ \A k \in Cuts(text) : \E m \in DOMAIN ends : ends[m] = k
      /\ \A k \in 1 .. Len(want) :
            /\ ends[k - 1] < ends[k]
            /\ DirectiveReadsBack(SubSeq(text, ends[k - 1] + 1, ends[k] - 1),
                                  want[k])
  BY <1>1, <1>3, <1>4, <1>7, <1>8
<1> QED
  BY <1>9, Zenon DEF AsWanted

----------------------------------------------------------------------------
\* The call c asks for the directives of c.want, the j-th from at[j] on, with
\* a comma between two.
Spelled(c, at) ==
    /\ IsText(c.format) /\ IsText(c.args)
    /\ Len(c.want) \in Nat \ {0} /\ Len(c.args) = Len(c.want)
    /\ at \in [1 .. Len(c.want) + 1 -> Nat \ {0}]
    /\ at[1] = 1 /\ at[Len(c.want) + 1] = Len(c.format) + 2
    /\ \A j \in 1 .. Len(c.want) :
          /\ IsWant(c.want[j]) /\ IsPlain(c.want[j])
          /\ c.args[j] = c.want[j].arg
          /\ \E a, b \in Nat :
                Spells(c.format, at[j], a, b, at[j + 1] - 2, c.want[j])
          /\ j < Len(c.want) => c.format[at[j + 1] - 1] = COMMA

LEMMA Places ==
    ASSUME NEW c, NEW at, Spelled(c, at), NEW n, n = Len(c.want),
           NEW j \in 1 .. n
    PROVE  /\ Len(c.format) \in Nat /\ n \in Nat
           /\ at[j] \in Nat \ {0} /\ at[j + 1] \in Nat \ {0}
           /\ at[j] < at[j + 1] - 1 /\ at[j] <= Len(c.format)
           /\ at[j + 1] - 1 <= Len(c.format) + 1
           /\ j < n => at[j + 1] <= Len(c.format)
           /\ j = n => at[j + 1] - 1 = Len(c.format) + 1
<1>1. /\ Len(c.format) \in Nat /\ n \in Nat \ {0}
      /\ at \in [1 .. n + 1 -> Nat \ {0}] /\ at[n + 1] = Len(c.format) + 2
  BY TextFacts DEF Spelled
<1>2. ASSUME NEW k \in 1 .. n
      PROVE  /\ at[k] \in Nat \ {0} /\ at[k + 1] \in Nat \ {0}
             /\ at[k] < at[k + 1] - 2 /\ at[k + 1] - 2 <= Len(c.format)
  <2>1. at[k] \in Nat \ {0} /\ at[k + 1] \in Nat \ {0}
    <3>1. k \in 1 .. n + 1 /\ k + 1 \in 1 .. n + 1
      BY <1>1
    <3> QED
      BY <1>1, <3>1
  <2>2. PICK a, b \in Nat :
            Spells(c.format, at[k], a, b, at[k + 1] - 2, c.want[k])
    BY <1>2 DEF Spelled
  <2>3. /\ at[k] < a /\ a <= b /\ b <= at[k + 1] - 2
        /\ at[k + 1] - 2 <= Len(c.format)
    BY <2>2 DEF Spells
  <2>4. a \in Nat /\ b \in Nat
    BY <2>2
  <2> QED
    BY <2>1, <2>3, <2>4
<1>3. /\ at[j] \in Nat \ {0} /\ at[j + 1] \in Nat \ {0}
      /\ at[j] < at[j + 1] - 2 /\ at[j + 1] - 2 <= Len(c.format)
  BY <1>2
<1>4. j < n => at[j + 1] <= Len(c.format)
  <2> SUFFICES ASSUME j < n PROVE at[j + 1] <= Len(c.format)
    OBVIOUS
  <2>1. j + 1 \in 1 .. n
    BY <1>1
  <2>2. PICK k : k = j + 1
    OBVIOUS
  <2>3. /\ at[k] \in Nat \ {0} /\ at[k + 1] \in Nat \ {0}
        /\ at[k] < at[k + 1] - 2 /\ at[k + 1] - 2 <= Len(c.format)
    BY <1>2, <2>1, <2>2
  <2> QED
    BY <1>1, <2>2, <2>3
<1>5. j = n => at[j + 1] - 1 = Len(c.format) + 1
  BY <1>1, <1>3
<1> QED
  BY <1>1, <1>3, <1>4, <1>5

\* The state of vsprintf()'s loop, and the arguments from the j-th on.
State(at, args, str, n) ==
    [at |-> at, args |-> args, str |-> str, n |-> n]
Left(args, all, j) ==
    /\ IsText(args) /\ Len(args) = Len(all) + 1 - j
    /\ \A k \in 1 .. Len(args) : args[k] = all[(j - 1) + k]

\* It is at the j-th directive, or behind it.
Reached(s, c, at, j) ==
    /\ s = State(at[j], s.args, s.str, s.n)
    /\ Left(s.args, c.args, j)
    /\ \E ends : Cut(s.str, ends, j - 1, c.want) /\ ends[j - 1] = Len(s.str)
Passed(s, c, at, j) ==
    /\ s = State(at[j + 1] - 1, s.args, s.str, s.n)
    /\ Left(s.args, c.args, j + 1)
    /\ \E ends : Cut(s.str, ends, j, c.want) /\ ends[j] = Len(s.str) + 1

LEMMA LeftNext ==
    ASSUME NEW args, NEW all, NEW j \in Nat \ {0}, NEW n \in Nat,
           n = Len(all), j <= n, Left(args, all, j)
    PROVE  Head(args) = all[j] /\ Left(Tail(args), all, j + 1)
<1>1. PICK m : m = Len(args)
  OBVIOUS
<1>2. /\ m = n + 1 - j /\ m >= 1 /\ m \in Nat /\ (j - 1) + 1 = j
      /\ args \in Seq(ToSet(args)) /\ IsText(args)
      /\ \A k \in 1 .. m : args[k] = all[(j - 1) + k]
  BY <1>1 DEF Left, IsText
<1>3. args # <<>>
  <2>1. Len(args) # 0
    BY <1>1, <1>2
  <2> QED
    BY <2>1, NoText
<1>4. /\ Head(args) = args[1]
      /\ Tail(args) \in Seq(ToSet(args)) /\ Len(Tail(args)) = m - 1
      /\ \A k \in 1 .. m - 1 : Tail(args)[k] = args[k + 1]
  <2>1. PICK S : S = ToSet(args)
    OBVIOUS
  <2>2. args \in Seq(S)
    BY <1>2, <2>1
  <2>3. /\ Head(args) = args[1]
        /\ Tail(args) \in Seq(S) /\ Len(Tail(args)) = Len(args) - 1
        /\ \A k \in 1 .. Len(Tail(args)) : Tail(args)[k] = args[k + 1]
    BY <1>3, <2>2, HeadTailProperties
  <2>4. Len(Tail(args)) = m - 1
    BY <1>1, <2>3
  <2> QED
    BY <2>1, <2>3, <2>4
<1>5. Head(args) = all[j]
  <2>1. 1 \in 1 .. m
    BY <1>2
  <2> QED
    BY <1>2, <1>4, <2>1
<1>6. \A k \in 1 .. m - 1 : Tail(args)[k] = all[((j + 1) - 1) + k]
  <2> SUFFICES ASSUME NEW k \in 1 .. m - 1
               PROVE  Tail(args)[k] = all[((j + 1) - 1) + k]
    OBVIOUS
  <2>1. k + 1 \in 1 .. m /\ (j - 1) + (k + 1) = ((j + 1) - 1) + k
    BY <1>2
  <2>2. args[k + 1] = all[(j - 1) + (k + 1)]
    BY <1>2, <2>1
  <2> QED
    BY <1>4, <2>1, <2>2
<1>7. m - 1 = n + 1 - (j + 1)
  BY <1>2
<1> QED
  BY <1>4, <1>5, <1>6, <1>7, SeqText DEF Left

\* A directive is converted in one turn.
LEMMA TurnReached ==
    ASSUME NEW c, NEW at, Spelled(c, at), NEW n, n = Len(c.want),
           NEW j \in 1 .. n, NEW s, Reached(s, c, at, j)
    PROVE  Passed(Turn(c.format, s), c, at, j)
<1>1. /\ Len(c.format) \in Nat /\ n \in Nat
      /\ at[j] \in Nat \ {0} /\ at[j + 1] \in Nat \ {0}
      /\ at[j] < at[j + 1] - 1 /\ at[j] <= Len(c.format)
  BY Places
<1>2. PICK w : w = c.want[j]
  OBVIOUS
<1>3. /\ IsWant(w) /\ IsPlain(w) /\ c.args[j] = w.arg
      /\ Len(c.args) = n
      /\ \E a, b \in Nat : Spells(c.format, at[j], a, b, at[j + 1] - 2, w)
  BY <1>2 DEF Spelled
<1>4. PICK a \in Nat, b \in Nat :
          Spells(c.format, at[j], a, b, at[j + 1] - 2, w)
  BY <1>3
<1>5. PICK args, str, old :
          s = State(at[j], args, str, old) /\ args = s.args /\ str = s.str
  BY DEF Reached
<1>6. s.at = at[j] /\ s.args = args /\ s.str = str
  BY <1>5 DEF State
<1>7. PICK d : d = Directive(c.format, at[j], args)
  OBVIOUS
<1>8. w.flags \subseteq DOMAIN Flag /\ w.conv \in Letters
  BY <1>3 DEF IsWant, Letters
<1>9. PICK e \in Nat : e = at[j + 1] - 2
  <2>1. b <= at[j + 1] - 2 /\ b \in Nat
    BY <1>4 DEF Spells
  <2> QED
    BY <1>1, <2>1
<1>10. /\ d.flags = {Flag[f] : f \in w.flags}
       /\ d.field_width = w.width /\ d.precision = w.precision
       /\ d.conv = w.conv /\ d.next = e + 1 /\ d.args = args
  <2>1. PICK format, p : format = c.format /\ p = at[j]
    OBVIOUS
  <2>2. Spells(format, p, a, b, e, w)
    BY <1>4, <1>9, <2>1
  <2>3. Len(format) \in Nat /\ p \in Nat \ {0}
    BY <1>1, <2>1
  <2>4. Understood(Directive(format, p, args), w, e + 1, args)
    BY <1>8, <2>2, <2>3, DirectiveIs
  <2> QED
    BY <1>7, <2>1, <2>4 DEF Understood
<1>11. PICK part : part = Convert(Asked(w), w.arg)
  OBVIOUS
<1>12. Convert(d, w.arg) = part
  <2>1. /\ d.conv = Asked(w).conv /\ d.flags = Asked(w).flags
        /\ d.field_width = Asked(w).field_width
        /\ d.precision = Asked(w).precision
    BY <1>10 DEF Asked
  <2> QED
    BY <1>11, <2>1, ConvertSame
<1>13. Head(args) = w.arg /\ Left(Tail(args), c.args, j + 1)
  <2>1. Left(args, c.args, j)
    BY <1>6 DEF Reached
  <2>2. j \in Nat \ {0} /\ j <= n
    BY <1>1
  <2> QED
    BY <1>1, <1>3, <2>1, <2>2, LeftNext
<1>14. c.format[at[j]] = "%"
  BY <1>4 DEF Spells
<1>15. d.conv \in {"c", "s"} \cup DOMAIN Base /\ d.conv # "n"
  BY <1>8, <1>10, LettersAre DEF Letters, Special
<1>16. PICK t : t = Turn(c.format, s)
  OBVIOUS
<1>17. t = [s EXCEPT !.at = e + 1, !.args = Tail(args),
                     !.str = str \o part]
  <2>1. ~(s.at > Len(c.format)) /\ c.format[s.at] = "%"
    BY <1>1, <1>6, <1>14
  <2>2. d = Directive(c.format, s.at, s.args)
    BY <1>6, <1>7
  <2>3. t = [s EXCEPT !.at = d.next, !.args = Tail(d.args),
                      !.str = @ \o Convert(d, Head(d.args))]
    BY <1>15, <1>16, <2>1, <2>2 DEF Turn
  <2> QED
    BY <1>6, <1>10, <1>12, <1>13, <2>3
<1>18. t = State(at[j + 1] - 1, Tail(args), str \o part, old)
  <2>1. e + 1 = at[j + 1] - 1
    BY <1>1, <1>9
  <2> QED
    BY <1>5, <1>17, <2>1 DEF State
<1>19. /\ t = State(at[j + 1] - 1, t.args, t.str, t.n)
       /\ t.args = Tail(args) /\ t.str = str \o part
  BY <1>18 DEF State
<1>20. \E ends : Cut(t.str, ends, j, c.want) /\ ends[j] = Len(t.str) + 1
  <2>1. PICK i0 \in Nat : i0 = j - 1 /\ i0 + 1 = j
    BY <1>1
  <2>2. PICK ends : Cut(str, ends, i0, c.want) /\ ends[i0] = Len(str)
    BY <1>6, <2>1 DEF Reached
  <2>3. Clean(part)
    BY <1>3, <1>11, CleanConverted
  <2>4. DirectiveReadsBack(part, c.want[i0 + 1])
    BY <1>2, <1>3, <1>11, <2>1, ConvertReadsBack
  <2>5. PICK whole : whole = str \o part
    OBVIOUS
  <2>6. \E more : /\ Cut(whole, more, i0 + 1, c.want)
                  /\ more[i0 + 1] = Len(whole) + 1
    BY <2>2, <2>3, <2>4, <2>5, CutPart
  <2> QED
    BY <1>19, <2>1, <2>5, <2>6
<1> QED
  BY <1>13, <1>16, <1>19, <1>20 DEF Passed

\* Its comma is copied in the next.
LEMMA TurnPassed ==
    ASSUME NEW c, NEW at, Spelled(c, at), NEW n, n = Len(c.want),
           NEW j \in 1 .. n, j < n, NEW s, Passed(s, c, at, j)
    PROVE  Reached(Turn(c.format, s), c, at, j + 1)
<1>1. /\ Len(c.format) \in Nat /\ n \in Nat
      /\ at[j + 1] \in Nat \ {0} /\ at[j + 1] <= Len(c.format)
  BY Places
<1>2. c.format[at[j + 1] - 1] = COMMA
  BY DEF Spelled
<1>3. PICK args, str, old :
          /\ s = State(at[j + 1] - 1, args, str, old)
          /\ args = s.args /\ str = s.str
  BY DEF Passed
<1>4. s.at = at[j + 1] - 1
  BY <1>3 DEF State
<1>5. COMMA # "%"
  BY Zenon DEF COMMA
<1>6. PICK t : t = Turn(c.format, s)
  OBVIOUS
<1>7. t = [s EXCEPT !.at = @ + 1, !.str = Append(@, COMMA)]
  <2>1. ~(s.at > Len(c.format)) /\ c.format[s.at] = COMMA
    BY <1>1, <1>2, <1>4
  <2>2. c.format[s.at] # "%"
    BY <1>5, <2>1
  <2>3. t = [s EXCEPT !.at = @ + 1, !.str = Append(@, c.format[s.at])]
    BY <1>6, <2>1, <2>2 DEF Turn
  <2> QED
    BY <2>1, <2>3
<1>8. t = State(at[j + 1], args, Append(str, COMMA), old)
  <2>1. (at[j + 1] - 1) + 1 = at[j + 1]
    BY <1>1
  <2> QED
    BY <1>3, <1>4, <1>7, <2>1 DEF State
<1>9. /\ t = State(at[j + 1], t.args, t.str, t.n)
      /\ t.args = args /\ t.str = Append(str, COMMA)
  BY <1>8 DEF State
<1>10. Left(t.args, c.args, j + 1)
  BY <1>3, <1>9 DEF Passed
<1>11. \E ends : Cut(t.str, ends, (j + 1) - 1, c.want)
                 /\ ends[(j + 1) - 1] = Len(t.str)
  <2>1. (j + 1) - 1 = j /\ j \in Nat \ {0}
    BY <1>1
  <2>2. PICK ends : Cut(str, ends, j, c.want) /\ ends[j] = Len(str) + 1
    BY <1>3 DEF Passed
  <2>3. PICK whole : whole = Append(str, COMMA)
    OBVIOUS
  <2>4. Cut(whole, ends, j, c.want) /\ ends[j] = Len(whole)
    BY <2>1, <2>2, <2>3, CutComma
  <2> QED
    BY <1>9, <2>1, <2>3, <2>4
<1> QED
  BY <1>6, <1>9, <1>10, <1>11 DEF Reached

\* vsprintf() makes a turn for each character of its format; those after the
\* format's end change nothing.
Start(args) == State(1, args, <<>>, -1)
Turning(f, k, format, args) ==
    IF k = 0 THEN Start(args) ELSE Turn(format, f[k - 1])
Turns(f, n, format, args) ==
    f = [k \in 0 .. n |-> Turning(f, k, format, args)]

LEMMA TurnsFacts ==
    ASSUME NEW n, NEW format, NEW args, NEW f, Turns(f, n, format, args)
    PROVE  \A k \in 0 .. n : f[k] = Turning(f, k, format, args)
<1> DEFINE g(k) == Turning(f, k, format, args)
<1>1. f = [k \in 0 .. n |-> g(k)]
  BY DEF Turns
<1> HIDE DEF g
<1>2. \A k \in 0 .. n : f[k] = g(k)
  BY <1>1
<1> QED
  BY <1>2 DEF g

LEMMA TurnsSome ==
    ASSUME NEW n \in Nat, NEW format, NEW args
    PROVE  \E f : Turns(f, n, format, args)
<1> DEFINE T == {m \in Nat : ~ \E f : Turns(f, m, format, args)}
<1> SUFFICES ASSUME T # {} PROVE FALSE
  OBVIOUS
<1>1. PICK m \in T : \A k \in T : m <= k
  <2>1. T \subseteq Nat
    OBVIOUS
  <2> HIDE DEF T
  <2> QED
    BY <2>1, Least
<1>2. m \in Nat
  OBVIOUS
<1>3. PICK h : m > 0 => Turns(h, m - 1, format, args)
  <2>1. CASE m > 0
    <3>1. m - 1 \in Nat /\ ~(m <= m - 1)
      BY <1>2, <2>1
    <3>2. m - 1 \notin T
      <4> HIDE DEF T
      <4> QED
        BY <1>1, <3>1
    <3> QED
      BY <3>1, <3>2
  <2> QED
    BY <2>1
<1> DEFINE last == Turning(h, m, format, args)
           f == [k \in 0 .. m |-> IF k = m THEN last ELSE h[k]]
           g(k) == Turning(f, k, format, args)
<1>4. \A j \in 0 .. m - 1 : h[j] = Turning(h, j, format, args)
  <2>1. CASE m > 0
    BY <1>3, <2>1, TurnsFacts
  <2>2. CASE ~(m > 0)
    <3>1. 0 .. m - 1 = {}
      BY <1>2, <2>2
    <3> QED
      BY <3>1
  <2> QED
    BY <2>1, <2>2
<1>5. /\ f[m] = last /\ \A j \in 0 .. m - 1 : f[j] = h[j]
      /\ f = [j \in 0 .. m |-> f[j]]
  <2> HIDE DEF last
  <2> QED
    BY <1>2
<1> HIDE DEF f, T
<1>6. ASSUME NEW j \in 0 .. m
      PROVE  f[j] = g(j)
  <2>1. Turning(f, j, format, args) = Turning(h, j, format, args)
    <3>1. CASE j = 0
      BY <3>1, Zenon DEF Turning
    <3>2. CASE j # 0
      <4>1. j - 1 \in 0 .. m - 1
        BY <1>2, <3>2
      <4>2. f[j - 1] = h[j - 1]
        BY <1>5, <4>1
      <4> QED
        BY <4>2, Zenon DEF Turning
    <3> QED
      BY <3>1, <3>2
  <2>2. f[j] = Turning(h, j, format, args)
    <3>1. CASE j = m
      BY <1>5, <3>1
    <3>2. CASE j # m
      <4>1. j \in 0 .. m - 1
        BY <1>2, <3>2
      <4> QED
        BY <1>4, <1>5, <4>1
    <3> QED
      BY <3>1, <3>2
  <2> QED
    BY <2>1, <2>2
<1>7. f = [j \in 0 .. m |-> g(j)]
  <2> HIDE DEF g
  <2> QED
    BY <1>5, <1>6
<1>8. Turns(f, m, format, args)
  BY <1>7 DEF Turns
<1> QED
  BY <1>1, <1>8 DEF T

LEMMA TurnsAre ==
    ASSUME NEW format, NEW n \in Nat, n = Len(format), NEW args
    PROVE  \E f : /\ vsprintf(format, args) = f[n]
                  /\ \A k \in 0 .. n : f[k] = Turning(f, k, format, args)
<1> DEFINE body(f) == [k \in 0 .. n |-> Turning(f, k, format, args)]
<1>1. PICK f : f = CHOOSE g : g = body(g)
  OBVIOUS
<1>2. vsprintf(format, args) = f[n]
  BY <1>1, Zenon DEF vsprintf, Turning, Start, State
<1>3. \E g : g = body(g)
  <2>1. PICK h : Turns(h, n, format, args)
    BY TurnsSome
  <2>2. h = body(h)
    BY <2>1 DEF Turns
  <2> HIDE DEF body
  <2> QED
    BY <2>2
<1>4. f = body(f)
  <2> HIDE DEF body
  <2> QED
    BY <1>1, <1>3
<1>5. Turns(f, n, format, args)
  BY <1>4 DEF Turns
<1> QED
  BY <1>2, <1>5, TurnsFacts

LEMMA WhereItIs ==
    ASSUME NEW s, NEW c, NEW at, NEW j
    PROVE  /\ Reached(s, c, at, j) => s.at = at[j]
           /\ Passed(s, c, at, j) => s.at = at[j + 1] - 1
<1>1. \A x, y, z, n : State(x, y, z, n).at = x
  BY DEF State
<1>2. Reached(s, c, at, j) => s.at = at[j]
  <2> SUFFICES ASSUME Reached(s, c, at, j) PROVE s.at = at[j]
    OBVIOUS
  <2>1. PICK x, y, z, n : s = State(x, y, z, n) /\ x = at[j]
    BY DEF Reached
  <2> QED
    BY <1>1, <2>1
<1>3. Passed(s, c, at, j) => s.at = at[j + 1] - 1
  <2> SUFFICES ASSUME Passed(s, c, at, j) PROVE s.at = at[j + 1] - 1
    OBVIOUS
  <2>1. PICK x, y, z, n : s = State(x, y, z, n) /\ x = at[j + 1] - 1
    BY DEF Passed
  <2> QED
    BY <1>1, <2>1
<1> QED
  BY <1>2, <1>3

\* After k turns it is behind the format's k-th character.
AtWork(s, c, at, k) ==
    /\ s.at > k
    /\ \E j \in 1 .. Len(c.want) : Reached(s, c, at, j) \/ Passed(s, c, at, j)

LEMMA OneTurn ==
    ASSUME NEW c, NEW at, Spelled(c, at), NEW k \in Nat, k < Len(c.format),
           NEW s, AtWork(s, c, at, k)
    PROVE  AtWork(Turn(c.format, s), c, at, k + 1)
<1>1. PICK n : n = Len(c.want)
  OBVIOUS
<1>2. PICK t : t = Turn(c.format, s)
  OBVIOUS
<1>3. PICK l \in Nat : l = Len(c.format)
  BY TextFacts DEF Spelled
<1>4. n \in Nat \ {0}
  BY <1>1 DEF Spelled
<1>5. PICK j \in 1 .. n : Reached(s, c, at, j) \/ Passed(s, c, at, j)
  BY <1>1 DEF AtWork
<1>6. PICK p, q \in Nat : /\ p = at[j] /\ q = at[j + 1]
                          /\ p < q - 1 /\ p <= l /\ q - 1 <= l + 1
                          /\ j = n => q - 1 = l + 1
  <2>1. /\ at[j] \in Nat \ {0} /\ at[j + 1] \in Nat \ {0}
        /\ at[j] < at[j + 1] - 1 /\ at[j] <= l
        /\ at[j + 1] - 1 <= l + 1
        /\ j = n => at[j + 1] - 1 = l + 1
    BY <1>1, <1>3, Places
  <2> QED
    BY <2>1
<1>10. s.at > k
  BY DEF AtWork
<1>7. CASE Reached(s, c, at, j)
  <2>1. Passed(t, c, at, j)
    BY <1>1, <1>2, <1>7, TurnReached
  <2>2. s.at = p /\ t.at = q - 1
    <3>1. s.at = at[j] /\ t.at = at[j + 1] - 1
      BY <1>7, <2>1, WhereItIs
    <3> QED
      BY <1>6, <3>1
  <2>3. q - 1 > k + 1
    BY <1>6, <1>10, <2>2
  <2> QED
    BY <1>1, <1>2, <2>1, <2>2, <2>3 DEF AtWork
<1>8. CASE Passed(s, c, at, j) /\ j < n
  <2>1. Reached(t, c, at, j + 1)
    BY <1>1, <1>2, <1>8, TurnPassed
  <2>2. s.at = q - 1 /\ t.at = q
    <3>1. s.at = at[j + 1] - 1 /\ t.at = at[j + 1]
      BY <1>8, <2>1, WhereItIs
    <3> QED
      BY <1>6, <3>1
  <2>3. q > k + 1
    BY <1>6, <1>10, <2>2
  <2>4. j + 1 \in 1 .. n
    BY <1>4, <1>8
  <2> QED
    BY <1>1, <1>2, <2>1, <2>2, <2>3, <2>4 DEF AtWork
<1>9. CASE Passed(s, c, at, j) /\ ~(j < n)
  <2>1. j = n
    BY <1>4, <1>9
  <2>2. s.at = l + 1
    <3>1. s.at = at[j + 1] - 1
      BY <1>9, WhereItIs
    <3> QED
      BY <1>6, <2>1, <3>1
  <2>3. t = s
    BY <1>2, <1>3, <2>2 DEF Turn
  <2>4. l + 1 > k + 1
    BY <1>3
  <2> QED
    BY <1>1, <1>2, <1>5, <2>2, <2>3, <2>4 DEF AtWork
<1> QED
  BY <1>5, <1>7, <1>8, <1>9

\* Of a format that asks for the directives of want with commas between them,
\* vsprintf() makes what is wanted: it takes every directive apart as it was
\* put together, with the flags in any order, the width and the precision of
\* any number of digits or left out, gives each its own argument, and puts the
\* texts one behind the other.
THEOREM FormatReadsBack ==
    ASSUME NEW c, NEW at, Spelled(c, at)
    PROVE  LET text == vsprintf(c.format, c.args).str
           IN  /\ AsWanted(text, c.want) /\ IsText(text)
               /\ \A m \in 1 .. Len(text) : text[m] # NUL
<1>1. PICK l \in Nat : l = Len(c.format)
  BY TextFacts DEF Spelled
<1>2. PICK n \in Nat \ {0} : n = Len(c.want)
  BY DEF Spelled
<1>3. PICK f : /\ vsprintf(c.format, c.args) = f[l]
               /\ \A k \in 0 .. l : f[k] = Turning(f, k, c.format, c.args)
  BY <1>1, TurnsAre
<1>4. AtWork(f[0], c, at, 0)
  <2>1. PICK s : s = f[0]
    OBVIOUS
  <2>2. s = State(1, c.args, <<>>, -1)
    <3>1. 0 \in 0 .. l
      OBVIOUS
    <3> QED
      BY <1>3, <2>1, <3>1 DEF Turning, Start
  <2>3. /\ s.at = 1 /\ s.args = c.args /\ s.str = <<>>
        /\ s = State(1, s.args, s.str, s.n)
    BY <2>2 DEF State
  <2>4. Left(c.args, c.args, 1)
    <3>1. PICK m \in Nat : m = Len(c.args)
      BY TextFacts DEF Spelled
    <3>2. /\ m = m + 1 - 1 /\ 1 - 1 = 0
          /\ \A k \in 1 .. m : 0 + k = k
      OBVIOUS
    <3>3. \A k \in 1 .. m : c.args[k] = c.args[(1 - 1) + k]
      BY <3>2
    <3>4. IsText(c.args)
      BY DEF Spelled
    <3> QED
      BY <3>1, <3>2, <3>3, <3>4 DEF Left
  <2>5. PICK ends : Cut(<<>>, ends, 0, c.want) /\ ends[0] = 0
    BY CutNone
  <2>6. Reached(s, c, at, 1)
    <3>1. at[1] = 1 /\ 1 - 1 = 0
      BY DEF Spelled
    <3>2. Len(s.str) = 0
      BY <2>3, NoText
    <3>3. \E e : Cut(s.str, e, 1 - 1, c.want) /\ e[1 - 1] = Len(s.str)
      BY <2>3, <2>5, <3>1, <3>2
    <3> QED
      BY <2>3, <2>4, <3>1, <3>3 DEF Reached
  <2>7. 1 \in 1 .. n /\ 1 > 0
    OBVIOUS
  <2> QED
    BY <1>2, <2>1, <2>3, <2>6, <2>7 DEF AtWork
<1>5. AtWork(f[l], c, at, l)
  <2> DEFINE T == {k \in 0 .. l : ~AtWork(f[k], c, at, k)}
  <2> SUFFICES ASSUME T # {} PROVE FALSE
    OBVIOUS
  <2>1. PICK k \in T : \A m \in T : k <= m
    <3>1. T \subseteq Nat
      OBVIOUS
    <3> HIDE DEF T
    <3> QED
      BY <3>1, Least
  <2>2. k \in 0 .. l /\ ~AtWork(f[k], c, at, k)
    OBVIOUS
  <2>3. k # 0
    BY <1>4, <2>2
  <2>4. PICK h \in Nat : h = k - 1 /\ h + 1 = k /\ h < l /\ h \in 0 .. l
    BY <2>2, <2>3
  <2>5. AtWork(f[h], c, at, h)
    <3>1. ~(k <= h)
      BY <2>2, <2>4
    <3>2. h \notin T
      <4> HIDE DEF T
      <4> QED
        BY <2>1, <3>1
    <3> QED
      BY <2>4, <3>2
  <2>6. AtWork(Turn(c.format, f[h]), c, at, h + 1)
    BY <1>1, <2>4, <2>5, OneTurn
  <2>7. f[k] = Turn(c.format, f[h])
    BY <1>3, <2>2, <2>3, <2>4 DEF Turning
  <2> QED
    BY <2>2, <2>4, <2>6, <2>7
<1>6. PICK s : s = f[l]
  OBVIOUS
<1>7. PICK j \in 1 .. n : Reached(s, c, at, j) \/ Passed(s, c, at, j)
  BY <1>2, <1>5, <1>6 DEF AtWork
<1>8. s.at > l
  BY <1>5, <1>6 DEF AtWork
<1>9. PICK p, q \in Nat : /\ p = at[j] /\ q = at[j + 1]
                          /\ p <= l
                          /\ j < n => q <= l
  <2>1. /\ at[j] \in Nat \ {0} /\ at[j + 1] \in Nat \ {0}
        /\ at[j] <= l
        /\ j < n => at[j + 1] <= l
    BY <1>1, <1>2, Places
  <2> QED
    BY <2>1
<1>10. Passed(s, c, at, j) /\ j = n
  <2>1. ~Reached(s, c, at, j)
    <3> SUFFICES ASSUME Reached(s, c, at, j) PROVE FALSE
      OBVIOUS
    <3>1. s.at = p
      <4>1. s.at = at[j]
        BY WhereItIs
      <4> QED
        BY <1>9, <4>1
    <3> QED
      BY <1>8, <1>9, <3>1
  <2>2. s.at = q - 1
    <3>1. s.at = at[j + 1] - 1
      BY <1>7, <2>1, WhereItIs
    <3> QED
      BY <1>9, <3>1
  <2>3. ~(j < n)
    BY <1>8, <1>9, <2>2
  <2> QED
    BY <1>7, <2>1, <2>3
<1>11. PICK ends : Cut(s.str, ends, n, c.want) /\ ends[n] = Len(s.str) + 1
  BY <1>10 DEF Passed
<1>12. PICK text : text = s.str
  OBVIOUS
<1>13. AsWanted(text, c.want)
  BY <1>2, <1>11, <1>12, CutAll
<1>14. IsText(text) /\ \A m \in 1 .. Len(text) : text[m] # NUL
  BY <1>11, <1>12 DEF Cut
<1> QED
  BY <1>3, <1>6, <1>12, <1>13, <1>14

----------------------------------------------------------------------------
\* What the operators of Printk are for, once more: a call that is to be read
\* back has a format that asks for what is wanted.
TextOf(c) == vsprintf(c.format, c.args).str
CallsAreSpelled ==
    \A t \in Threads, k \in Nat : \A c \in Calls(t, k) :
        c.want # <<>> => \E at : Spelled(c, at)

\* A thread whose buffer no other call has changed has its whole text there,
\* has printed the beginning of it that it has read, and no other's NUL is
\* still to come.
Beginning(text, n) == [j \in 1 .. n |-> text[j]]
Undisturbed(t, text) ==
    /\ i[t] = Len(text)
    /\ buff[call[t].fn][Len(text) + 1] = NUL
    /\ \A j \in 1 .. Len(text) : buff[call[t].fn][j] = text[j]
    /\ \A u \in Threads \ {t} :
           call[u].fn = call[t].fn => pc[u] # "terminate"
    /\ pc[t] = "terminate" => out[t] = <<>>
    /\ pc[t] = "write" => /\ pos[t] <= Len(text) + 1
                          /\ out[t] = Beginning(text, pos[t] - 1)
AloneInv ==
    /\ AloneType
    /\ out = [t \in Threads |-> out[t]]
    /\ \A t \in Threads : pc[t] # "user" =>
           /\ \E k \in Nat : call[t] \in Calls(t, k)
           /\ alone[t] => Undisturbed(t, TextOf(call[t]))

LEMMA BeginningGrows ==
    ASSUME NEW text, NEW n \in Nat
    PROVE  Append(Beginning(text, n), text[n + 1]) = Beginning(text, n + 1)
<1> DEFINE S == {text[j] : j \in 1 .. n + 1}
<1>1. Beginning(text, n) \in Seq(S) /\ Len(Beginning(text, n)) = n
  BY DEF Beginning
<1>2. text[n + 1] \in S
  OBVIOUS
<1> HIDE DEF S
<1>3. PICK s \in Seq(S) : s = Beginning(text, n)
  BY <1>1
<1>4. /\ Append(s, text[n + 1]) \in Seq(S)
      /\ Len(Append(s, text[n + 1])) = n + 1
      /\ \A j \in 1 .. n + 1 :
             Append(s, text[n + 1])[j] = IF j <= n THEN s[j] ELSE text[n + 1]
  BY <1>1, <1>2, <1>3
<1>5. \A j \in 1 .. n + 1 : Append(s, text[n + 1])[j] = text[j]
  BY <1>3, <1>4 DEF Beginning
<1> QED
  BY <1>3, <1>4, <1>5 DEF Beginning

\* A call that comes while no NUL is outstanding has the buffer for itself;
\* any other with the same buffer ends that for those before.
LEMMA PrintkAlone ==
    ASSUME CallsAreTexts, PrintkInv, AloneInv, NEW t \in Threads,
           pc[t] = "user",
           NEW c \in Calls(t, made[t] + 1), printk(t, c)
    PROVE  AloneInv'
<1>1. PICK text : text = TextOf(c)
  OBVIOUS
<1>2. PICK n : n = Len(text)
  OBVIOUS
<1>3. c.fn \in Fn /\ n \in 0 .. SIZE - 1 /\ SIZE \in Nat /\ made[t] + 1 \in Nat
  <2>1. made[t] + 1 \in Nat
    BY DEF PrintkInv, CallType
  <2>2. c.fn \in Fn /\ n \in Nat
    BY <1>1, <1>2, <2>1 DEF CallsAreTexts, TextOf
  <2>3. n < SIZE
    BY <1>1, <1>2 DEF printk, Fits, TextOf
  <2> QED
    BY <2>1, <2>2, <2>3, PrintkAssumption
<1>4. /\ buff' = [buff EXCEPT ![c.fn] = Filled(@, text)]
      /\ i' = [i EXCEPT ![t] = n]
      /\ call' = [call EXCEPT ![t] = c]
      /\ pc' = [pc EXCEPT ![t] = "terminate"]
      /\ out' = [out EXCEPT ![t] = <<>>]
      /\ pos' = pos
  BY <1>1, <1>2 DEF printk, TextOf
<1>5. alone' = [u \in Threads |->
                  IF u # t THEN alone[u] /\ call[u].fn # c.fn
                  ELSE \A v \in Threads \ {t} :
                          call[v].fn = c.fn => pc[v] # "terminate"]
  BY DEF printk
<1>6. AloneType' /\ out' = [u \in Threads |-> out'[u]]
  BY <1>4, StepAlone DEF AloneInv, Next
<1>7. /\ call'[t] = c /\ pc'[t] = "terminate" /\ i'[t] = n
      /\ out'[t] = <<>>
      /\ \A u \in Threads \ {t} :
             /\ call'[u] = call[u] /\ pc'[u] = pc[u] /\ i'[u] = i[u]
             /\ out'[u] = out[u] /\ pos'[u] = pos[u]
  BY <1>4 DEF PrintkInv, PlaceType, CallType, AloneInv
<1>8. ASSUME alone'[t]
      PROVE  Undisturbed(t, text)'
  <2>1. \A v \in Threads \ {t} : call[v].fn = c.fn => pc[v] # "terminate"
    BY <1>5, <1>8
  <2>2. buff'[c.fn] = Filled(buff[c.fn], text)
    BY <1>3, <1>4 DEF PrintkInv, PlaceType
  <2>3. /\ buff'[c.fn][n + 1] = NUL
        /\ \A j \in 1 .. n : buff'[c.fn][j] = text[j]
    <3>1. \A k \in 1 .. SIZE :
              buff'[c.fn][k] = IF k <= n THEN text[k]
                               ELSE IF k = n + 1 THEN NUL ELSE buff[c.fn][k]
      BY <1>2, <2>2 DEF Filled
    <3>2. n + 1 \in 1 .. SIZE /\ ~(n + 1 <= n)
          /\ \A j \in 1 .. n : j \in 1 .. SIZE /\ j <= n
      BY <1>3
    <3> QED
      BY <3>1, <3>2
  <2> QED
    BY <1>2, <1>7, <2>1, <2>3 DEF Undisturbed
<1>9. ASSUME NEW u \in Threads \ {t}, pc[u] # "user", alone'[u]
      PROVE  Undisturbed(u, TextOf(call[u]))'
  <2>1. alone[u] /\ call[u].fn # c.fn
    BY <1>5, <1>9
  <2>2. Undisturbed(u, TextOf(call[u]))
    BY <1>9, <2>1 DEF AloneInv
  <2>3. buff'[call[u].fn] = buff[call[u].fn]
    BY <1>4, <2>1 DEF PrintkInv, PlaceType, CallType
  <2>4. TextOf(call'[u]) = TextOf(call[u])
    BY <1>7
  <2>5. \A v \in Threads \ {u} :
            call'[v].fn = call[u].fn => pc'[v] # "terminate"
    BY <1>7, <2>1, <2>2 DEF Undisturbed
  <2> QED
    BY <1>7, <2>2, <2>3, <2>4, <2>5 DEF Undisturbed
<1>10. ASSUME NEW u \in Threads, pc'[u] # "user"
       PROVE  /\ \E k \in Nat : call'[u] \in Calls(u, k)
              /\ alone'[u] => Undisturbed(u, TextOf(call[u]))'
  <2>1. CASE u = t
    <3>1. TextOf(call[u])' = text
      BY <1>1, <1>7, <2>1
    <3> QED
      BY <1>3, <1>7, <1>8, <2>1, <3>1 DEF Undisturbed
  <2>2. CASE u # t
    BY <1>7, <1>9, <1>10, <2>2 DEF AloneInv
  <2> QED
    BY <2>1, <2>2
<1> QED
  BY <1>6, <1>10 DEF AloneInv

\* The length of an undisturbed thread's text, and where the thread is in it.
LEMMA AloneFacts ==
    ASSUME PrintkInv, AloneInv, NEW u \in Threads, pc[u] # "user", alone[u],
           NEW text, text = TextOf(call[u])
    PROVE  /\ Undisturbed(u, text)
           /\ Len(text) \in 0 .. SIZE - 1 /\ i[u] = Len(text)
           /\ pos[u] \in 1 .. SIZE /\ SIZE \in Nat /\ call[u].fn \in Fn
<1>1. Undisturbed(u, text)
  BY DEF AloneInv
<1>2. i[u] = Len(text)
  BY <1>1 DEF Undisturbed
<1> QED
  BY <1>1, <1>2, PrintkAssumption DEF PrintkInv, PlaceType, CallType

\* The NUL that printk() writes itself is the one that is there already.
LEMMA TerminateAlone ==
    ASSUME PrintkInv, AloneInv, NEW t \in Threads, Terminate(t)
    PROVE  AloneInv'
<1>1. /\ buff' = [buff EXCEPT ![call[t].fn][i[t] + 1] = NUL]
      /\ pos' = [pos EXCEPT ![t] = 1]
      /\ pc' = [pc EXCEPT ![t] = "write"]
      /\ pc[t] = "terminate"
      /\ UNCHANGED <<call, i, out, alone>>
  BY DEF Terminate
<1>2. /\ pc'[t] = "write" /\ pos'[t] = 1
      /\ \A u \in Threads \ {t} : pc'[u] = pc[u] /\ pos'[u] = pos[u]
  BY <1>1 DEF PrintkInv, PlaceType
<1>3. ASSUME NEW f \in Fn, NEW k \in 1 .. SIZE
      PROVE  buff'[f][k] = IF f = call[t].fn /\ k = i[t] + 1 THEN NUL
                           ELSE buff[f][k]
  <2>1. i[t] + 1 \in 1 .. SIZE /\ call[t].fn \in Fn
    BY PrintkAssumption DEF PrintkInv, PlaceType, CallType
  <2> QED
    BY <1>1, <2>1 DEF PrintkInv, PlaceType
<1>4. ASSUME NEW u \in Threads, pc'[u] # "user", alone[u]
      PROVE  Undisturbed(u, TextOf(call[u]))'
  <2>1. pc[u] # "user"
    BY <1>1, <1>2, <1>4
  <2>2. PICK text : text = TextOf(call[u])
    OBVIOUS
  <2>3. PICK n : n = Len(text)
    OBVIOUS
  <2>4. /\ Undisturbed(u, text)
        /\ n \in 0 .. SIZE - 1 /\ i[u] = n
        /\ pos[u] \in 1 .. SIZE /\ SIZE \in Nat /\ call[u].fn \in Fn
    BY <1>4, <2>1, <2>2, <2>3, AloneFacts
  <2>5. /\ n + 1 \in 1 .. SIZE /\ \A j \in 1 .. n : j \in 1 .. SIZE
        /\ \A j \in 1 .. n : j # n + 1
    BY <2>4
  <2>6. /\ buff'[call[u].fn][n + 1] = NUL
        /\ \A j \in 1 .. n : buff'[call[u].fn][j] = text[j]
    <3>1. /\ buff[call[u].fn][n + 1] = NUL
          /\ \A j \in 1 .. n : buff[call[u].fn][j] = text[j]
      BY <2>3, <2>4 DEF Undisturbed
    <3>2. CASE u = t
      BY <1>3, <2>4, <2>5, <3>1, <3>2
    <3>3. CASE u # t
      <4>1. call[u].fn # call[t].fn
        BY <1>1, <2>4, <3>3 DEF Undisturbed
      <4> QED
        BY <1>3, <2>4, <2>5, <3>1, <4>1
    <3> QED
      BY <3>2, <3>3
  <2>7. \A v \in Threads \ {u} :
            call[v].fn = call[u].fn => pc'[v] # "terminate"
    BY <1>2, <2>4 DEF Undisturbed
  <2>8. pc'[u] = "terminate" => out[u] = <<>>
    BY <1>2, <2>4 DEF Undisturbed
  <2>9. pc'[u] = "write" => /\ pos'[u] <= n + 1
                           /\ out[u] = Beginning(text, pos'[u] - 1)
    <3>1. CASE u = t
      <4>1. out[u] = <<>>
        BY <1>1, <2>4, <3>1 DEF Undisturbed
      <4>2. pos'[u] = 1 /\ pos'[u] - 1 = 0 /\ 1 <= n + 1
        BY <1>2, <2>4, <3>1
      <4>3. Beginning(text, 0) = <<>>
        BY DEF Beginning
      <4> QED
        BY <4>1, <4>2, <4>3
    <3>2. CASE u # t
      BY <1>2, <2>3, <2>4, <3>2 DEF Undisturbed
    <3> QED
      BY <3>1, <3>2
  <2>10. call' = call /\ i' = i /\ out' = out /\ TextOf(call[u])' = text
    BY <1>1, <2>2 DEF TextOf
  <2> QED
    BY <2>3, <2>4, <2>6, <2>7, <2>8, <2>9, <2>10 DEF Undisturbed
<1>5. \A u \in Threads : pc'[u] # "user" => pc[u] # "user"
  BY <1>1, <1>2
<1> QED
  BY <1>1, <1>4, <1>5 DEF AloneInv, AloneType

\* One character more is printed, and it is the text's.
LEMMA WriteAlone ==
    ASSUME PrintkInv, AloneInv, NEW t \in Threads, Write(t)
    PROVE  AloneInv'
<1>1. /\ pc[t] = "write" /\ buff[call[t].fn][pos[t]] # NUL
      /\ pos' = [pos EXCEPT ![t] = @ + 1]
      /\ out' = [out EXCEPT ![t] = Append(@, buff[call[t].fn][pos[t]])]
      /\ UNCHANGED <<buff, pc, call, i, alone>>
  BY DEF Write, Next_char
<1>2. /\ pos'[t] = pos[t] + 1
      /\ out'[t] = Append(out[t], buff[call[t].fn][pos[t]])
      /\ \A u \in Threads \ {t} : out'[u] = out[u] /\ pos'[u] = pos[u]
  BY <1>1 DEF PrintkInv, PlaceType, AloneInv
<1>3. ASSUME alone[t]
      PROVE  /\ pos'[t] <= Len(TextOf(call[t])) + 1
             /\ out'[t] = Beginning(TextOf(call[t]), pos'[t] - 1)
  <2>1. PICK text : text = TextOf(call[t])
    OBVIOUS
  <2>2. PICK n : n = Len(text)
    OBVIOUS
  <2>3. PICK p : p = pos[t]
    OBVIOUS
  <2>4. /\ Undisturbed(t, text)
        /\ n \in 0 .. SIZE - 1 /\ p \in 1 .. SIZE /\ SIZE \in Nat
    BY <1>1, <1>3, <2>1, <2>2, <2>3, AloneFacts
  <2>5. /\ p <= n + 1 /\ out[t] = Beginning(text, p - 1)
        /\ buff[call[t].fn][n + 1] = NUL
        /\ \A j \in 1 .. n : buff[call[t].fn][j] = text[j]
    BY <1>1, <2>2, <2>3, <2>4 DEF Undisturbed
  <2>6. p # n + 1
    BY <1>1, <2>3, <2>5
  <2>7. p \in 1 .. n /\ p - 1 \in Nat /\ (p - 1) + 1 = p
        /\ (p + 1) - 1 = p /\ p + 1 <= n + 1
    BY <2>4, <2>5, <2>6
  <2>8. Append(Beginning(text, p - 1), text[p]) = Beginning(text, p)
    BY <2>7, BeginningGrows
  <2> QED
    BY <1>2, <2>1, <2>2, <2>3, <2>5, <2>7, <2>8
<1>4. ASSUME NEW u \in Threads, pc[u] # "user", alone[u]
      PROVE  Undisturbed(u, TextOf(call[u]))'
  <2>1. Undisturbed(u, TextOf(call[u]))
    BY <1>4 DEF AloneInv
  <2>2. TextOf(call[u])' = TextOf(call[u])
    BY <1>1 DEF TextOf
  <2>3. CASE u = t
    BY <1>1, <1>3, <1>4, <2>1, <2>2, <2>3 DEF Undisturbed
  <2>4. CASE u # t
    BY <1>1, <1>2, <2>1, <2>2, <2>4 DEF Undisturbed
  <2> QED
    BY <2>3, <2>4
<1>5. out' = [u \in Threads |-> out'[u]]
  BY <1>1 DEF AloneInv
<1> QED
  BY <1>1, <1>4, <1>5 DEF AloneInv, AloneType

LEMMA ReturnAlone ==
    ASSUME PrintkInv, AloneInv, NEW t \in Threads, Return(t)
    PROVE  AloneInv'
<1>1. /\ pc' = [pc EXCEPT ![t] = "user"]
      /\ UNCHANGED <<buff, call, i, pos, out, alone>>
  BY DEF Return
<1>2. pc'[t] = "user" /\ \A u \in Threads \ {t} : pc'[u] = pc[u]
  BY <1>1 DEF PrintkInv, PlaceType
<1>3. ASSUME NEW u \in Threads, pc'[u] # "user", alone[u]
      PROVE  Undisturbed(u, TextOf(call[u]))'
  <2>1. u # t /\ pc'[u] = pc[u]
    BY <1>2, <1>3
  <2>2. Undisturbed(u, TextOf(call[u]))
    BY <1>3, <2>1 DEF AloneInv
  <2>3. TextOf(call[u])' = TextOf(call[u])
    BY <1>1 DEF TextOf
  <2>4. \A v \in Threads : pc'[v] = "terminate" => pc[v] = "terminate"
    BY <1>2
  <2> QED
    BY <1>1, <2>1, <2>2, <2>3, <2>4 DEF Undisturbed
<1>4. \A u \in Threads : pc'[u] # "user" => pc[u] # "user"
  BY <1>2
<1> QED
  BY <1>1, <1>3, <1>4 DEF AloneInv, AloneType

LEMMA NextAlone ==
    ASSUME CallsAreTexts, PrintkInv, AloneInv, [Next]_vars
    PROVE  AloneInv'
<1>1. ASSUME NEW t \in Threads, NEW c \in Calls(t, made[t] + 1),
             pc[t] = "user", printk(t, c)
      PROVE  AloneInv'
  BY <1>1, PrintkAlone
<1>2. CASE UNCHANGED vars
  <2>1. UNCHANGED <<buff, pc, call, i, pos, out, alone>>
    BY <1>2 DEF vars
  <2>2. ASSUME NEW u \in Threads, Undisturbed(u, TextOf(call[u]))
        PROVE  Undisturbed(u, TextOf(call[u]))'
    BY <2>1, <2>2 DEF Undisturbed, TextOf
  <2> QED
    BY <2>1, <2>2 DEF AloneInv, AloneType
<1> QED
  BY <1>1, <1>2, TerminateAlone, WriteAlone, ReturnAlone DEF Next

\* What a thread prints while no other call changes its buffer is its own
\* text, all of it, and it reads back as what the format asks for: for any
\* number of threads and calls, and although printk() writes its NUL and
\* reads the buffer with interrupts on.
THEOREM AloneReadsBack ==
    ASSUME CallsAreTexts, CallsAreSpelled
    PROVE  Spec => []ReadsBack
<1>1. Init => PrintkInv /\ AloneInv
  <2> SUFFICES ASSUME Init PROVE AloneInv
    BY InitPrintk
  <2>1. alone = [t \in Threads |-> TRUE]
    BY DEF Init
  <2>2. AloneType
    BY <2>1 DEF AloneType
  <2>3. \A t \in Threads : pc[t] = "user"
    BY DEF Init
  <2>4. out = [t \in Threads |-> out[t]]
    BY DEF Init
  <2> QED
    BY <2>2, <2>3, <2>4 DEF AloneInv
<1>2. PrintkInv /\ AloneInv /\ [Next]_vars => PrintkInv' /\ AloneInv'
  BY NextPrintk, NextAlone
<1>3. PrintkInv /\ AloneInv => ReadsBack
  <2> SUFFICES ASSUME PrintkInv, AloneInv, NEW t \in Threads,
                      pc[t] = "write", Next_char(t) = NUL,
                      alone[t], call[t].want # <<>>
               PROVE  AsWanted(out[t], call[t].want)
    BY DEF ReadsBack
  <2>1. PICK text : text = TextOf(call[t])
    OBVIOUS
  <2>2. PICK n : n = Len(text)
    OBVIOUS
  <2>3. /\ Undisturbed(t, text)
        /\ n \in 0 .. SIZE - 1 /\ pos[t] \in 1 .. SIZE /\ SIZE \in Nat
    BY <2>1, <2>2, AloneFacts
  <2>4. PICK k \in Nat : call[t] \in Calls(t, k)
    BY DEF AloneInv
  <2>5. /\ text = Beginning(text, n)
        /\ \A j \in 1 .. n : text[j] # NUL
        /\ AsWanted(text, call[t].want)
    <3>1. PICK at : Spelled(call[t], at)
      BY <2>4 DEF CallsAreSpelled
    <3>2. /\ AsWanted(text, call[t].want) /\ IsText(text)
          /\ \A m \in 1 .. Len(text) : text[m] # NUL
      BY <2>1, <3>1, FormatReadsBack DEF TextOf
    <3>3. text = [j \in 1 .. n |-> text[j]]
      <4>1. text \in Seq(ToSet(text)) /\ DOMAIN text = 1 .. n
        BY <2>2, <3>2, TextFacts DEF IsText
      <4> QED
        BY <4>1
    <3> QED
      BY <2>2, <3>2, <3>3 DEF Beginning
  <2>6. /\ pos[t] <= n + 1 /\ out[t] = Beginning(text, pos[t] - 1)
        /\ \A j \in 1 .. n : buff[call[t].fn][j] = text[j]
    BY <2>2, <2>3 DEF Undisturbed
  <2>7. pos[t] \notin 1 .. n
    BY <2>5, <2>6 DEF Next_char
  <2>8. pos[t] - 1 = n
    BY <2>3, <2>6, <2>7
  <2> QED
    BY <2>5, <2>6, <2>8
<1> QED
  BY <1>1, <1>2, <1>3, PTL DEF Spec
=============================================================================
