------------------------------ MODULE Terminal ------------------------------
(***************************************************************************)
(* The user's dialogue with the shell: the keyboard's interrupts, which    *)
(* echo and fill a one-place buffer (drivers/keyboard.c), getstring(),     *)
(* which polls that buffer and edits a line (libs/syscall.c), the shell's  *)
(* printing, and the characters that processes print meanwhile.            *)
(*                                                                         *)
(* Interrupt handlers and system calls print with interrupts off.  The     *)
(* shell prints with interrupts on: an echo may fall between its moving    *)
(* the cursor and its looking whether to scroll.                           *)
(***************************************************************************)
EXTENDS Console, Keyboard

CONSTANTS
    Codes,        \* the keyboard's scancodes
    MaxKeys,      \* bound: how many of them it sends
    Prompt,       \* what the shell prints between two lines
    Replies,      \* what a command may print before it
    Outputs,      \* the characters processes print
    MaxOutputs,   \* bound: how many they print
    PutAtomic     \* TRUE: no interrupt falls into console_putc_color()

ASSUME TerminalAssumption ==
    /\ Codes \subseteq 0 .. 255
    /\ MaxKeys \in Nat /\ MaxOutputs \in Nat
    /\ PutAtomic \in BOOLEAN
    /\ Prompt # <<>>

VARIABLES
    screen,       \* the console
    buffer,       \* the key that waits to be read, or NUL
    usr_buff,     \* the line that getstring() has so far: usr_buff[0 .. cnt-1]
    pc,           \* the shell: "getc", "run", "print" or "settle"
    todo,         \* what it has still to print
    pressed,      \* number of scancodes so far
    printed,      \* number of characters printed by processes so far
    disturbed,    \* history: something came between the line and its echo
    held,         \* the modifier keys the user's fingers are on
    rightused     \* history: the right shift has been used

counters == <<pressed, printed>>
keyboardVars == <<shiftdown, ctrldown, held, rightused>>
vars == <<screen, buffer, usr_buff, pc, todo, counters, disturbed,
          keyboardVars>>

Init ==
    /\ screen = init_console
    /\ buffer = NUL
    /\ usr_buff = <<>>
    /\ pc = "print"
    /\ todo = Prompt
    /\ pressed = 0
    /\ printed = 0
    /\ disturbed = FALSE
    /\ init_keyboard
    /\ held = {}
    /\ rightused = FALSE

\* What the user has typed of the line: read already, or waiting.
ButLast(s) == IF s = <<>> THEN s ELSE SubSeq(s, 1, Len(s) - 1)
Edited_clips(line, c) ==   \* mutant: a backspace is only read, not obeyed
    IF c \in {NUL, "LF", "BS"} THEN line ELSE Append(line, c)
Edited(line, c) ==
    IF c \in {NUL, "LF"} THEN line
    ELSE IF c = "BS" THEN ButLast(line)
    ELSE Append(line, c)

IntrOn == PutAtomic => pc # "settle"

----------------------------------------------------------------------------
\* A scancode arrives.  A key is released after it was pressed, and repeats
\* while it is held; what is held matters for modifiers only.
Scancode(ret) ==
    /\ IntrOn
    /\ pressed < MaxKeys
    /\ pressed' = pressed + 1
    /\ Released(ret) \in Modifiers => Released(ret) \in held
    /\ held' = IF IsRelease(ret) THEN held \ {Released(ret)}
               ELSE held \cup ({ret} \cap Modifiers)
    /\ rightused' = (rightused \/ ret = RSHIFT)
    /\ UNCHANGED <<usr_buff, pc, todo, printed>>

\* keyboard_handler() has four ways to go.
KeyUp(ret) ==
    /\ IsRelease(ret)
    /\ Scancode(ret)
    /\ Release(ret)
    /\ UNCHANGED <<screen, buffer, disturbed>>

ModifierDown(ret) ==
    /\ ret \in Modifiers
    /\ Scancode(ret)
    /\ Modify(ret)
    /\ UNCHANGED <<screen, buffer, disturbed>>

IsKey(ret) == ~IsRelease(ret) /\ ret \notin Modifiers
Midline == usr_buff # <<>> \/ buffer # NUL

\* With ctrl only ctrl-B does something, and only when a process is in the
\* foreground, which this module leaves open: it echoes a ">".
CtrlKey(ret) ==
    /\ IsKey(ret)
    /\ ctrldown
    /\ Scancode(ret)
    /\ \/ UNCHANGED <<screen, disturbed>>
       \/ /\ ret = B_KEY
          /\ screen' = console_putc_color(screen, ">")
          /\ disturbed' = (disturbed \/ Midline)
    /\ UNCHANGED <<buffer, shiftdown, ctrldown>>

\* A key that was not read in time is lost.  The echo is not what the line
\* becomes when the key came too early or replaced another, when it has no
\* character, or when a backspace goes past the line's beginning or takes one
\* cell of a tab's four.
Strays(k) ==
    \/ pc # "getc" \/ buffer # NUL \/ k = NUL
    \/ k = "BS" /\ (usr_buff = <<>> \/ usr_buff[Len(usr_buff)] = "TAB")

Press(ret) ==
    /\ IsKey(ret)
    /\ ~ctrldown
    /\ Scancode(ret)
    /\ buffer' = Char(ret)
    /\ screen' = console_putc_color(screen, Char(ret))
    /\ disturbed' = (disturbed \/ Strays(Char(ret)))
    /\ UNCHANGED <<shiftdown, ctrldown>>

\* SYS_cputc of a process in the foreground.
Cputc(c) ==
    /\ IntrOn
    /\ printed < MaxOutputs
    /\ printed' = printed + 1
    /\ screen' = console_putc_color(screen, c)
    /\ disturbed' = (disturbed \/ Midline)
    /\ UNCHANGED <<buffer, usr_buff, pc, todo, pressed, keyboardVars>>

----------------------------------------------------------------------------
\* getstring(): one turn of its loop that finds a character.
GetChar ==
    /\ pc = "getc"
    /\ buffer # NUL
    /\ buffer' = NUL
    /\ usr_buff' = Edited(usr_buff, buffer)
    /\ pc' = IF buffer = "LF" THEN "run" ELSE "getc"
    /\ UNCHANGED <<screen, todo, counters, disturbed, keyboardVars>>

\* The command runs, prints its reply, and the shell starts a new line: with
\* a prompt, unless a process has the console.
Execute ==
    /\ pc = "run"
    /\ \E reply \in Replies, prompt \in {Prompt, <<>>} : todo' = reply \o prompt
    /\ usr_buff' = <<>>
    /\ disturbed' = (buffer # NUL)
    /\ pc' = IF todo' = <<>> THEN "getc" ELSE "print"
    /\ UNCHANGED <<screen, buffer, counters, keyboardVars>>

PutNext ==
    /\ pc = "print"
    /\ screen' = PutChar(screen, Head(todo))
    /\ pc' = "settle"
    /\ UNCHANGED <<buffer, usr_buff, todo, counters, disturbed, keyboardVars>>

Scroll ==
    /\ pc = "settle"
    /\ screen' = Settle(screen)
    /\ todo' = Tail(todo)
    /\ pc' = IF todo' = <<>> THEN "getc" ELSE "print"
    /\ UNCHANGED <<buffer, usr_buff, counters, disturbed, keyboardVars>>

Next ==
    \/ \E ret \in Codes :
           KeyUp(ret) \/ ModifierDown(ret) \/ CtrlKey(ret) \/ Press(ret)
    \/ \E c \in Outputs : Cputc(c)
    \/ GetChar \/ Execute \/ PutNext \/ Scroll

Spec == Init /\ [][Next]_vars

----------------------------------------------------------------------------
(***************************************************************************)
(* Properties                                                              *)
(***************************************************************************)

\* Every variable keeps to its type.
TypeOK ==
    /\ screen.x \in 0 .. COLS - 1
    /\ screen.y \in 0 .. 255
    /\ DOMAIN screen.video_memory = Cells
    /\ buffer \in Chars
    /\ usr_buff \in Seq(Chars \ {NUL, "LF", "BS"})
    /\ pc \in {"getc", "run", "print", "settle"}
    /\ pressed \in 0 .. MaxKeys
    /\ printed \in 0 .. MaxOutputs
    /\ disturbed \in BOOLEAN
    /\ shiftdown \in BOOLEAN /\ ctrldown \in BOOLEAN
    /\ held \subseteq Modifiers /\ rightused \in BOOLEAN

\* The cursor is on the screen whenever no character is half printed.
CursorOnScreen == pc # "settle" => screen.y < ROWS

\* The handler's idea of shift and ctrl is what the user's fingers do, in
\* whatever order keys go down, repeat and come up: always for ctrl, for shift
\* as long as only the left one is used, and a left shift that is held counts
\* whatever the right one did.
ModifiersFollow ==
    /\ ctrldown = (LCTRL \in held)
    /\ LSHIFT \in held => shiftdown
    /\ ~rightused => shiftdown = (LSHIFT \in held)

\* Text stays on the screen: a step changes only the cells from the old
\* cursor to the new one (in either direction), and when it scrolls, all the
\* others go up one row together and a blank row comes in.
Touched(from, to) == from .. to \cup to .. from
Moved(k) ==
    \A i \in Cells \ Touched(At(screen) - k * COLS, At(screen')) :
        screen'.video_memory[i] =
            IF i + k * COLS \in Cells THEN screen.video_memory[i + k * COLS]
            ELSE " "
TextStays == [][Moved(0) \/ Moved(1)]_screen

\* What the user sees left of the cursor is the line the shell will get,
\* whatever has wrapped, scrolled and been rubbed out, as long as nothing came
\* between the line and its echo.
Shown(n) == [i \in 1 .. n |-> screen.video_memory[At(screen) - n + i - 1]]
Typed == Edited(usr_buff, buffer)
Cell(c) == IF c = "TAB" THEN <<" ", " ", " ", " ">> ELSE <<c>>
Rendered(line) ==
    LET text[j \in 0 .. Len(line)] ==
            IF j = 0 THEN <<>> ELSE text[j - 1] \o Cell(line[j])
    IN  text[Len(line)]
WhatYouSee ==
    (pc = "getc" /\ ~disturbed /\ buffer # "LF"
         /\ Len(Rendered(Typed)) <= At(screen))
        => Shown(Len(Rendered(Typed))) = Rendered(Typed)
=============================================================================
