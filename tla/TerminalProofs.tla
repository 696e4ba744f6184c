--------------------------- MODULE TerminalProofs ---------------------------
(***************************************************************************)
(* Theorems about Terminal.                                                *)
(*                                                                         *)
(* The cursor never leaves the screen, for every width of at least four,   *)
(* every height that a byte can hold, and whatever is typed and printed,   *)
(* as long as no interrupt falls into console_putc_color().                *)
(*                                                                         *)
(* CursorOnScreen alone is not inductive: between moving the cursor and    *)
(* looking whether to scroll it may be one row below the screen, and then  *)
(* only the scroll may follow.                                             *)
(*                                                                         *)
(* Shift and ctrl follow the user's fingers as far as ModifiersFollow      *)
(* promises, whatever the keyboard sends.                                  *)
(*                                                                         *)
(* Text stays: no step changes a cell that the cursor does not pass, but a *)
(* scroll, which moves them all.  Every operation of the console is taken  *)
(* for itself (NextAt to WholeShifted); the steps then follow from         *)
(* CursorInv, because only with the cursor on the screen is one character  *)
(* further one cell further.                                               *)
(*                                                                         *)
(* What the user sees is the line the shell will get.  WhatYouSee says so  *)
(* while the whole line is on the screen; it is not inductive, because a   *)
(* backspace brings a line that was too long back under it.  SeenInv says  *)
(* how much of a line is seen that is partly scrolled away, and that       *)
(* nothing is typed undisturbed while the shell prints.  How a line is     *)
(* drawn is a recursive function; what it computes is shown by the least   *)
(* place where it would not.                                               *)
(***************************************************************************)
EXTENDS Terminal, WellFoundedInduction, SequenceTheorems, TLAPS

\* A screen whose cursor is at most at the beginning of the row below the
\* last, and one whose cursor is on it.
IsScreen(s) ==
    /\ s = [x |-> s.x, y |-> s.y, video_memory |-> s.video_memory]
    /\ s.x \in 0 .. COLS - 1
    /\ s.y \in 0 .. ROWS
OnScreen(s) == IsScreen(s) /\ s.y < ROWS

CursorInv ==
    /\ IsScreen(screen)
    /\ pc # "settle" => OnScreen(screen)

----------------------------------------------------------------------------
\* Writing a cell leaves the cursor where it is.
LEMMA WriteCursor ==
    ASSUME NEW s, NEW c, IsScreen(s)
    PROVE  IsScreen(Write(s, c)) /\ Write(s, c).x = s.x /\ Write(s, c).y = s.y
BY DEF Write, IsScreen

\* Down one row, when there is one or when it is the one below the screen.
LEMMA DownCursor ==
    ASSUME NEW s, OnScreen(s)
    PROVE  IsScreen(Down(s)) /\ Down(s).x = 0
<1>1. s.y \in 0 .. ROWS - 1 /\ ROWS \in 1 .. 255 /\ COLS >= 4 /\ COLS \in Nat
  BY ConsoleAssumption DEF OnScreen, IsScreen
<1>2. (s.y + 1) % 256 \in 0 .. ROWS
  <2>1. s.y + 1 \in 0 .. 255
    BY <1>1
  <2>2. (s.y + 1) % 256 = s.y + 1
    BY <2>1
  <2> QED
    BY <1>1, <2>2
<1> QED
  BY <1>1, <1>2 DEF IsScreen, Down

\* Moving on from the screen, or from the first n + 1 columns below it.
Room(s, n) == IsScreen(s) /\ (s.y < ROWS \/ s.x <= n)

LEMMA NextRoom ==
    ASSUME NEW s, NEW n \in -1 .. COLS - 2, Room(s, n)
    PROVE  Room(move_to_next_location(s), n + 1)
<1>1. s.x \in 0 .. COLS - 1 /\ s.y \in 0 .. ROWS /\ n \in Int /\ COLS \in Nat
  BY ConsoleAssumption DEF Room, IsScreen
<1>2. CASE s.x + 1 = COLS
  <2>1. OnScreen(s)
    BY <1>1, <1>2, ConsoleAssumption DEF Room, OnScreen
  <2> QED
    BY <1>1, <1>2, <2>1, DownCursor DEF move_to_next_location, Room
<1>3. CASE s.x + 1 # COLS
  <2>1. s = [x |-> s.x, y |-> s.y, video_memory |-> s.video_memory]
    BY DEF Room, IsScreen
  <2>2. move_to_next_location(s) = [x |-> s.x + 1, y |-> s.y,
                                    video_memory |-> s.video_memory]
    BY <1>3, <2>1 DEF move_to_next_location
  <2> QED
    BY <1>1, <1>3, <2>2, ConsoleAssumption DEF Room, IsScreen
<1> QED
  BY <1>2, <1>3

\* The same for one blank of a tab.
LEMMA BlankRoom ==
    ASSUME NEW s, NEW n \in -1 .. COLS - 2, Room(s, n)
    PROVE  Room(Blank(s), n + 1)
<1>1. Room(Write(s, " "), n)
  BY WriteCursor DEF Room
<1> QED
  BY <1>1, NextRoom DEF Blank

\* A tab crosses at most one margin.
LEMMA TabCursor ==
    ASSUME NEW s, OnScreen(s)
    PROVE  IsScreen(Blank(Blank(Blank(Blank(s)))))
<1>1. /\ -1 \in -1 .. COLS - 2 /\ 0 \in -1 .. COLS - 2
      /\ 1 \in -1 .. COLS - 2 /\ 2 \in -1 .. COLS - 2
  BY ConsoleAssumption
<1>2. Room(s, -1)
  BY DEF Room, OnScreen
<1>3. Room(Blank(s), -1 + 1)
  BY <1>1, <1>2, BlankRoom
<1>4. Room(Blank(Blank(s)), 0 + 1)
  BY <1>1, <1>3, BlankRoom
<1>5. Room(Blank(Blank(Blank(s))), 1 + 1)
  BY <1>1, <1>4, BlankRoom
<1>6. Room(Blank(Blank(Blank(Blank(s)))), 2 + 1)
  BY <1>1, <1>5, BlankRoom
<1> QED
  BY <1>6 DEF Room

\* A character leaves the cursor at most at the beginning of the row below.
LEMMA PutCursor ==
    ASSUME NEW s, NEW c, OnScreen(s)
    PROVE  IsScreen(PutChar(s, c))
<1>1. CASE c = "BS"
  <2>1. IsScreen(move_to_back_location(s))
    <3>1. /\ s = [x |-> s.x, y |-> s.y, video_memory |-> s.video_memory]
          /\ s.x \in 0 .. COLS - 1 /\ s.y \in 0 .. ROWS /\ COLS >= 4
          /\ COLS \in Nat /\ ROWS \in Nat
      BY ConsoleAssumption DEF OnScreen, IsScreen
    <3>2. CASE s.x = 0 /\ s.y = 0
      BY <3>1, <3>2 DEF move_to_back_location, IsScreen
    <3>3. CASE s.x = 0 /\ s.y # 0
      <4>1. move_to_back_location(s) =
                [x |-> COLS - 1, y |-> s.y - 1,
                 video_memory |-> s.video_memory]
        BY <3>1, <3>3 DEF move_to_back_location
      <4> QED
        BY <3>1, <3>3, <4>1 DEF IsScreen
    <3>4. CASE s.x # 0
      <4>1. move_to_back_location(s) =
                [x |-> s.x - 1, y |-> s.y, video_memory |-> s.video_memory]
        BY <3>1, <3>4 DEF move_to_back_location
      <4> QED
        BY <3>1, <3>4, <4>1 DEF IsScreen
    <3> QED
      BY <3>2, <3>3, <3>4
  <2> QED
    BY <1>1, <2>1, WriteCursor DEF PutChar
<1>2. CASE c = "TAB"
  BY <1>2, TabCursor DEF PutChar
<1>3. CASE c = "CR"
  <2>1. IsScreen([s EXCEPT !.x = 0])
    BY ConsoleAssumption DEF OnScreen, IsScreen
  <2> QED
    BY <1>3, <2>1 DEF PutChar
<1>4. CASE c = "LF"
  BY <1>4, DownCursor DEF PutChar
<1>5. CASE c \notin {"BS", "TAB", "CR", "LF"}
  <2>1. Room(Write(s, c), -1) /\ -1 \in -1 .. COLS - 2
    BY WriteCursor, ConsoleAssumption DEF OnScreen, Room
  <2>2. IsScreen(move_to_next_location(Write(s, c)))
    BY <2>1, NextRoom DEF Room
  <2> QED
    BY <1>5, <2>2 DEF PutChar
<1> QED
  BY <1>1, <1>2, <1>3, <1>4, <1>5

\* Looking whether to scroll brings the cursor back onto the screen.
LEMMA SettleCursor ==
    ASSUME NEW s, IsScreen(s)
    PROVE  OnScreen(Settle(s))
<1>1. /\ s = [x |-> s.x, y |-> s.y, video_memory |-> s.video_memory]
      /\ s.x \in 0 .. COLS - 1 /\ s.y \in 0 .. ROWS /\ ROWS \in 1 .. 255
  BY ConsoleAssumption DEF IsScreen
<1>2. CASE s.y = ROWS
  <2>1. PICK m : scroll(s) = [x |-> s.x, y |-> ROWS - 1, video_memory |-> m]
    BY <1>1 DEF scroll
  <2> QED
    BY <1>1, <1>2, <2>1 DEF Settle, OnScreen, IsScreen
<1>3. CASE s.y # ROWS
  BY <1>1, <1>3 DEF Settle, OnScreen, IsScreen
<1> QED
  BY <1>2, <1>3

\* A whole character keeps the cursor on the screen.
LEMMA WholeCursor ==
    ASSUME NEW s, NEW c, OnScreen(s)
    PROVE  OnScreen(console_putc_color(s, c))
BY PutCursor, SettleCursor DEF console_putc_color

----------------------------------------------------------------------------
\* CursorInv is inductive when no interrupt falls into a character.
THEOREM StepCursor ==
    ASSUME PutAtomic, CursorInv, [Next]_vars
    PROVE  CursorInv'
<1>1. CASE UNCHANGED vars
  BY <1>1 DEF CursorInv, vars
<1>2. ASSUME NEW ret \in Codes,
             KeyUp(ret) \/ ModifierDown(ret) \/ CtrlKey(ret) \/ Press(ret)
      PROVE  CursorInv'
  <2>1. Scancode(ret)
    BY <1>2 DEF KeyUp, ModifierDown, CtrlKey, Press
  <2>2. OnScreen(screen) /\ pc' = pc /\ pc' # "settle"
    BY <2>1 DEF CursorInv, Scancode, IntrOn
  <2>3. screen' = screen \/ \E c : screen' = console_putc_color(screen, c)
    BY <1>2 DEF KeyUp, ModifierDown, CtrlKey, Press
  <2>4. OnScreen(screen')
    BY <2>2, <2>3, WholeCursor
  <2> QED
    BY <2>4 DEF CursorInv, OnScreen
<1>3. CASE \E c \in Outputs : Cputc(c)
  <2>1. OnScreen(screen)
    BY <1>3 DEF CursorInv, Cputc, IntrOn
  <2>2. PICK c \in Outputs : screen' = console_putc_color(screen, c)
    BY <1>3 DEF Cputc
  <2>3. OnScreen(screen')
    BY <2>1, <2>2, WholeCursor
  <2> QED
    BY <2>3 DEF CursorInv, OnScreen
<1>4. CASE GetChar
  BY <1>4 DEF CursorInv, GetChar
<1>5. CASE Execute
  BY <1>5 DEF CursorInv, Execute
<1>6. CASE PutNext
  <2>1. OnScreen(screen)
    BY <1>6 DEF CursorInv, PutNext
  <2>2. IsScreen(screen')
    BY <1>6, <2>1, PutCursor DEF PutNext
  <2> QED
    BY <1>6, <2>2 DEF CursorInv, PutNext
<1>7. CASE Scroll
  <2>1. OnScreen(screen')
    BY <1>7, SettleCursor DEF CursorInv, Scroll
  <2> QED
    BY <2>1 DEF CursorInv, OnScreen
<1> QED
  BY <1>1, <1>2, <1>3, <1>4, <1>5, <1>6, <1>7 DEF Next

\* Whenever no character is half printed the cursor is on the screen, so the
\* next character is seen and the screen goes on scrolling.
THEOREM CursorStays ==
    ASSUME PutAtomic
    PROVE  Spec => []CursorOnScreen
<1>1. Init => CursorInv
  <2>1. OnScreen(init_console)
    BY ConsoleAssumption DEF OnScreen, IsScreen, init_console
  <2> QED
    BY <2>1 DEF Init, CursorInv, OnScreen
<1>2. CursorInv /\ [Next]_vars => CursorInv'
  BY StepCursor
<1>3. CursorInv => CursorOnScreen
  BY DEF CursorInv, CursorOnScreen, OnScreen
<1> QED
  BY <1>1, <1>2, <1>3, PTL DEF Spec

----------------------------------------------------------------------------
\* ModifiersFollow is inductive once the flags are Booleans.
ModifierInv ==
    /\ shiftdown \in BOOLEAN /\ ctrldown \in BOOLEAN
    /\ ctrldown <=> LCTRL \in held
    /\ LSHIFT \in held => shiftdown
    /\ ~rightused => (shiftdown => LSHIFT \in held)

LEMMA StepModifiers ==
    ASSUME ModifierInv, [Next]_vars
    PROVE  ModifierInv'
<1> USE DEF ModifierInv
<1>0. LCTRL # LSHIFT /\ LCTRL # RSHIFT /\ LSHIFT # RSHIFT
  BY DEF LCTRL, LSHIFT, RSHIFT
<1>1. CASE UNCHANGED <<shiftdown, ctrldown, held, rightused>>
  BY <1>1
<1>2. ASSUME NEW ret \in Codes, KeyUp(ret)
      PROVE  ModifierInv'
  <2>1. /\ held' = held \ {Released(ret)}
        /\ rightused => rightused'
        /\ ctrldown' \in BOOLEAN /\ shiftdown' \in BOOLEAN
        /\ ctrldown' <=> ctrldown /\ Released(ret) # LCTRL
        /\ shiftdown' <=> shiftdown /\ Released(ret) # LSHIFT
    BY <1>2 DEF KeyUp, Scancode, Release
  <2> QED  BY <2>1
<1>3. ASSUME NEW ret \in Codes, ModifierDown(ret)
      PROVE  ModifierInv'
  <2>1. ret \in Modifiers /\ ~IsRelease(ret)
    BY <1>3 DEF ModifierDown, IsRelease, Modifiers, LCTRL, LSHIFT, RSHIFT
  <2>2. /\ shiftdown' \in BOOLEAN /\ ctrldown' \in BOOLEAN
        /\ shiftdown' <=> shiftdown \/ ret \in {LSHIFT, RSHIFT}
        /\ ctrldown' <=> ctrldown \/ ret = LCTRL
        /\ rightused' <=> rightused \/ ret = RSHIFT
    BY <1>3, Zenon DEF ModifierDown, Scancode, Modify
  <2>3. held' = held \cup {ret}
    BY <1>3, <2>1 DEF ModifierDown, Scancode
  <2> QED  BY <1>0, <2>1, <2>2, <2>3 DEF Modifiers
<1>4. ASSUME NEW ret \in Codes, CtrlKey(ret) \/ Press(ret)
      PROVE  ModifierInv'
  <2>1. /\ UNCHANGED <<shiftdown, ctrldown>>
        /\ ret \notin Modifiers /\ ~IsRelease(ret)
        /\ rightused => rightused'
    BY <1>4 DEF CtrlKey, Press, IsKey, Scancode
  <2>2. held' = held
    BY <1>4, <2>1 DEF CtrlKey, Press, Scancode
  <2> QED  BY <2>1, <2>2
<1> QED
  BY <1>1, <1>2, <1>3, <1>4
     DEF Next, Cputc, GetChar, Execute, PutNext, Scroll, keyboardVars, vars

\* For any scancodes in any order the handler's shift and ctrl are what the
\* fingers do, as far as ModifiersFollow says.
THEOREM ModifiersAlwaysFollow == Spec => []ModifiersFollow
<1>1. Init => ModifierInv
  BY DEF Init, init_keyboard, ModifierInv
<1>2. ModifierInv /\ [Next]_vars => ModifierInv'
  BY StepModifiers
<1>3. ModifierInv => ModifiersFollow
  BY DEF ModifierInv, ModifiersFollow
<1> QED  BY <1>1, <1>2, <1>3, PTL DEF Spec

----------------------------------------------------------------------------
\* A screen with all its cells, the cursor wherever a byte can take it.
Wide(s) ==
    /\ s = [x |-> s.x, y |-> s.y, video_memory |-> s.video_memory]
    /\ s.x \in 0 .. COLS - 1
    /\ s.y \in 0 .. 255
    /\ s.video_memory = [i \in Cells |-> s.video_memory[i]]

LEMMA WideFacts ==
    ASSUME NEW s, Wide(s)
    PROVE  /\ s.x \in Int /\ s.y \in Int /\ At(s) \in Int
           /\ COLS \in Int /\ COLS >= 4 /\ ROWS \in 1 .. 255
           /\ Cells \subseteq Int
<1>1. s.x \in Int /\ s.y \in Int /\ COLS \in Int /\ COLS >= 4
  BY ConsoleAssumption DEF Wide
<1>2. COLS * s.y \in Int
  BY <1>1
<1> QED
  BY <1>1, <1>2, ConsoleAssumption DEF At, Cells

\* A write changes no cell but the cursor's.
LEMMA WriteWide ==
    ASSUME NEW s, NEW c, Wide(s)
    PROVE  /\ Wide(Write(s, c)) /\ At(Write(s, c)) = At(s)
           /\ Write(s, c).x = s.x /\ Write(s, c).y = s.y
           /\ \A i \in Cells \ {At(s)} :
                  Write(s, c).video_memory[i] = s.video_memory[i]
<1>1. CASE At(s) \in Cells
  <2>1. Write(s, c) = [x |-> s.x, y |-> s.y,
                       video_memory |-> [s.video_memory EXCEPT ![At(s)] = c]]
    BY <1>1 DEF Write, Wide
  <2> DEFINE m == [s.video_memory EXCEPT ![At(s)] = c]
  <2>2. /\ m = [i \in Cells |-> m[i]]
        /\ \A i \in Cells \ {At(s)} : m[i] = s.video_memory[i]
    BY <1>1 DEF Wide
  <2> HIDE DEF m
  <2> QED
    BY <2>1, <2>2 DEF Wide, At
<1>2. CASE At(s) \notin Cells
  BY <1>2 DEF Write
<1> QED
  BY <1>1, <1>2

\* Moving the cursor changes no cell.
LEMMA MoveWide ==
    ASSUME NEW s, Wide(s)
    PROVE  /\ Wide(Down(s)) /\ Down(s).video_memory = s.video_memory
           /\ Wide(move_to_next_location(s))
           /\ move_to_next_location(s).video_memory = s.video_memory
           /\ Wide(move_to_back_location(s))
           /\ move_to_back_location(s).video_memory = s.video_memory
           /\ Wide([s EXCEPT !.x = 0])
           /\ [s EXCEPT !.x = 0].video_memory = s.video_memory
<1>1. /\ s = [x |-> s.x, y |-> s.y, video_memory |-> s.video_memory]
      /\ s.x \in 0 .. COLS - 1 /\ s.y \in 0 .. 255
      /\ s.video_memory = [i \in Cells |-> s.video_memory[i]]
      /\ COLS \in Nat /\ COLS >= 4
  BY ConsoleAssumption DEF Wide
<1>2. Wide(Down(s)) /\ Down(s).video_memory = s.video_memory
  <2>1. (s.y + 1) % 256 \in 0 .. 255
    BY <1>1
  <2>2. Down(s) = [x |-> 0, y |-> (s.y + 1) % 256,
                   video_memory |-> s.video_memory]
    BY DEF Down
  <2> DEFINE y == (s.y + 1) % 256
  <2>3. y \in 0 .. 255 /\ Down(s) = [x |-> 0, y |-> y,
                                     video_memory |-> s.video_memory]
    BY <2>1, <2>2
  <2> HIDE DEF y
  <2> QED
    BY <1>1, <2>3 DEF Wide
<1>3. /\ Wide(move_to_next_location(s))
      /\ move_to_next_location(s).video_memory = s.video_memory
  <2>1. CASE s.x + 1 = COLS
    BY <1>2, <2>1 DEF move_to_next_location
  <2>2. CASE s.x + 1 # COLS
    <3>1. move_to_next_location(s) =
              [x |-> s.x + 1, y |-> s.y, video_memory |-> s.video_memory]
      BY <1>1, <2>2 DEF move_to_next_location
    <3> QED
      BY <1>1, <2>2, <3>1 DEF Wide
  <2> QED
    BY <2>1, <2>2
<1>4. /\ Wide(move_to_back_location(s))
      /\ move_to_back_location(s).video_memory = s.video_memory
  <2>1. CASE s.x = 0 /\ s.y = 0
    BY <2>1 DEF move_to_back_location
  <2>2. CASE s.x = 0 /\ s.y # 0
    <3>1. move_to_back_location(s) =
              [x |-> COLS - 1, y |-> s.y - 1,
               video_memory |-> s.video_memory]
      BY <1>1, <2>2 DEF move_to_back_location
    <3> QED
      BY <1>1, <2>2, <3>1 DEF Wide
  <2>3. CASE s.x # 0
    <3>1. move_to_back_location(s) =
              [x |-> s.x - 1, y |-> s.y, video_memory |-> s.video_memory]
      BY <1>1, <2>3 DEF move_to_back_location
    <3> QED
      BY <1>1, <2>3, <3>1 DEF Wide
  <2> QED
    BY <2>1, <2>2, <2>3
<1>5. /\ Wide([s EXCEPT !.x = 0])
      /\ [s EXCEPT !.x = 0].video_memory = s.video_memory
  <2>1. [s EXCEPT !.x = 0] =
            [x |-> 0, y |-> s.y, video_memory |-> s.video_memory]
    BY <1>1
  <2> QED
    BY <1>1, <2>1 DEF Wide
<1> QED
  BY <1>2, <1>3, <1>4, <1>5

LEMMA BlankWide ==
    ASSUME NEW s, Wide(s)
    PROVE  Wide(Blank(s))
  BY WriteWide, MoveWide DEF Blank

\* No character and no scroll loses a cell or sends the cursor out of a byte.
LEMMA PutWide ==
    ASSUME NEW s, NEW c, Wide(s)
    PROVE  /\ Wide(PutChar(s, c)) /\ Wide(Settle(s))
           /\ Wide(console_putc_color(s, c))
<1>1. Wide(PutChar(s, c))
  <2>1. CASE c = "BS"
    BY <2>1, WriteWide, MoveWide DEF PutChar
  <2>2. CASE c = "TAB"
    BY <2>2, BlankWide DEF PutChar
  <2>3. CASE c = "CR"
    BY <2>3, MoveWide DEF PutChar
  <2>4. CASE c = "LF"
    BY <2>4, MoveWide DEF PutChar
  <2>5. CASE c \notin {"BS", "TAB", "CR", "LF"}
    BY <2>5, WriteWide, MoveWide DEF PutChar
  <2> QED
    BY <2>1, <2>2, <2>3, <2>4, <2>5
<1>2. ASSUME NEW t, Wide(t) PROVE Wide(Settle(t))
  <2>1. PICK m : /\ m = [i \in Cells |-> m[i]]
                 /\ scroll(t) = [x |-> t.x, y |-> ROWS - 1,
                                 video_memory |-> m]
    BY DEF scroll
  <2>2. Wide(scroll(t))
    <3>1. t.x \in 0 .. COLS - 1 /\ ROWS - 1 \in 0 .. 255
      BY <1>2, ConsoleAssumption DEF Wide
    <3> QED
      BY <2>1, <3>1 DEF Wide
  <2> QED
    BY <1>2, <2>2 DEF Settle
<1> QED
  BY <1>1, <1>2 DEF console_putc_color

----------------------------------------------------------------------------
\* A step of the cursor that changes no cell outside the ones it passes.
Kept(s, t) ==
    \A i \in Cells \ Touched(At(s), At(t)) :
        t.video_memory[i] = s.video_memory[i]

\* One character further is one cell further, also across a margin.
LEMMA NextAt ==
    ASSUME NEW s, NEW n \in -1 .. COLS - 2, Room(s, n)
    PROVE  At(move_to_next_location(s)) = At(s) + 1
<1>1. /\ s = [x |-> s.x, y |-> s.y, video_memory |-> s.video_memory]
      /\ s.x \in 0 .. COLS - 1 /\ s.y \in 0 .. ROWS /\ n \in Int
      /\ COLS \in Nat /\ ROWS \in 1 .. 255
  BY ConsoleAssumption DEF Room, IsScreen
<1>2. CASE s.x + 1 = COLS
  <2>1. s.y + 1 \in 0 .. 255
    BY <1>1, <1>2 DEF Room
  <2>2. (s.y + 1) % 256 = s.y + 1
    BY <2>1
  <2>3. /\ move_to_next_location(s).x = 0
        /\ move_to_next_location(s).y = s.y + 1
    BY <1>2, <2>2 DEF move_to_next_location, Down
  <2>4. COLS * (s.y + 1) = COLS * s.y + COLS
    BY <1>1
  <2>5. COLS * s.y \in Int
    BY <1>1
  <2> QED
    BY <1>1, <1>2, <2>3, <2>4, <2>5 DEF At
<1>3. CASE s.x + 1 # COLS
  <2>1. /\ move_to_next_location(s).x = s.x + 1
        /\ move_to_next_location(s).y = s.y
    BY <1>1, <1>3 DEF move_to_next_location
  <2>2. COLS * s.y \in Int
    BY <1>1
  <2> QED
    BY <1>1, <2>1, <2>2 DEF At
<1> QED
  BY <1>2, <1>3

\* One blank of a tab fills the cell under the cursor and goes on.
LEMMA BlankAt ==
    ASSUME NEW s, NEW n \in -1 .. COLS - 2, Room(s, n), Wide(s)
    PROVE  /\ Room(Blank(s), n + 1) /\ Wide(Blank(s))
           /\ At(Blank(s)) = At(s) + 1
           /\ \A i \in Cells \ {At(s)} :
                  Blank(s).video_memory[i] = s.video_memory[i]
<1>1. /\ Room(Write(s, " "), n) /\ Wide(Write(s, " "))
      /\ At(Write(s, " ")) = At(s)
  BY WriteCursor, WriteWide DEF Room
<1>2. At(Blank(s)) = At(s) + 1
  BY <1>1, NextAt DEF Blank
<1>3. /\ Wide(Blank(s))
      /\ Blank(s).video_memory = Write(s, " ").video_memory
  BY <1>1, MoveWide DEF Blank
<1>4. \A i \in Cells \ {At(s)} :
          Write(s, " ").video_memory[i] = s.video_memory[i]
  BY WriteWide
<1>5. Room(Blank(s), n + 1)
  BY BlankRoom
<1> QED
  BY <1>2, <1>3, <1>4, <1>5

\* A tab changes the four cells it passes.
LEMMA TabKept ==
    ASSUME NEW s, OnScreen(s), Wide(s)
    PROVE  Kept(s, Blank(Blank(Blank(Blank(s)))))
<1>1. /\ -1 \in -1 .. COLS - 2 /\ 0 \in -1 .. COLS - 2
      /\ 1 \in -1 .. COLS - 2 /\ 2 \in -1 .. COLS - 2
  BY ConsoleAssumption
<1>2. Room(s, -1) /\ At(s) \in Int /\ Cells \subseteq Int
  BY WideFacts DEF Room, OnScreen
<1>3. PICK a : a = Blank(s)
  OBVIOUS
<1>4. PICK b : b = Blank(a)
  OBVIOUS
<1>5. PICK c : c = Blank(b)
  OBVIOUS
<1>6. PICK d : d = Blank(c)
  OBVIOUS
<1>7. /\ Room(a, 0) /\ Wide(a) /\ At(a) = At(s) + 1
      /\ \A i \in Cells \ {At(s)} : a.video_memory[i] = s.video_memory[i]
  <2>1. Room(a, -1 + 1)
    BY <1>1, <1>2, <1>3, BlankAt
  <2> QED
    BY <1>1, <1>2, <1>3, <2>1, BlankAt
<1>8. /\ Room(b, 1) /\ Wide(b) /\ At(b) = At(a) + 1
      /\ \A i \in Cells \ {At(a)} : b.video_memory[i] = a.video_memory[i]
  <2>1. Room(b, 0 + 1)
    BY <1>1, <1>4, <1>7, BlankAt
  <2> QED
    BY <1>1, <1>4, <1>7, <2>1, BlankAt
<1>9. /\ Room(c, 2) /\ Wide(c) /\ At(c) = At(b) + 1
      /\ \A i \in Cells \ {At(b)} : c.video_memory[i] = b.video_memory[i]
  <2>1. Room(c, 1 + 1)
    BY <1>1, <1>5, <1>8, BlankAt
  <2> QED
    BY <1>1, <1>5, <1>8, <2>1, BlankAt
<1>10. /\ At(d) = At(c) + 1
       /\ \A i \in Cells \ {At(c)} : d.video_memory[i] = c.video_memory[i]
  BY <1>1, <1>6, <1>9, BlankAt
<1>11. /\ At(d) = At(s) + 4 /\ At(a) = At(s) + 1
       /\ At(b) = At(s) + 2 /\ At(c) = At(s) + 3
  BY <1>2, <1>7, <1>8, <1>9, <1>10
<1>12. ASSUME NEW i \in Cells \ Touched(At(s), At(d))
       PROVE  d.video_memory[i] = s.video_memory[i]
  <2>1. i # At(s) /\ i # At(a) /\ i # At(b) /\ i # At(c)
    BY <1>2, <1>11 DEF Touched
  <2> QED
    BY <1>7, <1>8, <1>9, <1>10, <2>1
<1> QED
  BY <1>3, <1>4, <1>5, <1>6, <1>12 DEF Kept

\* No character changes a cell that the cursor does not pass.
LEMMA PutKept ==
    ASSUME NEW s, NEW c, OnScreen(s), Wide(s)
    PROVE  Kept(s, PutChar(s, c))
<1>0. ASSUME NEW t, Wide(t)
      PROVE  At(s) \in Touched(At(s), At(t)) /\ At(t) \in Touched(At(s), At(t))
  BY <1>0, WideFacts DEF Touched
<1>1. CASE c = "BS"
  <2>1. PICK t : t = move_to_back_location(s)
    OBVIOUS
  <2>2. Wide(t) /\ t.video_memory = s.video_memory
    BY <2>1, MoveWide
  <2>3. PutChar(s, c) = Write(t, " ")
    BY <1>1, <2>1 DEF PutChar
  <2>4. /\ At(PutChar(s, c)) = At(t)
        /\ \A i \in Cells \ {At(t)} :
               PutChar(s, c).video_memory[i] = t.video_memory[i]
    <3>1. /\ At(Write(t, " ")) = At(t)
          /\ \A i \in Cells \ {At(t)} :
                 Write(t, " ").video_memory[i] = t.video_memory[i]
      BY <2>2, WriteWide
    <3> QED
      BY <2>3, <3>1
  <2> QED
    BY <1>0, <2>2, <2>4 DEF Kept
<1>2. CASE c = "TAB"
  BY <1>2, TabKept DEF PutChar
<1>3. CASE c = "CR"
  <2>1. PutChar(s, c) = [s EXCEPT !.x = 0]
    BY <1>3 DEF PutChar
  <2> QED
    BY <2>1, MoveWide DEF Kept
<1>4. CASE c = "LF"
  <2>1. PutChar(s, c) = Down(s)
    BY <1>4 DEF PutChar
  <2> QED
    BY <2>1, MoveWide DEF Kept
<1>5. CASE c \notin {"BS", "TAB", "CR", "LF"}
  <2>1. PICK t : t = Write(s, c)
    OBVIOUS
  <2>2. PutChar(s, c) = move_to_next_location(t)
    BY <1>5, <2>1 DEF PutChar
  <2>3. /\ Wide(t) /\ Wide(PutChar(s, c))
        /\ PutChar(s, c).video_memory = t.video_memory
    BY <2>1, <2>2, WriteWide, MoveWide
  <2> QED
    BY <1>0, <2>1, <2>3, WriteWide DEF Kept
<1> QED
  BY <1>1, <1>2, <1>3, <1>4, <1>5

\* Moved(k), of two screens.
Shifted(s, t, k) ==
    \A i \in Cells \ Touched(At(s) - k * COLS, At(t)) :
        t.video_memory[i] =
            IF i + k * COLS \in Cells THEN s.video_memory[i + k * COLS]
            ELSE " "

LEMMA KeptShifted ==
    ASSUME NEW s, NEW t, Wide(s), Wide(t), Kept(s, t)
    PROVE  Shifted(s, t, 0)
<1>1. /\ At(s) - 0 * COLS = At(s)
      /\ \A i \in Cells : i + 0 * COLS = i
  BY WideFacts
<1> QED
  BY <1>1 DEF Kept, Shifted

\* Settling keeps everything where it is, or moves it up one row.
LEMMA SettleShifted ==
    ASSUME NEW s, NEW t, Wide(s), Wide(t), IsScreen(t), Kept(s, t)
    PROVE  Shifted(s, Settle(t), 0) \/ Shifted(s, Settle(t), 1)
<1>1. CASE t.y # ROWS
  BY <1>1, KeptShifted DEF Settle
<1>2. CASE t.y = ROWS
  <2>1. /\ COLS \in Nat /\ ROWS \in 1 .. 255 /\ t.x \in Int
        /\ At(s) \in Int /\ At(t) \in Int /\ COLS * ROWS \in Int
        /\ COLS * (ROWS - 1) = COLS * ROWS - COLS /\ 1 * COLS = COLS
        /\ COLS >= 4
    BY WideFacts, ConsoleAssumption
  <2>2. PICK u : u = scroll(t)
    OBVIOUS
  <2>3. /\ u.x = t.x /\ u.y = ROWS - 1
        /\ \A i \in Cells : u.video_memory[i] =
               IF i < COLS * (ROWS - 1) THEN t.video_memory[i + COLS]
               ELSE " "
    BY <2>2 DEF scroll
  <2>4. At(u) = At(t) - COLS
    <3>1. At(t) = COLS * ROWS + t.x /\ At(u) = COLS * (ROWS - 1) + t.x
      BY <1>2, <2>3 DEF At
    <3> QED
      BY <2>1, <3>1
  <2>5. ASSUME NEW i \in Cells \ Touched(At(s) - 1 * COLS, At(u))
        PROVE  u.video_memory[i] =
                   IF i + 1 * COLS \in Cells
                   THEN s.video_memory[i + 1 * COLS] ELSE " "
    <3>1. i \in Int /\ i >= 0 /\ i < COLS * ROWS
      BY <2>1 DEF Cells
    <3>2. i + COLS \in Cells <=> i < COLS * (ROWS - 1)
      BY <2>1, <3>1 DEF Cells
    <3>3. i + COLS \notin Touched(At(s), At(t))
      BY <2>1, <2>4, <3>1 DEF Touched
    <3> QED
      BY <2>1, <2>3, <3>2, <3>3 DEF Kept
  <2> QED
    BY <1>2, <2>2, <2>5 DEF Shifted, Settle
<1> QED
  BY <1>1, <1>2

LEMMA WholeShifted ==
    ASSUME NEW s, NEW c, OnScreen(s), Wide(s),
           NEW t, t = console_putc_color(s, c)
    PROVE  Shifted(s, t, 0) \/ Shifted(s, t, 1)
BY PutKept, PutWide, PutCursor, SettleShifted DEF console_putc_color

----------------------------------------------------------------------------
\* Every step moves text as TextStays says, even one between moving the
\* cursor and looking whether to scroll.
TextInv == CursorInv /\ Wide(screen)

LEMMA StepWide ==
    ASSUME Wide(screen), [Next]_vars
    PROVE  Wide(screen')
<1>1. ASSUME NEW ret \in Codes,
             KeyUp(ret) \/ ModifierDown(ret) \/ CtrlKey(ret) \/ Press(ret)
      PROVE  Wide(screen')
  <2>1. screen' = screen \/ \E c : screen' = console_putc_color(screen, c)
    BY <1>1 DEF KeyUp, ModifierDown, CtrlKey, Press
  <2> QED
    BY <2>1, PutWide
<1>2. CASE \E c \in Outputs : Cputc(c)
  BY <1>2, PutWide DEF Cputc
<1>3. CASE PutNext
  BY <1>3, PutWide DEF PutNext
<1>4. CASE Scroll
  BY <1>4, PutWide DEF Scroll
<1> QED
  BY <1>1, <1>2, <1>3, <1>4 DEF Next, GetChar, Execute, vars

LEMMA StepShifts ==
    ASSUME PutAtomic, TextInv, [Next]_vars
    PROVE  [Moved(0) \/ Moved(1)]_screen
<1>1. SUFFICES ASSUME Next, screen' # screen
               PROVE  Moved(0) \/ Moved(1)
  BY DEF vars
<1>2. SUFFICES Shifted(screen, screen', 0) \/ Shifted(screen, screen', 1)
  BY DEF Moved, Shifted
<1>3. Wide(screen) /\ IsScreen(screen) /\ Wide(screen')
  BY StepWide DEF TextInv, CursorInv
<1>4. ASSUME NEW ret \in Codes,
             KeyUp(ret) \/ ModifierDown(ret) \/ CtrlKey(ret) \/ Press(ret)
      PROVE  Shifted(screen, screen', 0) \/ Shifted(screen, screen', 1)
  <2>1. Scancode(ret)
    BY <1>4 DEF KeyUp, ModifierDown, CtrlKey, Press
  <2>2. OnScreen(screen)
    BY <2>1 DEF TextInv, CursorInv, Scancode, IntrOn
  <2>3. \E c : screen' = console_putc_color(screen, c)
    BY <1>1, <1>4 DEF KeyUp, ModifierDown, CtrlKey, Press
  <2> QED
    BY <1>3, <2>2, <2>3, WholeShifted
<1>5. CASE \E c \in Outputs : Cputc(c)
  <2>1. OnScreen(screen)
    BY <1>5 DEF TextInv, CursorInv, Cputc, IntrOn
  <2> QED
    BY <1>3, <1>5, <2>1, WholeShifted DEF Cputc
<1>6. CASE PutNext
  <2>1. OnScreen(screen)
    BY <1>6 DEF TextInv, CursorInv, PutNext
  <2> QED
    BY <1>3, <1>6, <2>1, PutKept, KeptShifted DEF PutNext
<1>7. CASE Scroll
  <2>1. Kept(screen, screen)
    BY DEF Kept
  <2> QED
    BY <1>3, <1>7, <2>1, SettleShifted DEF Scroll
<1> QED
  BY <1>1, <1>4, <1>5, <1>6, <1>7 DEF Next, GetChar, Execute

\* Nothing on the screen is lost or changed but under the moving cursor, and
\* a scroll takes all the rest up together: for every screen of four columns
\* or more, and whatever is typed and printed in whatever order.
THEOREM TextAlwaysStays ==
    ASSUME PutAtomic
    PROVE  Spec => TextStays
<1>1. Init => TextInv
  <2>1. OnScreen(init_console) /\ Wide(init_console)
    BY ConsoleAssumption DEF OnScreen, IsScreen, Wide, init_console
  <2> QED
    BY <2>1 DEF Init, TextInv, CursorInv, OnScreen
<1>2. TextInv /\ [Next]_vars => TextInv'
  BY StepCursor, StepWide DEF TextInv
<1>3. TextInv /\ [Next]_vars => [Moved(0) \/ Moved(1)]_screen
  BY StepShifts
<1> QED
  BY <1>1, <1>2, <1>3, PTL DEF Spec, TextStays

----------------------------------------------------------------------------
\* TypeOK is inductive with Wide, whether or not a character is atomic.
LEMMA KeyChars ==
    /\ NUL \in Chars
    /\ \A ret \in 0 .. 127 : Char(ret) \in Chars
<1>1. keytable[0] = NUL
  BY DEF keytable, Layout
<1>2. NUL \in Chars
  BY <1>1 DEF Chars
<1>3. ASSUME NEW ret \in 0 .. 127
      PROVE  Char(ret) \in Chars
  <2>1. keytable[ret] \in Chars /\ keytable_shift[ret] \in Chars
    BY <1>3 DEF Chars
  <2> QED
    BY <2>1 DEF Char
<1> QED
  BY <1>2, <1>3

\* What getstring() makes of a line is a line.
LEMMA EditedType ==
    ASSUME NEW line \in Seq(Chars \ {NUL, "LF", "BS"}), NEW c \in Chars
    PROVE  Edited(line, c) \in Seq(Chars \ {NUL, "LF", "BS"})
<1> DEFINE S == Chars \ {NUL, "LF", "BS"}
<1>1. ButLast(line) \in Seq(S)
  <2> HIDE DEF S
  <2>1. line \in Seq(S)
    BY DEF S
  <2>2. CASE line # <<>>
    <3>1. PICK n \in Nat : n = Len(line)
      BY <2>1
    <3>2. n >= 1
      BY <2>1, <2>2, <3>1
    <3>3. SubSeq(line, 1, n - 1) \in Seq(S)
      BY <2>1, <3>1, <3>2
    <3> QED
      BY <2>2, <3>1, <3>3 DEF ButLast
  <2> QED
    BY <2>1, <2>2 DEF ButLast
<1>2. c \notin {NUL, "LF", "BS"} => Append(line, c) \in Seq(S)
  <2>1. c \notin {NUL, "LF", "BS"} => c \in S
    OBVIOUS
  <2> HIDE DEF S
  <2>2. line \in Seq(S)
    BY DEF S
  <2> QED
    BY <2>1, <2>2
<1> QED
  BY <1>1, <1>2 DEF Edited

LEMMA WideType ==
    ASSUME NEW s, Wide(s)
    PROVE  /\ s.x \in 0 .. COLS - 1 /\ s.y \in 0 .. 255
           /\ DOMAIN s.video_memory = Cells
  BY DEF Wide

\* The keyboard's flags and the user's fingers.
KeyType ==
    /\ pressed \in 0 .. MaxKeys
    /\ disturbed \in BOOLEAN
    /\ shiftdown \in BOOLEAN /\ ctrldown \in BOOLEAN
    /\ held \subseteq Modifiers /\ rightused \in BOOLEAN

LEMMA ScanType ==
    ASSUME KeyType, NEW ret \in Codes,
           KeyUp(ret) \/ ModifierDown(ret) \/ CtrlKey(ret) \/ Press(ret)
    PROVE  KeyType'
<1>1. Scancode(ret)
  BY DEF KeyUp, ModifierDown, CtrlKey, Press
<1>2. pressed' \in 0 .. MaxKeys
  BY <1>1, TerminalAssumption DEF KeyType, Scancode
<1>3. held' \subseteq Modifiers
  BY <1>1 DEF KeyType, Scancode
<1>4. rightused' \in BOOLEAN
  BY <1>1, Zenon DEF KeyType, Scancode
<1>5. disturbed' \in BOOLEAN
  <2>1. \/ UNCHANGED disturbed
        \/ disturbed' = (disturbed \/ Midline)
        \/ disturbed' = (disturbed \/ Strays(Char(ret)))
    BY DEF KeyUp, ModifierDown, CtrlKey, Press
  <2>2. ASSUME disturbed' = (disturbed \/ Midline)
        PROVE  disturbed' \in BOOLEAN
    BY <2>2, Zenon
  <2>3. ASSUME disturbed' = (disturbed \/ Strays(Char(ret)))
        PROVE  disturbed' \in BOOLEAN
    BY <2>3, Zenon
  <2> QED
    BY <2>1, <2>2, <2>3 DEF KeyType
<1>6. shiftdown' \in BOOLEAN /\ ctrldown' \in BOOLEAN
  <2>1. Release(ret) \/ Modify(ret) \/ UNCHANGED <<shiftdown, ctrldown>>
    BY DEF KeyUp, ModifierDown, CtrlKey, Press
  <2>2. CASE Release(ret)
    BY <2>2, Zenon DEF Release
  <2>3. CASE Modify(ret)
    BY <2>3, Zenon DEF Modify
  <2> QED
    BY <2>1, <2>2, <2>3 DEF KeyType
<1> QED
  BY <1>2, <1>3, <1>4, <1>5, <1>6 DEF KeyType

LineType ==
    /\ buffer \in Chars
    /\ usr_buff \in Seq(Chars \ {NUL, "LF", "BS"})
    /\ pc \in {"getc", "run", "print", "settle"}
    /\ printed \in 0 .. MaxOutputs

LEMMA StepLine ==
    ASSUME LineType, [Next]_vars
    PROVE  LineType'
<1>1. ASSUME NEW ret \in Codes,
             KeyUp(ret) \/ ModifierDown(ret) \/ CtrlKey(ret) \/ Press(ret)
      PROVE  LineType'
  <2>1. UNCHANGED <<usr_buff, pc, printed>>
    BY <1>1 DEF KeyUp, ModifierDown, CtrlKey, Press, Scancode
  <2>2. buffer' \in Chars
    <3>1. CASE Press(ret)
      <4>1. ret \in 0 .. 127
        BY <3>1, TerminalAssumption DEF Press, IsKey, IsRelease
      <4> QED
        BY <3>1, <4>1, KeyChars DEF Press
    <3>2. CASE ~Press(ret)
      BY <1>1, <3>2 DEF LineType, KeyUp, ModifierDown, CtrlKey
    <3> QED
      BY <3>1, <3>2
  <2> QED
    BY <2>1, <2>2 DEF LineType
<1>2. CASE \E c \in Outputs : Cputc(c)
  <2>1. printed' \in 0 .. MaxOutputs
    BY <1>2, TerminalAssumption DEF LineType, Cputc
  <2> QED
    BY <1>2, <2>1 DEF LineType, Cputc
<1>3. CASE GetChar
  <2>1. usr_buff' \in Seq(Chars \ {NUL, "LF", "BS"}) /\ buffer' \in Chars
    BY <1>3, EditedType, KeyChars DEF LineType, GetChar
  <2> QED
    BY <1>3, <2>1 DEF LineType, GetChar, counters
<1>4. CASE Execute
  BY <1>4 DEF LineType, Execute, counters
<1>5. CASE PutNext
  BY <1>5 DEF LineType, PutNext, counters
<1>6. CASE Scroll
  BY <1>6 DEF LineType, Scroll, counters
<1>7. CASE UNCHANGED vars
  BY <1>7 DEF LineType, vars, counters
<1> QED
  BY <1>1, <1>2, <1>3, <1>4, <1>5, <1>6, <1>7 DEF Next

LEMMA StepKeys ==
    ASSUME KeyType, [Next]_vars
    PROVE  KeyType'
<1>1. CASE \E ret \in Codes :
               KeyUp(ret) \/ ModifierDown(ret) \/ CtrlKey(ret) \/ Press(ret)
  BY <1>1, ScanType
<1>2. ASSUME disturbed' \in BOOLEAN,
             UNCHANGED <<pressed, shiftdown, ctrldown, held, rightused>>
      PROVE  KeyType'
  BY <1>2 DEF KeyType
<1>3. CASE \E c \in Outputs : Cputc(c)
  <2>1. disturbed' = (disturbed \/ Midline)
    BY <1>3 DEF Cputc
  <2>2. disturbed' \in BOOLEAN
    BY <2>1, Zenon
  <2> QED
    BY <1>2, <1>3, <2>2 DEF Cputc, keyboardVars
<1>4. CASE Execute
  <2>1. disturbed' = (buffer # NUL)
    BY <1>4 DEF Execute
  <2>2. disturbed' \in BOOLEAN
    BY <2>1, Zenon
  <2> QED
    BY <1>2, <1>4, <2>2 DEF Execute, counters, keyboardVars
<1> QED
  BY <1>1, <1>2, <1>3, <1>4
     DEF Next, GetChar, PutNext, Scroll, vars, counters, keyboardVars, KeyType

\* Every variable keeps to its type, even when an interrupt falls into a
\* character: a cursor that leaves the screen does so downwards.
THEOREM TypesStay == Spec => []TypeOK
<1>1. Init => Wide(screen) /\ KeyType /\ LineType
  <2> SUFFICES ASSUME Init PROVE Wide(screen) /\ KeyType /\ LineType
    OBVIOUS
  <2>1. Wide(screen)
    <3>1. /\ init_console.x = 0 /\ init_console.y = 0
          /\ init_console.video_memory = [i \in Cells |-> " "]
      BY DEF init_console
    <3>2. Wide(init_console)
      BY <3>1, ConsoleAssumption DEF Wide, init_console
    <3> QED
      BY <3>2 DEF Init
  <2>2. KeyType
    <3>1. /\ disturbed = FALSE /\ rightused = FALSE
          /\ shiftdown = FALSE /\ ctrldown = FALSE
      BY DEF Init, init_keyboard
    <3>2. /\ disturbed \in BOOLEAN /\ rightused \in BOOLEAN
          /\ shiftdown \in BOOLEAN /\ ctrldown \in BOOLEAN
      BY <3>1, Zenon
    <3>3. pressed \in 0 .. MaxKeys /\ held \subseteq Modifiers
      BY TerminalAssumption DEF Init
    <3> QED
      BY <3>2, <3>3 DEF KeyType
  <2>3. LineType
    BY TerminalAssumption, KeyChars DEF Init, LineType
  <2> QED
    BY <2>1, <2>2, <2>3
<1>2. /\ Wide(screen) /\ KeyType /\ LineType
      /\ [Next]_vars
      => Wide(screen)' /\ KeyType' /\ LineType'
  BY StepWide, StepKeys, StepLine
<1>3. Wide(screen) /\ KeyType /\ LineType => TypeOK
  BY WideType DEF KeyType, LineType, TypeOK
<1> QED
  BY <1>1, <1>2, <1>3, PTL DEF Spec

----------------------------------------------------------------------------
\* A set of numbers has a least one.
LEMMA Least ==
    ASSUME NEW T, T \subseteq Nat, T # {}
    PROVE  \E m \in T : \A k \in T : m <= k
<1>1. PICK m \in T : \A k \in T : ~(<<k, m>> \in OpToRel(<, Nat))
  BY NatLessThanWellFounded, WFMin
<1>2. \A k \in T : ~(k < m)
  BY <1>1 DEF OpToRel
<1>3. m \in Nat /\ \A k \in T : k \in Nat
  OBVIOUS
<1> QED
  BY <1>2, <1>3

\* The text of every beginning of a line, up to its n-th character.
Solves(text, line, n) ==
    text = [j \in 0 .. n |->
               IF j = 0 THEN <<>> ELSE text[j - 1] \o Cell(line[j])]

LEMMA SolvesFacts ==
    ASSUME NEW line, NEW n \in Nat, NEW f, Solves(f, line, n)
    PROVE  /\ f[0] = <<>>
           /\ \A j \in 1 .. n : f[j] = f[j - 1] \o Cell(line[j])
<1> DEFINE g(j) == IF j = 0 THEN <<>> ELSE f[j - 1] \o Cell(line[j])
<1>1. \A j \in 0 .. n : f[j] = g(j)
  <2>1. f = [j \in 0 .. n |-> g(j)]
    BY DEF Solves
  <2> HIDE DEF g
  <2> QED
    BY <2>1
<1>2. 0 \in 0 .. n /\ \A j \in 1 .. n : j \in 0 .. n /\ j # 0
  OBVIOUS
<1>3. g(0) = <<>> /\ \A j \in 1 .. n : g(j) = f[j - 1] \o Cell(line[j])
  BY <1>2, Zenon
<1> HIDE DEF g
<1> QED
  BY <1>1, <1>2, <1>3

\* There is such a text, for every line.
LEMMA SolvesSome ==
    ASSUME NEW line, NEW n \in Nat
    PROVE  \E f : Solves(f, line, n)
<1> DEFINE T == {m \in Nat : ~ \E f : Solves(f, line, m)}
<1> SUFFICES ASSUME T # {} PROVE FALSE
  OBVIOUS
<1>1. PICK m \in T : \A k \in T : m <= k
  <2>1. T \subseteq Nat
    OBVIOUS
  <2> HIDE DEF T
  <2> QED
    BY <2>1, Least
<1>2. m \in Nat
  OBVIOUS
<1>3. CASE m = 0
  <2> DEFINE f == [j \in 0 .. 0 |-> <<>>]
             g == [j \in 0 .. 0 |->
                      IF j = 0 THEN <<>> ELSE f[j - 1] \o Cell(line[j])]
  <2>1. f = g
    <3>1. \A j \in 0 .. 0 : j = 0
      OBVIOUS
    <3> QED
      BY <3>1, Zenon
  <2>2. Solves(f, line, 0)
    BY <2>1, Zenon DEF Solves
  <2> QED
    BY <1>1, <1>3, <2>2
<1>4. CASE m # 0
  <2>1. m - 1 \in Nat /\ ~(m <= m - 1)
    BY <1>2, <1>4
  <2>2. m - 1 \notin T
    <3> HIDE DEF T
    <3> QED
      BY <1>1, <2>1
  <2>3. PICK h : Solves(h, line, m - 1)
    BY <2>1, <2>2
  <2>4. /\ h[0] = <<>>
        /\ \A j \in 1 .. m - 1 : h[j] = h[j - 1] \o Cell(line[j])
    BY <2>1, <2>3, SolvesFacts
  <2> DEFINE last == h[m - 1] \o Cell(line[m])
             f == [j \in 0 .. m |-> IF j = m THEN last ELSE h[j]]
             g(j) == IF j = 0 THEN <<>> ELSE f[j - 1] \o Cell(line[j])
  <2>5. ASSUME NEW j \in 0 .. m
        PROVE  f[j] = g(j)
    <3>1. CASE j = 0
      <4>1. f[0] = h[0] /\ g(0) = <<>>
        <5> HIDE DEF last
        <5> QED
          BY <1>2, <1>4
      <4> HIDE DEF f, g
      <4> QED
        BY <2>4, <3>1, <4>1
    <3>2. CASE j # 0
      <4>1. j \in 1 .. m /\ j - 1 \in 0 .. m /\ j - 1 # m
        BY <1>2, <3>2
      <4>2. f[j - 1] = h[j - 1]
        <5> HIDE DEF last
        <5> QED
          BY <4>1
      <4>3. f[j] = h[j - 1] \o Cell(line[j])
        <5>1. CASE j = m
          <6>1. f[m] = last
            <7> HIDE DEF last
            <7> QED
              BY <1>2
          <6> HIDE DEF f
          <6> QED
            BY <5>1, <6>1
        <5>2. CASE j # m
          <6>1. f[j] = h[j] /\ j \in 1 .. m - 1
            <7> HIDE DEF last
            <7> QED
              BY <1>2, <4>1, <5>2
          <6> HIDE DEF f
          <6> QED
            BY <2>4, <6>1
        <5> QED
          BY <5>1, <5>2
      <4>4. g(j) = f[j - 1] \o Cell(line[j])
        <5> HIDE DEF f
        <5> QED
          BY <3>2, Zenon
      <4> HIDE DEF f, g
      <4> QED
        BY <4>2, <4>3, <4>4
    <3> QED
      BY <3>1, <3>2
  <2>6. f = [j \in 0 .. m |-> f[j]]
    <3> HIDE DEF last
    <3> QED
      OBVIOUS
  <2>7. f = [j \in 0 .. m |-> g(j)]
    <3> HIDE DEF f, g
    <3> QED
      BY <2>5, <2>6
  <2>8. Solves(f, line, m)
    <3> HIDE DEF f
    <3> QED
      BY <2>7 DEF Solves
  <2> QED
    BY <1>1, <2>8
<1> QED
  BY <1>3, <1>4

\* Lines that begin alike begin with the same text.
LEMMA SolvesAlike ==
    ASSUME NEW line, NEW other, NEW n \in Nat, NEW m \in Nat, n <= m,
           \A j \in 1 .. n : line[j] = other[j],
           NEW f, Solves(f, line, n), NEW g, Solves(g, other, m)
    PROVE  f[n] = g[n]
<1>1. /\ f[0] = <<>>
      /\ \A j \in 1 .. n : f[j] = f[j - 1] \o Cell(line[j])
  BY SolvesFacts
<1>2. /\ g[0] = <<>>
      /\ \A j \in 1 .. m : g[j] = g[j - 1] \o Cell(other[j])
  BY SolvesFacts
<1> DEFINE T == {j \in 0 .. n : f[j] # g[j]}
<1>3. ASSUME T # {} PROVE FALSE
  <2>1. PICK j \in T : \A k \in T : j <= k
    <3>1. T \subseteq Nat
      OBVIOUS
    <3> HIDE DEF T
    <3> QED
      BY <1>3, <3>1, Least
  <2>2. j \in 0 .. n /\ f[j] # g[j]
    OBVIOUS
  <2>3. j # 0
    BY <1>1, <1>2, <2>2
  <2>4. /\ j \in 1 .. n /\ j \in 1 .. m /\ j - 1 \in 0 .. n
        /\ ~(j <= j - 1)
    BY <2>2, <2>3
  <2>5. j - 1 \notin T
    <3> HIDE DEF T
    <3> QED
      BY <2>1, <2>4
  <2>6. f[j - 1] = g[j - 1]
    BY <2>4, <2>5
  <2> QED
    BY <1>1, <1>2, <2>2, <2>4, <2>6
<1> QED
  BY <1>3

\* What Rendered picks is such a text.
LEMMA RenderedSolves ==
    ASSUME NEW line, Len(line) \in Nat
    PROVE  \E f : Solves(f, line, Len(line)) /\ Rendered(line) = f[Len(line)]
<1> DEFINE body(f) == [j \in 0 .. Len(line) |->
                IF j = 0 THEN <<>> ELSE f[j - 1] \o Cell(line[j])]
<1>1. PICK f : f = CHOOSE g : g = body(g)
  OBVIOUS
<1>2. Rendered(line) = f[Len(line)]
  BY <1>1 DEF Rendered
<1>3. \E g : g = body(g)
  BY SolvesSome DEF Solves
<1>4. f = body(f)
  <2> HIDE DEF body
  <2> QED
    BY <1>1, <1>3
<1> QED
  BY <1>2, <1>4 DEF Solves

\* The text of a line grows by the cells of each character.
LEMMA RenderedEmpty == Rendered(<<>>) = <<>>
<1>1. Len(<<>>) = 0 /\ 0 \in Nat
  OBVIOUS
<1>2. PICK f : Solves(f, <<>>, 0) /\ Rendered(<<>>) = f[0]
  BY <1>1, RenderedSolves
<1> QED
  BY <1>1, <1>2, SolvesFacts

LEMMA RenderedAppend ==
    ASSUME NEW S, NEW line \in Seq(S), NEW c \in S
    PROVE  Rendered(Append(line, c)) = Rendered(line) \o Cell(c)
<1>1. PICK n \in Nat : n = Len(line)
  OBVIOUS
<1>2. PICK more : more = Append(line, c)
  OBVIOUS
<1>3. /\ Len(more) = n + 1 /\ more[n + 1] = c
      /\ \A j \in 1 .. n : line[j] = more[j]
  BY <1>1, <1>2
<1>4. PICK f : Solves(f, line, n) /\ Rendered(line) = f[n]
  BY <1>1, RenderedSolves
<1>5. PICK g : Solves(g, more, n + 1) /\ Rendered(more) = g[n + 1]
  BY <1>1, <1>3, RenderedSolves
<1>6. f[n] = g[n]
  <2>1. n \in Nat /\ n + 1 \in Nat /\ n <= n + 1
    BY <1>1
  <2> QED
    BY <1>3, <1>4, <1>5, <2>1, SolvesAlike
<1>7. g[n + 1] = g[n] \o Cell(more[n + 1])
  <2>1. /\ n + 1 \in Nat /\ n + 1 \in 1 .. n + 1 /\ (n + 1) - 1 = n
    BY <1>1
  <2>2. \A j \in 1 .. n + 1 : g[j] = g[j - 1] \o Cell(more[j])
    BY <1>5, <2>1, SolvesFacts
  <2> QED
    BY <2>1, <2>2
<1> QED
  BY <1>2, <1>3, <1>4, <1>5, <1>6, <1>7

LEMMA RenderedType ==
    ASSUME NEW S, NEW line \in Seq(S),
           \A c \in S : Cell(c) \in Seq(S)
    PROVE  Rendered(line) \in Seq(S)
<1>1. PICK n \in Nat : n = Len(line)
  OBVIOUS
<1>2. PICK f : Solves(f, line, n) /\ Rendered(line) = f[n]
  BY <1>1, RenderedSolves
<1>3. /\ f[0] = <<>>
      /\ \A j \in 1 .. n : f[j] = f[j - 1] \o Cell(line[j])
  BY <1>2, SolvesFacts
<1> DEFINE T == {j \in 0 .. n : f[j] \notin Seq(S)}
<1>4. ASSUME T # {} PROVE FALSE
  <2>1. PICK j \in T : \A k \in T : j <= k
    <3>1. T \subseteq Nat
      OBVIOUS
    <3> HIDE DEF T
    <3> QED
      BY <1>4, <3>1, Least
  <2>2. j \in 0 .. n /\ f[j] \notin Seq(S)
    OBVIOUS
  <2>3. j # 0
    <3>1. f[0] \in Seq(S)
      BY <1>3, EmptySeq
    <3> QED
      BY <2>2, <3>1
  <2>4. j \in 1 .. n /\ j - 1 \in 0 .. n /\ ~(j <= j - 1)
    BY <2>2, <2>3
  <2>5. j - 1 \notin T
    <3> HIDE DEF T
    <3> QED
      BY <2>1, <2>4
  <2>6. f[j - 1] \in Seq(S)
    BY <2>4, <2>5
  <2>7. Cell(line[j]) \in Seq(S)
    BY <1>1, <2>4, ElementOfSeq
  <2>8. f[j - 1] \o Cell(line[j]) \in Seq(S)
    BY <2>6, <2>7, ConcatProperties
  <2> QED
    BY <1>3, <2>2, <2>4, <2>8
<1> QED
  BY <1>2, <1>4

----------------------------------------------------------------------------
\* What is seen at a place: below the screen nothing.
Look(s, i) == IF i \in Cells THEN s.video_memory[i] ELSE " "

\* The cells left of the cursor hold the end of a text, as far as it was not
\* scrolled away.
Agrees(s, text) ==
    \A j \in 1 .. Len(text) :
        At(s) - Len(text) + j - 1 >= 0
            => Look(s, At(s) - Len(text) + j - 1) = text[j]

LEMMA WriteLook ==
    ASSUME NEW s, NEW c, Wide(s)
    PROVE  /\ \A i : i # At(s) => Look(Write(s, c), i) = Look(s, i)
           /\ At(s) \in Cells \/ c = " " => Look(Write(s, c), At(s)) = c
<1>1. CASE At(s) \in Cells
  <2>1. Write(s, c) = [x |-> s.x, y |-> s.y,
                       video_memory |-> [s.video_memory EXCEPT ![At(s)] = c]]
    BY <1>1 DEF Write, Wide
  <2> DEFINE m == [s.video_memory EXCEPT ![At(s)] = c]
  <2>2. /\ m[At(s)] = c
        /\ \A i \in Cells \ {At(s)} : m[i] = s.video_memory[i]
    BY <1>1 DEF Wide
  <2>3. Write(s, c).video_memory = m
    BY <2>1
  <2> HIDE DEF m
  <2> QED
    BY <1>1, <2>2, <2>3 DEF Look
<1>2. CASE At(s) \notin Cells
  BY <1>2 DEF Write, Look
<1> QED
  BY <1>1, <1>2

\* A text goes on when more is written where it ends.
LEMMA Further ==
    ASSUME NEW S, NEW text \in Seq(S), NEW more \in Seq(S),
           NEW s, NEW t, At(s) \in Int, At(t) = At(s) + Len(more),
           \A i \in 0 .. At(s) - 1 : Look(t, i) = Look(s, i),
           \A k \in 1 .. Len(more) : Look(t, At(s) + k - 1) = more[k],
           Agrees(s, text)
    PROVE  Agrees(t, text \o more)
<1>a. PICK whole : whole = text \o more
  OBVIOUS
<1>b. PICK n \in Nat, m \in Nat : n = Len(text) /\ m = Len(more)
  OBVIOUS
<1>c. PICK a \in Int : a = At(s)
  OBVIOUS
<1>1. /\ whole = text \o more
      /\ n = Len(text) /\ m = Len(more) /\ a = At(s)
  BY <1>a, <1>b, <1>c
<1>2. /\ Len(whole) = n + m
      /\ \A j \in 1 .. n + m :
             whole[j] = IF j <= n THEN text[j] ELSE more[j - n]
  BY <1>1, ConcatProperties
<1>3. ASSUME NEW j \in 1 .. n + m, At(t) - (n + m) + j - 1 >= 0
      PROVE  Look(t, At(t) - (n + m) + j - 1) = whole[j]
  <2>1. /\ At(t) - (n + m) + j - 1 = a - n + j - 1
        /\ a - n + j - 1 >= 0
    BY <1>1, <1>3
  <2>2. CASE j <= n
    <3>1. j \in 1 .. n /\ a - n + j - 1 \in 0 .. a - 1
      BY <2>1, <2>2
    <3>2. Look(t, a - n + j - 1) = Look(s, a - n + j - 1)
      BY <1>1, <3>1
    <3>3. Look(s, a - n + j - 1) = text[j]
      BY <1>1, <2>1, <3>1 DEF Agrees
    <3> QED
      BY <1>2, <2>1, <2>2, <3>2, <3>3
  <2>3. CASE ~(j <= n)
    <3>1. j - n \in 1 .. m /\ a + (j - n) - 1 = a - n + j - 1
      BY <2>3
    <3>2. Look(t, a + (j - n) - 1) = more[j - n]
      BY <1>1, <3>1
    <3> QED
      BY <1>2, <2>1, <2>3, <3>1, <3>2
  <2> QED
    BY <2>2, <2>3
<1> QED
  BY <1>1, <1>2, <1>3 DEF Agrees

\* A cursor on the screen is at a cell.
LEMMA OnScreenCell ==
    ASSUME NEW s, OnScreen(s)
    PROVE  At(s) \in Cells
<1>1. /\ s.x \in 0 .. COLS - 1 /\ s.y \in 0 .. ROWS - 1
      /\ COLS \in Nat /\ ROWS \in Nat
  BY ConsoleAssumption DEF OnScreen, IsScreen
<1>2. COLS * s.y >= 0 /\ COLS * s.y \in Int
  BY <1>1
<1>3. COLS * s.y <= COLS * (ROWS - 1)
  BY <1>1
<1>4. COLS * (ROWS - 1) = COLS * ROWS - COLS /\ COLS * ROWS \in Int
  BY <1>1
<1> QED
  BY <1>1, <1>2, <1>3, <1>4 DEF At, Cells

\* Looking whether to scroll does not part a text from the cursor.
LEMMA SettleAgrees ==
    ASSUME NEW S, NEW text \in Seq(S),
           NEW s, Wide(s), IsScreen(s), Agrees(s, text)
    PROVE  Agrees(Settle(s), text)
<1>1. CASE s.y # ROWS
  BY <1>1 DEF Settle
<1>2. CASE s.y = ROWS
  <2>1. /\ COLS \in Nat /\ ROWS \in 1 .. 255 /\ s.x \in Int
        /\ At(s) \in Int /\ COLS * ROWS \in Int
        /\ COLS * (ROWS - 1) = COLS * ROWS - COLS
        /\ COLS >= 4
    BY WideFacts, ConsoleAssumption
  <2>2. PICK t : t = scroll(s)
    OBVIOUS
  <2>3. /\ t.x = s.x /\ t.y = ROWS - 1
        /\ \A i \in Cells : t.video_memory[i] =
               IF i < COLS * (ROWS - 1) THEN s.video_memory[i + COLS]
               ELSE " "
    BY <2>2 DEF scroll
  <2>4. At(t) = At(s) - COLS
    <3>1. At(s) = COLS * ROWS + s.x /\ At(t) = COLS * (ROWS - 1) + s.x
      BY <1>2, <2>3 DEF At
    <3> QED
      BY <2>1, <3>1
  <2>5. ASSUME NEW i \in Nat
        PROVE  Look(t, i) = Look(s, i + COLS)
    <3>1. i + COLS \in Cells <=> i < COLS * (ROWS - 1)
      BY <2>1 DEF Cells
    <3>2. i + COLS \in Cells => i \in Cells
      BY <2>1 DEF Cells
    <3> QED
      BY <2>3, <3>1, <3>2 DEF Look
  <2>6. PICK n \in Nat : n = Len(text)
    OBVIOUS
  <2>7. PICK a \in Int : a = At(s)
    BY <2>1
  <2>8. ASSUME NEW j \in 1 .. n, At(t) - n + j - 1 >= 0
        PROVE  Look(t, At(t) - n + j - 1) = text[j]
    <3>1. /\ At(t) - n + j - 1 \in Nat
          /\ At(t) - n + j - 1 + COLS = a - n + j - 1
          /\ a - n + j - 1 >= 0
      BY <2>1, <2>4, <2>7, <2>8
    <3>2. Look(t, At(t) - n + j - 1) = Look(s, a - n + j - 1)
      BY <2>5, <3>1
    <3>3. Look(s, a - n + j - 1) = text[j]
      BY <2>6, <2>7, <3>1 DEF Agrees
    <3> QED
      BY <3>2, <3>3
  <2> QED
    BY <1>2, <2>2, <2>6, <2>8 DEF Settle, Agrees
<1> QED
  BY <1>1, <1>2

LEMMA NextLook ==
    ASSUME NEW s, Wide(s)
    PROVE  \A i : Look(move_to_next_location(s), i) = Look(s, i)
BY MoveWide DEF Look

\* One blank of a tab is seen where the cursor was, below the screen too.
LEMMA BlankLook ==
    ASSUME NEW s, Wide(s)
    PROVE  /\ Look(Blank(s), At(s)) = " "
           /\ \A i : i # At(s) => Look(Blank(s), i) = Look(s, i)
<1>1. PICK b : b = " "
  OBVIOUS
<1>2. PICK w : w = Write(s, b)
  OBVIOUS
<1>3. Wide(w)
  BY <1>2, WriteWide
<1>4. Look(w, At(s)) = b /\ \A i : i # At(s) => Look(w, i) = Look(s, i)
  BY <1>1, <1>2, WriteLook
<1>5. Blank(s) = move_to_next_location(w)
  BY <1>1, <1>2 DEF Blank
<1>6. \A i : Look(Blank(s), i) = Look(w, i)
  BY <1>3, <1>5, NextLook
<1> QED
  BY <1>1, <1>4, <1>6

\* A tab is seen as four blanks, whatever margin it crosses.
LEMMA TabLook ==
    ASSUME NEW s, OnScreen(s), Wide(s), NEW t, t = PutChar(s, "TAB")
    PROVE  /\ At(t) = At(s) + 4
           /\ \A k \in 1 .. 4 : Look(t, At(s) + k - 1) = " "
           /\ \A i \in 0 .. At(s) - 1 : Look(t, i) = Look(s, i)
<1>1. /\ -1 \in -1 .. COLS - 2 /\ 0 \in -1 .. COLS - 2
      /\ 1 \in -1 .. COLS - 2 /\ 2 \in -1 .. COLS - 2
  BY ConsoleAssumption
<1>2. Room(s, -1) /\ At(s) \in Int
  BY WideFacts DEF Room, OnScreen
<1>3. PICK a : a = Blank(s)
  OBVIOUS
<1>4. PICK b : b = Blank(a)
  OBVIOUS
<1>5. PICK c : c = Blank(b)
  OBVIOUS
<1>6. t = Blank(c)
  BY <1>3, <1>4, <1>5 DEF PutChar
<1>7. Room(a, 0) /\ Wide(a) /\ At(a) = At(s) + 1
  <2>1. Room(a, -1 + 1)
    BY <1>1, <1>2, <1>3, BlankAt
  <2>2. Wide(a) /\ At(a) = At(s) + 1
    BY <1>1, <1>2, <1>3, BlankAt
  <2> QED
    BY <2>1, <2>2
<1>8. Room(b, 1) /\ Wide(b) /\ At(b) = At(a) + 1
  <2>1. Room(b, 0 + 1)
    BY <1>1, <1>4, <1>7, BlankAt
  <2> QED
    BY <1>1, <1>4, <1>7, <2>1, BlankAt
<1>9. Room(c, 2) /\ Wide(c) /\ At(c) = At(b) + 1
  <2>1. Room(c, 1 + 1)
    BY <1>1, <1>5, <1>8, BlankAt
  <2> QED
    BY <1>1, <1>5, <1>8, <2>1, BlankAt
<1>10. At(t) = At(c) + 1
  BY <1>1, <1>6, <1>9, BlankAt
<1>11. PICK p \in Int : p = At(s)
  BY <1>2
<1>12. At(a) = p + 1 /\ At(b) = p + 2 /\ At(c) = p + 3 /\ At(t) = p + 4
  BY <1>7, <1>8, <1>9, <1>10, <1>11
<1>13. /\ Look(a, p) = " "
       /\ \A i : i # p => Look(a, i) = Look(s, i)
  BY <1>3, <1>11, BlankLook
<1>14. /\ Look(b, p + 1) = " "
       /\ \A i : i # p + 1 => Look(b, i) = Look(a, i)
  BY <1>4, <1>7, <1>12, BlankLook
<1>15. /\ Look(c, p + 2) = " "
       /\ \A i : i # p + 2 => Look(c, i) = Look(b, i)
  BY <1>5, <1>8, <1>12, BlankLook
<1>16. /\ Look(t, p + 3) = " "
       /\ \A i : i # p + 3 => Look(t, i) = Look(c, i)
  BY <1>6, <1>9, <1>12, BlankLook
<1>17. ASSUME NEW k \in 1 .. 4
       PROVE  Look(t, p + k - 1) = " "
  <2>1. p + k - 1 \in {p, p + 1, p + 2, p + 3}
    OBVIOUS
  <2>2. p # p + 1 /\ p # p + 2 /\ p # p + 3 /\ p + 1 # p + 2
        /\ p + 1 # p + 3 /\ p + 2 # p + 3
    OBVIOUS
  <2> QED
    BY <1>13, <1>14, <1>15, <1>16, <2>1, <2>2
<1>18. ASSUME NEW i \in 0 .. p - 1
       PROVE  Look(t, i) = Look(s, i)
  <2>1. i # p /\ i # p + 1 /\ i # p + 2 /\ i # p + 3
    OBVIOUS
  <2> QED
    BY <1>13, <1>14, <1>15, <1>16, <2>1
<1> QED
  BY <1>11, <1>12, <1>17, <1>18

\* Any other character that can be seen is seen where the cursor was.
LEMMA CharLook ==
    ASSUME NEW s, OnScreen(s), Wide(s), NEW c,
           c \notin {"BS", "TAB", "CR", "LF"}, NEW t, t = PutChar(s, c)
    PROVE  /\ At(t) = At(s) + 1
           /\ Look(t, At(s)) = c
           /\ \A i \in 0 .. At(s) - 1 : Look(t, i) = Look(s, i)
<1>1. PICK w : w = Write(s, c)
  OBVIOUS
<1>2. t = move_to_next_location(w)
  BY <1>1 DEF PutChar
<1>3. Wide(w) /\ At(w) = At(s)
  BY <1>1, WriteWide
<1>4. Room(w, -1) /\ -1 \in -1 .. COLS - 2
  BY <1>1, WriteCursor, ConsoleAssumption DEF OnScreen, Room
<1>5. At(t) = At(s) + 1
  BY <1>2, <1>3, <1>4, NextAt
<1>6. At(s) \in Cells /\ At(s) \in Int
  BY OnScreenCell, WideFacts
<1>7. /\ Look(w, At(s)) = c
      /\ \A i : i # At(s) => Look(w, i) = Look(s, i)
  <2>1. /\ \A i : i # At(s) => Look(Write(s, c), i) = Look(s, i)
        /\ At(s) \in Cells \/ c = " " => Look(Write(s, c), At(s)) = c
    BY WriteLook
  <2> QED
    BY <1>1, <1>6, <2>1, Zenon
<1>8. \A i : Look(t, i) = Look(w, i)
  BY <1>2, <1>3, NextLook
<1>9. \A i \in 0 .. At(s) - 1 : i # At(s)
  BY <1>6
<1> QED
  BY <1>5, <1>7, <1>8, <1>9

LEMMA TabCell ==
    Len(Cell("TAB")) = 4 /\ \A k \in 1 .. 4 : Cell("TAB")[k] = " "
<1>1. PICK b : b = " "
  OBVIOUS
<1>2. Cell("TAB") = <<b, b, b, b>>
  BY <1>1 DEF Cell
<1>3. PICK cells : cells = <<b, b, b, b>>
  OBVIOUS
<1>4. Len(cells) = 4 /\ \A k \in 1 .. 4 : cells[k] = b
  BY <1>3
<1> QED
  BY <1>1, <1>2, <1>3, <1>4

LEMMA PutAgrees ==
    ASSUME NEW S, NEW text \in Seq(S), NEW c, Cell(c) \in Seq(S),
           c \notin {"BS", "CR", "LF"},
           NEW s, OnScreen(s), Wide(s), Agrees(s, text)
    PROVE  Agrees(console_putc_color(s, c), text \o Cell(c))
<1>1. PICK t : t = PutChar(s, c)
  OBVIOUS
<1>2. PICK more \in Seq(S) : more = Cell(c)
  OBVIOUS
<1>3. Wide(t) /\ IsScreen(t) /\ At(s) \in Int
  BY <1>1, PutWide, PutCursor, WideFacts
<1>4. /\ At(t) = At(s) + Len(more)
      /\ \A k \in 1 .. Len(more) : Look(t, At(s) + k - 1) = more[k]
      /\ \A i \in 0 .. At(s) - 1 : Look(t, i) = Look(s, i)
  <2>1. CASE c = "TAB"
    <3>1. Len(more) = 4 /\ \A k \in 1 .. 4 : more[k] = " "
      BY <1>2, <2>1, TabCell
    <3>2. /\ At(t) = At(s) + 4
          /\ \A k \in 1 .. 4 : Look(t, At(s) + k - 1) = " "
          /\ \A i \in 0 .. At(s) - 1 : Look(t, i) = Look(s, i)
      BY <1>1, <2>1, TabLook
    <3> QED
      BY <3>1, <3>2
  <2>2. CASE c # "TAB"
    <3>1. Len(more) = 1 /\ more[1] = c
      BY <1>2, <2>2 DEF Cell
    <3>2. /\ At(t) = At(s) + 1
          /\ Look(t, At(s)) = c
          /\ \A i \in 0 .. At(s) - 1 : Look(t, i) = Look(s, i)
      BY <1>1, <2>2, CharLook
    <3>3. /\ At(s) + 1 - 1 = At(s)
          /\ \A k \in 1 .. Len(more) : k = 1
      BY <1>3, <3>1
    <3> QED
      BY <3>1, <3>2, <3>3
  <2> QED
    BY <2>1, <2>2
<1>5. Agrees(t, text \o more)
  BY <1>3, <1>4, Further
<1>6. text \o more \in Seq(S)
  BY ConcatProperties
<1>7. Agrees(Settle(t), text \o more)
  BY <1>3, <1>5, <1>6, SettleAgrees
<1> QED
  BY <1>1, <1>2, <1>7 DEF console_putc_color

\* A cell back is a cell back, also across a margin; at the top left corner
\* there is nothing of a text that a scroll has left.
LEMMA BackAt ==
    ASSUME NEW s, OnScreen(s), NEW t, t = move_to_back_location(s)
    PROVE  /\ OnScreen(t)
           /\ At(t) = At(s) - 1 \/ (At(t) = 0 /\ At(s) = 0)
<1>1. /\ s = [x |-> s.x, y |-> s.y, video_memory |-> s.video_memory]
      /\ s.x \in 0 .. COLS - 1 /\ s.y \in 0 .. ROWS - 1
      /\ COLS \in Nat /\ COLS >= 4 /\ ROWS \in Nat
      /\ COLS * s.y \in Int
  BY ConsoleAssumption DEF OnScreen, IsScreen
<1>2. CASE s.x = 0 /\ s.y = 0
  <2>1. t = s /\ At(s) = 0
    BY <1>1, <1>2 DEF move_to_back_location, At
  <2> QED
    BY <2>1
<1>3. CASE s.x = 0 /\ s.y # 0
  <2>1. t = [x |-> COLS - 1, y |-> s.y - 1,
             video_memory |-> s.video_memory]
    BY <1>1, <1>3 DEF move_to_back_location
  <2>2. OnScreen(t)
    BY <1>1, <1>3, <2>1 DEF OnScreen, IsScreen
  <2>3. COLS * (s.y - 1) = COLS * s.y - COLS
    BY <1>1
  <2>4. At(t) = At(s) - 1
    BY <1>1, <1>3, <2>1, <2>3 DEF At
  <2> QED
    BY <2>2, <2>4
<1>4. CASE s.x # 0
  <2>1. t = [x |-> s.x - 1, y |-> s.y, video_memory |-> s.video_memory]
    BY <1>1, <1>4 DEF move_to_back_location
  <2>2. OnScreen(t)
    BY <1>1, <1>4, <2>1 DEF OnScreen, IsScreen
  <2>3. At(t) = At(s) - 1
    BY <1>1, <2>1 DEF At
  <2> QED
    BY <2>2, <2>3
<1> QED
  BY <1>2, <1>3, <1>4

\* A backspace takes one cell off a text.
LEMMA BackAgrees ==
    ASSUME NEW S, NEW text \in Seq(S), NEW c \in S,
           NEW s, OnScreen(s), Wide(s), Agrees(s, text \o <<c>>)
    PROVE  Agrees(console_putc_color(s, "BS"), text)
<1>1. PICK b : b = move_to_back_location(s)
  OBVIOUS
<1>2. PICK t : t = Write(b, " ")
  OBVIOUS
<1>3. /\ OnScreen(b) /\ Wide(b) /\ b.video_memory = s.video_memory
      /\ At(b) = At(s) - 1 \/ (At(b) = 0 /\ At(s) = 0)
  BY <1>1, BackAt, MoveWide
<1>4. console_putc_color(s, "BS") = t
  <2>1. PutChar(s, "BS") = t
    BY <1>1, <1>2 DEF PutChar
  <2>2. t.y = b.y
    BY <1>2, <1>3, WriteCursor DEF OnScreen
  <2>3. t.y # ROWS
    BY <1>3, <2>2, ConsoleAssumption DEF OnScreen, IsScreen
  <2> QED
    BY <2>1, <2>3 DEF console_putc_color, Settle
<1>5. At(t) = At(b) /\ \A i : i # At(b) => Look(t, i) = Look(s, i)
  <2>1. At(t) = At(b)
    BY <1>2, <1>3, WriteWide
  <2>2. \A i : i # At(b) => Look(t, i) = Look(b, i)
    BY <1>2, <1>3, WriteLook
  <2>3. \A i : Look(b, i) = Look(s, i)
    BY <1>3 DEF Look
  <2> QED
    BY <2>1, <2>2, <2>3
<1>6. PICK n \in Nat : n = Len(text)
  OBVIOUS
<1>7. PICK a \in Int : a = At(s)
  BY WideFacts
<1>8. PICK whole : whole = text \o <<c>>
  OBVIOUS
<1>9. Len(whole) = n + 1 /\ \A j \in 1 .. n : whole[j] = text[j]
  <2>1. <<c>> \in Seq(S) /\ Len(<<c>>) = 1
    OBVIOUS
  <2>2. /\ Len(whole) = n + 1
        /\ \A j \in 1 .. n + 1 :
               whole[j] = IF j <= n THEN text[j] ELSE <<c>>[j - n]
    BY <1>6, <1>8, <2>1, ConcatProperties
  <2>3. \A j \in 1 .. n : j \in 1 .. n + 1 /\ j <= n
    OBVIOUS
  <2> QED
    BY <2>2, <2>3
<1>10. ASSUME NEW j \in 1 .. n, At(t) - n + j - 1 >= 0
       PROVE  Look(t, At(t) - n + j - 1) = text[j]
  <2>1. At(t) = a - 1
    BY <1>3, <1>5, <1>7, <1>10
  <2>2. /\ At(t) - n + j - 1 = a - (n + 1) + j - 1
        /\ a - (n + 1) + j - 1 >= 0
        /\ a - (n + 1) + j - 1 # At(b)
        /\ j \in 1 .. n + 1
    BY <1>5, <1>7, <1>10, <2>1
  <2>3. Look(s, a - (n + 1) + j - 1) = whole[j]
    BY <1>7, <1>8, <1>9, <2>2 DEF Agrees
  <2> QED
    BY <1>5, <1>9, <2>2, <2>3
<1> QED
  BY <1>4, <1>6, <1>10 DEF Agrees

----------------------------------------------------------------------------
\* No key sends a carriage return.
LEMMA LayoutVisible ==
    ASSUME NEW digits, NEW upper, NEW home, NEW lower,
           \A k \in 1 .. 12 : digits[k] # "CR",
           \A k \in 1 .. 12 : upper[k] # "CR",
           \A k \in 1 .. 12 : home[k] # "CR",
           \A k \in 1 .. 11 : lower[k] # "CR",
           NEW ret \in 0 .. 127
    PROVE  Layout(digits, upper, home, lower)[ret] # "CR"
<1>1. PICK key : key = Layout(digits, upper, home, lower)[ret]
  OBVIOUS
<1>2. PICK blank : blank = " "
  OBVIOUS
<1>3. key =
        CASE ret = 1 -> "ESC" [] ret = 14 -> "BS" [] ret = 15 -> "TAB"
          [] ret = 28 -> "LF" [] ret = 57 -> blank
          [] ret = 55 -> "*" [] ret = 74 -> "-" [] ret = 78 -> "+"
          [] ret \in 2 .. 13 -> digits[ret - 1]
          [] ret \in 16 .. 27 -> upper[ret - 15]
          [] ret \in 30 .. 41 -> home[ret - 29]
          [] ret \in 43 .. 53 -> lower[ret - 42]
          [] OTHER -> "NUL"
  BY <1>1, <1>2, Zenon DEF Layout, NUL
<1>4. blank # "CR"
  BY <1>2, Zenon
<1>5. /\ ret \in 2 .. 13 => ret - 1 \in 1 .. 12
      /\ ret \in 16 .. 27 => ret - 15 \in 1 .. 12
      /\ ret \in 30 .. 41 => ret - 29 \in 1 .. 12
      /\ ret \in 43 .. 53 => ret - 42 \in 1 .. 11
  OBVIOUS
<1>6. key # "CR"
  BY <1>3, <1>4, <1>5
<1> QED
  BY <1>1, <1>6

LEMMA KeysVisible == \A c \in Chars : c # "CR"
<1>1. \A ret \in 0 .. 127 : keytable[ret] # "CR"
  <2>1. PICK semi : semi = ";"
    OBVIOUS
  <2>2. PICK comma : comma = ","
    OBVIOUS
  <2>3. semi # "CR" /\ comma # "CR"
    BY <2>1, <2>2, Zenon
  <2>4. PICK digits : digits =
            <<"1", "2", "3", "4", "5", "6", "7", "8", "9", "0", "-", "=">>
    OBVIOUS
  <2>5. PICK upper : upper =
            <<"q", "w", "e", "r", "t", "y", "u", "i", "o", "p", "[", "]">>
    OBVIOUS
  <2>6. PICK home : home =
            <<"a", "s", "d", "f", "g", "h", "j", "k", "l", semi, "'",
              "GRAVE">>
    OBVIOUS
  <2>7. PICK lower : lower =
            <<"\\", "z", "x", "c", "v", "b", "n", "m", comma, ".", "/">>
    OBVIOUS
  <2>8. \A k \in 1 .. 12 : digits[k] # "CR"
    BY <2>3, <2>4
  <2>9. \A k \in 1 .. 12 : upper[k] # "CR"
    BY <2>3, <2>5
  <2>10. \A k \in 1 .. 12 : home[k] # "CR"
    BY <2>3, <2>6
  <2>11. \A k \in 1 .. 11 : lower[k] # "CR"
    BY <2>3, <2>7
  <2>12. keytable = Layout(digits, upper, home, lower)
    BY <2>1, <2>2, <2>4, <2>5, <2>6, <2>7,
       Zenon DEF keytable
  <2> QED
    BY <2>8, <2>9, <2>10, <2>11, <2>12, LayoutVisible
<1>2. \A ret \in 0 .. 127 : keytable_shift[ret] # "CR"
  <2>1. PICK under : under = "_"
    OBVIOUS
  <2>2. PICK open : open = "{"
    OBVIOUS
  <2>3. PICK close : close = "}"
    OBVIOUS
  <2>4. PICK quote : quote = "\""
    OBVIOUS
  <2>5. under # "CR" /\ open # "CR" /\ close # "CR" /\ quote # "CR"
    BY <2>1, <2>2, <2>3, <2>4, Zenon
  <2>6. PICK digits : digits =
            <<"!", "@", "#", "$", "%", "^", "&", "*", "(", ")", under, "+">>
    OBVIOUS
  <2>7. PICK upper : upper =
            <<"Q", "W", "E", "R", "T", "Y", "U", "I", "O", "P", open, close>>
    OBVIOUS
  <2>8. PICK home : home =
            <<"A", "S", "D", "F", "G", "H", "J", "K", "L", ":", quote, "~">>
    OBVIOUS
  <2>9. PICK lower : lower =
            <<"|", "Z", "X", "C", "V", "B", "N", "M", "<", ">", "?">>
    OBVIOUS
  <2>10. \A k \in 1 .. 12 : digits[k] # "CR"
    BY <2>5, <2>6
  <2>11. \A k \in 1 .. 12 : upper[k] # "CR"
    BY <2>5, <2>7
  <2>12. \A k \in 1 .. 12 : home[k] # "CR"
    BY <2>5, <2>8
  <2>13. \A k \in 1 .. 11 : lower[k] # "CR"
    BY <2>5, <2>9
  <2>14. keytable_shift = Layout(digits, upper, home, lower)
    BY <2>1, <2>2, <2>3, <2>4, <2>6, <2>7, <2>8, <2>9,
       Zenon DEF keytable_shift
  <2> QED
    BY <2>10, <2>11, <2>12, <2>13, <2>14, LayoutVisible
<1> QED
  BY <1>1, <1>2 DEF Chars

\* What can be in a cell.
Glyphs == Chars \cup {" "}

LEMMA GlyphCells == \A c \in Glyphs : Cell(c) \in Seq(Glyphs)
<1>1. PICK b \in Glyphs : b = " "
  BY DEF Glyphs
<1>2. ASSUME NEW c \in Glyphs, c = "TAB"
      PROVE  Cell(c) \in Seq(Glyphs)
  <2>1. Cell(c) = <<b, b, b, b>>
    BY <1>1, <1>2 DEF Cell
  <2> QED
    BY <2>1
<1>3. ASSUME NEW c \in Glyphs, c # "TAB"
      PROVE  Cell(c) \in Seq(Glyphs)
  <2>1. Cell(c) = <<c>>
    BY <1>3 DEF Cell
  <2> QED
    BY <2>1
<1> QED
  BY <1>2, <1>3

LEMMA LineRendered ==
    ASSUME NEW line \in Seq(Chars \ {NUL, "LF", "BS"})
    PROVE  line \in Seq(Glyphs) /\ Rendered(line) \in Seq(Glyphs)
<1>1. Chars \ {NUL, "LF", "BS"} \subseteq Glyphs
  BY DEF Glyphs
<1>2. line \in Seq(Glyphs)
  BY <1>1, SeqMonotonic
<1> QED
  BY <1>2, GlyphCells, RenderedType

----------------------------------------------------------------------------
\* While the shell prints nothing is typed without disturbing it, and while
\* it reads what is left of the cursor ends with the line, even when its
\* beginning has left the screen: a backspace may bring WhatYouSee back.
SeenInv ==
    ~disturbed =>
        /\ pc \in {"print", "settle"} => usr_buff = <<>> /\ buffer = NUL
        /\ pc = "getc" /\ buffer # "LF" => Agrees(screen, Rendered(Typed))

LEMMA EmptySeen ==
    ASSUME NEW s
    PROVE  Agrees(s, Rendered(Edited(<<>>, NUL)))
<1>1. Edited(<<>>, NUL) = <<>>
  BY DEF Edited
<1>2. Agrees(s, <<>>)
  BY DEF Agrees
<1> QED
  BY <1>1, <1>2, RenderedEmpty

\* Nothing typed: whatever is printed does not matter.
LEMMA NothingTyped ==
    ASSUME usr_buff' = <<>>, buffer' = NUL
    PROVE  SeenInv'
<1>1. Agrees(screen', Rendered(Typed)')
  BY EmptySeen DEF Typed
<1> QED
  BY <1>1 DEF SeenInv

LEMMA PressSeen ==
    ASSUME CursorInv, Wide(screen), LineType, SeenInv,
           NEW ret \in Codes, Press(ret), IntrOn
    PROVE  SeenInv'
<1> SUFFICES ASSUME ~disturbed' PROVE SeenInv'
  BY DEF SeenInv
<1>1. PICK k : k = Char(ret)
  OBVIOUS
<1>2. /\ ~disturbed /\ ~Strays(k)
      /\ buffer' = k /\ screen' = console_putc_color(screen, k)
      /\ usr_buff' = usr_buff /\ pc' = pc
  BY <1>1 DEF Press, Scancode
<1>3. /\ pc = "getc" /\ buffer = NUL /\ k # NUL
      /\ ~(k = "BS" /\ usr_buff = <<>>)
      /\ ~(k = "BS" /\ usr_buff[Len(usr_buff)] = "TAB")
  BY <1>2 DEF Strays
<1>4. OnScreen(screen)
  BY <1>3 DEF CursorInv
<1>5. Agrees(screen, Rendered(usr_buff))
  <2>1. Typed = usr_buff /\ buffer # "LF"
    BY <1>3 DEF Typed, Edited, NUL
  <2> QED
    BY <1>2, <1>3, <2>1 DEF SeenInv
<1>6. k \in Chars
  <2>1. ret \in 0 .. 127
    BY TerminalAssumption DEF Press, IsKey, IsRelease
  <2> QED
    BY <1>1, <2>1, KeyChars
<1>7. PICK line \in Seq(Chars \ {NUL, "LF", "BS"}) : line = usr_buff
  BY DEF LineType
<1>8. CASE k = "LF"
  BY <1>2, <1>3, <1>8 DEF SeenInv
<1>9. CASE k = "BS"
  <2>1. PICK n \in Nat : n = Len(line)
    OBVIOUS
  <2>2. n >= 1 /\ line # <<>>
    BY <1>3, <1>7, <1>9, <2>1
  <2>3. PICK rest : rest = SubSeq(line, 1, n - 1)
    OBVIOUS
  <2>4. PICK c : c = line[n]
    OBVIOUS
  <2>5. c \in Glyphs /\ c # "TAB"
    <3>1. line \in Seq(Glyphs) /\ n \in 1 .. Len(line)
      <4>1. n \in 1 .. Len(line)
        BY <2>1, <2>2
      <4> QED
        BY <4>1, LineRendered
    <3> QED
      BY <1>3, <1>7, <1>9, <2>1, <2>4, <3>1, ElementOfSeq
  <2>6. /\ rest \in Seq(Chars \ {NUL, "LF", "BS"})
        /\ line = Append(rest, c)
    <3> DEFINE S == Chars \ {NUL, "LF", "BS"}
    <3>1. line \in Seq(S)
      OBVIOUS
    <3> HIDE DEF S
    <3>2. rest \in Seq(S) /\ line = Append(rest, c)
      BY <2>1, <2>2, <2>3, <2>4, <3>1
    <3> QED
      BY <3>2 DEF S
  <2>7. rest \in Seq(Glyphs) /\ Rendered(rest) \in Seq(Glyphs)
    BY <2>6, LineRendered
  <2>8. Rendered(line) = Rendered(rest) \o <<c>>
    <3>1. Cell(c) = <<c>>
      BY <2>5 DEF Cell
    <3>2. Rendered(Append(rest, c)) = Rendered(rest) \o Cell(c)
      BY <2>5, <2>7, RenderedAppend
    <3> QED
      BY <2>6, <3>1, <3>2
  <2>9. Agrees(screen, Rendered(rest) \o <<c>>)
    BY <1>5, <1>7, <2>8
  <2>10. Agrees(console_putc_color(screen, "BS"), Rendered(rest))
    BY <1>4, <2>5, <2>7, <2>9, BackAgrees
  <2>11. Typed' = rest
    BY <1>2, <1>7, <1>9, <2>1, <2>2, <2>3 DEF Typed, Edited, ButLast, NUL
  <2>12. Agrees(screen', Rendered(Typed'))
    BY <1>2, <1>9, <2>10, <2>11
  <2> QED
    BY <1>2, <1>3, <2>12 DEF SeenInv
<1>10. CASE k \notin {"LF", "BS"}
  <2>1. line \in Seq(Glyphs) /\ Rendered(line) \in Seq(Glyphs)
    BY LineRendered
  <2>2. k \in Glyphs /\ Cell(k) \in Seq(Glyphs)
    BY <1>6, GlyphCells DEF Glyphs
  <2>3. k \notin {"BS", "CR", "LF"}
    BY <1>6, <1>10, KeysVisible
  <2>4. Rendered(Append(line, k)) = Rendered(line) \o Cell(k)
    BY <2>1, <2>2, RenderedAppend
  <2>5. Agrees(screen, Rendered(line))
    BY <1>5, <1>7
  <2>6. Agrees(console_putc_color(screen, k), Rendered(line) \o Cell(k))
    BY <1>4, <2>1, <2>2, <2>3, <2>5, PutAgrees
  <2>7. Typed' = Append(line, k)
    BY <1>2, <1>3, <1>7, <1>10 DEF Typed, Edited
  <2>8. Agrees(screen', Rendered(Typed'))
    BY <1>2, <2>4, <2>6, <2>7
  <2> QED
    BY <1>2, <1>3, <2>8 DEF SeenInv
<1> QED
  BY <1>8, <1>9, <1>10

LEMMA StepSeen ==
    ASSUME PutAtomic, CursorInv, Wide(screen), LineType, SeenInv,
           [Next]_vars
    PROVE  SeenInv'
<1>1. ASSUME UNCHANGED <<screen, buffer, usr_buff, pc, disturbed>>
      PROVE  SeenInv'
  <2>1. Typed' = Typed
    BY <1>1 DEF Typed
  <2> QED
    BY <1>1, <2>1 DEF SeenInv
<1>2. ASSUME UNCHANGED <<buffer, usr_buff>>,
             disturbed' = (disturbed \/ Midline)
      PROVE  SeenInv'
  <2>1. CASE Midline
    BY <1>2, <2>1 DEF SeenInv
  <2>2. CASE ~Midline
    BY <1>2, <2>2, NothingTyped DEF Midline
  <2> QED
    BY <2>1, <2>2
<1>3. ASSUME NEW ret \in Codes, KeyUp(ret) \/ ModifierDown(ret)
      PROVE  SeenInv'
  BY <1>1, <1>3 DEF KeyUp, ModifierDown, Scancode
<1>4. ASSUME NEW ret \in Codes, CtrlKey(ret)
      PROVE  SeenInv'
  BY <1>1, <1>2, <1>4 DEF CtrlKey, Scancode
<1>5. ASSUME NEW ret \in Codes, Press(ret)
      PROVE  SeenInv'
  <2>1. IntrOn
    BY <1>5 DEF Press, Scancode
  <2> QED
    BY <1>5, <2>1, PressSeen
<1>6. CASE \E c \in Outputs : Cputc(c)
  BY <1>2, <1>6 DEF Cputc
<1>7. CASE GetChar
  <2>1. CASE buffer = "LF"
    BY <1>7, <2>1 DEF GetChar, SeenInv
  <2>2. CASE buffer # "LF"
    <3>1. Typed' = Typed /\ screen' = screen /\ disturbed' = disturbed
      BY <1>7 DEF GetChar, Typed, Edited
    <3>2. pc = "getc" /\ pc' = "getc"
      BY <1>7, <2>2 DEF GetChar
    <3> QED
      BY <2>2, <3>1, <3>2 DEF SeenInv
  <2> QED
    BY <2>1, <2>2
<1>8. CASE Execute
  <2>1. usr_buff' = <<>> /\ buffer' = buffer /\ disturbed' = (buffer # NUL)
    BY <1>8 DEF Execute
  <2>2. CASE buffer = NUL
    BY <2>1, <2>2, NothingTyped
  <2>3. CASE buffer # NUL
    BY <2>1, <2>3 DEF SeenInv
  <2> QED
    BY <2>2, <2>3
<1>9. ASSUME PutNext \/ Scroll
      PROVE  SeenInv'
  <2>1. /\ UNCHANGED <<buffer, usr_buff, disturbed>>
        /\ pc \in {"print", "settle"}
    BY <1>9 DEF PutNext, Scroll
  <2>2. CASE disturbed
    BY <2>1, <2>2 DEF SeenInv
  <2>3. CASE ~disturbed
    BY <2>1, <2>3, NothingTyped DEF SeenInv
  <2> QED
    BY <2>2, <2>3
<1> QED
  BY <1>1, <1>3, <1>4, <1>5, <1>6, <1>7, <1>8, <1>9 DEF Next, vars

\* What is seen is what is shown.
LEMMA SeenShown ==
    ASSUME CursorInv, Wide(screen), LineType, SeenInv
    PROVE  WhatYouSee
<1> SUFFICES ASSUME pc = "getc", ~disturbed, buffer # "LF",
                    Len(Rendered(Typed)) <= At(screen)
             PROVE  Shown(Len(Rendered(Typed))) = Rendered(Typed)
  BY DEF WhatYouSee
<1>1. Rendered(Typed) \in Seq(Glyphs)
  BY EditedType, LineRendered DEF LineType, Typed
<1>2. PICK text \in Seq(Glyphs) : text = Rendered(Typed)
  BY <1>1
<1>3. PICK n \in Nat : n = Len(text)
  OBVIOUS
<1>4. text = [j \in 1 .. n |-> text[j]]
  BY <1>3, LenProperties
<1>5. Agrees(screen, text)
  BY <1>2 DEF SeenInv
<1>6. PICK a \in Int : a = At(screen)
  BY WideFacts
<1>7. a \in Cells
  BY <1>6, OnScreenCell DEF CursorInv
<1>8. ASSUME NEW j \in 1 .. n
      PROVE  screen.video_memory[a - n + j - 1] = text[j]
  <2>1. a - n + j - 1 >= 0 /\ a - n + j - 1 < a
    BY <1>2, <1>3, <1>6
  <2>2. a - n + j - 1 \in Cells
    BY <1>7, <2>1, ConsoleAssumption DEF Cells
  <2>3. Look(screen, a - n + j - 1) = text[j]
    BY <1>3, <1>5, <1>6, <2>1 DEF Agrees
  <2> QED
    BY <2>2, <2>3 DEF Look
<1>9. \A j \in 1 .. n : a - n + j - 1 = At(screen) - n + j - 1
  BY <1>6
<1>10. Shown(n) = [j \in 1 .. n |-> screen.video_memory[a - n + j - 1]]
  BY <1>6 DEF Shown
<1> QED
  BY <1>2, <1>3, <1>4, <1>8, <1>10

\* What the user sees left of the cursor is the line the shell will get, for
\* every screen of four columns or more, and whatever is typed, rubbed out,
\* wrapped and scrolled, as long as no interrupt falls into a character and
\* nothing came between the line and its echo.
THEOREM LineAlwaysSeen ==
    ASSUME PutAtomic
    PROVE  Spec => []WhatYouSee
<1> DEFINE Inv == CursorInv /\ Wide(screen) /\ LineType /\ SeenInv
<1>1. Init => Inv
  <2> SUFFICES ASSUME Init PROVE Inv
    OBVIOUS
  <2>1. OnScreen(init_console) /\ Wide(init_console)
    BY ConsoleAssumption DEF OnScreen, IsScreen, Wide, init_console
  <2>2. CursorInv /\ Wide(screen)
    BY <2>1 DEF Init, CursorInv, OnScreen
  <2>3. LineType
    BY TerminalAssumption, KeyChars DEF Init, LineType
  <2>4. SeenInv
    BY DEF Init, SeenInv
  <2> QED
    BY <2>2, <2>3, <2>4
<1>2. Inv /\ [Next]_vars => Inv'
  BY StepCursor, StepWide, StepLine, StepSeen
<1>3. Inv => WhatYouSee
  BY SeenShown
<1> QED
  BY <1>1, <1>2, <1>3, PTL DEF Spec
=============================================================================
