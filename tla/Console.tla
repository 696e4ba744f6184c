------------------------------ MODULE Console ------------------------------
(***************************************************************************)
(* The text screen, drivers/console.c: a cursor and the cells of the VGA's *)
(* text mode.  A screen is a record of the cursor and the cells; colours   *)
(* and the hardware's own cursor are left out.                             *)
(***************************************************************************)
EXTENDS Integers, Sequences

CONSTANTS COLS, ROWS    \* 80 and 25 in the code

\* A tab's four cells never cross two rows.
ASSUME ConsoleAssumption == COLS \in Nat /\ COLS >= 4 /\ ROWS \in 1 .. 255

Cells == 0 .. COLS * ROWS - 1
At(s) == COLS * s.y + s.x      \* where the cursor is
init_console == [x |-> 0, y |-> 0, video_memory |-> [i \in Cells |-> " "]]

\* video_memory[cursor] = c.  Below row 25 the cursor is off the screen, and
\* what is written there is never seen.
Write(s, c) ==
    IF At(s) \in Cells THEN [s EXCEPT !.video_memory[At(s)] = c] ELSE s

\* cursor_y is a uint8_t.
Down(s) ==
    [x |-> 0, y |-> (s.y + 1) % 256, video_memory |-> s.video_memory]
move_to_next_location_late(s) ==   \* mutant: wraps one column late
    IF s.x = COLS THEN Down(s) ELSE [s EXCEPT !.x = @ + 1]
move_to_next_location(s) ==
    IF s.x + 1 = COLS THEN Down(s) ELSE [s EXCEPT !.x = @ + 1]

move_to_back_location_stays(s) ==   \* mutant: never goes up a row
    IF s.x = 0 THEN s ELSE [s EXCEPT !.x = @ - 1]
move_to_back_location(s) ==
    IF s.x = 0 /\ s.y = 0 THEN s
    ELSE IF s.x = 0 THEN [s EXCEPT !.x = COLS - 1, !.y = @ - 1]
    ELSE [s EXCEPT !.x = @ - 1]

Blank(s) == move_to_next_location(Write(s, " "))

\* console_putc_color() up to its last if.
PutChar(s, c) ==
    CASE c = "BS"  -> Write(move_to_back_location(s), " ")
      [] c = "TAB" -> Blank(Blank(Blank(Blank(s))))
      [] c = "CR"  -> [s EXCEPT !.x = 0]
      [] c = "LF"  -> Down(s)
      [] OTHER     -> move_to_next_location(Write(s, c))

scroll_keeps_last(s) ==   \* mutant: the last row is not cleared
    [x |-> s.x, y |-> ROWS - 1,
     video_memory |-> [i \in Cells |->
         IF i < COLS * (ROWS - 1) THEN s.video_memory[i + COLS]
         ELSE s.video_memory[i]]]
scroll(s) ==
    [x |-> s.x, y |-> ROWS - 1,
     video_memory |-> [i \in Cells |->
         IF i < COLS * (ROWS - 1) THEN s.video_memory[i + COLS]
         ELSE " "]]

\* Its last if.
Settle_late(s) == IF s.y > ROWS THEN scroll(s) ELSE s   \* mutant
Settle(s) == IF s.y = ROWS THEN scroll(s) ELSE s

console_putc_color(s, c) == Settle(PutChar(s, c))
=============================================================================
