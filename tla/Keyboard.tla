------------------------------ MODULE Keyboard ------------------------------
(***************************************************************************)
(* What keyboard_handler() makes of a scancode, drivers/keyboard.c: the    *)
(* two layouts and the state of shift and ctrl.  Codes from 128 on are     *)
(* releases.  A key without a character gives NUL.                         *)
(***************************************************************************)
EXTENDS Integers, Sequences

NUL == "NUL"
LCTRL == 29
LSHIFT == 42
RSHIFT == 54
B_KEY == 48
Modifiers == {LCTRL, LSHIFT, RSHIFT}
IsRelease(ret) == ret >= 128
Released(ret) == ret - 128

\* Codes 2-13, 16-27, 30-41 and 43-53 are the four rows of a US keyboard.
Layout(digits, upper, home, lower) ==
    [ret \in 0 .. 127 |->
        CASE ret = 1 -> "ESC" [] ret = 14 -> "BS" [] ret = 15 -> "TAB"
          [] ret = 28 -> "LF" [] ret = 57 -> " "
          [] ret = 55 -> "*" [] ret = 74 -> "-" [] ret = 78 -> "+"
          [] ret \in 2 .. 13 -> digits[ret - 1]
          [] ret \in 16 .. 27 -> upper[ret - 15]
          [] ret \in 30 .. 41 -> home[ret - 29]
          [] ret \in 43 .. 53 -> lower[ret - 42]
          [] OTHER -> NUL]

keytable == Layout(
    <<"1", "2", "3", "4", "5", "6", "7", "8", "9", "0", "-", "=">>,
    <<"q", "w", "e", "r", "t", "y", "u", "i", "o", "p", "[", "]">>,
    <<"a", "s", "d", "f", "g", "h", "j", "k", "l", ";", "'", "GRAVE">>,
    <<"\\", "z", "x", "c", "v", "b", "n", "m", ",", ".", "/">>)
keytable_shift == Layout(
    <<"!", "@", "#", "$", "%", "^", "&", "*", "(", ")", "_", "+">>,
    <<"Q", "W", "E", "R", "T", "Y", "U", "I", "O", "P", "{", "}">>,
    <<"A", "S", "D", "F", "G", "H", "J", "K", "L", ":", "\"", "~">>,
    <<"|", "Z", "X", "C", "V", "B", "N", "M", "<", ">", "?">>)
Chars == {keytable[ret] : ret \in 0 .. 127}
             \cup {keytable_shift[ret] : ret \in 0 .. 127}

VARIABLES
    shiftdown,    \* characters come from keytable_shift
    ctrldown      \* keys are commands to the kernel

init_keyboard == shiftdown = FALSE /\ ctrldown = FALSE

\* Only the left shift's release, 170, ends shift.
Release_any_shift(ret) ==   \* mutant: every release ends shift
    /\ ctrldown' = (ctrldown /\ Released(ret) # LCTRL)
    /\ shiftdown' = FALSE
Release(ret) ==
    /\ ctrldown' = (ctrldown /\ Released(ret) # LCTRL)
    /\ shiftdown' = (shiftdown /\ Released(ret) # LSHIFT)

Modify(ret) ==
    /\ shiftdown' = (shiftdown \/ ret \in {LSHIFT, RSHIFT})
    /\ ctrldown' = (ctrldown \/ ret = LCTRL)

\* The character of a key that is neither a modifier nor pressed with ctrl.
Char(ret) == IF shiftdown THEN keytable_shift[ret] ELSE keytable[ret]
=============================================================================
