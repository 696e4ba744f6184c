------------------------------- MODULE Printk -------------------------------
(***************************************************************************)
(* Formatted output, kernel/debug/printk.c.  vsprintf() turns its format   *)
(* into text with interrupts off, in the one static buffer of printk() (or *)
(* of printk_color()); terminating the buffer and writing it out happens   *)
(* with interrupts on.  The shell and a process (bin/n_queens.c) may be in *)
(* printk() at the same time.                                              *)
(*                                                                         *)
(* A format is a sequence of characters; an argument is a word of W bits,  *)
(* a character or a string (a sequence of characters).                     *)
(***************************************************************************)
EXTENDS Integers, Sequences, SequencesExt

CONSTANTS
    W,          \* bits of a word, 32 in the code
    SIZE,       \* length of a buffer, 1024 in the code
    Threads,    \* the threads that print
    Calls(_, _) \* Calls(t, k): what thread t's k-th call may be, each
                \* [fn, format, args, want]; want, for the properties, is
                \* what the format asks for, directive by directive.
                \* Bound: the text and its NUL fit into the buffer.

ASSUME PrintkAssumption == W \in 2 .. 30 /\ SIZE \in Nat \ {0}

VARIABLES
    buff,       \* buff[fn]: the static buffer of printk() and printk_color()
    pc,         \* where each thread is: "user", "terminate" or "write"
    call,       \* its call
    made,       \* the number of calls it has made
    i,          \* what vsprintf() returned to it
    pos,        \* how far console_write() has read the buffer for it
    out,        \* history: what that has put on the console
    alone,      \* history: no other call changed the buffer meanwhile
    far         \* history: length of the longest text put there meanwhile

vars == <<buff, pc, call, made, i, pos, out, alone, far>>

NUL == "NUL"
BLANK == " "
Fn == {"printk", "printk_color"}
small == <<"0", "1", "2", "3", "4", "5", "6", "7", "8", "9",
           "a", "b", "c", "d", "e", "f">>
large == <<"0", "1", "2", "3", "4", "5", "6", "7", "8", "9",
           "A", "B", "C", "D", "E", "F">>
Numerals == SubSeq(large, 1, 10)

Negative(num) == num >= 2 ^ (W - 1)
Negated_ones(num) == 2 ^ W - 1 - num   \* mutant: the ones' complement
Negated(num) == (2 ^ W - num) % (2 ^ W)
Signed(num) == IF Negative(num) THEN num - 2 ^ W ELSE num
Maximum(a, b) == IF a > b THEN a ELSE b
Fill(n, c) == [k \in 1 .. Maximum(n, 0) |-> c]

----------------------------------------------------------------------------
\* number().  The division is unsigned, so the one number whose negation is
\* itself, -2^(W-1), prints right.
Minus(num, type) == "SIGN" \in type /\ Negative(num)
Sign(num, type) ==
    IF Minus(num, type) THEN <<"-">>
    ELSE IF "PLUS" \in type THEN <<"+">>
    ELSE IF "SPACE" \in type THEN <<BLANK>> ELSE <<>>

Digits(type) == IF "SMALL" \in type THEN small ELSE large
Prefix(base, type) ==
    IF "SPECIAL" \notin type THEN <<>>
    ELSE IF base = 8 THEN <<"0">>
    ELSE IF base = 16 THEN <<"0", IF "SMALL" \in type THEN "x" ELSE "X">>
    ELSE <<>>

\* What the divisions leave, the last digit last.
Figures(num, base, digits) ==
    LET tmp[n \in 0 .. num] ==
            (IF n < base THEN <<>> ELSE tmp[n \div base])
                \o <<digits[(n % base) + 1]>>
    IN  tmp[num]

number(num, base, size, precision, type) ==
    LET figures == Figures(IF Minus(num, type) THEN Negated(num) ELSE num,
                           base, Digits(type))
        head == Sign(num, type) \o Prefix(base, type)
        body == Fill(precision - Len(figures), "0") \o figures
        rest == size - Len(head) - Len(body)
    IN  IF "LEFT" \in type THEN head \o body \o Fill(rest, BLANK)
        ELSE IF "ZEROPAD" \in type THEN head \o Fill(rest, "0") \o body
        ELSE Fill(rest, BLANK) \o head \o body

----------------------------------------------------------------------------
\* A directive is read off the format: flags, width, precision, qualifier.
Flag == [c \in {"-", "+", BLANK, "#", "0"} |->
            CASE c = "-" -> "LEFT" [] c = "+" -> "PLUS" [] c = BLANK -> "SPACE"
              [] c = "#" -> "SPECIAL" [] c = "0" -> "ZEROPAD"]
is_digit(c) == c \in ToSet(Numerals)

\* The n-th character; the format ends in a NUL.
Char(format, n) == IF n <= Len(format) THEN format[n] ELSE NUL

\* The first place from there on whose character is not in S.
Past(format, from, S) ==
    CHOOSE j \in from .. Len(format) + 1 :
        /\ Char(format, j) \notin S
        /\ \A k \in from .. j - 1 : format[k] \in S

\* What the characters s say as digits of a number; the base is 10 here.
Numeral(digits, c) == SelectInSeq(digits, LAMBDA d : d = c) - 1
Reads(s, digits, base) ==
    LET sum[k \in 0 .. Len(s)] ==
            IF k = 0 THEN 0 ELSE base * sum[k - 1] + Numeral(digits, s[k])
    IN  sum[Len(s)]
skip_atoi(s) == Reads(s, Numerals, 10)

\* A width or precision taken from the arguments ("*") is not skipped in the
\* format: the "*" then counts as an unknown conversion.
Directive(format, at, args) ==
    LET a     == Past(format, at + 1, DOMAIN Flag)
        flags == {Flag[format[k]] : k \in at + 1 .. a - 1}
        b     == Past(format, a, ToSet(Numerals))
        star  == Char(format, a) = "*"
        width == IF a # b THEN skip_atoi(SubSeq(format, a, b - 1))
                 ELSE IF star THEN Signed(args[1]) ELSE -1
        left  == IF star /\ width < 0 THEN {"LEFT"} ELSE {}
        rest  == IF star THEN Tail(args) ELSE args
        dot   == Char(format, b) = "."
        c     == IF dot THEN Past(format, b + 1, ToSet(Numerals)) ELSE b
        pstar == dot /\ Char(format, c) = "*" /\ c = b + 1
        prec  == IF ~dot THEN -1
                 ELSE IF pstar THEN Maximum(Signed(rest[1]), 0)
                 ELSE skip_atoi(SubSeq(format, b + 1, c - 1))
        d     == IF Char(format, c) \in {"h", "l", "L"} THEN c + 1 ELSE c
    IN  [flags |-> flags \cup left,
         field_width |-> IF star /\ width < 0 THEN -width ELSE width,
         precision |-> prec, conv |-> Char(format, d), next |-> d + 1,
         args |-> IF pstar THEN Tail(rest) ELSE rest]

Base == [c \in {"o", "p", "x", "X", "d", "i", "u", "b"} |->
            CASE c = "o" -> 8 [] c = "b" -> 2
              [] c \in {"p", "x", "X"} -> 16 [] OTHER -> 10]

\* %p without a width is eight digits with leading zeros.
ConvertNumber(d, num) ==
    LET bare == d.conv = "p" /\ d.field_width = -1
        more == CASE d.conv = "x" -> {"SMALL"}
                  [] d.conv \in {"d", "i"} -> {"SIGN"}
                  [] bare -> {"ZEROPAD"} [] OTHER -> {}
    IN  number(num, Base[d.conv], IF bare THEN 8 ELSE d.field_width,
               d.precision, d.flags \cup more)

Justify(d, text) ==
    LET blanks == Fill(d.field_width - Len(text), BLANK)
    IN  IF "LEFT" \in d.flags THEN text \o blanks ELSE blanks \o text

ConvertString(d, s) ==
    Justify(d, IF d.precision < 0 \/ Len(s) <= d.precision THEN s
               ELSE SubSeq(s, 1, d.precision))

\* The text of an argument, for the conversions that have one.
Convert(d, arg) ==
    IF d.conv = "c" THEN Justify(d, <<arg>>)
    ELSE IF d.conv = "s" THEN ConvertString(d, arg)
    ELSE ConvertNumber(d, arg)

\* Anything else is copied, a "%" once; the format may end here.
ConvertOther(d) ==
    (IF d.conv = "%" THEN <<>> ELSE <<"%">>)
        \o (IF d.conv = NUL THEN <<>> ELSE <<d.conv>>)

\* One turn of vsprintf()'s loop: s is its state, the place in the format,
\* the arguments left, the text so far, and what %n stored.
Turn(format, s) ==
    LET d == Directive(format, s.at, s.args)
        Put(text, args) == [s EXCEPT !.at = d.next, !.args = args,
                                     !.str = @ \o text]
    IN  IF s.at > Len(format) THEN s
        ELSE IF format[s.at] # "%"
        THEN [s EXCEPT !.at = @ + 1, !.str = Append(@, format[s.at])]
        ELSE IF d.conv = "n"
        THEN [Put(<<>>, Tail(d.args)) EXCEPT !.n = Len(s.str)]
        ELSE IF d.conv \in {"c", "s"} \cup DOMAIN Base
        THEN Put(Convert(d, Head(d.args)), Tail(d.args))
        ELSE Put(ConvertOther(d), d.args)

vsprintf(format, args) ==
    LET turns[k \in 0 .. Len(format)] ==
            IF k = 0 THEN [at |-> 1, args |-> args, str |-> <<>>, n |-> -1]
            ELSE Turn(format, turns[k - 1])
    IN  turns[Len(format)]

----------------------------------------------------------------------------
Init ==
    /\ buff = [f \in Fn |-> Fill(SIZE, NUL)]
    /\ pc = [t \in Threads |-> "user"]
    /\ call = [t \in Threads |-> [fn |-> "printk", format |-> <<>>,
                                  args |-> <<>>, want |-> <<>>]]
    /\ made = [t \in Threads |-> 0]
    /\ i = [t \in Threads |-> 0]
    /\ pos = [t \in Threads |-> 1]
    /\ out = [t \in Threads |-> <<>>]
    /\ alone = [t \in Threads |-> TRUE]
    /\ far = [t \in Threads |-> 0]

Fits(c) == Len(vsprintf(c.format, c.args).str) < SIZE

\* The buffer once vsprintf() has put text into it, and a NUL behind it.
Filled_open(b, text) ==   \* mutant: no NUL
    [k \in 1 .. SIZE |-> IF k <= Len(text) THEN text[k] ELSE b[k]]
Filled(b, text) ==
    [k \in 1 .. SIZE |-> IF k <= Len(text) THEN text[k]
                        ELSE IF k = Len(text) + 1 THEN NUL ELSE b[k]]

\* printk() or printk_color() as far as vsprintf(), which keeps interrupts
\* off.
printk(t, c) ==
    LET text == vsprintf(c.format, c.args).str
    IN  /\ Fits(c)
        /\ buff' = [buff EXCEPT ![c.fn] = Filled(@, text)]
        /\ i' = [i EXCEPT ![t] = Len(text)]
        /\ call' = [call EXCEPT ![t] = c]
        /\ made' = [made EXCEPT ![t] = @ + 1]
        /\ pc' = [pc EXCEPT ![t] = "terminate"]
        /\ out' = [out EXCEPT ![t] = <<>>]
        /\ alone' = [u \in Threads |->
                        IF u # t THEN alone[u] /\ call[u].fn # c.fn
                        ELSE \A v \in Threads \ {t} :
                                call[v].fn = c.fn => pc[v] # "terminate"]
        /\ far' = [u \in Threads |->
                      IF u = t THEN Len(text)
                      ELSE IF call[u].fn = c.fn THEN Maximum(far[u], Len(text))
                      ELSE far[u]]
        /\ UNCHANGED pos

\* buff[i] = '\0', with interrupts on: by now it may be another's text.
Terminate_early(t) ==   \* mutant: console_write() starts one before the text
    /\ pc[t] = "terminate"
    /\ buff' = [buff EXCEPT ![call[t].fn][i[t] + 1] = NUL]
    /\ pos' = [pos EXCEPT ![t] = 0]
    /\ pc' = [pc EXCEPT ![t] = "write"]
    /\ UNCHANGED <<call, made, i, out, alone, far>>
Terminate(t) ==
    /\ pc[t] = "terminate"
    /\ buff' = [buff EXCEPT ![call[t].fn][i[t] + 1] = NUL]
    /\ pos' = [pos EXCEPT ![t] = 1]
    /\ pc' = [pc EXCEPT ![t] = "write"]
    /\ UNCHANGED <<call, made, i, out, alone, far>>

\* console_write() and console_write_color(): one character, or the end.
Next_char(t) == buff[call[t].fn][pos[t]]
Write(t) ==
    /\ pc[t] = "write"
    /\ Next_char(t) # NUL
    /\ out' = [out EXCEPT ![t] = Append(@, Next_char(t))]
    /\ pos' = [pos EXCEPT ![t] = @ + 1]
    /\ UNCHANGED <<buff, pc, call, made, i, alone, far>>

Return(t) ==
    /\ pc[t] = "write"
    /\ Next_char(t) = NUL
    /\ pc' = [pc EXCEPT ![t] = "user"]
    /\ UNCHANGED <<buff, call, made, i, pos, out, alone, far>>

Next ==
    \E t \in Threads :
        \/ pc[t] = "user" /\ \E c \in Calls(t, made[t] + 1) : printk(t, c)
        \/ Terminate(t) \/ Write(t) \/ Return(t)

Spec == Init /\ [][Next]_vars
----------------------------------------------------------------------------
(***************************************************************************)
(* Properties                                                              *)
(***************************************************************************)

\* Every variable keeps to its type, and i and pos to the buffer.
TypeOK ==
    /\ \A f \in Fn : DOMAIN buff[f] = 1 .. SIZE
    /\ pc \in [Threads -> {"user", "terminate", "write"}]
    /\ \A t \in Threads : call[t].fn \in Fn /\ made[t] \in Nat
    /\ i \in [Threads -> 0 .. SIZE - 1]
    /\ pos \in [Threads -> 1 .. SIZE]
    /\ alone \in [Threads -> BOOLEAN]

\* However calls of printk() overtake each other in the shared buffer, what a
\* thread prints ends within the texts put there since its own call began:
\* nothing that an earlier call left behind them is printed.
StaysInText ==
    \A t \in Threads : pc[t] = "write" =>
        \E k \in pos[t] .. far[t] + 1 : buff[call[t].fn][k] = NUL

\* A reader of the text gets back what was printed: of a number its value
\* and sign in the right base and case, of a string as much as the precision
\* lets through, in a field that is filled on the right side, and longer than
\* asked for only when nothing in it is padding.
Blank(c) == c = BLANK
Trimmed(text) ==
    LET solid == {k \in DOMAIN text : ~Blank(text[k])}
    IN  IF solid = {} THEN <<>>
        ELSE SubSeq(text, CHOOSE k \in solid : \A j \in solid : k <= j,
                          CHOOSE k \in solid : \A j \in solid : k >= j)

NumberReadsBack(text, w) ==
    LET trim   == Trimmed(text)
        core   == IF trim[1] \in {"-", "+"} THEN Tail(trim) ELSE trim
        hex    == w.conv \in {"x", "X", "p"}
        base   == CASE hex -> 16 [] w.conv = "o" -> 8 [] w.conv = "b" -> 2
                    [] OTHER -> 10
        prefix == IF "#" \notin w.flags THEN 0
                  ELSE CASE hex -> 2 [] w.conv = "o" -> 1 [] OTHER -> 0
        digits == SubSeq(core, prefix + 1, Len(core))
        value  == IF w.conv \in {"d", "i"} THEN Signed(w.arg) ELSE w.arg
        abs    == Reads(digits, IF w.conv = "x" THEN small ELSE large, base)
        field  == Maximum(w.width, IF w.conv = "p" THEN 8 ELSE 0)
    IN  /\ value = (IF trim[1] = "-" THEN -abs ELSE abs)
        /\ prefix = 2 => /\ core[1] = "0"
                         /\ core[2] = (IF w.conv = "x" THEN "x" ELSE "X")
        /\ "+" \in w.flags /\ value >= 0 => trim[1] = "+"
        /\ Len(text) >= w.width
        /\ Len(digits) >= w.precision
        /\ Len(text) > field =>
               /\ \A k \in DOMAIN text :
                      Blank(text[k]) => k = 1 /\ BLANK \in w.flags
               /\ Len(digits) > Maximum(w.precision, 1) => digits[1] # "0"

StringReadsBack(text, w) ==
    LET trim == Trimmed(text)
    IN  /\ IsPrefix(trim, w.arg)
        /\ w.precision < 0 => trim = w.arg
        /\ w.precision >= 0 => trim = w.arg \/ Len(trim) = w.precision
        /\ Len(text) = Maximum(w.width, Len(trim))

DirectiveReadsBack(text, w) ==
    /\ IF w.conv = "s" THEN StringReadsBack(text, w)
       ELSE IF w.conv = "c" THEN Trimmed(text) = <<w.arg>>
       ELSE NumberReadsBack(text, w)
    /\ Trimmed(text) # <<>> =>
          IF "-" \in w.flags THEN ~Blank(text[1]) \/ BLANK \in w.flags
          ELSE ~Blank(text[Len(text)])

\* The directives of a format stand between commas, so the text can be cut at
\* them: the arguments come in their order.
COMMA == ","
Cuts(text) == {0, Len(text) + 1} \cup {k \in DOMAIN text : text[k] = COMMA}

AsWanted(text, want) ==
    \E cut \in [0 .. Len(want) -> Cuts(text)] :
        /\ cut[0] = 0 /\ cut[Len(want)] = Len(text) + 1
        /\ \A k \in Cuts(text) : \E n \in DOMAIN cut : cut[n] = k
        /\ \A n \in 1 .. Len(want) :
              /\ cut[n - 1] < cut[n]
              /\ DirectiveReadsBack(SubSeq(text, cut[n - 1] + 1, cut[n] - 1),
                                    want[n])
ReadsBack ==
    \A t \in Threads :
        (/\ pc[t] = "write" /\ Next_char(t) = NUL
         /\ alone[t] /\ call[t].want # <<>>) => AsWanted(out[t], call[t].want)
=============================================================================
