------------------------------ MODULE MCPrintk ------------------------------
(***************************************************************************)
(* Instances of Printk for TLC: the shell tries every kind of directive, a *)
(* process prints something short at any time.                             *)
(***************************************************************************)
EXTENDS Printk

\* The digits of a width or precision, which are below 10 here.
Figure(n) == IF n < 0 THEN <<>> ELSE <<ToString(n)>>
FlagChars(flags) == SetToSeq(flags)
Asks(w) ==
    <<"%">> \o FlagChars(w.flags) \o Figure(w.width)
        \o (IF w.precision < 0 THEN <<>> ELSE <<".">> \o Figure(w.precision))
        \o <<w.conv>>

Joined(parts) ==
    FoldLeft(LAMBDA s, p : s \o (IF s = <<>> THEN p ELSE <<",">> \o p),
             <<>>, parts)
Call(fn, want) ==
    [fn |-> fn, want |-> want,
     format |-> Joined([k \in DOMAIN want |-> Asks(want[k])]),
     args |-> [k \in DOMAIN want |-> want[k].arg]]
Want(flags, width, precision, conv, arg) ==
    [flags |-> flags, width |-> width, precision |-> precision, conv |-> conv,
     arg |-> arg]

FlagSets == {{}, {"-", "0"}, {"+"}, {" "}, {"#"}, {"0"}, {"#", "0"}, {"-", "+"}}
\* 0, the least negative word and what lies at its borders.
Values == {0, 8, 127, 128, 255}

NumberCalls ==
    {Call("printk", <<Want(f, w, p, c, v)>>) :
        f \in FlagSets, w \in {-1, 5}, p \in {-1, 4},
        c \in {"d", "u", "x", "X", "o", "b", "p"}, v \in Values}
    \cup {Call("printk", <<Want({}, 1, 0, "d", v)>>) : v \in Values}

TextCalls ==
    {Call("printk", <<Want(f, w, p, "s", s)>>) :
        f \in {{}, {"-"}}, w \in {-1, 2, 5}, p \in {-1, 0, 2},
        s \in {<<"K", ">">>, <<"a", "b", "c">>}}
    \cup {Call(fn, <<Want({}, 3, -1, "c", "K"), Want({"0"}, 4, -1, "d", n),
                     Want({"-"}, 3, -1, "s", <<"o", "k">>)>>) :
            fn \in Fn, n \in {1, 255}}

\* Formats whose text nobody reads back: a "*", a lone or doubled "%", %n, a
\* qualifier, an unknown conversion.
OddCalls ==
    {[fn |-> "printk", want |-> <<>>, format |-> f, args |-> <<5, 7>>] :
        f \in {<<"%", "*", "d">>, <<"%", ".", "*", "d">>, <<"a", "%">>,
               <<"%", "%", "%", "l", "d">>, <<"%", "y">>}}

Short == {Call("printk", <<Want({}, -1, -1, "d", 7)>>),
          Call("printk_color", <<Want({}, 3, -1, "u", 128)>>)}
Long == {Call("printk", <<Want({}, 9, -1, "x", 10)>>)}

TwoThreads == {"shell", "process"}
ShellAndProcess(t, k) ==
    IF t = "shell" /\ k = 1 THEN NumberCalls \cup TextCalls \cup OddCalls
    ELSE IF t = "shell" /\ k = 2 THEN Long
    ELSE IF t = "process" /\ k = 1 THEN Short ELSE {}
=============================================================================
