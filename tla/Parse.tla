-------------------------------- MODULE Parse --------------------------------
(***************************************************************************)
(* The shell's parser, parse_cmd() of kernel/env/shell.c, on the line that *)
(* getstring() has left in usr_buff.                                       *)
(*                                                                         *)
(* The loops that look for a blank do not stop at the end of the line.     *)
(* They go on through what earlier lines left in usr_buff and through the  *)
(* memory behind it, and they write: each blank they find becomes a NUL.   *)
(* Memory is modelled up to a point, behind which the next blank is        *)
(* followed by a NUL.                                                      *)
(***************************************************************************)
EXTENDS Integers, Sequences, SequencesExt, FiniteSetsExt

CONSTANTS
    SIZE,      \* length of usr_buff: 80 in the code
    Lines,     \* what the user types, as sequences of characters
    Behind     \* what may lie behind usr_buff

NUL == "NUL"
Digits == <<"0", "1", "2", "3", "4", "5", "6", "7", "8", "9">>

IsText(s) == s \in Seq(ToSet(s))
ASSUME ParseAssumption ==
    /\ SIZE \in Nat
    /\ \A typed \in Lines :
           IsText(typed) /\ Len(typed) < SIZE /\ NUL \notin ToSet(typed)
    /\ \A behind \in Behind : IsText(behind)

VARIABLES
    mem,        \* usr_buff and what lies behind it
    line,       \* history: the line that was typed last
    pc,         \* "read" or "parse"
    runinfo     \* what parse_cmd() has made of it

vars == <<mem, line, pc, runinfo>>

----------------------------------------------------------------------------
\* Characters, blanks and strings in memory.
End(m) == Cardinality(DOMAIN m)
Char(m, i) == IF i \in DOMAIN m THEN m[i] ELSE NUL
IsBlank(c) == c = " "
Ahead(m, i) == i .. i + End(m)
SkipBlanks(m, i) == Min({j \in Ahead(m, i) : ~IsBlank(Char(m, j))})
ToBlank(m, i) == Min({j \in Ahead(m, i) : IsBlank(Char(m, j)) \/ j >= End(m)})
Str(m, i) ==
    LET n == Min({j \in Ahead(m, i) : Char(m, j) = NUL})
    IN  [k \in 1 .. n - i |-> m[i + k - 1]]

\* *p = '\0'
Cut_forgotten(m, i) == m   \* mutant: the word is not cut off
Cut_anywhere(m, i) == [j \in DOMAIN m \cup {i} |->   \* mutant: grows memory
                           IF j = i THEN NUL ELSE m[j]]
Cut(m, i) == IF i \in DOMAIN m THEN [m EXCEPT ![i] = NUL] ELSE m

\* strcmp() returns 0.  It advances both pointers before it leaves its loop:
\* the last characters are not compared.
Same_but_ends(s, t) ==   \* mutant: nor are the first
    Len(s) = Len(t) /\ \A k \in 2 .. Len(s) - 1 : s[k] = t[k]
Same(s, t) == Len(s) = Len(t) /\ \A k \in 1 .. Len(s) - 1 : s[k] = t[k]

----------------------------------------------------------------------------
\* parse_num(): the first number from i on, -1 when there is none.
GETNUM(c) == (CHOOSE k \in DOMAIN Digits : Digits[k] = c) - 1
Value(digits) ==
    LET ret[k \in 0 .. Len(digits)] ==
            IF k = 0 THEN 0 ELSE ret[k - 1] * 10 + GETNUM(digits[k])
    IN  ret[Len(digits)]
Number(s) ==
    LET n == Min({k \in 1 .. Len(s) + 1 :
                      k > Len(s) \/ s[k] \notin ToSet(Digits)}) - 1
    IN  IF n = 0 THEN -1 ELSE Value(SubSeq(s, 1, n))
parse_num(m, i) == Number(Str(m, SkipBlanks(m, i)))

\* parse_args(): one turn of its loop, and all of them.
More_always(a) == TRUE   \* mutant: the test for the line's end is dropped
More(a) == Char(a.m, SkipBlanks(a.m, a.s)) # NUL
Arg(a) ==
    LET b == SkipBlanks(a.m, a.s)
        e == ToBlank(a.m, b)
        m == Cut(a.m, e)
    IN  [m |-> m, s |-> e + 1, args |-> Append(a.args, Str(m, b))]
Turn(a) == IF More(a) THEN Arg(a) ELSE a
parse_args(a) ==
    LET turn[n \in 0 .. End(a.m)] ==
            IF n = 0 THEN a ELSE Turn(turn[n - 1])
    IN  turn[End(a.m)]

\* A last argument that strcmp() takes for "&" asks for the background.
Background(args) == Same(Last(args), <<"&">>)
Launch(args) ==
    [cmd_type |-> "exe", tar_pid |-> 0, bg |-> Background(args),
     args |-> IF Background(args) THEN Front(args) ELSE args]
Command(cmd, pid) ==
    [cmd_type |-> cmd, tar_pid |-> pid, bg |-> FALSE, args |-> <<>>]

Names == [jobs |-> <<"j", "o", "b", "s">>, fg |-> <<"f", "g">>,
          bring |-> <<"b", "r", "i", "n", "g">>,
          kill |-> <<"k", "i", "l", "l">>, stop |-> <<"s", "t", "o", "p">>,
          help |-> <<"h", "e", "l", "p">>]
WithTarget == {"fg", "bring", "kill", "stop"}
TheOne(cmds) == IF cmds = {} THEN "exe" ELSE CHOOSE c \in cmds : TRUE
Cmd(word) == TheOne({c \in DOMAIN Names : Same(word, Names[c])})

parse_cmd(m) ==
    LET b    == SkipBlanks(m, 0)
        p    == ToBlank(m, b)
        cut  == Cut(m, p)
        word == Str(cut, b)
        cmd  == Cmd(word)
        all  == parse_args([m |-> cut, s |-> p + 1, args |-> <<word>>])
    IN  CASE cmd = "exe" -> [m |-> all.m, runinfo |-> Launch(all.args)]
          [] cmd \in WithTarget ->
                 [m |-> cut, runinfo |-> Command(cmd, parse_num(cut, p + 1))]
          [] OTHER -> [m |-> cut, runinfo |-> Command(cmd, 0)]

----------------------------------------------------------------------------
Init ==
    /\ \E behind \in Behind :
           mem = [i \in 0 .. SIZE + Len(behind) - 1 |->
                      IF i < SIZE THEN NUL ELSE behind[i - SIZE + 1]]
    /\ line = <<>>
    /\ pc = "read"
    /\ runinfo = Command("jobs", 0)

\* getstring() puts the line over the beginning of the last one.
getstring(typed) ==
    /\ pc = "read"
    /\ line' = typed
    /\ mem' = [i \in DOMAIN mem |->
                  IF i < Len(typed) THEN typed[i + 1]
                  ELSE IF i = Len(typed) THEN NUL ELSE mem[i]]
    /\ pc' = "parse"
    /\ UNCHANGED runinfo

Parse ==
    /\ pc = "parse"
    /\ mem' = parse_cmd(mem).m
    /\ runinfo' = parse_cmd(mem).runinfo
    /\ pc' = "read"
    /\ UNCHANGED line

Next == (\E typed \in Lines : getstring(typed)) \/ Parse

Spec == Init /\ [][Next]_vars

----------------------------------------------------------------------------
(***************************************************************************)
(* Properties, against a reference that splits the typed line at blanks    *)
(***************************************************************************)

\* The words of a line: each starts where a blank or nothing stands before it.
NoWord(s, i) == i \notin DOMAIN s \/ IsBlank(s[i])
Starts(s) == {i \in DOMAIN s : ~NoWord(s, i) /\ NoWord(s, i - 1)}
Rank(s, i) == Cardinality({j \in Starts(s) : j <= i})
Stop(s, i) == Min({j \in i .. Len(s) + 1 : NoWord(s, j)}) - 1
Words(s) ==
    [k \in 1 .. Cardinality(Starts(s)) |->
        LET i == CHOOSE j \in Starts(s) : Rank(s, j) = k
        IN  SubSeq(s, i, Stop(s, i))]

\* What the words say when the first is the command cmd, or none ("exe"), and
\* bg tells whether the last is "&".
Said(words, cmd, bg) ==
    CASE cmd = "exe" ->
             [cmd_type |-> "exe", tar_pid |-> 0, bg |-> bg,
              args |-> IF bg THEN Front(words) ELSE words]
      [] cmd \in WithTarget ->
             Command(cmd, IF Len(words) = 1 THEN -1 ELSE Number(words[2]))
      [] OTHER -> Command(cmd, 0)

\* What they mean, and what they are to strcmp().
Named(word) == TheOne({c \in DOMAIN Names : word = Names[c]})
Meant(words) == Said(words, Named(words[1]), Last(words) = <<"&">>)
Taken(words) == Said(words, Cmd(words[1]), Background(words))

\* Words of one length that differ in the last letter only; a line that has
\* one in the place of a command or of "&".
Near(s, t) ==
    s # t /\ Len(s) = Len(t) /\ \A k \in 1 .. Len(s) - 1 : s[k] = t[k]
Misspelt(words) ==
    \/ \E c \in DOMAIN Names : Near(words[1], Names[c])
    \/ Named(words[1]) = "exe" /\ Near(Last(words), <<"&">>)

\* A line that brings its own last blank, or a number with its command.
Closed ==
    /\ Words(line) # <<>>
    /\ \/ IsBlank(Last(line))
       \/ Len(Words(line)) > 1 /\ Named(Words(line)[1]) \in WithTarget

\* Every variable keeps to its type.
TypeOK ==
    /\ DOMAIN mem \in {0 .. SIZE + Len(behind) - 1 : behind \in Behind}
    /\ line \in Lines \cup {<<>>}
    /\ pc \in {"read", "parse"}
    /\ runinfo.cmd_type \in DOMAIN Names \cup {"exe"}
    /\ runinfo.tar_pid \in Nat \cup {-1}
    /\ runinfo.bg \in BOOLEAN

\* A closed line means what it says, letter by letter, whatever earlier lines
\* have left in the buffer and whatever lies behind it.  Not so a line with a
\* misspelt word, which strcmp() takes for a command or for "&": "fz " is fg.
ParsesOwnLine ==
    (pc = "read" /\ Closed /\ ~Misspelt(Words(line))) =>
        runinfo = Meant(Words(line))

\* What was left in the buffer may add arguments, and with them "&", or stand
\* in for a missing number, but never makes another command of a line, takes
\* arguments away or changes the number it has.  Words are what strcmp() takes
\* them for: this is about misspelt ones too.
StaleOnlyAdds ==
    (pc = "read" /\ Words(line) # <<>>) =>
        LET taken == Taken(Words(line))
        IN  /\ runinfo.cmd_type = taken.cmd_type
            /\ IsPrefix(taken.args, runinfo.args)
            /\ taken.tar_pid # -1 => runinfo.tar_pid = taken.tar_pid

\* Parsing a closed line writes nothing behind it.
WritesOwnLine ==
    [][(pc = "parse" /\ Closed) =>
           \A i \in DOMAIN mem : i >= Len(line) => mem'[i] = mem[i]]_vars
=============================================================================
