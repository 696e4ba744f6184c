------------------------------ MODULE FileTree ------------------------------
(***************************************************************************)
(* What the file system prototype promises to a caller of fs/fs.h: objects *)
(* that are directories or files, a current directory, and what every call *)
(* returns or prints.  No disk, no pages.                                  *)
(***************************************************************************)
EXTENDS Integers, Sequences, FiniteSets

CONSTANTS
    Names,        \* of files and directories
    Contents,     \* Contents[name]: what a caller may write into a file
    Objects,      \* directories and files, among them
    Root,         \* the root directory
    ENTRIES,      \* entries a directory can have
    CAPACITY      \* length from which on a file has no room

VARIABLES
    store,        \* every object: a Folder, a Plain file, or Nothing yet
    trail,        \* the directories from the root to the current one
    ret,          \* what the last call gave: [call, ok, out]
    dead          \* it never returned

vars == <<store, trail, ret, dead>>

\* A folder's entries are a function from names to objects.
Folder(entries) == [kind |-> "folder", entries |-> entries, data |-> <<>>]
Plain(data) == [kind |-> "plain", entries |-> <<>>, data |-> data]
Nothing == [kind |-> "nothing", entries |-> <<>>, data |-> <<>>]
Reply(call, ok, out) == [call |-> call, ok |-> ok, out |-> out]

Init ==
    /\ store = [o \in Objects |-> IF o = Root THEN Folder(<<>>) ELSE Nothing]
    /\ trail = <<Root>>
    /\ ret = Reply("none", TRUE, <<>>)
    /\ dead = FALSE

Here == trail[Len(trail)]
Entries == store[Here].entries
Exists(name) == name \in DOMAIN Entries
Is(kind, name) == Exists(name) /\ store[Entries[name]].kind = kind

Answer(call, ok, out) == ret' = Reply(call, ok, out) /\ UNCHANGED dead
Same == UNCHANGED <<store, trail>>

\* A new object gets into the current directory and nothing else changes.
Make(call, name, new) ==
    \/ /\ Answer(call, TRUE, <<>>)
       /\ ~Exists(name)
       /\ \E o \in Objects :
             /\ store[o] = Nothing /\ store'[o] = new
             /\ store' = [store EXCEPT
                    ![o] = new,
                    ![Here].entries = [n \in DOMAIN @ \cup {name} |->
                                          IF n = name THEN o ELSE @[n]]]
       /\ UNCHANGED trail
    \/ Answer(call, FALSE, <<>>) /\ Exists(name) /\ Same

Cd(name) ==
    \/ /\ Answer("cd", TRUE, <<>>)
       /\ Is("folder", name)
       /\ trail' = Append(trail, Entries[name])
       /\ UNCHANGED store
    \/ Answer("cd", FALSE, <<>>) /\ ~Is("folder", name) /\ Same

CdUp ==
    \/ /\ Answer("cd", TRUE, <<>>)
       /\ Len(trail) > 1
       /\ trail' = SubSeq(trail, 1, Len(trail) - 1)
       /\ UNCHANGED store
    \/ Answer("cd", FALSE, <<>>) /\ Len(trail) = 1 /\ Same

Write(name, data) ==
    \/ /\ Answer("writefile", TRUE, <<>>)
       /\ Is("plain", name)
       /\ Len(data) < CAPACITY
       /\ store' = [store EXCEPT ![Entries[name]] = Plain(data)]
       /\ UNCHANGED trail
    \/ /\ Answer("writefile", FALSE, <<>>)
       /\ ~Is("plain", name) \/ Len(data) >= CAPACITY
       /\ Same

Cat(name) ==
    \/ /\ ret'.call = "cat"
       /\ Is("plain", name)
       /\ Answer("cat", TRUE, store[Entries[name]].data)
       /\ Same
    \/ Answer("cat", FALSE, <<>>) /\ ~Is("plain", name) /\ Same

\* Every entry once, in any order, with its size.
Size(o) == IF store[o].kind = "folder" THEN Cardinality(DOMAIN store[o].entries)
           ELSE Len(store[o].data)
Ls ==
    /\ ret'.call = "ls"
    /\ Len(ret'.out) = Cardinality(DOMAIN Entries)
    /\ {ret'.out[k] : k \in DOMAIN ret'.out} =
           {<<n, Size(Entries[n]), Is("folder", n)>> : n \in DOMAIN Entries}
    /\ UNCHANGED dead
    /\ Same

\* What pwd() returns ends with the path; what stands before it is not
\* promised.
NameIn(folder, o) ==
    CHOOSE n \in DOMAIN store[folder].entries : store[folder].entries[n] = o
Path == [k \in DOMAIN trail |->
            IF k = 1 THEN "root" ELSE NameIn(trail[k - 1], trail[k])]
Ends(s, t) ==
    Len(s) >= Len(t) /\ SubSeq(s, Len(s) - Len(t) + 1, Len(s)) = t
Pwd ==
    /\ ret'.call = "pwd"
    /\ Ends(ret'.out, Path)
    /\ UNCHANGED dead
    /\ Same

\* A call that needs more than the ten pages never returns.
Full(name) == ~Exists(name) /\ Cardinality(DOMAIN Entries) = ENTRIES
Overruns(name, data) == Is("plain", name) /\ Len(data) >= CAPACITY
Hangs ==
    /\ dead'
    /\ Same /\ UNCHANGED ret
    /\ \E name \in Names :
          Full(name) \/ \E data \in Contents[name] : Overruns(name, data)

Next ==
    /\ ~dead
    /\ \/ \E name \in Names :
             \/ Make("mkdir", name, Folder(<<>>))
             \/ Make("creat", name, Plain(<<>>))
             \/ Cd(name)
             \/ Cat(name)
             \/ \E data \in Contents[name] : Write(name, data)
       \/ CdUp \/ Ls \/ Pwd \/ Hangs

Spec == Init /\ [][Next]_vars
=============================================================================
