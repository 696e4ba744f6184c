--------------------------------- MODULE Fs ---------------------------------
(***************************************************************************)
(* The file system prototype, fs/fs.cc: a bitmap of inodes, each a page,   *)
(* File structures in the pages of their directory, ten pages to a file.   *)
(* It is one thread and a call is a step.  The unit of length is the 256   *)
(* bytes of a File, so that a page holds PAGE files or PAGE units of data; *)
(* permissions, which nothing reads, are left out.                         *)
(***************************************************************************)
EXTENDS Integers, Sequences, FiniteSets

CONSTANTS
    Names,        \* of files and directories
    Data,         \* units of data
    Folders,      \* the names callers give to mkdir()
    Plains,       \* the names callers give to creat()
    Contents,     \* what they write: Contents[name] is a set of sequences
    NINODES,      \* pages of a file, 10 in the code
    PAGE,         \* units in a page, 16 in the code
    ENTRIES,      \* entries of a directory, 160 in the code
    BITS,         \* bits in a byte, 8 in the code
    INODES,       \* number of inodes, 8 times the two pages of the bitmap
    TOO_LARGE,    \* length writefile() refuses, 10 * PGSIZE + PTSIZE
    MAX_DEPTH,    \* bound: of where, an array of 20 that cd() does not check
    MAX_PATH      \* bound: of pathbuffer, which pwd() does not check

ASSUME FsAssumption ==
    /\ {NINODES, PAGE, BITS, INODES} \subseteq Nat \ {0}
    /\ NINODES <= INODES
    /\ ENTRIES \in 1 .. NINODES * PAGE
    /\ {TOO_LARGE, MAX_DEPTH, MAX_PATH} \subseteq Nat
    /\ NINODES * PAGE <= TOO_LARGE
    /\ Folders \cup Plains \subseteq Names
    /\ \A name \in Names : Contents[name] \subseteq Seq(Data)

VARIABLES
    map,           \* the inodes whose bit is set in DISK_MAP
    search_begin,  \* the byte of DISK_MAP where the search begins
    disk,          \* what the units of all pages and the super block hold
    where,         \* the Files from the root to the current directory
    pathbuffer,    \* pwd()'s static buffer, as a sequence of names
    ret,           \* what the last call returned or printed
    dead           \* it is in an endless loop

vars == <<map, search_begin, disk, where, pathbuffer, ret, dead>>

Inode == 0 .. INODES - 1
\* Pointers: a unit of a page, the File in the super block, or NULL.
Unit == Inode \X (0 .. PAGE - 1)
ROOT == <<-1, 0>>
NULL == <<-2, 0>>
FilePtr == Unit \cup {ROOT}

File == [filename : Names \cup {"root"}, filesize : Nat, is_dir : BOOLEAN,
         inodes : [1 .. NINODES -> Inode]]
\* A unit that holds data, or nothing yet.
Raw == [data : Data \cup {"none"}]
IsFile(unit) == "inodes" \in DOMAIN unit

----------------------------------------------------------------------------
\* find_empty_inode(): n is the lowest clear bit from search_begin's byte on.
\* Bound: the model stops short of running off the bitmap's end, into the
\* inodes' own pages.
Byte(n) == n \div BITS
Clear_any(used, byte) == {n \in Inode : Byte(n) >= byte}   \* mutant: taken too
Clear(used, byte) == {n \in Inode \ used : Byte(n) >= byte}
find_empty_inode(used, byte, n) ==
    /\ n \in Clear(used, byte)
    /\ \A k \in Clear(used, byte) : n <= k

\* alloc_for_file(): got is what its loop takes, one after the other.
alloc_for_file(got) ==
    \A k \in 1 .. NINODES :
        find_empty_inode(map \cup {got[j] : j \in 1 .. k - 1},
                         IF k = 1 THEN search_begin ELSE Byte(got[k - 1]),
                         got[k])
Allocated(got) ==
    /\ map' = map \cup {got[k] : k \in 1 .. NINODES}
    /\ search_begin' = Byte(got[NINODES])

\* alloc_for_indirect() never counts: it takes inodes until there are none
\* left, and its caller never gets back.
alloc_for_indirect ==
    /\ dead' = TRUE
    /\ map' = Inode
    /\ UNCHANGED <<search_begin, disk, where, pathbuffer, ret>>

\* init_map(): the first inodes are the root's.
init_map ==
    /\ map = 0 .. NINODES - 1
    /\ search_begin = Byte(NINODES - 1)
    /\ disk = [p \in FilePtr |->
                 IF p = ROOT
                 THEN [filename |-> "root", filesize |-> 0, is_dir |-> TRUE,
                       inodes |-> [k \in 1 .. NINODES |-> k - 1]]
                 ELSE [data |-> "none"]]
    /\ where = <<ROOT>>

Reply(call, ok, out) == [call |-> call, ok |-> ok, out |-> out]
Init ==
    /\ init_map
    /\ pathbuffer = <<>>
    /\ ret = Reply("none", TRUE, <<>>)
    /\ dead = FALSE

----------------------------------------------------------------------------
\* The unit that holds position no of a file: of a directory the File of an
\* entry, of a file its data.  (Positions from NINODES * PAGE on would go
\* through the indirect page, which nothing ever gets.)
CAPACITY == NINODES * PAGE
Position_first(file, no) ==   \* mutant: always the first page
    <<disk[file].inodes[1], no % PAGE>>
Position(file, no) ==
    <<disk[file].inodes[(no \div PAGE) + 1], no % PAGE>>
getfilefromfolderbyno(dir, no) == Position(dir, no)

getfilefromfolderbyname(dir, name) ==
    LET hits == {no \in 0 .. disk[dir].filesize - 1 :
                    disk[getfilefromfolderbyno(dir, no)].filename = name}
    IN  IF hits = {} THEN NULL
        ELSE getfilefromfolderbyno(
                 dir, CHOOSE no \in hits : \A k \in hits : no <= k)

Here == where[Len(where)]
Lookup(name) == getfilefromfolderbyname(Here, name)
IsFolder_any(file) == file # NULL   \* mutant: a file will do
IsFolder(file) == file # NULL /\ disk[file].is_dir
IsPlain(file) == file # NULL /\ ~disk[file].is_dir

Answer(call, ok, out) == ret' = Reply(call, ok, out) /\ dead' = FALSE

creatfile(dir, name, is_dir) ==
    \E got \in [1 .. NINODES -> Inode] :
        /\ alloc_for_file(got)
        /\ Allocated(got)
        /\ disk' = [disk EXCEPT
               ![dir].filesize = @ + 1,
               ![getfilefromfolderbyno(dir, disk[dir].filesize)] =
                   [filename |-> name, filesize |-> 0, is_dir |-> is_dir,
                    inodes |-> got]]

\* mkdir() and creat().
Make(call, name, is_dir) ==
    \/ /\ Lookup(name) # NULL
       /\ Answer(call, FALSE, <<>>)
       /\ UNCHANGED <<map, search_begin, disk, where, pathbuffer>>
    \/ /\ Lookup(name) = NULL
       /\ disk[Here].filesize # ENTRIES
       /\ creatfile(Here, name, is_dir)
       /\ Answer(call, TRUE, <<>>)
       /\ UNCHANGED <<where, pathbuffer>>
    \/ /\ Lookup(name) = NULL
       /\ disk[Here].filesize = ENTRIES
       /\ alloc_for_indirect
mkdir(name) == Make("mkdir", name, TRUE)
creat(name) == Make("creat", name, FALSE)

cd(name) ==
    /\ IF IsFolder(Lookup(name))
       THEN /\ Len(where) < MAX_DEPTH
            /\ where' = Append(where, Lookup(name))
            /\ Answer("cd", TRUE, <<>>)
       ELSE UNCHANGED where /\ Answer("cd", FALSE, <<>>)
    /\ UNCHANGED <<map, search_begin, disk, pathbuffer>>

cd_up ==
    /\ IF Len(where) = 1 THEN UNCHANGED where /\ Answer("cd", FALSE, <<>>)
       ELSE /\ where' = SubSeq(where, 1, Len(where) - 1)
            /\ Answer("cd", TRUE, <<>>)
    /\ UNCHANGED <<map, search_begin, disk, pathbuffer>>

\* The pages are filled from the buffer, the last one as far as it goes.
writefile(name, buffer) ==
    LET target == Lookup(name)
    IN  \/ /\ ~IsPlain(target) \/ Len(buffer) > TOO_LARGE
           /\ Answer("writefile", FALSE, <<>>)
           /\ UNCHANGED <<map, search_begin, disk, where, pathbuffer>>
        \/ /\ IsPlain(target)
           /\ Len(buffer) < CAPACITY
           /\ disk' = [p \in FilePtr |->
                 IF p = target
                 THEN [disk[p] EXCEPT !.filesize = Len(buffer)]
                 ELSE IF \E no \in 0 .. Len(buffer) - 1 :
                            p = Position(target, no)
                 THEN [data |-> buffer[CHOOSE no \in 1 .. Len(buffer) :
                                           p = Position(target, no - 1)]]
                 ELSE disk[p]]
           /\ Answer("writefile", TRUE, <<>>)
           /\ UNCHANGED <<map, search_begin, where, pathbuffer>>
        \/ /\ IsPlain(target)
           /\ Len(buffer) \in CAPACITY .. TOO_LARGE
           /\ alloc_for_indirect

\* A file is never too large to display, as writefile() hangs before.
Shown(file) ==
    [k \in 1 .. disk[file].filesize |-> disk[Position(file, k - 1)].data]
cat(name) ==
    /\ IF IsPlain(Lookup(name)) THEN Answer("cat", TRUE, Shown(Lookup(name)))
       ELSE Answer("cat", FALSE, <<>>)
    /\ UNCHANGED <<map, search_begin, disk, where, pathbuffer>>

Listed(file) ==
    <<disk[file].filename, disk[file].filesize, disk[file].is_dir>>
ls ==
    /\ Answer("ls", TRUE, [k \in 1 .. disk[Here].filesize |->
                              Listed(getfilefromfolderbyno(Here, k - 1))])
    /\ UNCHANGED <<map, search_begin, disk, where, pathbuffer>>

\* The buffer is not emptied first.
PathOf(files) == [k \in DOMAIN files |-> disk[files[k]].filename]
pwd ==
    /\ Len(pathbuffer) + Len(where) <= MAX_PATH
    /\ pathbuffer' = pathbuffer \o PathOf(where)
    /\ Answer("pwd", TRUE, pathbuffer')
    /\ UNCHANGED <<map, search_begin, disk, where>>

Next ==
    /\ ~dead
    /\ \/ \E name \in Folders : mkdir(name)
       \/ \E name \in Plains : creat(name)
       \/ \E name \in Names :
             \/ cd(name) \/ cat(name)
             \/ \E buffer \in Contents[name] : writefile(name, buffer)
       \/ cd_up \/ ls \/ pwd

Spec == Init /\ [][Next]_vars
----------------------------------------------------------------------------
(***************************************************************************)
(* Properties                                                              *)
(***************************************************************************)

\* Every variable keeps to its type, and where holds directories only.
TypeOK ==
    /\ map \subseteq Inode
    /\ search_begin \in Nat
    /\ disk \in [FilePtr -> File \cup Raw]
    /\ where[1] = ROOT
    /\ \A k \in DOMAIN where : where[k] \in FilePtr /\ disk[where[k]].is_dir
    /\ pathbuffer \in Seq(Names \cup {"root"})
    /\ dead \in BOOLEAN

\* The Files there are, in the super block or in a page.
Files == {p \in FilePtr : IsFile(disk[p])}
Owned(file) == {disk[file].inodes[k] : k \in 1 .. NINODES}

\* No page belongs to two files or twice to one, the bitmap knows of every
\* page a file has, and a File lies in a page of a directory.
InodesExclusive ==
    ~dead =>
        /\ \A f \in Files :
              /\ Owned(f) \subseteq map
              /\ \A j, k \in 1 .. NINODES :
                     disk[f].inodes[j] = disk[f].inodes[k] => j = k
              /\ f # ROOT =>
                     \E d \in Files : disk[d].is_dir /\ f[1] \in Owned(d)
        /\ \A f, g \in Files : f # g => Owned(f) \cap Owned(g) = {}
=============================================================================
