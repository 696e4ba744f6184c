---------------------------- MODULE FsTreeProofs ----------------------------
(***************************************************************************)
(* No two files share a page, for any sizes of pages, files, directories   *)
(* and disk, and whatever is made and written; and Fs implements FileTree. *)
(*                                                                         *)
(* InodesExclusive is not inductive: it does not say where in a directory  *)
(* its files lie.  A file that is made could come to lie on another one,   *)
(* and a directory's entry could be data.  FInv says so.                   *)
(*                                                                         *)
(* What FInv says of pages is not enough to read the disk as a store: two  *)
(* entries of one name would be one entry, a path that does not follow     *)
(* entries has no names, and a file longer than its pages has no data.     *)
(* TreeInv says so.                                                        *)
(***************************************************************************)
EXTENDS FsTree, WellFoundedInduction, SequenceTheorems, FiniteSetTheorems,
        TLAPS

Dirs == {d \in Files : disk[d].is_dir}
Entries(d) == 0 .. disk[d].filesize - 1

\* What is on the disk, and that the path leads through directories.
TypeInv ==
    /\ TypeOK
    /\ where \in Seq(FilePtr) /\ Len(where) > 0
    /\ \A k \in 1 .. Len(where) : where[k] \in Dirs

\* The entries of a directory are Files, and every File is an entry.
EntryInv ==
    /\ \A d \in Dirs :
        /\ disk[d].filesize <= ENTRIES
        /\ \A no \in Entries(d) : Position(d, no) \in Files
    /\ \A f \in Files \ {ROOT} :
        \E d \in Dirs : \E no \in Entries(d) : f = Position(d, no)

\* A file has its pages to itself, and the bitmap knows of them.
OwnInv ==
    /\ \A f \in Files :
        /\ Owned(f) \subseteq map
        /\ \A j, k \in 1 .. NINODES :
               disk[f].inodes[j] = disk[f].inodes[k] => j = k
    /\ \A f, g \in Files : f # g => Owned(f) \cap Owned(g) = {}

FInv == TypeInv /\ EntryInv /\ OwnInv

----------------------------------------------------------------------------
\* A position below a file's capacity lies in one of its pages, in another
\* place than every other position.
LEMMA Division ==
    ASSUME NEW no \in Nat, NEW p \in Nat \ {0}
    PROVE  /\ no \div p \in Nat
           /\ no % p \in 0 .. p - 1
           /\ no = p * (no \div p) + (no % p)
  OBVIOUS

LEMMA Monotonic ==
    ASSUME NEW p \in Nat \ {0}, NEW q \in Nat, NEW n \in Nat, q >= n
    PROVE  p * q >= n * p
  OBVIOUS

LEMMA PageOf ==
    ASSUME NEW no \in Nat, NEW p \in Nat \ {0}, NEW n \in Nat, no < n * p
    PROVE  (no \div p) + 1 \in 1 .. n
<1> DEFINE q == no \div p
           r == no % p
<1>1. q \in Nat /\ r \in 0 .. p - 1 /\ no = p * q + r
  BY Division
<1> HIDE DEF q, r
<1>2. ASSUME q >= n  PROVE FALSE
  <2> DEFINE a == p * q
             b == n * p
  <2>1. a >= b
    BY <1>1, <1>2, Monotonic
  <2>2. a \in Int /\ b \in Int /\ no = a + r /\ no < b
    BY <1>1
  <2> HIDE DEF a, b
  <2> QED  BY <2>1, <2>2, <1>1
<1> QED  BY <1>1, <1>2 DEF q

\* What FsAssumption says of the numbers.
LEMMA Sizes ==
    /\ NINODES \in Nat \ {0} /\ PAGE \in Nat \ {0} /\ INODES \in Nat \ {0}
    /\ BITS \in Nat \ {0}
    /\ NINODES <= INODES
    /\ ENTRIES \in Nat /\ ENTRIES <= NINODES * PAGE
    /\ CAPACITY = NINODES * PAGE /\ CAPACITY \in Nat
    /\ ENTRIES <= CAPACITY
  BY FsAssumption DEF CAPACITY

\* Files are told from data by their shape.
LEMMA FileOrRaw ==
    /\ \A x \in File : IsFile(x)
    /\ \A x \in Raw : ~IsFile(x)
<1>1. ASSUME NEW x \in File  PROVE IsFile(x)
  BY <1>1 DEF File, IsFile
<1>2. ASSUME NEW x \in Raw  PROVE ~IsFile(x)
  BY <1>2 DEF Raw, IsFile
<1> QED  BY <1>1, <1>2

LEMMA FileFields ==
    ASSUME FInv, NEW f \in Files
    PROVE  /\ f \in FilePtr
           /\ disk[f] \in File
           /\ disk[f].filesize \in Nat
           /\ disk[f].is_dir \in BOOLEAN
           /\ disk[f].inodes \in [1 .. NINODES -> Inode]
           /\ disk[f].filename \in Names \cup {"root"}
<1>1. f \in FilePtr
  BY DEF Files
<1>2. disk[f] \in File
  BY <1>1, FileOrRaw DEF FInv, TypeInv, TypeOK, Files
<1> QED  BY <1>1, <1>2 DEF File

LEMMA PositionInside ==
    ASSUME FInv, NEW f \in Files, NEW no \in Nat, no < CAPACITY
    PROVE  /\ Position(f, no) \in Unit
           /\ Position(f, no) # ROOT
           /\ Position(f, no) # NULL
           /\ Position(f, no)[1] \in Owned(f)
<1>1. (no \div PAGE) + 1 \in 1 .. NINODES
  BY Sizes, PageOf
<1>2. no % PAGE \in 0 .. PAGE - 1
  BY Sizes, Division
<1>3. disk[f].inodes[(no \div PAGE) + 1] \in Inode
  BY <1>1, FileFields
<1>4. Position(f, no)[1] \in Owned(f)
  BY <1>1 DEF Position, Owned
<1>5. Position(f, no) \in Unit
  BY <1>2, <1>3 DEF Position, Unit
<1>6. Position(f, no)[1] \in Nat
  BY <1>3, Sizes DEF Position, Inode
<1>7. ROOT[1] = -1 /\ NULL[1] = -2
  BY DEF ROOT, NULL
<1> QED  BY <1>4, <1>5, <1>6, <1>7

LEMMA PositionApart ==
    ASSUME FInv, NEW f \in Files, NEW i \in Nat, NEW j \in Nat,
           i < CAPACITY, j < CAPACITY, Position(f, i) = Position(f, j)
    PROVE  i = j
<1> DEFINE a == i \div PAGE
           b == j \div PAGE
<1>1. a + 1 \in 1 .. NINODES /\ b + 1 \in 1 .. NINODES
  BY Sizes, PageOf
<1>2. /\ disk[f].inodes[a + 1] = disk[f].inodes[b + 1]
      /\ i % PAGE = j % PAGE
  BY DEF Position
<1>3. a + 1 = b + 1
  BY <1>1, <1>2 DEF FInv, OwnInv
<1>4. i = PAGE * a + (i % PAGE) /\ j = PAGE * b + (j % PAGE)
  BY Sizes, Division
<1>5. a = b
  BY <1>3, Sizes, Division
<1> QED  BY <1>2, <1>4, <1>5

\* A directory's entries lie in its own pages.
LEMMA EntryInside ==
    ASSUME FInv, NEW d \in Dirs, NEW no \in Entries(d)
    PROVE  /\ no \in Nat /\ no < CAPACITY
           /\ Position(d, no) \in Files
           /\ Position(d, no) # NULL
           /\ Position(d, no)[1] \in Owned(d)
<1>1. d \in Files /\ disk[d].filesize \in Nat /\ disk[d].filesize <= ENTRIES
  BY FileFields DEF Dirs, FInv, EntryInv
<1>2. no \in Nat /\ no < CAPACITY
  BY <1>1, Sizes DEF Entries
<1>3. Position(d, no) \in Files
  BY DEF FInv, EntryInv
<1> QED  BY <1>1, <1>2, <1>3, PositionInside

\* No File lies in a page of a plain file.
LEMMA NoFileInPlain ==
    ASSUME FInv, NEW t \in Files, ~disk[t].is_dir, NEW no \in Nat,
           no < CAPACITY
    PROVE  Position(t, no) \notin Files
<1> SUFFICES ASSUME Position(t, no) \in Files  PROVE FALSE
  OBVIOUS
<1>1. Position(t, no) # ROOT /\ Position(t, no)[1] \in Owned(t)
  BY PositionInside
<1>2. PICK d \in Dirs : \E k \in Entries(d) : Position(t, no) = Position(d, k)
  BY <1>1 DEF FInv, EntryInv
<1>3. Position(t, no)[1] \in Owned(d)
  BY <1>2, EntryInside
<1>4. d \in Files /\ d # t
  BY <1>2 DEF Dirs
<1> QED  BY <1>1, <1>3, <1>4 DEF FInv, OwnInv

\* The place for a directory's next entry is free.
LEMMA NextEntryFree ==
    ASSUME FInv, NEW d \in Dirs, disk[d].filesize # ENTRIES
    PROVE  /\ disk[d].filesize \in Nat
           /\ disk[d].filesize < CAPACITY
           /\ disk[d].filesize < ENTRIES
           /\ Position(d, disk[d].filesize) \in FilePtr
           /\ Position(d, disk[d].filesize) \notin Files
           /\ Position(d, disk[d].filesize) # ROOT
<1> DEFINE n == disk[d].filesize
           p == Position(d, n)
<1>1. d \in Files /\ n \in Nat /\ n <= ENTRIES
  BY FileFields DEF Dirs, FInv, EntryInv
<1>2. n < CAPACITY /\ n < ENTRIES
  <2>1. ENTRIES \in Nat /\ CAPACITY \in Nat /\ ENTRIES <= CAPACITY
    BY Sizes
  <2>2. n # ENTRIES
    OBVIOUS
  <2> HIDE DEF n
  <2> QED  BY <1>1, <2>1, <2>2
<1>3. p \in Unit /\ p # ROOT /\ p[1] \in Owned(d)
  BY <1>1, <1>2, PositionInside
<1>4. ASSUME p \in Files  PROVE FALSE
  <2>1. PICK e \in Dirs : \E k \in Entries(e) : p = Position(e, k)
    BY <1>3, <1>4 DEF FInv, EntryInv
  <2>2. PICK k \in Entries(e) : p = Position(e, k)
    BY <2>1
  <2>3. k \in Nat /\ k < CAPACITY /\ p[1] \in Owned(e)
    BY <2>2, EntryInside
  <2>4. e = d
    BY <1>1, <1>3, <2>3 DEF Dirs, FInv, OwnInv
  <2>5. k = n
    BY <1>1, <1>2, <2>2, <2>3, <2>4, PositionApart
  <2>6. k < n
    BY <1>1, <2>4 DEF Entries
  <2> QED  BY <2>3, <2>5, <2>6
<1> QED  BY <1>1, <1>2, <1>3, <1>4 DEF FilePtr

\* What lookups return.
LEMMA LookupFile ==
    ASSUME FInv, NEW name, Lookup(name) # NULL
    PROVE  Lookup(name) \in Files
<1>1. Here \in Dirs
  <2>1. Len(where) \in 1 .. Len(where)
    BY DEF FInv, TypeInv
  <2> QED  BY <2>1 DEF FInv, TypeInv, Here
<1> DEFINE hits == {no \in 0 .. disk[Here].filesize - 1 :
                     disk[getfilefromfolderbyno(Here, no)].filename = name}
<1>2. Lookup(name) =
        IF hits = {} THEN NULL
        ELSE getfilefromfolderbyno(
                 Here, CHOOSE no \in hits : \A k \in hits : no <= k)
  BY DEF Lookup, getfilefromfolderbyname
<1>3. hits \subseteq Nat /\ hits \subseteq Entries(Here)
  BY <1>1, FileFields DEF Entries, Dirs
<1>4. hits # {}
  BY <1>2
<1>5. PICK least \in hits : \A k \in hits : least <= k
  <2> HIDE DEF hits
  <2>1. PICK least \in hits :
            \A k \in hits : ~(<<k, least>> \in OpToRel(<, Nat))
    BY <1>3, <1>4, NatLessThanWellFounded, WFMin
  <2>2. \A k \in hits : ~(k < least)
    BY <1>3, <2>1 DEF OpToRel
  <2> QED  BY <1>3, <2>2
<1>6. (CHOOSE no \in hits : \A k \in hits : no <= k) \in hits
  BY <1>5
<1> QED  BY <1>1, <1>2, <1>3, <1>4, <1>6, EntryInside
             DEF getfilefromfolderbyno

----------------------------------------------------------------------------
LEMMA ButLast ==
    ASSUME NEW S, NEW s \in Seq(S), NEW n \in Nat, n = Len(s), n > 1
    PROVE  /\ SubSeq(s, 1, n - 1) \in Seq(S)
           /\ Len(SubSeq(s, 1, n - 1)) = n - 1
           /\ \A k \in 1 .. n - 1 : SubSeq(s, 1, n - 1)[k] = s[k]
  OBVIOUS

\* Calls that leave the disk alone.
LEMMA SameDisk ==
    ASSUME FInv, disk' = disk, map \subseteq map'
    PROVE  /\ Files' = Files /\ Dirs' = Dirs
           /\ EntryInv' /\ OwnInv'
<1>1. Files' = Files /\ Dirs' = Dirs
  BY DEF Files, Dirs
<1>2. EntryInv'
  BY <1>1 DEF FInv, EntryInv, Entries, Position
<1>3. OwnInv'
  BY <1>1 DEF FInv, OwnInv, Owned
<1> QED  BY <1>1, <1>2, <1>3

\* The path may grow by a directory and lose its end.
LEMMA PathStep ==
    ASSUME FInv, UNCHANGED <<map, search_begin, disk, pathbuffer>>,
           dead' \in BOOLEAN,
           \/ where' = where
           \/ \E d \in Dirs : where' = Append(where, d)
           \/ Len(where) > 1 /\ where' = SubSeq(where, 1, Len(where) - 1)
    PROVE  FInv'
<1>1. Files' = Files /\ Dirs' = Dirs /\ EntryInv' /\ OwnInv'
  BY SameDisk
<1>2. /\ where' \in Seq(FilePtr) /\ Len(where') > 0
      /\ where'[1] = ROOT
      /\ \A k \in 1 .. Len(where') : where'[k] \in Dirs
  <2>1. CASE where' = where
    BY <2>1 DEF FInv, TypeInv, TypeOK
  <2>2. CASE \E d \in Dirs : where' = Append(where, d)
    <3>1. PICK d \in Dirs : where' = Append(where, d)
      BY <2>2
    <3>2. d \in FilePtr
      BY DEF Dirs, Files
    <3>3. where \in Seq(FilePtr) /\ Len(where) > 0 /\ where[1] = ROOT
      BY DEF FInv, TypeInv, TypeOK
    <3>4. /\ where' \in Seq(FilePtr) /\ Len(where') = Len(where) + 1
          /\ where'[Len(where) + 1] = d
          /\ \A k \in 1 .. Len(where) : where'[k] = where[k]
      BY <3>1, <3>2, <3>3
    <3> QED  BY <3>3, <3>4 DEF FInv, TypeInv
  <2>3. CASE Len(where) > 1 /\ where' = SubSeq(where, 1, Len(where) - 1)
    <3> DEFINE n == Len(where)
    <3>1. where \in Seq(FilePtr) /\ n \in Nat /\ n > 1 /\ where[1] = ROOT
      BY <2>3 DEF FInv, TypeInv, TypeOK
    <3>2. \A k \in 1 .. n : where[k] \in Dirs
      BY DEF FInv, TypeInv
    <3>3. /\ where' \in Seq(FilePtr) /\ Len(where') = n - 1
          /\ \A k \in 1 .. n - 1 : where'[k] = where[k]
      <4> HIDE DEF n
      <4> QED  BY <2>3, <3>1, ButLast DEF n
    <3> HIDE DEF n
    <3> QED  BY <3>1, <3>2, <3>3
  <2> QED  BY <2>1, <2>2, <2>3
<1>3. \A k \in DOMAIN where' : where'[k] \in FilePtr /\ disk'[where'[k]].is_dir
  BY <1>1, <1>2 DEF Dirs, Files
<1>4. TypeInv'
  BY <1>1, <1>2, <1>3 DEF FInv, TypeInv, TypeOK
<1> QED  BY <1>1, <1>4 DEF FInv

\* What alloc_for_file() gets is free, and no two of it are one.
LEMMA Fresh ==
    ASSUME NEW got \in [1 .. NINODES -> Inode], alloc_for_file(got)
    PROVE  /\ \A k \in 1 .. NINODES : got[k] \notin map
           /\ \A j, k \in 1 .. NINODES : got[j] = got[k] => j = k
<1>1. ASSUME NEW k \in 1 .. NINODES
      PROVE  got[k] \notin map \cup {got[j] : j \in 1 .. k - 1}
  BY DEF alloc_for_file, find_empty_inode, Clear
<1>2. ASSUME NEW j \in 1 .. NINODES, NEW k \in 1 .. NINODES, j < k
      PROVE  got[j] # got[k]
  <2>1. j \in 1 .. k - 1
    BY <1>2, Sizes
  <2> QED  BY <2>1, <1>1
<1>3. ASSUME NEW j \in 1 .. NINODES, NEW k \in 1 .. NINODES, got[j] = got[k]
      PROVE  j = k
  <2>1. j < k \/ k < j \/ j = k
    BY Sizes
  <2> QED  BY <2>1, <1>2, <1>3
<1> QED  BY <1>1, <1>3

\* What creatfile() makes of the disk: one more File, in a place that was free,
\* and one more entry in its directory.
Created(d, p, n, name, is_dir, got) ==
    /\ d \in Dirs /\ d \in Files /\ p # d
    /\ n \in Nat /\ n < CAPACITY /\ n < ENTRIES
    /\ p \in FilePtr /\ p \notin Files /\ p # ROOT
    /\ disk' \in [FilePtr -> File \cup Raw]
    /\ Files' = Files \cup {p}
    /\ \A q \in FilePtr \ {d, p} : disk'[q] = disk[q]
    /\ \A f \in Files :
           /\ disk'[f].filename = disk[f].filename
           /\ disk'[f].inodes = disk[f].inodes
           /\ disk'[f].is_dir = disk[f].is_dir
           /\ f # d => disk'[f].filesize = disk[f].filesize
           /\ \A no : Position(f, no)' = Position(f, no)
    /\ disk'[d].filesize = n + 1
    /\ disk'[p].filename = name
    /\ disk'[p].inodes = got
    /\ disk'[p].is_dir = is_dir
    /\ disk'[p].filesize = 0

LEMMA MakeFiles ==
    ASSUME FInv, NEW name \in Names, NEW is_dir \in BOOLEAN,
           disk[Here].filesize # ENTRIES,
           NEW d, NEW n, NEW p,
           d = Here, n = disk[d].filesize, p = Position(d, n),
           NEW got \in [1 .. NINODES -> Inode],
           disk' = [disk EXCEPT
               ![d].filesize = @ + 1,
               ![p] = [filename |-> name, filesize |-> 0, is_dir |-> is_dir,
                       inodes |-> got]]
    PROVE  Created(d, p, n, name, is_dir, got)
<1> DEFINE new == [filename |-> name, filesize |-> 0, is_dir |-> is_dir,
                   inodes |-> got]
<1>1. d \in Dirs /\ d \in Files
  <2>1. Len(where) \in 1 .. Len(where)
    BY DEF FInv, TypeInv
  <2> QED  BY <2>1 DEF FInv, TypeInv, Here, Dirs
<1>2. /\ n \in Nat /\ n < CAPACITY /\ n < ENTRIES
      /\ p \in FilePtr /\ p \notin Files /\ p # ROOT
  BY <1>1, NextEntryFree
<1>3. disk \in [FilePtr -> File \cup Raw] /\ d \in FilePtr
  BY <1>1 DEF FInv, TypeInv, TypeOK, Files
<1>4. /\ disk' = [q \in FilePtr |->
             IF q = p THEN new
             ELSE IF q = d THEN [disk[d] EXCEPT !.filesize = @ + 1]
             ELSE disk[q]]
      /\ p # d
  BY <1>1, <1>2, <1>3
<1>5. new \in File
  BY Sizes DEF File
<1>6. /\ [disk[d] EXCEPT !.filesize = @ + 1] \in File
      /\ [disk[d] EXCEPT !.filesize = @ + 1].filename = disk[d].filename
      /\ [disk[d] EXCEPT !.filesize = @ + 1].inodes = disk[d].inodes
      /\ [disk[d] EXCEPT !.filesize = @ + 1].is_dir = disk[d].is_dir
      /\ [disk[d] EXCEPT !.filesize = @ + 1].filesize = n + 1
  BY <1>1, <1>2, FileFields DEF File
<1> HIDE DEF new
<1>7. /\ disk' \in [FilePtr -> File \cup Raw]
      /\ Files' = Files \cup {p}
  <2>1. disk' \in [FilePtr -> File \cup Raw]
    BY <1>3, <1>4, <1>5, <1>6
  <2>2. ASSUME NEW q \in FilePtr
        PROVE  IsFile(disk'[q]) <=> q \in Files \cup {p}
    <3>1. CASE q = p
      BY <3>1, <1>2, <1>4, <1>5, FileOrRaw
    <3>2. CASE q = d
      BY <3>2, <1>1, <1>3, <1>4, <1>6, FileOrRaw
    <3>3. CASE q # p /\ q # d
      BY <3>3, <1>4 DEF Files
    <3> QED  BY <3>1, <3>2, <3>3
  <2>3. Files' = {q \in FilePtr : IsFile(disk'[q])}
    BY DEF Files
  <2> QED  BY <2>1, <2>2, <2>3, <1>2 DEF Files
<1>8. /\ \A f \in Files :
              /\ disk'[f].filename = disk[f].filename
              /\ disk'[f].inodes = disk[f].inodes
              /\ disk'[f].is_dir = disk[f].is_dir
              /\ f # d => disk'[f].filesize = disk[f].filesize
       /\ disk'[d].filesize = n + 1
       /\ disk'[p] = new
  BY <1>1, <1>2, <1>3, <1>4, <1>6 DEF Files
<1>9. \A f \in Files : \A no : Position(f, no)' = Position(f, no)
  BY <1>8 DEF Position
<1>10. /\ new.filename = name /\ new.inodes = got
       /\ new.is_dir = is_dir /\ new.filesize = 0
  BY DEF new
<1>11. \A q \in FilePtr \ {d, p} : disk'[q] = disk[q]
  BY <1>4
<1> QED  BY <1>1, <1>2, <1>4, <1>7, <1>8, <1>9, <1>10, <1>11 DEF Created

LEMMA MakeStep ==
    ASSUME FInv, NEW name \in Names, NEW is_dir \in BOOLEAN,
           disk[Here].filesize # ENTRIES, creatfile(Here, name, is_dir),
           dead' = FALSE, UNCHANGED <<where, pathbuffer>>
    PROVE  FInv'
<1>0. PICK d, n, p :
        d = Here /\ n = disk[d].filesize /\ p = Position(d, n)
  OBVIOUS
<1>1. PICK got \in [1 .. NINODES -> Inode] :
        /\ alloc_for_file(got)
        /\ Allocated(got)
        /\ disk' = [disk EXCEPT
               ![d].filesize = @ + 1,
               ![p] = [filename |-> name, filesize |-> 0, is_dir |-> is_dir,
                       inodes |-> got]]
  BY <1>0 DEF creatfile, getfilefromfolderbyno
<1>2. /\ \A k \in 1 .. NINODES : got[k] \notin map
      /\ \A j, k \in 1 .. NINODES : got[j] = got[k] => j = k
  BY <1>1, Fresh
<1>3. Created(d, p, n, name, is_dir, got)
  BY <1>0, <1>1, MakeFiles
<1> USE DEF Created
<1>4. EntryInv'
  <2>1. ASSUME NEW e \in Dirs'
        PROVE  /\ disk'[e].filesize <= ENTRIES
               /\ \A no \in Entries(e)' : Position(e, no)' \in Files'
    <3>1. CASE e = p
      <4>1. disk'[e].filesize = 0
        BY <3>1, <1>3
      <4> QED  BY <4>1, Sizes DEF Entries
    <3>2. CASE e = d
      <4>1. disk'[e].filesize = n + 1 /\ n + 1 <= ENTRIES
        BY <3>2, <1>3, Sizes
      <4>2. ASSUME NEW no \in 0 .. n  PROVE Position(d, no) \in Files \cup {p}
        <5>1. CASE no = n
          BY <5>1, <1>0
        <5>2. CASE no # n
          <6>1. no \in Entries(d)
            BY <5>2, <1>0, <1>3 DEF Entries
          <6> QED  BY <6>1, <1>3 DEF FInv, EntryInv
        <5> QED  BY <5>1, <5>2
      <4>3. Entries(e)' = 0 .. n
        BY <4>1, <1>3 DEF Entries
      <4> QED  BY <3>2, <4>1, <4>2, <4>3, <1>3
    <3>3. CASE e # p /\ e # d
      <4>1. e \in Dirs /\ disk'[e].filesize = disk[e].filesize
        BY <3>3, <1>3 DEF Dirs
      <4>2. e \in Files /\ Entries(e)' = Entries(e)
        BY <4>1 DEF Entries, Dirs
      <4> QED  BY <4>1, <4>2, <1>3 DEF FInv, EntryInv
    <3> QED  BY <3>1, <3>2, <3>3
  <2>2. ASSUME NEW f \in Files' \ {ROOT}
        PROVE  \E e \in Dirs' : \E no \in Entries(e)' : f = Position(e, no)'
    <3>1. d \in Dirs' /\ n \in Entries(d)'
      BY <1>3 DEF Dirs, Entries
    <3>2. CASE f = p
      BY <3>1, <3>2, <1>0, <1>3
    <3>3. CASE f # p
      <4>1. PICK e \in Dirs : \E no \in Entries(e) : f = Position(e, no)
        BY <3>3, <1>3 DEF FInv, EntryInv
      <4>2. PICK no \in Entries(e) : f = Position(e, no)
        BY <4>1
      <4>3. e \in Files /\ e \in Dirs'
        BY <1>3 DEF Dirs
      <4>4. no \in Entries(e)'
        <5>1. CASE e = d
          BY <5>1, <1>0, <1>3 DEF Entries
        <5>2. CASE e # d
          BY <5>2, <4>3, <1>3 DEF Entries
        <5> QED  BY <5>1, <5>2
      <4> QED  BY <4>2, <4>3, <4>4, <1>3
    <3> QED  BY <3>2, <3>3
  <2> QED  BY <2>1, <2>2 DEF EntryInv
<1>5. map' = map \cup {got[k] : k \in 1 .. NINODES}
  BY <1>1 DEF Allocated
<1>6. OwnInv'
  <2>1. /\ \A f \in Files : Owned(f)' = Owned(f)
        /\ Owned(p)' = {got[k] : k \in 1 .. NINODES}
    BY <1>3 DEF Owned
  <2>2. ASSUME NEW f \in Files'
        PROVE  /\ Owned(f)' \subseteq map'
               /\ \A j, k \in 1 .. NINODES :
                      disk'[f].inodes[j] = disk'[f].inodes[k] => j = k
    <3>1. CASE f = p
      BY <3>1, <2>1, <1>2, <1>3, <1>5
    <3>2. CASE f # p
      BY <3>2, <2>1, <1>3, <1>5 DEF FInv, OwnInv
    <3> QED  BY <3>1, <3>2
  <2>3. \A f \in Files : Owned(f) \cap {got[k] : k \in 1 .. NINODES} = {}
    BY <1>2 DEF FInv, OwnInv
  <2>4. ASSUME NEW f \in Files', NEW g \in Files', f # g
        PROVE  Owned(f)' \cap Owned(g)' = {}
    <3>1. CASE f \in Files /\ g \in Files
      BY <3>1, <2>1, <2>4 DEF FInv, OwnInv
    <3>2. CASE f = p \/ g = p
      BY <3>2, <2>1, <2>3, <2>4, <1>3
    <3> QED  BY <3>1, <3>2, <1>3
  <2> QED  BY <2>2, <2>4 DEF OwnInv
<1>7. TypeInv'
  <2>1. \A k \in 1 .. Len(where) : where[k] \in Dirs'
    BY <1>3 DEF FInv, TypeInv, Dirs
  <2>2. map' \subseteq Inode
    BY <1>5 DEF FInv, TypeInv, TypeOK
  <2>3. search_begin' \in Nat
    <3>1. NINODES \in 1 .. NINODES
      BY Sizes
    <3>2. got[NINODES] \in Nat
      BY <3>1, Sizes DEF Inode
    <3> QED  BY <3>2, <1>1, Sizes, Division DEF Allocated, Byte
  <2>4. \A k \in DOMAIN where' :
            where'[k] \in FilePtr /\ disk'[where'[k]].is_dir
    BY <2>1 DEF FInv, TypeInv, Dirs, Files
  <2> QED  BY <1>3, <2>1, <2>2, <2>3, <2>4 DEF FInv, TypeInv, TypeOK
<1> QED  BY <1>4, <1>6, <1>7 DEF FInv

\* Calls that only change data and the size of a plain file.
LEMMA SameFiles ==
    ASSUME FInv, NEW t \in Files, ~disk[t].is_dir,
           disk' \in [FilePtr -> File \cup Raw], Files' = Files,
           \A f \in Files :
               /\ disk'[f].inodes = disk[f].inodes
               /\ disk'[f].is_dir = disk[f].is_dir
               /\ f # t => disk'[f].filesize = disk[f].filesize,
           dead' = FALSE,
           UNCHANGED <<map, search_begin, where, pathbuffer>>
    PROVE  FInv'
<1>1. Dirs' = Dirs /\ t \notin Dirs
  <2>1. \A f \in Files : disk'[f].is_dir <=> disk[f].is_dir
    OBVIOUS
  <2> QED  BY <2>1 DEF Dirs
<1>2. /\ \A f \in Files : \A no : Position(f, no)' = Position(f, no)
      /\ \A f \in Files : Owned(f)' = Owned(f)
  BY DEF Position, Owned
<1>3. \A e \in Dirs : /\ e \in Files
                      /\ disk'[e].filesize = disk[e].filesize
                      /\ Entries(e)' = Entries(e)
  BY <1>1 DEF Dirs, Entries
<1>4. EntryInv'
  BY <1>1, <1>2, <1>3 DEF FInv, EntryInv
<1>5. OwnInv'
  BY <1>2 DEF FInv, OwnInv
<1>6. \A k \in DOMAIN where' :
          where'[k] \in FilePtr /\ disk'[where'[k]].is_dir
  <2>1. ASSUME NEW k \in DOMAIN where
        PROVE  where[k] \in FilePtr /\ disk'[where[k]].is_dir
    <3>1. where[k] \in Dirs
      BY DEF FInv, TypeInv
    <3> QED  BY <3>1, <1>1 DEF Dirs, Files
  <2> QED  BY <2>1
<1>7. TypeInv'
  BY <1>1, <1>6 DEF FInv, TypeInv, TypeOK
<1> QED  BY <1>4, <1>5, <1>7 DEF FInv

\* The disk when len units of a buffer have been written to a file.
Written(t, buffer, len) ==
    [q \in FilePtr |->
        IF q = t THEN [disk[q] EXCEPT !.filesize = len]
        ELSE IF \E no \in 0 .. len - 1 : q = Position(t, no)
        THEN [data |-> buffer[CHOOSE no \in 1 .. len :
                                  q = Position(t, no - 1)]]
        ELSE disk[q]]

\* Writing changes data and a file's size, no File else and no one's pages.
LEMMA WriteFiles ==
    ASSUME FInv, NEW t \in Files, ~disk[t].is_dir,
           NEW buffer \in Seq(Data), NEW len \in Nat,
           len = Len(buffer), len < CAPACITY,
           disk' = Written(t, buffer, len)
    PROVE  /\ disk' \in [FilePtr -> File \cup Raw] /\ Files' = Files
           /\ disk'[t].filesize = len
           /\ \A f \in Files :
                  /\ disk'[f].filename = disk[f].filename
                  /\ disk'[f].inodes = disk[f].inodes
                  /\ disk'[f].is_dir = disk[f].is_dir
                  /\ f # t => disk'[f].filesize = disk[f].filesize
           /\ \A q \in FilePtr \ {t} :
                  (\A no \in 0 .. len - 1 : q # Position(t, no))
                  => disk'[q] = disk[q]
           /\ \A k \in 1 .. len : disk'[Position(t, k - 1)].data = buffer[k]
<1> DEFINE Hit(q) == \E no \in 0 .. len - 1 : q = Position(t, no)
           at(q) == CHOOSE no \in 1 .. len : q = Position(t, no - 1)
           file == [disk[t] EXCEPT !.filesize = len]
<1>1. ASSUME NEW q, Hit(q)  PROVE q \notin Files /\ buffer[at(q)] \in Data
  <2>1. PICK no \in 0 .. len - 1 : q = Position(t, no)
    BY <1>1
  <2>2. q \notin Files
    BY <2>1, NoFileInPlain, Sizes
  <2>3. no + 1 \in 1 .. len /\ q = Position(t, (no + 1) - 1)
    BY <2>1
  <2>4. at(q) \in 1 .. len
    <3> DEFINE P(k) == q = Position(t, k - 1)
    <3>1. \E k \in 1 .. len : P(k)
      BY <2>3
    <3> HIDE DEF P
    <3>2. (CHOOSE k \in 1 .. len : P(k)) \in 1 .. len
      BY <3>1
    <3> QED  BY <3>2 DEF P
  <2> HIDE DEF at
  <2> QED  BY <2>2, <2>4
<1>2. /\ disk[t] \in File /\ t \in FilePtr
      /\ file \in File /\ file.inodes = disk[t].inodes
      /\ file.is_dir = disk[t].is_dir /\ file.filesize = len
      /\ file.filename = disk[t].filename
  BY FileFields DEF File
<1> HIDE DEF at, Hit, file
<1>3. disk' = [q \in FilePtr |->
          IF q = t THEN file
          ELSE IF Hit(q) THEN [data |-> buffer[at(q)]] ELSE disk[q]]
  BY DEF Written, at, Hit, file
<1>4. disk \in [FilePtr -> File \cup Raw]
  BY DEF FInv, TypeInv, TypeOK
<1>5. ASSUME NEW q \in FilePtr, q # t, Hit(q)
      PROVE  disk'[q] \in Raw /\ ~IsFile(disk'[q]) /\ q \notin Files
  <2>1. disk'[q] = [data |-> buffer[at(q)]]
    BY <1>3, <1>5
  <2>2. disk'[q] \in Raw
    BY <1>1, <1>5, <2>1 DEF Raw
  <2> QED  BY <1>1, <1>5, <2>2, FileOrRaw
<1>6. disk' \in [FilePtr -> File \cup Raw]
  <2>1. ASSUME NEW q \in FilePtr  PROVE disk'[q] \in File \cup Raw
    BY <1>2, <1>3, <1>4, <1>5
  <2> QED  BY <1>3, <2>1
<1>7. Files' = Files
  <2>1. ASSUME NEW q \in FilePtr  PROVE IsFile(disk'[q]) <=> q \in Files
    <3>1. CASE q = t
      BY <3>1, <1>2, <1>3, FileOrRaw
    <3>2. CASE q # t /\ Hit(q)
      BY <3>2, <1>5
    <3>3. CASE q # t /\ ~Hit(q)
      BY <3>3, <1>3 DEF Files
    <3> QED  BY <3>1, <3>2, <3>3
  <2> QED  BY <2>1 DEF Files
<1>8. disk'[t] = file
  BY <1>2, <1>3
<1>9. \A f \in Files :
          /\ disk'[f].filename = disk[f].filename
          /\ disk'[f].inodes = disk[f].inodes
          /\ disk'[f].is_dir = disk[f].is_dir
          /\ f # t => disk'[f].filesize = disk[f].filesize
  <2>1. ASSUME NEW f \in Files, f # t  PROVE disk'[f] = disk[f]
    BY <2>1, <1>1, <1>3 DEF Files
  <2> QED  BY <2>1, <1>2, <1>8
<1>10. \A q \in FilePtr \ {t} : ~Hit(q) => disk'[q] = disk[q]
  BY <1>3
<1>11. ASSUME NEW k \in 1 .. len
       PROVE  disk'[Position(t, k - 1)].data = buffer[k]
  <2>1. PICK q : q = Position(t, k - 1)
    OBVIOUS
  <2>2. k - 1 \in 0 .. len - 1 /\ k - 1 \in Nat /\ k - 1 < CAPACITY
    BY Sizes
  <2>3. q \notin Files /\ q \in FilePtr /\ Hit(q)
    BY <2>1, <2>2, NoFileInPlain, PositionInside DEF Hit, FilePtr
  <2>4. at(q) = k
    <3>1. ASSUME NEW j \in 1 .. len, q = Position(t, j - 1)
          PROVE  j = k
      <4>1. j - 1 \in Nat /\ j - 1 < CAPACITY
        BY Sizes
      <4>2. j - 1 = k - 1
        BY <2>1, <2>2, <3>1, <4>1, PositionApart
      <4> QED  BY <4>2
    <3>2. at(q) = CHOOSE j \in 1 .. len : q = Position(t, j - 1)
      BY DEF at
    <3> QED  BY <2>1, <3>1, <3>2
  <2>5. disk'[q] = [data |-> buffer[k]]
    BY <1>3, <2>3, <2>4
  <2> QED  BY <2>1, <2>5
<1>12. \A q : Hit(q) <=> \E no \in 0 .. len - 1 : q = Position(t, no)
  BY DEF Hit
<1> QED  BY <1>2, <1>6, <1>7, <1>8, <1>9, <1>10, <1>11, <1>12

LEMMA WriteStep ==
    ASSUME FInv, NEW t, NEW buffer \in Seq(Data), NEW len \in Nat,
           len = Len(buffer), t \in Files, ~disk[t].is_dir, len < CAPACITY,
           disk' = Written(t, buffer, len),
           dead' = FALSE,
           UNCHANGED <<map, search_begin, where, pathbuffer>>
    PROVE  FInv'
<1>1. /\ disk' \in [FilePtr -> File \cup Raw] /\ Files' = Files
      /\ \A f \in Files :
             /\ disk'[f].inodes = disk[f].inodes
             /\ disk'[f].is_dir = disk[f].is_dir
             /\ f # t => disk'[f].filesize = disk[f].filesize
  BY WriteFiles
<1> QED  BY <1>1, SameFiles

\* A call that hangs takes every inode there is.
LEMMA HangStep ==
    ASSUME FInv, alloc_for_indirect
    PROVE  FInv'
<1>1. map \subseteq map' /\ map' = Inode /\ disk' = disk
  BY DEF FInv, TypeInv, TypeOK, alloc_for_indirect
<1>2. Files' = Files /\ Dirs' = Dirs /\ EntryInv' /\ OwnInv'
  BY <1>1, SameDisk
<1>3. TypeInv'
  BY <1>1, <1>2 DEF FInv, TypeInv, TypeOK, alloc_for_indirect
<1> QED  BY <1>2, <1>3 DEF FInv

\* The bootstrapped disk holds the root, which is empty.
LEMMA InitInv ==
    ASSUME Init
    PROVE  FInv
<1> DEFINE root == [filename |-> "root", filesize |-> 0, is_dir |-> TRUE,
                    inodes |-> [k \in 1 .. NINODES |-> k - 1]]
           none == [data |-> "none"]
<1>1. disk = [p \in FilePtr |-> IF p = ROOT THEN root ELSE none]
  BY DEF Init, init_map
<1>2. root \in File /\ none \in Raw /\ ROOT \in FilePtr
  <2>1. \A k \in 1 .. NINODES : k - 1 \in Inode
    BY Sizes DEF Inode
  <2> QED  BY <2>1 DEF File, Raw, FilePtr
<1>3. root.filesize = 0 /\ root.is_dir
      /\ \A k \in 1 .. NINODES : root.inodes[k] = k - 1
  OBVIOUS
<1> HIDE DEF root, none
<1>4. Files = {ROOT}
  BY <1>1, <1>2, FileOrRaw DEF Files
<1>5. Dirs = {ROOT} /\ disk[ROOT] = root
  BY <1>1, <1>2, <1>3, <1>4 DEF Dirs
<1>6. EntryInv
  BY <1>3, <1>4, <1>5, Sizes DEF EntryInv, Entries
<1>7. OwnInv
  <2>1. Owned(ROOT) \subseteq map
    BY <1>3, <1>5, Sizes DEF Owned, Init, init_map
  <2>2. \A j, k \in 1 .. NINODES : root.inodes[j] = root.inodes[k] => j = k
    BY <1>3
  <2> QED  BY <1>4, <1>5, <2>1, <2>2 DEF OwnInv
<1>8. /\ where = <<ROOT>> /\ where \in Seq(FilePtr) /\ Len(where) = 1
      /\ where[1] = ROOT /\ DOMAIN where = 1 .. 1
  BY <1>2 DEF Init, init_map
<1>9. search_begin \in Nat /\ map \subseteq Inode
  <2>1. NINODES - 1 \in Nat
    BY Sizes
  <2>2. search_begin \in Nat
    BY <2>1, Sizes, Division DEF Init, init_map, Byte
  <2> QED  BY <2>2, Sizes DEF Init, init_map, Inode
<1>10. \A k \in DOMAIN where : where[k] \in FilePtr /\ disk[where[k]].is_dir
  BY <1>2, <1>3, <1>5, <1>8
<1>11. disk \in [FilePtr -> File \cup Raw]
  BY <1>1, <1>2
<1>12. pathbuffer \in Seq(Names \cup {"root"}) /\ dead \in BOOLEAN
  <2>1. pathbuffer = <<>> /\ dead = FALSE
    BY DEF Init
  <2> DEFINE S == Names \cup {"root"}
  <2> HIDE DEF S
  <2>2. <<>> \in Seq(S)
    OBVIOUS
  <2> QED  BY <2>1, <2>2 DEF S
<1>13. TypeOK
  BY <1>8, <1>9, <1>10, <1>11, <1>12 DEF TypeOK
<1>14. TypeInv
  BY <1>5, <1>8, <1>13 DEF TypeInv
<1> QED  BY <1>6, <1>7, <1>14 DEF FInv

\* pwd() prints the names on the path.
LEMMA PathNames ==
    ASSUME FInv
    PROVE  PathOf(where) \in Seq(Names \cup {"root"})
<1> DEFINE n == Len(where)
           S == Names \cup {"root"}
<1>1. where \in Seq(FilePtr) /\ n \in Nat /\ DOMAIN where = 1 .. n
  BY DEF FInv, TypeInv
<1>2. ASSUME NEW k \in 1 .. n  PROVE disk[where[k]].filename \in S
  <2>1. where[k] \in Files
    BY DEF FInv, TypeInv, Dirs
  <2> QED  BY <2>1, FileFields
<1> HIDE DEF n, S
<1>3. PathOf(where) = [k \in 1 .. n |-> disk[where[k]].filename]
  BY <1>1 DEF PathOf
<1>4. PathOf(where) \in [1 .. n -> S]
  BY <1>2, <1>3
<1>5. PathOf(where) \in Seq(S)
  BY <1>1, <1>4, SeqDef
<1> QED  BY <1>5 DEF S

LEMMA PwdStep ==
    ASSUME FInv, pwd
    PROVE  FInv'
<1>1. Files' = Files /\ Dirs' = Dirs /\ EntryInv' /\ OwnInv'
  BY SameDisk DEF pwd
<1>2. pathbuffer' \in Seq(Names \cup {"root"})
  <2>1. pathbuffer \in Seq(Names \cup {"root"})
    BY DEF FInv, TypeInv, TypeOK
  <2>2. pathbuffer' = pathbuffer \o PathOf(where)
    BY DEF pwd
  <2> QED  BY <2>1, <2>2, PathNames
<1>3. dead' = FALSE /\ UNCHANGED <<map, search_begin, disk, where>>
  BY DEF pwd, Answer
<1>4. TypeInv'
  BY <1>1, <1>2, <1>3 DEF FInv, TypeInv, TypeOK
<1> QED  BY <1>1, <1>4 DEF FInv

\* mkdir() and creat().
LEMMA MakeCall ==
    ASSUME FInv, NEW call, NEW name \in Names, NEW is_dir \in BOOLEAN,
           Make(call, name, is_dir)
    PROVE  FInv'
<1>1. CASE UNCHANGED <<map, search_begin, disk, where, pathbuffer>>
           /\ dead' = FALSE
  BY <1>1, PathStep
<1>2. CASE /\ disk[Here].filesize # ENTRIES
           /\ creatfile(Here, name, is_dir)
           /\ dead' = FALSE /\ UNCHANGED <<where, pathbuffer>>
  BY <1>2, MakeStep
<1>3. CASE alloc_for_indirect
  BY <1>3, HangStep
<1> QED  BY <1>1, <1>2, <1>3 DEF Make, Answer

LEMMA WriteCall ==
    ASSUME FInv, NEW name \in Names, NEW buffer \in Contents[name],
           writefile(name, buffer)
    PROVE  FInv'
<1>1. buffer \in Seq(Data)
  BY FsAssumption
<1>2. PICK t, len : t = Lookup(name) /\ len = Len(buffer)
  OBVIOUS
<1>3. len \in Nat
  BY <1>1, <1>2
<1>4. CASE UNCHANGED <<map, search_begin, disk, where, pathbuffer>>
           /\ dead' = FALSE
  BY <1>4, PathStep
<1>5. CASE /\ IsPlain(t)
           /\ len < CAPACITY
           /\ disk' = Written(t, buffer, len)
           /\ dead' = FALSE
           /\ UNCHANGED <<map, search_begin, where, pathbuffer>>
  <2>1. t \in Files /\ ~disk[t].is_dir
    BY <1>2, <1>5, LookupFile DEF IsPlain
  <2> QED  BY <1>1, <1>2, <1>3, <1>5, <2>1, WriteStep
<1>6. CASE alloc_for_indirect
  BY <1>6, HangStep
<1>7. \/ UNCHANGED <<map, search_begin, disk, where, pathbuffer>>
         /\ dead' = FALSE
      \/ /\ IsPlain(Lookup(name)) /\ Len(buffer) < CAPACITY
         /\ disk' = Written(Lookup(name), buffer, Len(buffer))
         /\ dead' = FALSE
         /\ UNCHANGED <<map, search_begin, where, pathbuffer>>
      \/ alloc_for_indirect
  BY Zenon DEF writefile, Answer, Written
<1> QED  BY <1>2, <1>4, <1>5, <1>6, <1>7

LEMMA CdCall ==
    ASSUME FInv, NEW name \in Names, cd(name)
    PROVE  FInv'
<1>1. /\ UNCHANGED <<map, search_begin, disk, pathbuffer>>
      /\ dead' \in BOOLEAN
  BY DEF cd, Answer
<1>2. CASE IsFolder(Lookup(name))
  <2>1. Lookup(name) \in Dirs
    BY <1>2, LookupFile DEF IsFolder, Dirs
  <2>2. where' = Append(where, Lookup(name))
    BY <1>2 DEF cd
  <2> QED  BY <1>1, <2>1, <2>2, PathStep
<1>3. CASE ~IsFolder(Lookup(name))
  BY <1>1, <1>3, PathStep DEF cd
<1> QED  BY <1>2, <1>3

LEMMA CdUpCall ==
    ASSUME FInv, cd_up
    PROVE  FInv'
<1>1. /\ UNCHANGED <<map, search_begin, disk, pathbuffer>>
      /\ dead' \in BOOLEAN
  BY DEF cd_up, Answer
<1>2. CASE Len(where) = 1
  BY <1>1, <1>2, PathStep DEF cd_up
<1>3. CASE Len(where) # 1
  <2>1. Len(where) > 1
    <3> DEFINE n == Len(where)
    <3>1. n \in Nat /\ n > 0
      BY DEF FInv, TypeInv
    <3>2. n # 1
      BY <1>3
    <3> HIDE DEF n
    <3>3. n > 1
      BY <3>1, <3>2
    <3> QED  BY <3>3 DEF n
  <2>2. where' = SubSeq(where, 1, Len(where) - 1)
    BY <1>3 DEF cd_up
  <2> QED  BY <1>1, <2>1, <2>2, PathStep
<1> QED  BY <1>2, <1>3

LEMMA StepInv == FInv /\ [Next]_vars => FInv'
<1> SUFFICES ASSUME FInv, [Next]_vars  PROVE FInv'
  OBVIOUS
<1>1. ASSUME NEW name \in Folders, mkdir(name)  PROVE FInv'
  <2>1. name \in Names
    BY FsAssumption
  <2> QED  BY <1>1, <2>1, MakeCall DEF mkdir
<1>2. ASSUME NEW name \in Plains, creat(name)  PROVE FInv'
  <2>1. name \in Names
    BY FsAssumption
  <2> QED  BY <1>2, <2>1, MakeCall DEF creat
<1>3. ASSUME NEW name \in Names, cd(name)  PROVE FInv'
  BY <1>3, CdCall
<1>4. ASSUME NEW name \in Names, cat(name)  PROVE FInv'
  <2>1. UNCHANGED <<map, search_begin, disk, where, pathbuffer>>
    BY <1>4 DEF cat
  <2>2. dead' = FALSE
    BY <1>4 DEF cat, Answer
  <2> QED  BY <2>1, <2>2, PathStep
<1>5. ASSUME NEW name \in Names, NEW buffer \in Contents[name],
             writefile(name, buffer)
      PROVE  FInv'
  BY <1>5, WriteCall
<1>6. CASE cd_up
  BY <1>6, CdUpCall
<1>7. CASE ls
  <2>1. UNCHANGED <<map, search_begin, disk, where, pathbuffer>>
    BY <1>7 DEF ls
  <2>2. dead' = FALSE
    BY <1>7 DEF ls, Answer
  <2> QED  BY <2>1, <2>2, PathStep
<1>8. CASE pwd
  BY <1>8, PwdStep
<1>9. CASE UNCHANGED vars
  <2>1. UNCHANGED <<map, search_begin, disk, where, pathbuffer, dead>>
    BY <1>9 DEF vars
  <2>2. dead \in BOOLEAN
    BY DEF FInv, TypeInv, TypeOK
  <2> QED  BY <2>1, <2>2, PathStep
<1> QED  BY <1>1, <1>2, <1>3, <1>4, <1>5, <1>6, <1>7, <1>8, <1>9 DEF Next

LEMMA Invariance == Spec => []FInv
<1>1. Init => FInv
  BY InitInv
<1>2. FInv /\ [Next]_vars => FInv'
  BY StepInv
<1> QED  BY <1>1, <1>2, PTL DEF Spec

----------------------------------------------------------------------------
\* Whatever calls are made, the bitmap, the disk, the path and pwd()'s buffer
\* keep to their types, and the path of cd() leads through directories.
THEOREM FsTypeCorrect == Spec => []TypeOK
<1>1. FInv => TypeOK
  BY DEF FInv, TypeInv
<1> QED  BY <1>1, Invariance, PTL

\* alloc_for_file() and creatfile() never give a page to two files, or one
\* that the bitmap takes for free, and a File lies in its directory's pages.
THEOREM PagesOwned == Spec => []InodesExclusive
<1>1. FInv => InodesExclusive
  <2> SUFFICES ASSUME FInv  PROVE InodesExclusive
    OBVIOUS
  <2>1. ASSUME NEW f \in Files, f # ROOT
        PROVE  \E d \in Files : disk[d].is_dir /\ f[1] \in Owned(d)
    <3>1. PICK d \in Dirs : \E no \in Entries(d) : f = Position(d, no)
      BY <2>1 DEF FInv, EntryInv
    <3>2. f[1] \in Owned(d)
      BY <3>1, EntryInside
    <3> QED  BY <3>2 DEF Dirs
  <2> QED  BY <2>1 DEF FInv, OwnInv, InodesExclusive
<1> QED  BY <1>1, Invariance, PTL

----------------------------------------------------------------------------
(***************************************************************************)
(* The disk as a store of files and directories                            *)
(***************************************************************************)
Name(d, no) == disk[Position(d, no)].filename

NamesInv ==
    \A d \in Dirs : \A i, j \in Entries(d) : Name(d, i) = Name(d, j) => i = j
PathInv ==
    /\ disk[ROOT].filename = "root"
    /\ \A k \in 1 .. Len(where) : k # 1 =>
           \E no \in Entries(where[k - 1]) :
               where[k] = Position(where[k - 1], no)
SizeInv == \A f \in Files \ Dirs : disk[f].filesize < CAPACITY

\* The inductive invariant.
TreeInv == FInv /\ NamesInv /\ PathInv /\ SizeInv

----------------------------------------------------------------------------
LEMMA HereDir ==
    ASSUME FInv
    PROVE  Here \in Dirs
<1>1. Len(where) \in 1 .. Len(where)
  BY DEF FInv, TypeInv
<1> QED  BY <1>1 DEF FInv, TypeInv, Here

\* A directory finds every entry by its name, and nothing else.
LEMMA NamedEntry ==
    ASSUME FInv, NamesInv, NEW d \in Dirs, NEW no \in Entries(d)
    PROVE  getfilefromfolderbyname(d, Name(d, no)) = Position(d, no)
<1> DEFINE hits == {k \in 0 .. disk[d].filesize - 1 :
                     disk[getfilefromfolderbyno(d, k)].filename = Name(d, no)}
<1>1. hits = {no}
  BY DEF NamesInv, Entries, getfilefromfolderbyno, Name
<1>2. getfilefromfolderbyname(d, Name(d, no)) =
        IF hits = {} THEN NULL
        ELSE getfilefromfolderbyno(
                 d, CHOOSE k \in hits : \A j \in hits : k <= j)
  BY DEF getfilefromfolderbyname
<1>3. no \in Nat
  BY EntryInside
<1> HIDE DEF hits
<1>4. (CHOOSE k \in hits : \A j \in hits : k <= j) = no
  BY <1>1, <1>3
<1> QED  BY <1>1, <1>2, <1>4 DEF getfilefromfolderbyno

LEMMA NoEntry ==
    ASSUME NEW d, NEW name, name \notin EntryNames(d)
    PROVE  getfilefromfolderbyname(d, name) = NULL
<1> DEFINE hits == {no \in 0 .. disk[d].filesize - 1 :
                     disk[getfilefromfolderbyno(d, no)].filename = name}
<1>1. hits = {}
  BY DEF EntryNames
<1>2. getfilefromfolderbyname(d, name) =
        IF hits = {} THEN NULL
        ELSE getfilefromfolderbyno(
                 d, CHOOSE no \in hits : \A k \in hits : no <= k)
  BY DEF getfilefromfolderbyname
<1> HIDE DEF hits
<1> QED  BY <1>1, <1>2

LEMMA Found ==
    ASSUME FInv, NamesInv, NEW d \in Dirs, NEW name \in EntryNames(d)
    PROVE  \E no \in Entries(d) :
               /\ name = Name(d, no)
               /\ getfilefromfolderbyname(d, name) = Position(d, no)
               /\ Position(d, no) \in Files
               /\ Position(d, no) # NULL
<1>1. PICK no \in Entries(d) : name = Name(d, no)
  BY DEF EntryNames, Entries, Name, getfilefromfolderbyno
<1> QED  BY <1>1, NamedEntry, EntryInside

LEMMA FoundOrNot ==
    ASSUME FInv, NamesInv, NEW d \in Dirs, NEW name
    PROVE  getfilefromfolderbyname(d, name) # NULL <=> name \in EntryNames(d)
<1>1. CASE name \in EntryNames(d)
  BY <1>1, Found
<1>2. CASE name \notin EntryNames(d)
  BY <1>2, NoEntry
<1> QED  BY <1>1, <1>2

----------------------------------------------------------------------------
\* The store that the disk stands for.
Store == [file \in FilePtr |-> Object(file)]
FolderOf(d) ==
    [name \in EntryNames(d) |-> getfilefromfolderbyname(d, name)]

LEMMA ObjectIs ==
    ASSUME NEW f \in FilePtr
    PROVE  /\ Store[f] = Object(f)
           /\ f \notin Files => Object(f) = Tree!Nothing
           /\ f \in Dirs => Object(f) = Tree!Folder(FolderOf(f))
           /\ f \in Files \ Dirs => Object(f) = Tree!Plain(Shown(f))
<1>1. Store[f] = Object(f)
  BY DEF Store
<1>2. f \notin Files => Object(f) = Tree!Nothing
  BY DEF Object, Files, Tree!Nothing
<1>3. f \in Dirs => Object(f) = Tree!Folder(FolderOf(f))
  BY DEF Object, Files, Dirs, Tree!Folder, FolderOf
<1>4. f \in Files \ Dirs => Object(f) = Tree!Plain(Shown(f))
  BY DEF Object, Files, Dirs, Tree!Plain
<1> QED  BY <1>1, <1>2, <1>3, <1>4

\* What FileTree says of the current directory, in terms of the disk.
LEMMA TreeHere ==
    ASSUME FInv, NamesInv
    PROVE  /\ Tree!Here = Here
           /\ Tree!Entries = FolderOf(Here)
           /\ \A name :
                 /\ Tree!Exists(name) <=> Lookup(name) # NULL
                 /\ Tree!Is("folder", name) <=> IsFolder(Lookup(name))
                 /\ Tree!Is("plain", name) <=> IsPlain(Lookup(name))
                 /\ Tree!Exists(name) =>
                        /\ Tree!Entries[name] = Lookup(name)
                        /\ Lookup(name) \in Files
                        /\ Lookup(name) \in FilePtr
<1>1. Tree!Here = Here
  BY DEF Tree!Here, Here
<1>2. Here \in Dirs /\ Here \in FilePtr
  BY HereDir DEF Dirs, Files
<1>3. Tree!Entries = FolderOf(Here)
  <2>1. Tree!Entries = Store[Here].entries
    BY <1>1 DEF Tree!Entries, Store
  <2>2. Store[Here] = Tree!Folder(FolderOf(Here))
    BY <1>2, ObjectIs
  <2> QED  BY <2>1, <2>2 DEF Tree!Folder
<1>4. ASSUME NEW name
      PROVE  Tree!Exists(name) <=> Lookup(name) # NULL
  BY <1>2, <1>3, FoundOrNot DEF Tree!Exists, FolderOf, Lookup
<1>5. ASSUME NEW name, Tree!Exists(name)
      PROVE  /\ Tree!Entries[name] = Lookup(name)
             /\ Lookup(name) \in Files
             /\ Lookup(name) \in FilePtr
  <2>1. name \in EntryNames(Here)
    BY <1>3, <1>5 DEF Tree!Exists, FolderOf
  <2>2. Tree!Entries[name] = Lookup(name)
    BY <1>3, <2>1 DEF FolderOf, Lookup
  <2> QED  BY <1>4, <1>5, <2>2, LookupFile DEF Files
<1>6. ASSUME NEW name
      PROVE  /\ Tree!Is("folder", name) <=> IsFolder(Lookup(name))
             /\ Tree!Is("plain", name) <=> IsPlain(Lookup(name))
  <2>1. CASE ~Tree!Exists(name)
    BY <1>4, <2>1 DEF Tree!Is, IsFolder, IsPlain
  <2>2. CASE Tree!Exists(name)
    <3>1. PICK f : f = Lookup(name)
      OBVIOUS
    <3>2. f \in Files /\ f \in FilePtr /\ f # NULL
      BY <1>4, <1>5, <2>2, <3>1
    <3>3. \A kind : Tree!Is(kind, name) <=> Store[f].kind = kind
      BY <1>5, <2>2, <3>1 DEF Tree!Is, Store
    <3>4. CASE disk[f].is_dir
      <4>1. Store[f].kind = "folder"
        BY <3>2, <3>4, ObjectIs DEF Dirs, Tree!Folder
      <4> QED  BY <3>1, <3>2, <3>3, <3>4, <4>1 DEF IsFolder, IsPlain
    <3>5. CASE ~disk[f].is_dir
      <4>1. Store[f].kind = "plain"
        BY <3>2, <3>5, ObjectIs DEF Dirs, Tree!Plain
      <4> QED  BY <3>1, <3>2, <3>3, <3>5, <4>1 DEF IsFolder, IsPlain
    <3> QED  BY <3>4, <3>5
  <2> QED  BY <2>1, <2>2
<1> QED  BY <1>1, <1>3, <1>4, <1>5, <1>6

----------------------------------------------------------------------------
\* FileTree counts as Fs does.
LEMMA TreeCount == \A S : Tree!Cardinality(S) = Cardinality(S)
<1>1. ASSUME NEW S  PROVE Tree!Cardinality(S) = Cardinality(S)
  BY DEF Tree!Cardinality, Cardinality
<1> QED  BY <1>1

\* A directory has as many names as entries.
LEMMA EntryCount ==
    ASSUME FInv, NamesInv, NEW d \in Dirs
    PROVE  Cardinality(EntryNames(d)) = disk[d].filesize
<1>1. PICK n \in Nat : n = disk[d].filesize
  BY FileFields DEF Dirs
<1>2. PICK f : f = [k \in 1 .. n |-> Name(d, k - 1)]
  OBVIOUS
<1>3. EntryNames(d) = {Name(d, no) : no \in 0 .. n - 1}
  BY <1>1 DEF EntryNames, Name, getfilefromfolderbyno
<1>4. f \in [1 .. n -> EntryNames(d)]
  BY <1>2, <1>3
<1>5. \A i, j \in 1 .. n : f[i] = f[j] => i = j
  <2>1. ASSUME NEW i \in 1 .. n, NEW j \in 1 .. n, f[i] = f[j]
        PROVE  i = j
    <3>1. i - 1 \in Entries(d) /\ j - 1 \in Entries(d)
      BY <1>1 DEF Entries
    <3>2. Name(d, i - 1) = Name(d, j - 1)
      BY <1>2, <2>1
    <3>3. i - 1 = j - 1
      BY <3>1, <3>2 DEF NamesInv
    <3> QED  BY <3>3
  <2> QED  BY <2>1
<1>6. \A name \in EntryNames(d) : \E k \in 1 .. n : f[k] = name
  <2>1. ASSUME NEW no \in 0 .. n - 1
        PROVE  \E k \in 1 .. n : f[k] = Name(d, no)
    <3>1. no + 1 \in 1 .. n /\ (no + 1) - 1 = no
      OBVIOUS
    <3> QED  BY <1>2, <3>1
  <2> QED  BY <1>3, <2>1
<1>7. f \in Bijection(1 .. n, EntryNames(d))
  BY <1>4, <1>5, <1>6 DEF Bijection, Injection, Surjection, IsInjective
<1> QED  BY <1>1, <1>7, FS_CountingElements DEF ExistsBijection

LEMMA SizeOf ==
    ASSUME FInv, NamesInv, NEW f \in Files
    PROVE  Tree!Size(f) = disk[f].filesize
<1>1. f \in FilePtr /\ disk[f].filesize \in Nat
  BY FileFields
<1>2. CASE f \in Dirs
  <2>1. Store[f] = Tree!Folder(FolderOf(f))
    BY <1>1, <1>2, ObjectIs
  <2>2. Store[f].kind = "folder" /\ DOMAIN Store[f].entries = EntryNames(f)
    BY <2>1 DEF Tree!Folder, FolderOf
  <2>3. Tree!Size(f) = IF Store[f].kind = "folder"
                       THEN Cardinality(DOMAIN Store[f].entries)
                       ELSE Len(Store[f].data)
    BY TreeCount DEF Tree!Size, Store
  <2>4. Tree!Size(f) = Cardinality(EntryNames(f))
    BY <2>2, <2>3
  <2> QED  BY <1>2, <2>4, EntryCount
<1>3. CASE f \notin Dirs
  <2>1. Store[f] = Tree!Plain(Shown(f))
    BY <1>1, <1>3, ObjectIs
  <2>2. Store[f].kind = "plain" /\ Store[f].data = Shown(f)
    BY <2>1 DEF Tree!Plain
  <2>3. Len(Shown(f)) = disk[f].filesize
    BY <1>1 DEF Shown
  <2> QED  BY <2>2, <2>3 DEF Tree!Size, Store
<1> QED  BY <1>2, <1>3

----------------------------------------------------------------------------
\* Calls that leave the disk alone.
LEMMA SameStore ==
    ASSUME disk' = disk
    PROVE  Store' = Store
  BY SMT DEF Store, Object, Shown, EntryNames, IsFile, Position,
     getfilefromfolderbyno, getfilefromfolderbyname

LEMMA SameInv ==
    ASSUME TreeInv, FInv', PathInv', disk' = disk
    PROVE  TreeInv'
<1>1. Files' = Files /\ Dirs' = Dirs
  BY DEF Files, Dirs
<1>2. NamesInv' /\ SizeInv'
  BY <1>1 DEF TreeInv, NamesInv, SizeInv, Entries, Name, Position
<1> QED  BY <1>2 DEF TreeInv

LEMMA SamePath ==
    ASSUME TreeInv, FInv', disk' = disk, where' = where
    PROVE  /\ TreeInv'
           /\ Tree!Same
<1>1. PathInv'
  BY DEF TreeInv, PathInv, Entries, Position
<1>2. Tree!Same
  BY SameStore DEF Tree!Same, Store
<1> QED  BY <1>1, <1>2, SameInv

LEMMA Answers ==
    ASSUME FInv, ~dead, NEW call, NEW ok, NEW out, Answer(call, ok, out)
    PROVE  /\ Tree!Answer(call, ok, out)
           /\ ret'.call = call /\ ret'.out = out /\ UNCHANGED dead
<1>1. dead' = dead
  BY DEF FInv, TypeInv, TypeOK, Answer
<1> QED  BY <1>1 DEF Answer, Reply, Tree!Answer, Tree!Reply

LEMMA CatTree ==
    ASSUME TreeInv, ~dead, FInv', NEW name \in Names, cat(name)
    PROVE  TreeInv' /\ Tree!Cat(name)
<1>1. TreeInv' /\ Tree!Same
  BY SamePath DEF cat
<1>2. PICK t : t = Lookup(name)
  OBVIOUS
<1>3. CASE IsPlain(t)
  <2>1. Answer("cat", TRUE, Shown(t))
    BY <1>2, <1>3 DEF cat
  <2>2. /\ Tree!Is("plain", name) /\ Tree!Exists(name)
        /\ t \in Files /\ t \in FilePtr /\ Tree!Entries[name] = t
    BY <1>2, <1>3, TreeHere DEF TreeInv, IsPlain
  <2>3. t \notin Dirs
    BY <1>3 DEF IsPlain, Dirs
  <2>4. Store[t].data = Shown(t)
    BY <2>2, <2>3, ObjectIs DEF Tree!Plain
  <2>5. Tree!Answer("cat", TRUE, Store[t].data) /\ ret'.call = "cat"
    BY <2>1, <2>4, Answers DEF TreeInv
  <2> QED  BY <1>1, <2>2, <2>5 DEF Tree!Cat, Store
<1>4. CASE ~IsPlain(t)
  <2>1. Answer("cat", FALSE, <<>>) /\ ~Tree!Is("plain", name)
    BY <1>2, <1>4, TreeHere DEF cat, TreeInv
  <2> QED  BY <1>1, <2>1, Answers DEF Tree!Cat, TreeInv
<1> QED  BY <1>3, <1>4

LEMMA LsTree ==
    ASSUME TreeInv, ~dead, FInv', ls
    PROVE  TreeInv' /\ Tree!Ls
<1>1. TreeInv' /\ Tree!Same
  BY SamePath DEF ls
<1>2. PICK d \in Dirs : d = Here
  BY HereDir DEF TreeInv
<1>3. PICK n \in Nat : n = disk[d].filesize
  BY FileFields DEF Dirs, TreeInv
<1>4. PICK out : out = [k \in 1 .. n |-> Listed(Position(d, k - 1))]
  OBVIOUS
<1>5. /\ Answer("ls", TRUE, out)
  BY <1>2, <1>3, <1>4 DEF ls, getfilefromfolderbyno
<1>6. ret'.call = "ls" /\ ret'.out = out /\ UNCHANGED dead
  BY <1>5, Answers DEF TreeInv
<1>7. /\ Tree!Entries = FolderOf(d)
      /\ DOMAIN Tree!Entries = EntryNames(d)
  BY <1>2, TreeHere DEF TreeInv, FolderOf
<1>8. Len(out) = Cardinality(DOMAIN Tree!Entries)
  <2>1. Len(out) = n
    BY <1>4
  <2> QED  BY <1>3, <1>7, <2>1, EntryCount DEF TreeInv
<1>9. ASSUME NEW no \in Entries(d)
      PROVE  Listed(Position(d, no)) =
                 <<Name(d, no), Tree!Size(Tree!Entries[Name(d, no)]),
                   Tree!Is("folder", Name(d, no))>>
  <2>1. PICK f : f = Position(d, no)
    OBVIOUS
  <2>2. f \in Files /\ f # NULL
    BY <2>1, EntryInside DEF TreeInv
  <2>3. Name(d, no) \in EntryNames(d)
    BY DEF EntryNames, Entries, Name, getfilefromfolderbyno
  <2>4. Lookup(Name(d, no)) = f /\ Tree!Entries[Name(d, no)] = f
    BY <1>2, <1>7, <2>1, <2>3, NamedEntry DEF TreeInv, Lookup, FolderOf
  <2>5. Tree!Is("folder", Name(d, no)) = disk[f].is_dir
    <3>1. disk[f].is_dir \in BOOLEAN
      BY <2>2, FileFields DEF TreeInv
    <3>2. Tree!Is("folder", Name(d, no)) <=> disk[f].is_dir
      BY <2>2, <2>4, TreeHere DEF TreeInv, IsFolder
    <3>3. Tree!Is("folder", Name(d, no)) \in BOOLEAN
      BY DEF Tree!Is
    <3> QED  BY <3>1, <3>2, <3>3
  <2>6. Tree!Size(f) = disk[f].filesize
    BY <2>2, SizeOf DEF TreeInv
  <2> QED  BY <2>1, <2>4, <2>5, <2>6 DEF Listed, Name
<1>10. {out[k] : k \in DOMAIN out} =
           {<<m, Tree!Size(Tree!Entries[m]), Tree!Is("folder", m)>> :
               m \in DOMAIN Tree!Entries}
  <2>1. PICK L : L = [no \in Entries(d) |->
                        <<Name(d, no), Tree!Size(Tree!Entries[Name(d, no)]),
                          Tree!Is("folder", Name(d, no))>>]
    OBVIOUS
  <2>2. Entries(d) = 0 .. n - 1
    BY <1>3 DEF Entries
  <2>3. EntryNames(d) = {Name(d, no) : no \in Entries(d)}
    BY DEF EntryNames, Entries, Name, getfilefromfolderbyno
  <2>4. {<<m, Tree!Size(Tree!Entries[m]), Tree!Is("folder", m)>> :
             m \in DOMAIN Tree!Entries} = {L[no] : no \in Entries(d)}
    BY <1>7, <2>1, <2>3
  <2>5. \A no \in Entries(d) : Listed(Position(d, no)) = L[no]
    BY <1>9, <2>1
  <2>6. \A k \in 1 .. n : k - 1 \in Entries(d) /\ out[k] = L[k - 1]
    BY <1>4, <2>2, <2>5
  <2>7. \A no \in Entries(d) : no + 1 \in 1 .. n /\ out[no + 1] = L[no]
    BY <1>4, <2>2, <2>5
  <2>8. DOMAIN out = 1 .. n
    BY <1>4
  <2>9. {out[k] : k \in 1 .. n} = {L[no] : no \in Entries(d)}
    <3>1. \A k \in 1 .. n : out[k] \in {L[no] : no \in Entries(d)}
      BY <2>6
    <3>2. \A no \in Entries(d) : L[no] \in {out[k] : k \in 1 .. n}
      BY <2>7
    <3> QED  BY <3>1, <3>2
  <2> QED  BY <2>4, <2>8, <2>9
<1>11. Len(ret'.out) = Tree!Cardinality(DOMAIN Tree!Entries)
  BY <1>6, <1>8, TreeCount
<1> QED  BY <1>1, <1>6, <1>10, <1>11 DEF Tree!Ls

LEMMA CdTree ==
    ASSUME TreeInv, ~dead, FInv', NEW name \in Names, cd(name)
    PROVE  TreeInv' /\ Tree!Cd(name)
<1>1. PICK t : t = Lookup(name)
  OBVIOUS
<1>2. disk' = disk /\ Store' = Store
  BY SameStore DEF cd
<1>3. CASE IsFolder(t)
  <2>1. PICK n \in Nat : n = Len(where)
    BY DEF TreeInv, FInv, TypeInv
  <2>2. /\ where' = Append(where, t) /\ Answer("cd", TRUE, <<>>)
        /\ where \in Seq(FilePtr) /\ n > 0 /\ Here = where[n]
    BY <1>1, <1>3, <2>1 DEF cd, Here, TreeInv, FInv, TypeInv
  <2>3. PICK no \in Entries(Here) : t = Position(Here, no)
    <3>1. Here \in Dirs /\ t # NULL
      BY <1>3, HereDir DEF IsFolder, TreeInv
    <3>2. name \in EntryNames(Here)
      BY <1>1, <3>1, FoundOrNot DEF TreeInv, Lookup
    <3> QED  BY <1>1, <3>1, <3>2, Found DEF TreeInv, Lookup
  <2>4. t \in FilePtr
    BY <1>1, <1>3, LookupFile DEF IsFolder, TreeInv, Files
  <2>5. /\ Len(where') = n + 1 /\ where'[n + 1] = t
        /\ \A k \in 1 .. n : where'[k] = where[k]
    BY <2>1, <2>2, <2>4
  <2>6. PathInv'
    <3>1. ASSUME NEW k \in 1 .. n + 1, k # 1
          PROVE  \E m \in Entries(where'[k - 1]) :
                     where'[k] = Position(where'[k - 1], m)
      <4>1. CASE k = n + 1
        BY <2>2, <2>3, <2>5, <4>1
      <4>2. CASE k # n + 1
        <5>1. k \in 1 .. n /\ k - 1 \in 1 .. n
          BY <3>1, <4>2
        <5> QED  BY <2>1, <2>5, <3>1, <5>1 DEF TreeInv, PathInv
      <4> QED  BY <4>1, <4>2
    <3> QED  BY <1>2, <2>5, <3>1 DEF TreeInv, PathInv, Entries, Position
  <2>7. Tree!Is("folder", name) /\ Tree!Exists(name) /\ Tree!Entries[name] = t
    BY <1>1, <1>3, TreeHere DEF TreeInv, IsFolder
  <2>8. Tree!Answer("cd", TRUE, <<>>)
    BY <2>2, Answers DEF TreeInv
  <2> QED
    BY <1>2, <2>2, <2>6, <2>7, <2>8, SameInv DEF Tree!Cd, Store
<1>4. CASE ~IsFolder(t)
  <2>1. where' = where /\ Answer("cd", FALSE, <<>>)
    BY <1>1, <1>4 DEF cd
  <2>2. ~Tree!Is("folder", name) /\ Tree!Answer("cd", FALSE, <<>>)
    BY <1>1, <1>4, <2>1, TreeHere, Answers DEF TreeInv
  <2> QED  BY <1>2, <2>1, <2>2, SamePath DEF Tree!Cd
<1> QED  BY <1>3, <1>4

LEMMA CdUpTree ==
    ASSUME TreeInv, ~dead, FInv', cd_up
    PROVE  TreeInv' /\ Tree!CdUp
<1>1. disk' = disk /\ Store' = Store
  BY SameStore DEF cd_up
<1>2. PICK n \in Nat : n = Len(where)
  BY DEF TreeInv, FInv, TypeInv
<1>3. n > 0 /\ where \in Seq(FilePtr)
  BY <1>2 DEF TreeInv, FInv, TypeInv
<1>4. CASE n = 1
  <2>1. where' = where /\ Answer("cd", FALSE, <<>>)
    BY <1>2, <1>4 DEF cd_up
  <2> QED
    BY <1>1, <1>2, <1>4, <2>1, SamePath, Answers DEF Tree!CdUp, TreeInv
<1>5. CASE n # 1
  <2>1. where' = SubSeq(where, 1, n - 1) /\ Answer("cd", TRUE, <<>>)
    BY <1>2, <1>5 DEF cd_up
  <2>2. n > 1
    BY <1>3, <1>5
  <2>3. /\ Len(where') = n - 1
        /\ \A k \in 1 .. n - 1 : where'[k] = where[k]
    BY <1>2, <1>3, <2>1, <2>2, ButLast
  <2>4. PathInv'
    <3>1. ASSUME NEW k \in 1 .. n - 1, k # 1
          PROVE  \E m \in Entries(where'[k - 1]) :
                     where'[k] = Position(where'[k - 1], m)
      <4>1. k \in 1 .. n /\ k - 1 \in 1 .. n - 1
        BY <3>1
      <4> QED  BY <1>2, <2>3, <3>1, <4>1 DEF TreeInv, PathInv
    <3> QED  BY <1>1, <2>3, <3>1 DEF TreeInv, PathInv, Entries, Position
  <2>5. Tree!Answer("cd", TRUE, <<>>)
    BY <2>1, Answers DEF TreeInv
  <2> QED
    BY <1>1, <1>2, <2>1, <2>2, <2>4, <2>5, SameInv DEF Tree!CdUp, Store
<1> QED  BY <1>4, <1>5

\* The names on the path.
LEMMA EndsWith ==
    ASSUME NEW S, NEW s \in Seq(S), NEW t \in Seq(S)
    PROVE  Tree!Ends(s \o t, t)
<1>1. PICK m \in Nat, n \in Nat : m = Len(s) /\ n = Len(t)
  OBVIOUS
<1>2. PICK u : u = s \o t
  OBVIOUS
<1>3. /\ u \in Seq(S) /\ Len(u) = m + n
      /\ \A k \in 1 .. n : u[m + k] = t[k]
  BY <1>1, <1>2
<1>4. PICK v : v = SubSeq(u, m + 1, m + n)
  OBVIOUS
<1>5. v \in Seq(S) /\ Len(v) = n /\ \A k \in 1 .. n : v[k] = t[k]
  BY <1>3, <1>4
<1>6. v = t
  BY <1>1, <1>5, SeqEqual
<1>7. (m + n) - n + 1 = m + 1 /\ m + n >= n
  OBVIOUS
<1> QED  BY <1>1, <1>2, <1>3, <1>4, <1>6, <1>7 DEF Tree!Ends

LEMMA PathIs ==
    ASSUME TreeInv
    PROVE  Tree!Path = PathOf(where)
<1>1. PICK n \in Nat : n = Len(where) /\ DOMAIN where = 1 .. n
  BY DEF TreeInv, FInv, TypeInv
<1>2. ASSUME NEW d \in Dirs, NEW no \in Entries(d)
      PROVE  Tree!NameIn(d, Position(d, no)) = Name(d, no)
  <2>1. Store[d] = Tree!Folder(FolderOf(d))
    BY ObjectIs DEF Dirs, Files
  <2>2. Store[d].entries = FolderOf(d)
    BY <2>1 DEF Tree!Folder
  <2>3. Tree!NameIn(d, Position(d, no)) =
            CHOOSE name \in EntryNames(d) :
                FolderOf(d)[name] = Position(d, no)
    BY <2>2 DEF Tree!NameIn, Store, FolderOf
  <2>4. /\ Name(d, no) \in EntryNames(d)
        /\ FolderOf(d)[Name(d, no)] = Position(d, no)
    BY NamedEntry
       DEF TreeInv, EntryNames, FolderOf, Name, Entries,
           getfilefromfolderbyno
  <2>5. ASSUME NEW name \in EntryNames(d),
               FolderOf(d)[name] = Position(d, no)
        PROVE  name = Name(d, no)
    <3>1. PICK k \in Entries(d) :
              /\ name = Name(d, k)
              /\ getfilefromfolderbyname(d, name) = Position(d, k)
      BY Found DEF TreeInv
    <3>2. Position(d, k) = Position(d, no)
      BY <2>5, <3>1 DEF FolderOf
    <3> QED  BY <3>1, <3>2 DEF Name
  <2> QED  BY <2>3, <2>4, <2>5
<1>3. ASSUME NEW k \in 1 .. n
      PROVE  (IF k = 1 THEN "root" ELSE Tree!NameIn(where[k - 1], where[k]))
                 = disk[where[k]].filename
  <2>1. CASE k = 1
    BY <2>1 DEF TreeInv, PathInv, FInv, TypeInv, TypeOK
  <2>2. CASE k # 1
    <3>1. PICK no \in Entries(where[k - 1]) :
              where[k] = Position(where[k - 1], no)
      BY <1>1, <2>2 DEF TreeInv, PathInv
    <3>2. where[k - 1] \in Dirs
      BY <1>1, <2>2 DEF TreeInv, FInv, TypeInv
    <3> QED  BY <1>2, <2>2, <3>1, <3>2 DEF Name
  <2> QED  BY <2>1, <2>2
<1> QED  BY <1>1, <1>3 DEF Tree!Path, PathOf

LEMMA PwdTree ==
    ASSUME TreeInv, ~dead, FInv', pwd
    PROVE  TreeInv' /\ Tree!Pwd
<1>1. TreeInv' /\ Tree!Same
  BY SamePath DEF pwd
<1>2. ret'.call = "pwd" /\ ret'.out = pathbuffer' /\ UNCHANGED dead
  BY Answers DEF pwd, TreeInv
<1>3. Tree!Ends(pathbuffer', Tree!Path)
  <2>1. pathbuffer \in Seq(Names \cup {"root"})
    BY DEF TreeInv, FInv, TypeInv, TypeOK
  <2>2. PathOf(where) \in Seq(Names \cup {"root"})
    BY PathNames DEF TreeInv
  <2>3. pathbuffer' = pathbuffer \o PathOf(where)
    BY DEF pwd
  <2> QED  BY <2>1, <2>2, <2>3, EndsWith, PathIs
<1> QED  BY <1>1, <1>2, <1>3 DEF Tree!Pwd

\* A call that hangs may do so.
LEMMA HangTree ==
    ASSUME TreeInv, ~dead, FInv', NEW name \in Names, alloc_for_indirect,
           \/ /\ Lookup(name) = NULL
              /\ disk[Here].filesize = ENTRIES
           \/ /\ IsPlain(Lookup(name))
              /\ \E data \in Contents[name] : Len(data) >= CAPACITY
    PROVE  TreeInv' /\ Tree!Hangs
<1>1. disk' = disk /\ where' = where /\ dead' /\ ret' = ret
  BY DEF alloc_for_indirect
<1>2. CASE Lookup(name) = NULL /\ disk[Here].filesize = ENTRIES
  <2>1. Here \in Dirs /\ ~Tree!Exists(name)
    BY <1>2, HereDir, TreeHere DEF TreeInv
  <2>2. DOMAIN Tree!Entries = EntryNames(Here)
    BY TreeHere DEF TreeInv, FolderOf
  <2>3. Tree!Full(name)
    BY <1>2, <2>1, <2>2, EntryCount, TreeCount DEF Tree!Full, TreeInv
  <2> QED  BY <1>1, <2>3, SamePath DEF Tree!Hangs
<1>3. CASE /\ IsPlain(Lookup(name))
           /\ \E data \in Contents[name] : Len(data) >= CAPACITY
  <2>1. Tree!Is("plain", name)
    BY <1>3, TreeHere DEF TreeInv
  <2>2. \E data \in Contents[name] : Tree!Overruns(name, data)
    BY <1>3, <2>1 DEF Tree!Overruns
  <2> QED  BY <1>1, <2>2, SamePath DEF Tree!Hangs
<1> QED  BY <1>2, <1>3

----------------------------------------------------------------------------
\* What the store is, before and after a step.
StoreIs ==
    /\ DOMAIN Store = FilePtr
    /\ \A f \in FilePtr :
          /\ f \notin Files => Store[f] = Tree!Nothing
          /\ f \in Dirs => Store[f] = Tree!Folder(FolderOf(f))
          /\ f \in Files \ Dirs => Store[f] = Tree!Plain(Shown(f))
    /\ \A d \in Dirs :
          /\ FolderOf(d) = [name \in {Name(d, no) : no \in Entries(d)} |->
                               FolderOf(d)[name]]
          /\ \A no \in Entries(d) : FolderOf(d)[Name(d, no)] = Position(d, no)

LEMMA StoreFacts == FInv /\ NamesInv => StoreIs
<1> SUFFICES ASSUME FInv, NamesInv  PROVE StoreIs
  OBVIOUS
<1>1. DOMAIN Store = FilePtr
  BY DEF Store
<1>2. \A f \in FilePtr :
          /\ f \notin Files => Store[f] = Tree!Nothing
          /\ f \in Dirs => Store[f] = Tree!Folder(FolderOf(f))
          /\ f \in Files \ Dirs => Store[f] = Tree!Plain(Shown(f))
  BY ObjectIs
<1>3. ASSUME NEW d \in Dirs
      PROVE  /\ FolderOf(d) = [name \in {Name(d, no) : no \in Entries(d)} |->
                                  FolderOf(d)[name]]
             /\ \A no \in Entries(d) :
                   FolderOf(d)[Name(d, no)] = Position(d, no)
  <2>1. EntryNames(d) = {Name(d, no) : no \in Entries(d)}
    BY DEF EntryNames, Entries, Name, getfilefromfolderbyno
  <2> QED  BY <2>1, NamedEntry DEF FolderOf
<1> QED  BY <1>1, <1>2, <1>3 DEF StoreIs

LEMMA StoreFactsNext == (FInv /\ NamesInv => StoreIs)'
  BY StoreFacts, PTL

\* A directory with the same entries is the same folder.
LEMMA SameFolder ==
    ASSUME StoreIs, StoreIs', NEW d \in Dirs, d \in Dirs',
           Entries(d)' = Entries(d),
           \A no \in Entries(d) : /\ Name(d, no)' = Name(d, no)
                                  /\ Position(d, no)' = Position(d, no)
    PROVE  FolderOf(d)' = FolderOf(d)
<1>1. PICK g : g = FolderOf(d)'
  OBVIOUS
<1>2. PICK f : f = FolderOf(d)
  OBVIOUS
<1>3. /\ f = [name \in {Name(d, no) : no \in Entries(d)} |-> f[name]]
      /\ \A no \in Entries(d) : f[Name(d, no)] = Position(d, no)
  BY <1>2 DEF StoreIs
<1>4. /\ g = [name \in {Name(d, no)' : no \in Entries(d)'} |-> g[name]]
      /\ \A no \in Entries(d)' : g[Name(d, no)'] = Position(d, no)'
  BY <1>1 DEF StoreIs
<1>5. /\ g = [name \in {Name(d, no) : no \in Entries(d)} |-> g[name]]
      /\ \A no \in Entries(d) : g[Name(d, no)] = Position(d, no)
  BY <1>4
<1>6. g = f
  BY <1>3, <1>5
<1> QED  BY <1>1, <1>2, <1>6

----------------------------------------------------------------------------
\* Then the directory d has one more entry, the n-th, of that name and at p.
Grown(d, p, n, name, is_dir) ==
    /\ Dirs' = Dirs \cup (IF is_dir THEN {p} ELSE {})
    /\ Entries(p)' = {} /\ Entries(d)' = Entries(d) \cup {n}
    /\ Name(d, n)' = name /\ Position(d, n)' = p
    /\ \A e \in Dirs \ {d} : Entries(e)' = Entries(e)
    /\ \A e \in Dirs : \A no \in Entries(e) :
           /\ Name(e, no)' = Name(e, no)
           /\ Position(e, no)' = Position(e, no)

\* mkdir() and creat() put one new, empty object into the current directory.
LEMMA CreatedInv ==
    ASSUME TreeInv, FInv', where' = where, NEW d, NEW n, NEW p, NEW got,
           NEW name \in Names, NEW is_dir \in BOOLEAN,
           d = Here, n = disk[d].filesize, p = Position(d, n),
           Lookup(name) = NULL, Created(d, p, n, name, is_dir, got)
    PROVE  TreeInv' /\ Grown(d, p, n, name, is_dir)
<1> USE DEF Created
<1>1. Dirs' = Dirs \cup (IF is_dir THEN {p} ELSE {})
  BY DEF Dirs
<1>2. Entries(p)' = {} /\ Entries(d)' = Entries(d) \cup {n}
  BY DEF Entries
<1>3. Position(d, n)' = p /\ Name(d, n)' = name
  <2>1. Position(d, n)' = p
    OBVIOUS
  <2>2. Name(d, n)' = disk'[Position(d, n)'].filename
    BY DEF Name
  <2> QED  BY <2>1, <2>2
<1>4. ASSUME NEW e \in Dirs, e # d
      PROVE  Entries(e)' = Entries(e)
  BY <1>4 DEF Entries, Dirs
<1>5. ASSUME NEW e \in Dirs, NEW no \in Entries(e)
      PROVE  /\ Name(e, no)' = Name(e, no)
             /\ Position(e, no)' = Position(e, no)
  <2>1. e \in Files /\ Position(e, no) \in Files
    BY EntryInside DEF TreeInv, Dirs
  <2>2. Position(e, no)' = Position(e, no)
    BY <2>1
  <2>3. Name(e, no)' = disk'[Position(e, no)'].filename
    BY DEF Name
  <2> QED  BY <2>1, <2>2, <2>3 DEF Name
<1>6. \A no \in Entries(d) : Name(d, no) # name
  <2>1. d \in Dirs /\ name \notin EntryNames(d)
    BY FoundOrNot DEF TreeInv, Lookup
  <2> QED  BY <2>1 DEF EntryNames, Entries, Name, getfilefromfolderbyno
<1>7. NamesInv'
  <2>1. ASSUME NEW e \in Dirs', NEW i \in Entries(e)', NEW j \in Entries(e)',
               Name(e, i)' = Name(e, j)'
        PROVE  i = j
    <3>1. CASE e = p
      BY <1>2, <3>1
    <3>2. CASE e = d
      BY <1>2, <1>3, <1>5, <1>6, <2>1, <3>2 DEF TreeInv, NamesInv
    <3>3. CASE e # p /\ e # d
      <4>1. e \in Dirs
        BY <1>1, <3>3
      <4> QED  BY <1>4, <1>5, <2>1, <3>3, <4>1 DEF TreeInv, NamesInv
    <3> QED  BY <3>1, <3>2, <3>3
  <2> QED  BY <2>1 DEF NamesInv
<1>8. PathInv'
  <2>1. disk'[ROOT].filename = "root"
    <3>1. Len(where) \in Nat /\ Len(where) > 0 /\ where[1] = ROOT
      BY DEF TreeInv, FInv, TypeInv, TypeOK
    <3>2. ROOT \in Files
      BY <3>1 DEF TreeInv, FInv, TypeInv, Dirs
    <3> QED  BY <3>2 DEF TreeInv, PathInv
  <2>2. ASSUME NEW k \in 1 .. Len(where), k # 1
        PROVE  \E no \in Entries(where[k - 1])' :
                   where[k] = Position(where[k - 1], no)'
    <3>1. PICK no \in Entries(where[k - 1]) :
              where[k] = Position(where[k - 1], no)
      BY <2>2 DEF TreeInv, PathInv
    <3>2. where[k - 1] \in Dirs
      <4>1. Len(where) \in Nat
        BY DEF TreeInv, FInv, TypeInv
      <4>2. k - 1 \in 1 .. Len(where)
        BY <2>2, <4>1
      <4> QED  BY <4>2 DEF TreeInv, FInv, TypeInv
    <3>3. no \in Entries(where[k - 1])'
      BY <1>2, <1>4, <3>1, <3>2
    <3> QED  BY <1>5, <3>1, <3>2, <3>3
  <2> QED  BY <2>1, <2>2 DEF PathInv
<1>9. SizeInv'
  <2>1. ASSUME NEW f \in Files' \ Dirs'
        PROVE  disk'[f].filesize < CAPACITY
    <3>1. CASE f = p
      BY <3>1, Sizes
    <3>2. CASE f # p
      <4>1. f \in Files \ Dirs /\ f # d
        BY <1>1, <2>1, <3>2
      <4> QED  BY <4>1 DEF TreeInv, SizeInv
    <3> QED  BY <3>1, <3>2
  <2> QED  BY <2>1 DEF SizeInv
<1>10. TreeInv'
  BY <1>7, <1>8, <1>9 DEF TreeInv
<1> QED  BY <1>1, <1>2, <1>3, <1>4, <1>5, <1>10 DEF Grown

LEMMA NoEntries ==
    ASSUME NEW f, f = [x \in {} |-> f[x]]
    PROVE  f = <<>>
  OBVIOUS

\* The disk after a step, for the files it does not make.
LEMMA CreatedShown ==
    ASSUME TreeInv, NEW d, NEW n, NEW p, NEW got, NEW name \in Names,
           NEW is_dir \in BOOLEAN, n = disk[d].filesize, p = Position(d, n),
           Created(d, p, n, name, is_dir, got), NEW f \in Files \ Dirs
    PROVE  Shown(f)' = Shown(f)
<1> USE DEF Created
<1>1. PICK m \in Nat : m = disk[f].filesize /\ m < CAPACITY
  BY FileFields DEF TreeInv, SizeInv
<1>2. disk'[f].filesize = m
  BY <1>1
<1>3. ASSUME NEW k \in 1 .. m
      PROVE  disk'[Position(f, k - 1)] = disk[Position(f, k - 1)]
  <2>1. k - 1 \in Nat /\ k - 1 < CAPACITY
    BY <1>1, Sizes
  <2>2. ~disk[f].is_dir
    BY DEF Dirs
  <2>3. /\ Position(f, k - 1) \notin Files
        /\ Position(f, k - 1) \in FilePtr
        /\ Position(f, k - 1)[1] \in Owned(f)
    BY <2>1, <2>2, NoFileInPlain, PositionInside DEF TreeInv, FilePtr
  <2>4. p[1] \in Owned(d)
    BY PositionInside DEF TreeInv
  <2>5. Position(f, k - 1) # p
    BY <2>3, <2>4 DEF TreeInv, FInv, OwnInv
  <2> QED  BY <2>3, <2>5
<1>4. \A k \in 1 .. m : Position(f, k - 1)' = Position(f, k - 1)
  OBVIOUS
<1>5. Shown(f) = [k \in 1 .. m |-> disk[Position(f, k - 1)].data]
  BY <1>1 DEF Shown
<1>6. Shown(f)' = [k \in 1 .. m |-> disk'[Position(f, k - 1)'].data]
  BY <1>2 DEF Shown
<1> QED  BY <1>3, <1>4, <1>5, <1>6

NewObject(is_dir) ==
    IF is_dir THEN Tree!Folder(<<>>) ELSE Tree!Plain(<<>>)

LEMMA CreatedTree ==
    ASSUME TreeInv, FInv', ~dead, where' = where,
           NEW d, NEW n, NEW p, NEW got, NEW call,
           NEW name \in Names, NEW is_dir \in BOOLEAN,
           d = Here, n = disk[d].filesize, p = Position(d, n),
           Lookup(name) = NULL, Created(d, p, n, name, is_dir, got),
           Answer(call, TRUE, <<>>)
    PROVE  TreeInv' /\ Tree!Make(call, name, NewObject(is_dir))
<1>1. /\ TreeInv'
      /\ Dirs' = Dirs \cup (IF is_dir THEN {p} ELSE {})
      /\ Entries(p)' = {} /\ Entries(d)' = Entries(d) \cup {n}
      /\ Name(d, n)' = name /\ Position(d, n)' = p
      /\ \A e \in Dirs \ {d} : Entries(e)' = Entries(e)
      /\ \A e \in Dirs : \A no \in Entries(e) :
             /\ Name(e, no)' = Name(e, no)
             /\ Position(e, no)' = Position(e, no)
  <2>1. TreeInv' /\ Grown(d, p, n, name, is_dir)
    BY CreatedInv
  <2> QED  BY <2>1 DEF Grown
<1>2. StoreIs /\ StoreIs'
  BY <1>1, StoreFacts, StoreFactsNext DEF TreeInv
<1>3. /\ d \in Dirs /\ d \in Files /\ d \in FilePtr /\ d # p
      /\ p \in FilePtr /\ p \notin Files /\ Files' = Files \cup {p}
  BY DEF Created, Files
<1>4. Store'[p] = NewObject(is_dir)
  <2>1. CASE is_dir
    <3>1. p \in Dirs'
      BY <1>1, <2>1
    <3>2. PICK g : g = FolderOf(p)'
      OBVIOUS
    <3>3. g = [m \in {Name(p, no)' : no \in Entries(p)'} |-> g[m]]
      BY <1>2, <3>1, <3>2 DEF StoreIs
    <3>4. {Name(p, no)' : no \in Entries(p)'} = {}
      BY <1>1
    <3>5. g = <<>>
      BY <3>3, <3>4, NoEntries
    <3>6. Store'[p] = Tree!Folder(g)
      BY <1>2, <1>3, <3>1, <3>2 DEF StoreIs, Tree!Folder
    <3> QED  BY <2>1, <3>5, <3>6 DEF NewObject
  <2>2. CASE ~is_dir
    <3>1. p \in Files' \ Dirs'
      BY <1>1, <1>3, <2>2 DEF Dirs
    <3>2. PICK g : g = Shown(p)'
      OBVIOUS
    <3>3. g = [k \in 1 .. 0 |-> disk'[Position(p, k - 1)'].data]
      BY <3>2 DEF Shown, Created
    <3>4. g = <<>>
      BY <3>3
    <3>5. Store'[p] = Tree!Plain(g)
      BY <1>2, <1>3, <3>1, <3>2 DEF StoreIs, Tree!Plain
    <3> QED  BY <2>2, <3>4, <3>5 DEF NewObject
  <2> QED  BY <2>1, <2>2
<1>5. PICK entries : entries = Store[d].entries
  OBVIOUS
<1>6. entries = FolderOf(d) /\ Store[d] = Tree!Folder(entries)
  BY <1>2, <1>3, <1>5 DEF StoreIs, Tree!Folder
<1>7. PICK more : more = [m \in DOMAIN entries \cup {name} |->
                             IF m = name THEN p ELSE entries[m]]
  OBVIOUS
<1>8. Store'[d] = Tree!Folder(more)
  <2>1. PICK g : g = FolderOf(d)'
    OBVIOUS
  <2>2. d \in Dirs'
    BY <1>1, <1>3
  <2>3. Store'[d] = Tree!Folder(g)
    BY <1>2, <1>3, <2>1, <2>2 DEF StoreIs, Tree!Folder
  <2>4. /\ g = [m \in {Name(d, no)' : no \in Entries(d)'} |-> g[m]]
        /\ \A no \in Entries(d)' : g[Name(d, no)'] = Position(d, no)'
    BY <1>2, <2>1, <2>2 DEF StoreIs
  <2>5. /\ entries = [m \in {Name(d, no) : no \in Entries(d)} |-> entries[m]]
        /\ \A no \in Entries(d) : entries[Name(d, no)] = Position(d, no)
    BY <1>2, <1>3, <1>6 DEF StoreIs
  <2>6. {Name(d, no)' : no \in Entries(d)'}
            = {Name(d, no) : no \in Entries(d)} \cup {name}
    BY <1>1, <1>3
  <2>7. \A no \in Entries(d) : Name(d, no) # name
    BY <1>3, FoundOrNot
       DEF TreeInv, Lookup, EntryNames, Entries, Name, getfilefromfolderbyno
  <2>8. ASSUME NEW no \in Entries(d)
        PROVE  g[Name(d, no)] = entries[Name(d, no)]
    <3>1. no \in Entries(d)'
      BY <1>1
    <3>2. Name(d, no)' = Name(d, no) /\ Position(d, no)' = Position(d, no)
      BY <1>1, <1>3
    <3>3. g[Name(d, no)'] = Position(d, no)'
      BY <2>4, <3>1
    <3> QED  BY <2>5, <3>2, <3>3
  <2>9. g[name] = p
    BY <1>1, <2>4
  <2>10. DOMAIN entries = {Name(d, no) : no \in Entries(d)}
    BY <2>5
  <2>11. g = more
    <3>1. PICK A : A = {Name(d, no)' : no \in Entries(d)'}
      OBVIOUS
    <3>2. A = DOMAIN entries \cup {name}
      BY <2>6, <2>10, <3>1
    <3>3. g = [m \in A |-> g[m]]
      BY <2>4, <3>1
    <3>4. \A m \in DOMAIN entries : m # name /\ g[m] = entries[m]
      BY <2>7, <2>8, <2>10
    <3> QED  BY <1>7, <2>9, <3>2, <3>3, <3>4
  <2> QED  BY <2>3, <2>11
<1>9. ASSUME NEW f \in FilePtr \ {d, p}
      PROVE  Store'[f] = Store[f]
  <2>1. CASE f \notin Files
    BY <1>2, <1>3, <2>1 DEF StoreIs, Tree!Nothing
  <2>2. CASE f \in Dirs
    <3>1. f \in Dirs' /\ FolderOf(f)' = FolderOf(f)
      BY <1>1, <1>2, <2>2, SameFolder
    <3> QED  BY <1>2, <2>2, <3>1 DEF StoreIs, Tree!Folder
  <2>3. CASE f \in Files \ Dirs
    <3>1. f \in Files' \ Dirs'
      BY <1>1, <1>3, <2>3
    <3>2. Shown(f)' = Shown(f)
      BY <2>3, CreatedShown
    <3> QED  BY <1>2, <2>3, <3>1, <3>2 DEF StoreIs, Tree!Plain
  <2> QED  BY <2>1, <2>2, <2>3
<1>10. Store[p] = Tree!Nothing
  BY <1>2, <1>3 DEF StoreIs
<1>11. Store' = [Store EXCEPT ![p] = NewObject(is_dir),
                              ![d].entries = more]
  <2>1. Tree!Folder(more) = [Tree!Folder(entries) EXCEPT !.entries = more]
    BY DEF Tree!Folder
  <2>2. /\ Store = [f \in FilePtr |-> Store[f]]
        /\ Store' = [f \in FilePtr |-> Store'[f]]
    BY DEF Store
  <2> QED  BY <1>3, <1>4, <1>6, <1>8, <1>9, <2>1, <2>2
<1>12. Store' = [Store EXCEPT
           ![p] = NewObject(is_dir),
           ![d].entries = [m \in DOMAIN @ \cup {name} |->
                              IF m = name THEN p ELSE @[m]]]
  <2>1. PICK s : s = [Store EXCEPT ![p] = NewObject(is_dir)]
    OBVIOUS
  <2>2. s[d].entries = entries /\ Store[d].entries = entries
    BY <1>2, <1>3, <1>5, <2>1 DEF StoreIs
  <2>3. Store' = [s EXCEPT ![d].entries = more]
    BY <1>11, <2>1
  <2>4. Store' = [s EXCEPT
            ![d].entries = [m \in DOMAIN entries \cup {name} |->
                               IF m = name THEN p ELSE entries[m]]]
    BY <1>7, <2>3
  <2> QED  BY <2>1, <2>2, <2>4
<1>13. Tree!Answer(call, TRUE, <<>>) /\ ~Tree!Exists(name) /\ Tree!Here = d
  BY Answers, TreeHere DEF TreeInv
<1>14. \E o \in FilePtr :
           /\ Store[o] = Tree!Nothing /\ Store'[o] = NewObject(is_dir)
           /\ Store' = [Store EXCEPT
                  ![o] = NewObject(is_dir),
                  ![Tree!Here].entries =
                      [m \in DOMAIN @ \cup {name} |->
                          IF m = name THEN o ELSE @[m]]]
  <2>1. PICK h : h = Tree!Here
    OBVIOUS
  <2>2. h = d
    BY <1>13, <2>1
  <2> p \in FilePtr
    BY <1>3
  <2> WITNESS p \in FilePtr
  <2> QED  BY <1>4, <1>10, <1>12, <2>1, <2>2
<1> QED  BY <1>1, <1>13, <1>14 DEF Tree!Make, Store

----------------------------------------------------------------------------
\* writefile() changes the data of one file.
LEMMA WrittenInv ==
    ASSUME TreeInv, FInv', where' = where,
           NEW t \in Files, ~disk[t].is_dir,
           NEW buffer \in Seq(Data), NEW len \in Nat,
           len = Len(buffer), len < CAPACITY,
           disk' = Written(t, buffer, len)
    PROVE  /\ TreeInv'
           /\ Files' = Files /\ Dirs' = Dirs
           /\ \A e \in Dirs : Entries(e)' = Entries(e)
           /\ \A e \in Dirs : \A no \in Entries(e) :
                  /\ Name(e, no)' = Name(e, no)
                  /\ Position(e, no)' = Position(e, no)
<1>1. /\ Files' = Files /\ disk'[t].filesize = len
      /\ \A f \in Files :
             /\ disk'[f].filename = disk[f].filename
             /\ disk'[f].inodes = disk[f].inodes
             /\ disk'[f].is_dir = disk[f].is_dir
             /\ f # t => disk'[f].filesize = disk[f].filesize
  BY WriteFiles DEF TreeInv
<1>2. Dirs' = Dirs /\ t \notin Dirs
  <2>1. \A f \in Files : disk'[f].is_dir <=> disk[f].is_dir
    BY <1>1
  <2> QED  BY <1>1, <2>1 DEF Dirs
<1>3. \A f \in Files : \A no : Position(f, no)' = Position(f, no)
  BY <1>1 DEF Position
<1>4. ASSUME NEW e \in Dirs
      PROVE  /\ Entries(e)' = Entries(e)
             /\ \A no \in Entries(e) :
                    /\ Name(e, no)' = Name(e, no)
                    /\ Position(e, no)' = Position(e, no)
  <2>1. e \in Files /\ e # t
    BY <1>2 DEF Dirs
  <2>2. Entries(e)' = Entries(e)
    BY <1>1, <2>1 DEF Entries
  <2>3. ASSUME NEW no \in Entries(e)
        PROVE  Name(e, no)' = Name(e, no)
    <3>1. Position(e, no) \in Files
      BY EntryInside DEF TreeInv
    <3>2. Name(e, no)' = disk'[Position(e, no)'].filename
      BY DEF Name
    <3> QED  BY <1>1, <1>3, <2>1, <3>1, <3>2 DEF Name
  <2> QED  BY <1>3, <2>1, <2>2, <2>3
<1>5. NamesInv'
  BY <1>2, <1>4 DEF TreeInv, NamesInv
<1>6. PathInv'
  <2>1. disk'[ROOT].filename = "root"
    <3>1. Len(where) \in Nat /\ Len(where) > 0 /\ where[1] = ROOT
      BY DEF TreeInv, FInv, TypeInv, TypeOK
    <3>2. ROOT \in Files
      BY <3>1 DEF TreeInv, FInv, TypeInv, Dirs
    <3> QED  BY <1>1, <3>2 DEF TreeInv, PathInv
  <2>2. ASSUME NEW k \in 1 .. Len(where), k # 1
        PROVE  \E no \in Entries(where[k - 1])' :
                   where[k] = Position(where[k - 1], no)'
    <3>1. PICK no \in Entries(where[k - 1]) :
              where[k] = Position(where[k - 1], no)
      BY <2>2 DEF TreeInv, PathInv
    <3>2. Len(where) \in Nat
      BY DEF TreeInv, FInv, TypeInv
    <3>3. k - 1 \in 1 .. Len(where)
      BY <2>2, <3>2
    <3>4. where[k - 1] \in Dirs
      BY <3>3 DEF TreeInv, FInv, TypeInv
    <3> QED  BY <1>4, <3>1, <3>4
  <2> QED  BY <2>1, <2>2 DEF PathInv
<1>7. SizeInv'
  <2>1. ASSUME NEW f \in Files \ Dirs  PROVE disk'[f].filesize < CAPACITY
    BY <1>1 DEF TreeInv, SizeInv
  <2> QED  BY <1>1, <1>2, <2>1 DEF SizeInv
<1> QED  BY <1>1, <1>2, <1>4, <1>5, <1>6, <1>7 DEF TreeInv

\* No unit of another plain file is written.
LEMMA WrittenShown ==
    ASSUME TreeInv,
           NEW t \in Files, ~disk[t].is_dir,
           NEW buffer \in Seq(Data), NEW len \in Nat,
           len = Len(buffer), len < CAPACITY,
           disk' = Written(t, buffer, len), NEW f \in Files \ Dirs, f # t
    PROVE  Shown(f)' = Shown(f)
<1>1. /\ \A g \in Files :
             /\ disk'[g].inodes = disk[g].inodes
             /\ g # t => disk'[g].filesize = disk[g].filesize
      /\ \A q \in FilePtr \ {t} :
             (\A no \in 0 .. len - 1 : q # Position(t, no))
             => disk'[q] = disk[q]
  BY WriteFiles DEF TreeInv
<1>2. PICK m \in Nat : m = disk[f].filesize /\ m < CAPACITY
  BY FileFields DEF TreeInv, SizeInv
<1>3. disk'[f].filesize = m
  BY <1>1, <1>2
<1>4. ASSUME NEW k \in 1 .. m
      PROVE  disk'[Position(f, k - 1)] = disk[Position(f, k - 1)]
  <2>1. k - 1 \in Nat /\ k - 1 < CAPACITY
    BY <1>2, Sizes
  <2>2. ~disk[f].is_dir
    BY DEF Dirs
  <2>3. /\ Position(f, k - 1) \notin Files
        /\ Position(f, k - 1) \in FilePtr
        /\ Position(f, k - 1)[1] \in Owned(f)
    BY <2>1, <2>2, NoFileInPlain, PositionInside DEF TreeInv, FilePtr
  <2>4. ASSUME NEW no \in 0 .. len - 1
        PROVE  Position(f, k - 1) # Position(t, no)
    <3>1. no \in Nat /\ no < CAPACITY
      BY Sizes
    <3>2. Position(t, no)[1] \in Owned(t)
      BY <3>1, PositionInside DEF TreeInv
    <3> QED  BY <2>3, <3>2 DEF TreeInv, FInv, OwnInv
  <2> QED  BY <1>1, <2>3, <2>4
<1>5. \A k \in 1 .. m : Position(f, k - 1)' = Position(f, k - 1)
  BY <1>1 DEF Position
<1>6. Shown(f) = [k \in 1 .. m |-> disk[Position(f, k - 1)].data]
  BY <1>2 DEF Shown
<1>7. Shown(f)' = [k \in 1 .. m |-> disk'[Position(f, k - 1)'].data]
  BY <1>3 DEF Shown
<1> QED  BY <1>4, <1>5, <1>6, <1>7

LEMMA WrittenTree ==
    ASSUME TreeInv, FInv', ~dead, where' = where, NEW name \in Names,
           NEW t, t = Lookup(name), IsPlain(t),
           NEW buffer \in Seq(Data), NEW len \in Nat,
           len = Len(buffer), len < CAPACITY,
           disk' = Written(t, buffer, len),
           Answer("writefile", TRUE, <<>>)
    PROVE  TreeInv' /\ Tree!Write(name, buffer)
<1>1. /\ Tree!Is("plain", name) /\ Tree!Entries[name] = t
      /\ t \in Files /\ t \in FilePtr /\ t \notin Dirs /\ ~disk[t].is_dir
  BY TreeHere DEF TreeInv, IsPlain, Dirs, Tree!Is
<1>2. /\ TreeInv'
      /\ Files' = Files /\ Dirs' = Dirs
      /\ \A e \in Dirs : Entries(e)' = Entries(e)
      /\ \A e \in Dirs : \A no \in Entries(e) :
             /\ Name(e, no)' = Name(e, no)
             /\ Position(e, no)' = Position(e, no)
  BY <1>1, WrittenInv
<1>3. StoreIs /\ StoreIs'
  BY <1>2, StoreFacts, StoreFactsNext DEF TreeInv
<1>4. Store'[t] = Tree!Plain(buffer)
  <2>1. /\ disk'[t].filesize = len /\ disk'[t].inodes = disk[t].inodes
        /\ \A k \in 1 .. len : disk'[Position(t, k - 1)].data = buffer[k]
    BY <1>1, WriteFiles DEF TreeInv
  <2>2. PICK g : g = Shown(t)'
    OBVIOUS
  <2>3. g = [k \in 1 .. len |-> disk'[Position(t, k - 1)'].data]
    BY <2>1, <2>2 DEF Shown
  <2>4. \A k \in 1 .. len : Position(t, k - 1)' = Position(t, k - 1)
    BY <2>1 DEF Position
  <2>5. g = [k \in 1 .. len |-> buffer[k]]
    BY <2>1, <2>3, <2>4
  <2>6. g = buffer
    BY <2>5
  <2> QED  BY <1>1, <1>2, <1>3, <2>2, <2>6 DEF StoreIs, Tree!Plain
<1>5. ASSUME NEW f \in FilePtr, f # t
      PROVE  Store'[f] = Store[f]
  <2>1. CASE f \notin Files
    BY <1>2, <1>3, <2>1 DEF StoreIs, Tree!Nothing
  <2>2. CASE f \in Dirs
    <3>1. FolderOf(f)' = FolderOf(f)
      BY <1>2, <1>3, <2>2, SameFolder
    <3> QED  BY <1>2, <1>3, <2>2, <3>1 DEF StoreIs, Tree!Folder
  <2>3. CASE f \in Files \ Dirs
    <3>1. Shown(f)' = Shown(f)
      BY <1>1, <1>5, <2>3, WrittenShown
    <3> QED  BY <1>2, <1>3, <2>3, <3>1 DEF StoreIs, Tree!Plain
  <2> QED  BY <2>1, <2>2, <2>3
<1>6. Store' = [Store EXCEPT ![t] = Tree!Plain(buffer)]
  <2>1. /\ Store = [f \in FilePtr |-> Store[f]]
        /\ Store' = [f \in FilePtr |-> Store'[f]]
    BY DEF Store
  <2> QED  BY <1>1, <1>4, <1>5, <2>1
<1>7. Tree!Answer("writefile", TRUE, <<>>)
  BY Answers DEF TreeInv
<1> QED  BY <1>1, <1>2, <1>6, <1>7 DEF Tree!Write, Store

----------------------------------------------------------------------------
\* Every call is one of FileTree's.
LEMMA MakeTree ==
    ASSUME TreeInv, FInv', ~dead, NEW call, NEW name \in Names,
           NEW is_dir \in BOOLEAN, Make(call, name, is_dir)
    PROVE  /\ TreeInv'
           /\ Tree!Make(call, name, NewObject(is_dir)) \/ Tree!Hangs
<1>1. CASE /\ Lookup(name) # NULL
           /\ Answer(call, FALSE, <<>>)
           /\ UNCHANGED <<map, search_begin, disk, where, pathbuffer>>
  <2>1. TreeInv' /\ Tree!Same
    BY <1>1, SamePath
  <2>2. Tree!Answer(call, FALSE, <<>>) /\ Tree!Exists(name)
    BY <1>1, Answers, TreeHere DEF TreeInv
  <2> QED  BY <2>1, <2>2 DEF Tree!Make
<1>2. CASE /\ Lookup(name) = NULL
           /\ disk[Here].filesize # ENTRIES
           /\ creatfile(Here, name, is_dir)
           /\ Answer(call, TRUE, <<>>)
           /\ UNCHANGED <<where, pathbuffer>>
  <2>1. PICK d, n, p :
            d = Here /\ n = disk[d].filesize /\ p = Position(d, n)
    OBVIOUS
  <2>2. PICK got \in [1 .. NINODES -> Inode] :
          disk' = [disk EXCEPT
              ![d].filesize = @ + 1,
              ![p] = [filename |-> name, filesize |-> 0, is_dir |-> is_dir,
                      inodes |-> got]]
    BY <1>2, <2>1 DEF creatfile, getfilefromfolderbyno
  <2>3. Created(d, p, n, name, is_dir, got)
    BY <1>2, <2>1, <2>2, MakeFiles DEF TreeInv
  <2>4. TreeInv' /\ Tree!Make(call, name, NewObject(is_dir))
    BY <1>2, <2>1, <2>3, CreatedTree
  <2> QED  BY <2>4
<1>3. CASE /\ Lookup(name) = NULL
           /\ disk[Here].filesize = ENTRIES
           /\ alloc_for_indirect
  BY <1>3, HangTree
<1> QED  BY <1>1, <1>2, <1>3 DEF Make

LEMMA WriteTree ==
    ASSUME TreeInv, FInv', ~dead, NEW name \in Names,
           NEW buffer \in Contents[name], writefile(name, buffer)
    PROVE  TreeInv' /\ (Tree!Write(name, buffer) \/ Tree!Hangs)
<1>1. buffer \in Seq(Data)
  BY FsAssumption
<1>2. PICK t, len : t = Lookup(name) /\ len = Len(buffer)
  OBVIOUS
<1>3. len \in Nat /\ TOO_LARGE \in Nat /\ CAPACITY <= TOO_LARGE
  BY <1>1, <1>2, FsAssumption DEF CAPACITY
<1>4. CASE /\ ~IsPlain(t) \/ len > TOO_LARGE
           /\ Answer("writefile", FALSE, <<>>)
           /\ UNCHANGED <<map, search_begin, disk, where, pathbuffer>>
  <2>1. TreeInv' /\ Tree!Same
    BY <1>4, SamePath
  <2>2. ~Tree!Is("plain", name) \/ len >= CAPACITY
    BY <1>2, <1>3, <1>4, TreeHere, Sizes DEF TreeInv
  <2>3. Tree!Answer("writefile", FALSE, <<>>)
    BY <1>4, Answers DEF TreeInv
  <2> QED  BY <1>2, <2>1, <2>2, <2>3 DEF Tree!Write
<1>5. CASE /\ IsPlain(t)
           /\ len < CAPACITY
           /\ disk' = Written(t, buffer, len)
           /\ Answer("writefile", TRUE, <<>>)
           /\ UNCHANGED <<map, search_begin, where, pathbuffer>>
  BY <1>1, <1>2, <1>3, <1>5, WrittenTree
<1>6. CASE /\ IsPlain(t)
           /\ len \in CAPACITY .. TOO_LARGE
           /\ alloc_for_indirect
  <2>1. len >= CAPACITY
    BY <1>3, <1>6, Sizes
  <2>2. TreeInv' /\ Tree!Hangs
    BY <1>2, <1>6, <2>1, HangTree
  <2> QED  BY <2>2
<1>7. \/ /\ ~IsPlain(Lookup(name)) \/ Len(buffer) > TOO_LARGE
         /\ Answer("writefile", FALSE, <<>>)
         /\ UNCHANGED <<map, search_begin, disk, where, pathbuffer>>
      \/ /\ IsPlain(Lookup(name)) /\ Len(buffer) < CAPACITY
         /\ disk' = Written(Lookup(name), buffer, Len(buffer))
         /\ Answer("writefile", TRUE, <<>>)
         /\ UNCHANGED <<map, search_begin, where, pathbuffer>>
      \/ /\ IsPlain(Lookup(name))
         /\ Len(buffer) \in CAPACITY .. TOO_LARGE
         /\ alloc_for_indirect
  BY Zenon DEF writefile, Written
<1> QED  BY <1>2, <1>4, <1>5, <1>6, <1>7

\* The bootstrapped disk stands for an empty root.
LEMMA InitTree ==
    ASSUME Init
    PROVE  TreeInv /\ Tree!Init
<1>1. FInv
  BY InitInv
<1>2. PICK root \in File :
          /\ root.filename = "root" /\ root.filesize = 0 /\ root.is_dir
          /\ disk = [p \in FilePtr |->
                        IF p = ROOT THEN root ELSE [data |-> "none"]]
  <2>1. PICK root : root =
            [filename |-> "root", filesize |-> 0, is_dir |-> TRUE,
             inodes |-> [k \in 1 .. NINODES |-> k - 1]]
    OBVIOUS
  <2>2. \A k \in 1 .. NINODES : k - 1 \in Inode
    BY Sizes DEF Inode
  <2>3. root \in File
    BY <2>1, <2>2 DEF File
  <2> QED  BY <2>1, <2>3 DEF Init, init_map
<1>3. ROOT \in FilePtr /\ disk[ROOT] = root
  BY <1>2 DEF FilePtr
<1>4. Files = {ROOT} /\ Dirs = {ROOT}
  <2>1. [data |-> "none"] \in Raw
    BY DEF Raw
  <2>2. Files = {ROOT}
    BY <1>2, <1>3, <2>1, FileOrRaw DEF Files
  <2> QED  BY <1>2, <1>3, <2>2 DEF Dirs
<1>5. Entries(ROOT) = {}
  BY <1>2, <1>3 DEF Entries
<1>6. NamesInv /\ SizeInv
  BY <1>4, <1>5 DEF NamesInv, SizeInv
<1>7. where = <<ROOT>> /\ ret = Reply("none", TRUE, <<>>) /\ dead = FALSE
  BY DEF Init, init_map
<1>8. PathInv
  BY <1>2, <1>3, <1>7 DEF PathInv
<1>9. StoreIs
  BY <1>1, <1>6, StoreFacts
<1>10. Store[ROOT] = Tree!Folder(<<>>)
  <2>1. PICK g : g = FolderOf(ROOT)
    OBVIOUS
  <2>2. g = [name \in {Name(ROOT, no) : no \in Entries(ROOT)} |-> g[name]]
    BY <1>4, <1>9, <2>1 DEF StoreIs
  <2>3. {Name(ROOT, no) : no \in Entries(ROOT)} = {}
    BY <1>5
  <2>4. g = <<>>
    BY <2>2, <2>3, NoEntries
  <2> QED  BY <1>3, <1>4, <1>9, <2>1, <2>4 DEF StoreIs, Tree!Folder
<1>11. \A f \in FilePtr \ {ROOT} : Store[f] = Tree!Nothing
  BY <1>4, <1>9 DEF StoreIs
<1>12. Store = [o \in FilePtr |->
                   IF o = ROOT THEN Tree!Folder(<<>>) ELSE Tree!Nothing]
  <2>1. Store = [o \in FilePtr |-> Store[o]]
    BY DEF Store
  <2> QED  BY <1>10, <1>11, <2>1
<1>13. Tree!Init
  BY <1>7, <1>12 DEF Tree!Init, Store, Reply, Tree!Reply
<1> QED  BY <1>1, <1>6, <1>8, <1>13 DEF TreeInv

LEMMA NextTree ==
    ASSUME TreeInv, FInv', Next
    PROVE  TreeInv' /\ Tree!Next
<1>1. ~dead
  BY DEF Next
<1>2. ASSUME NEW name \in Folders, mkdir(name)
      PROVE  TreeInv' /\ Tree!Next
  <2>1. name \in Names
    BY FsAssumption
  <2>2. /\ TreeInv'
        /\ Tree!Make("mkdir", name, NewObject(TRUE)) \/ Tree!Hangs
    BY <1>1, <1>2, <2>1, MakeTree DEF mkdir
  <2>3. NewObject(TRUE) = Tree!Folder(<<>>)
    BY DEF NewObject
  <2> QED  BY <1>1, <2>1, <2>2, <2>3 DEF Tree!Next
<1>3. ASSUME NEW name \in Plains, creat(name)
      PROVE  TreeInv' /\ Tree!Next
  <2>1. name \in Names
    BY FsAssumption
  <2>2. /\ TreeInv'
        /\ Tree!Make("creat", name, NewObject(FALSE)) \/ Tree!Hangs
    BY <1>1, <1>3, <2>1, MakeTree DEF creat
  <2>3. NewObject(FALSE) = Tree!Plain(<<>>)
    BY DEF NewObject
  <2> QED  BY <1>1, <2>1, <2>2, <2>3 DEF Tree!Next
<1>4. ASSUME NEW name \in Names, cd(name)
      PROVE  TreeInv' /\ Tree!Next
  <2>1. TreeInv' /\ Tree!Cd(name)
    BY <1>1, <1>4, CdTree
  <2> QED  BY <1>1, <2>1 DEF Tree!Next
<1>5. ASSUME NEW name \in Names, cat(name)
      PROVE  TreeInv' /\ Tree!Next
  <2>1. TreeInv' /\ Tree!Cat(name)
    BY <1>1, <1>5, CatTree
  <2> QED  BY <1>1, <2>1 DEF Tree!Next
<1>6. ASSUME NEW name \in Names, NEW buffer \in Contents[name],
             writefile(name, buffer)
      PROVE  TreeInv' /\ Tree!Next
  <2>1. TreeInv' /\ (Tree!Write(name, buffer) \/ Tree!Hangs)
    BY <1>1, <1>6, WriteTree
  <2> QED  BY <1>1, <2>1 DEF Tree!Next
<1>7. CASE cd_up
  <2>1. TreeInv' /\ Tree!CdUp
    BY <1>1, <1>7, CdUpTree
  <2> QED  BY <1>1, <2>1 DEF Tree!Next
<1>8. CASE ls
  <2>1. TreeInv' /\ Tree!Ls
    BY <1>1, <1>8, LsTree
  <2> QED  BY <1>1, <2>1 DEF Tree!Next
<1>9. CASE pwd
  <2>1. TreeInv' /\ Tree!Pwd
    BY <1>1, <1>9, PwdTree
  <2> QED  BY <1>1, <2>1 DEF Tree!Next
<1> QED
  BY <1>2, <1>3, <1>4, <1>5, <1>6, <1>7, <1>8, <1>9, Zenon DEF Next

\* A step of Fs is a step of FileTree or none.
LEMMA StepTree ==
    TreeInv /\ [Next]_vars => TreeInv' /\ [Tree!Next]_(Tree!vars)
<1> SUFFICES ASSUME TreeInv, [Next]_vars
             PROVE  TreeInv' /\ [Tree!Next]_(Tree!vars)
  OBVIOUS
<1>1. FInv'
  BY StepInv DEF TreeInv
<1>2. CASE Next
  BY <1>1, <1>2, NextTree
<1>3. CASE UNCHANGED vars
  <2>1. /\ disk' = disk /\ where' = where /\ ret' = ret /\ dead' = dead
    BY <1>3 DEF vars
  <2>2. TreeInv' /\ Tree!Same
    BY <1>1, <2>1, SamePath
  <2> QED  BY <2>1, <2>2 DEF Tree!Same, Tree!vars
<1> QED  BY <1>2, <1>3

\* Whatever is called, and whatever the disk's sizes: an entry made is found
\* until the end, data is read as it was written last, and no call changes an
\* object but the one it is about.
THEOREM DiskIsAStore == Spec => Stores
<1>1. Init => TreeInv /\ Tree!Init
  BY InitTree
<1>2. TreeInv /\ [Next]_vars => TreeInv' /\ [Tree!Next]_(Tree!vars)
  BY StepTree
<1> QED  BY <1>1, <1>2, PTL DEF Spec, Stores, Tree!Spec
=============================================================================
