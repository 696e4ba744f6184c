------------------------------- MODULE FsTree -------------------------------
(***************************************************************************)
(* Fs implements FileTree: the bitmap and the pages are a store of files   *)
(* and directories.                                                        *)
(***************************************************************************)
EXTENDS Fs

\* What a File pointer stands for.
EntryNames(dir) ==
    {disk[getfilefromfolderbyno(dir, no)].filename :
        no \in 0 .. disk[dir].filesize - 1}
Object(file) ==
    IF ~IsFile(disk[file])
    THEN [kind |-> "nothing", entries |-> <<>>, data |-> <<>>]
    ELSE IF disk[file].is_dir
    THEN [kind |-> "folder", data |-> <<>>,
          entries |-> [name \in EntryNames(file) |->
                          getfilefromfolderbyname(file, name)]]
    ELSE [kind |-> "plain", entries |-> <<>>, data |-> Shown(file)]

Tree == INSTANCE FileTree WITH
    Objects <- FilePtr, Root <- ROOT,
    store <- [file \in FilePtr |-> Object(file)], trail <- where

\* Calls give what a store of files and directories would give: an entry made
\* is found until the end, data is read as it was written last, and no call
\* changes an object but the one it is about.
Stores == Tree!Spec
=============================================================================
