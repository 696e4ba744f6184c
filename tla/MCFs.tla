-------------------------------- MODULE MCFs --------------------------------
(***************************************************************************)
(* An instance of Fs for TLC: files of two pages of two units, so that a   *)
(* File's two pages take three entries of a directory, and three units of  *)
(* data.                                                                   *)
(***************************************************************************)
EXTENDS FsTree

FourNames == {"d", "x", "y", "z"}

\* Part of a page, more than a page, too much for the direct pages, and too
\* much altogether.
SomeContents ==
    [name \in FourNames |->
        CASE name = "x" -> {<<"a">>, <<"b", "a", "b">>, <<"a", "a", "a", "a">>,
                            <<"a", "a", "a", "a", "a", "a">>}
          [] name = "d" -> {<<"a">>}
          [] OTHER -> {}]
=============================================================================
