------------------------------ MODULE MCParse ------------------------------
(***************************************************************************)
(* Instances of Parse for TLC: lines with one blank or two, in front,      *)
(* between and behind, and with the last one missing.                      *)
(***************************************************************************)
EXTENDS Parse

ShellLines ==
    {<<>>, <<" ">>,
     <<"f", "g">>, <<"f", "g", " ">>, <<"f", "g", " ", "1">>,
     <<"f", "g", " ", " ", "2", "3">>, <<" ", "f", "g", " ", "1", " ">>,
     <<"f", "z", " ", "x", " ">>, <<"j", "o", "b", "s">>,
     <<"k", "i", "l", "l", " ", " ", "1">>,
     <<"p", "r">>, <<"p", "r", " ">>, <<"p", "r", " ", "&">>,
     <<"p", "r", " ", " ", "&", " ">>, <<"p", " ", "a", "b", " ", "&">>,
     <<"p", " ", "a", "b", " ", " ", "c", "d">>}

Memories == {<<>>, <<" ", "&", " ", "7">>, <<"u", " ", " ", "v", "w">>}
=============================================================================
