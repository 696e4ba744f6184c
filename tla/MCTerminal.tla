----------------------------- MODULE MCTerminal -----------------------------
(***************************************************************************)
(* Instances of Terminal for TLC.                                          *)
(***************************************************************************)
EXTENDS Terminal

ShellPrompt == <<">">>
ShellReplies == {<<>>, <<"o", "CR", "LF">>}
=============================================================================
