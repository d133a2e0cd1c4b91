----------------------------- MODULE MCShellTool -----------------------------
(* A small instance of ShellTool: names, ends of lines, and below the      *)
(* search root a directory whose line has a blank at its end.              *)
EXTENDS ShellTool

MCCharacters == {"x", LF, Slash, Blank}
MCChunkTexts == {<<"x">>, <<LF>>, <<Slash, Blank>>}
MCRoot == <<"x">>
=============================================================================
