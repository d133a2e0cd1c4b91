----------------------------- MODULE MCFileTools -----------------------------
(* A small instance of FileTools: texts with every line ending and a byte  *)
(* order mark, edits that meet, cross and miss one another.                *)
EXTENDS FileTools, TLC

A == "a"
B == "b"

MCCharacters == {A, B, LF, CRLF, CR, BOM}
Texts == {<<BOM, A, CRLF, B>>, <<A, CR, B, LF, A>>, <<A, LF, B, LF, A>>}

\* The other path does not exist yet.
MCInitialFiles ==
  {[p \in Paths |-> IF p = "p" THEN file ELSE Missing] :
     file \in {Missing} \cup {File(text) : text \in Texts}}

Change(old, new) == [old |-> old, new |-> new]

LineEnds ==
  Edit("p", <<Change(<<A, CRLF>>, <<B, LF>>), Change(<<B>>, <<LF, A>>)>>)
Crossing ==
  Edit("p", <<Change(<<B, LF, A>>, <<B>>), Change(<<A, LF>>, <<>>)>>)
WriteP == Write("p", <<A, CRLF>>)
WriteQ == Write("q", <<B>>)

CONSTANTS c1, c2, c3

MCInputs ==
  {c1 :> LineEnds @@ c2 :> Crossing @@ c3 :> WriteP,
   c1 :> Crossing @@ c2 :> WriteP @@ c3 :> WriteQ}
=============================================================================
