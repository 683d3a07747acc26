------------------------------- MODULE MCOAuth -------------------------------
(* OAuth for TLC: the shapes of token responses. *)
EXTENDS OAuth

AllShapes == [rotates : BOOLEAN, expires : BOOLEAN]
Rotating  == [rotates : {TRUE}, expires : {TRUE}]
=============================================================================
