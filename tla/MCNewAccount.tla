---------------------------- MODULE MCNewAccount ----------------------------
(* Two user names, one other field, two passwords besides the empty text,  *)
(* and two queries, the second of which can be answered late.              *)
EXTENDS NewAccount

CONSTANTS Anna, Ben, FirstName, Pw1, Pw2

MCName == {Anna, Ben}

MCTextField == {FirstName}

MCText == {Empty, Pw1, Pw2}
=============================================================================
