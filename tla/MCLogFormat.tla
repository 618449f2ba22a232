---------------------------- MODULE MCLogFormat ----------------------------
(* Blocks of five bytes and headers of two: a block takes a record of      *)
(* three, so that the lengths fill a block, leave one byte of trailer or   *)
(* none, and need up to three fragments.                                   *)
EXTENDS LogFormat
=============================================================================
