------------------------ MODULE MCSequentialSkiplist ------------------------
(***************************************************************************)
(* Three keys on three levels.                                             *)
(***************************************************************************)
EXTENDS SequentialSkiplist

MCKeys == 1..3
=============================================================================
