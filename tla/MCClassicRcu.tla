---------------------------- MODULE MCClassicRcu ----------------------------
(***************************************************************************)
(* Small instances of ClassicRcu for TLC.                                  *)
(***************************************************************************)
EXTENDS ClassicRcu, TLC

\* Addresses are interchangeable.
ObjSymmetry == Permutations(Objs)
=============================================================================
