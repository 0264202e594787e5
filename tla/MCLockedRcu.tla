---------------------------- MODULE MCLockedRcu ----------------------------
(***************************************************************************)
(* Small instances of LockedRcu for TLC.                                   *)
(***************************************************************************)
EXTENDS LockedRcu, TLC

\* Nodes, objects and readers are interchangeable.
Symmetry ==
  Permutations(Nodes) \cup Permutations(Objs) \cup Permutations(Readers)
=============================================================================
