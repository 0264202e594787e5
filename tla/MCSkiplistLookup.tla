-------------------------- MODULE MCSkiplistLookup --------------------------
(***************************************************************************)
(* A leaf of three slots, filled to different degrees, and two changes     *)
(* during one lookup.                                                      *)
(***************************************************************************)
EXTENDS SkiplistLookup

R(key, size) == [key |-> key, size |-> size]

MCFresh == {<<R(4, 2)>>, <<R(2, 1), R(4, 2)>>, <<R(2, 1), R(4, 2), R(8, 1)>>}
MCChanges == {R(1, 1), R(2, 1), R(4, 2), R(6, 1), R(8, 1), R(9, 2)}
MCArgs == {R(1, 1), R(4, 1), R(4, 4), R(8, 1), R(10, 1)}
=============================================================================
