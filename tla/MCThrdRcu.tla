----------------------------- MODULE MCThrdRcu -----------------------------
(***************************************************************************)
(* Small instances of ThrdRcu for TLC.                                     *)
(***************************************************************************)
EXTENDS ThrdRcu, TLC

\* Every thread has a tid of its own ...
UniqueTid == [r \in Readers |-> r]

\* ... or all of them truncate to the same 32 bits.
CollidingTid == [r \in Readers |-> "tid"]

AllUnique == {UniqueTid}

UniqueOrColliding == {UniqueTid, CollidingTid}

\* Objects are interchangeable addresses.
ObjSymmetry == Permutations(Objs)
=============================================================================
