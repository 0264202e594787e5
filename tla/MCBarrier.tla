----------------------------- MODULE MCBarrier -----------------------------
(***************************************************************************)
(* Small instances of Barrier for TLC.                                     *)
(***************************************************************************)
EXTENDS Barrier, TLC

CONSTANTS first, second

\* One barrier, called again and again ...
SameBarrier == <<first, first, first, first>>

\* ... and two barriers called in turn.
TwoBarriers == <<first, second, first>>
=============================================================================
