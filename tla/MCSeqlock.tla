----------------------------- MODULE MCSeqlock -----------------------------
(***************************************************************************)
(* Small instances of Seqlock for TLC.                                     *)
(***************************************************************************)
EXTENDS Seqlock

CONSTANTS r1, r2

\* A reader that locks next to one that does not, or does when it must.
MixedKinds ==
  {[r \in {r1, r2} |-> IF r = r1 THEN "excl" ELSE k] :
      k \in {"lockless", "or_lock"}}

LocklessOnly == {[r \in Readers |-> "lockless"]}
=============================================================================
