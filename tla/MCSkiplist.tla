----------------------------- MODULE MCSkiplist -----------------------------
(***************************************************************************)
(* Instances of Skiplist: two ranges fill a leaf of two, the third one     *)
(* starts another.                                                         *)
(***************************************************************************)
EXTENDS Skiplist, TLC

CONSTANTS t1, t2

R(key, size) == [key |-> key, size |-> size]
Do(op, key, size) == [op |-> op, r |-> R(key, size)]

Two(a, b) == t1 :> a @@ t2 :> b

MCFills == {<<R(4, 9)>>, <<R(2, 1), R(4, 2), R(8, 1)>>,
            <<R(2, 1), R(4, 2), R(8, 1), R(9, 1), R(11, 1), R(14, 1)>>}
First == {Do("lookup", 4, 1), Do("insert", 10, 1), Do("hole", 13, 2), Do("delete", 2, 1)}
Second ==
  LET del4 == Do("delete", 4, 2)
      del8 == Do("delete", 8, 1)
      ins3 == Do("insert", 3, 1)
      ins12 == Do("insert", 12, 2)
  IN  {<<del4, del8>>, <<del4, ins12>>, <<ins12, del4>>, <<ins3, del8>>, <<del8, ins3>>}
MCPrograms ==
  {[fill |-> f, todo |-> Two(<<a>>, b)] : f \in MCFills, a \in First, b \in Second}

\* The second of two leaves, on both levels, is deleted while two ranges go into
\* the first one and split it: an eraser and an inserter wait for each other.
DeadlockPrograms ==
  {[fill |-> <<R(2, 1), R(4, 2), R(8, 1)>>,
    todo |-> Two(<<Do("insert", 3, 1), Do("insert", 5, 1)>>, <<Do("delete", 8, 1)>>)]}

\* Two leaves of which the first one is emptied, from the back, while a range
\* goes into it.
LostPrograms ==
  {[fill |-> <<R(4, 2), R(6, 1), R(8, 1)>>,
    todo |-> Two(<<Do("insert", 5, 1)>>, <<Do("delete", 6, 1), Do("delete", 4, 2)>>)]}

\* Two leaves, the first one on both levels.  While an insertion has passed the
\* first on the upper level, the second is deleted, the first grows beyond the
\* key of that insertion, and is split.
OverlapPrograms ==
  {[fill |-> <<R(2, 1), R(4, 1), R(14, 1)>>,
    todo |-> Two(<<Do("insert", 9, 1)>>,
                 <<Do("delete", 4, 1), Do("delete", 14, 1), Do("insert", 8, 2),
                   Do("insert", 12, 1)>>)]}
=============================================================================
