------------------------------ MODULE RangeSet ------------------------------
(***************************************************************************)
(* What the concurrent skiplist promises: a set of disjoint ranges. Every  *)
(* call that succeeds takes effect at one instant. A call may refuse only  *)
(* for a reason that existed while it ran: an insertion because of a range *)
(* it overlaps and that was present, or still being deleted, at some time  *)
(* during the call, or of one still being deleted that lies anywhere       *)
(* before its end (check_overlap() takes a dead leaf for the next one); a  *)
(* lookup or deletion may miss only a key that no range covered all        *)
(* through the call. An insertion that chooses its key keeps to Limit and  *)
(* Align, and may always give up.                                          *)
(***************************************************************************)
EXTENDS SkiplistLeaf

CONSTANTS Threads, Ranges, Limit, Align

VARIABLES
  ranges,   \* the set
  call      \* call[t]: what t has called, and what it has seen meanwhile

\* No call in progress; found is what the last one, if a lookup, has returned.
Idle(found) == [op |-> "none", found |-> found]
Resting == {Idle(found) : found \in BOOLEAN}
Ops == {"insert", "hole", "delete", "lookup"}
Calls == [op : Ops, r : Ranges,
          ever : SUBSET Ranges, always : SUBSET Ranges]
Deleting == [op : {"deleting"}, r : Ranges]

TypeOK ==
  /\ ranges \subseteq Ranges
  /\ call \in [Threads -> Resting \cup Calls \cup Deleting]

Init ==
  /\ ranges = {}
  /\ call = [t \in Threads |-> Idle(FALSE)]

\* Ranges taken out by deletions that have not returned yet.
Lingering == {call[t].r : t \in {u \in Threads : call[u].op = "deleting"}}

\* The set becomes R and t's call becomes c; the other calls see it.
Becomes(R, t, c) ==
  /\ ranges' = R
  /\ call' = [u \in Threads |->
       IF u = t THEN c
       ELSE IF call[u] \in Resting \cup Deleting THEN call[u]
       ELSE [call[u] EXCEPT !.ever = @ \cup R, !.always = @ \cap R]]

Call(t, op, r) ==
  /\ call[t] \in Resting
  /\ Becomes(ranges, t, [op |-> op, r |-> r, always |-> ranges,
                         ever |-> ranges \cup Lingering])

Insert(t) ==
  /\ call[t].op = "insert"
  /\ \A s \in ranges : ~ Overlap(s, call[t].r)
  /\ Becomes(ranges \cup {call[t].r}, t, Idle(FALSE))

InsertHole(t, key) ==
  LET r == [key |-> key, size |-> call[t].r.size]
  IN  /\ call[t].op = "hole"
      /\ End(r) <= Limit /\ key % Align = 0
      /\ \A s \in ranges : ~ Overlap(s, r)
      /\ Becomes(ranges \cup {r}, t, Idle(FALSE))

GiveUp(t) ==
  /\ call[t].op = "hole"
  /\ Becomes(ranges, t, Idle(FALSE))

RefuseInsert(t) ==
  /\ call[t].op = "insert"
  /\ \/ \E s \in call[t].ever : Overlap(s, call[t].r)
     \/ \E s \in Lingering : s.key < End(call[t].r)
  /\ Becomes(ranges, t, Idle(FALSE))

Delete(t, s) ==
  /\ call[t].op = "delete"
  /\ s \in ranges /\ Overlap(s, call[t].r)
  /\ \/ Becomes(ranges \ {s}, t, Idle(FALSE))
     \/ Becomes(ranges \ {s}, t, [op |-> "deleting", r |-> s])

EndDelete(t) ==
  /\ call[t].op = "deleting"
  /\ Becomes(ranges, t, Idle(FALSE))

Find(t) ==
  /\ call[t].op = "lookup"
  /\ \E s \in ranges : Overlap(s, call[t].r)
  /\ Becomes(ranges, t, Idle(TRUE))

Miss(t) ==
  /\ call[t].op \in {"lookup", "delete"}
  /\ \A s \in call[t].always : ~ Covers(s, call[t].r.key)
  /\ Becomes(ranges, t, Idle(FALSE))

Next ==
  \E t \in Threads :
    \/ \E op \in Ops, r \in Ranges : Call(t, op, r)
    \/ Insert(t) \/ RefuseInsert(t) \/ GiveUp(t)
    \/ \E key \in 0..Limit : InsertHole(t, key)
    \/ \E s \in ranges : Delete(t, s)
    \/ EndDelete(t) \/ Find(t) \/ Miss(t)

vars == <<ranges, call>>

Spec == Init /\ [][Next]_vars
=============================================================================
