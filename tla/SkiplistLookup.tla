---------------------------- MODULE SkiplistLookup ----------------------------
(***************************************************************************)
(* One leaf of skiplist/ref/skiplist.c as it lies in memory, changed by    *)
(* whoever holds its lock, one store at a time, while skiplist_lookup_rcu()*)
(* reads it without any lock.  x86 keeps the order of stores and the order *)
(* of loads, which is all that the barriers of the source ask for; so the  *)
(* interleaving of the accesses is the behaviour.  Skiplist takes the      *)
(* changes of a leaf for single steps, this module shows that the lock     *)
(* holder may, and what is left of that for a reader without the lock.     *)
(***************************************************************************)
EXTENDS SkiplistLeaf, FiniteSets

CONSTANTS Readers,
          Null, Junk,       \* a NULL and a wild pointer to a struct sl_slot
          Top,              \* the number a pointer is when taken for a key
          Fresh,            \* the leaves to start with, as sequences
          Changes,          \* what may be inserted: ranges, and deleted: keys
          Args,             \* the ranges looked up
          MaxOps            \* changes made under the lock

ASSUME LookupAssumption ==
  /\ Null # Junk /\ Null \notin Slot /\ Junk \notin Slot
  /\ Top \in Nat /\ MaxOps \in Nat
  /\ \A s \in Fresh : s \in Seq(Slot) /\ Len(s) \in 1..Cap /\ Ordered(s)
  /\ Changes \subseteq Slot /\ Args \subseteq Slot

Slots == 0..Cap - 1        \* indices, as in the source; Cap is one too many

VARIABLES
  nr, max, keys, ptrs, dead,  \* struct sl_leaf
  split,        \* the upper half, once it is in a leaf of its own
  wpc, w,       \* the lock holder: its next store and its locals
  ops,          \* changes made so far
  pc, rd        \* the readers, their locals and what they have seen

leaf == <<nr, max, keys, ptrs, dead, split>>
writer == <<wpc, w, ops>>
reader == <<pc, rd>>
vars == <<leaf, writer, reader>>

Ptrs == Changes \cup UNION {ToSet(s) : s \in Fresh} \cup {Null, Junk}

\* Memory from kmem_cache_alloc() is what it was before: zero, or anything.
\* keys[Cap] lies over ptrs[0], and ptrs[Cap] over rcu_head.
Init ==
  /\ \E s \in Fresh, k \in {0, Top}, p \in {Null, Junk} :
       /\ nr = Len(s)
       /\ max = End(s[Len(s)])
       /\ keys = [i \in 0..Cap |-> IF i < nr THEN s[i + 1].key
                                   ELSE IF i = Cap THEN Top ELSE k]
       /\ ptrs = [i \in 0..Cap |-> IF i < nr THEN s[i + 1] ELSE p]
       /\ w = [slot |-> 0, i |-> 0, r |-> Null, old |-> s, in |-> {}, out |-> {},
               moves |-> FALSE]
  /\ dead = FALSE
  /\ split = <<>>
  /\ wpc = "rest"
  /\ ops = 0
  /\ pc = [r \in Readers |-> "rest"]
  /\ rd = [r \in Readers |-> [arg |-> Null, last |-> 0, i |-> 0, cur |-> 0,
             read |-> 0, found |-> Null, moved |-> FALSE, ever |-> {}, always |-> {}]]

-----------------------------------------------------------------------------
(* The lock holder *)

\* What the leaf holds: with the lock taken, what it held before.
Stored == [i \in 1..nr |-> ptrs[i - 1]]
Contents == IF wpc = "rest" THEN Stored ELSE w.old

Entering == IF wpc = "rest" THEN {} ELSE w.in
Leaving == IF wpc = "rest" THEN {} ELSE w.out

\* The readers that are under way see what this change brings and removes,
\* and whether it moves ranges or fills a slot again that they count in.
Seen(in, out, slot, moves) ==
  rd' = [r \in Readers |->
    IF pc[r] \in {"rest", "done", "oops"} THEN rd[r]
    ELSE [rd[r] EXCEPT !.ever = @ \cup in, !.always = @ \ out,
                       !.moved = @ \/ moves \/ (in # {} /\ slot < rd[r].last)]]

Begin(label, slot, r, in, out, moves) ==
  /\ wpc' = label
  /\ w' = [slot |-> slot, i |-> slot, r |-> r, old |-> Stored, in |-> in, out |-> out,
           moves |-> moves]
  /\ ops' = ops + 1
  /\ Seen(in, out, slot, moves)
  /\ UNCHANGED <<nr, max, keys, ptrs, dead, pc>>

\* add_key_to_leaf() from where the place is known: split, shift, or extend.
BeginInsert ==
  \E r \in Changes :
    LET hit == LeafSlotLocked(Stored, r)
        slot == hit.slot - 1
    IN  /\ wpc = "rest" /\ ops < MaxOps /\ ~ dead
        /\ ~ hit.found
        /\ split # <<>> => End(r) <= split[1].key
        /\ \/ /\ nr < Cap
              /\ Begin(IF slot < nr THEN "clearkey" ELSE "extend",
                       slot, r, {r}, {}, slot < nr)
              /\ UNCHANGED split
           \/ /\ nr = Cap /\ slot < nr /\ split = <<>>
              /\ Begin("splitmax", slot, r, {r}, {}, TRUE)
              /\ split' = SplitMoves(Stored, hit.slot, r)

\* delete_slot()
BeginDelete ==
  \E i \in 0..nr - 1 :
    /\ wpc = "rest" /\ ops < MaxOps /\ ~ dead
    /\ ptrs[i] \in Changes
    /\ Begin(IF i # nr - 1 THEN "pullkey" ELSE IF nr > 1 THEN "lowermax" ELSE "shrink",
             i, ptrs[i], {}, {ptrs[i]}, i # nr - 1)
    /\ UNCHANGED split

Then(label) == wpc' = label /\ UNCHANGED <<ops, reader>>
StoreKey(i, k) == keys' = [keys EXCEPT ![i] = k] /\ UNCHANGED <<nr, max, ptrs, dead, split>>
StorePtr(i, p) == ptrs' = [ptrs EXCEPT ![i] = p] /\ UNCHANGED <<nr, max, keys, dead, split>>
StoreMax(m) == max' = m /\ UNCHANGED <<nr, keys, ptrs, dead, split>>
StoreNr(n) == nr' = n /\ UNCHANGED <<max, keys, ptrs, dead, split>>

\* Seeded defect: the size of the last range is forgotten.
SplitMaxShort ==
  /\ wpc = "splitmax"
  /\ StoreMax(keys[Mid - 1])
  /\ Then("splitnr") /\ UNCHANGED w

\* Split: the upper half is linked, now this leaf gives it up.
SplitMax ==
  /\ wpc = "splitmax"
  /\ StoreMax(End(ptrs[Mid - 1]))
  /\ Then("splitnr") /\ UNCHANGED w

SplitNr ==
  /\ wpc = "splitnr"
  /\ StoreNr(Mid)
  /\ Then(IF SplitLeavesRoom(w.old, w.slot + 1) THEN "clearkey" ELSE "rest")
  /\ UNCHANGED w

\* Shift: something sane goes into the new last slot ...
ClearKey ==
  /\ wpc = "clearkey" /\ StoreKey(nr, 0) /\ Then("clearptr") /\ UNCHANGED w

ClearPtr ==
  /\ wpc = "clearptr" /\ StorePtr(nr, Null) /\ Then("grow") /\ UNCHANGED w

Grow ==
  /\ wpc = "grow"
  /\ StoreNr(nr + 1)
  /\ w' = [w EXCEPT !.i = nr]
  /\ Then("pushkey")

PushDone == w.i = w.slot

\* ... then every range behind the place goes one slot up.
PushKey ==
  /\ wpc = "pushkey" /\ ~ PushDone
  /\ StoreKey(w.i, keys[w.i - 1])
  /\ Then("pushptr") /\ UNCHANGED w

PushPtr ==
  /\ wpc = "pushptr"
  /\ StorePtr(w.i, ptrs[w.i - 1])
  /\ w' = [w EXCEPT !.i = @ - 1]
  /\ Then("pushkey")

PutKey ==
  /\ \/ wpc = "pushkey" /\ PushDone
     \/ wpc = "putkey"
  /\ StoreKey(w.slot, w.r.key)
  /\ Then("putptr") /\ UNCHANGED w

PutPtr ==
  /\ wpc = "putptr"
  /\ StorePtr(w.slot, w.r)
  /\ Then(IF w.slot = nr THEN "count" ELSE "rest") /\ UNCHANGED w

\* Seeded defect: the new slot counts before it is filled.
ExtendEarly ==
  /\ wpc = "extend"
  /\ max' = End(w.r) /\ nr' = nr + 1
  /\ UNCHANGED <<keys, ptrs, dead, split>>
  /\ Then("putkey") /\ UNCHANGED w

\* Extend
Extend ==
  /\ wpc = "extend" /\ StoreMax(End(w.r)) /\ Then("putkey") /\ UNCHANGED w

Count ==
  /\ wpc = "count" /\ StoreNr(nr + 1) /\ Then("rest") /\ UNCHANGED w

\* Delete: every range behind it goes one slot down, and so does what lies
\* behind the last one.
PullKey ==
  /\ wpc = "pullkey" /\ w.i < nr
  /\ StoreKey(w.i, keys[w.i + 1])
  /\ Then("pullptr") /\ UNCHANGED w

PullPtr ==
  /\ wpc = "pullptr"
  /\ StorePtr(w.i, ptrs[w.i + 1])
  /\ w' = [w EXCEPT !.i = @ + 1]
  /\ Then(IF w.i + 1 < nr THEN "pullkey" ELSE "shrink")

\* Seeded defect: max stays that of the range taken out.
KeepMax ==
  /\ wpc = "lowermax"
  /\ StoreMax(keys[nr - 1] + ptrs[nr - 1].size)
  /\ Then("shrink") /\ UNCHANGED w

LowerMax ==
  /\ wpc = "lowermax"
  /\ StoreMax(keys[nr - 2] + ptrs[nr - 2].size)
  /\ Then("shrink") /\ UNCHANGED w

Shrink ==
  /\ wpc = "shrink"
  /\ StoreNr(nr - 1)
  /\ Then(IF nr = 1 THEN "kill" ELSE "rest") /\ UNCHANGED w

Kill ==
  /\ wpc = "kill"
  /\ dead' = TRUE
  /\ UNCHANGED <<nr, max, keys, ptrs, split>>
  /\ Then("rest") /\ UNCHANGED w

Writer ==
  \/ BeginInsert \/ BeginDelete
  \/ SplitMax \/ SplitNr \/ ClearKey \/ ClearPtr \/ Grow \/ PushKey \/ PushPtr
  \/ PutKey \/ PutPtr \/ Extend \/ Count
  \/ PullKey \/ PullPtr \/ LowerMax \/ Shrink \/ Kill

-----------------------------------------------------------------------------
(* skiplist_lookup_rcu() *)

Read(r, label, local) ==
  /\ pc' = [pc EXCEPT ![r] = label]
  /\ rd' = [rd EXCEPT ![r] = local]
  /\ UNCHANGED <<leaf, writer>>

Goto(r, label) == Read(r, label, rd[r])

Key(r) == rd[r].arg.key
Up(r) == End(rd[r].arg)

\* The end of the call, with NULL or with what was found.
Answer(r, p) == Read(r, "done", [rd[r] EXCEPT !.found = p])

\* The call ends in the leaf behind, which nobody changes.
NextLeaf(r) ==
  LET hits == {s \in ToSet(split) : Overlap(s, rd[r].arg)}
  IN  \E p \in hits \cup {Null} :
        /\ p = Null => \A s \in hits : ~ Covers(s, Key(r))
        /\ Answer(r, p)

Call(r) ==
  /\ pc[r] = "rest"
  /\ \E arg \in Args :
       Read(r, "leafmax",
         [rd[r] EXCEPT !.arg = arg,
            !.ever = ToSet(Contents) \cup ToSet(split) \cup Entering,
            !.always = (ToSet(Contents) \cup ToSet(split)) \ (Entering \cup Leaving),
            !.moved = wpc # "rest" /\ w.moves])

\* skiplist_lookup_leaf(): this leaf, the next one, or none.
LeafMax(r) ==
  /\ pc[r] = "leafmax"
  /\ IF dead THEN NextLeaf(r)
     ELSE Read(r, "leafmin", [rd[r] EXCEPT !.read = max])

LeafMin(r) ==
  /\ pc[r] = "leafmin"
  /\ IF Key(r) >= rd[r].read
     THEN NextLeaf(r)
     ELSE IF Key(r) < keys[0]
     THEN Read(r, "recheck", [rd[r] EXCEPT !.read = keys[0]])
     ELSE Goto(r, "nr")

Recheck(r) ==
  /\ pc[r] = "recheck"
  /\ IF keys[0] # rd[r].read \/ dead THEN Goto(r, "leafmax") ELSE Answer(r, Null)

\* leaf_slot(): again
Nr(r) ==
  /\ pc[r] = "nr"
  /\ Read(r, "scan", [rd[r] EXCEPT !.last = nr, !.i = 0, !.cur = 0])

\* find the first slot greater than our key
Scan(r) ==
  LET i == rd[r].i
  IN  /\ pc[r] = "scan"
      /\ IF i < rd[r].last /\ keys[i] < Up(r)
         THEN Read(r, "scan", [rd[r] EXCEPT !.cur = i, !.i = i + 1])
         ELSE Goto(r, "compare")

Compare(r) ==
  /\ pc[r] = "compare"
  /\ Goto(r, IF keys[rd[r].cur] < Up(r) THEN "wait" ELSE "verify")

\* The loop that waits for a pointer: a wild one is followed at once.
Wait(r) ==
  LET found == ptrs[rd[r].cur]
  IN  /\ pc[r] = "wait"
      /\ found # Null
      /\ Read(r, IF found = Junk THEN "oops" ELSE "match", [rd[r] EXCEPT !.found = found])

\* Seeded defect: only the key is read again, not the pointer.
MatchKeyAgain(r) ==
  LET found == rd[r].found
  IN  /\ pc[r] = "match"
      /\ Goto(r, IF found.key # keys[rd[r].cur] THEN "match"
                 ELSE IF Overlap(found, rd[r].arg) THEN "fetch" ELSE "verify")

Match(r) ==
  LET found == rd[r].found
  IN  /\ pc[r] = "match"
      /\ Goto(r, IF found.key # keys[rd[r].cur] THEN "nr"
                 ELSE IF Overlap(found, rd[r].arg) THEN "fetch" ELSE "verify")

\* skiplist_lookup_rcu() reads the slot once more.
Fetch(r) ==
  /\ pc[r] = "fetch"
  /\ Answer(r, ptrs[rd[r].cur])

\* verify_key_in_leaf(): not there, or not in this leaf any more.
Verify(r) ==
  /\ pc[r] = "verify"
  /\ Goto(r, IF dead \/ Up(r) < keys[0] THEN "leafmax" ELSE "verifymax")

VerifyMax(r) ==
  /\ pc[r] = "verifymax"
  /\ IF Key(r) >= max THEN Goto(r, "leafmax") ELSE Answer(r, Null)

Lookup(r) ==
  \/ Call(r) \/ LeafMax(r) \/ LeafMin(r) \/ Recheck(r)
  \/ Nr(r) \/ Scan(r) \/ Compare(r) \/ Wait(r) \/ Match(r) \/ Fetch(r)
  \/ Verify(r) \/ VerifyMax(r)

-----------------------------------------------------------------------------
\* All changes made and all calls over; or a reader that will wait for ever,
\* or has followed a wild pointer.
WaitsBehindEnd(r) ==
  pc[r] = "wait" /\ rd[r].cur >= nr /\ ptrs[rd[r].cur] = Null

Ended(r) == pc[r] \in {"done", "oops"} \/ WaitsBehindEnd(r)

Finished ==
  /\ wpc = "rest"
  /\ \A r \in Readers : Ended(r)
  /\ UNCHANGED vars

Next == Writer \/ (\E r \in Readers : Lookup(r)) \/ Finished

Spec == Init /\ [][Next]_vars

\* Both sides run with preemption disabled, or are scheduled again.
FairSpec ==
  /\ Spec
  /\ WF_vars(Writer)
  /\ \A r \in Readers : WF_vars(Lookup(r))

-----------------------------------------------------------------------------
(* Properties *)

\* A change is done: the arrays hold its outcome.
ChangedLeaf ==
  (wpc # "rest" /\ wpc' = "rest" /\ ~ dead') =>
    /\ Stored' \in
         IF w.out # {} THEN {RemoveAt(w.old, w.slot + 1)}
         ELSE LET lower == SplitStays(w.old, w.slot + 1)
              IN  IF Len(w.old) < Cap THEN {InsertAt(w.old, w.slot + 1, w.r)}
                  ELSE IF SplitLeavesRoom(w.old, w.slot + 1)
                  THEN {InsertAt(lower, w.slot + 1, w.r)} ELSE {lower}
    /\ \A i \in 0..nr' - 1 : keys'[i] = ptrs'[i].key
    /\ nr' > 0 => max' = End(ptrs'[nr' - 1])

\* Whatever stores a change is made of, when the lock is released the arrays
\* hold what Skiplist makes of the sequence in one step: the range inserted in
\* its place, the lower half of a split, or the range removed; and the keys
\* and max are those of the ranges.
ChangesLeaf == [][ChangedLeaf]_vars

\* A walk that has no lock takes keys[0] and max for the bounds of the leaf.
\* At no time do they leave out a range that stays in it.
WithinMinMax ==
  \A s \in ToSet(Contents) \ (Leaving \cup ToSet(split)) :
    keys[0] <= s.key /\ End(s) <= max

\* As long as no range is moved to another slot or leaf during a lockless
\* lookup, and no slot it counts in is emptied and filled again, it finds what
\* is there all the time, and what it returns has been there at some time
\* during the call.
UnmovedLookupsRight ==
  \A r \in Readers : pc[r] = "done" /\ ~ rd[r].moved =>
    IF rd[r].found = Null
    THEN \A s \in rd[r].always : ~ Covers(s, Key(r))
    ELSE rd[r].found \in rd[r].ever

\* A lookup returns, follows a wild pointer, or waits for ever for a slot that
\* is behind the end of the leaf; no other wait for an insertion, and no series
\* of repeats, is without an end.
LookupsEnd == \A r \in Readers : <>[](pc[r] = "rest" \/ Ended(r))

=============================================================================
