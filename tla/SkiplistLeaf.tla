---------------------------- MODULE SkiplistLeaf ----------------------------
(***************************************************************************)
(* A leaf of skiplist/ref/skiplist.c as its lock holder sees it: at most   *)
(* Cap (SKIP_KEYS_PER_NODE) ranges [key, key + size) in the order of their *)
(* keys.  A range stands for a struct sl_slot; positions count from 1.     *)
(* Ranges end below 2^64, so the sums of the source do not wrap.           *)
(***************************************************************************)
EXTENDS Integers, SequencesExt

CONSTANT Cap

ASSUME CapAssumption == Cap \in Nat /\ Cap >= 2

End(r) == r.key + r.size
Overlap(r, s) == r.key < End(s) /\ s.key < End(r)
Covers(r, key) == r.key <= key /\ key < End(r)

Slot == [key : Nat, size : Nat \ {0}]

\* Ranges in the order of their keys, none of which overlap.
Ordered(s) == \A i, j \in 1..Len(s) : i < j => End(s[i]) <= s[j].key

\* leaf_slot_locked(): the binary search between low and high for a key inside
\* [r.key, End(r)), then a look at the range before the place where r would be
\* inserted.
Probe(slots, r) ==
  LET probe[b \in (1..Len(slots) + 1) \X (0..Len(slots))] ==
        LET low == b[1]
            high == b[2]
            mid == low + (high - low) \div 2
        IN  IF low > high THEN [found |-> FALSE, slot |-> low]
            ELSE IF slots[mid].key < r.key THEN probe[<<mid + 1, high>>]
            ELSE IF slots[mid].key >= End(r) THEN probe[<<low, mid - 1>>]
            ELSE [found |-> TRUE, slot |-> mid]
  IN  probe[<<1, Len(slots)>>]

LeafSlotLocked(slots, r) ==
  LET hit == Probe(slots, r)
  IN  IF hit.found \/ hit.slot = 1 THEN hit
      ELSE LET before == slots[hit.slot - 1]
           IN  IF before.key < End(r) /\ End(before) > r.key
               THEN [found |-> TRUE, slot |-> hit.slot - 1]
               ELSE hit

\* add_key_to_leaf() on a full leaf: the ranges that stay, and those of the
\* new leaf.  A range that goes behind all others starts the new leaf alone;
\* otherwise the upper half moves, with r if it belongs there.
Mid == Cap - Cap \div 2

\* Seeded defect: nr is not lowered.
SplitStaysWhole(slots, slot) == slots

SplitStays(slots, slot) == IF slot > Len(slots) THEN slots ELSE SubSeq(slots, 1, Mid)

SplitMoves(slots, slot, r) ==
  IF slot > Len(slots) THEN <<r>>
  ELSE IF slot > Mid
       THEN SubSeq(InsertAt(slots, slot, r), Mid + 1, Len(slots) + 1)
       ELSE SubSeq(slots, Mid + 1, Len(slots))

\* r is still to be put into the old leaf after the split.
SplitLeavesRoom(slots, slot) == slot <= Mid
=============================================================================
