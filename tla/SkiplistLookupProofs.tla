------------------------- MODULE SkiplistLookupProofs -------------------------
(***************************************************************************)
(* Proofs about SkiplistLookup: the bounds of a leaf hold at every store,  *)
(* the stores of a change add up to it, and a lookup whose slots are not   *)
(* moved is right, for every number of slots, readers and changes.         *)
(***************************************************************************)
EXTENDS SkiplistLookup, SkiplistLeafProofs

-----------------------------------------------------------------------------
(* What holds of the leaf and its lock holder *)

Inserting == {"splitmax", "splitnr", "clearkey", "clearptr", "grow", "pushkey",
              "pushptr", "putkey", "putptr", "extend", "count"}
Deleting == {"pullkey", "pullptr", "lowermax", "shrink", "kill"}
Labels == {"rest", "leafmax", "leafmin", "recheck", "nr", "scan", "compare", "wait",
           "match", "fetch", "verify", "verifymax", "done", "oops"}

WriterType ==
  [slot : Nat, i : Nat, r : Slot \cup {Null}, old : Seq(Slot),
   in : SUBSET Slot, out : SUBSET Slot, moves : BOOLEAN]
ReaderType ==
  [arg : Slot \cup {Null}, last : 0..Cap, i : 0..Cap, cur : 0..Cap, read : Nat,
   found : Slot \cup {Null, Junk}, moved : BOOLEAN,
   ever : SUBSET Slot, always : SUBSET Slot]

LeafType ==
  /\ nr \in 0..Cap /\ max \in Nat
  /\ keys \in [0..Cap -> Nat] /\ ptrs \in [0..Cap -> Slot \cup {Null, Junk}]
  /\ dead \in BOOLEAN /\ split \in Seq(Slot)
  /\ wpc \in {"rest"} \cup Inserting \cup Deleting
  /\ w \in WriterType

LookupTypeOK ==
  /\ LeafType
  /\ pc \in [Readers -> Labels]
  /\ rd \in [Readers -> ReaderType]

\* Slot j holds the range s.
Holds(j, s) == keys[j] = s.key /\ ptrs[j] = s
\* The first n ranges are where they were before the change.
InPlace(n) == \A j \in 0..n - 1 : Holds(j, w.old[j + 1])

\* The ranges that an insertion leaves in this leaf.
Kept == IF Len(w.old) = Cap THEN Mid ELSE Len(w.old)

RestInv ==
  wpc = "rest" =>
    /\ dead => nr = 0
    /\ ~ dead => /\ nr \in 1..Cap
                 /\ \A j \in 0..nr - 1 : ptrs[j] \in Slot /\ keys[j] = ptrs[j].key
                 /\ \A i, j \in 0..nr - 1 : i < j => End(ptrs[i]) <= ptrs[j].key
                 /\ max = End(ptrs[nr - 1])

OldInv ==
  wpc # "rest" => ~ dead /\ Len(w.old) \in 1..Cap /\ Ordered(w.old)

InsertInv ==
  wpc \in Inserting =>
    /\ w.r \in Slot /\ w.in = {w.r} /\ w.out = {} /\ w.slot \in 0..Len(w.old)
    /\ \A j \in 1..w.slot : End(w.old[j]) <= w.r.key
    /\ \A j \in w.slot + 1..Len(w.old) : End(w.r) <= w.old[j].key
    /\ Len(w.old) = Cap => /\ w.slot < Cap
                           /\ \A j \in Mid + 1..Cap : w.old[j] \in ToSet(split)
    /\ w.moves <=> w.slot < Len(w.old)

DeleteInv ==
  wpc \in Deleting =>
    /\ w.slot \in 0..Len(w.old) - 1 /\ w.in = {} /\ w.out = {w.old[w.slot + 1]}
    /\ w.moves <=> w.slot # Len(w.old) - 1

SplitStep ==
  wpc \in {"splitmax", "splitnr"} =>
    /\ Len(w.old) = Cap /\ nr = Cap /\ InPlace(Cap)
    /\ max = End(w.old[IF wpc = "splitmax" THEN Cap ELSE Mid])

MakeRoom ==
  wpc \in {"clearkey", "clearptr", "grow"} =>
    nr = Kept /\ w.slot < Kept /\ InPlace(Kept) /\ max = End(w.old[Kept])

PushStep ==
  wpc \in {"pushkey", "pushptr"} =>
    /\ nr = Kept + 1 /\ w.slot < Kept /\ max = End(w.old[Kept])
    /\ w.i \in w.slot..Kept /\ InPlace(w.i)
    /\ \A j \in w.i + 1..Kept : Holds(j, w.old[j])
    /\ IF wpc = "pushptr" THEN w.i > w.slot /\ keys[w.i] = w.old[w.i].key
       ELSE w.i < Kept => Holds(w.i, w.old[w.i + 1])

PutStep ==
  wpc = "putptr" /\ w.slot # nr =>
    /\ nr = Kept + 1 /\ w.slot < Kept /\ max = End(w.old[Kept])
    /\ InPlace(w.slot) /\ keys[w.slot] = w.r.key
    /\ \A j \in w.slot + 1..Kept : Holds(j, w.old[j])

ExtendStep ==
  wpc \in {"extend", "putkey", "count"} \/ (wpc = "putptr" /\ w.slot = nr) =>
    /\ nr = Len(w.old) /\ w.slot = nr /\ nr < Cap /\ InPlace(nr)
    /\ max = IF wpc = "extend" THEN End(w.old[nr]) ELSE End(w.r)
    /\ wpc \in {"putptr", "count"} => keys[nr] = w.r.key
    /\ wpc = "count" => ptrs[nr] = w.r

PullStep ==
  wpc \in {"pullkey", "pullptr"} =>
    /\ nr = Len(w.old) /\ w.slot < nr - 1 /\ w.i \in w.slot..nr - 1
    /\ max = End(w.old[nr]) /\ InPlace(w.slot)
    /\ \A j \in w.slot..w.i - 1 : Holds(j, w.old[j + 2])
    /\ \A j \in w.i + 1..nr - 1 : Holds(j, w.old[j + 1])
    /\ IF wpc = "pullkey" THEN Holds(w.i, w.old[w.i + 1])
       ELSE w.i < nr - 1 => keys[w.i] = w.old[w.i + 2].key

LowerStep ==
  wpc = "lowermax" =>
    nr = Len(w.old) /\ nr > 1 /\ w.slot = nr - 1 /\ InPlace(nr) /\ max = End(w.old[nr])

ShrinkStep ==
  wpc = "shrink" =>
    /\ nr = Len(w.old)
    /\ IF w.slot = nr - 1
       THEN InPlace(nr) /\ max = End(w.old[IF nr > 1 THEN nr - 1 ELSE nr])
       ELSE /\ InPlace(w.slot) /\ max = End(w.old[nr])
            /\ \A j \in w.slot..nr - 2 : Holds(j, w.old[j + 2])

KillStep ==
  wpc = "kill" => nr = 0 /\ Len(w.old) = 1 /\ w.slot = 0 /\ InPlace(1) /\ max = End(w.old[1])

\* The leaf split off lies behind this one.
SplitBehind ==
  /\ Ordered(split)
  /\ \A s \in ToSet(split) :
       /\ keys[0] <= s.key
       /\ IF wpc = "splitmax" THEN End(w.old[Mid]) <= s.key ELSE max <= s.key
       /\ wpc = "extend" => End(w.r) <= s.key

StepInv ==
  /\ SplitStep /\ MakeRoom /\ PushStep /\ PutStep /\ ExtendStep
  /\ PullStep /\ LowerStep /\ ShrinkStep /\ KillStep

LeafInv == LeafType /\ RestInv /\ OldInv /\ InsertInv /\ DeleteInv /\ StepInv /\ SplitBehind

-----------------------------------------------------------------------------
(* What a lookup at label with the locals l knows whose slots are not moved *)

Active(label) == label \notin {"rest", "done", "oops"}
Counted(label) == label \in {"scan", "compare", "wait", "match", "fetch"}
\* Ranges that have been in this leaf all the time.
Here(l) == l.always \ ToSet(split)

SeenInv(l) ==
  /\ wpc # "rest" => ~ w.moves
  /\ ToSet(Contents) \cup Entering \cup ToSet(split) \subseteq l.ever
  /\ l.always \subseteq (ToSet(Contents) \cup ToSet(split)) \ (Entering \cup Leaving)

FirstInv(label, l) == label # "leafmax" => ptrs[0] \in l.ever /\ keys[0] = ptrs[0].key

BoundsInv(label, l) ==
  /\ label = "leafmin" => \A s \in Here(l) : End(s) <= l.read
  /\ label = "recheck" => \A s \in l.always : l.arg.key < s.key
  /\ label \in {"verify", "verifymax"} => \A s \in Here(l) : ~ Covers(s, l.arg.key)

CountedInv(label, l) ==
  Counted(label) =>
    /\ wpc \in Inserting => l.last <= w.slot
    /\ \A j \in 0..l.last - 1 : ptrs[j] \in l.ever /\ keys[j] = ptrs[j].key
    /\ \A j, k \in 0..l.last - 1 : j < k => End(ptrs[j]) <= ptrs[k].key
    /\ \A s \in Here(l) : \E j \in 0..l.last - 1 : ptrs[j] = s
    /\ l.i <= l.last /\ l.cur = (IF l.i = 0 THEN 0 ELSE l.i - 1)
    /\ \A j \in 0..l.i - 1 : keys[j] < End(l.arg)
    /\ label # "scan" => l.i = l.last \/ keys[l.i] >= End(l.arg)
    /\ label = "match" => l.found = ptrs[l.cur]

AnswerInv(label, l) ==
  label = "done" /\ ~ l.moved =>
    IF l.found = Null
    THEN \A s \in l.always : ~ Covers(s, l.arg.key)
    ELSE l.found \in l.ever

ReadInv(label, l) ==
  /\ label # "rest" => l.arg \in Slot
  /\ Active(label) /\ ~ l.moved =>
       SeenInv(l) /\ FirstInv(label, l) /\ BoundsInv(label, l) /\ CountedInv(label, l)
  /\ AnswerInv(label, l)

ReadersInv == \A r \in Readers : ReadInv(pc[r], rd[r])

-----------------------------------------------------------------------------
(* The leaf at every store *)

LEMMA SlotEnd ==
  ASSUME NEW s \in Slot
  PROVE  s.key \in Nat /\ s.size \in Nat \ {0} /\ End(s) \in Nat /\ s.key < End(s)
BY DEF Slot, End

LEMMA InitLeaf == Init => LeafInv
<1>1. SUFFICES ASSUME Init PROVE LeafInv
  OBVIOUS
<1>2. PICK s \in Fresh, k \in {0, Top}, p \in {Null, Junk} :
        /\ nr = Len(s)
        /\ max = End(s[Len(s)])
        /\ keys = [i \in 0..Cap |-> IF i < nr THEN s[i + 1].key
                                    ELSE IF i = Cap THEN Top ELSE k]
        /\ ptrs = [i \in 0..Cap |-> IF i < nr THEN s[i + 1] ELSE p]
        /\ w = [slot |-> 0, i |-> 0, r |-> Null, old |-> s, in |-> {}, out |-> {},
                moves |-> FALSE]
  BY <1>1 DEF Init
<1>8. dead = FALSE /\ split = <<>> /\ wpc = "rest"
  BY <1>1 DEF Init
<1>3. s \in Seq(Slot) /\ Len(s) \in 1..Cap /\ Ordered(s) /\ Cap \in Nat /\ Top \in Nat
  BY LookupAssumption, CapAssumption
<1>4. ASSUME NEW i \in 1..Len(s) PROVE s[i] \in Slot /\ s[i].key \in Nat /\ End(s[i]) \in Nat
  BY <1>3, SlotEnd
<1>5. LeafType
  <2>1. nr \in 0..Cap /\ max \in Nat
    BY <1>2, <1>3, <1>4
  <2>2. keys \in [0..Cap -> Nat] /\ ptrs \in [0..Cap -> Slot \cup {Null, Junk}]
    BY <1>2, <1>3, <1>4
  <2>3. w \in WriterType
    BY <1>2, <1>3 DEF WriterType
  <2> QED
    <3>1. split \in Seq(Slot)
      BY <1>8
    <3>2. dead \in BOOLEAN /\ wpc \in {"rest"} \cup Inserting \cup Deleting
      BY <1>8
    <3> QED
      BY <2>1, <2>2, <2>3, <3>1, <3>2 DEF LeafType
<1>6. RestInv
  <2>1. \A j \in 0..nr - 1 : ptrs[j] = s[j + 1] /\ keys[j] = s[j + 1].key
    BY <1>2, <1>3
  <2>2. \A i, j \in 0..nr - 1 : i < j => End(ptrs[i]) <= ptrs[j].key
    BY <2>1, <1>2, <1>3 DEF Ordered
  <2> QED
    <3>1. nr \in 1..Cap /\ ptrs[nr - 1] = s[nr]
      BY <1>2, <1>3
    <3>2. \A j \in 0..nr - 1 : ptrs[j] \in Slot
      BY <1>2, <1>3, <1>4, <2>1
    <3> QED
      BY <1>2, <1>8, <2>1, <2>2, <3>1, <3>2 DEF RestInv
<1>7. SplitBehind
  BY <1>8 DEF SplitBehind, Ordered, ToSet
<1> QED
  BY <1>8, <1>5, <1>6, <1>7 DEF LeafInv, OldInv, InsertInv, DeleteInv, StepInv, SplitStep,
    MakeRoom, PushStep, PutStep, ExtendStep, PullStep, LowerStep, ShrinkStep, KillStep,
    Inserting, Deleting

\* A leaf that nobody changes is an ordered sequence of ranges.
LEMMA StoredLeaf ==
  ASSUME LeafInv, wpc = "rest", ~ dead
  PROVE  /\ nr \in 1..Cap /\ Stored \in Seq(Slot) /\ Len(Stored) = nr /\ Ordered(Stored)
         /\ \A j \in 0..nr - 1 : ptrs[j] = Stored[j + 1] /\ keys[j] = Stored[j + 1].key
         /\ max = End(Stored[nr])
<1>1. /\ nr \in 1..Cap /\ Cap \in Nat
      /\ \A j \in 0..nr - 1 : ptrs[j] \in Slot /\ keys[j] = ptrs[j].key
      /\ \A i, j \in 0..nr - 1 : i < j => End(ptrs[i]) <= ptrs[j].key
      /\ max = End(ptrs[nr - 1])
  BY CapAssumption DEF LeafInv, RestInv
<1>2. \A j \in 1..nr : Stored[j] = ptrs[j - 1] /\ j - 1 \in 0..nr - 1
  BY <1>1 DEF Stored
<1>3. Stored \in [1..nr -> Slot]
  BY <1>1, <1>2 DEF Stored
<1>4. Stored \in Seq(Slot) /\ Len(Stored) = nr
  BY <1>1, <1>3
<1>5. Ordered(Stored)
  <2>1. SUFFICES ASSUME NEW i \in 1..nr, NEW j \in 1..nr, i < j
                 PROVE  End(Stored[i]) <= Stored[j].key
    BY <1>4 DEF Ordered
  <2>2. i - 1 \in 0..nr - 1 /\ j - 1 \in 0..nr - 1 /\ i - 1 < j - 1
    BY <1>1, <2>1
  <2> QED
    BY <1>1, <1>2, <2>2
<1>6. ASSUME NEW j \in 0..nr - 1
      PROVE  ptrs[j] = Stored[j + 1] /\ keys[j] = Stored[j + 1].key
  <2>1. j + 1 \in 1..nr /\ (j + 1) - 1 = j
    BY <1>1
  <2> QED
    BY <1>1, <1>2, <2>1
<1>7. max = End(Stored[nr])
  BY <1>1, <1>2
<1> QED
  BY <1>1, <1>4, <1>5, <1>6, <1>7

\* The place of a range that may go into the leaf.
LEMMA BeginInsertCases ==
  ASSUME LeafInv, BeginInsert
  PROVE  \E r \in Changes, slot \in 0..nr :
           /\ wpc = "rest" /\ ~ dead
           /\ \A j \in 1..slot : End(Stored[j]) <= r.key
           /\ \A j \in slot + 1..nr : End(r) <= Stored[j].key
           /\ \A s \in ToSet(split) : End(r) <= s.key
           /\ \/ /\ nr < Cap
                 /\ Begin(IF slot < nr THEN "clearkey" ELSE "extend",
                          slot, r, {r}, {}, slot < nr)
                 /\ UNCHANGED split
              \/ /\ nr = Cap /\ slot < nr /\ split = <<>>
                 /\ Begin("splitmax", slot, r, {r}, {}, TRUE)
                 /\ split' = SplitMoves(Stored, slot + 1, r)
<1>1. PICK r \in Changes :
        LET hit == LeafSlotLocked(Stored, r)
            slot == hit.slot - 1
        IN  /\ wpc = "rest" /\ ~ dead
            /\ ~ hit.found
            /\ split # <<>> => End(r) <= split[1].key
            /\ \/ /\ nr < Cap
                  /\ Begin(IF slot < nr THEN "clearkey" ELSE "extend",
                           slot, r, {r}, {}, slot < nr)
                  /\ UNCHANGED split
               \/ /\ nr = Cap /\ slot < nr /\ split = <<>>
                  /\ Begin("splitmax", slot, r, {r}, {}, TRUE)
                  /\ split' = SplitMoves(Stored, hit.slot, r)
  BY DEF BeginInsert
<1> DEFINE hit == LeafSlotLocked(Stored, r)
           slot == hit.slot - 1
<1>2. nr \in 1..Cap /\ Stored \in Seq(Slot) /\ Len(Stored) = nr /\ Ordered(Stored)
  BY <1>1, StoredLeaf
<1>3. r \in Slot /\ Cap \in Nat
  BY LookupAssumption, CapAssumption
<1>4. /\ hit.slot \in 1..nr + 1
      /\ \A i \in 1..hit.slot - 1 : End(Stored[i]) <= r.key
      /\ \A i \in hit.slot..nr : End(r) <= Stored[i].key
  <2>1. ASSUME NEW q \in Seq(Slot), Ordered(q), NEW h, h = LeafSlotLocked(q, r), ~ h.found
        PROVE  /\ h.slot \in 1..Len(q) + 1
               /\ \A i \in 1..h.slot - 1 : End(q[i]) <= r.key
               /\ \A i \in h.slot..Len(q) : End(r) <= q[i].key
    BY <1>3, <2>1, LeafSlotLockedRight
  <2>2. ~ hit.found
    BY <1>1
  <2> HIDE DEF hit
  <2> QED
    BY <2>1, <2>2, <1>2 DEF hit
<1>5. slot \in 0..nr /\ slot + 1 = hit.slot
  BY <1>2, <1>3, <1>4
<1>6. ASSUME NEW s \in ToSet(split) PROVE End(r) <= s.key
  <2>1. split \in Seq(Slot) /\ Ordered(split)
    BY DEF LeafInv, LeafType, SplitBehind
  <2>2. PICK i \in 1..Len(split) : s = split[i]
    BY <2>1 DEF ToSet
  <2>3. End(r) <= split[1].key
    BY <1>1, <2>1, <2>2
  <2>4. split[1] \in Slot /\ split[i] \in Slot /\ 1 \in 1..Len(split)
    BY <2>1, <2>2
  <2>5. i = 1 \/ End(split[1]) <= split[i].key
    BY <2>1, <2>2, <2>4 DEF Ordered
  <2> QED
    BY <1>3, <2>2, <2>3, <2>4, <2>5, SlotEnd
<1> HIDE DEF hit
<1>7. /\ \A j \in 1..slot : End(Stored[j]) <= r.key
      /\ \A j \in slot + 1..nr : End(r) <= Stored[j].key
  BY <1>4, <1>5
<1>8. \/ /\ nr < Cap
         /\ Begin(IF slot < nr THEN "clearkey" ELSE "extend",
                  slot, r, {r}, {}, slot < nr)
         /\ UNCHANGED split
      \/ /\ nr = Cap /\ slot < nr /\ split = <<>>
         /\ Begin("splitmax", slot, r, {r}, {}, TRUE)
         /\ split' = SplitMoves(Stored, slot + 1, r)
  BY <1>1, <1>5 DEF hit
<1> HIDE DEF slot
<1> QED
  BY <1>1, <1>5, <1>6, <1>7, <1>8

LEMMA BeginInsertLeaf ==
  ASSUME LeafInv, BeginInsert
  PROVE  LeafInv'
<1>1. PICK r \in Changes, slot \in 0..nr :
        /\ wpc = "rest" /\ ~ dead
        /\ \A j \in 1..slot : End(Stored[j]) <= r.key
        /\ \A j \in slot + 1..nr : End(r) <= Stored[j].key
        /\ \A s \in ToSet(split) : End(r) <= s.key
        /\ \/ /\ nr < Cap
              /\ Begin(IF slot < nr THEN "clearkey" ELSE "extend",
                       slot, r, {r}, {}, slot < nr)
              /\ UNCHANGED split
           \/ /\ nr = Cap /\ slot < nr /\ split = <<>>
              /\ Begin("splitmax", slot, r, {r}, {}, TRUE)
              /\ split' = SplitMoves(Stored, slot + 1, r)
  BY BeginInsertCases
<1>2. /\ nr \in 1..Cap /\ Stored \in Seq(Slot) /\ Len(Stored) = nr /\ Ordered(Stored)
      /\ \A j \in 0..nr - 1 : ptrs[j] = Stored[j + 1] /\ keys[j] = Stored[j + 1].key
      /\ max = End(Stored[nr])
  BY <1>1, StoredLeaf
<1>3. r \in Slot /\ Cap \in Nat
  BY LookupAssumption, CapAssumption
<1>4. /\ nr \in 0..Cap /\ max \in Nat
      /\ keys \in [0..Cap -> Nat] /\ ptrs \in [0..Cap -> Slot \cup {Null, Junk}]
      /\ split \in Seq(Slot) /\ Ordered(split)
      /\ \A s \in ToSet(split) : keys[0] <= s.key /\ max <= s.key
  BY <1>1 DEF LeafInv, LeafType, SplitBehind
<1>5. /\ nr' = nr /\ max' = max /\ keys' = keys /\ ptrs' = ptrs /\ dead' = FALSE
      /\ w'.slot = slot /\ w'.r = r /\ w'.old = Stored /\ w'.in = {r} /\ w'.out = {}
      /\ w' \in WriterType
  <2>1. /\ nr' = nr /\ max' = max /\ keys' = keys /\ ptrs' = ptrs /\ dead' = FALSE
    BY <1>1 DEF Begin, LeafInv, LeafType
  <2>2. PICK moves \in BOOLEAN :
          w' = [slot |-> slot, i |-> slot, r |-> r, old |-> Stored, in |-> {r},
                out |-> {}, moves |-> moves]
    <3>1. CASE Begin("splitmax", slot, r, {r}, {}, TRUE)
      BY <3>1 DEF Begin
    <3>2. CASE Begin(IF slot < nr THEN "clearkey" ELSE "extend", slot, r, {r}, {}, slot < nr)
      <4>1. w' = [slot |-> slot, i |-> slot, r |-> r, old |-> Stored, in |-> {r},
                  out |-> {}, moves |-> slot < nr]
        BY <3>2 DEF Begin
      <4>2. (slot < nr) \in BOOLEAN
        OBVIOUS
      <4> QED
        BY <4>1, <4>2
    <3> QED
      BY <1>1, <3>1, <3>2
  <2>3. w' \in WriterType
    BY <2>2, <1>2, <1>3 DEF WriterType
  <2> QED
    BY <2>1, <2>2, <2>3
<1>6. (\A j \in 0..nr - 1 : Holds(j, w.old[j + 1]))'
  BY <1>2, <1>5 DEF Holds
<1>7. CASE /\ nr < Cap
           /\ Begin(IF slot < nr THEN "clearkey" ELSE "extend", slot, r, {r}, {}, slot < nr)
           /\ UNCHANGED split
  <2>1. /\ wpc' = IF slot < nr THEN "clearkey" ELSE "extend"
        /\ w'.moves = (slot < nr) /\ split' = split
    BY <1>7 DEF Begin
  <2>2. LeafType'
    BY <1>4, <1>5, <2>1 DEF LeafType, Inserting
  <2>3. RestInv' /\ OldInv' /\ DeleteInv'
    BY <1>2, <1>5, <2>1 DEF RestInv, OldInv, DeleteInv, Deleting
  <2>4. InsertInv'
    <3>1. w'.moves <=> slot < nr
      BY <2>1
    <3> QED
      BY <1>1, <1>2, <1>3, <1>5, <1>7, <3>1 DEF InsertInv
  <2>5. SplitBehind'
    BY <1>1, <1>4, <1>5, <2>1 DEF SplitBehind
  <2>6. MakeRoom' /\ ExtendStep'
    BY <1>2, <1>3, <1>5, <1>6, <1>7, <2>1 DEF MakeRoom, ExtendStep, Kept, InPlace
  <2>7. StepInv'
    BY <2>1, <2>6 DEF StepInv, SplitStep, PushStep, PutStep, PullStep, LowerStep,
      ShrinkStep, KillStep
  <2> QED
    BY <2>2, <2>3, <2>4, <2>5, <2>7 DEF LeafInv
<1>8. CASE /\ nr = Cap /\ slot < nr
           /\ Begin("splitmax", slot, r, {r}, {}, TRUE)
           /\ split' = SplitMoves(Stored, slot + 1, r)
  <2>1. wpc' = "splitmax" /\ slot < nr /\ w'.moves = TRUE
    BY <1>8 DEF Begin
  <2>2. split' = SplitMoves(Stored, slot + 1, r)
    BY <1>8
  <2>3. /\ split' \in Seq(Slot) /\ Ordered(split')
        /\ \A i \in Mid + 1..Cap : Stored[i] \in ToSet(split')
        /\ \A s \in ToSet(split') : End(Stored[Mid]) <= s.key
    <3>1. ASSUME NEW q \in Seq(Slot), Len(q) = Cap, Ordered(q), NEW k \in 1..Cap,
                 \A i \in 1..k - 1 : End(q[i]) <= r.key,
                 \A i \in k..Cap : End(r) <= q[i].key,
                 NEW m, m = SplitMoves(q, k, r)
          PROVE  /\ m \in Seq(Slot) /\ Ordered(m)
                 /\ \A i \in Mid + 1..Cap : q[i] \in ToSet(m)
                 /\ \A s \in ToSet(m) : End(q[Mid]) <= s.key
      BY <1>3, <3>1, SplitMovesIs
    <3>2. slot + 1 \in 1..Cap /\ (slot + 1) - 1 = slot
      BY <1>3, <1>8, <2>1
    <3> QED
      BY <1>1, <1>2, <1>8, <2>2, <3>1, <3>2
  <2>4. LeafType'
    BY <1>4, <1>5, <2>1, <2>3 DEF LeafType, Inserting
  <2>5. RestInv' /\ OldInv' /\ DeleteInv'
    BY <1>2, <1>5, <2>1 DEF RestInv, OldInv, DeleteInv, Deleting
  <2>6. InsertInv'
    BY <1>1, <1>2, <1>3, <1>5, <1>8, <2>1, <2>3 DEF InsertInv
  <2>7. SplitBehind'
    <3>1. \A s \in ToSet(split') : keys[0] <= s.key
      <4>1. Mid \in 1..Cap /\ 1 \in 1..Cap
        BY MidType, CapAssumption
      <4>2. Stored[1] \in Slot /\ Stored[Mid] \in Slot /\ keys[0] = Stored[1].key
        BY <1>2, <1>8, <4>1
      <4>3. Mid = 1 \/ End(Stored[1]) <= Stored[Mid].key
        BY <1>2, <1>8, <4>1 DEF Ordered
      <4>4. keys[0] < End(Stored[Mid])
        BY <4>2, <4>3, SlotEnd
      <4>5. \A s \in ToSet(split') : s \in Slot
        BY <2>3 DEF ToSet
      <4> QED
        BY <2>3, <4>2, <4>4, <4>5, SlotEnd
    <3> QED
      BY <1>5, <2>1, <2>3, <3>1 DEF SplitBehind
  <2>8. SplitStep'
    BY <1>2, <1>5, <1>6, <1>8, <2>1 DEF SplitStep, InPlace
  <2>9. StepInv'
    BY <2>1, <2>8 DEF StepInv, MakeRoom, PushStep, PutStep, ExtendStep, PullStep, LowerStep,
      ShrinkStep, KillStep
  <2> QED
    BY <2>4, <2>5, <2>6, <2>7, <2>9 DEF LeafInv
<1> QED
  BY <1>1, <1>7, <1>8

LEMMA BeginDeleteLeaf ==
  ASSUME LeafInv, BeginDelete
  PROVE  LeafInv'
<1>1. PICK i \in 0..nr - 1 :
        /\ wpc = "rest" /\ ~ dead /\ ptrs[i] \in Changes
        /\ Begin(IF i # nr - 1 THEN "pullkey" ELSE IF nr > 1 THEN "lowermax" ELSE "shrink",
                 i, ptrs[i], {}, {ptrs[i]}, i # nr - 1)
        /\ UNCHANGED split
  BY DEF BeginDelete
<1>2. /\ nr \in 1..Cap /\ Stored \in Seq(Slot) /\ Len(Stored) = nr /\ Ordered(Stored)
      /\ \A j \in 0..nr - 1 : ptrs[j] = Stored[j + 1] /\ keys[j] = Stored[j + 1].key
      /\ max = End(Stored[nr])
  BY <1>1, StoredLeaf
<1>3. ptrs[i] \in Slot /\ ptrs[i] = Stored[i + 1] /\ Cap \in Nat
  BY <1>1, <1>2, LookupAssumption, CapAssumption
<1>4. /\ nr \in 0..Cap /\ max \in Nat
      /\ keys \in [0..Cap -> Nat] /\ ptrs \in [0..Cap -> Slot \cup {Null, Junk}]
      /\ split \in Seq(Slot) /\ Ordered(split)
      /\ \A s \in ToSet(split) : keys[0] <= s.key /\ max <= s.key
  BY <1>1 DEF LeafInv, LeafType, SplitBehind
<1>5. /\ nr' = nr /\ max' = max /\ keys' = keys /\ ptrs' = ptrs /\ dead' = FALSE
      /\ split' = split
      /\ wpc' = IF i # nr - 1 THEN "pullkey" ELSE IF nr > 1 THEN "lowermax" ELSE "shrink"
      /\ w' = [slot |-> i, i |-> i, r |-> ptrs[i], old |-> Stored, in |-> {},
               out |-> {ptrs[i]}, moves |-> i # nr - 1]
  <2>1. dead' = dead /\ dead = FALSE
    BY <1>1 DEF Begin, LeafInv, LeafType
  <2> QED
    BY <1>1, <2>1 DEF Begin
<1>6. (\A j \in 0..nr - 1 : Holds(j, w.old[j + 1]))'
  BY <1>2, <1>5 DEF Holds
<1>7. LeafType'
  <2>1. (i # nr - 1) \in BOOLEAN /\ i \in Nat
    BY <1>2
  <2>2. w' \in WriterType
    BY <1>2, <1>3, <1>5, <2>1 DEF WriterType
  <2> QED
    BY <1>4, <1>5, <2>2 DEF LeafType, Deleting
<1>8. RestInv' /\ OldInv' /\ InsertInv'
  BY <1>2, <1>5 DEF RestInv, OldInv, InsertInv, Inserting
<1>9. DeleteInv'
  <2>1. w'.moves <=> i # nr - 1
    BY <1>5
  <2>2. w'.slot = i /\ w'.in = {} /\ w'.out = {Stored[i + 1]} /\ w'.old = Stored
    BY <1>3, <1>5
  <2> QED
    BY <1>2, <2>1, <2>2 DEF DeleteInv
<1>10. StepInv'
  <2>1. w'.slot = i /\ w'.i = i /\ w'.old = Stored
    BY <1>5
  <2>2. PullStep' /\ LowerStep' /\ ShrinkStep'
    BY <1>2, <1>3, <1>5, <1>6, <2>1 DEF PullStep, LowerStep, ShrinkStep, InPlace
  <2> QED
    BY <1>5, <2>2 DEF StepInv, SplitStep, MakeRoom, PushStep, PutStep, ExtendStep, KillStep
<1>11. SplitBehind'
  BY <1>4, <1>5 DEF SplitBehind
<1> QED
  BY <1>7, <1>8, <1>9, <1>10, <1>11 DEF LeafInv

LEMMA SplitLeaf ==
  ASSUME LeafInv, SplitMax \/ SplitNr
  PROVE  LeafInv'
<1>1. /\ Cap \in Nat /\ Mid \in 1..Cap - 1 /\ nr \in 0..Cap
      /\ Len(w.old) = Cap /\ nr = Cap /\ ~ dead
      /\ \A j \in 0..Cap - 1 : Holds(j, w.old[j + 1])
      /\ \A j \in 1..Cap : w.old[j] \in Slot
  <2>1. wpc \in {"splitmax", "splitnr"}
    BY DEF SplitMax, SplitNr
  <2>2. w.old \in Seq(Slot) /\ nr \in 0..Cap
    BY DEF LeafInv, LeafType, WriterType
  <2> QED
    BY <2>1, <2>2, MidType, CapAssumption DEF LeafInv, OldInv, StepInv, SplitStep, InPlace
<1>2. CASE SplitMax
  <2>1. wpc = "splitmax" /\ max' = End(w.old[Mid])
    BY <1>1, <1>2 DEF SplitMax, StoreMax, Holds
  <2>2. /\ wpc' = "splitnr" /\ UNCHANGED <<nr, keys, ptrs, dead, split, w>>
    BY <1>2 DEF SplitMax, StoreMax, Then
  <2>3. End(w.old[Mid]) \in Nat
    BY <1>1, SlotEnd
  <2>4. LeafType'
    BY <2>1, <2>2, <2>3 DEF LeafInv, LeafType, Inserting
  <2>5. RestInv' /\ OldInv' /\ InsertInv' /\ DeleteInv'
    BY <2>1, <2>2 DEF LeafInv, RestInv, OldInv, InsertInv, DeleteInv, Inserting, Deleting
  <2>6. StepInv'
    BY <1>1, <2>1, <2>2 DEF StepInv, SplitStep, InPlace, Holds, MakeRoom, PushStep, PutStep,
      ExtendStep, PullStep, LowerStep, ShrinkStep, KillStep
  <2>7. SplitBehind'
    BY <1>1, <2>1, <2>2 DEF LeafInv, SplitBehind
  <2> QED
    BY <2>4, <2>5, <2>6, <2>7 DEF LeafInv
<1>3. CASE SplitNr
  <2>1. /\ wpc = "splitnr" /\ nr' = Mid /\ UNCHANGED <<max, keys, ptrs, dead, split, w>>
        /\ wpc' = IF w.slot + 1 <= Mid THEN "clearkey" ELSE "rest"
    BY <1>3 DEF SplitNr, StoreNr, Then, SplitLeavesRoom
  <2>2. max = End(w.old[Mid])
    BY <2>1 DEF LeafInv, StepInv, SplitStep
  <2>3. LeafType'
    BY <1>1, <2>1 DEF LeafInv, LeafType, Inserting
  <2>4. OldInv' /\ InsertInv' /\ DeleteInv'
    BY <2>1 DEF LeafInv, OldInv, InsertInv, DeleteInv, Inserting, Deleting
  <2>5. RestInv'
    <3>1. \A j \in 0..Mid - 1 : ptrs[j] = w.old[j + 1] /\ keys[j] = w.old[j + 1].key
      BY <1>1 DEF Holds
    <3>2. \A j \in 0..Mid - 1 : ptrs[j] \in Slot /\ keys[j] = ptrs[j].key
      BY <1>1, <3>1
    <3>3. \A i, j \in 0..Mid - 1 : i < j => End(ptrs[i]) <= ptrs[j].key
      <4>1. \A i, j \in 1..Len(w.old) : i < j => End(w.old[i]) <= w.old[j].key
        BY <2>1 DEF LeafInv, OldInv, Ordered
      <4>2. ASSUME NEW i \in 0..Mid - 1, NEW j \in 0..Mid - 1, i < j
            PROVE  End(ptrs[i]) <= ptrs[j].key
        <5>1. i + 1 \in 1..Len(w.old) /\ j + 1 \in 1..Len(w.old) /\ i + 1 < j + 1
          BY <1>1, <4>2
        <5>2. End(w.old[i + 1]) <= w.old[j + 1].key
          BY <4>1, <5>1
        <5> QED
          BY <3>1, <5>2
      <4> QED
        BY <4>2
    <3>4. max = End(ptrs[Mid - 1])
      BY <1>1, <2>2, <3>1
    <3>5. nr' \in 1..Cap /\ nr' = Mid /\ ptrs' = ptrs /\ keys' = keys /\ max' = max /\ ~ dead'
      BY <1>1, <2>1
    <3> QED
      BY <3>2, <3>3, <3>4, <3>5 DEF RestInv
  <2>6. StepInv'
    <3>1. w.slot \in Nat
      BY DEF LeafInv, LeafType, WriterType
    <3>2. MakeRoom'
      BY <1>1, <2>1, <2>2, <3>1 DEF MakeRoom, Kept, InPlace, Holds
    <3> QED
      BY <2>1, <3>2 DEF StepInv, SplitStep, PushStep, PutStep,
        ExtendStep, PullStep, LowerStep, ShrinkStep, KillStep
  <2>7. SplitBehind'
    BY <2>1, <2>2 DEF LeafInv, SplitBehind
  <2> QED
    BY <2>3, <2>4, <2>5, <2>6, <2>7 DEF LeafInv
<1> QED
  BY <1>2, <1>3

\* The lock holder goes on to another slot.
LEMMA WriterAt ==
  ASSUME w \in WriterType, NEW k \in Nat, w' = [w EXCEPT !.i = k]
  PROVE  /\ w' \in WriterType /\ w'.i = k
         /\ w'.slot = w.slot /\ w'.old = w.old /\ w'.r = w.r /\ w'.in = w.in /\ w'.out = w.out
         /\ w'.moves = w.moves
BY DEF WriterType

\* Something sane goes into the slot behind the last one; nothing else is read.
LEMMA ClearLeaf ==
  ASSUME LeafInv, ClearKey \/ ClearPtr \/ Grow
  PROVE  LeafInv'
<1>1. /\ Cap \in Nat /\ Kept \in 1..Cap - 1 /\ nr = Kept /\ w.slot \in 0..Kept - 1
      /\ \A j \in 0..Kept - 1 : Holds(j, w.old[j + 1])
      /\ max = End(w.old[Kept]) /\ ~ dead
  <2>1. wpc \in {"clearkey", "clearptr", "grow"}
    BY DEF ClearKey, ClearPtr, Grow
  <2>2. nr = Kept /\ w.slot < Kept /\ InPlace(Kept) /\ max = End(w.old[Kept])
    BY <2>1 DEF LeafInv, StepInv, MakeRoom
  <2>3. Len(w.old) \in 1..Cap /\ ~ dead
    BY <2>1 DEF LeafInv, OldInv
  <2>4. w.slot \in Nat
    BY DEF LeafInv, LeafType, WriterType
  <2> QED
    BY <2>2, <2>3, <2>4, MidType, CapAssumption DEF Kept, InPlace
<1>2. /\ nr \in 0..Cap /\ max \in Nat
      /\ keys \in [0..Cap -> Nat] /\ ptrs \in [0..Cap -> Slot \cup {Null, Junk}]
      /\ w \in WriterType
  BY DEF LeafInv, LeafType
<1>3. CASE ClearKey
  <2>1. /\ wpc = "clearkey" /\ wpc' = "clearptr" /\ keys' = [keys EXCEPT ![nr] = 0]
        /\ UNCHANGED <<nr, max, ptrs, dead, split, w>>
    BY <1>3 DEF ClearKey, StoreKey, Then
  <2>2. LeafType'
    BY <1>2, <2>1 DEF LeafInv, LeafType, Inserting
  <2>3. RestInv' /\ OldInv' /\ InsertInv' /\ DeleteInv'
    BY <2>1 DEF LeafInv, RestInv, OldInv, InsertInv, DeleteInv, Inserting, Deleting
  <2>4. MakeRoom'
    BY <1>1, <1>2, <2>1 DEF MakeRoom, Kept, InPlace, Holds
  <2>5. StepInv'
    BY <2>1, <2>4 DEF StepInv, SplitStep, PushStep, PutStep,
      ExtendStep, PullStep, LowerStep, ShrinkStep, KillStep
  <2>6. SplitBehind'
    BY <1>1, <1>2, <2>1 DEF LeafInv, SplitBehind
  <2> QED
    BY <2>2, <2>3, <2>5, <2>6 DEF LeafInv
<1>4. CASE ClearPtr
  <2>1. /\ wpc = "clearptr" /\ wpc' = "grow" /\ ptrs' = [ptrs EXCEPT ![nr] = Null]
        /\ UNCHANGED <<nr, max, keys, dead, split, w>>
    BY <1>4 DEF ClearPtr, StorePtr, Then
  <2>2. LeafType'
    BY <1>2, <2>1 DEF LeafInv, LeafType, Inserting
  <2>3. RestInv' /\ OldInv' /\ InsertInv' /\ DeleteInv'
    BY <2>1 DEF LeafInv, RestInv, OldInv, InsertInv, DeleteInv, Inserting, Deleting
  <2>4. MakeRoom'
    BY <1>1, <1>2, <2>1 DEF MakeRoom, Kept, InPlace, Holds
  <2>5. StepInv'
    BY <2>1, <2>4 DEF StepInv, SplitStep, PushStep, PutStep,
      ExtendStep, PullStep, LowerStep, ShrinkStep, KillStep
  <2>6. SplitBehind'
    BY <2>1 DEF LeafInv, SplitBehind
  <2> QED
    BY <2>2, <2>3, <2>5, <2>6 DEF LeafInv
<1>5. CASE Grow
  <2>1. /\ wpc = "grow" /\ wpc' = "pushkey" /\ nr' = nr + 1 /\ w' = [w EXCEPT !.i = nr]
        /\ UNCHANGED <<max, keys, ptrs, dead, split>>
    BY <1>5 DEF Grow, StoreNr, Then
  <2>2. /\ w' \in WriterType /\ w'.i = nr
        /\ w'.slot = w.slot /\ w'.old = w.old /\ w'.r = w.r /\ w'.in = w.in /\ w'.out = w.out
        /\ w'.moves = w.moves
    BY <1>2, <2>1, WriterAt
  <2>3. LeafType'
    BY <1>1, <1>2, <2>1, <2>2 DEF LeafInv, LeafType, Inserting
  <2>4. RestInv' /\ OldInv' /\ InsertInv' /\ DeleteInv'
    BY <2>1, <2>2 DEF LeafInv, RestInv, OldInv, InsertInv, DeleteInv, Inserting, Deleting
  <2>5. PushStep'
    <3>1. Kept' = Kept /\ w'.slot = w.slot /\ w'.i = Kept /\ w'.old = w.old
      BY <1>1, <2>1, <2>2 DEF Kept
    <3>2. nr' = Kept + 1 /\ max' = End(w.old[Kept]) /\ Kept \in w.slot..Kept
      BY <1>1, <1>2, <2>1
    <3>3. InPlace(Kept)
      BY <1>1 DEF InPlace
    <3>4. InPlace(w.i)'
      BY <2>1, <3>1, <3>3 DEF InPlace, Holds
    <3>5. \A j \in Kept + 1..Kept : FALSE
      BY <1>1
    <3> QED
      BY <1>1, <2>1, <3>1, <3>2, <3>4, <3>5 DEF PushStep
  <2>6. StepInv'
    BY <2>1, <2>5 DEF StepInv, SplitStep, MakeRoom, PutStep,
      ExtendStep, PullStep, LowerStep, ShrinkStep, KillStep
  <2>7. SplitBehind'
    BY <2>1 DEF LeafInv, SplitBehind
  <2> QED
    BY <2>3, <2>4, <2>6, <2>7 DEF LeafInv
<1> QED
  BY <1>3, <1>4, <1>5

\* Every range behind the place goes one slot up.
LEMMA PushLeaf ==
  ASSUME LeafInv, PushKey \/ PushPtr
  PROVE  LeafInv'
<1>1. /\ Cap \in Nat /\ Kept \in 1..Cap - 1 /\ nr = Kept + 1 /\ w.slot \in 0..Kept - 1
      /\ w.i \in w.slot + 1..Kept
      /\ \A j \in 0..w.i - 1 : Holds(j, w.old[j + 1])
      /\ \A j \in w.i + 1..Kept : Holds(j, w.old[j])
      /\ max = End(w.old[Kept]) /\ ~ dead
      /\ wpc = "pushptr" => keys[w.i] = w.old[w.i].key
  <2>1. wpc \in {"pushkey", "pushptr"} /\ (wpc = "pushkey" => w.i # w.slot)
    BY DEF PushKey, PushPtr, PushDone
  <2>2. /\ nr = Kept + 1 /\ w.slot < Kept /\ max = End(w.old[Kept])
        /\ w.i \in w.slot..Kept /\ InPlace(w.i)
        /\ \A j \in w.i + 1..Kept : Holds(j, w.old[j])
        /\ wpc = "pushptr" => w.i > w.slot /\ keys[w.i] = w.old[w.i].key
    BY <2>1 DEF LeafInv, StepInv, PushStep
  <2>3. Len(w.old) \in 1..Cap /\ ~ dead
    BY <2>1 DEF LeafInv, OldInv
  <2>4. w.slot \in Nat /\ nr \in 0..Cap
    BY DEF LeafInv, LeafType, WriterType
  <2> QED
    BY <2>1, <2>2, <2>3, <2>4, MidType, CapAssumption DEF Kept, InPlace
<1>2. /\ nr \in 0..Cap /\ max \in Nat
      /\ keys \in [0..Cap -> Nat] /\ ptrs \in [0..Cap -> Slot \cup {Null, Junk}]
      /\ w \in WriterType
  BY DEF LeafInv, LeafType
<1>3. /\ w.i \in 1..Cap - 1 /\ w.i - 1 \in 0..Cap /\ w.i - 1 \in 0..w.i - 1 /\ w.i \in 0..Cap
      /\ keys[w.i - 1] = w.old[w.i].key /\ ptrs[w.i - 1] = w.old[w.i]
  BY <1>1 DEF Holds
<1>4. CASE PushKey
  <2>1. /\ wpc = "pushkey" /\ wpc' = "pushptr" /\ keys' = [keys EXCEPT ![w.i] = keys[w.i - 1]]
        /\ UNCHANGED <<nr, max, ptrs, dead, split, w>>
    BY <1>4 DEF PushKey, StoreKey, Then
  <2>2. LeafType'
    BY <1>2, <1>3, <2>1 DEF LeafInv, LeafType, Inserting
  <2>3. RestInv' /\ OldInv' /\ InsertInv' /\ DeleteInv'
    BY <2>1 DEF LeafInv, RestInv, OldInv, InsertInv, DeleteInv, Inserting, Deleting
  <2>4. PushStep'
    <3>1. /\ keys'[w.i] = w.old[w.i].key
          /\ \A j \in 0..Cap : j # w.i => keys'[j] = keys[j]
      BY <1>2, <1>3, <2>1
    <3>2. /\ \A j \in 0..w.i - 1 : keys'[j] = w.old[j + 1].key /\ ptrs'[j] = w.old[j + 1]
          /\ \A j \in w.i + 1..Kept : keys'[j] = w.old[j].key /\ ptrs'[j] = w.old[j]
      BY <1>1, <2>1, <3>1 DEF Holds
    <3>3. w.i \in w.slot..Kept /\ w.i > w.slot /\ w.slot < Kept
      BY <1>1
    <3>4. Kept' = Kept /\ w' = w /\ nr' = nr /\ max' = max /\ wpc' = "pushptr"
      BY <2>1 DEF Kept
    <3>5. InPlace(w.i)' /\ (\A j \in w.i + 1..Kept : Holds(j, w.old[j]))'
      BY <3>2, <3>4 DEF InPlace, Holds
    <3> QED
      BY <1>1, <3>1, <3>3, <3>4, <3>5 DEF PushStep
  <2>5. StepInv'
    BY <2>1, <2>4 DEF StepInv, SplitStep, MakeRoom, PutStep,
      ExtendStep, PullStep, LowerStep, ShrinkStep, KillStep
  <2>6. SplitBehind'
    BY <1>1, <1>2, <2>1 DEF LeafInv, SplitBehind
  <2> QED
    BY <2>2, <2>3, <2>5, <2>6 DEF LeafInv
<1>5. CASE PushPtr
  <2>1. /\ wpc = "pushptr" /\ wpc' = "pushkey" /\ ptrs' = [ptrs EXCEPT ![w.i] = ptrs[w.i - 1]]
        /\ w' = [w EXCEPT !.i = w.i - 1]
        /\ UNCHANGED <<nr, max, keys, dead, split>>
    BY <1>5 DEF PushPtr, StorePtr, Then
  <2>2. /\ w' \in WriterType /\ w'.i = w.i - 1
        /\ w'.slot = w.slot /\ w'.old = w.old /\ w'.r = w.r /\ w'.in = w.in /\ w'.out = w.out
        /\ w'.moves = w.moves
    <3>1. w.i - 1 \in Nat
      BY <1>3
    <3> QED
      BY <1>2, <2>1, <3>1, WriterAt
  <2>3. LeafType'
    BY <1>2, <1>3, <2>1, <2>2 DEF LeafInv, LeafType, Inserting
  <2>4. RestInv' /\ OldInv' /\ InsertInv' /\ DeleteInv'
    BY <2>1, <2>2 DEF LeafInv, RestInv, OldInv, InsertInv, DeleteInv, Inserting, Deleting
  <2>5. PushStep'
    <3>1. /\ ptrs'[w.i] = w.old[w.i] /\ keys[w.i] = w.old[w.i].key
          /\ \A j \in 0..Cap : j # w.i => ptrs'[j] = ptrs[j]
      BY <1>1, <1>2, <1>3, <2>1
    <3>2. \A j \in 0..w.i - 2 : keys'[j] = w.old[j + 1].key /\ ptrs'[j] = w.old[j + 1]
      BY <1>1, <2>1, <3>1 DEF Holds
    <3>3. \A j \in w.i..Kept : keys'[j] = w.old[j].key /\ ptrs'[j] = w.old[j]
      BY <1>1, <2>1, <3>1 DEF Holds
    <3>4. w'.i \in w.slot..Kept /\ w'.i - 1 = w.i - 2 /\ w'.i + 1 = w.i /\ w.slot < Kept
      BY <1>1, <2>2
    <3>5. keys'[w.i - 1] = w.old[w.i].key /\ ptrs'[w.i - 1] = w.old[w.i]
      BY <1>3, <2>1, <3>1
    <3>6. /\ nr' = Kept' + 1 /\ w'.slot < Kept' /\ max' = End(w'.old[Kept']) /\ Kept' = Kept
      BY <1>1, <2>1, <2>2 DEF Kept
    <3> QED
      BY <2>1, <2>2, <3>2, <3>3, <3>4, <3>5, <3>6 DEF PushStep, InPlace, Holds
  <2>6. StepInv'
    BY <2>1, <2>5 DEF StepInv, SplitStep, MakeRoom, PutStep,
      ExtendStep, PullStep, LowerStep, ShrinkStep, KillStep
  <2>7. SplitBehind'
    BY <2>1 DEF LeafInv, SplitBehind
  <2> QED
    BY <2>3, <2>4, <2>6, <2>7 DEF LeafInv
<1> QED
  BY <1>4, <1>5

\* The lock is released with the arrays holding an ordered sequence.
LEMMA AtRest ==
  ASSUME NEW t \in Seq(Slot), Ordered(t), Len(t) \in 1..Cap, nr' = Len(t), ~ dead',
         \A j \in 0..Len(t) - 1 : keys'[j] = t[j + 1].key /\ ptrs'[j] = t[j + 1],
         max' = End(t[Len(t)])
  PROVE  RestInv' /\ Stored' = t
<1> DEFINE n == Len(t)
<1>1. n \in 1..Cap /\ Cap \in Nat /\ nr' = n
  BY CapAssumption
<1>2. \A j \in 0..n - 1 : j + 1 \in 1..n /\ t[j + 1] \in Slot
  BY <1>1
<1>3. \A j \in 0..n - 1 : ptrs'[j] = t[j + 1] /\ keys'[j] = t[j + 1].key
  OBVIOUS
<1>4. max' = End(t[n])
  OBVIOUS
<1>5. Stored' = t
  <2>1. t = [j \in 1..n |-> t[j]]
    OBVIOUS
  <2>2. \A j \in 1..n : j - 1 \in 0..n - 1 /\ (j - 1) + 1 = j
    BY <1>1
  <2>3. Stored' = [j \in 1..n |-> ptrs'[j - 1]]
    BY <1>1 DEF Stored
  <2> QED
    BY <1>3, <2>1, <2>2, <2>3
<1>6. \A i, j \in 0..n - 1 : i < j => End(t[i + 1]) <= t[j + 1].key
  <2> HIDE DEF n
  <2>1. ASSUME NEW i \in 0..n - 1, NEW j \in 0..n - 1, i < j
        PROVE  End(t[i + 1]) <= t[j + 1].key
    <3>1. i + 1 \in 1..n /\ j + 1 \in 1..n /\ i + 1 < j + 1
      BY <1>1, <2>1
    <3> QED
      BY <3>1 DEF Ordered, n
  <2> QED
    BY <2>1
<1>7. max' = End(ptrs'[n - 1]) /\ n - 1 \in 0..n - 1
  BY <1>1, <1>3, <1>4
<1> HIDE DEF n
<1>8. RestInv'
  <2>1. \A j \in 0..n - 1 : ptrs'[j] \in Slot /\ keys'[j] = ptrs'[j].key
    BY <1>2, <1>3
  <2>2. \A i, j \in 0..n - 1 : i < j => End(ptrs'[i]) <= ptrs'[j].key
    BY <1>3, <1>6
  <2> QED
    BY <1>1, <1>7, <2>1, <2>2 DEF RestInv
<1> QED
  BY <1>5, <1>8

\* The leaf with the range inserted, and with the range deleted.
Lower == SubSeq(w.old, 1, Kept)
Inserted == InsertAt(Lower, w.slot + 1, w.r)
Deleted == RemoveAt(w.old, w.slot + 1)

LEMMA InsertedIs ==
  ASSUME LeafInv, wpc \in Inserting, w.slot <= Kept
  PROVE  /\ Inserted \in Seq(Slot) /\ Ordered(Inserted)
         /\ Kept \in 1..Cap /\ Kept <= Len(w.old) /\ Len(Inserted) = Kept + 1
         /\ \A j \in 1..w.slot : Inserted[j] = w.old[j]
         /\ Inserted[w.slot + 1] = w.r
         /\ \A j \in w.slot + 2..Kept + 1 : Inserted[j] = w.old[j - 1]
<1>1. /\ w.old \in Seq(Slot) /\ Len(w.old) \in 1..Cap /\ Ordered(w.old)
      /\ w.r \in Slot /\ w.slot \in 0..Len(w.old)
      /\ \A j \in 1..w.slot : End(w.old[j]) <= w.r.key
      /\ \A j \in w.slot + 1..Len(w.old) : End(w.r) <= w.old[j].key
  BY DEF LeafInv, LeafType, WriterType, OldInv, InsertInv, Inserting
<1>2. Kept \in 1..Len(w.old) /\ Len(w.old) \in 1..Cap /\ Cap \in Nat
  BY <1>1, MidType, CapAssumption DEF Kept
<1>3. /\ Lower \in Seq(Slot) /\ Len(Lower) = Kept /\ Ordered(Lower)
      /\ \A j \in 1..Kept : Lower[j] = w.old[j]
  BY <1>1, <1>2, LowerIs DEF Lower
<1>4. w.slot + 1 \in 1..Kept + 1 /\ (w.slot + 1) - 1 = w.slot /\ (w.slot + 1) + 1 = w.slot + 2
  BY <1>1, <1>2
<1>5. /\ \A j \in 1..(w.slot + 1) - 1 : End(Lower[j]) <= w.r.key
      /\ \A j \in w.slot + 1..Len(Lower) : End(w.r) <= Lower[j].key
  <2>1. /\ \A j \in 1..(w.slot + 1) - 1 : j \in 1..w.slot /\ j \in 1..Kept
        /\ \A j \in w.slot + 1..Len(Lower) : j \in w.slot + 1..Len(w.old) /\ j \in 1..Kept
    BY <1>1, <1>2, <1>3
  <2> QED
    BY <1>1, <1>3, <2>1
<1>6. Ordered(Inserted)
  <2>1. w.slot + 1 \in 1..Len(Lower) + 1 /\ w.r \in Slot
    BY <1>1, <1>3, <1>4
  <2> QED
    BY <1>3, <1>5, <2>1, InsertKeepsOrder DEF Inserted
<1>7. /\ InsertAt(Lower, w.slot + 1, w.r) \in Seq(Slot)
      /\ Len(InsertAt(Lower, w.slot + 1, w.r)) = Len(Lower) + 1
      /\ \A j \in 1..(w.slot + 1) - 1 : InsertAt(Lower, w.slot + 1, w.r)[j] = Lower[j]
      /\ InsertAt(Lower, w.slot + 1, w.r)[w.slot + 1] = w.r
      /\ \A j \in (w.slot + 1) + 1..Len(Lower) + 1 :
            InsertAt(Lower, w.slot + 1, w.r)[j] = Lower[j - 1]
  <2>1. w.slot + 1 \in 1..Len(Lower) + 1 /\ w.r \in Slot /\ Lower \in Seq(Slot)
    BY <1>1, <1>3, <1>4
  <2> QED
    BY <2>1, InsertAtIs
<1>8. /\ Inserted \in Seq(Slot) /\ Len(Inserted) = Kept + 1
      /\ \A j \in 1..w.slot : Inserted[j] = Lower[j]
      /\ Inserted[w.slot + 1] = w.r
      /\ \A j \in w.slot + 2..Kept + 1 : Inserted[j] = Lower[j - 1]
  BY <1>7, <1>3, <1>4 DEF Inserted
<1> QED
  BY <1>1, <1>2, <1>3, <1>4, <1>6, <1>8

LEMMA DeletedIs ==
  ASSUME LeafInv, wpc \in Deleting
  PROVE  /\ Deleted \in Seq(Slot) /\ Ordered(Deleted)
         /\ Len(Deleted) = Len(w.old) - 1
         /\ \A j \in 1..w.slot : Deleted[j] = w.old[j]
         /\ \A j \in w.slot + 1..Len(w.old) - 1 : Deleted[j] = w.old[j + 1]
<1>1. /\ w.old \in Seq(Slot) /\ Len(w.old) \in 1..Cap /\ Ordered(w.old)
      /\ w.slot \in 0..Len(w.old) - 1
  BY DEF LeafInv, LeafType, WriterType, OldInv, DeleteInv, Deleting
<1>2. ASSUME NEW q \in Seq(Slot), Ordered(q), NEW i \in 1..Len(q)
      PROVE  /\ RemoveAt(q, i) \in Seq(Slot) /\ Ordered(RemoveAt(q, i))
             /\ Len(RemoveAt(q, i)) = Len(q) - 1
             /\ \A j \in 1..i - 1 : RemoveAt(q, i)[j] = q[j]
             /\ \A j \in i..Len(q) - 1 : RemoveAt(q, i)[j] = q[j + 1]
  BY <1>2, RemoveAtIs, RemoveKeepsOrder
<1>3. w.slot + 1 \in 1..Len(w.old) /\ (w.slot + 1) - 1 = w.slot
  BY <1>1
<1> QED
  BY <1>1, <1>2, <1>3 DEF Deleted

\* The range is put into its place, and the leaf is an ordered sequence again.
LEMMA PutPtrRests ==
  ASSUME LeafInv, PutPtr, w.slot # nr
  PROVE  wpc' = "rest" /\ ~ dead' /\ RestInv' /\ Stored' = Inserted
<1>1. /\ wpc = "putptr" /\ wpc' = "rest" /\ ptrs' = [ptrs EXCEPT ![w.slot] = w.r]
      /\ UNCHANGED <<nr, max, keys, dead, split, w>>
  BY DEF PutPtr, StorePtr, Then
<1>2. /\ nr = Kept + 1 /\ w.slot < Kept /\ max = End(w.old[Kept])
      /\ \A j \in 0..w.slot - 1 : Holds(j, w.old[j + 1])
      /\ keys[w.slot] = w.r.key
      /\ \A j \in w.slot + 1..Kept : Holds(j, w.old[j])
  BY <1>1 DEF LeafInv, StepInv, PutStep, InPlace
<1>3. /\ Inserted \in Seq(Slot) /\ Ordered(Inserted)
      /\ Kept \in 1..Cap /\ Len(Inserted) = Kept + 1
      /\ \A j \in 1..w.slot : Inserted[j] = w.old[j]
      /\ Inserted[w.slot + 1] = w.r
      /\ \A j \in w.slot + 2..Kept + 1 : Inserted[j] = w.old[j - 1]
  <2>1. wpc \in Inserting /\ w.slot <= Kept
    BY <1>1, <1>2, MidType DEF Inserting, LeafInv, LeafType, WriterType, OldInv, Kept
  <2> QED
    BY <2>1, InsertedIs
<1>4. /\ nr \in 0..Cap /\ w.slot \in Nat /\ Cap \in Nat /\ ~ dead
      /\ ptrs \in [0..Cap -> Slot \cup {Null, Junk}]
  BY <1>1, CapAssumption DEF LeafInv, LeafType, WriterType, OldInv
<1>5. /\ ptrs'[w.slot] = w.r /\ \A j \in 0..Cap : j # w.slot => ptrs'[j] = ptrs[j]
  BY <1>1, <1>2, <1>3, <1>4
<1>6. ASSUME NEW j \in 0..Kept
      PROVE  keys'[j] = Inserted[j + 1].key /\ ptrs'[j] = Inserted[j + 1]
  <2>1. CASE j < w.slot
    <3>1. j \in 0..w.slot - 1 /\ j + 1 \in 1..w.slot /\ j \in 0..Cap
      BY <1>3, <1>4, <2>1
    <3> QED
      BY <1>1, <1>2, <1>3, <1>5, <2>1, <3>1 DEF Holds
  <2>2. CASE j = w.slot
    BY <1>1, <1>2, <1>3, <1>5, <2>2
  <2>3. CASE j > w.slot
    <3>1. j \in w.slot + 1..Kept /\ j + 1 \in w.slot + 2..Kept + 1 /\ j \in 0..Cap /\ (j + 1) - 1 = j
      BY <1>3, <1>4, <2>3
    <3> QED
      BY <1>1, <1>2, <1>3, <1>5, <2>3, <3>1 DEF Holds
  <2> QED
    BY <1>3, <1>4, <2>1, <2>2, <2>3
<1>7. max' = End(Inserted[Kept + 1])
  <2>1. Kept + 1 \in w.slot + 2..Kept + 1 /\ (Kept + 1) - 1 = Kept
    BY <1>2, <1>3, <1>4
  <2> QED
    BY <1>1, <1>2, <1>3, <2>1
<1>8. nr' = Len(Inserted) /\ ~ dead' /\ Len(Inserted) \in 1..Cap
  BY <1>1, <1>2, <1>3, <1>4
<1>9. /\ \A j \in 0..Len(Inserted) - 1 :
            keys'[j] = Inserted[j + 1].key /\ ptrs'[j] = Inserted[j + 1]
      /\ max' = End(Inserted[Len(Inserted)])
  <2>1. 0..Len(Inserted) - 1 = 0..Kept
    BY <1>3
  <2> QED
    BY <1>3, <1>6, <1>7, <2>1
<1> QED
  BY <1>1, <1>3, <1>8, <1>9, AtRest

LEMMA CountRests ==
  ASSUME LeafInv, Count
  PROVE  wpc' = "rest" /\ ~ dead' /\ RestInv' /\ Stored' = Inserted
<1>1. /\ wpc = "count" /\ wpc' = "rest" /\ nr' = nr + 1
      /\ UNCHANGED <<max, keys, ptrs, dead, split, w>>
  BY DEF Count, StoreNr, Then
<1>2. /\ nr = Len(w.old) /\ w.slot = nr /\ nr < Cap
      /\ \A j \in 0..nr - 1 : Holds(j, w.old[j + 1])
      /\ max = End(w.r) /\ keys[nr] = w.r.key /\ ptrs[nr] = w.r
  BY <1>1 DEF LeafInv, StepInv, ExtendStep, InPlace
<1>3. /\ Kept = nr /\ Cap \in Nat /\ nr \in 1..Cap /\ ~ dead
  BY <1>1, <1>2, CapAssumption DEF LeafInv, LeafType, OldInv, Kept
<1>4. /\ Inserted \in Seq(Slot) /\ Ordered(Inserted) /\ Len(Inserted) = nr + 1
      /\ \A j \in 1..nr : Inserted[j] = w.old[j]
      /\ Inserted[nr + 1] = w.r
  <2>1. wpc \in Inserting /\ w.slot <= Kept
    BY <1>1, <1>2, <1>3 DEF Inserting
  <2> QED
    BY <1>2, <1>3, <2>1, InsertedIs
<1>5. ASSUME NEW j \in 0..nr
      PROVE  keys'[j] = Inserted[j + 1].key /\ ptrs'[j] = Inserted[j + 1]
  <2>1. CASE j = nr
    BY <1>1, <1>2, <1>4, <2>1
  <2>2. CASE j # nr
    <3>1. j \in 0..nr - 1 /\ j + 1 \in 1..nr
      BY <1>3, <2>2
    <3> QED
      BY <1>1, <1>2, <1>4, <3>1 DEF Holds
  <2> QED
    BY <2>1, <2>2
<1>6. nr' = Len(Inserted) /\ ~ dead' /\ Len(Inserted) \in 1..Cap
  BY <1>1, <1>2, <1>3, <1>4
<1>7. /\ \A j \in 0..Len(Inserted) - 1 :
            keys'[j] = Inserted[j + 1].key /\ ptrs'[j] = Inserted[j + 1]
      /\ max' = End(Inserted[Len(Inserted)])
  <2>1. 0..Len(Inserted) - 1 = 0..nr
    BY <1>3, <1>4
  <2> QED
    BY <1>1, <1>2, <1>4, <1>5, <2>1
<1> QED
  BY <1>1, <1>4, <1>6, <1>7, AtRest

LEMMA PutLeaf ==
  ASSUME LeafInv, PutKey \/ PutPtr \/ Extend \/ Count
  PROVE  LeafInv'
<1>1. /\ nr \in 0..Cap /\ max \in Nat /\ Cap \in Nat
      /\ keys \in [0..Cap -> Nat] /\ ptrs \in [0..Cap -> Slot \cup {Null, Junk}]
      /\ w \in WriterType /\ w.slot \in Nat
  BY CapAssumption DEF LeafInv, LeafType, WriterType
<1>2. wpc \in Inserting /\ wpc # "rest" /\ wpc \notin Deleting
  BY DEF PutKey, PutPtr, Extend, Count, Inserting, Deleting
<1>3. /\ w.r \in Slot /\ w.slot \in 0..Len(w.old) /\ ~ dead /\ Len(w.old) \in 1..Cap
      /\ Kept \in 1..Cap /\ Kept <= Len(w.old) /\ w.r.key \in Nat /\ End(w.r) \in Nat
      /\ \A j \in 1..w.slot : End(w.old[j]) <= w.r.key
      /\ \A j \in 1..Len(w.old) : w.old[j] \in Slot
  <2>1. /\ w.r \in Slot /\ w.slot \in 0..Len(w.old) /\ ~ dead /\ Len(w.old) \in 1..Cap
        /\ \A j \in 1..w.slot : End(w.old[j]) <= w.r.key
        /\ w.old \in Seq(Slot)
    BY <1>2 DEF LeafInv, LeafType, WriterType, OldInv, InsertInv
  <2>2. Kept \in 1..Cap /\ Kept <= Len(w.old)
    BY <1>1, <2>1, MidType DEF Kept
  <2>3. w.r.key \in Nat /\ End(w.r) \in Nat
    BY <2>1, SlotEnd
  <2> QED
    BY <2>1, <2>2, <2>3
<1>4. ASSUME wpc' \in Inserting, UNCHANGED <<w, dead, split>>
      PROVE  RestInv' /\ OldInv' /\ InsertInv' /\ DeleteInv'
  BY <1>2, <1>4 DEF LeafInv, RestInv, OldInv, InsertInv, DeleteInv, Inserting, Deleting
<1>5. CASE PutKey /\ wpc = "pushkey"
  <2>1. /\ wpc' = "putptr" /\ keys' = [keys EXCEPT ![w.slot] = w.r.key] /\ w.i = w.slot
        /\ UNCHANGED <<nr, max, ptrs, dead, split, w>>
    BY <1>5 DEF PutKey, StoreKey, Then, PushDone
  <2>2. /\ nr = Kept + 1 /\ w.slot < Kept /\ max = End(w.old[Kept])
        /\ \A j \in 0..w.slot - 1 : Holds(j, w.old[j + 1])
        /\ \A j \in w.slot + 1..Kept : Holds(j, w.old[j])
    BY <1>5, <2>1 DEF LeafInv, StepInv, PushStep, InPlace
  <2>3. LeafType'
    BY <1>1, <1>3, <2>1, <2>2 DEF LeafInv, LeafType, Inserting
  <2>4. wpc' \in Inserting /\ RestInv' /\ OldInv' /\ InsertInv' /\ DeleteInv'
    BY <1>4, <2>1 DEF Inserting
  <2>5. keys'[w.slot] = w.r.key /\ \A j \in 0..Cap : j # w.slot => keys'[j] = keys[j]
    BY <1>1, <1>3, <2>1, <2>2
  <2>6. PutStep'
    <3>1. /\ \A j \in 0..w.slot - 1 : keys'[j] = w.old[j + 1].key /\ ptrs'[j] = w.old[j + 1]
          /\ \A j \in w.slot + 1..Kept : keys'[j] = w.old[j].key /\ ptrs'[j] = w.old[j]
      <4>1. /\ \A j \in 0..w.slot - 1 : j \in 0..Cap /\ j # w.slot
            /\ \A j \in w.slot + 1..Kept : j \in 0..Cap /\ j # w.slot
        <5>1. Cap \in Nat /\ w.slot \in Nat /\ Kept \in 1..Cap /\ w.slot < Kept
          BY <1>1, <1>3, <2>2
        <5> QED
          BY <5>1
      <4> QED
        BY <2>1, <2>2, <2>5, <4>1 DEF Holds
    <3>2. Kept' = Kept
      BY <2>1 DEF Kept
    <3> QED
      BY <2>1, <2>2, <2>5, <3>1, <3>2 DEF PutStep, InPlace, Holds
  <2>7. StepInv'
    BY <1>1, <1>3, <2>1, <2>2, <2>6 DEF StepInv, SplitStep, MakeRoom, PushStep,
      ExtendStep, PullStep, LowerStep, ShrinkStep, KillStep
  <2>8. SplitBehind'
    <3>1. ASSUME NEW s \in ToSet(split) PROVE keys'[0] <= s.key /\ max <= s.key
      <4>1. keys[0] <= s.key /\ max <= s.key /\ s \in Slot
        BY <1>5 DEF LeafInv, LeafType, SplitBehind, ToSet
      <4>2. w.slot = 0 => w.r.key <= max
        <5>1. ASSUME w.slot = 0 PROVE End(w.r) <= w.old[Kept].key
          BY <1>2, <1>3, <5>1, <2>2 DEF LeafInv, InsertInv
        <5>2. w.old[Kept] \in Slot
          BY <1>3
        <5> QED
          BY <1>3, <2>2, <5>1, <5>2, SlotEnd
      <4> QED
        <5>1. CASE w.slot = 0
          BY <1>1, <1>3, <2>5, <4>1, <4>2, <5>1, SlotEnd
        <5>2. CASE w.slot # 0
          BY <1>1, <2>5, <4>1, <5>2
        <5> QED
          BY <5>1, <5>2
    <3> QED
      BY <2>1, <3>1 DEF LeafInv, SplitBehind
  <2> QED
    BY <2>3, <2>4, <2>7, <2>8 DEF LeafInv
<1>6. CASE PutKey /\ wpc = "putkey"
  <2>1. /\ wpc' = "putptr" /\ keys' = [keys EXCEPT ![w.slot] = w.r.key]
        /\ UNCHANGED <<nr, max, ptrs, dead, split, w>>
    BY <1>6 DEF PutKey, StoreKey, Then
  <2>2. /\ nr = Len(w.old) /\ w.slot = nr /\ nr < Cap /\ max = End(w.r)
        /\ \A j \in 0..nr - 1 : Holds(j, w.old[j + 1])
    BY <1>6 DEF LeafInv, StepInv, ExtendStep, InPlace
  <2>3. LeafType'
    BY <1>1, <1>3, <2>1, <2>2 DEF LeafInv, LeafType, Inserting
  <2>4. wpc' \in Inserting /\ RestInv' /\ OldInv' /\ InsertInv' /\ DeleteInv'
    BY <1>4, <2>1 DEF Inserting
  <2>5. keys'[nr] = w.r.key /\ \A j \in 0..Cap : j # nr => keys'[j] = keys[j]
    BY <1>1, <1>3, <2>1, <2>2
  <2>6. ExtendStep'
    BY <1>1, <1>3, <2>1, <2>2, <2>5 DEF ExtendStep, InPlace, Holds
  <2>7. StepInv'
    BY <1>1, <1>3, <2>1, <2>2, <2>6 DEF StepInv, SplitStep, MakeRoom, PushStep, PutStep,
      PullStep, LowerStep, ShrinkStep, KillStep
  <2>8. SplitBehind'
    BY <1>1, <1>3, <1>6, <2>1, <2>2, <2>5 DEF LeafInv, SplitBehind
  <2> QED
    BY <2>3, <2>4, <2>7, <2>8 DEF LeafInv
<1>7. CASE PutPtr /\ w.slot # nr
  <2>1. /\ wpc = "putptr" /\ wpc' = "rest" /\ ptrs' = [ptrs EXCEPT ![w.slot] = w.r]
        /\ UNCHANGED <<nr, max, keys, dead, split, w>>
    BY <1>7 DEF PutPtr, StorePtr, Then
  <2>2. LeafType'
    BY <1>1, <1>3, <2>1 DEF LeafInv, LeafType
  <2>3. RestInv'
    BY <1>7, PutPtrRests
  <2>4. OldInv' /\ InsertInv' /\ DeleteInv' /\ StepInv'
    BY <2>1 DEF OldInv, InsertInv, DeleteInv, Inserting, Deleting, StepInv, SplitStep, MakeRoom,
      PushStep, PutStep, ExtendStep, PullStep, LowerStep, ShrinkStep, KillStep
  <2>5. SplitBehind'
    BY <2>1 DEF LeafInv, SplitBehind
  <2> QED
    BY <2>2, <2>3, <2>4, <2>5 DEF LeafInv
<1>8. CASE PutPtr /\ w.slot = nr
  <2>1. /\ wpc = "putptr" /\ wpc' = "count" /\ ptrs' = [ptrs EXCEPT ![nr] = w.r]
        /\ UNCHANGED <<nr, max, keys, dead, split, w>>
    BY <1>8 DEF PutPtr, StorePtr, Then
  <2>2. /\ nr = Len(w.old) /\ w.slot = nr /\ nr < Cap /\ max = End(w.r) /\ keys[nr] = w.r.key
        /\ \A j \in 0..nr - 1 : Holds(j, w.old[j + 1])
    BY <1>8, <2>1 DEF LeafInv, StepInv, ExtendStep, InPlace
  <2>3. LeafType'
    BY <1>1, <1>3, <2>1 DEF LeafInv, LeafType, Inserting
  <2>4. wpc' \in Inserting /\ RestInv' /\ OldInv' /\ InsertInv' /\ DeleteInv'
    BY <1>4, <2>1 DEF Inserting
  <2>5. ptrs'[nr] = w.r /\ \A j \in 0..Cap : j # nr => ptrs'[j] = ptrs[j]
    BY <1>1, <1>3, <2>1, <2>2
  <2>6. ExtendStep'
    BY <1>1, <1>3, <2>1, <2>2, <2>5 DEF ExtendStep, InPlace, Holds
  <2>7. StepInv'
    BY <2>1, <2>6 DEF StepInv, SplitStep, MakeRoom, PushStep, PutStep,
      PullStep, LowerStep, ShrinkStep, KillStep
  <2>8. SplitBehind'
    BY <2>1 DEF LeafInv, SplitBehind
  <2> QED
    BY <2>3, <2>4, <2>7, <2>8 DEF LeafInv
<1>9. CASE Extend
  <2>1. /\ wpc = "extend" /\ wpc' = "putkey" /\ max' = End(w.r)
        /\ UNCHANGED <<nr, keys, ptrs, dead, split, w>>
    BY <1>9 DEF Extend, StoreMax, Then
  <2>2. LeafType'
    BY <1>1, <1>3, <2>1 DEF LeafInv, LeafType, Inserting
  <2>3. wpc' \in Inserting /\ RestInv' /\ OldInv' /\ InsertInv' /\ DeleteInv'
    BY <1>4, <2>1 DEF Inserting
  <2>4. ExtendStep'
    BY <2>1 DEF LeafInv, StepInv, ExtendStep, InPlace, Holds
  <2>5. StepInv'
    BY <2>1, <2>4 DEF StepInv, SplitStep, MakeRoom, PushStep, PutStep,
      PullStep, LowerStep, ShrinkStep, KillStep
  <2>6. SplitBehind'
    BY <2>1 DEF LeafInv, SplitBehind
  <2> QED
    BY <2>2, <2>3, <2>5, <2>6 DEF LeafInv
<1>10. CASE Count
  <2>1. /\ wpc = "count" /\ wpc' = "rest" /\ nr' = nr + 1
        /\ UNCHANGED <<max, keys, ptrs, dead, split, w>>
    BY <1>10 DEF Count, StoreNr, Then
  <2>2. nr < Cap
    BY <2>1 DEF LeafInv, StepInv, ExtendStep
  <2>3. LeafType'
    BY <1>1, <2>1, <2>2 DEF LeafInv, LeafType
  <2>4. RestInv'
    BY <1>10, CountRests
  <2>5. OldInv' /\ InsertInv' /\ DeleteInv' /\ StepInv'
    BY <2>1 DEF OldInv, InsertInv, DeleteInv, Inserting, Deleting, StepInv, SplitStep, MakeRoom,
      PushStep, PutStep, ExtendStep, PullStep, LowerStep, ShrinkStep, KillStep
  <2>6. SplitBehind'
    BY <2>1 DEF LeafInv, SplitBehind
  <2> QED
    BY <2>3, <2>4, <2>5, <2>6 DEF LeafInv
<1> QED
  BY <1>5, <1>6, <1>7, <1>8, <1>9, <1>10 DEF PutKey

\* Every range behind the one deleted goes one slot down.
LEMMA PullLeaf ==
  ASSUME LeafInv, PullKey \/ PullPtr
  PROVE  LeafInv'
<1>1. /\ nr \in 0..Cap /\ max \in Nat /\ Cap \in Nat
      /\ keys \in [0..Cap -> Nat] /\ ptrs \in [0..Cap -> Slot \cup {Null, Junk}]
      /\ w \in WriterType /\ w.slot \in Nat /\ w.old \in Seq(Slot)
  BY CapAssumption DEF LeafInv, LeafType, WriterType
<1>2. wpc \in {"pullkey", "pullptr"}
  BY DEF PullKey, PullPtr
<1>3. /\ nr = Len(w.old) /\ w.slot < nr - 1 /\ w.i \in w.slot..nr - 1
      /\ max = End(w.old[nr]) /\ \A j \in 0..w.slot - 1 : Holds(j, w.old[j + 1])
      /\ \A j \in w.slot..w.i - 1 : Holds(j, w.old[j + 2])
      /\ \A j \in w.i + 1..nr - 1 : Holds(j, w.old[j + 1])
      /\ wpc = "pullkey" => Holds(w.i, w.old[w.i + 1])
      /\ wpc = "pullptr" /\ w.i < nr - 1 => keys[w.i] = w.old[w.i + 2].key
  BY <1>2 DEF LeafInv, StepInv, PullStep, InPlace
<1>4. /\ ~ dead /\ Ordered(w.old) /\ \A j \in 1..nr : w.old[j] \in Slot
      /\ nr \in 2..Cap /\ w.i \in 0..Cap - 1 /\ w.i + 1 \in 0..Cap /\ w.slot \in 0..nr - 2
      /\ w.i \in w.slot..nr - 1 /\ Cap \in Nat
  <2>1. ~ dead /\ Ordered(w.old)
    BY <1>2 DEF LeafInv, OldInv
  <2>2. \A j \in 1..nr : w.old[j] \in Slot
    BY <1>1, <1>3
  <2>3. nr \in 0..Cap /\ Cap \in Nat /\ w.slot \in Nat /\ w.slot < nr - 1 /\ w.i \in w.slot..nr - 1
    BY <1>1, <1>3
  <2>4. nr \in 2..Cap /\ w.i \in 0..Cap - 1 /\ w.i + 1 \in 0..Cap /\ w.slot \in 0..nr - 2
    BY <2>3
  <2> QED
    BY <2>1, <2>2, <2>3, <2>4
<1>5. w.i < nr - 1 => keys[w.i + 1] = w.old[w.i + 2].key /\ ptrs[w.i + 1] = w.old[w.i + 2]
  <2>1. w.i < nr - 1 => w.i + 1 \in w.i + 1..nr - 1 /\ (w.i + 1) + 1 = w.i + 2
    BY <1>3, <1>4
  <2> QED
    BY <1>3, <2>1 DEF Holds
<1>6. CASE PullKey
  <2>1. /\ wpc = "pullkey" /\ wpc' = "pullptr" /\ keys' = [keys EXCEPT ![w.i] = keys[w.i + 1]]
        /\ UNCHANGED <<nr, max, ptrs, dead, split, w>>
    BY <1>6 DEF PullKey, StoreKey, Then
  <2>2. LeafType'
    BY <1>1, <1>4, <2>1 DEF LeafInv, LeafType, Deleting
  <2>3. RestInv' /\ OldInv' /\ InsertInv' /\ DeleteInv'
    BY <2>1 DEF LeafInv, RestInv, OldInv, InsertInv, DeleteInv, Inserting, Deleting
  <2>4. keys'[w.i] = keys[w.i + 1] /\ \A j \in 0..Cap : j # w.i => keys'[j] = keys[j]
    BY <1>1, <1>4, <2>1
  <2>5. PullStep'
    <3>1. /\ \A j \in 0..w.slot - 1 : j \in 0..Cap /\ j # w.i
          /\ \A j \in w.slot..w.i - 1 : j \in 0..Cap /\ j # w.i
          /\ \A j \in w.i + 1..nr - 1 : j \in 0..Cap /\ j # w.i
      BY <1>4
    <3>2. /\ \A j \in 0..w.slot - 1 : keys'[j] = w.old[j + 1].key /\ ptrs'[j] = w.old[j + 1]
          /\ \A j \in w.slot..w.i - 1 : keys'[j] = w.old[j + 2].key /\ ptrs'[j] = w.old[j + 2]
          /\ \A j \in w.i + 1..nr - 1 : keys'[j] = w.old[j + 1].key /\ ptrs'[j] = w.old[j + 1]
      BY <1>3, <2>1, <2>4, <3>1 DEF Holds
    <3>3. w.i < nr - 1 => keys'[w.i] = w.old[w.i + 2].key
      BY <1>5, <2>4
    <3> QED
      BY <1>3, <2>1, <3>2, <3>3 DEF PullStep, InPlace, Holds
  <2>6. StepInv'
    BY <2>1, <2>5 DEF StepInv, SplitStep, MakeRoom, PushStep, PutStep, ExtendStep,
      LowerStep, ShrinkStep, KillStep
  <2>7. SplitBehind'
    <3>1. ASSUME NEW s \in ToSet(split) PROVE keys'[0] <= s.key /\ max <= s.key
      <4>1. keys[0] <= s.key /\ max <= s.key /\ s \in Slot
        BY <2>1 DEF LeafInv, LeafType, SplitBehind, ToSet
      <4>2. CASE w.i = 0
        <5>1. keys'[0] = w.old[2].key /\ w.old[2] \in Slot /\ w.old[nr] \in Slot
          BY <1>3, <1>4, <1>5, <2>4, <4>2
        <5>2. nr = 2 \/ End(w.old[2]) <= w.old[nr].key
          <6>1. nr = Len(w.old)
            BY <1>3
          <6>2. 2 \in 1..nr /\ nr \in 1..nr /\ (nr = 2 \/ 2 < nr)
            BY <1>4
          <6> QED
            BY <1>4, <6>1, <6>2 DEF Ordered
        <5>3. max = End(w.old[nr])
          BY <1>3
        <5> QED
          BY <4>1, <5>1, <5>2, <5>3, SlotEnd
      <4>3. CASE w.i # 0
        BY <1>1, <2>4, <4>1, <4>3
      <4> QED
        BY <4>2, <4>3
    <3> QED
      BY <2>1, <3>1 DEF LeafInv, SplitBehind
  <2> QED
    BY <2>2, <2>3, <2>6, <2>7 DEF LeafInv
<1>7. CASE PullPtr
  <2>1. /\ wpc = "pullptr" /\ ptrs' = [ptrs EXCEPT ![w.i] = ptrs[w.i + 1]]
        /\ w' = [w EXCEPT !.i = w.i + 1]
        /\ wpc' = IF w.i + 1 < nr THEN "pullkey" ELSE "shrink"
        /\ UNCHANGED <<nr, max, keys, dead, split>>
    BY <1>7 DEF PullPtr, StorePtr, Then
  <2>2. /\ w' \in WriterType /\ w'.i = w.i + 1
        /\ w'.slot = w.slot /\ w'.old = w.old /\ w'.r = w.r /\ w'.in = w.in /\ w'.out = w.out
        /\ w'.moves = w.moves
    <3>1. w.i + 1 \in Nat
      BY <1>4
    <3> QED
      BY <1>1, <2>1, <3>1, WriterAt
  <2>3. LeafType'
    BY <1>1, <1>4, <2>1, <2>2 DEF LeafInv, LeafType, Deleting
  <2>4. RestInv' /\ OldInv' /\ InsertInv' /\ DeleteInv'
    BY <2>1, <2>2 DEF LeafInv, RestInv, OldInv, InsertInv, DeleteInv, Inserting, Deleting
  <2>5. ptrs'[w.i] = ptrs[w.i + 1] /\ \A j \in 0..Cap : j # w.i => ptrs'[j] = ptrs[j]
    BY <1>1, <1>4, <2>1
  <2>6. /\ \A j \in 0..w.slot - 1 : keys'[j] = w.old[j + 1].key /\ ptrs'[j] = w.old[j + 1]
        /\ \A j \in w.slot..w.i - 1 : keys'[j] = w.old[j + 2].key /\ ptrs'[j] = w.old[j + 2]
        /\ \A j \in w.i + 1..nr - 1 : keys'[j] = w.old[j + 1].key /\ ptrs'[j] = w.old[j + 1]
        /\ w.i < nr - 1 => keys'[w.i] = w.old[w.i + 2].key /\ ptrs'[w.i] = w.old[w.i + 2]
    <3>1. /\ \A j \in 0..w.slot - 1 : j \in 0..Cap /\ j # w.i
          /\ \A j \in w.slot..w.i - 1 : j \in 0..Cap /\ j # w.i
          /\ \A j \in w.i + 1..nr - 1 : j \in 0..Cap /\ j # w.i
      BY <1>4
    <3> QED
      BY <1>3, <1>5, <2>1, <2>5, <3>1 DEF Holds
  <2>7. PullStep'
    <3>1. CASE w.i + 1 < nr
      <4>1. /\ w.i < nr - 1 /\ w.i + 1 \in w.slot..nr - 1 /\ w.i + 1 \in w.i + 1..nr - 1
            /\ (w.i + 1) + 1 = w.i + 2
        BY <1>4, <3>1
      <4>2. \A j \in w.slot..(w.i + 1) - 1 : j \in w.slot..w.i - 1 \/ j = w.i
        BY <1>4
      <4>3. \A j \in (w.i + 1) + 1..nr - 1 : j \in w.i + 1..nr - 1
        BY <1>4
      <4>4. /\ \A j \in w.slot..w'.i - 1 : keys'[j] = w.old[j + 2].key /\ ptrs'[j] = w.old[j + 2]
            /\ \A j \in w'.i + 1..nr - 1 : keys'[j] = w.old[j + 1].key /\ ptrs'[j] = w.old[j + 1]
        BY <2>2, <2>6, <4>1, <4>2, <4>3
      <4>5. keys'[w'.i] = w.old[w'.i + 1].key /\ ptrs'[w'.i] = w.old[w'.i + 1]
        BY <2>2, <2>6, <4>1
      <4> QED
        BY <1>3, <2>1, <2>2, <2>6, <3>1, <4>1, <4>4, <4>5 DEF PullStep, InPlace, Holds
    <3>2. CASE ~ (w.i + 1 < nr)
      BY <2>1, <3>2 DEF PullStep
    <3> QED
      BY <3>1, <3>2
  <2>8. ShrinkStep'
    <3>1. CASE ~ (w.i + 1 < nr)
      <4>1. \A j \in w.slot..nr - 2 : j \in w.slot..w.i - 1
        BY <1>4, <3>1
      <4>2. w.slot # nr - 1
        BY <1>4
      <4> QED
        BY <1>3, <2>1, <2>2, <2>6, <4>1, <4>2 DEF ShrinkStep, InPlace, Holds
    <3>2. CASE w.i + 1 < nr
      BY <2>1, <3>2 DEF ShrinkStep
    <3> QED
      BY <3>1, <3>2
  <2>9. StepInv'
    BY <2>1, <2>7, <2>8 DEF StepInv, SplitStep, MakeRoom, PushStep, PutStep, ExtendStep,
      LowerStep, KillStep
  <2>10. SplitBehind'
    BY <2>1 DEF LeafInv, SplitBehind
  <2> QED
    BY <2>3, <2>4, <2>9, <2>10 DEF LeafInv
<1> QED
  BY <1>6, <1>7

\* The last slot is given up, and the range is gone.
LEMMA ShrinkRests ==
  ASSUME LeafInv, Shrink, nr > 1
  PROVE  wpc' = "rest" /\ ~ dead' /\ RestInv' /\ Stored' = Deleted
<1>1. /\ wpc = "shrink" /\ nr' = nr - 1 /\ UNCHANGED <<max, keys, ptrs, dead, split, w>>
      /\ nr # 1 /\ wpc' = "rest"
  BY DEF Shrink, StoreNr, Then
<1>2. /\ nr = Len(w.old) /\ nr \in 2..Cap /\ Cap \in Nat /\ ~ dead
      /\ w.slot \in 0..nr - 1
      /\ \A j \in 0..w.slot - 1 : Holds(j, w.old[j + 1])
      /\ max = End(w.old[IF w.slot = nr - 1 THEN nr - 1 ELSE nr])
      /\ w.slot # nr - 1 => \A j \in w.slot..nr - 2 : Holds(j, w.old[j + 2])
  <2>1. /\ nr = Len(w.old)
        /\ IF w.slot = nr - 1
           THEN InPlace(nr) /\ max = End(w.old[IF nr > 1 THEN nr - 1 ELSE nr])
           ELSE /\ InPlace(w.slot) /\ max = End(w.old[nr])
                /\ \A j \in w.slot..nr - 2 : Holds(j, w.old[j + 2])
    BY <1>1 DEF LeafInv, StepInv, ShrinkStep
  <2>2. nr \in 2..Cap /\ Cap \in Nat /\ ~ dead /\ w.slot \in 0..nr - 1
    BY <1>1, <2>1, CapAssumption DEF LeafInv, LeafType, OldInv, DeleteInv, Deleting
  <2>3. \A j \in 0..w.slot - 1 : j \in 0..nr - 1
    BY <2>2
  <2> QED
    BY <2>1, <2>2, <2>3 DEF InPlace
<1>3. /\ Deleted \in Seq(Slot) /\ Ordered(Deleted) /\ Len(Deleted) = nr - 1
      /\ \A j \in 1..w.slot : Deleted[j] = w.old[j]
      /\ \A j \in w.slot + 1..nr - 1 : Deleted[j] = w.old[j + 1]
  BY <1>1, <1>2, DeletedIs DEF Deleting
<1>4. ASSUME NEW j \in 0..nr - 2
      PROVE  keys'[j] = Deleted[j + 1].key /\ ptrs'[j] = Deleted[j + 1]
  <2>1. CASE j < w.slot
    <3>1. j \in 0..w.slot - 1 /\ j + 1 \in 1..w.slot
      BY <1>2, <2>1
    <3> QED
      BY <1>1, <1>2, <1>3, <3>1 DEF Holds
  <2>2. CASE j >= w.slot
    <3>1. /\ j \in w.slot..nr - 2 /\ w.slot # nr - 1 /\ j + 1 \in w.slot + 1..nr - 1
          /\ (j + 1) + 1 = j + 2
      BY <1>2, <2>2
    <3>2. Holds(j, w.old[j + 2])
      BY <1>2, <3>1
    <3>3. Deleted[j + 1] = w.old[j + 2]
      BY <1>3, <3>1
    <3> QED
      BY <1>1, <3>2, <3>3 DEF Holds
  <2> QED
    BY <1>2, <2>1, <2>2
<1>5. max' = End(Deleted[nr - 1])
  <2>1. CASE w.slot = nr - 1
    <3>1. nr - 1 \in 1..w.slot
      BY <1>2, <2>1
    <3> QED
      BY <1>1, <1>2, <1>3, <2>1, <3>1
  <2>2. CASE w.slot # nr - 1
    <3>1. nr - 1 \in w.slot + 1..nr - 1 /\ (nr - 1) + 1 = nr
      BY <1>2, <2>2
    <3> QED
      BY <1>1, <1>2, <1>3, <2>2, <3>1
  <2> QED
    BY <2>1, <2>2
<1>6. nr' = Len(Deleted) /\ ~ dead' /\ Len(Deleted) \in 1..Cap
  BY <1>1, <1>2, <1>3
<1>7. /\ \A j \in 0..Len(Deleted) - 1 :
            keys'[j] = Deleted[j + 1].key /\ ptrs'[j] = Deleted[j + 1]
      /\ max' = End(Deleted[Len(Deleted)])
  <2>1. 0..Len(Deleted) - 1 = 0..nr - 2
    BY <1>2, <1>3
  <2> QED
    BY <1>3, <1>4, <1>5, <2>1
<1> QED
  BY <1>1, <1>3, <1>6, <1>7, AtRest

LEMMA ShrinkLeaf ==
  ASSUME LeafInv, LowerMax \/ Shrink \/ Kill
  PROVE  LeafInv'
<1>1. /\ nr \in 0..Cap /\ max \in Nat /\ Cap \in Nat
      /\ keys \in [0..Cap -> Nat] /\ ptrs \in [0..Cap -> Slot \cup {Null, Junk}]
      /\ w \in WriterType /\ w.slot \in Nat /\ w.old \in Seq(Slot)
  BY CapAssumption DEF LeafInv, LeafType, WriterType
<1>2. ~ dead /\ Ordered(w.old) /\ Len(w.old) \in 1..Cap /\ w.slot \in 0..Len(w.old) - 1
  BY DEF LowerMax, Shrink, Kill, LeafInv, OldInv, DeleteInv, Deleting
<1>3. CASE LowerMax
  <2>1. /\ wpc = "lowermax" /\ wpc' = "shrink" /\ max' = keys[nr - 2] + ptrs[nr - 2].size
        /\ UNCHANGED <<nr, keys, ptrs, dead, split, w>>
    BY <1>3 DEF LowerMax, StoreMax, Then
  <2>2. /\ nr = Len(w.old) /\ nr > 1 /\ w.slot = nr - 1 /\ max = End(w.old[nr])
        /\ \A j \in 0..nr - 1 : Holds(j, w.old[j + 1])
    BY <2>1 DEF LeafInv, StepInv, LowerStep, InPlace
  <2>3. /\ nr - 1 \in 1..nr /\ nr \in 1..nr /\ nr - 2 \in 0..nr - 1 /\ (nr - 2) + 1 = nr - 1
        /\ w.old[nr - 1] \in Slot /\ w.old[nr] \in Slot
    <3>1. nr \in 2..Cap
      BY <1>1, <2>2
    <3>2. /\ nr - 1 \in 1..nr /\ nr \in 1..nr /\ nr - 2 \in 0..nr - 1 /\ (nr - 2) + 1 = nr - 1
      BY <1>1, <3>1
    <3> QED
      BY <1>1, <2>2, <3>2
  <2>4. max' = End(w.old[nr - 1])
    BY <2>1, <2>2, <2>3 DEF Holds, End
  <2>5. max' \in Nat /\ max' <= max
    BY <1>2, <2>2, <2>3, <2>4, SlotEnd DEF Ordered
  <2>6. LeafType'
    BY <1>1, <2>1, <2>5 DEF LeafInv, LeafType, Deleting
  <2>7. RestInv' /\ OldInv' /\ InsertInv' /\ DeleteInv'
    BY <2>1 DEF LeafInv, RestInv, OldInv, InsertInv, DeleteInv, Inserting, Deleting
  <2>8. ShrinkStep'
    BY <2>1, <2>2, <2>4 DEF ShrinkStep, InPlace, Holds
  <2>9. StepInv'
    BY <2>1, <2>8 DEF StepInv, SplitStep, MakeRoom, PushStep, PutStep, ExtendStep,
      PullStep, LowerStep, KillStep
  <2>10. SplitBehind'
    <3>1. ASSUME NEW s \in ToSet(split) PROVE max' <= s.key
      <4>1. max <= s.key /\ s \in Slot
        BY <2>1 DEF LeafInv, LeafType, SplitBehind, ToSet
      <4> QED
        BY <1>1, <2>5, <4>1, SlotEnd
    <3> QED
      BY <2>1, <3>1 DEF LeafInv, SplitBehind
  <2> QED
    BY <2>6, <2>7, <2>9, <2>10 DEF LeafInv
<1>4. CASE Shrink
  <2>1. /\ wpc = "shrink" /\ nr' = nr - 1 /\ UNCHANGED <<max, keys, ptrs, dead, split, w>>
        /\ wpc' = IF nr = 1 THEN "kill" ELSE "rest"
    BY <1>4 DEF Shrink, StoreNr, Then
  <2>2. nr = Len(w.old)
    BY <2>1 DEF LeafInv, StepInv, ShrinkStep
  <2>3. LeafType'
    BY <1>1, <1>2, <2>1, <2>2 DEF LeafInv, LeafType, Deleting
  <2>4. SplitBehind'
    BY <2>1 DEF LeafInv, SplitBehind
  <2>5. CASE nr = 1
    <3>1. RestInv' /\ OldInv' /\ InsertInv' /\ DeleteInv'
      BY <2>1, <2>5 DEF LeafInv, RestInv, OldInv, InsertInv, DeleteInv, Inserting, Deleting
    <3>2. KillStep'
      BY <1>1, <1>2, <2>1, <2>2, <2>5 DEF LeafInv, StepInv, ShrinkStep, KillStep, InPlace, Holds
    <3>3. StepInv'
      BY <2>1, <2>5, <3>2 DEF StepInv, SplitStep, MakeRoom, PushStep, PutStep, ExtendStep,
        PullStep, LowerStep, ShrinkStep
    <3> QED
      BY <2>3, <2>4, <3>1, <3>3 DEF LeafInv
  <2>6. CASE nr # 1
    <3>1. RestInv'
      <4>1. nr \in 1..Cap
        BY <1>2, <2>2
      <4>2. nr > 1
        BY <1>1, <2>6, <4>1
      <4> QED
        BY <1>4, <4>2, ShrinkRests
    <3>2. OldInv' /\ InsertInv' /\ DeleteInv' /\ StepInv'
      BY <2>1, <2>6 DEF OldInv, InsertInv, DeleteInv, Inserting, Deleting, StepInv, SplitStep,
        MakeRoom, PushStep, PutStep, ExtendStep, PullStep, LowerStep, ShrinkStep, KillStep
    <3> QED
      BY <2>3, <2>4, <3>1, <3>2 DEF LeafInv
  <2> QED
    BY <2>5, <2>6
<1>5. CASE Kill
  <2>1. /\ wpc = "kill" /\ wpc' = "rest" /\ dead' = TRUE
        /\ UNCHANGED <<nr, max, keys, ptrs, split, w>>
    BY <1>5 DEF Kill, Then
  <2>2. nr = 0
    BY <2>1 DEF LeafInv, StepInv, KillStep
  <2>3. LeafType'
    BY <2>1 DEF LeafInv, LeafType
  <2>4. RestInv' /\ OldInv' /\ InsertInv' /\ DeleteInv' /\ StepInv'
    BY <2>1, <2>2 DEF RestInv, OldInv, InsertInv, DeleteInv, Inserting, Deleting, StepInv,
      SplitStep, MakeRoom, PushStep, PutStep, ExtendStep, PullStep, LowerStep, ShrinkStep,
      KillStep
  <2>5. SplitBehind'
    BY <2>1 DEF LeafInv, SplitBehind
  <2> QED
    BY <2>3, <2>4, <2>5 DEF LeafInv
<1> QED
  BY <1>3, <1>4, <1>5

LEMMA LeafStep == LeafInv /\ [Next]_vars => LeafInv'
<1>1. SUFFICES ASSUME LeafInv, [Next]_vars PROVE LeafInv'
  OBVIOUS
<1>2. CASE Writer
  BY <1>1, <1>2, BeginInsertLeaf, BeginDeleteLeaf, SplitLeaf, ClearLeaf, PushLeaf, PutLeaf,
    PullLeaf, ShrinkLeaf DEF Writer
<1>3. CASE (\E r \in Readers : Lookup(r)) \/ Finished \/ UNCHANGED vars
  <2>1. UNCHANGED <<leaf, writer>>
    <3>1. ASSUME NEW r \in Readers, Lookup(r) PROVE UNCHANGED <<leaf, writer>>
      <4>1. CASE Call(r) \/ LeafMax(r) \/ LeafMin(r) \/ Recheck(r) \/ Nr(r) \/ Scan(r)
        BY <4>1 DEF Call, LeafMax, LeafMin, Recheck, Nr, Scan, NextLeaf, Answer, Goto, Read
      <4>2. CASE Compare(r) \/ Wait(r) \/ Match(r) \/ Fetch(r) \/ Verify(r) \/ VerifyMax(r)
        BY <4>2 DEF Compare, Wait, Match, Fetch, Verify, VerifyMax, NextLeaf, Answer, Goto, Read
      <4> QED
        BY <3>1, <4>1, <4>2 DEF Lookup
    <3>2. CASE Finished \/ UNCHANGED vars
      BY <3>2 DEF Finished, vars
    <3> QED
      BY <1>3, <3>1, <3>2
  <2> QED
    <3>1. UNCHANGED <<nr, max, keys, ptrs, dead, split, wpc, w>>
      BY <2>1 DEF leaf, writer
    <3>2. LeafType' /\ RestInv' /\ OldInv' /\ SplitBehind'
      BY <1>1, <3>1 DEF LeafInv, LeafType, RestInv, OldInv, SplitBehind
    <3>4. InsertInv' /\ DeleteInv'
      BY <1>1, <3>1 DEF LeafInv, InsertInv, DeleteInv
    <3>3. StepInv'
      BY <1>1, <3>1 DEF LeafInv, StepInv, SplitStep, MakeRoom, PushStep, PutStep, ExtendStep,
        PullStep, LowerStep, ShrinkStep, KillStep, InPlace, Holds, Kept
    <3> QED
      BY <3>2, <3>3, <3>4 DEF LeafInv
<1> QED
  BY <1>1, <1>2, <1>3 DEF Next

LEMMA LeafCorrect == Spec => []LeafInv
BY InitLeaf, LeafStep, PTL DEF Spec

-----------------------------------------------------------------------------
(* keys[0] and max are bounds of the leaf *)

LEMMA OrderedEnds ==
  ASSUME NEW s \in Seq(Slot), Ordered(s), NEW i \in 1..Len(s), NEW j \in 1..Len(s), i <= j
  PROVE  /\ s[i] \in Slot /\ s[j] \in Slot
         /\ s[i].key <= s[j].key /\ End(s[i]) <= End(s[j])
         /\ i < j => End(s[i]) <= s[j].key
<1>1. s[i] \in Slot /\ s[j] \in Slot
  OBVIOUS
<1>2. i = j \/ End(s[i]) <= s[j].key
  BY DEF Ordered
<1>3. i < j => End(s[i]) <= s[j].key
  BY DEF Ordered
<1> QED
  BY <1>1, <1>2, <1>3, SlotEnd

\* keys[0] during a change: that of the first range, of the one inserted before
\* it, or of the one behind it when it is deleted.
LEMMA FirstKey ==
  ASSUME LeafInv, wpc # "rest"
  PROVE  \/ keys[0] = w.old[1].key
         \/ wpc \in Inserting /\ keys[0] = w.r.key /\ w.slot = 0
         \/ wpc \in Deleting /\ keys[0] = w.old[2].key /\ w.slot = 0 /\ Len(w.old) > 1
<1>1. /\ Len(w.old) \in 1..Cap /\ Cap \in Nat /\ w.slot \in Nat /\ nr \in 0..Cap
      /\ Kept \in 1..Len(w.old) /\ w.i \in Nat /\ w \in WriterType
  <2>1. Len(w.old) \in 1..Cap /\ Cap \in Nat /\ w \in WriterType /\ nr \in 0..Cap
    BY CapAssumption DEF LeafInv, OldInv, LeafType
  <2>2. w.slot \in Nat /\ w.i \in Nat
    BY <2>1 DEF WriterType
  <2>3. Kept \in 1..Len(w.old)
    BY <2>1, MidType DEF Kept
  <2> QED
    BY <2>1, <2>2, <2>3
<1>2. wpc \in Inserting \cup Deleting
  BY DEF LeafInv, LeafType
<1>3. CASE wpc \in {"splitmax", "splitnr", "clearkey", "clearptr", "grow"}
  <2>1. Holds(0, w.old[0 + 1])
    <3>1. InPlace(Cap) \/ InPlace(Kept)
      BY <1>3 DEF LeafInv, StepInv, SplitStep, MakeRoom
    <3> QED
      BY <1>1, <3>1 DEF InPlace
  <2> QED
    BY <2>1 DEF Holds
<1>4. CASE wpc \in {"pushkey", "pushptr"}
  <2>1. /\ w.i \in w.slot..Kept /\ InPlace(w.i) /\ w.slot < Kept
        /\ IF wpc = "pushptr" THEN w.i > w.slot
           ELSE w.i < Kept => Holds(w.i, w.old[w.i + 1])
    BY <1>4 DEF LeafInv, StepInv, PushStep
  <2>2. CASE w.i > 0
    <3>1. 0 \in 0..w.i - 1
      BY <1>1, <2>2
    <3>2. Holds(0, w.old[0 + 1])
      BY <2>1, <3>1 DEF InPlace
    <3> QED
      BY <3>2 DEF Holds
  <2>3. CASE w.i = 0
    BY <1>1, <1>4, <2>1, <2>3 DEF Holds
  <2> QED
    BY <1>1, <2>2, <2>3
<1>5. CASE wpc = "putptr" /\ w.slot # nr
  <2>1. InPlace(w.slot) /\ keys[w.slot] = w.r.key
    BY <1>5 DEF LeafInv, StepInv, PutStep
  <2>2. CASE w.slot = 0
    BY <1>5, <2>1, <2>2 DEF Inserting
  <2>3. CASE w.slot # 0
    <3>1. 0 \in 0..w.slot - 1
      BY <1>1, <2>3
    <3>2. Holds(0, w.old[0 + 1])
      BY <2>1, <3>1 DEF InPlace
    <3> QED
      BY <3>2 DEF Holds
  <2> QED
    BY <2>2, <2>3
<1>6. CASE wpc \in {"extend", "putkey", "count"} \/ (wpc = "putptr" /\ w.slot = nr)
  <2>1. nr = Len(w.old) /\ InPlace(nr)
    BY <1>6 DEF LeafInv, StepInv, ExtendStep
  <2>2. 0 \in 0..nr - 1
    BY <1>1, <2>1
  <2>3. Holds(0, w.old[0 + 1])
    BY <2>1, <2>2 DEF InPlace
  <2> QED
    BY <2>3 DEF Holds
<1>7. CASE wpc \in {"pullkey", "pullptr"}
  <2>1. /\ nr = Len(w.old) /\ w.slot < nr - 1 /\ w.i \in w.slot..nr - 1 /\ InPlace(w.slot)
        /\ \A j \in w.slot..w.i - 1 : Holds(j, w.old[j + 2])
        /\ IF wpc = "pullkey" THEN Holds(w.i, w.old[w.i + 1])
           ELSE w.i < nr - 1 => keys[w.i] = w.old[w.i + 2].key
    BY <1>7 DEF LeafInv, StepInv, PullStep
  <2>2. Len(w.old) > 1
    BY <1>1, <2>1
  <2>3. CASE w.slot # 0
    <3>1. 0 \in 0..w.slot - 1
      BY <1>1, <2>3
    <3>2. Holds(0, w.old[0 + 1])
      BY <2>1, <3>1 DEF InPlace
    <3> QED
      BY <3>2 DEF Holds
  <2>4. CASE w.slot = 0 /\ w.i # 0
    <3>1. 0 \in w.slot..w.i - 1
      BY <1>1, <2>4
    <3>2. Holds(0, w.old[0 + 2])
      BY <2>1, <3>1
    <3> QED
      BY <1>7, <2>2, <2>4, <3>2 DEF Holds, Deleting
  <2>5. CASE w.slot = 0 /\ w.i = 0
    <3>1. CASE wpc = "pullkey"
      BY <2>1, <2>5, <3>1 DEF Holds
    <3>2. CASE wpc = "pullptr"
      <4>1. w.i < nr - 1 /\ w.i + 2 = 2
        BY <2>1, <2>5
      <4> QED
        BY <2>1, <2>2, <2>5, <3>2, <4>1 DEF Deleting
    <3> QED
      BY <1>7, <3>1, <3>2
  <2> QED
    BY <2>3, <2>4, <2>5
<1>8. CASE wpc = "lowermax" \/ wpc = "kill"
  <2>1. (InPlace(nr) /\ nr > 1) \/ InPlace(1)
    BY <1>8 DEF LeafInv, StepInv, LowerStep, KillStep
  <2>2. 0 \in 0..1 - 1 /\ (nr > 1 => 0 \in 0..nr - 1)
    BY <1>1
  <2>3. Holds(0, w.old[0 + 1])
    BY <2>1, <2>2 DEF InPlace
  <2> QED
    BY <2>3 DEF Holds
<1>9. CASE wpc = "shrink"
  <2>1. /\ nr = Len(w.old)
        /\ IF w.slot = nr - 1 THEN InPlace(nr)
           ELSE /\ InPlace(w.slot)
                /\ \A j \in w.slot..nr - 2 : Holds(j, w.old[j + 2])
    BY <1>9 DEF LeafInv, StepInv, ShrinkStep
  <2>2. w.slot \in 0..nr - 1
    BY <1>9, <2>1 DEF LeafInv, DeleteInv, Deleting
  <2>3. CASE w.slot # 0 \/ w.slot = nr - 1
    <3>1. 0 \in 0..w.slot - 1 \/ (w.slot = nr - 1 /\ 0 \in 0..nr - 1)
      BY <1>1, <2>2, <2>3
    <3>2. Holds(0, w.old[0 + 1])
      <4>1. CASE w.slot = nr - 1
        BY <1>1, <2>1, <4>1 DEF InPlace
      <4>2. CASE w.slot # nr - 1
        BY <2>1, <3>1, <4>2 DEF InPlace
      <4> QED
        BY <4>1, <4>2
    <3> QED
      BY <3>2 DEF Holds
  <2>4. CASE w.slot = 0 /\ w.slot # nr - 1
    <3>1. 0 \in w.slot..nr - 2 /\ Len(w.old) > 1
      <4>1. nr \in Nat /\ nr # 0 /\ nr # 1
        BY <1>1, <2>1, <2>4
      <4>2. nr > 1
        BY <4>1
      <4> QED
        BY <2>1, <2>4, <4>2
    <3>2. Holds(0, w.old[0 + 2])
      BY <2>1, <2>4, <3>1
    <3> QED
      BY <1>9, <2>4, <3>1, <3>2 DEF Holds, Deleting
  <2> QED
    BY <2>3, <2>4
<1> QED
  BY <1>2, <1>3, <1>4, <1>5, <1>6, <1>7, <1>8, <1>9 DEF Inserting, Deleting

\* max during a change: the end of the last range that stays, or more.
LEMMA LastEnd ==
  ASSUME LeafInv, wpc # "rest"
  PROVE  \/ wpc \in Inserting /\ \E k \in Kept..Len(w.old) : max = End(w.old[k])
         \/ wpc \in Inserting /\ w.slot = Len(w.old) /\ Len(w.old) # Cap /\ max = End(w.r)
         \/ wpc \in Deleting /\ max = End(w.old[Len(w.old)])
         \/ /\ wpc \in Deleting /\ w.slot = Len(w.old) - 1 /\ Len(w.old) > 1
            /\ max = End(w.old[Len(w.old) - 1])
<1>1. /\ Len(w.old) \in 1..Cap /\ Cap \in Nat /\ Kept \in 1..Len(w.old)
      /\ Len(w.old) = Cap => Kept = Mid /\ Mid \in 1..Cap
  <2>1. Len(w.old) \in 1..Cap /\ Cap \in Nat /\ Mid \in 1..Cap
    BY CapAssumption, MidType DEF LeafInv, OldInv
  <2>2. Kept = IF Len(w.old) = Cap THEN Mid ELSE Len(w.old)
    BY DEF Kept
  <2> QED
    BY <2>1, <2>2
<1>2. wpc \in Inserting \cup Deleting
  BY DEF LeafInv, LeafType
<1>3. CASE wpc \in {"splitmax", "splitnr"}
  <2>1. Len(w.old) = Cap /\ max = End(w.old[IF wpc = "splitmax" THEN Cap ELSE Mid])
    BY <1>3 DEF LeafInv, StepInv, SplitStep
  <2>2. Cap \in Kept..Len(w.old) /\ Mid \in Kept..Len(w.old)
    BY <1>1, <2>1
  <2> QED
    BY <1>3, <2>1, <2>2 DEF Inserting
<1>4. CASE wpc \in {"clearkey", "clearptr", "grow", "pushkey", "pushptr"}
           \/ (wpc = "putptr" /\ w.slot # nr)
  <2>1. max = End(w.old[Kept])
    BY <1>4 DEF LeafInv, StepInv, MakeRoom, PushStep, PutStep
  <2>2. Kept \in Kept..Len(w.old)
    BY <1>1
  <2> QED
    BY <1>4, <2>1, <2>2 DEF Inserting
<1>5. CASE wpc \in {"extend", "putkey", "count"} \/ (wpc = "putptr" /\ w.slot = nr)
  <2>1. /\ nr = Len(w.old) /\ w.slot = nr /\ nr < Cap
        /\ max = IF wpc = "extend" THEN End(w.old[nr]) ELSE End(w.r)
    BY <1>5 DEF LeafInv, StepInv, ExtendStep
  <2>2. Len(w.old) # Cap /\ Len(w.old) \in Kept..Len(w.old)
    BY <1>1, <2>1
  <2> QED
    BY <1>5, <2>1, <2>2 DEF Inserting
<1>6. CASE wpc \in {"pullkey", "pullptr", "lowermax"}
  BY <1>6 DEF LeafInv, StepInv, PullStep, LowerStep, Deleting
<1>7. CASE wpc = "shrink"
  <2>1. /\ nr = Len(w.old)
        /\ max = End(w.old[IF w.slot = nr - 1 /\ nr > 1 THEN nr - 1 ELSE nr])
    BY <1>7 DEF LeafInv, StepInv, ShrinkStep
  <2> QED
    BY <1>7, <2>1 DEF Deleting
<1>8. CASE wpc = "kill"
  BY <1>8 DEF LeafInv, StepInv, KillStep, Deleting
<1>9. CASE wpc = "putptr"
  BY <1>4, <1>5, <1>9
<1>10. CASE wpc # "putptr"
  <2>1. \/ wpc \in {"splitmax", "splitnr"}
        \/ wpc \in {"clearkey", "clearptr", "grow", "pushkey", "pushptr"}
        \/ wpc \in {"extend", "putkey", "count"}
        \/ wpc \in {"pullkey", "pullptr", "lowermax"}
        \/ wpc = "shrink"
        \/ wpc = "kill"
    BY <1>2, <1>10 DEF Inserting, Deleting
  <2> QED
    BY <1>3, <1>4, <1>5, <1>6, <1>7, <1>8, <2>1
<1> QED
  BY <1>9, <1>10

LEMMA LeafBounds == LeafInv => WithinMinMax
<1>1. SUFFICES ASSUME LeafInv, NEW s \in ToSet(Contents) \ (Leaving \cup ToSet(split))
               PROVE  keys[0] <= s.key /\ End(s) <= max
  BY DEF WithinMinMax
<1>2. CASE wpc = "rest"
  <2>1. ~ dead
    <3>1. dead => ToSet(Stored) = {}
      BY <1>1, <1>2 DEF LeafInv, RestInv, Stored, ToSet
    <3> QED
      BY <1>1, <1>2, <3>1 DEF Contents
  <2>2. /\ nr \in 1..Cap /\ Stored \in Seq(Slot) /\ Len(Stored) = nr /\ Ordered(Stored)
        /\ \A j \in 0..nr - 1 : ptrs[j] = Stored[j + 1] /\ keys[j] = Stored[j + 1].key
        /\ max = End(Stored[nr])
    BY <1>1, <1>2, <2>1, StoredLeaf
  <2>3. PICK k \in 1..nr : s = Stored[k]
    BY <1>1, <1>2, <2>2 DEF Contents, ToSet
  <2>4. 1 \in 1..nr /\ nr \in 1..nr /\ 1 <= k /\ k <= nr /\ 0 \in 0..nr - 1 /\ Cap \in Nat
    BY <2>2, CapAssumption
  <2>5. keys[0] = Stored[1].key
    BY <2>2, <2>4
  <2>6. Stored[1].key <= Stored[k].key /\ End(Stored[k]) <= End(Stored[nr])
    BY <2>2, <2>4, OrderedEnds
  <2> QED
    BY <2>2, <2>3, <2>5, <2>6
<1>3. CASE wpc # "rest"
  <2> DEFINE n == Len(w.old)
  <2>1. /\ n \in 1..Cap /\ Cap \in Nat /\ Kept \in 1..n /\ w.old \in Seq(Slot) /\ Ordered(w.old)
        /\ n = Cap => Kept = Mid
        /\ n # Cap => Kept = n
    <3>1. Len(w.old) \in 1..Cap /\ Cap \in Nat /\ Mid \in 1..Cap
      BY <1>1, <1>3, CapAssumption, MidType DEF LeafInv, OldInv
    <3>2. w.old \in Seq(Slot) /\ Ordered(w.old)
      BY <1>1, <1>3 DEF LeafInv, LeafType, WriterType, OldInv
    <3>3. Kept = IF Len(w.old) = Cap THEN Mid ELSE Len(w.old)
      BY DEF Kept
    <3> QED
      BY <3>1, <3>2, <3>3
  <2>2. PICK k \in 1..n : s = w.old[k]
    BY <1>1, <1>3, <2>1 DEF Contents, ToSet
  <2>3. wpc \in Inserting \cup Deleting
    BY <1>1, <1>3 DEF LeafInv, LeafType
  <2>4. ASSUME wpc \in Inserting PROVE k <= Kept
    <3>1. n = Cap => \A j \in Mid + 1..Cap : w.old[j] \in ToSet(split)
      BY <1>1, <2>4 DEF LeafInv, InsertInv
    <3>2. n = Cap => k \notin Mid + 1..Cap
      BY <1>1, <2>2, <3>1
    <3>3. Mid \in Nat
      BY MidType
    <3> QED
      BY <2>1, <3>2, <3>3
  <2>5. ASSUME wpc \in Deleting PROVE k # w.slot + 1 /\ w.slot \in 0..n - 1
    BY <1>1, <1>3, <2>2, <2>5 DEF LeafInv, DeleteInv, Leaving
  <2>6. ASSUME wpc \in Inserting
        PROVE  /\ w.r \in Slot /\ w.slot \in 0..n
               /\ \A j \in 1..w.slot : End(w.old[j]) <= w.r.key
               /\ \A j \in w.slot + 1..n : End(w.r) <= w.old[j].key
    BY <1>1, <2>6 DEF LeafInv, InsertInv
  <2>7. s \in Slot
    BY <2>1, <2>2
  <2> HIDE DEF n
  <2>8. \A i, j \in 1..n : i <= j =>
          /\ w.old[i] \in Slot /\ w.old[j] \in Slot
          /\ w.old[i].key <= w.old[j].key /\ End(w.old[i]) <= End(w.old[j])
    BY <2>1, OrderedEnds DEF n
  <2>9. keys[0] <= s.key
    <3>1. CASE keys[0] = w.old[1].key
      BY <2>1, <2>2, <2>8, <3>1
    <3>2. CASE wpc \in Inserting /\ keys[0] = w.r.key /\ w.slot = 0
      <4>1. k \in w.slot + 1..n
        BY <2>1, <3>2
      <4> QED
        BY <2>2, <2>6, <2>7, <3>2, <4>1, SlotEnd
    <3>3. CASE wpc \in Deleting /\ keys[0] = w.old[2].key /\ w.slot = 0 /\ Len(w.old) > 1
      <4>1. 2 \in 1..n /\ 2 <= k
        BY <2>1, <2>5, <3>3 DEF n
      <4> QED
        BY <2>2, <2>8, <3>3, <4>1
    <3> QED
      BY <1>1, <1>3, <3>1, <3>2, <3>3, FirstKey
  <2>10. End(s) <= max
    <3>1. CASE wpc \in Inserting /\ \E j \in Kept..n : max = End(w.old[j])
      <4>1. PICK j \in Kept..n : max = End(w.old[j])
        BY <3>1
      <4>2. j \in 1..n /\ k <= j
        BY <2>1, <2>4, <3>1, <4>1
      <4> QED
        BY <2>2, <2>8, <4>1, <4>2
    <3>2. CASE wpc \in Inserting /\ w.slot = n /\ n # Cap /\ max = End(w.r)
      <4>1. k \in 1..w.slot
        BY <3>2
      <4> QED
        BY <2>2, <2>6, <2>7, <3>2, <4>1, SlotEnd
    <3>3. CASE wpc \in Deleting /\ max = End(w.old[n])
      BY <2>1, <2>2, <2>8, <3>3
    <3>4. CASE wpc \in Deleting /\ w.slot = n - 1 /\ n > 1 /\ max = End(w.old[n - 1])
      <4>1. k <= n - 1 /\ n - 1 \in 1..n
        BY <2>1, <2>5, <3>4
      <4> QED
        BY <2>2, <2>8, <3>4, <4>1
    <3> QED
      BY <1>1, <1>3, <3>1, <3>2, <3>3, <3>4, LastEnd DEF n
  <2> QED
    BY <2>9, <2>10
<1> QED
  BY <1>2, <1>3

\* A walk without the lock may take keys[0] and max for the bounds of a leaf:
\* at every store of a change no range that stays in it lies outside.
THEOREM WithinMinMaxTheorem == Spec => []WithinMinMax
BY LeafCorrect, LeafBounds, PTL

-----------------------------------------------------------------------------
(* The stores of a change add up to it *)

\* The lower half of a full leaf is what a split leaves.
LEMMA LowerIsStays ==
  ASSUME LeafInv, wpc \in Inserting
  PROVE  Lower = IF Len(w.old) < Cap THEN w.old ELSE SplitStays(w.old, w.slot + 1)
<1>1. w.old \in Seq(Slot) /\ Len(w.old) \in 1..Cap /\ Cap \in Nat
  BY CapAssumption DEF LeafInv, LeafType, WriterType, OldInv, Inserting
<1>2. CASE Len(w.old) < Cap
  <2>1. Kept = Len(w.old)
    BY <1>1, <1>2 DEF Kept
  <2>2. \A q \in Seq(Slot) : SubSeq(q, 1, Len(q)) = q
    OBVIOUS
  <2> QED
    BY <1>1, <1>2, <2>1, <2>2 DEF Lower
<1>3. CASE Len(w.old) = Cap
  <2>1. w.slot \in 0..Cap - 1
    BY <1>1, <1>3 DEF LeafInv, InsertInv
  <2>2. ~ (w.slot + 1 > Len(w.old))
    BY <1>1, <1>3, <2>1
  <2> QED
    <3>1. SplitStays(w.old, w.slot + 1) = SubSeq(w.old, 1, Mid)
      BY <2>2 DEF SplitStays
    <3>2. Kept = Mid /\ ~ (Len(w.old) < Cap)
      BY <1>1, <1>3 DEF Kept
    <3> QED
      BY <3>1, <3>2 DEF Lower
<1> QED
  BY <1>1, <1>2, <1>3

LEMMA SplitRests ==
  ASSUME LeafInv, SplitNr, wpc' = "rest"
  PROVE  ~ dead' /\ RestInv' /\ Stored' = Lower /\ Len(w.old) = Cap
         /\ ~ SplitLeavesRoom(w.old, w.slot + 1)
<1>1. /\ wpc = "splitnr" /\ nr' = Mid /\ UNCHANGED <<max, keys, ptrs, dead, split, w>>
      /\ ~ SplitLeavesRoom(w.old, w.slot + 1)
  BY DEF SplitNr, StoreNr, Then
<1>2. /\ Len(w.old) = Cap /\ InPlace(Cap) /\ max = End(w.old[Mid])
      /\ w.old \in Seq(Slot) /\ Ordered(w.old) /\ ~ dead
  BY <1>1 DEF LeafInv, LeafType, WriterType, OldInv, StepInv, SplitStep
<1>3. Kept = Mid /\ Mid \in 1..Cap /\ Cap \in Nat
  BY <1>2, MidType, CapAssumption DEF Kept
<1>4. /\ Lower \in Seq(Slot) /\ Len(Lower) = Mid /\ Ordered(Lower)
      /\ \A j \in 1..Mid : Lower[j] = w.old[j]
  <2>1. Mid \in 1..Len(w.old)
    BY <1>2, <1>3
  <2> QED
    BY <1>2, <1>3, <2>1, LowerIs DEF Lower
<1>5. /\ \A j \in 0..Len(Lower) - 1 : keys'[j] = Lower[j + 1].key /\ ptrs'[j] = Lower[j + 1]
      /\ max' = End(Lower[Len(Lower)])
      /\ nr' = Len(Lower) /\ Len(Lower) \in 1..Cap /\ ~ dead'
  <2>1. \A j \in 0..Mid - 1 : j \in 0..Cap - 1 /\ j + 1 \in 1..Mid
    BY <1>3
  <2>2. \A j \in 0..Mid - 1 : keys[j] = Lower[j + 1].key /\ ptrs[j] = Lower[j + 1]
    BY <1>2, <1>4, <2>1 DEF InPlace, Holds
  <2> QED
    BY <1>1, <1>2, <1>3, <1>4, <2>2
<1> QED
  BY <1>1, <1>2, <1>4, <1>5, AtRest

\* What the lock holder leaves behind.
LEMMA ChangeDone ==
  ASSUME LeafInv, Writer, wpc # "rest", wpc' = "rest", ~ dead'
  PROVE  /\ RestInv'
         /\ \/ wpc \in Deleting /\ Stored' = Deleted
            \/ wpc \in Inserting /\ Stored' = Inserted
               /\ (Len(w.old) = Cap => SplitLeavesRoom(w.old, w.slot + 1))
            \/ wpc \in Inserting /\ Stored' = Lower /\ Len(w.old) = Cap
               /\ ~ SplitLeavesRoom(w.old, w.slot + 1)
<1>1. CASE SplitNr
  BY <1>1, SplitRests DEF SplitNr, Inserting
<1>2. CASE PutPtr
  <2>1. w.slot # nr
    BY <1>2 DEF PutPtr, Then
  <2>2. wpc = "putptr"
    BY <1>2 DEF PutPtr
  <2>3. w.slot < Kept /\ w.slot \in Nat
    BY <2>1, <2>2 DEF LeafInv, StepInv, PutStep, LeafType, WriterType
  <2>4. Len(w.old) = Cap => SplitLeavesRoom(w.old, w.slot + 1)
    BY <2>3, MidType DEF Kept, SplitLeavesRoom
  <2> QED
    BY <1>2, <2>1, <2>2, <2>4, PutPtrRests DEF Inserting
<1>3. CASE Count
  <2>1. wpc = "count" /\ Len(w.old) # Cap
    <3>1. wpc = "count"
      BY <1>3 DEF Count
    <3>2. nr = Len(w.old) /\ nr < Cap /\ nr \in 0..Cap
      BY <3>1 DEF LeafInv, LeafType, StepInv, ExtendStep
    <3> QED
      BY <3>1, <3>2, CapAssumption
  <2> QED
    BY <1>3, <2>1, CountRests DEF Inserting
<1>4. CASE Shrink
  <2>1. wpc = "shrink" /\ nr # 1
    BY <1>4 DEF Shrink, Then
  <2>2. nr \in 1..Cap
    BY <2>1 DEF LeafInv, StepInv, ShrinkStep, OldInv
  <2>3. nr > 1
    BY <2>1, <2>2, CapAssumption
  <2> QED
    BY <1>4, <2>1, <2>3, ShrinkRests DEF Deleting
<1>5. CASE Kill
  BY <1>5 DEF Kill
<1>6. CASE BeginInsert \/ BeginDelete
  BY <1>6 DEF BeginInsert, BeginDelete
<1>7. CASE SplitMax \/ ClearKey \/ ClearPtr \/ Grow \/ PushKey \/ PushPtr \/ PutKey \/ Extend
           \/ PullKey \/ PullPtr \/ LowerMax
  BY <1>7 DEF SplitMax, ClearKey, ClearPtr, Grow, PushKey, PushPtr, PutKey, Extend, PullKey,
    PullPtr, LowerMax, Then
<1> QED
  BY <1>1, <1>2, <1>3, <1>4, <1>5, <1>6, <1>7 DEF Writer

LEMMA ChangeStep == LeafInv /\ [Next]_vars => ChangedLeaf
<1>1. SUFFICES ASSUME LeafInv, [Next]_vars, wpc # "rest", wpc' = "rest", ~ dead'
               PROVE  /\ Stored' \in
                           IF w.out # {} THEN {RemoveAt(w.old, w.slot + 1)}
                           ELSE LET lower == SplitStays(w.old, w.slot + 1)
                                IN  IF Len(w.old) < Cap
                                    THEN {InsertAt(w.old, w.slot + 1, w.r)}
                                    ELSE IF SplitLeavesRoom(w.old, w.slot + 1)
                                    THEN {InsertAt(lower, w.slot + 1, w.r)} ELSE {lower}
                      /\ \A i \in 0..nr' - 1 : keys'[i] = ptrs'[i].key
                      /\ nr' > 0 => max' = End(ptrs'[nr' - 1])
  BY DEF ChangedLeaf
<1>2. Writer
  <2>1. ASSUME NEW r \in Readers, Lookup(r) PROVE wpc' = wpc
    BY <2>1 DEF Lookup, Call, LeafMax, LeafMin, Recheck, Nr, Scan, Compare, Wait, Match, Fetch,
      Verify, VerifyMax, NextLeaf, Answer, Goto, Read, writer
  <2>2. UNCHANGED vars => wpc' = wpc
    BY DEF vars, writer
  <2> QED
    BY <1>1, <2>1, <2>2 DEF Next, Finished
<1>3. /\ RestInv'
      /\ \/ wpc \in Deleting /\ Stored' = Deleted
         \/ wpc \in Inserting /\ Stored' = Inserted
            /\ (Len(w.old) = Cap => SplitLeavesRoom(w.old, w.slot + 1))
         \/ wpc \in Inserting /\ Stored' = Lower /\ Len(w.old) = Cap
            /\ ~ SplitLeavesRoom(w.old, w.slot + 1)
  BY <1>1, <1>2, ChangeDone
<1>4. /\ \A i \in 0..nr' - 1 : keys'[i] = ptrs'[i].key
      /\ nr' > 0 => max' = End(ptrs'[nr' - 1])
  BY <1>1, <1>3 DEF RestInv
<1>5. CASE wpc \in Deleting /\ Stored' = Deleted
  <2>1. w.out # {}
    BY <1>1, <1>5 DEF LeafInv, DeleteInv
  <2> QED
    BY <1>4, <1>5, <2>1 DEF Deleted
<1>6. CASE wpc \in Inserting
  <2>1. w.out = {}
    BY <1>1, <1>6 DEF LeafInv, InsertInv
  <2>2. Len(w.old) <= Cap /\ Len(w.old) \in Nat /\ Cap \in Nat
    BY <1>1, CapAssumption DEF LeafInv, OldInv
  <2>3. wpc \notin Deleting
    BY <1>6 DEF Inserting, Deleting
  <2>4. Lower = IF Len(w.old) < Cap THEN w.old ELSE SplitStays(w.old, w.slot + 1)
    BY <1>1, <1>6, LowerIsStays
  <2>5. CASE Len(w.old) < Cap
    <3>1. Stored' = InsertAt(w.old, w.slot + 1, w.r)
      BY <1>3, <2>2, <2>3, <2>4, <2>5 DEF Inserted
    <3> QED
      BY <1>4, <2>1, <2>5, <3>1
  <2>6. CASE ~ (Len(w.old) < Cap)
    <3>1. Len(w.old) = Cap
      BY <2>2, <2>6
    <3>2. Lower = SplitStays(w.old, w.slot + 1)
      BY <2>4, <2>6
    <3>3. \/ /\ SplitLeavesRoom(w.old, w.slot + 1)
             /\ Stored' = InsertAt(SplitStays(w.old, w.slot + 1), w.slot + 1, w.r)
          \/ /\ ~ SplitLeavesRoom(w.old, w.slot + 1)
             /\ Stored' = SplitStays(w.old, w.slot + 1)
      BY <1>3, <2>3, <3>1, <3>2 DEF Inserted
    <3> QED
      BY <1>4, <2>1, <2>6, <3>3
  <2> QED
    BY <2>5, <2>6
<1> QED
  BY <1>3, <1>5, <1>6

\* When the lock of a leaf is released that is not dead, the stores have made
\* of it what Skiplist makes of it in one step: nothing is lost, doubled or out
\* of order, and the keys and max are those of the ranges.
THEOREM ChangesLeafTheorem == Spec => ChangesLeaf
<1>1. LeafInv /\ [Next]_vars => [ChangedLeaf]_vars
  BY ChangeStep
<1> QED
  BY <1>1, LeafCorrect, PTL DEF Spec, ChangesLeaf

-----------------------------------------------------------------------------
(* Lookups whose slots are not moved *)

LEMMA InitReaders == Init => LookupTypeOK /\ ReadersInv
<1>1. SUFFICES ASSUME Init PROVE LookupTypeOK /\ ReadersInv
  OBVIOUS
<1>2. LeafType
  BY <1>1, InitLeaf DEF LeafInv
<1>3. pc = [r \in Readers |-> "rest"]
  BY <1>1 DEF Init
<1>4. rd = [r \in Readers |-> [arg |-> Null, last |-> 0, i |-> 0, cur |-> 0, read |-> 0,
             found |-> Null, moved |-> FALSE, ever |-> {}, always |-> {}]]
  BY <1>1 DEF Init
<1>5. rd \in [Readers -> ReaderType] /\ pc \in [Readers -> Labels]
  BY <1>3, <1>4, CapAssumption DEF ReaderType, Labels
<1> QED
  BY <1>2, <1>3, <1>5 DEF LookupTypeOK, ReadersInv, ReadInv, AnswerInv, Active

\* A change that moves nothing works behind the last slot, or at it: what the
\* leaf holds lies in its slots as before.
LEMMA StillLeaf ==
  ASSUME LeafInv, wpc # "rest" => ~ w.moves
  PROVE  /\ wpc # "splitmax"
         /\ wpc \in Inserting =>
              wpc \in {"extend", "putkey", "putptr", "count"} /\ w.slot = nr /\ nr \in 1..Cap
         /\ wpc \in Deleting => wpc \in {"lowermax", "shrink", "kill"}
         /\ dead => ToSet(Contents) = {} /\ wpc = "rest"
         /\ ~ dead => ptrs[0] \in ToSet(Contents) /\ keys[0] = ptrs[0].key
         /\ \A j \in 0..nr - 1 : ptrs[j] \in ToSet(Contents) /\ keys[j] = ptrs[j].key
         /\ \A j, k \in 0..nr - 1 : j < k => End(ptrs[j]) <= ptrs[k].key
         /\ \A s \in ToSet(Contents) \ Leaving : \E j \in 0..nr - 1 : ptrs[j] = s
<1>1. CASE wpc = "rest" /\ dead
  <2>1. nr = 0
    BY <1>1 DEF LeafInv, RestInv
  <2>2. ToSet(Contents) = {}
    BY <1>1, <2>1 DEF Contents, Stored, ToSet
  <2> QED
    BY <1>1, <2>1, <2>2 DEF Inserting, Deleting
<1>2. CASE wpc = "rest" /\ ~ dead
  <2>1. /\ nr \in 1..Cap /\ Stored \in Seq(Slot) /\ Len(Stored) = nr
        /\ \A j \in 0..nr - 1 : ptrs[j] = Stored[j + 1] /\ keys[j] = Stored[j + 1].key
    BY <1>2, StoredLeaf
  <2>2. /\ \A j \in 0..nr - 1 : keys[j] = ptrs[j].key
        /\ \A j, k \in 0..nr - 1 : j < k => End(ptrs[j]) <= ptrs[k].key
    BY <1>2 DEF LeafInv, RestInv
  <2>3. Contents = Stored
    BY <1>2 DEF Contents
  <2>4. \A j \in 0..nr - 1 : j + 1 \in 1..nr
    BY <2>1, CapAssumption
  <2>5. \A j \in 0..nr - 1 : ptrs[j] \in ToSet(Contents)
    BY <2>1, <2>3, <2>4 DEF ToSet
  <2>6. ASSUME NEW s \in ToSet(Contents) PROVE \E j \in 0..nr - 1 : ptrs[j] = s
    <3>1. PICK k \in 1..nr : s = Stored[k]
      BY <2>1, <2>3 DEF ToSet
    <3>2. k - 1 \in 0..nr - 1 /\ (k - 1) + 1 = k
      BY <2>1, CapAssumption
    <3> QED
      BY <2>1, <3>1, <3>2
  <2>7. 0 \in 0..nr - 1
    BY <2>1, CapAssumption
  <2> QED
    BY <1>2, <2>2, <2>5, <2>6, <2>7 DEF Inserting, Deleting
<1>3. CASE wpc # "rest"
  <2> DEFINE n == Len(w.old)
  <2>1. /\ ~ dead /\ n \in 1..Cap /\ Cap \in Nat /\ w.old \in Seq(Slot) /\ Ordered(w.old)
        /\ w.slot \in Nat /\ nr \in 0..Cap /\ Contents = w.old /\ Leaving = w.out /\ ~ w.moves
        /\ Kept \in 1..n
    <3>1. n \in 1..Cap /\ Cap \in Nat /\ Mid \in 1..Cap
      BY <1>3, MidType, CapAssumption DEF LeafInv, OldInv
    <3>2. Kept \in 1..n
      BY <3>1 DEF Kept
    <3> QED
      BY <1>3, <3>1, <3>2 DEF LeafInv, OldInv, LeafType, WriterType, Contents, Leaving
  <2>2. wpc \in Inserting \cup Deleting
    BY <1>3 DEF LeafInv, LeafType
  <2>3. ASSUME wpc \in Inserting
        PROVE  /\ wpc \in {"extend", "putkey", "putptr", "count"} /\ w.slot = nr /\ nr \in 1..Cap
               /\ wpc # "splitmax" /\ nr = n /\ InPlace(nr) /\ wpc \notin Deleting
    <3>1. w.slot = n
      BY <2>1, <2>3 DEF LeafInv, InsertInv
    <3>2. n # Cap
      BY <2>1, <2>3, <3>1 DEF LeafInv, InsertInv
    <3>3. ~ (w.slot < Kept)
      BY <2>1, <3>1
    <3>4. wpc \notin {"splitmax", "splitnr", "clearkey", "clearptr", "grow", "pushkey", "pushptr"}
      BY <3>2, <3>3 DEF LeafInv, StepInv, SplitStep, MakeRoom, PushStep
    <3>5. wpc = "putptr" => w.slot = nr
      BY <3>3 DEF LeafInv, StepInv, PutStep
    <3>6. wpc \in {"extend", "putkey", "putptr", "count"}
      BY <2>3, <3>4 DEF Inserting
    <3>7. nr = n /\ w.slot = nr /\ InPlace(nr)
      BY <3>5, <3>6 DEF LeafInv, StepInv, ExtendStep
    <3> QED
      BY <2>1, <3>6, <3>7 DEF Deleting
  <2>4. ASSUME wpc \in Deleting
        PROVE  /\ wpc \in {"lowermax", "shrink", "kill"} /\ wpc \notin Inserting
               /\ w.slot = n - 1 /\ w.out = {w.old[n]}
               /\ IF wpc = "kill" THEN nr = 0 /\ n = 1 /\ InPlace(1) ELSE nr = n /\ InPlace(nr)
    <3>1. w.slot = n - 1 /\ w.out = {w.old[w.slot + 1]} /\ w.slot + 1 = n
      BY <2>1, <2>4 DEF LeafInv, DeleteInv
    <3>2. wpc \notin {"pullkey", "pullptr"}
      BY <2>1, <3>1 DEF LeafInv, StepInv, PullStep
    <3>3. wpc \in {"lowermax", "shrink", "kill"} /\ wpc \notin Inserting
      BY <2>4, <3>2 DEF Deleting, Inserting
    <3>4. CASE wpc = "lowermax"
      BY <3>1, <3>3, <3>4 DEF LeafInv, StepInv, LowerStep
    <3>5. CASE wpc = "shrink"
      <4>1. nr = n
        BY <3>5 DEF LeafInv, StepInv, ShrinkStep
      <4>2. InPlace(nr)
        BY <3>1, <3>5, <4>1 DEF LeafInv, StepInv, ShrinkStep
      <4> QED
        BY <3>1, <3>3, <3>5, <4>1, <4>2
    <3>6. CASE wpc = "kill"
      BY <3>1, <3>3, <3>6 DEF LeafInv, StepInv, KillStep
    <3> QED
      BY <3>3, <3>4, <3>5, <3>6
  <2>5. InPlace(n) /\ nr \in {0, n} /\ (nr = 0 => Leaving = {w.old[n]} /\ n = 1)
    BY <2>1, <2>2, <2>3, <2>4
  <2> HIDE DEF n
  <2>6. \A j \in 0..n - 1 : keys[j] = w.old[j + 1].key /\ ptrs[j] = w.old[j + 1] /\ j + 1 \in 1..n
    BY <2>1, <2>5 DEF InPlace, Holds
  <2>7. \A j \in 0..n - 1 : ptrs[j] \in ToSet(Contents) /\ keys[j] = ptrs[j].key
    BY <2>1, <2>6 DEF ToSet, n
  <2>8. \A j, k \in 0..n - 1 : j < k => End(ptrs[j]) <= ptrs[k].key
    <3>1. ASSUME NEW j \in 0..n - 1, NEW k \in 0..n - 1, j < k
          PROVE  End(ptrs[j]) <= ptrs[k].key
      <4>1. j + 1 \in 1..n /\ k + 1 \in 1..n /\ j + 1 < k + 1
        BY <2>1, <3>1
      <4>2. End(w.old[j + 1]) <= w.old[k + 1].key
        BY <2>1, <4>1 DEF Ordered, n
      <4> QED
        BY <2>6, <4>2
    <3> QED
      BY <3>1
  <2>9. ASSUME NEW s \in ToSet(Contents) \ Leaving PROVE \E j \in 0..nr - 1 : ptrs[j] = s
    <3>1. PICK k \in 1..n : s = w.old[k]
      BY <2>1 DEF ToSet, n
    <3>2. nr = n
      <4>1. nr = 0 => k = n
        BY <2>1, <2>5
      <4> QED
        BY <2>5, <2>9, <3>1, <4>1
    <3>3. k - 1 \in 0..n - 1 /\ (k - 1) + 1 = k
      BY <2>1
    <3> QED
      BY <2>6, <3>1, <3>2, <3>3
  <2>10. 0 \in 0..n - 1 /\ \A j \in 0..nr - 1 : j \in 0..n - 1
    BY <2>1, <2>5
  <2> QED
    BY <1>3, <2>1, <2>2, <2>3, <2>4, <2>7, <2>8, <2>9, <2>10
<1> QED
  BY <1>1, <1>2, <1>3

\* What of that a lookup can rely on.
LEMMA StillSeen ==
  ASSUME LeafInv, NEW l \in ReaderType, SeenInv(l)
  PROVE  /\ wpc # "splitmax"
         /\ wpc \in Inserting => w.slot = nr
         /\ dead => Here(l) = {}
         /\ ~ dead => ptrs[0] \in l.ever /\ keys[0] = ptrs[0].key
         /\ \A j \in 0..nr - 1 : ptrs[j] \in l.ever /\ keys[j] = ptrs[j].key
         /\ \A j, k \in 0..nr - 1 : j < k => End(ptrs[j]) <= ptrs[k].key
         /\ \A s \in Here(l) : \E j \in 0..nr - 1 : ptrs[j] = s
         /\ \A s \in Here(l) : keys[0] <= s.key /\ End(s) <= max
         /\ \A s \in ToSet(split) : s \in Slot /\ s \in l.ever /\ keys[0] <= s.key /\ max <= s.key
<1>1. /\ wpc # "splitmax"
      /\ wpc \in Inserting => w.slot = nr
      /\ dead => ToSet(Contents) = {} /\ wpc = "rest"
      /\ ~ dead => ptrs[0] \in ToSet(Contents) /\ keys[0] = ptrs[0].key
      /\ \A j \in 0..nr - 1 : ptrs[j] \in ToSet(Contents) /\ keys[j] = ptrs[j].key
      /\ \A j, k \in 0..nr - 1 : j < k => End(ptrs[j]) <= ptrs[k].key
      /\ \A s \in ToSet(Contents) \ Leaving : \E j \in 0..nr - 1 : ptrs[j] = s
  BY StillLeaf DEF SeenInv
<1>2. Here(l) \subseteq ToSet(Contents) \ (Leaving \cup ToSet(split)) /\ ToSet(Contents) \subseteq l.ever
  BY DEF SeenInv, Here
<1>3. \A s \in Here(l) : keys[0] <= s.key /\ End(s) <= max
  BY <1>2, LeafBounds DEF WithinMinMax
<1>4. \A s \in ToSet(split) : s \in Slot /\ s \in l.ever /\ keys[0] <= s.key /\ max <= s.key
  <2>1. ToSet(split) \subseteq l.ever
    BY DEF SeenInv
  <2> QED
    BY <1>1, <2>1 DEF LeafInv, LeafType, SplitBehind, ToSet
<1> QED
  BY <1>1, <1>2, <1>3, <1>4

\* The two ends of a lookup that finds nothing in this leaf.
LEMMA CoversOverlaps ==
  ASSUME NEW s \in Slot, NEW r \in Slot, Covers(s, r.key)
  PROVE  Overlap(s, r)
BY SlotEnd DEF Covers, Overlap

\* The locals that a step of a lookup leaves alone.
Keeps(l, m) == m.arg = l.arg /\ m.ever = l.ever /\ m.always = l.always /\ m.moved = l.moved

LEMMA KeepsSeen ==
  ASSUME NEW l, NEW m, Keeps(l, m), SeenInv(l)
  PROVE  SeenInv(m) /\ Here(m) = Here(l)
BY DEF Keeps, SeenInv, Here

LEMMA NextLeafAnswer ==
  ASSUME LeafInv, NEW l \in ReaderType, NEW m \in ReaderType, Keeps(l, m), l.arg \in Slot,
         ~ l.moved => SeenInv(l) /\ \A s \in Here(l) : ~ Covers(s, l.arg.key),
         m.found \in {s \in ToSet(split) : Overlap(s, l.arg)} \cup {Null},
         m.found = Null =>
           \A s \in {t \in ToSet(split) : Overlap(t, l.arg)} : ~ Covers(s, l.arg.key)
  PROVE  ReadInv("done", m)
<1>1. SUFFICES ASSUME ~ m.moved
               PROVE  IF m.found = Null THEN \A s \in m.always : ~ Covers(s, m.arg.key)
                      ELSE m.found \in m.ever
  BY DEF ReadInv, AnswerInv, Active, Keeps
<1>2. SeenInv(l) /\ \A s \in Here(l) : ~ Covers(s, l.arg.key)
  BY <1>1 DEF Keeps
<1>3. \A s \in ToSet(split) : s \in Slot /\ s \in l.ever
  BY <1>2, StillSeen
<1>4. ASSUME m.found = Null, NEW s \in l.always PROVE ~ Covers(s, l.arg.key)
  <2>1. CASE s \in ToSet(split)
    BY <1>3, <1>4, <2>1, CoversOverlaps
  <2>2. CASE s \notin ToSet(split)
    BY <1>2, <2>2 DEF Here
  <2> QED
    BY <2>1, <2>2
<1>5. m.found # Null => m.found \in l.ever
  BY <1>3
<1> QED
  BY <1>4, <1>5 DEF Keeps

\* skiplist_lookup_leaf(): this leaf, the next one, or none.
LEMMA LeafMaxRead ==
  ASSUME LeafInv, NEW l \in ReaderType, ReadInv("leafmax", l), NEW m \in ReaderType, Keeps(l, m),
         ~ dead, m.read = max
  PROVE  ReadInv("leafmin", m)
<1>1. l.arg \in Slot
  BY DEF ReadInv
<1>2. ASSUME ~ m.moved
      PROVE  SeenInv(m) /\ FirstInv("leafmin", m) /\ BoundsInv("leafmin", m)
  <2>1. SeenInv(l)
    BY <1>2 DEF ReadInv, Active, Keeps
  <2>2. SeenInv(m)
    BY <2>1, KeepsSeen
  <2> QED
    BY <2>2, StillSeen DEF FirstInv, BoundsInv
<1> QED
  BY <1>1, <1>2 DEF ReadInv, CountedInv, AnswerInv, Keeps, Counted

LEMMA LeafMaxNext ==
  ASSUME LeafInv, NEW l \in ReaderType, ReadInv("leafmax", l), dead
  PROVE  l.arg \in Slot /\ (~ l.moved => SeenInv(l) /\ \A s \in Here(l) : ~ Covers(s, l.arg.key))
<1>1. l.arg \in Slot /\ (~ l.moved => SeenInv(l))
  BY DEF ReadInv, Active
<1> QED
  BY <1>1, StillSeen

LEMMA LeafMinNext ==
  ASSUME LeafInv, NEW l \in ReaderType, ReadInv("leafmin", l), l.arg.key >= l.read
  PROVE  l.arg \in Slot /\ (~ l.moved => SeenInv(l) /\ \A s \in Here(l) : ~ Covers(s, l.arg.key))
<1>1. /\ l.arg \in Slot
      /\ ~ l.moved => SeenInv(l) /\ \A s \in Here(l) : End(s) <= l.read
  BY DEF ReadInv, Active, BoundsInv
<1>2. ASSUME NEW s \in Here(l), End(s) <= l.read PROVE ~ Covers(s, l.arg.key)
  <2>1. s \in Slot /\ l.read \in Nat
    BY DEF Here, ReaderType
  <2> QED
    BY <1>1, <1>2, <2>1, SlotEnd DEF Covers
<1> QED
  BY <1>1, <1>2

LEMMA LeafMinRecheck ==
  ASSUME LeafInv, NEW l \in ReaderType, ReadInv("leafmin", l), NEW m \in ReaderType, Keeps(l, m),
         l.arg.key < keys[0]
  PROVE  ReadInv("recheck", m)
<1>1. l.arg \in Slot
  BY DEF ReadInv
<1>2. ASSUME ~ m.moved
      PROVE  SeenInv(m) /\ FirstInv("recheck", m) /\ BoundsInv("recheck", m)
  <2>1. SeenInv(l) /\ FirstInv("leafmin", l)
    BY <1>2 DEF ReadInv, Active, Keeps
  <2>2. SeenInv(m)
    BY <2>1, KeepsSeen
  <2>3. FirstInv("recheck", m)
    BY <2>1 DEF FirstInv, Keeps
  <2>4. ASSUME NEW s \in m.always PROVE m.arg.key < s.key
    <3>1. keys[0] <= s.key
      <4>1. CASE s \in ToSet(split)
        BY <2>2, <4>1, StillSeen
      <4>2. CASE s \notin ToSet(split)
        BY <2>2, <4>2, StillSeen DEF Here
      <4> QED
        BY <4>1, <4>2
    <3>2. s \in Slot /\ keys[0] \in Nat
      BY CapAssumption DEF ReaderType, LeafInv, LeafType
    <3> QED
      BY <1>1, <3>1, <3>2, SlotEnd DEF Keeps
  <2> QED
    BY <2>2, <2>3, <2>4 DEF BoundsInv
<1> QED
  BY <1>1, <1>2 DEF ReadInv, CountedInv, AnswerInv, Keeps, Counted

\* Back to the start of leaf_slot() or of skiplist_lookup_leaf(): what was
\* counted is forgotten.
LEMMA ReadAgain ==
  ASSUME NEW label \in Labels, NEW again \in {"leafmax", "nr"}, label \notin {"rest", "done", "oops"},
         NEW l \in ReaderType, ReadInv(label, l), again = "nr" => label # "leafmax"
  PROVE  ReadInv(again, l)
BY DEF ReadInv, Active, FirstInv, BoundsInv, CountedInv, AnswerInv, Counted

LEMMA RecheckAnswer ==
  ASSUME NEW l \in ReaderType, ReadInv("recheck", l), NEW m \in ReaderType, Keeps(l, m),
         m.found = Null
  PROVE  ReadInv("done", m)
<1>1. l.arg \in Slot
  BY DEF ReadInv
<1>2. ASSUME ~ m.moved, NEW s \in m.always PROVE ~ Covers(s, m.arg.key)
  <2>1. m.arg.key < s.key
    BY <1>2 DEF ReadInv, Active, BoundsInv, Keeps
  <2>2. s \in Slot /\ m.arg \in Slot
    BY <1>1 DEF ReaderType, Keeps
  <2> QED
    BY <2>1, <2>2, SlotEnd DEF Covers
<1> QED
  BY <1>1, <1>2 DEF ReadInv, AnswerInv, Active, Keeps

\* leaf_slot()
LEMMA NrRead ==
  ASSUME LeafInv, NEW l \in ReaderType, ReadInv("nr", l), NEW m \in ReaderType, Keeps(l, m),
         m.last = nr, m.i = 0, m.cur = 0
  PROVE  ReadInv("scan", m)
<1>1. l.arg \in Slot /\ nr \in Nat
  BY CapAssumption DEF ReadInv, LeafInv, LeafType
<1>2. ASSUME ~ m.moved
      PROVE  SeenInv(m) /\ FirstInv("scan", m) /\ CountedInv("scan", m)
  <2>1. SeenInv(l) /\ FirstInv("nr", l)
    BY <1>2 DEF ReadInv, Active, Keeps
  <2>2. SeenInv(m)
    BY <2>1, KeepsSeen
  <2>3. FirstInv("scan", m)
    BY <2>1 DEF FirstInv, Keeps
  <2>4. CountedInv("scan", m)
    BY <1>1, <2>2, StillSeen DEF CountedInv
  <2> QED
    BY <2>2, <2>3, <2>4
<1> QED
  BY <1>1, <1>2 DEF ReadInv, BoundsInv, AnswerInv, Keeps

LEMMA ScanOn ==
  ASSUME LeafInv, NEW l \in ReaderType, ReadInv("scan", l), NEW m \in ReaderType, Keeps(l, m),
         l.i < l.last, keys[l.i] < End(l.arg),
         m.last = l.last, m.cur = l.i, m.i = l.i + 1
  PROVE  ReadInv("scan", m)
<1>1. l.arg \in Slot /\ l.i \in Nat /\ l.last \in Nat
  BY CapAssumption DEF ReadInv, ReaderType
<1>2. ASSUME ~ m.moved
      PROVE  SeenInv(m) /\ FirstInv("scan", m) /\ CountedInv("scan", m)
  <2>1. SeenInv(l) /\ FirstInv("scan", l) /\ CountedInv("scan", l)
    BY <1>2 DEF ReadInv, Active, Keeps
  <2>2. SeenInv(m) /\ Here(m) = Here(l)
    BY <2>1, KeepsSeen
  <2>3. FirstInv("scan", m)
    BY <2>1 DEF FirstInv, Keeps
  <2>4. \A j \in 0..m.i - 1 : keys[j] < End(m.arg)
    <3>1. \A j \in 0..m.i - 1 : j \in 0..l.i - 1 \/ j = l.i
      BY <1>1
    <3> QED
      BY <2>1, <3>1 DEF CountedInv, Counted, Keeps
  <2>5. m.i <= m.last /\ m.cur = (IF m.i = 0 THEN 0 ELSE m.i - 1)
    BY <1>1
  <2>6. CountedInv("scan", m)
    BY <2>1, <2>2, <2>4, <2>5 DEF CountedInv, Counted, Keeps
  <2> QED
    BY <2>2, <2>3, <2>6
<1> QED
  BY <1>1, <1>2 DEF ReadInv, BoundsInv, AnswerInv, Keeps

LEMMA ScanEnd ==
  ASSUME LeafInv, NEW l \in ReaderType, ReadInv("scan", l), ~ (l.i < l.last /\ keys[l.i] < End(l.arg))
  PROVE  ReadInv("compare", l)
<1>1. l.arg \in Slot /\ l.i \in 0..Cap /\ l.last \in Nat /\ End(l.arg) \in Nat /\ keys[l.i] \in Nat
  BY CapAssumption, SlotEnd DEF ReadInv, ReaderType, LeafInv, LeafType
<1>2. ASSUME ~ l.moved PROVE CountedInv("compare", l)
  <2>1. CountedInv("scan", l)
    BY <1>2 DEF ReadInv, Active
  <2>2. l.i = l.last \/ keys[l.i] >= End(l.arg)
    <3>1. l.i <= l.last
      BY <2>1 DEF CountedInv, Counted
    <3> QED
      BY <1>1, <3>1, CapAssumption
  <2> QED
    BY <2>1, <2>2 DEF CountedInv, Counted
<1> QED
  BY <1>1, <1>2 DEF ReadInv, Active, FirstInv, BoundsInv, AnswerInv

\* The search has ended at cur: a range behind it starts behind the one looked
\* up, and one before it ends before cur.
LEMMA OnlyAtCur ==
  ASSUME LeafInv, NEW label \in {"compare", "match"}, NEW l \in ReaderType, l.arg \in Slot,
         SeenInv(l), CountedInv(label, l), l.last > 0,
         ~ Overlap(ptrs[l.cur], l.arg)
  PROVE  \A s \in Here(l) : ~ Covers(s, l.arg.key)
<1>1. /\ l.last \in Nat /\ l.i \in Nat /\ l.i <= l.last
      /\ l.cur = (IF l.i = 0 THEN 0 ELSE l.i - 1)
      /\ \A j \in 0..l.last - 1 : ptrs[j] \in l.ever /\ keys[j] = ptrs[j].key
      /\ \A j, k \in 0..l.last - 1 : j < k => End(ptrs[j]) <= ptrs[k].key
      /\ \A s \in Here(l) : \E j \in 0..l.last - 1 : ptrs[j] = s
      /\ \A j \in 0..l.i - 1 : keys[j] < End(l.arg)
      /\ l.i = l.last \/ keys[l.i] >= End(l.arg)
  BY CapAssumption DEF CountedInv, Counted, ReaderType
<1>2. SUFFICES ASSUME NEW j \in 0..l.last - 1, Covers(ptrs[j], l.arg.key) PROVE FALSE
  BY <1>1
<1>3. l.cur \in 0..l.last - 1
  BY <1>1
<1>4. \A k \in 0..l.last - 1 : ptrs[k] \in Slot
  BY <1>1 DEF ReaderType
<1>5. j # l.cur
  BY <1>2, <1>4, CoversOverlaps
<1>6. CASE j > l.cur
  <2>1. l.i \in 0..l.last - 1 /\ l.i <= j
    BY <1>1, <1>6
  <2>2. keys[l.i] >= End(l.arg) /\ keys[l.i] = ptrs[l.i].key
    BY <1>1, <2>1
  <2>3. l.i = j \/ End(ptrs[l.i]) <= ptrs[j].key
    BY <1>1, <2>1
  <2>4. ptrs[l.i] \in Slot /\ ptrs[j] \in Slot
    BY <1>4, <2>1
  <2> QED
    BY <1>2, <2>2, <2>3, <2>4, SlotEnd DEF Covers
<1>7. CASE j < l.cur
  <2>1. l.i # 0 /\ l.cur \in 0..l.i - 1
    BY <1>1, <1>3, <1>7
  <2>2. keys[l.cur] < End(l.arg) /\ keys[l.cur] = ptrs[l.cur].key
    BY <1>1, <1>3, <2>1
  <2>3. End(ptrs[j]) <= ptrs[l.cur].key
    BY <1>1, <1>3, <1>7
  <2>4. ptrs[l.cur] \in Slot /\ ptrs[j] \in Slot
    BY <1>3, <1>4
  <2> QED
    BY <1>2, <2>2, <2>3, <2>4, SlotEnd DEF Covers, Overlap
<1> QED
  BY <1>1, <1>3, <1>5, <1>6, <1>7

LEMMA CompareWait ==
  ASSUME NEW l \in ReaderType, ReadInv("compare", l)
  PROVE  ReadInv("wait", l)
BY DEF ReadInv, Active, FirstInv, BoundsInv, CountedInv, AnswerInv, Counted

LEMMA CompareVerify ==
  ASSUME LeafInv, NEW l \in ReaderType, ReadInv("compare", l), ~ (keys[l.cur] < End(l.arg))
  PROVE  ReadInv("verify", l)
<1>1. l.arg \in Slot
  BY DEF ReadInv
<1>2. ASSUME ~ l.moved PROVE \A s \in Here(l) : ~ Covers(s, l.arg.key)
  <2>1. SeenInv(l) /\ CountedInv("compare", l)
    BY <1>2 DEF ReadInv, Active
  <2>2. CASE l.last > 0
    <3>1. l.cur \in 0..l.last - 1 /\ keys[l.cur] = ptrs[l.cur].key /\ ptrs[l.cur] \in Slot
      BY <2>1, <2>2, CapAssumption DEF CountedInv, Counted, ReaderType
    <3>2. ~ Overlap(ptrs[l.cur], l.arg)
      BY <3>1 DEF Overlap
    <3> QED
      BY <1>1, <2>1, <2>2, <3>2, OnlyAtCur
  <2>3. CASE ~ (l.last > 0)
    <3>1. 0..l.last - 1 = {}
      BY <2>3, CapAssumption DEF ReaderType
    <3>2. Here(l) = {}
      BY <2>1, <3>1 DEF CountedInv, Counted
    <3> QED
      BY <3>2
  <2> QED
    BY <2>2, <2>3
<1> QED
  BY <1>1, <1>2 DEF ReadInv, Active, FirstInv, BoundsInv, CountedInv, AnswerInv, Counted

LEMMA WaitMatch ==
  ASSUME NEW l \in ReaderType, ReadInv("wait", l), NEW m \in ReaderType, Keeps(l, m),
         m.last = l.last, m.i = l.i, m.cur = l.cur, m.found = ptrs[l.cur]
  PROVE  ReadInv("match", m)
<1>1. ASSUME ~ m.moved
      PROVE  SeenInv(m) /\ FirstInv("match", m) /\ CountedInv("match", m)
  <2>1. SeenInv(l) /\ FirstInv("wait", l) /\ CountedInv("wait", l)
    BY <1>1 DEF ReadInv, Active, Keeps
  <2>2. SeenInv(m) /\ Here(m) = Here(l)
    BY <2>1, KeepsSeen
  <2> QED
    BY <2>1, <2>2 DEF FirstInv, CountedInv, Counted, Keeps
<1> QED
  BY <1>1 DEF ReadInv, BoundsInv, AnswerInv, Keeps

LEMMA MatchFetch ==
  ASSUME NEW l \in ReaderType, ReadInv("match", l)
  PROVE  ReadInv("fetch", l)
BY DEF ReadInv, Active, FirstInv, BoundsInv, CountedInv, AnswerInv, Counted

LEMMA MatchVerify ==
  ASSUME LeafInv, NEW l \in ReaderType, ReadInv("match", l), ~ Overlap(l.found, l.arg)
  PROVE  ReadInv("verify", l)
<1>1. l.arg \in Slot
  BY DEF ReadInv
<1>2. ASSUME ~ l.moved PROVE \A s \in Here(l) : ~ Covers(s, l.arg.key)
  <2>1. SeenInv(l) /\ CountedInv("match", l)
    BY <1>2 DEF ReadInv, Active
  <2>2. CASE l.last > 0
    <3>1. ~ Overlap(ptrs[l.cur], l.arg)
      BY <2>1 DEF CountedInv, Counted
    <3> QED
      BY <1>1, <2>1, <2>2, <3>1, OnlyAtCur
  <2>3. CASE ~ (l.last > 0)
    <3>1. 0..l.last - 1 = {}
      BY <2>3, CapAssumption DEF ReaderType
    <3>2. Here(l) = {}
      BY <2>1, <3>1 DEF CountedInv, Counted
    <3> QED
      BY <3>2
  <2> QED
    BY <2>2, <2>3
<1> QED
  BY <1>1, <1>2 DEF ReadInv, Active, FirstInv, BoundsInv, CountedInv, AnswerInv, Counted

\* skiplist_lookup_rcu() reads the slot once more, which has held nothing but
\* ranges that were in the leaf during the call.
LEMMA FetchAnswer ==
  ASSUME NEW l \in ReaderType, ReadInv("fetch", l), NEW m \in ReaderType, Keeps(l, m),
         m.found = ptrs[l.cur]
  PROVE  ReadInv("done", m)
<1>1. l.arg \in Slot
  BY DEF ReadInv
<1>2. ASSUME ~ m.moved PROVE m.found \in m.ever /\ m.found # Null
  <2>1. FirstInv("fetch", l) /\ CountedInv("fetch", l)
    BY <1>2 DEF ReadInv, Active, Keeps
  <2>2. l.cur = 0 \/ l.cur \in 0..l.last - 1
    BY <2>1, CapAssumption DEF CountedInv, Counted, ReaderType
  <2>3. ptrs[l.cur] \in l.ever
    BY <2>1, <2>2 DEF FirstInv, CountedInv, Counted
  <2>4. Null \notin l.ever
    BY LookupAssumption DEF ReaderType
  <2> QED
    BY <2>3, <2>4 DEF Keeps
<1> QED
  BY <1>1, <1>2 DEF ReadInv, AnswerInv, Active, Keeps

\* verify_key_in_leaf()
LEMMA VerifyOn ==
  ASSUME NEW l \in ReaderType, ReadInv("verify", l)
  PROVE  ReadInv("verifymax", l)
BY DEF ReadInv, Active, FirstInv, BoundsInv, CountedInv, AnswerInv, Counted

LEMMA VerifyAnswer ==
  ASSUME LeafInv, NEW l \in ReaderType, ReadInv("verifymax", l), NEW m \in ReaderType, Keeps(l, m),
         ~ (l.arg.key >= max), m.found = Null
  PROVE  ReadInv("done", m)
<1>1. l.arg \in Slot /\ max \in Nat
  BY DEF ReadInv, LeafInv, LeafType
<1>2. ASSUME ~ m.moved, NEW s \in m.always PROVE ~ Covers(s, m.arg.key)
  <2>1. SeenInv(l) /\ \A t \in Here(l) : ~ Covers(t, l.arg.key)
    BY <1>2 DEF ReadInv, Active, BoundsInv, Keeps
  <2>2. CASE s \in ToSet(split)
    <3>1. s \in Slot /\ max <= s.key
      BY <2>1, <2>2, StillSeen
    <3> QED
      BY <1>1, <3>1, SlotEnd DEF Covers, Keeps
  <2>3. CASE s \notin ToSet(split)
    BY <1>2, <2>1, <2>3 DEF Here, Keeps
  <2> QED
    BY <2>2, <2>3
<1> QED
  BY <1>1, <1>2 DEF ReadInv, AnswerInv, Active, Keeps

\* A call starts.
LEMMA CallRead ==
  ASSUME LeafInv, NEW l \in ReaderType, l.arg \in Slot,
         l.ever = ToSet(Contents) \cup ToSet(split) \cup Entering,
         l.always = (ToSet(Contents) \cup ToSet(split)) \ (Entering \cup Leaving),
         l.moved <=> (wpc # "rest" /\ w.moves)
  PROVE  ReadInv("leafmax", l)
BY DEF ReadInv, SeenInv, FirstInv, BoundsInv, CountedInv, AnswerInv, Counted

\* A step of a reader changes nothing but what it knows itself.
LEMMA ReadStep ==
  ASSUME LookupTypeOK, ReadersInv, NEW r \in Readers, NEW label \in Labels,
         NEW local \in ReaderType, Read(r, label, local), ReadInv(label, local)
  PROVE  ReadersInv'
<1>1. /\ UNCHANGED <<nr, max, keys, ptrs, dead, split, wpc, w>>
      /\ pc' = [pc EXCEPT ![r] = label] /\ rd' = [rd EXCEPT ![r] = local]
  BY DEF Read, leaf, writer
<1>2. pc \in [Readers -> Labels] /\ rd \in [Readers -> ReaderType]
  BY DEF LookupTypeOK
<1>3. SUFFICES ASSUME NEW q \in Readers PROVE ReadInv(pc[q], rd[q])'
  BY DEF ReadersInv
<1>4. PICK a, b : a = pc'[q] /\ b = rd'[q] /\ ReadInv(a, b)
  <2>1. CASE q = r
    BY <1>1, <1>2, <2>1
  <2>2. CASE q # r
    BY <1>1, <1>2, <2>2 DEF ReadersInv
  <2> QED
    BY <2>1, <2>2
<1>5. SeenInv(rd[q])' <=> SeenInv(b)
  BY <1>1, <1>4 DEF SeenInv, Contents, Stored, Entering, Leaving
<1>6. FirstInv(pc[q], rd[q])' <=> FirstInv(a, b)
  BY <1>1, <1>4 DEF FirstInv
<1>7. BoundsInv(pc[q], rd[q])' <=> BoundsInv(a, b)
  BY <1>1, <1>4 DEF BoundsInv, Here
<1>8. CountedInv(pc[q], rd[q])' <=> CountedInv(a, b)
  BY <1>1, <1>4 DEF CountedInv, Counted, Here
<1>9. AnswerInv(pc[q], rd[q])' <=> AnswerInv(a, b)
  BY <1>1, <1>4 DEF AnswerInv
<1> QED
  BY <1>4, <1>5, <1>6, <1>7, <1>8, <1>9 DEF ReadInv, Active

LEMMA ReadType ==
  ASSUME LookupTypeOK, NEW r \in Readers, NEW label \in Labels, NEW local \in ReaderType,
         Read(r, label, local)
  PROVE  LookupTypeOK'
BY DEF LookupTypeOK, LeafType, Read, leaf, writer

LEMMA NextLeafStep ==
  ASSUME LookupTypeOK, LeafInv, ReadersInv, NEW r \in Readers, NextLeaf(r),
         rd[r].arg \in Slot,
         ~ rd[r].moved => SeenInv(rd[r]) /\ \A s \in Here(rd[r]) : ~ Covers(s, rd[r].arg.key)
  PROVE  LookupTypeOK' /\ ReadersInv'
<1> DEFINE l == rd[r]
           hits == {s \in ToSet(split) : Overlap(s, l.arg)}
<1>1. PICK p \in hits \cup {Null} :
        /\ p = Null => \A s \in hits : ~ Covers(s, l.arg.key)
        /\ Read(r, "done", [l EXCEPT !.found = p])
  BY DEF NextLeaf, Answer, Key
<1>2. l \in ReaderType /\ hits \subseteq Slot
  BY DEF LookupTypeOK, LeafType, ToSet
<1> DEFINE m == [l EXCEPT !.found = p]
<1>3. m \in ReaderType /\ Keeps(l, m) /\ m.found = p
  BY <1>1, <1>2 DEF ReaderType, Keeps
<1>4. "done" \in Labels
  BY DEF Labels
<1> HIDE DEF m
<1>5. ReadInv("done", m)
  BY <1>1, <1>2, <1>3, NextLeafAnswer
<1> QED
  BY <1>1, <1>3, <1>4, <1>5, ReadStep, ReadType DEF m

LEMMA ReadersByLookup ==
  ASSUME LookupTypeOK, LeafInv, ReadersInv, NEW r \in Readers, Lookup(r)
  PROVE  LookupTypeOK' /\ ReadersInv'
<1> DEFINE l == rd[r]
<1>1. /\ l \in ReaderType /\ pc[r] \in Labels /\ ReadInv(pc[r], l)
      /\ nr \in 0..Cap /\ max \in Nat /\ keys \in [0..Cap -> Nat] /\ Cap \in Nat
      /\ ptrs \in [0..Cap -> Slot \cup {Null, Junk}]
  BY CapAssumption DEF LookupTypeOK, LeafType, ReadersInv
<1>2. /\ {"leafmax", "leafmin", "recheck", "nr", "scan", "compare", "wait", "match", "fetch",
          "verify", "verifymax", "done", "oops"} \subseteq Labels
      /\ 0 \in 0..Cap
  BY <1>1 DEF Labels
<1>3. ASSUME NEW label \in Labels, NEW m \in ReaderType, Read(r, label, m), ReadInv(label, m)
      PROVE  LookupTypeOK' /\ ReadersInv'
  BY <1>3, ReadStep, ReadType
<1>4. CASE Call(r)
  <2>1. PICK arg \in Args :
          Read(r, "leafmax",
            [l EXCEPT !.arg = arg,
               !.ever = ToSet(Contents) \cup ToSet(split) \cup Entering,
               !.always = (ToSet(Contents) \cup ToSet(split)) \ (Entering \cup Leaving),
               !.moved = wpc # "rest" /\ w.moves])
    BY <1>4 DEF Call
  <2> DEFINE m == [l EXCEPT !.arg = arg,
                     !.ever = ToSet(Contents) \cup ToSet(split) \cup Entering,
                     !.always = (ToSet(Contents) \cup ToSet(split)) \ (Entering \cup Leaving),
                     !.moved = wpc # "rest" /\ w.moves]
  <2>2. arg \in Slot /\ ToSet(split) \subseteq Slot /\ Entering \subseteq Slot
    BY LookupAssumption DEF LeafInv, LeafType, WriterType, ToSet, Entering
  <2>3. ToSet(Contents) \subseteq Slot
    <3>1. CASE wpc = "rest"
      BY <1>1, <3>1 DEF LeafInv, RestInv, Contents, Stored, ToSet
    <3>2. CASE wpc # "rest"
      BY <3>2 DEF LeafInv, LeafType, WriterType, Contents, ToSet
    <3> QED
      BY <3>1, <3>2
  <2>4. (wpc # "rest" /\ w.moves) \in BOOLEAN
    OBVIOUS
  <2>5. /\ m.arg = arg /\ m.ever = ToSet(Contents) \cup ToSet(split) \cup Entering
        /\ m.always = (ToSet(Contents) \cup ToSet(split)) \ (Entering \cup Leaving)
        /\ m.moved <=> (wpc # "rest" /\ w.moves)
    BY <1>1 DEF ReaderType
  <2>6. m \in ReaderType
    BY <1>1, <2>2, <2>3, <2>4 DEF ReaderType
  <2> HIDE DEF m
  <2>7. ReadInv("leafmax", m)
    BY <2>2, <2>5, <2>6, CallRead
  <2> QED
    BY <1>2, <1>3, <2>1, <2>6, <2>7 DEF m
<1>5. CASE LeafMax(r)
  <2>1. CASE dead
    BY <1>1, <1>5, <2>1, LeafMaxNext, NextLeafStep DEF LeafMax
  <2>2. CASE ~ dead
    <3> DEFINE m == [l EXCEPT !.read = max]
    <3>1. pc[r] = "leafmax" /\ Read(r, "leafmin", m)
      BY <1>5, <2>2 DEF LeafMax
    <3>2. m \in ReaderType /\ Keeps(l, m) /\ m.read = max
      BY <1>1 DEF ReaderType, Keeps
    <3> HIDE DEF m
    <3>3. ReadInv("leafmin", m)
      BY <1>1, <2>2, <3>1, <3>2, LeafMaxRead
    <3> QED
      BY <1>2, <1>3, <3>1, <3>2, <3>3
  <2> QED
    BY <2>1, <2>2
<1>6. CASE LeafMin(r)
  <2>1. CASE l.arg.key >= l.read
    BY <1>1, <1>6, <2>1, LeafMinNext, NextLeafStep DEF LeafMin, Key
  <2>2. CASE ~ (l.arg.key >= l.read) /\ l.arg.key < keys[0]
    <3> DEFINE m == [l EXCEPT !.read = keys[0]]
    <3>1. pc[r] = "leafmin" /\ Read(r, "recheck", m)
      BY <1>6, <2>2 DEF LeafMin, Key
    <3>2. m \in ReaderType /\ Keeps(l, m)
      BY <1>1, <1>2 DEF ReaderType, Keeps
    <3> HIDE DEF m
    <3>3. ReadInv("recheck", m)
      BY <1>1, <2>2, <3>1, <3>2, LeafMinRecheck
    <3> QED
      BY <1>2, <1>3, <3>1, <3>2, <3>3
  <2>3. CASE ~ (l.arg.key >= l.read) /\ ~ (l.arg.key < keys[0])
    <3>1. pc[r] = "leafmin" /\ Read(r, "nr", l)
      BY <1>6, <2>3 DEF LeafMin, Key, Goto
    <3>2. ReadInv("nr", l)
      BY <1>1, <1>2, <3>1, ReadAgain
    <3> QED
      BY <1>1, <1>2, <1>3, <3>1, <3>2
  <2> QED
    BY <2>1, <2>2, <2>3
<1>7. CASE Recheck(r)
  <2>1. CASE keys[0] # l.read \/ dead
    <3>1. pc[r] = "recheck" /\ Read(r, "leafmax", l)
      BY <1>7, <2>1 DEF Recheck, Goto
    <3>2. ReadInv("leafmax", l)
      BY <1>1, <1>2, <3>1, ReadAgain
    <3> QED
      BY <1>1, <1>2, <1>3, <3>1, <3>2
  <2>2. CASE ~ (keys[0] # l.read \/ dead)
    <3> DEFINE m == [l EXCEPT !.found = Null]
    <3>1. pc[r] = "recheck" /\ Read(r, "done", m)
      BY <1>7, <2>2 DEF Recheck, Answer
    <3>2. m \in ReaderType /\ Keeps(l, m) /\ m.found = Null
      BY <1>1 DEF ReaderType, Keeps
    <3> HIDE DEF m
    <3>3. ReadInv("done", m)
      BY <1>1, <3>1, <3>2, RecheckAnswer
    <3> QED
      BY <1>2, <1>3, <3>1, <3>2, <3>3
  <2> QED
    BY <2>1, <2>2
<1>8. CASE Nr(r)
  <2> DEFINE m == [l EXCEPT !.last = nr, !.i = 0, !.cur = 0]
  <2>1. pc[r] = "nr" /\ Read(r, "scan", m)
    BY <1>8 DEF Nr
  <2>2. m \in ReaderType /\ Keeps(l, m) /\ m.last = nr /\ m.i = 0 /\ m.cur = 0
    BY <1>1, <1>2 DEF ReaderType, Keeps
  <2> HIDE DEF m
  <2>3. ReadInv("scan", m)
    BY <1>1, <2>1, <2>2, NrRead
  <2> QED
    BY <1>2, <1>3, <2>1, <2>2, <2>3
<1>9. CASE Scan(r)
  <2>1. CASE l.i < l.last /\ keys[l.i] < End(l.arg)
    <3> DEFINE m == [l EXCEPT !.cur = l.i, !.i = l.i + 1]
    <3>1. pc[r] = "scan" /\ Read(r, "scan", m)
      BY <1>9, <2>1 DEF Scan, Up
    <3>2. l.i \in 0..Cap /\ l.last \in 0..Cap
      BY <1>1 DEF ReaderType
    <3>3. l.i + 1 \in 0..Cap
      BY <1>1, <2>1, <3>2
    <3>4. m \in ReaderType /\ Keeps(l, m) /\ m.last = l.last /\ m.cur = l.i /\ m.i = l.i + 1
      BY <1>1, <3>2, <3>3 DEF ReaderType, Keeps
    <3> HIDE DEF m
    <3>5. ReadInv("scan", m)
      BY <1>1, <2>1, <3>1, <3>4, ScanOn
    <3> QED
      BY <1>2, <1>3, <3>1, <3>4, <3>5
  <2>2. CASE ~ (l.i < l.last /\ keys[l.i] < End(l.arg))
    <3>1. pc[r] = "scan" /\ Read(r, "compare", l)
      BY <1>9, <2>2 DEF Scan, Up, Goto
    <3>2. ReadInv("compare", l)
      BY <1>1, <2>2, <3>1, ScanEnd
    <3> QED
      BY <1>1, <1>2, <1>3, <3>1, <3>2
  <2> QED
    BY <2>1, <2>2
<1>10. CASE Compare(r)
  <2>1. CASE keys[l.cur] < End(l.arg)
    <3>1. pc[r] = "compare" /\ Read(r, "wait", l)
      BY <1>10, <2>1 DEF Compare, Up, Goto
    <3>2. ReadInv("wait", l)
      BY <1>1, <3>1, CompareWait
    <3> QED
      BY <1>1, <1>2, <1>3, <3>1, <3>2
  <2>2. CASE ~ (keys[l.cur] < End(l.arg))
    <3>1. pc[r] = "compare" /\ Read(r, "verify", l)
      BY <1>10, <2>2 DEF Compare, Up, Goto
    <3>2. ReadInv("verify", l)
      BY <1>1, <2>2, <3>1, CompareVerify
    <3> QED
      BY <1>1, <1>2, <1>3, <3>1, <3>2
  <2> QED
    BY <2>1, <2>2
<1>11. CASE Wait(r)
  <2> DEFINE m == [l EXCEPT !.found = ptrs[l.cur]]
  <2>1. /\ pc[r] = "wait"
        /\ Read(r, IF ptrs[l.cur] = Junk THEN "oops" ELSE "match", m)
    BY <1>11 DEF Wait
  <2>2. l.cur \in 0..Cap
    BY <1>1 DEF ReaderType
  <2>3. ptrs[l.cur] \in Slot \cup {Null, Junk}
    BY <1>1, <2>2
  <2>4. /\ m \in ReaderType /\ Keeps(l, m) /\ m.last = l.last /\ m.i = l.i /\ m.cur = l.cur
        /\ m.found = ptrs[l.cur]
    BY <1>1, <2>3 DEF ReaderType, Keeps
  <2> HIDE DEF m
  <2>5. ReadInv("match", m)
    BY <1>1, <2>1, <2>4, WaitMatch
  <2>6. ReadInv("oops", m)
    BY <2>5 DEF ReadInv, AnswerInv, Active
  <2> QED
    BY <1>2, <1>3, <2>1, <2>4, <2>5, <2>6
<1>12. CASE Match(r)
  <2>1. CASE l.found.key # keys[l.cur]
    <3>1. pc[r] = "match" /\ Read(r, "nr", l)
      BY <1>12, <2>1 DEF Match, Goto
    <3>2. ReadInv("nr", l)
      BY <1>1, <1>2, <3>1, ReadAgain
    <3> QED
      BY <1>1, <1>2, <1>3, <3>1, <3>2
  <2>2. CASE l.found.key = keys[l.cur] /\ Overlap(l.found, l.arg)
    <3>1. pc[r] = "match" /\ Read(r, "fetch", l)
      BY <1>12, <2>2 DEF Match, Goto
    <3>2. ReadInv("fetch", l)
      BY <1>1, <3>1, MatchFetch
    <3> QED
      BY <1>1, <1>2, <1>3, <3>1, <3>2
  <2>3. CASE l.found.key = keys[l.cur] /\ ~ Overlap(l.found, l.arg)
    <3>1. pc[r] = "match" /\ Read(r, "verify", l)
      BY <1>12, <2>3 DEF Match, Goto
    <3>2. ReadInv("verify", l)
      BY <1>1, <2>3, <3>1, MatchVerify
    <3> QED
      BY <1>1, <1>2, <1>3, <3>1, <3>2
  <2> QED
    BY <2>1, <2>2, <2>3
<1>13. CASE Fetch(r)
  <2> DEFINE m == [l EXCEPT !.found = ptrs[l.cur]]
  <2>1. pc[r] = "fetch" /\ Read(r, "done", m)
    BY <1>13 DEF Fetch, Answer
  <2>2. l.cur \in 0..Cap
    BY <1>1 DEF ReaderType
  <2>3. ptrs[l.cur] \in Slot \cup {Null, Junk}
    BY <1>1, <2>2
  <2>4. m \in ReaderType /\ Keeps(l, m) /\ m.found = ptrs[l.cur]
    BY <1>1, <2>3 DEF ReaderType, Keeps
  <2> HIDE DEF m
  <2>5. ReadInv("done", m)
    BY <1>1, <2>1, <2>4, FetchAnswer
  <2> QED
    BY <1>2, <1>3, <2>1, <2>4, <2>5
<1>14. CASE Verify(r)
  <2>1. CASE dead \/ End(l.arg) < keys[0]
    <3>1. pc[r] = "verify" /\ Read(r, "leafmax", l)
      BY <1>14, <2>1 DEF Verify, Up, Goto
    <3>2. ReadInv("leafmax", l)
      BY <1>1, <1>2, <3>1, ReadAgain
    <3> QED
      BY <1>1, <1>2, <1>3, <3>1, <3>2
  <2>2. CASE ~ (dead \/ End(l.arg) < keys[0])
    <3>1. pc[r] = "verify" /\ Read(r, "verifymax", l)
      BY <1>14, <2>2 DEF Verify, Up, Goto
    <3>2. ReadInv("verifymax", l)
      BY <1>1, <3>1, VerifyOn
    <3> QED
      BY <1>1, <1>2, <1>3, <3>1, <3>2
  <2> QED
    BY <2>1, <2>2
<1>15. CASE VerifyMax(r)
  <2>1. CASE l.arg.key >= max
    <3>1. pc[r] = "verifymax" /\ Read(r, "leafmax", l)
      BY <1>15, <2>1 DEF VerifyMax, Key, Goto
    <3>2. ReadInv("leafmax", l)
      BY <1>1, <1>2, <3>1, ReadAgain
    <3> QED
      BY <1>1, <1>2, <1>3, <3>1, <3>2
  <2>2. CASE ~ (l.arg.key >= max)
    <3> DEFINE m == [l EXCEPT !.found = Null]
    <3>1. pc[r] = "verifymax" /\ Read(r, "done", m)
      BY <1>15, <2>2 DEF VerifyMax, Key, Answer
    <3>2. m \in ReaderType /\ Keeps(l, m) /\ m.found = Null
      BY <1>1 DEF ReaderType, Keeps
    <3> HIDE DEF m
    <3>3. ReadInv("done", m)
      BY <1>1, <2>2, <3>1, <3>2, VerifyAnswer
    <3> QED
      BY <1>2, <1>3, <3>1, <3>2, <3>3
  <2> QED
    BY <2>1, <2>2
<1> QED
  BY <1>4, <1>5, <1>6, <1>7, <1>8, <1>9, <1>10, <1>11, <1>12, <1>13, <1>14, <1>15 DEF Lookup

\* What a store under the lock does to the knowledge of a lookup whose slots are
\* not moved: nothing, because it goes to a slot behind those counted.
Stays(j) == keys'[j] = keys[j] /\ ptrs'[j] = ptrs[j]

LEMMA StoreOnReader ==
  ASSUME LeafInv, NEW label \in Labels, NEW l \in ReaderType, NEW m \in ReaderType,
         ReadInv(label, l),
         m.arg = l.arg, m.last = l.last, m.i = l.i, m.cur = l.cur, m.read = l.read,
         m.found = l.found, l.ever \subseteq m.ever, m.always \subseteq l.always,
         ~ m.moved => ~ l.moved,
         ~ Active(label) => m = l,
         Active(label) /\ ~ m.moved =>
           /\ split' = split
           /\ SeenInv(m)'
           /\ \A j \in 0..Cap : Stays(j) \/ (wpc \in Inserting /\ j = w.slot /\ j > 0)
           /\ wpc' \in Inserting => l.last <= w'.slot \/ (wpc \in Inserting /\ w'.slot = w.slot)
  PROVE  ReadInv(label, m)'
<1>1. CASE ~ Active(label)
  BY <1>1 DEF ReadInv, AnswerInv
<1>2. CASE Active(label) /\ m.moved
  BY <1>2 DEF ReadInv, AnswerInv, Active
<1>3. CASE Active(label) /\ ~ m.moved
  <2>1. /\ split' = split
        /\ \A j \in 0..Cap : Stays(j) \/ (wpc \in Inserting /\ j = w.slot /\ j > 0)
        /\ wpc' \in Inserting => l.last <= w'.slot \/ (wpc \in Inserting /\ w'.slot = w.slot)
        /\ FirstInv(label, l) /\ BoundsInv(label, l) /\ CountedInv(label, l)
    BY <1>3 DEF ReadInv
  <2>2. l.last \in 0..Cap /\ l.i \in 0..Cap /\ l.cur \in 0..Cap /\ Cap \in Nat
    BY CapAssumption DEF ReaderType
  <2>3. Stays(0)
    BY <2>1, <2>2
  <2>4. FirstInv(label, m)'
    BY <2>1, <2>3 DEF FirstInv, Stays
  <2>5. BoundsInv(label, m)'
    BY <2>1 DEF BoundsInv, Here
  <2>6. CountedInv(label, m)'
    <3>1. SUFFICES ASSUME Counted(label)
                   PROVE  CountedInv(label, m)'
      BY DEF CountedInv
    <3>2. /\ wpc \in Inserting => l.last <= w.slot
          /\ \A j \in 0..l.last - 1 : ptrs[j] \in l.ever /\ keys[j] = ptrs[j].key
          /\ \A j, k \in 0..l.last - 1 : j < k => End(ptrs[j]) <= ptrs[k].key
          /\ \A s \in Here(l) : \E j \in 0..l.last - 1 : ptrs[j] = s
          /\ l.i <= l.last /\ l.cur = (IF l.i = 0 THEN 0 ELSE l.i - 1)
          /\ \A j \in 0..l.i - 1 : keys[j] < End(l.arg)
          /\ label # "scan" => l.i = l.last \/ keys[l.i] >= End(l.arg)
          /\ label = "match" => l.found = ptrs[l.cur]
      BY <2>1, <3>1 DEF CountedInv
    <3>3. \A j \in 0..l.last - 1 : Stays(j)
      BY <2>1, <2>2, <3>2
    <3>4. wpc' \in Inserting => l.last <= w'.slot
      BY <2>1, <3>2
    <3>5. \A j \in 0..l.i - 1 : j \in 0..l.last - 1
      BY <2>2, <3>2
    <3>6. l.i = l.last \/ l.i \in 0..l.last - 1
      BY <2>2, <3>2
    <3>7. l.cur = 0 \/ l.cur \in 0..l.last - 1
      BY <2>2, <3>2
    <3>8. /\ \A j \in 0..m.last - 1 : ptrs'[j] \in m.ever /\ keys'[j] = ptrs'[j].key
          /\ \A j, k \in 0..m.last - 1 : j < k => End(ptrs'[j]) <= ptrs'[k].key
      BY <3>2, <3>3 DEF Stays
    <3>9. \A s \in Here(m)' : \E j \in 0..m.last - 1 : ptrs'[j] = s
      BY <2>1, <3>2, <3>3 DEF Stays, Here
    <3>10. /\ \A j \in 0..m.i - 1 : keys'[j] < End(m.arg)
           /\ label # "scan" => m.i = m.last \/ keys'[m.i] >= End(m.arg)
           /\ label = "match" => m.found = ptrs'[m.cur]
      BY <2>3, <3>2, <3>3, <3>5, <3>6, <3>7 DEF Stays
    <3> QED
      BY <3>2, <3>4, <3>8, <3>9, <3>10 DEF CountedInv
  <2> QED
    BY <1>3, <2>4, <2>5, <2>6 DEF ReadInv, AnswerInv, Active
<1> QED
  BY <1>1, <1>2, <1>3

LEMMA Members ==
  ASSUME NEW S, NEW q \in Seq(S)
  PROVE  /\ \A j \in 1..Len(q) : q[j] \in ToSet(q)
         /\ \A x \in ToSet(q) : \E j \in 1..Len(q) : x = q[j]
BY DEF ToSet

\* Of a change that moves nothing, the stores and the outcome.
LEMMA StillStores ==
  ASSUME LeafInv, Writer, wpc # "rest", NEW l \in ReaderType, SeenInv(l)
  PROVE  /\ split' = split /\ SeenInv(l)'
         /\ \A j \in 0..Cap : Stays(j) \/ (wpc \in Inserting /\ j = w.slot /\ j > 0)
         /\ wpc' \in Inserting => wpc \in Inserting /\ w'.slot = w.slot
<1>1. /\ wpc # "splitmax"
      /\ wpc \in Inserting =>
           wpc \in {"extend", "putkey", "putptr", "count"} /\ w.slot = nr /\ nr \in 1..Cap
      /\ wpc \in Deleting => wpc \in {"lowermax", "shrink", "kill"}
  BY StillLeaf DEF SeenInv
<1>2. /\ wpc \in Inserting \cup Deleting /\ ~ w.moves
      /\ keys \in [0..Cap -> Nat] /\ ptrs \in [0..Cap -> Slot \cup {Null, Junk}]
      /\ w.old \in Seq(Slot) /\ Len(w.old) \in 1..Cap /\ Cap \in Nat /\ w.slot \in Nat
  BY CapAssumption DEF LeafInv, LeafType, WriterType, OldInv, SeenInv
<1>3. /\ ToSet(w.old) \cup w.in \cup ToSet(split) \subseteq l.ever
      /\ l.always \subseteq (ToSet(w.old) \cup ToSet(split)) \ (w.in \cup w.out)
  BY DEF SeenInv, Contents, Entering, Leaving
<1>3a. /\ \A j \in 1..Len(w.old) : w.old[j] \in ToSet(w.old)
       /\ \A x \in ToSet(w.old) : \E j \in 1..Len(w.old) : x = w.old[j]
  BY <1>2, Members
<1>4. ASSUME UNCHANGED <<split, w>>, wpc' # "rest" PROVE SeenInv(l)'
  BY <1>2, <1>3, <1>4 DEF SeenInv, Contents, Entering, Leaving
<1>5. ASSUME split' = split, wpc' = "rest",
             ToSet(Stored') \subseteq ToSet(w.old) \cup w.in,
             ToSet(w.old) \ w.out \subseteq ToSet(Stored')
      PROVE  SeenInv(l)'
  BY <1>3, <1>5 DEF SeenInv, Contents, Entering, Leaving
<1>6. CASE Extend \/ LowerMax
  <2>1. /\ UNCHANGED <<keys, ptrs, split, w>> /\ wpc' # "rest"
        /\ wpc' \in Inserting => wpc \in Inserting
    BY <1>6 DEF Extend, LowerMax, StoreMax, Then, Inserting
  <2> QED
    BY <1>4, <2>1 DEF Stays
<1>7. CASE PutKey
  <2>1. wpc = "putkey"
    BY <1>1, <1>7 DEF PutKey, Inserting
  <2>2. /\ keys' = [keys EXCEPT ![w.slot] = w.r.key] /\ UNCHANGED <<ptrs, split, w>>
        /\ wpc' = "putptr"
    BY <1>7 DEF PutKey, StoreKey, Then
  <2>3. w.slot > 0 /\ wpc \in Inserting
    BY <1>1, <1>2, <2>1 DEF Inserting
  <2>4. \A j \in 0..Cap : Stays(j) \/ (wpc \in Inserting /\ j = w.slot /\ j > 0)
    BY <1>2, <2>2, <2>3 DEF Stays
  <2> QED
    BY <1>4, <2>2, <2>3, <2>4
<1>8. CASE PutPtr
  <2>1. wpc = "putptr" /\ wpc \in Inserting
    BY <1>8 DEF PutPtr, Inserting
  <2>2. /\ ptrs' = [ptrs EXCEPT ![w.slot] = w.r] /\ UNCHANGED <<keys, split, w>>
        /\ wpc' = "count"
    BY <1>1, <1>8, <2>1 DEF PutPtr, StorePtr, Then
  <2>3. w.slot > 0
    BY <1>1, <1>2, <2>1
  <2>4. \A j \in 0..Cap : Stays(j) \/ (wpc \in Inserting /\ j = w.slot /\ j > 0)
    BY <1>2, <2>1, <2>2, <2>3 DEF Stays
  <2> QED
    BY <1>4, <2>1, <2>2, <2>4
<1>9. CASE Count
  <2>1. wpc = "count" /\ wpc \in Inserting /\ UNCHANGED <<keys, ptrs, split, w>>
    BY <1>9 DEF Count, StoreNr, Then, Inserting
  <2>2. wpc' = "rest" /\ Stored' = Inserted
    BY <1>9, CountRests
  <2>3. nr = Len(w.old) /\ w.slot = nr /\ nr < Cap
    BY <2>1 DEF LeafInv, StepInv, ExtendStep
  <2>4. Kept = nr /\ nr \in 1..Cap
    BY <1>1, <2>1, <2>3, CapAssumption DEF Kept
  <2>5. /\ Inserted \in Seq(Slot) /\ Len(Inserted) = nr + 1
        /\ \A j \in 1..nr : Inserted[j] = w.old[j]
        /\ Inserted[nr + 1] = w.r
    <3>1. w.slot <= Kept
      BY <2>3, <2>4, CapAssumption
    <3> QED
      BY <2>1, <2>3, <2>4, <3>1, InsertedIs
  <2>6. w.in = {w.r}
    BY <2>1 DEF LeafInv, InsertInv
  <2>7. ToSet(Stored') \subseteq ToSet(w.old) \cup w.in
    <3>1. ASSUME NEW j \in 1..nr + 1 PROVE Inserted[j] \in ToSet(w.old) \cup w.in
      <4>1. CASE j = nr + 1
        BY <2>5, <2>6, <4>1
      <4>2. CASE j # nr + 1
        <5>1. j \in 1..nr
          BY <2>4, <4>2, CapAssumption
        <5>2. w.old[j] \in ToSet(w.old)
          BY <1>3a, <2>3, <5>1
        <5> QED
          BY <2>5, <5>1, <5>2
      <4> QED
        BY <4>1, <4>2
    <3>2. \A x \in ToSet(Inserted) : \E j \in 1..nr + 1 : x = Inserted[j]
      <4>1. \A x \in ToSet(Inserted) : \E j \in 1..Len(Inserted) : x = Inserted[j]
        BY <2>5, Members
      <4> QED
        BY <2>5, <4>1
    <3> QED
      BY <2>2, <3>1, <3>2
  <2>8. ToSet(w.old) \ w.out \subseteq ToSet(Stored')
    <3>1. ASSUME NEW j \in 1..nr PROVE w.old[j] \in ToSet(Inserted)
      <4>1. j \in 1..nr + 1
        BY <2>4, CapAssumption
      <4>2. Inserted[j] \in ToSet(Inserted)
        <5>1. \A k \in 1..Len(Inserted) : Inserted[k] \in ToSet(Inserted)
          BY <2>5, Members
        <5> QED
          BY <2>5, <4>1, <5>1
      <4> QED
        BY <2>5, <4>2
    <3>2. \A x \in ToSet(w.old) : \E j \in 1..nr : x = w.old[j]
      BY <1>3a, <2>3
    <3> QED
      BY <2>2, <3>1, <3>2
  <2> QED
    BY <1>5, <2>1, <2>2, <2>7, <2>8 DEF Stays, Inserting
<1>10. CASE Shrink
  <2>1. /\ wpc = "shrink" /\ wpc \in Deleting /\ UNCHANGED <<keys, ptrs, split, w>>
        /\ wpc' = IF nr = 1 THEN "kill" ELSE "rest"
    BY <1>10 DEF Shrink, StoreNr, Then, Deleting
  <2>2. nr = Len(w.old)
    BY <2>1 DEF LeafInv, StepInv, ShrinkStep
  <2>3. CASE nr = 1
    BY <1>4, <2>1, <2>3 DEF Stays, Inserting
  <2>4. CASE nr # 1
    <3>1. nr > 1
      <4>1. nr \in 1..Cap
        BY <1>2, <2>2
      <4> QED
        BY <1>2, <2>4, <4>1
    <3>2. wpc' = "rest" /\ Stored' = Deleted
      BY <1>10, <3>1, ShrinkRests
    <3>3. w.slot = Len(w.old) - 1 /\ w.out = {w.old[w.slot + 1]}
      BY <1>2, <2>1 DEF LeafInv, DeleteInv
    <3>4. /\ Deleted \in Seq(Slot) /\ Len(Deleted) = Len(w.old) - 1
          /\ \A j \in 1..Len(w.old) - 1 : Deleted[j] = w.old[j]
      BY <2>1, <3>3, DeletedIs
    <3>5. ToSet(Stored') \subseteq ToSet(w.old) \cup w.in
      <4>1. \A j \in 1..Len(w.old) - 1 : j \in 1..Len(w.old)
        BY <1>2
      <4>2. ASSUME NEW x \in ToSet(Deleted) PROVE x \in ToSet(w.old)
        <5>1. \A y \in ToSet(Deleted) : \E j \in 1..Len(Deleted) : y = Deleted[j]
          BY <3>4, Members
        <5>2. PICK j \in 1..Len(w.old) - 1 : x = w.old[j]
          BY <3>4, <5>1
        <5> QED
          BY <1>3a, <4>1, <5>2
      <4> QED
        BY <3>2, <4>2
    <3>6. ToSet(w.old) \ w.out \subseteq ToSet(Stored')
      <4>1. ASSUME NEW j \in 1..Len(w.old), w.old[j] \notin w.out PROVE w.old[j] \in ToSet(Deleted)
        <5>1. j # Len(w.old)
          BY <1>2, <3>3, <4>1
        <5>2. j \in 1..Len(w.old) - 1
          BY <1>2, <5>1
        <5>3. \A k \in 1..Len(Deleted) : Deleted[k] \in ToSet(Deleted)
          BY <3>4, Members
        <5> QED
          BY <3>4, <5>2, <5>3
      <4> QED
        BY <1>3a, <3>2, <4>1
    <3> QED
      BY <1>5, <2>1, <3>2, <3>5, <3>6 DEF Stays, Inserting
  <2> QED
    BY <2>3, <2>4
<1>11. CASE Kill
  <2>1. wpc = "kill" /\ wpc \in Deleting /\ UNCHANGED <<nr, keys, ptrs, split, w>> /\ wpc' = "rest"
    BY <1>11 DEF Kill, Then, Deleting
  <2>2. nr = 0 /\ Len(w.old) = 1 /\ w.slot = 0
    BY <2>1 DEF LeafInv, StepInv, KillStep
  <2>3. w.out = {w.old[1]}
    BY <2>1, <2>2 DEF LeafInv, DeleteInv
  <2>4. ToSet(Stored') = {}
    BY <2>1, <2>2 DEF Stored, ToSet
  <2>5. ToSet(w.old) \subseteq w.out
    BY <1>2, <2>2, <2>3 DEF ToSet
  <2> QED
    BY <1>5, <2>1, <2>4, <2>5 DEF Stays, Inserting
<1>12. CASE SplitMax \/ SplitNr \/ ClearKey \/ ClearPtr \/ Grow \/ PushKey \/ PushPtr
  BY <1>1, <1>12 DEF SplitMax, SplitNr, ClearKey, ClearPtr, Grow, PushKey, PushPtr, Inserting
<1>13. CASE PullKey \/ PullPtr
  BY <1>1, <1>13 DEF PullKey, PullPtr, Deleting
<1>14. CASE BeginInsert \/ BeginDelete
  BY <1>14 DEF BeginInsert, BeginDelete
<1> QED
  BY <1>6, <1>7, <1>8, <1>9, <1>10, <1>11, <1>12, <1>13, <1>14 DEF Writer

\* The first step of a change tells the lookups that are under way; the leaf and
\* what it holds are still the same.
SeenBy(r, in, out, slot, moves) ==
  IF ~ Active(pc[r]) THEN rd[r]
  ELSE [rd[r] EXCEPT !.ever = @ \cup in, !.always = @ \ out,
                     !.moved = @ \/ moves \/ (in # {} /\ slot < rd[r].last)]

LEMMA SeenIs ==
  ASSUME NEW in, NEW out, NEW slot, NEW moves, Seen(in, out, slot, moves)
  PROVE  rd' = [r \in Readers |-> SeenBy(r, in, out, slot, moves)]
BY Zenon DEF Seen, SeenBy, Active

LEMMA SeenByReaders ==
  ASSUME LookupTypeOK, LeafInv, ReadersInv, LeafType',
         NEW in \in SUBSET Slot, NEW out, NEW slot \in Nat, NEW moves \in BOOLEAN,
         Seen(in, out, slot, moves), UNCHANGED <<keys, ptrs, pc>>,
         wpc = "rest", wpc' # "rest", Contents' = Contents,
         w'.in = in, w'.out = out, w'.slot = slot, w'.moves <=> moves,
         wpc' \in Inserting => in # {},
         in \cap (ToSet(Contents) \cup ToSet(split)) = {},
         ~ moves => split' = split
  PROVE  LookupTypeOK' /\ ReadersInv'
<1>0. rd' = [r \in Readers |-> SeenBy(r, in, out, slot, moves)]
  BY SeenIs
<1>1. ASSUME NEW r \in Readers, NEW label, NEW l, NEW m,
             label = pc[r], l = rd[r], m = rd'[r]
      PROVE  m \in ReaderType /\ ReadInv(label, m)'
  <2> DEFINE moved == l.moved \/ moves \/ (in # {} /\ slot < l.last)
  <2>0. m = SeenBy(r, in, out, slot, moves)
    BY <1>0, <1>1
  <2>1. l \in ReaderType /\ label \in Labels /\ ReadInv(label, l)
    BY <1>1 DEF LookupTypeOK, ReadersInv
  <2>2. CASE ~ Active(label)
    <3>1. m = l
      BY <1>1, <2>0, <2>2 DEF SeenBy
    <3>2. ReadInv(label, l)'
      BY <2>1, <2>2 DEF ReadInv, AnswerInv
    <3> QED
      BY <2>1, <3>1, <3>2
  <2>3. CASE Active(label)
    <3>1. m = [l EXCEPT !.ever = @ \cup in, !.always = @ \ out, !.moved = moved]
      BY <1>1, <2>0, <2>3 DEF SeenBy
    <3>2. moved \in BOOLEAN
      BY <2>1 DEF ReaderType
    <3>3. /\ m.arg = l.arg /\ m.last = l.last /\ m.i = l.i /\ m.cur = l.cur
          /\ m.read = l.read /\ m.found = l.found
          /\ m.ever = l.ever \cup in /\ m.always = l.always \ out
      BY <2>1, <3>1 DEF ReaderType
    <3>4. m.moved <=> moved
      BY <2>1, <3>1, <3>2 DEF ReaderType
    <3>5. m \in ReaderType
      <4> HIDE DEF moved
      <4> QED
        BY <2>1, <3>1, <3>2 DEF ReaderType
    <3>6. ~ m.moved => ~ l.moved /\ ~ moves /\ (in # {} => ~ (slot < l.last))
      BY <3>4
    <3>7. ASSUME ~ m.moved
          PROVE  /\ split' = split
                 /\ SeenInv(m)'
                 /\ \A j \in 0..Cap : Stays(j) \/ (wpc \in Inserting /\ j = w.slot /\ j > 0)
                 /\ wpc' \in Inserting =>
                      l.last <= w'.slot \/ (wpc \in Inserting /\ w'.slot = w.slot)
      <4>1. SeenInv(l) /\ split' = split
        BY <2>1, <2>3, <3>6, <3>7 DEF ReadInv
      <4>2. SeenInv(m)'
        BY <3>3, <3>6, <3>7, <4>1 DEF SeenInv, Entering, Leaving
      <4>3. wpc' \in Inserting => l.last <= w'.slot
        <5>1. l.last \in Nat
          BY <2>1, CapAssumption DEF ReaderType
        <5> QED
          BY <3>6, <3>7, <5>1
      <4> QED
        BY <4>1, <4>2, <4>3 DEF Stays
    <3> QED
      BY <2>1, <2>3, <3>3, <3>5, <3>6, <3>7, StoreOnReader
  <2> QED
    BY <2>2, <2>3
<1>2. rd' = [r \in Readers |-> rd'[r]]
  BY DEF Seen
<1>3. rd' \in [Readers -> ReaderType]
  BY <1>1, <1>2
<1>4. ASSUME NEW r \in Readers PROVE ReadInv(pc[r], rd[r])'
  <2>1. PICK label, m : label = pc[r] /\ m = rd'[r] /\ ReadInv(label, m)'
    BY <1>1
  <2> QED
    BY <2>1 DEF ReadInv, AnswerInv, SeenInv, FirstInv, BoundsInv, CountedInv, Here
<1> QED
  BY <1>3, <1>4 DEF LookupTypeOK, ReadersInv

LEMMA ReadersByBegin ==
  ASSUME LookupTypeOK, LeafInv, LeafInv', ReadersInv, BeginInsert \/ BeginDelete
  PROVE  LookupTypeOK' /\ ReadersInv'
<1>1. CASE BeginInsert
  <2>1. PICK r \in Changes, slot \in 0..nr :
          /\ wpc = "rest" /\ ~ dead
          /\ \A j \in 1..slot : End(Stored[j]) <= r.key
          /\ \A j \in slot + 1..nr : End(r) <= Stored[j].key
          /\ \A s \in ToSet(split) : End(r) <= s.key
          /\ \/ /\ nr < Cap
                /\ Begin(IF slot < nr THEN "clearkey" ELSE "extend",
                         slot, r, {r}, {}, slot < nr)
                /\ UNCHANGED split
             \/ /\ nr = Cap /\ slot < nr /\ split = <<>>
                /\ Begin("splitmax", slot, r, {r}, {}, TRUE)
                /\ split' = SplitMoves(Stored, slot + 1, r)
    BY <1>1, BeginInsertCases
  <2>2. PICK label \in {"clearkey", "extend", "splitmax"}, moves \in BOOLEAN :
          /\ Begin(label, slot, r, {r}, {}, moves)
          /\ ~ moves => split' = split
    <3>1. (slot < nr) \in BOOLEAN
      OBVIOUS
    <3> QED
      BY <2>1, <3>1
  <2>3. r \in Slot /\ nr \in 1..Cap /\ Cap \in Nat /\ Stored \in Seq(Slot) /\ Len(Stored) = nr
    BY <2>1, StoredLeaf, LookupAssumption, CapAssumption
  <2>4. r \notin ToSet(Stored)
    <3>1. SUFFICES ASSUME NEW j \in 1..nr, r = Stored[j] PROVE FALSE
      BY <2>3, Members
    <3>2. j \in 1..slot \/ j \in slot + 1..nr
      BY <2>3
    <3>3. End(r) <= r.key
      BY <2>1, <3>1, <3>2
    <3> QED
      BY <2>3, <3>3, SlotEnd
  <2>5. r \notin ToSet(split)
    <3>1. SUFFICES ASSUME r \in ToSet(split) PROVE FALSE
      OBVIOUS
    <3>2. End(r) <= r.key
      BY <2>1, <3>1
    <3> QED
      BY <2>3, <3>2, SlotEnd
  <2>6. Contents = Stored
    BY <2>1 DEF Contents
  <2>7. /\ wpc' = label /\ wpc' # "rest" /\ UNCHANGED <<keys, ptrs, pc>>
        /\ w' = [slot |-> slot, i |-> slot, r |-> r, old |-> Stored, in |-> {r}, out |-> {},
                 moves |-> moves]
        /\ Seen({r}, {}, slot, moves)
    BY <2>2 DEF Begin
  <2>8. Contents' = Contents
    BY <2>6, <2>7 DEF Contents
  <2>9. /\ w'.in = {r} /\ w'.out = {} /\ w'.slot = slot /\ w'.moves <=> moves
    BY <2>7
  <2>10. {r} \cap (ToSet(Contents) \cup ToSet(split)) = {} /\ {r} \in SUBSET Slot /\ {r} # {}
    BY <2>3, <2>4, <2>5, <2>6
  <2>11. LeafType' /\ slot \in Nat
    BY <2>3 DEF LeafInv
  <2> QED
    BY <2>1, <2>2, <2>7, <2>8, <2>9, <2>10, <2>11, SeenByReaders
<1>2. CASE BeginDelete
  <2>1. PICK i \in 0..nr - 1 :
          /\ wpc = "rest" /\ ~ dead
          /\ Begin(IF i # nr - 1 THEN "pullkey" ELSE IF nr > 1 THEN "lowermax" ELSE "shrink",
                   i, ptrs[i], {}, {ptrs[i]}, i # nr - 1)
          /\ UNCHANGED split
    BY <1>2 DEF BeginDelete
  <2>2. /\ wpc' \in Deleting /\ UNCHANGED <<keys, ptrs, pc>>
        /\ w' = [slot |-> i, i |-> i, r |-> ptrs[i], old |-> Stored, in |-> {},
                 out |-> {ptrs[i]}, moves |-> i # nr - 1]
        /\ Seen({}, {ptrs[i]}, i, i # nr - 1)
    BY <2>1 DEF Begin, Deleting
  <2>3. wpc' # "rest" /\ wpc' \notin Inserting
    BY <2>2 DEF Deleting, Inserting
  <2>4. Contents' = Contents
    BY <2>1, <2>2, <2>3 DEF Contents
  <2>5. w'.in = {} /\ w'.out = {ptrs[i]} /\ w'.slot = i /\ w'.moves <=> i # nr - 1
    BY <2>2
  <2>6. LeafType' /\ i \in Nat /\ (i # nr - 1) \in BOOLEAN /\ {} \in SUBSET Slot
    <3>1. nr \in 1..Cap
      BY <2>1, StoredLeaf
    <3> QED
      BY <2>1, <3>1, CapAssumption DEF LeafInv
  <2> QED
    BY <2>1, <2>2, <2>3, <2>4, <2>5, <2>6, SeenByReaders
<1> QED
  BY <1>1, <1>2

LEMMA ReadersByWriter ==
  ASSUME LookupTypeOK, LeafInv, LeafInv', ReadersInv, Writer
  PROVE  LookupTypeOK' /\ ReadersInv'
<1>1. CASE BeginInsert \/ BeginDelete
  BY <1>1, ReadersByBegin
<1>2. CASE ~ (BeginInsert \/ BeginDelete)
  <2>1. wpc # "rest" /\ UNCHANGED reader
    BY <1>2 DEF Writer, SplitMax, SplitNr, ClearKey, ClearPtr, Grow, PushKey, PushPtr, PutKey,
      PutPtr, Extend, Count, PullKey, PullPtr, LowerMax, Shrink, Kill, Then
  <2>2. pc' = pc /\ rd' = rd
    BY <2>1 DEF reader
  <2>3. ASSUME NEW r \in Readers, NEW label, NEW l, label = pc[r], l = rd[r]
        PROVE  ReadInv(label, l)'
    <3>1. l \in ReaderType /\ label \in Labels /\ ReadInv(label, l)
      BY <2>3 DEF LookupTypeOK, ReadersInv
    <3>2. ASSUME Active(label), ~ l.moved
          PROVE  /\ split' = split
                 /\ SeenInv(l)'
                 /\ \A j \in 0..Cap : Stays(j) \/ (wpc \in Inserting /\ j = w.slot /\ j > 0)
                 /\ wpc' \in Inserting =>
                      l.last <= w'.slot \/ (wpc \in Inserting /\ w'.slot = w.slot)
      <4>1. SeenInv(l)
        BY <3>1, <3>2 DEF ReadInv
      <4> QED
        BY <2>1, <3>1, <4>1, StillStores
    <3> QED
      BY <3>1, <3>2, StoreOnReader
  <2>4. ASSUME NEW r \in Readers PROVE ReadInv(pc[r], rd[r])'
    <3>1. PICK label, l : label = pc[r] /\ l = rd[r] /\ ReadInv(label, l)'
      BY <2>3
    <3> QED
      BY <2>2, <3>1
  <2> QED
    BY <2>2, <2>4 DEF LookupTypeOK, ReadersInv, LeafInv
<1> QED
  BY <1>1, <1>2

LEMMA ReadersStep ==
  LeafInv /\ LookupTypeOK /\ ReadersInv /\ [Next]_vars => LookupTypeOK' /\ ReadersInv'
<1>1. SUFFICES ASSUME LeafInv, LookupTypeOK, ReadersInv, [Next]_vars
               PROVE  LookupTypeOK' /\ ReadersInv'
  OBVIOUS
<1>2. LeafInv'
  BY <1>1, LeafStep
<1>3. CASE Writer
  BY <1>1, <1>2, <1>3, ReadersByWriter
<1>4. CASE \E r \in Readers : Lookup(r)
  BY <1>1, <1>4, ReadersByLookup
<1>5. CASE UNCHANGED vars
  <2>1. UNCHANGED <<nr, max, keys, ptrs, dead, split, wpc, w, pc, rd>>
    BY <1>5 DEF vars, leaf, writer, reader
  <2>2. LookupTypeOK'
    BY <1>1, <1>2, <2>1 DEF LookupTypeOK, LeafInv
  <2>3. UNCHANGED <<Contents, Entering, Leaving>>
    BY <2>1 DEF Contents, Stored, Entering, Leaving
  <2>4. ASSUME NEW r \in Readers, NEW label, NEW l, label = pc[r], l = rd[r]
        PROVE  ReadInv(label, l)'
    <3>1. ReadInv(label, l)
      BY <1>1, <2>4 DEF ReadersInv
    <3>2. SeenInv(l)' = SeenInv(l) /\ FirstInv(label, l)' = FirstInv(label, l)
      BY <2>1, <2>3 DEF SeenInv, FirstInv
    <3>3. BoundsInv(label, l)' = BoundsInv(label, l) /\ CountedInv(label, l)' = CountedInv(label, l)
      BY <2>1 DEF BoundsInv, CountedInv, Here
    <3> QED
      BY <3>1, <3>2, <3>3 DEF ReadInv, AnswerInv
  <2>5. ASSUME NEW r \in Readers PROVE ReadInv(pc[r], rd[r])'
    <3>1. PICK label, l : label = pc[r] /\ l = rd[r] /\ ReadInv(label, l)'
      BY <2>4
    <3> QED
      BY <2>1, <3>1
  <2> QED
    BY <2>2, <2>5 DEF ReadersInv
<1> QED
  BY <1>1, <1>3, <1>4, <1>5 DEF Next, Finished

LEMMA ReadersCorrect == Spec => [](LeafInv /\ LookupTypeOK /\ ReadersInv)
<1>1. Init => LeafInv /\ LookupTypeOK /\ ReadersInv
  BY InitLeaf, InitReaders
<1>2. LeafInv /\ LookupTypeOK /\ ReadersInv /\ [Next]_vars
        => (LeafInv /\ LookupTypeOK /\ ReadersInv)'
  BY LeafStep, ReadersStep
<1> QED
  BY <1>1, <1>2, PTL DEF Spec

\* Every variable of the leaf, of its lock holder and of the lookups stays in its
\* range: nr and the slots a lookup of skiplist.c counts never exceed the size
\* of the arrays, and a slot is a range, NULL or what the memory held before.
THEOREM LookupTypeCorrect == Spec => []LookupTypeOK
BY ReadersCorrect, PTL

\* skiplist_lookup_rcu() without a lock is right about a leaf whose ranges are
\* not moved while it runs, for every number of readers, changes and slots.
THEOREM UnmovedLookupsRightTheorem == Spec => []UnmovedLookupsRight
<1>1. ReadersInv => UnmovedLookupsRight
  BY DEF ReadersInv, ReadInv, AnswerInv, UnmovedLookupsRight, Key
<1> QED
  BY <1>1, ReadersCorrect, PTL
=============================================================================
