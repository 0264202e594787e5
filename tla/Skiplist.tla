------------------------------ MODULE Skiplist ------------------------------
(***************************************************************************)
(* The concurrent skiplist of skiplist/ref/skiplist.c: insertion, deletion *)
(* and locked lookup by threads that walk the levels without locks, lock   *)
(* nodes from left to right, check what they have read, and start again    *)
(* when it no longer holds.  An action is at most one lock acquisition and *)
(* the code under the locks held, up to the next access that a walk        *)
(* without locks can tell apart.  Leaves are as in SkiplistLeaf; min and   *)
(* max are keys[0] and the cached end, which outlive the last range.       *)
(*                                                                         *)
(* As in skiplist_test.c, one thread fills the list before the others      *)
(* start.  A thread keeps to one processor, so preload is per thread.      *)
(***************************************************************************)
EXTENDS SkiplistLeaf, FiniteSets

CONSTANTS Threads, NoThread,
          Leaves,              \* the memory kmem_cache_alloc() hands out
          HeadNode, NoNode,    \* list->head and NULL
          MaxLevel,            \* SKIP_MAXLEVEL
          Limit, Align,        \* of skiplist_insert_hole(): the end of the
                               \*   space, and the alignment
          FillThread,          \* the thread that fills the list
          Programs             \* what the threads run: the ranges to fill in
                               \*   and the calls [op, r] of each thread

ASSUME SkiplistAssumption ==
  /\ NoThread \notin Threads
  /\ HeadNode \notin Leaves /\ NoNode \notin Leaves /\ HeadNode # NoNode
  /\ MaxLevel \in Nat /\ MaxLevel >= 2
  /\ Limit \in Nat /\ Align \in Nat \ {0}
  /\ FillThread \in Threads

ASSUME ProgramsAssumption ==
  \A g \in Programs :
    /\ g.fill \in Seq(Slot)
    /\ g.todo \in [Threads -> Seq([op : {"insert", "hole", "delete", "lookup"},
                                   r : Slot])]

Nodes == Leaves \cup {HeadNode}
Levels == 0..MaxLevel - 1
Empty == -1

VARIABLES
  next, prev,    \* next[n][l], prev[n][l]: the links of n on level l
  dead,          \* the nodes whose dead flag is set
  lock,          \* lock[n]: the holder of n's spinlock, or NoThread
  height,        \* height[n]: node->level of leaf n
  slots,         \* slots[n]: the ranges in leaf n
  min, max,      \* min[n], max[n]: keys[0] and max of leaf n
  listLevel,     \* list->level
  used,          \* leaves allocated so far
  preload,       \* preload[t][l]: level of the leaf preloaded under token l
  pc, th,        \* where each thread is, and its local variables
  toFill, todo,  \* ranges still to be filled in; calls each thread has left
  call,          \* history: the calls in progress, as in RangeSet
  buried         \* history: ranges stored into a leaf already dead

links == <<next, prev>>
leaf == <<height, slots, min, max>>
client == <<toFill, todo>>
vars == <<links, dead, lock, leaf, listLevel, used, preload, pc, th, client,
          call, buried>>

Named ==
  UNION {ToSet(g.fill) \cup UNION {{w.r : w \in ToSet(g.todo[t])} : t \in Threads} :
         g \in Programs}
Ranges == Named \cup [key : 0..Limit, size : {r.size : r \in Named}]
Maybe == Nodes \cup {NoNode}

Locals ==
  [op : {"none", "insert", "hole", "delete", "lookup"},
   key : Nat, size : Nat,        \* the range of the call; key is first the hint
   level : -1..MaxLevel, pending : 0..MaxLevel, token : 0..MaxLevel,
   p : Maybe, leaf : Maybe,
   pr : Maybe, nx : Maybe,       \* the neighbours about to be locked
   rule1 : Maybe,                \* prev in verify_key_in_path()
   new : Maybe, ins : Maybe,     \* split or the new leaf, and ins_locked
   cur : [0..MaxLevel -> Maybe], \* skp->cursor
   i : -1..MaxLevel, slot : Nat, seen : Nat, last : Nat]

NoCursor == [l \in 0..MaxLevel |-> NoNode]

Resting ==
  [op |-> "none", key |-> 0, size |-> 0, level |-> 0, pending |-> 0,
   token |-> 0, p |-> NoNode, leaf |-> NoNode, pr |-> NoNode, nx |-> NoNode,
   rule1 |-> NoNode, new |-> NoNode, ins |-> NoNode, cur |-> NoCursor,
   i |-> 0, slot |-> 0, seen |-> 0, last |-> 0]

\* sl_init_list()
Init ==
  /\ next = [n \in Nodes |-> [l \in Levels |-> NoNode]]
  /\ prev = next
  /\ dead = {}
  /\ lock = [n \in Nodes |-> NoThread]
  /\ height = [n \in Leaves |-> 0]
  /\ slots = [n \in Leaves |-> <<>>]
  /\ min = [n \in Leaves |-> 0]
  /\ max = [n \in Leaves |-> 0]
  /\ listLevel = 0
  /\ used = {}
  /\ preload = [t \in Threads |-> [l \in Levels |-> Empty]]
  /\ pc = [t \in Threads |-> "rest"]
  /\ th = [t \in Threads |-> Resting]
  /\ \E g \in Programs : toFill = g.fill /\ todo = g.todo
  /\ call = [t \in Threads |-> [op |-> "none", found |-> FALSE]]
  /\ buried = {}

-----------------------------------------------------------------------------
(* Links, locks and the cursor *)

\* find_live_next(): past the dead nodes that are still linked.
LiveNext(n, l) ==
  LET from[m \in Nodes \cup {NoNode}] ==
        IF m = NoNode \/ m \notin dead THEN m ELSE from[next[m][l]]
  IN  from[next[n][l]]

\* find_live_prev(): NoNode for the head, for which the source returns NULL;
\* for a leaf not linked on this level, where it dereferences NULL.
LivePrev(n, l) ==
  LET from[m \in Nodes \cup {NoNode}] ==
        IF m = NoNode \/ m \notin dead THEN m ELSE from[prev[m][l]]
  IN  IF n = HeadNode THEN NoNode ELSE from[prev[n][l]]

Acquire(t, n) == lock[n] = NoThread /\ lock' = [lock EXCEPT ![n] = t]
Release(R) == lock' = [n \in Nodes |-> IF n \in R THEN NoThread ELSE lock[n]]

\* t locks n, and what it finds then makes it give up R.
AcquireRelease(t, n, R) ==
  /\ lock[n] = NoThread
  /\ lock' = [m \in Nodes |-> IF m \in R THEN NoThread
                              ELSE IF m = n THEN t ELSE lock[m]]

InCursor(t, n) == \E l \in 0..th[t].pending : th[t].cur[l] = n

\* What free_cursor_locks() unlocks, and the lock on ins_locked.
CursorNodes(t) == {th[t].cur[l] : l \in 0..MaxLevel} \ {NoNode}
Held(t) == CursorNodes(t) \cup ({th[t].ins} \ {NoNode})

Locking(t) == th[t].level <= th[t].pending

\* Seeded defect: also when the cursor needs p.
PassedAlways(t) == IF Locking(t) THEN {th[t].p} ELSE {}

\* "walk our lock forward": the lock on p, unless the cursor needs it.
Passed(t) ==
  IF Locking(t) /\ ~ InCursor(t, th[t].p) THEN {th[t].p} ELSE {}

\* Seeded defect: sl_link_after_node() does not turn to the cursor.
BehindAfter(t, l) == th[t].p

\* The node the new leaf is linked behind on level l: `after' as far up as it
\* goes, then the cursor; only the cursor in a list found empty.
Behind(t, l) ==
  LET p == th[t].p
  IN  IF p # HeadNode /\ l <= height[p] THEN p ELSE th[t].cur[l]

Goto(t, label) == pc' = [pc EXCEPT ![t] = label]

\* rcu_read_unlock() and return, without the locks in R.
Return(t, R) ==
  /\ Release(R)
  /\ th' = [th EXCEPT ![t] = Resting]
  /\ Goto(t, "rest")
  /\ toFill' = IF toFill = <<>> THEN toFill ELSE Tail(toFill)
  /\ UNCHANGED todo

-----------------------------------------------------------------------------
(* History: the set of ranges and the calls in progress, for RangeSet *)

\* The ranges of the leaves linked on level 0.
Contents ==
  LET onward[n \in Maybe] ==
        IF n = NoNode THEN {} ELSE ToSet(slots[n]) \cup onward[LiveNext(n, 0)]
  IN  onward[LiveNext(HeadNode, 0)]

Lingering == {call[u].r : u \in {v \in Threads : call[v].op = "deleting"}}

\* t's entry becomes c, the calls in progress see the new contents.
Record(t, c) ==
  call' = [u \in Threads |->
    IF u = t THEN c
    ELSE IF call[u].op \in {"none", "deleting"} THEN call[u]
    ELSE [call[u] EXCEPT !.ever = @ \cup Contents', !.always = @ \cap Contents']]

Arg(t) == [key |-> th[t].key, size |-> th[t].size]
Over(found) == [op |-> "none", found |-> found]

Quiet == UNCHANGED <<call, buried>>
Done(t) == Record(t, Over(FALSE)) /\ UNCHANGED buried

-----------------------------------------------------------------------------
(* Starting a call *)

\* skiplist_preload(): the level is random, at most one above the list's.
Preload(t, token, level) ==
  IF preload[t][token] # Empty
  THEN level = preload[t][token] /\ UNCHANGED preload
  ELSE /\ level <= token
       /\ preload' = [preload EXCEPT ![t] =
            [l \in Levels |-> IF l = token THEN level
                              ELSE IF l = 0 /\ @[0] = Empty THEN 0 ELSE @[l]]]

Allowed(t) ==
  IF toFill # <<>>
  THEN IF t = FillThread THEN {[op |-> "insert", r |-> Head(toFill)]} ELSE {}
  ELSE IF todo[t] # <<>> THEN {Head(todo[t])} ELSE {}

Call(t, w) ==
  /\ todo' = IF toFill = <<>> THEN [todo EXCEPT ![t] = Tail(@)] ELSE todo
  /\ UNCHANGED <<links, dead, lock, leaf, listLevel, used, toFill, buried>>
  /\ Record(t, [op |-> w.op, r |-> w.r, ever |-> Contents \cup Lingering,
                always |-> Contents])

\* skiplist_preload(), then skiplist_insert() or skiplist_insert_hole() as far
\* as rcu_read_lock().
BeginInsert(t) ==
  /\ pc[t] = "rest"
  /\ \E w \in {x \in Allowed(t) : x.op \in {"insert", "hole"}}, level \in Levels :
       LET token == IF listLevel + 1 < MaxLevel THEN listLevel + 1 ELSE MaxLevel - 1
       IN  /\ Preload(t, token, level)
           /\ th' = [th EXCEPT ![t] = [Resting EXCEPT
                !.op = w.op, !.key = w.r.key, !.size = w.r.size,
                !.token = token, !.pending = level]]
           /\ Call(t, w)
           /\ Goto(t, IF w.op = "insert" THEN "fast" ELSE "top")

BeginSearch(t) ==
  /\ pc[t] = "rest"
  /\ \E w \in {x \in Allowed(t) : x.op \in {"delete", "lookup"}} :
       /\ th' = [th EXCEPT ![t] = [Resting EXCEPT
            !.op = w.op, !.key = w.r.key, !.size = w.r.size]]
       /\ Call(t, w)
  /\ Goto(t, "top")
  /\ UNCHANGED preload

\* What a step leaves alone that only touches locks and locals.
Private == UNCHANGED <<links, dead, leaf, listLevel, used, preload, client>> /\ Quiet
Unlocked == Private /\ UNCHANGED lock

-----------------------------------------------------------------------------
(* skiplist_insert(): appending to the last leaf without a walk *)

Room(t, n) == th[t].pending = 0 \/ Len(slots[n]) < Cap

FastRead(t) ==
  LET last == prev[HeadNode][0]
  IN  /\ pc[t] = "fast"
      /\ IF last # NoNode /\ min[last] <= th[t].key /\ Room(t, last)
         THEN Goto(t, "fastlock") /\ th' = [th EXCEPT ![t].leaf = last]
         ELSE Goto(t, "again") /\ UNCHANGED th
      /\ Unlocked

FastLock(t) ==
  LET last == th[t].leaf
  IN  /\ pc[t] = "fastlock"
      /\ IF /\ last \notin dead /\ min[last] <= th[t].key
            /\ last = prev[HeadNode][0] /\ next[last][0] = NoNode
            /\ Room(t, last)
         THEN /\ Acquire(t, last)
              /\ Goto(t, "overlap")
              /\ th' = [th EXCEPT ![t].ins = last, ![t].p = last]
         ELSE /\ AcquireRelease(t, last, {last})
              /\ Goto(t, "again")
              /\ UNCHANGED th
      /\ Private

-----------------------------------------------------------------------------
(* skiplist_insert(): the walk *)

\* again: list->level is read before the head is locked.
FromTheTop(t) ==
  /\ pc[t] = "again"
  /\ th' = [th EXCEPT ![t].p = HeadNode, ![t].level = listLevel,
                      ![t].leaf = NoNode]
  /\ Goto(t, IF listLevel <= th[t].pending THEN "headlock" ELSE "skip")
  /\ Unlocked

HeadLock(t) ==
  /\ pc[t] = "headlock"
  /\ Acquire(t, HeadNode)
  /\ th' = [th EXCEPT ![t].cur = [l \in 0..MaxLevel |->
              IF l \in {th[t].level, th[t].pending} THEN HeadNode ELSE @[l]]]
  /\ Goto(t, "skip")
  /\ Private

\* One turn of the loop over the NULL levels, which locks the head on the way
\* into pending_level; or its end.
SkipLevel(t) ==
  LET l == th[t].level - 1
  IN  /\ pc[t] = "skip"
      /\ IF next[HeadNode][th[t].level] = NoNode /\ th[t].level > 0
         THEN IF l <= th[t].pending /\ ~ InCursor(t, HeadNode)
              THEN th' = [th EXCEPT ![t].level = l] /\ Goto(t, "headlock")
              ELSE /\ th' = [th EXCEPT ![t].level = l, ![t].cur =
                        IF l <= th[t].pending THEN [@ EXCEPT ![l] = HeadNode] ELSE @]
                   /\ UNCHANGED pc
         ELSE Goto(t, "walk") /\ UNCHANGED th
      /\ Unlocked

Walk(t) ==
  LET n == LiveNext(th[t].p, th[t].level)
  IN  /\ pc[t] = "walk"
      /\ th' = [th EXCEPT ![t].leaf = n]
      /\ Goto(t, IF n = NoNode
                 THEN IF th[t].p = HeadNode \/ th[t].level # 0 THEN "down" ELSE "overlap"
                 ELSE IF Locking(t) THEN "walklock" ELSE "compare")
      /\ Unlocked

\* Seeded defect: p stays locked when the next leaf is not the expected one.
WalkLockLeaks(t) ==
  LET me == th[t]
      n == me.leaf
  IN  /\ pc[t] = "walklock"
      /\ IF n \in dead \/ LiveNext(me.p, me.level) # n \/ LivePrev(n, me.level) # me.p
         THEN /\ AcquireRelease(t, n, {n})
              /\ th' = [th EXCEPT ![t].cur = NoCursor]
              /\ Goto(t, "again")
         ELSE /\ Acquire(t, n)
              /\ Goto(t, "compare")
              /\ UNCHANGED th
      /\ Private

WalkLock(t) ==
  LET me == th[t]
      n == me.leaf
  IN  /\ pc[t] = "walklock"
      /\ IF n \in dead \/ LiveNext(me.p, me.level) # n \/ LivePrev(n, me.level) # me.p
         THEN /\ AcquireRelease(t, n, {n, me.p} \cup CursorNodes(t))
              /\ th' = [th EXCEPT ![t].cur = NoCursor]
              /\ Goto(t, "again")
         ELSE /\ Acquire(t, n)
              /\ Goto(t, "compare")
              /\ UNCHANGED th
      /\ Private

\* The leaf is behind the key, in front of it, or its home.
Compare(t) ==
  LET me == th[t]
      n == me.leaf
  IN  /\ pc[t] = "compare"
      /\ \/ /\ me.key >= max[n]
            /\ Release(Passed(t))
            /\ th' = [th EXCEPT ![t].p = n]
            /\ Goto(t, "walk")
         \/ /\ me.key < max[n] /\ me.key < min[n] /\ ~ Locking(t)
            /\ th' = [th EXCEPT ![t].seen = min[n]]
            /\ Goto(t, "recheck")
            /\ UNCHANGED lock
         \/ /\ me.key < max[n] /\ me.key < min[n] /\ Locking(t) /\ me.level # 0
            /\ Release({n})
            /\ Goto(t, "down")
            /\ UNCHANGED th
         \/ /\ me.key < max[n] /\ me.key < min[n] /\ Locking(t) /\ me.level = 0
            /\ Release(Passed(t))
            /\ th' = [th EXCEPT ![t].p = n]
            /\ Goto(t, "overlap")
         \/ /\ me.key < max[n] /\ me.key >= min[n] /\ Locking(t)
            /\ Release(Passed(t))
            /\ th' = [th EXCEPT ![t].p = n]
            /\ Goto(t, "overlap")
         \/ /\ me.key < max[n] /\ me.key >= min[n] /\ ~ Locking(t)
            /\ Goto(t, "homelock")
            /\ UNCHANGED <<th, lock>>
      /\ Private

\* Above pending_level: no new node between p and the leaf.
Recheck(t) ==
  LET me == th[t]
  IN  /\ pc[t] = "recheck"
      /\ Goto(t, IF LivePrev(me.leaf, me.level) # me.p \/ me.seen # min[me.leaf]
                 THEN "again" ELSE "down")
      /\ UNCHANGED th
      /\ Unlocked

\* The home of the key found above pending_level: min and max are checked
\* again under the lock, dead is not.
HomeLock(t) ==
  LET me == th[t]
      n == me.leaf
  IN  /\ pc[t] = "homelock"
      /\ IF me.key < min[n] \/ me.key >= max[n]
         THEN /\ AcquireRelease(t, n, {n})
              /\ th' = [th EXCEPT ![t].pending = me.level]
              /\ Goto(t, "again")
         ELSE /\ Acquire(t, n)
              /\ th' = [th EXCEPT ![t].ins = n, ![t].p = n]
              /\ Goto(t, "overlap")
      /\ Private

\* The end of a level: p goes into the cursor, or is to be verified when
\* locking starts one level down.  Below level 0 the list is empty.
Down(t) ==
  LET me == th[t]
      l == me.level - 1
      cur == IF Locking(t) THEN [me.cur EXCEPT ![me.level] = me.p] ELSE me.cur
      old == me.cur[me.level]
  IN  /\ pc[t] = "down"
      /\ Release(IF Locking(t) /\ old # me.p /\ me.cur[me.level + 1] # old
                 THEN {old} ELSE {})
      /\ IF l = me.pending /\ me.p # HeadNode
         THEN /\ th' = [th EXCEPT ![t].cur = cur, ![t].level = l,
                          ![t].pr = prev[me.p][l + 1], ![t].rule1 = NoNode]
              /\ Goto(t, "verifyprev")
         ELSE /\ th' = [th EXCEPT ![t].cur = cur, ![t].level = l, ![t].rule1 = NoNode]
              /\ Goto(t, IF l = me.pending THEN "verifynode"
                         ELSE IF l < 0 THEN "empty" ELSE "walk")
      /\ Private

-----------------------------------------------------------------------------
(* verify_key_in_path(), on the level above the first cursor entry *)

VerifyPrev(t) ==
  /\ pc[t] = "verifyprev"
  /\ Acquire(t, th[t].pr)
  /\ Goto(t, "verifynode")
  /\ UNCHANGED th
  /\ Private

\* Not in the right place: out, and a level more to lock next time.
Failed(t) ==
  /\ th' = [th EXCEPT ![t].pending = @ + 1, ![t].pr = NoNode, ![t].nx = NoNode]
  /\ Goto(t, "again")

Verified(t) ==
  /\ th' = [th EXCEPT ![t].cur[th[t].level] = th[t].p, ![t].pr = NoNode,
                      ![t].nx = NoNode]
  /\ Goto(t, "walk")

VerifyNode(t) ==
  LET me == th[t]
      p == me.p
      l == me.level + 1
      rule1 == IF p # HeadNode /\ me.pr # HeadNode THEN me.pr ELSE me.rule1
      nx == next[p][l]
  IN  /\ pc[t] = "verifynode"
      /\ \/ /\ p # HeadNode /\ {me.pr, p} \cap dead # {}
            /\ AcquireRelease(t, p, {me.pr, p})
            /\ Failed(t)
         \/ /\ p # HeadNode /\ {me.pr, p} \cap dead = {}
            /\ prev[p][l] # me.pr \/ next[me.pr][l] # p
            /\ AcquireRelease(t, p, {me.pr, p})
            /\ th' = [th EXCEPT ![t].pr = prev[p][l], ![t].rule1 = rule1]
            /\ Goto(t, "verifyprev")
         \/ /\ p # HeadNode => /\ {me.pr, p} \cap dead = {}
                               /\ prev[p][l] = me.pr /\ next[me.pr][l] = p
            /\ IF rule1 # NoNode /\ me.key < max[rule1]
               THEN AcquireRelease(t, p, {me.pr, p}) /\ Failed(t)
               ELSE /\ AcquireRelease(t, p, {me.pr} \ {p})
                    /\ IF nx = NoNode
                       THEN Verified(t)
                       ELSE th' = [th EXCEPT ![t].nx = nx] /\ Goto(t, "verifynext")
      /\ Private

VerifyNext(t) ==
  LET me == th[t]
      l == me.level + 1
  IN  /\ pc[t] = "verifynext"
      /\ IF \/ next[me.p][l] # me.nx \/ prev[me.nx][l] # me.p
            \/ me.nx \in dead \/ me.key >= min[me.nx]
         THEN AcquireRelease(t, me.nx, {me.p, me.nx}) /\ Failed(t)
         ELSE AcquireRelease(t, me.nx, {me.nx}) /\ Verified(t)
      /\ Private
-----------------------------------------------------------------------------
(* find_or_add_key() and add_key_to_leaf() *)

\* find_or_add: the leaf is locked.  check_overlap() locks and unlocks the
\* next leaf, dead or not; then the range gets its place in this one.
FindOrAdd(t) ==
  LET me == th[t]
      p == me.p
      nx == next[p][0]
      ins == IF me.ins = NoNode /\ ~ InCursor(t, p) THEN p ELSE me.ins
      hit == IF me.key < max[p] THEN LeafSlotLocked(slots[p], Arg(t))
             ELSE [found |-> FALSE, slot |-> Len(slots[p]) + 1]
      exists == (nx # NoNode /\ End(Arg(t)) > min[nx]) \/ hit.found
  IN  /\ pc[t] = "overlap"
      /\ nx # NoNode => lock[nx] = NoThread
      /\ UNCHANGED <<links, dead, leaf, listLevel, used, preload>>
      /\ IF exists
         THEN /\ Return(t, Held(t) \cup {ins})
              /\ Done(t)
         ELSE /\ th' = [th EXCEPT ![t].ins = ins, ![t].slot = hit.slot]
              /\ Goto(t, IF Len(slots[p]) < Cap THEN "store" ELSE "split")
              /\ UNCHANGED <<lock, client>>
              /\ Quiet

\* insert: shift and store, or extend; then unlock everything and return.
Store(t) ==
  LET p == th[t].p
      slot == th[t].slot
  IN  /\ pc[t] = "store"
      /\ slots' = [slots EXCEPT ![p] = InsertAt(@, slot, Arg(t))]
      /\ min' = [min EXCEPT ![p] = slots'[p][1].key]
      /\ max' = [max EXCEPT ![p] = IF slot > Len(slots[p]) THEN End(Arg(t)) ELSE @]
      /\ buried' = IF p \in dead THEN buried \cup {Arg(t)} ELSE buried
      /\ UNCHANGED <<links, dead, height, listLevel, used, preload>>
      /\ Record(t, Over(FALSE))
      /\ Return(t, Held(t))

\* The leaf the preload area gives out under the token; Leaves bounds a run.
NewLeaf == CHOOSE n \in Leaves : n \notin used

TakePreloaded(t, token) ==
  /\ used # Leaves
  /\ used' = used \cup {NewLeaf}
  /\ height' = [height EXCEPT ![NewLeaf] = preload[t][token]]
  /\ preload' = [preload EXCEPT ![t][token] = Empty]

\* A full leaf: allocate split, preferably of level 0, lock it and fill it.
Split(t) ==
  LET me == th[t]
      p == me.p
      low == height[p] > 0 /\ preload[t][me.token] <= height[p] /\ preload[t][0] # Empty
      token == IF low THEN 0 ELSE me.token
      moved == SplitMoves(slots[p], me.slot, Arg(t))
  IN  /\ pc[t] = "split"
      /\ TakePreloaded(t, token)
      /\ listLevel' = IF preload[t][token] > listLevel THEN preload[t][token] ELSE listLevel
      /\ Acquire(t, NewLeaf)
      /\ slots' = [slots EXCEPT ![NewLeaf] = moved]
      /\ min' = [min EXCEPT ![NewLeaf] = moved[1].key]
      /\ max' = [max EXCEPT ![NewLeaf] =
                   IF me.slot > Len(slots[p]) THEN End(Arg(t)) ELSE max[p]]
      /\ th' = [th EXCEPT ![t].new = NewLeaf, ![t].i = 0]
      /\ Goto(t, "link")
      /\ Quiet
      /\ UNCHANGED <<links, dead, client>>

\* alloc_leaf(), in a list found empty: the new leaf is not locked.
EmptyList(t) ==
  LET level == preload[t][th[t].token]
  IN  /\ pc[t] = "empty"
      /\ TakePreloaded(t, th[t].token)
      /\ slots' = [slots EXCEPT ![NewLeaf] = <<Arg(t)>>]
      /\ min' = [min EXCEPT ![NewLeaf] = th[t].key]
      /\ max' = [max EXCEPT ![NewLeaf] = End(Arg(t))]
      /\ listLevel' = IF level > listLevel THEN listLevel + 1 ELSE listLevel
      /\ th' = [th EXCEPT ![t].new = NewLeaf, ![t].i = 0, ![t].cur =
                  IF level > listLevel THEN [@ EXCEPT ![listLevel + 1] = HeadNode] ELSE @]
      /\ Goto(t, "link")
      /\ Quiet
      /\ UNCHANGED <<links, dead, lock, client>>

-----------------------------------------------------------------------------
(* sl_link_node() and sl_link_after_node(), level by level from the bottom *)

\* Seeded defect: the new leaf has no way back yet.
LinkForwardFirst(t, nx) ==
  LET new == th[t].new
      i == th[t].i
  IN  /\ next' = [next EXCEPT ![new][i] = nx, ![Behind(t, i)][i] = new]
      /\ th' = [th EXCEPT ![t].nx = nx]
      /\ Goto(t, "linkback")
      /\ UNCHANGED prev
      /\ IF i = 0 /\ Arg(t) \in ToSet(slots[new]) THEN Done(t) ELSE Quiet

\* The forward pointers; with level 0 the ranges of the new leaf appear.
LinkForward(t, nx) ==
  LET new == th[t].new
      i == th[t].i
      b == Behind(t, i)
  IN  /\ next' = [next EXCEPT ![new][i] = nx, ![b][i] = new]
      /\ prev' = [prev EXCEPT ![new][i] = b]
      /\ th' = [th EXCEPT ![t].nx = nx]
      /\ Goto(t, "linkback")
      /\ IF i = 0 /\ Arg(t) \in ToSet(slots[new]) THEN Done(t) ELSE Quiet

LinkRead(t) ==
  LET nx == LiveNext(Behind(t, th[t].i), th[t].i)
  IN  /\ pc[t] = "link"
      /\ UNCHANGED <<dead, lock, leaf, listLevel, used, preload, client>>
      /\ IF nx = NoNode
         THEN LinkForward(t, NoNode)
         ELSE /\ th' = [th EXCEPT ![t].nx = nx]
              /\ Goto(t, "linklock")
              /\ Quiet /\ UNCHANGED links

LinkLock(t) ==
  LET i == th[t].i
      b == Behind(t, i)
      nx == th[t].nx
  IN  /\ pc[t] = "linklock"
      /\ UNCHANGED <<dead, leaf, listLevel, used, preload, client>>
      /\ IF LiveNext(b, i) = nx /\ nx \notin dead /\ LivePrev(nx, i) = b
         THEN Acquire(t, nx) /\ LinkForward(t, nx)
         ELSE /\ AcquireRelease(t, nx, {nx})
              /\ Goto(t, "link")
              /\ Quiet /\ UNCHANGED <<th, links>>

\* The backward pointer; head->prev stands for a successor.
LinkBack(t) ==
  LET me == th[t]
      i == me.i
      split == me.p # HeadNode
      appended == me.slot > Len(slots[me.p])
  IN  /\ pc[t] = "linkback"
      /\ prev' = [prev EXCEPT ![IF me.nx = NoNode THEN HeadNode ELSE me.nx][i] = me.new]
      /\ IF i < height[me.new]
         THEN /\ Release({me.nx})
              /\ th' = [th EXCEPT ![t].i = i + 1, ![t].nx = NoNode]
              /\ Goto(t, "link")
              /\ UNCHANGED client
         ELSE IF split /\ ~ appended
         THEN /\ Release({me.nx})
              /\ th' = [th EXCEPT ![t].nx = NoNode]
              /\ Goto(t, "shrink")
              /\ UNCHANGED client
         ELSE Return(t, {me.nx} \cup Held(t) \cup (IF split THEN {me.new} ELSE {}))
      /\ Quiet
      /\ UNCHANGED <<next, dead, leaf, listLevel, used, preload>>

\* Seeded defect: max still is that of the upper half.
ShrinkKeepsMax(t) ==
  LET me == th[t]
  IN  /\ pc[t] = "shrink"
      /\ slots' = [slots EXCEPT ![me.p] = SplitStays(@, me.slot)]
      /\ IF SplitLeavesRoom(slots[me.p], me.slot)
         THEN Release({me.new}) /\ Goto(t, "store") /\ UNCHANGED <<th, client>>
         ELSE Return(t, Held(t) \cup {me.new})
      /\ Quiet
      /\ UNCHANGED <<links, dead, height, min, max, listLevel, used, preload>>

\* The upper half leaves the old leaf.
Shrink(t) ==
  LET me == th[t]
      stays == SplitStays(slots[me.p], me.slot)
  IN  /\ pc[t] = "shrink"
      /\ max' = [max EXCEPT ![me.p] = End(stays[Len(stays)])]
      /\ slots' = [slots EXCEPT ![me.p] = stays]
      /\ IF SplitLeavesRoom(slots[me.p], me.slot)
         THEN /\ Release({me.new})
              /\ Goto(t, "store")
              /\ UNCHANGED <<th, client>>
         ELSE Return(t, Held(t) \cup {me.new})
      /\ Quiet
      /\ UNCHANGED <<links, dead, height, min, listLevel, used, preload>>

-----------------------------------------------------------------------------
(* skiplist_lookup_leaf(), skiplist_lookup() and skiplist_delete() *)

SearchFromTheTop(t) ==
  /\ pc[t] = "top"
  /\ th' = [th EXCEPT ![t].p = HeadNode, ![t].level = listLevel, ![t].leaf = NoNode]
  /\ Goto(t, "seek")
  /\ Unlocked

\* Down a level; below level 0 nothing was found, and a hole may start at p.
SearchDown(t) ==
  IF th[t].level > 0 \/ th[t].op = "hole"
  THEN /\ th' = [th EXCEPT ![t].level = @ - 1]
       /\ Goto(t, IF th[t].level > 0 THEN "seek" ELSE "holelock")
       /\ Unlocked
  ELSE /\ UNCHANGED <<links, dead, leaf, listLevel, used, preload>>
       /\ Return(t, {})
       /\ Done(t)

Seek(t) ==
  LET n == LiveNext(th[t].p, th[t].level)
  IN  /\ pc[t] = "seek"
      /\ IF n = NoNode
         THEN SearchDown(t)
         ELSE /\ th' = [th EXCEPT ![t].leaf = n]
              /\ Goto(t, "examine")
              /\ Unlocked

Examine(t) ==
  LET n == th[t].leaf
      key == th[t].key
  IN  /\ pc[t] = "examine"
      /\ \/ /\ key >= max[n]
            /\ th' = [th EXCEPT ![t].p = n] /\ Goto(t, "seek")
         \/ /\ key < max[n] /\ key < min[n]
            /\ th' = [th EXCEPT ![t].seen = min[n]] /\ Goto(t, "stable")
         \/ /\ key < max[n] /\ key >= min[n]
            /\ UNCHANGED th
            /\ Goto(t, IF th[t].op = "hole" THEN "holecheck" ELSE "grab")
      /\ Unlocked

\* Nothing has come between p and the leaf behind the key.
Stable(t) ==
  LET me == th[t]
  IN  /\ pc[t] = "stable"
      /\ IF \/ LivePrev(me.leaf, me.level) # me.p
            \/ min[me.leaf] # me.seen \/ {me.p, me.leaf} \cap dead # {}
         THEN Goto(t, "top") /\ UNCHANGED th /\ Unlocked
         ELSE SearchDown(t)

\* Seeded defect: a leaf that has been split since is searched.
VerifyKeyAlive(n, r) == n \notin dead

\* verify_key_in_leaf()
VerifyKeyInLeaf(n, r) ==
  n \notin dead /\ End(r) >= min[n] /\ r.key < max[n]

\* The leaf is locked and searched; a lookup is over, a deletion takes the
\* range out with delete_slot() and goes on to unlink a leaf left empty.
Grab(t) ==
  LET me == th[t]
      n == me.leaf
      hit == LeafSlotLocked(slots[n], Arg(t))
      left == RemoveAt(slots[n], hit.slot)
  IN  /\ pc[t] = "grab"
      /\ lock[n] = NoThread
      /\ IF ~ VerifyKeyInLeaf(n, Arg(t))
         THEN Goto(t, "top") /\ UNCHANGED th /\ Unlocked
         ELSE IF me.op = "lookup" \/ ~ hit.found
         THEN /\ UNCHANGED <<links, dead, leaf, listLevel, used, preload, buried>>
              /\ Return(t, {})
              /\ Record(t, Over(hit.found))
         ELSE /\ slots' = [slots EXCEPT ![n] = left]
              /\ min' = [min EXCEPT ![n] = IF left = <<>> THEN @ ELSE left[1].key]
              /\ max' = [max EXCEPT ![n] =
                           IF left # <<>> /\ hit.slot > Len(left)
                           THEN End(left[Len(left)]) ELSE @]
              /\ UNCHANGED <<links, height, listLevel, used, preload>>
              /\ IF left = <<>>
                 THEN /\ dead' = dead \cup {n}
                      /\ th' = [th EXCEPT ![t].i = height[n]]
                      /\ Goto(t, "erase")
                      /\ Record(t, [op |-> "deleting", r |-> slots[n][hit.slot]])
                      /\ UNCHANGED <<lock, client, buried>>
                 ELSE UNCHANGED dead /\ Return(t, {}) /\ Done(t)

-----------------------------------------------------------------------------
(* sl_erase(): unlink a dead leaf, level by level from the top *)

EraseRead(t) ==
  LET pr == LivePrev(th[t].leaf, th[t].i)
  IN  /\ pc[t] = "erase"
      /\ th' = [th EXCEPT ![t].pr = pr]
      /\ Goto(t, IF pr = NoNode THEN "oops" ELSE "eraseprev")
      /\ Unlocked

ErasePrev(t) ==
  /\ pc[t] = "eraseprev"
  /\ Acquire(t, th[t].pr)
  /\ Goto(t, "erasenode")
  /\ UNCHANGED th
  /\ Private

EraseNode(t) ==
  LET me == th[t]
  IN  /\ pc[t] = "erasenode"
      /\ IF LivePrev(me.leaf, me.i) # me.pr \/ me.pr \in dead
         THEN AcquireRelease(t, me.leaf, {me.pr, me.leaf}) /\ Goto(t, "erase")
         ELSE Acquire(t, me.leaf) /\ Goto(t, "erasegrab")
      /\ UNCHANGED th
      /\ Private

\* prev and next of the dead leaf point to each other.
Bypass(t, nx) ==
  /\ next' = [next EXCEPT ![th[t].pr][th[t].i] = nx]
  /\ th' = [th EXCEPT ![t].nx = nx]
  /\ Goto(t, "eraseback")

EraseGrab(t) ==
  LET nx == LiveNext(th[t].pr, th[t].i)
  IN  /\ pc[t] = "erasegrab"
      /\ IF nx = NoNode
         THEN Bypass(t, NoNode)
         ELSE /\ th' = [th EXCEPT ![t].nx = nx]
              /\ Goto(t, "erasenext")
              /\ UNCHANGED next
      /\ UNCHANGED <<prev, dead, lock, leaf, listLevel, used, preload, client>>
      /\ Quiet

EraseNext(t) ==
  LET me == th[t]
      nx == me.nx
  IN  /\ pc[t] = "erasenext"
      /\ IF LiveNext(me.pr, me.i) = nx /\ nx \notin dead /\ LivePrev(nx, me.i) = me.pr
         THEN Acquire(t, nx) /\ Bypass(t, nx)
         ELSE /\ UNCHANGED <<next, th>>
              /\ IF LiveNext(me.pr, me.i) # nx \/ nx \in dead
                 THEN AcquireRelease(t, nx, {nx}) /\ Goto(t, "erasegrab")
                 ELSE AcquireRelease(t, nx, {me.pr, me.leaf, nx}) /\ Goto(t, "erase")
      /\ UNCHANGED <<prev, dead, leaf, listLevel, used, preload, client>>
      /\ Quiet

\* The backward pointer, head->prev behind the last leaf; then the level below.
EraseBack(t) ==
  LET me == th[t]
      back == IF me.nx = NoNode /\ me.pr = HeadNode THEN NoNode ELSE me.pr
  IN  /\ pc[t] = "eraseback"
      /\ prev' = [prev EXCEPT ![IF me.nx = NoNode THEN HeadNode ELSE me.nx][me.i] = back]
      /\ UNCHANGED <<next, dead, leaf, listLevel, used, preload>>
      /\ IF me.i > 0
         THEN /\ Release({me.pr, me.leaf, me.nx})
              /\ th' = [th EXCEPT ![t].i = @ - 1, ![t].nx = NoNode]
              /\ Goto(t, "erase")
              /\ Quiet /\ UNCHANGED client
         ELSE Return(t, {me.pr, me.leaf, me.nx}) /\ Done(t)

-----------------------------------------------------------------------------
(* skiplist_insert_hole(), after the search for its hint *)

AlignStart(x) == ((x + Align - 1) \div Align) * Align

HoleCheck(t) ==
  /\ pc[t] = "holecheck"
  /\ Goto(t, IF VerifyKeyInLeaf(th[t].leaf, Arg(t)) THEN "holelock" ELSE "top")
  /\ UNCHANGED th
  /\ Unlocked

\* again_lock: back to a leaf that ends before the hint; the hole may start
\* behind it.
HoleLock(t) ==
  LET me == th[t]
      p == me.p
  IN  /\ pc[t] = "holelock"
      /\ \/ /\ p \in dead
            /\ AcquireRelease(t, p, {p})
            /\ Goto(t, "top")
            /\ UNCHANGED th
         \/ /\ p \notin dead /\ p # HeadNode /\ max[p] > me.key
            /\ AcquireRelease(t, p, {p})
            /\ th' = [th EXCEPT ![t].p = prev[p][0]]
            /\ UNCHANGED pc
         \/ /\ p \notin dead
            /\ p # HeadNode => max[p] <= me.key
            /\ Acquire(t, p)
            /\ th' = [th EXCEPT ![t].last =
                        AlignStart(IF p = HeadNode THEN me.key ELSE max[p])]
            /\ Goto(t, "holewalk")
      /\ Private

\* What the loop over the slots of n comes to, from the end `last' of what
\* lies before: a hole, nothing below Limit, or on to the next leaf.
Scan(n, last, size) ==
  LET from[b \in (1..Len(slots[n]) + 1) \X Nat] ==
        LET i == b[1]
            e == b[2]
            s == slots[n][i]
            end == AlignStart(End(s))
        IN  IF i > Len(slots[n]) THEN [is |-> "next", last |-> e]
            ELSE IF e > s.key THEN from[<<i + 1, e>>]
            ELSE IF s.key - e >= size
            THEN [is |-> IF e + size > Limit THEN "none" ELSE "hole", last |-> e]
            ELSE IF end + size > Limit THEN [is |-> "none", last |-> end]
            ELSE from[<<i + 1, end>>]
  IN  IF last > max[n] THEN [is |-> "next", last |-> last] ELSE from[<<1, last>>]

\* The next leaf, or what is left behind the last one.
HoleWalk(t) ==
  LET me == th[t]
      n == LiveNext(me.p, 0)
  IN  /\ pc[t] = "holewalk"
      /\ UNCHANGED <<links, dead, leaf, listLevel, used, preload>>
      /\ IF n # NoNode
         THEN /\ th' = [th EXCEPT ![t].leaf = n]
              /\ Goto(t, "holenext")
              /\ UNCHANGED <<lock, client>> /\ Quiet
         ELSE IF me.last + me.size <= Limit
         THEN /\ Release({me.p})
              /\ th' = [th EXCEPT ![t].key = me.last]
              /\ Goto(t, "fast")
              /\ UNCHANGED client /\ Quiet
         ELSE Return(t, {me.p}) /\ Done(t)

\* With p and leaf locked: try_insert into leaf, try it by skiplist_insert()
\* without the locks, give up, or go on.
HoleNext(t) ==
  LET me == th[t]
      n == me.leaf
      scan == Scan(n, me.last, me.size)
      fits == /\ Room(t, n) /\ n \notin dead
              /\ scan.last >= min[n] /\ scan.last + me.size <= max[n]
  IN  /\ pc[t] = "holenext"
      /\ UNCHANGED <<links, dead, leaf, listLevel, used, preload>>
      /\ \/ /\ scan.is = "next"
            /\ AcquireRelease(t, n, {me.p})
            /\ th' = [th EXCEPT ![t].p = n, ![t].last = scan.last]
            /\ Goto(t, "holewalk")
            /\ UNCHANGED client /\ Quiet
         \/ /\ scan.is = "hole" /\ fits
            /\ AcquireRelease(t, n, {me.p})
            /\ th' = [th EXCEPT ![t].p = n, ![t].ins = n, ![t].key = scan.last]
            /\ Goto(t, "overlap")
            /\ UNCHANGED client /\ Quiet
         \/ /\ scan.is = "hole" /\ ~ fits
            /\ AcquireRelease(t, n, {me.p, n})
            /\ th' = [th EXCEPT ![t].key = scan.last]
            /\ Goto(t, "fast")
            /\ UNCHANGED client /\ Quiet
         \/ /\ scan.is = "none"
            /\ lock[n] = NoThread
            /\ Return(t, {me.p}) /\ Done(t)

-----------------------------------------------------------------------------
Insert(t) ==
  \/ BeginInsert(t) \/ FastRead(t) \/ FastLock(t)
  \/ FromTheTop(t) \/ HeadLock(t) \/ SkipLevel(t)
  \/ Walk(t) \/ WalkLock(t) \/ Compare(t) \/ Recheck(t) \/ HomeLock(t) \/ Down(t)
  \/ VerifyPrev(t) \/ VerifyNode(t) \/ VerifyNext(t)
  \/ FindOrAdd(t) \/ Store(t) \/ Split(t) \/ EmptyList(t)
  \/ LinkRead(t) \/ LinkLock(t) \/ LinkBack(t) \/ Shrink(t)

Search(t) ==
  \/ BeginSearch(t) \/ SearchFromTheTop(t) \/ Seek(t) \/ Examine(t) \/ Stable(t)
  \/ Grab(t)

Erase(t) ==
  \/ EraseRead(t) \/ ErasePrev(t) \/ EraseNode(t) \/ EraseGrab(t) \/ EraseNext(t)
  \/ EraseBack(t)

Hole(t) == HoleCheck(t) \/ HoleLock(t) \/ HoleWalk(t) \/ HoleNext(t)

Step(t) == Insert(t) \/ Search(t) \/ Erase(t) \/ Hole(t)

AllAtRest == \A t \in Threads : pc[t] = "rest"

\* All calls made, or a thread stopped by an oops.
Stopped ==
  /\ \/ AllAtRest /\ \A t \in Threads : Allowed(t) = {}
     \/ \E t \in Threads : pc[t] = "oops"
  /\ UNCHANGED vars

Next == (\E t \in Threads : Step(t)) \/ Stopped

Spec == Init /\ [][Next]_vars

\* Threads are preemptible only outside the calls, and waiting for a spinlock
\* ends when it is given up for good.
FairSpec == Spec /\ \A t \in Threads : WF_vars(Step(t))

-----------------------------------------------------------------------------
(* Properties *)

RS == INSTANCE RangeSet WITH ranges <- Contents

\* Every variable has its type; no leaf holds more than Cap ranges.
TypeOK ==
  /\ next \in [Nodes -> [Levels -> Maybe]]
  /\ prev \in [Nodes -> [Levels -> Maybe]]
  /\ dead \subseteq used /\ used \subseteq Leaves
  /\ lock \in [Nodes -> Threads \cup {NoThread}]
  /\ height \in [Leaves -> Levels]
  /\ DOMAIN slots = Leaves
  /\ \A n \in Leaves : Len(slots[n]) <= Cap /\ ToSet(slots[n]) \subseteq Ranges
  /\ min \in [Leaves -> Nat] /\ max \in [Leaves -> Nat]
  /\ listLevel \in Levels
  /\ preload \in [Threads -> [Levels -> Levels \cup {Empty}]]
  /\ \A t \in Threads : th[t] \in Locals
  /\ RS!TypeOK
  /\ buried \subseteq Ranges

\* The calls behave as RangeSet says, every step of the code being one of its
\* steps or none, as long as no range is stored into a leaf that is already
\* dead.
ImplementsRangeSet ==
  [][buried' = {} => UNCHANGED RS!vars \/ RS!Next]_vars

\* A range an insertion has reported stored is in the list.
NothingBuried == buried = {}

\* A leaf in the list, whoever has locked it, is not empty, its ranges are in order
\* and apart, and min and max, which the walks without locks steer by, are those
\* of its ranges.
Sound(n) ==
  /\ slots[n] # <<>> /\ Ordered(slots[n])
  /\ min[n] = slots[n][1].key /\ max[n] = End(slots[n][Len(slots[n])])

LiveLeavesSound == \A n \in used \ dead : Sound(n)

\* No range of the list overlaps another: check_overlap() is to make sure that a
\* range does not extend into the next leaf, verify_key_in_path() that the leaf
\* is the best place for the key.
NoOverlap == \A r, s \in Contents : r # s => ~ Overlap(r, s)

\* When no call is in progress every level is a doubly linked list of the live
\* leaves of at least that height, head->prev caches the last leaf, no dead leaf
\* is linked, and level 0 is in order.
LinkedAtRest ==
  AllAtRest => \A l \in Levels :
    LET linked == {n \in used \ dead : height[n] >= l}
        last == prev[HeadNode][l]
    IN  /\ \A n \in linked \cup {HeadNode} :
             /\ next[n][l] \in linked \cup {NoNode}
             /\ next[n][l] # NoNode => prev[next[n][l]][l] = n
             /\ l = 0 /\ n # HeadNode /\ next[n][0] # NoNode => max[n] <= min[next[n][0]]
        /\ \A n \in linked : next[prev[n][l]][l] = n
        /\ IF linked = {} THEN last = NoNode ELSE last \in linked /\ next[last][l] = NoNode

\* The assertions of sl_link_one_level(): the node to link behind is locked,
\* and not dead.
LinkBehindLiveLocked ==
  \A t \in Threads : pc[t] \in {"link", "linklock"} =>
    LET b == Behind(t, th[t].i)
    IN  b # NoNode /\ b \notin dead /\ lock[b] = t

\* find_live_prev() meets a NULL link only in a leaf that an insertion into an
\* empty list is still linking.
OopsOnlyWhileLinking ==
  [][\A t \in Threads : pc[t] = "erase" /\ pc'[t] = "oops" =>
       \E u \in Threads : th[u].new = th[t].leaf /\ th[u].p = HeadNode]_vars

\* Every call returns, or some thread has stopped with an oops.
CallsReturn == <>[](AllAtRest \/ \E t \in Threads : pc[t] = "oops")

=============================================================================
