# Verification of parallel-programs

TLA+ models of the synchronisation algorithms of this repository (user-space
and kernel-space RCU, a sequence lock, a barrier, a concurrent and a sequential
skip list), TLC runs that check them on small instances, and TLAPS proofs of
the main properties of every modelled component for instances of any size.

Contents: [inventory](#inventory), [how to run](#how-to-run),
[the modules](#the-modules), [what the runs show](#what-the-runs-show),
[bounds](#bounds), [fairness](#fairness), [proofs](#proofs),
[disagreements found](#disagreements-with-the-documentation),
[further facts](#further-facts), [not modelled](#not-modelled),
[status](#status).

## Inventory

| component | source | state | operations | modules |
|---|---|---|---|---|
| thrd-based RCU | `rcu/thrd-based-rcu/` | list of nodes, two nesting slots each; slot index; spinlock `sp`; protected pointer `foo` | `rcu_init`, `rcu_read_lock/unlock`, `rcu_dereference`, `rcu_assign_pointer`, `synchronize_rcu`, `rcu_clean` | ThrdRcu |
| locked RCU | `rcu/locked-rcu/` | current node, retired list, a reader count per node, spinlock | `rcu_init`, `rcu_read_lock/unlock`, `rcu_dereference`, `rcu_assign_pointer`, `synchronize_rcu`, `rcu_free` | LockedRcu |
| classic RCU | `rcu/classic-rcu/` | protected pointer, list of ten old pointers, spinlock; processors and affinities of the kernel | `lrcu_read_lock/unlock`, `lrcu_dereference`, `lrcu_assign_pointer`, `synchronize_lrcu`, `call_lrcu` | ClassicRcu |
| sequence lock | `seqlock/seqlock.h` | 32-bit count, writer flag | write lock/unlock; lockless, exclusive and optimistic reads | Seqlock |
| centralized barrier | `barrier/` | count, flag, a thread-local sense | `barrier` | Barrier |
| concurrent skiplist | `skiplist/ref/` | leaves of sorted ranges, links on each level, node locks, dead flags, preloaded leaves | insert, insert into a hole, delete, lookup (locked and RCU) | SkiplistLeaf, RangeSet, Skiplist, SkiplistLookup |
| sequential skiplist | `skiplist/src/` | links on each level, level and size | search, insert, erase, delete the list | SequentialSkiplist |
| RCU list | `rcu/thrd-based-rcu/rculist.h` | doubly linked list | add, add tail, delete, iterate | no, see below |
| transactional memory | `transactional_memory/` | a tick, the data | begin, commit | no, see below |
| scoped lock | `scoped-lock/` | 32 mutexes with identifiers | lock, unlock at scope end | no, see below |
| hazard pointers | `hp/` | per-thread hazard slots and retire lists | protect, clear, retire | no, see below |

Interaction. Components do not call each other, except that the RCU list is
built on thrd-based RCU and both user-space RCU flavours use the spinlock,
barriers and `current_tid()` of `rcu/api.h`. Within a component everything
happens between threads through shared memory: there are no messages and
nothing is persistent, so there is nothing to lose, duplicate or recover. The
hard behaviours are interleavings between two loads or stores that look like
one step, stores that other processors see late, values read before a lock is
taken and used after, counters that wrap, memory that is freed while somebody
still looks at it, and loops that wait for somebody who never comes.

What makes each component correct:

* any RCU flavour: `synchronize_rcu()` returns only when the readers inside
  their sections at the call have left; hence an object is not freed while a
  reader that dereferenced it is inside; nothing is freed twice, nothing leaks;
  updaters do get through;
* sequence lock: writers exclude each other, the parity of the count tells
  whether somebody writes, a read that is not retried saw one write;
* barrier: nobody leaves round k before everybody has entered it, and everybody
  leaves;
* concurrent skiplist: an operation has the result of one on a set of disjoint
  ranges; the levels are sorted lists of the live leaves; nobody links behind a
  dead leaf; every call returns; a lookup does not miss a range that is there
  throughout;
* sequential skiplist: a search finds what was inserted and not erased, no node
  is freed while linked.

`PROJECT.json` lists the hazards of the code line by line, each with the
property that covers it or the reason none does yet.

## How to run

    tlc -config ThrdRcuSingle.cfg MCThrdRcu      (any .cfg with its MC module)
    tlapm ThrdRcuProofs.tla                      (any *Proofs module)

The community modules, TLAPS and its library have to be on the search path.

## The modules

Every component module declares its state, one action per step another thread
can observe, `Spec`, a `FairSpec` where liveness is checked, and its
properties. An `MC*` module adds the values of constants and the symmetry sets
of the runs; a `*Proofs` module the theorems. Variables and actions carry the
names of the source.

Operators marked *seeded defect* are not part of any specification. Each is a
variant of the action or helper after it, changed as a slip in the code would
change it: an unlock left out, a test made too early, a loop one short. If the
original is exchanged for the variant, TLC reports the property concerned;
this shows that the property depends on that line of the code.

**RcuGracePeriod** is the abstract specification of all RCU flavours: the
readers inside, the updaters in `synchronize_rcu()`, and for each of these the
readers it has still to see leave. Readers never wait. ClassicRcu implements it
always, ThrdRcu only for one grace period per benchmark round on sequentially
consistent memory (the first two disagreements below say why not beyond).

**ThrdRcu** models `thrd_rcu.h` with the loops of `read_side.c`,
`update_side.c` and `main.c`: registration (with colliding thread ids), the
load of the slot index and the store of the mark as two steps, dereference, the
same two steps for unlocking, exchange of `foo`, scan under `sp`, flip of the
index, `free()`, and the main thread that joins, cleans and starts over. With
`StoreBufferSize > 0` readers' stores go through a FIFO buffer, as on x86, the
only processor `api.h` supports. `waiting[u]` and `seen[u]` are history: the
readers inside at the call, and those whose mark was visible when the scan
began.

**LockedRcu** models `rcupdate.h`: a reader loads `head->current` and counts
itself there in two steps; updaters retire and free nodes under `sp`. Freed
memory is modelled as memory (a node may be reused while a stale reader still
decrements its count), `late` records that some reader was counted in a node
past saving, `reused` that an object was passed twice. `AllFreed` accounts for the
memory at every moment: each allocated node is the current one, waits in the
retired list or is in the hands of one updater, every allocated object has a node,
what is about to be freed has not been freed before (unless an object was passed
twice), and nothing is left at the exit.

**ClassicRcu** models `rcu.h` and the kthreads of `test_lrcu.c` on `NrCpu`
processors. A scheduler (external) places ready threads, possibly in the place
of another, but never of a reader inside its section, because
`lrcu_read_lock()` disables preemption. `run_on(cpu)` is two steps: the
affinity is set, which takes the thread off a wrong processor; and it has come
to run on `cpu`. The list may start with junk, since `lrcu_data_init()` does
not clear it. The code under `list_lock` is one action, because its holder
cannot be preempted and touches nothing others access without the lock, except
`gp`, which it stores once.

**Seqlock** models every operation of `seqlock.h` and a client that protects
two words. Every atomic access is an action. A count of `CountMod` values
stands for 32 bits, its last one for -1. History variables count writes at
the begin and the end of a read.

**Barrier** models `barrier()` on any schedule of barriers. The thread-local
sense is one per thread, not per barrier, as in the header.

**SkiplistLeaf** holds the pure part of the concurrent skiplist: ranges, their
overlap, the binary search of `leaf_slot_locked()` and the halves of a split.
The two modules below share it.

**RangeSet** is the abstract specification of the concurrent skiplist: a set of
disjoint ranges whose calls take effect at one instant each. `call[t]` keeps
what a call may have seen: the ranges present at some time during it (`ever`)
and all through it (`always`). The refusals it allows are those the code makes:
an insertion for a range that overlaps, or that somebody is still deleting; a
miss for a key nothing covered all the time.

**Skiplist** models `skiplist_insert`, `skiplist_insert_hole`,
`skiplist_delete` and `skiplist_lookup` on all levels, preloading included. A
walk reads links and keys without locks, locks nodes from left to right, checks
again, and starts over. One action is at most one lock acquisition with the code
under it, or one read of a walk. `th[t]` holds the local variables, `lock[n]`
the spinlock of each node. A thread runs a program of calls after one thread has
filled the list, as in `skiplist_test.c`; the fillings and calls are `Programs`.
`buried` records ranges stored into a leaf already dead. A NULL link
dereferenced stops the thread in `oops`.

**SkiplistLookup** models one leaf as it lies in memory (`nr`, `max`, `keys`,
`ptrs`), changed store by store by the holder of its lock (`add_key_to_leaf`,
split, `delete_slot`), while `skiplist_lookup_rcu` reads it without. Memory behind
`nr` holds what it held before: NULL, or a wild pointer (`Junk`). It shows that
Skiplist may take a change of a leaf for one step, and what a reader without the
lock may rely on.

**SequentialSkiplist** models the operations of `skiplist/src` as whole steps of
one thread, with any level `random_level()` may draw. `content` is the history of
what has been inserted and not erased, `dangling` the nodes freed while linked.

## What the runs show

| run | instance | result |
|---|---|---|
| ThrdRcuSingle | 2 readers, 1 updater, 1 update in each of 2 rounds, unique or equal ids | implements RcuGracePeriod; readers safe; no leak; no NULL node unless ids collide; both rounds end |
| ThrdRcuMulti | 2 readers, 2 updaters, store buffers | a reader whose mark was visible when `sp` was taken is waited for; every replaced object has one owner |
| ThrdRcuMultiUnsafe | 2 readers, 2 updaters, no buffers | **violated**: a reader loses its object |
| LockedRcuAll | 2 readers, 2 updaters, fresh and retired objects | the retired list is sound; counts are exact and readers safe unless counted late; every allocation has one owner and is freed once (objects passed again excepted); none is left; everybody finishes unless counted late |
| ClassicRcuSafe | 2 processors, 2 readers, 2 updaters, 1 `call_lrcu` | implements RcuGracePeriod; readers safe and frees right without overlap and `call_lrcu` |
| ClassicRcuLive | 2 processors, one thread of each sort | everybody ends |
| SeqlockReads | 2 writers, 2 readers of different kinds, count modulo 4 | parity right; locked reads consistent; accepted reads overlap one write section; writers finish |
| SeqlockTorn | 1 writer, 1 lockless reader | **violated**: an accepted read mixes two writes |
| BarrierSame | 4 threads, 4 rounds | rounds separated; nobody left behind; everybody passes |
| SkiplistCalls | 2 threads with 1 and 2 calls, 3 fillings, 60 programs, leaves of 2 ranges, 2 levels | implements RangeSet until a range is stored into a dead leaf; leaves in the list are whole (not empty, ordered, `min` and `max` right); a list at rest has proper levels, in order and without dead leaves; links are made behind live locked nodes; a NULL link is met only during one kind of insertion; every call returns or has stopped there |
| SkiplistLookup | 1 leaf of 3 slots, 2 changes, 1 lockless lookup | stores add up to the change; `keys[0]` and `max` bound the leaf at every moment; a lookup whose slots are not moved is right; a lookup ends or is one of the two cases below |
| SequentialSkiplist | 4 nodes, 3 keys, 2 values, 3 levels | searches are right; a node dangles only after a refused insertion |

Deadlock is checked in all runs except the two of Seqlock (a reader may wait
for ever for an odd count, or for the lock `done_seqretry()` keeps) and
LockedRcuAll (a count that a late reader has corrupted is waited for for ever;
`Termination` excepts exactly that). The other programs end in an explicit
stuttering step, so that stopping anywhere else is reported.

## Bounds

* Threads: two readers are needed for one to be seen and one missed, two
  updaters for races between them; a third adds no new pair. The barrier has
  four threads, so that two can be late while two are early.
* Sections and updates: ThrdRcuSingle has two sections per reader in two
  rounds, so that the slot index takes both values for each reader. It has one
  update per round because its properties need that: with two, a reader loses
  its object even with a single updater, with three the program hangs (see
  below). What holds for any number of updates is proved in ThrdRcuProofs.
* Objects and nodes: one more than can be allocated at a time, or as many, so
  that addresses are reused as soon as they are freed.
* `StoreBufferSize` 1 is enough to delay the one mark a section makes; the
  theorems cover every size.
* `CountMod` 4 in LockedRcuAll and SeqlockReads: small enough for the counter
  to wrap within the run. SeqlockTorn uses 8, so that its
  counterexample does not depend on wrapping.
* `MaxTry` 1 stands for 10 tries: enough for both a successful retry and the
  fall-back to the lock.
* `NrProtected` 2: two updaters may find free entries or, with junk in the
  list, none.
* Skiplist: `Cap` 2 (`SKIP_KEYS_PER_NODE` is 32) makes every leaf split and
  empty within a few calls; two levels are enough for a leaf to be linked on one
  and not yet on the other. The fillings give one leaf with one range, two
  leaves, and three; the calls touch, overlap or fall between ranges. `Leaves` has
  more leaves than any program allocates, so memory is never reused.
  The second thread has two calls, so that an emptied leaf can be met again.
  `ImplementsRangeSet` and the order of the leaves in `LinkedAtRest` are claims about
  the programs of this run: other calls break them (overlapping ranges, below).
* SkiplistLookup: `Cap` 3 is the smallest leaf in which a shift moves one slot
  and leaves another; two changes are enough to move a range away from a
  reader and put another in its place.
* SequentialSkiplist: with three levels a duplicate can be met below two levels
  on which the new node is linked; four nodes leave one free with all keys in.
* Symmetry is used for the addresses of objects in runs that check no liveness
  property.

## Fairness

User-space threads are scheduled by the kernel: weak fairness of each thread's
steps. Spinlocks are contended a bounded number of times in these programs, so
weak fairness suffices for them too. A store buffer drains (weak fairness).
Where a process can die (a store through NULL in ThrdRcu), fairness is of steps
of the living process. In ClassicRcu a thread that is ready and preempted again
and again is not ready continuously, so being placed and making a step are
strongly fair: the kernel's scheduler runs every ready thread, and leaves it on
its processor for a time slice. No fairness makes a writer come along for a
reader of Seqlock: the repository has no such client, so nothing is claimed
about readers finishing. The threads of Skiplist run with weak fairness of
each thread's steps, as their node locks are spinlocks contended a bounded number
of times; the same holds for the lock holder and the reader in SkiplistLookup.

## Proofs

All theorems hold for any number of threads and any values of the bounds, under
the `ASSUME`s of the module, which TLC evaluates in the runs: disjoint sets of
threads, NULL not an address, positive bounds, an even number of counts in
Seqlock, and in LockedRcu `CountAssumption`: readers are finitely many and fewer
than a count can tell apart (2^32 in the program). Where a theorem needs more it
is stated with it.

* **ThrdRcuProofs**: `TypeCorrect`; `GracePeriodWaits`
  (`VisibleReadersWaited`); `OneOwner` (`OwnershipUnique`); `NothingLost`
  (`NoLeak`); `NobodyWithoutNode` (`NoNullNode`). The first
  property alone is not inductive: that the scan cannot miss a seen reader needs
  `SeenAhead` (such a reader is still marked in the slot in use, has no pending
  store that could clear the mark, and its node is not behind the scan), which
  needs `SpHeldByScanner` (nobody else flips the index or changes the list
  meanwhile) and `RegisteredListed` (a reader inside has a node).
  Ownership and leaks need the exact contents of the heap (`HeapInv`); that
  nobody dereferences a missing node needs `NodeInv`, which ties the nodes of the
  list to the threads of the current round.
  `SingleReadersSafe` (`ReadersSafe`) and `SingleGracePeriodKept`
  (`ImplementsGracePeriod`) hold for one updater with one update per round and no
  store buffer (`OneGracePeriod`), any number of readers, sections and rounds.
  Without any one of these conditions TLC finds `ReadersSafe` violated.
  `SteadyInv`: until the scan is over the index does not move, so every reader
  inside has marked the slot that is scanned.
* **LockedRcuProofs**: `TypeCorrect` (`TypeOK`); `RetiredStaysIntact`
  (`RetiredIntact`); `AllFreedOnce` (`AllFreed`); `CountsStayExact`
  (`CountExact`); `ReadersKeepTheirs` (`GuardedReadersSafe`). `MemInv` says which
  nodes and objects are allocated: the current one, the retired ones from the
  place where the holder of `sp` has got to, and what updaters have in
  hand. It holds whatever readers do to the counts, which is why nothing leaks
  even when a count has been corrupted. `CountInv` adds that, as long as no reader
  came late, the count of every node is the number of readers in it;
  `CountAssumption` excludes that so many readers wrap it to zero.
* **ClassicRcuProofs**: `TypeCorrect`; `GracePeriodKept`
  (`ImplementsGracePeriod`): the invariant `RunInv` says that no thread runs
  twice, that a reader inside runs somewhere, and (`WaitInv`) that the readers
  a grace period waits for run on processors the loop has not yet been to. The
  step that matters: when the updater runs on a processor, that reader does not.
  `MemorySafe` (`ReadersSafe`) and `NothingFreedTwice` (`FreedOnce`): without
  overlap, `HeapInv` gives each old object one owner and every reference either
  the published object or one whose owner still waits for that reader.
* **PrimitivesProofs** (sequence lock and barrier): `TypeCorrect` (the count
  keeps to its width); `WritersExclude` (`OddWhileWriting`); `LockedReadsAgree`
  (`LockedReadsConsistent`); `AcceptedReadsOverlapOneWrite`
  (`AcceptedWithinOneWrite`). The lock has one holder, the two words differ only
  between a writer's stores, and the parity survives wrapping because the modulus
  is even (`AdvanceParity`). For a read without the lock, `WindowInv` says
  what the count must be as long as it has not gone all the way round since the
  read began; a read that finds the old count again has then seen no second
  write begin, and `ReadInv` says what it has copied.
  For the barrier `BarrierTypeCorrect`; `BarrierSeparates` (`Separation`) and
  `NobodyLeftBehind` (`NoLostWakeup`) for a schedule with one barrier
  (`OneBarrier`). The invariant pins each thread to the round being gathered or
  the one just opened, its sense to the parity of its calls, and the count to the
  number of arrived threads.
* **SkiplistLeafProofs**: `LeafSlotLockedRight`: in an ordered leaf of any length
  the binary search finds a range that overlaps the one asked for exactly when
  there is one, and otherwise the place where it belongs. `Probe` is a recursive
  function, about which the provers know nothing but its equation, and only once
  it is shown that a function with this equation exists. Both come from a least
  element: a set of naturals has one (`LeastNatural`, from the order of the sets
  0..n by inclusion), hence a walk whose measure goes down defines a
  function (`WalkExists`), and what holds at its start and is kept by its steps holds
  where it ends (`WalkEnds`). The module also says what putting a range into a leaf,
  taking one out and splitting it give, and that each keeps the order.
* **SkiplistProofs**: `TypeCorrect` (`TypeOK`); `LinksBehindLiveLocked`
  (`LinkBehindLiveLocked`); `LeavesSound` (`LiveLeavesSound`); `OopsOnlyThere`
  (`OopsOnlyWhileLinking`); `LevelsHoldTogether`; for any number of threads,
  leaves and levels and any calls, under `SkiplistAssumption`,
  `ProgramsAssumption` and `CapAssumption`. None of these is inductive, and none
  can be had alone: `SkiplistInv` is their common strengthening.
  * `LinksInv`, `RankInv` and `ChainInv` are about the levels. A walk reads links
    that others change, and steps over dead leaves; that it ends at all, and at a
    node of its level, needs an order that every link follows (`RankInv`, with
    the links a thread is about to set included, since the two directions of a link
    are set in two steps). `LinksInv` says that leaves come to a level from below
    and that a link never leaves its level; `ChainInv` that a live leaf is the next
    one of some live node, so that a walk that meets nothing has an empty level
    before it. `LevelsHoldTogether` is these three.
  * `ThreadInv(t)` says for each label what `t` has locked, how far its cursor
    is filled, and on which levels the nodes in its locals are. Its parts follow
    the phases of a call: before any lock (`FreshInv`), the walk with the cursor
    complete above the current level (`WalkInv`), `verify_key_in_path()`
    (`VerifyInv`), the place in a leaf (`PlaceInv`), the new leaf linked from below
    (`LinkInv`), the search (`SearchInv`), and erasing (`EraseInv`). That the
    locked cursor has a live node for every level of the new leaf is what makes
    the assertions of `sl_link_one_level()` hold; that `pending` never exceeds
    `listLevel + 1` (`FreshInv`) is what keeps the cursor within its array.
  * A thread's part is kept by the steps of the others because they change only
    what they have locked, only set `dead` on a leaf nobody has locked, and never take
    a leaf off the levels it has come to (`Linked` counts a dead leaf too).
    That is `Rely(u)`, from which one lemma per part follows once and for
    all; the lemma of an action has to show `Rely` of the other threads, and what its
    own thread knows afterwards.
  * `DeadInv` (a dead leaf is empty, or has the one range stored into it since)
    lets a leaf that is about to be split be live, although the code does not
    check it there.
  * `LeavesSound` rests on all of this and on `FitInv`: from the search in a leaf to
    the store, over a split if there is one, the slot found stays between the ranges
    before and behind the new one, because the leaf is locked all the time. The
    lemmas of SkiplistLeafProofs then say what the store, the split and the
    removal make of an ordered leaf.

  Allocation is guarded by `used # Leaves`: a run out of leaves simply stops there,
  as the model has no failing allocation.
* **SkiplistLookupProofs**: `LookupTypeCorrect`; `WithinMinMaxTheorem`
  (`WithinMinMax`); `ChangesLeafTheorem` (`ChangesLeaf`);
  `UnmovedLookupsRightTheorem` (`UnmovedLookupsRight`), for leaves of any size, any
  ranges, and any number of changes and lookups. `LeafInv` says for each store of
  a change what has been copied so far: which slots still hold what they held
  before it, and which already hold what they will hold after it. Without it
  neither the bounds nor the outcome of a change are inductive. `ReadersInv` says
  what a lookup knows at each of its loads as long as nothing has moved under it:
  the slots it has counted hold ranges that were there during the call, in order,
  and every range that stays is among them or lies beyond a bound it has read. A
  change that moves a slot while a lookup is between two loads breaks it, which is
  why the property excepts exactly those lookups.
* **SequentialSkiplistProofs**: `SearchesRight` (`SearchIsRight`);
  `DanglesOnRefusal` (`DanglesOnlyOnRefusal`); `LevelCoversRings`, for any number of
  levels, nodes and keys. `ShapeInv`: each ring is in the order of the keys, a node
  is in all rings below the ones it is in, the lowest ring holds all nodes, and
  nothing is linked above `list->level`. The place at which a walk leaves a level
  then does not depend on where it came in (`StopSame`), so that the recursive
  function `Entry` has a closed form (`EntryIs`: a largest level at which the two
  differ cannot exist). That an erasure does not lower the level too far
  is a matter of counting: the levels it empties all lie above every level
  that still holds a node.

Only model-checked: all liveness (TLAPS 1.4.5 does not reason about fairness), and
two properties of Skiplist.

* `ImplementsRangeSet` is not a theorem: it fails with other calls than those of
  SkiplistCalls (overlapping ranges, below). What is true in general of the order
  is `LeavesSound`, within a leaf.
* `LinkedAtRest` says of a list at rest that its levels are linked both ways, without
  dead leaves, and in order. The order fails as above. Of the links,
  `LevelsHoldTogether` proves that no level runs in a circle, leaves its level
  or loses a live leaf; that `prev` and `next` match again when all erasures are over,
  and that no dead leaf stays linked then, is left to TLC.

## Disagreements with the documentation

1. *thrd-based RCU, two updaters* (`ThrdRcuMultiUnsafe`). A reader loads the
   index, a grace period ends and flips it, the reader marks the old slot, and
   the next grace period does not look there. The header announces multiple
   updaters. A single updater that makes two updates runs into the same
   schedule: `ReadersSafe` also fails with one updater and `MaxUpdates = 2`.
2. *sequence lock* (`SeqlockTorn`). The comment wants an even count at the start
   of a read, the loop waits for an odd one.

## Further facts

The models show more of the code than the runs state. Each fact below can be
seen with the change given, or follows from the lines named.

* thrd-based RCU, store buffers: nothing orders the mark before the loads of the
  section, `WRITE_ONCE` is a plain store. `ThrdRcuMultiUnsafe.cfg` with one
  updater and `StoreBufferSize = 1` violates `ReadersSafe` too.
* thrd-based RCU: `rcu_read_unlock()` reloads the index (`thrd_rcu.h:151`) and,
  when it has been flipped, clears the wrong slot. The old one stays marked,
  against the comment at line 163, after the reader has exited. The third grace
  period of a round then spins for ever: `ThrdRcuSingle.cfg` with
  `MaxUpdates = 3`, four objects and three sections ends in a deadlock, and
  `update_side.c` does make several updates.
* locked RCU: loading the node and counting oneself in it are two steps.
  `LockedRcuAll.cfg` with `INVARIANT NoUseAfterFree` only is violated: the node
  is freed in between.
* locked RCU: the duplicate check of `rcu_assign_pointer()` looks at retired
  nodes only; assigning the current object (`NewvalSources = {"current"}`)
  gets it freed while it stays current. It does not hold off a retired one
  either: an updater allocates its node for an object in the list, another frees
  the object and empties the list, the first finds no duplicate there, publishes,
  and the object is freed again. `LockedRcuAll.cfg` with `INVARIANT
  FreesAllocated` only, the part of `AllFreed` that excepts `reused`, is violated.
* barrier: the sense belongs to the thread, the flag to the barrier.
  `BarrierSame.cfg` with `Barriers = {first, second}` and
  `Schedule <- TwoBarriers` violates `Separation`: a thread passes the second
  barrier alone.
* classic RCU: with overlapping `lrcu_assign_pointer()`, two updaters can
  collect and free the same object; `call_lrcu()` in `test_lrcu.c` frees objects
  that `update_side` frees too, objects collected after its grace period had
  begun, and what an uncleared list holds. `ReadersSafe` and `FreedOnce`
  name these conditions.
* sequence lock: -1 marks a locked reader but is also a value of the count;
  `done_seqretry()` takes the lock once more instead of releasing it; lockless
  readers wait for a writer.
* concurrent skiplist, overlapping ranges: an insertion passes a leaf because its key
  lies behind `max`. Before `verify_key_in_path()` has locked that leaf, another range
  is appended to it and a third one splits it. Rule #1 (`skiplist.c:968`) compares the
  key with the leaf before the one it locks, not with that leaf's own `max`, which has
  grown past the key. The walk goes on to the next leaf and stores the range there;
  `check_overlap()` looks forward only. `SkiplistCalls.cfg` with
  `Programs <- OverlapPrograms` and `INVARIANT NoOverlap` ends with [2,3) and [8,10)
  in one leaf and [9,10) and [12,13) in the next, although the comment at line 1003
  calls the leaf "the best place for this key".
* concurrent skiplist, lost insertion: the home leaf is checked for min and max
  again under its lock, but not for `dead` (`skiplist.c:1219-1225`). When it has
  been emptied from the back meanwhile, the range is stored into a leaf no longer
  in the list, and 0 is returned. `SkiplistCalls.cfg` with
  `Programs <- LostPrograms` and `INVARIANT NothingBuried` shows it.
* concurrent skiplist, deadlock: the comment above `sl_lock_node()` wants locks on
  a level taken from left to right. `erase_one_level()` locks prev, the dead leaf
  and next; when an insertion has meanwhile linked a new leaf between prev and the
  dead one, which it skips, next is that new leaf and lies to the left.
  An insertion that holds it and looks at its raw successor waits for the dead
  leaf. `SkiplistCalls.cfg` with `Programs <- DeadlockPrograms` ends in a
  deadlock: it takes two insertions during one deletion, and the programs of the
  run have at most one.
* concurrent skiplist, spurious refusal: `check_overlap()` takes the raw next leaf,
  which may be dead, for the next one, and EEXIST is returned for a range that
  overlaps nothing. RangeSet allows it (`RefuseInsert`).
* concurrent skiplist, oops: the path for an empty list links a leaf that nobody
  has locked; a concurrent deletion that empties it meets a NULL prev
  (`OopsOnlyWhileLinking` says that this is the only way).
* concurrent skiplist: `list->level` is read before waiting for the head's lock,
  so that a level above it may be linked out of order; lines 1309-1316 and the
  test of `cursor[0]` at 1283 are never reached with effect; `skiplist_insert_hole()`
  may return EAGAIN without a race and a hole before its hint; a lookup or deletion
  whose key lies in a gap before a leaf misses a range that overlaps only the
  rest of what was asked for.
* lockless lookup: `leaf_slot()` may take a slot behind the last range, since
  deleting the last one pulls down what lies behind it: the reader then waits for
  a pointer nobody stores, or follows a wild one. While slots shift it may miss a
  range that is there throughout, or, because `skiplist_lookup_rcu()` reads the
  slot once more (line 1419), return another one than it has compared.
  `UnmovedLookupsRight` and `LookupsEnd` except exactly these.
* sequential skiplist: a duplicate met on a lower level frees the new node while
  it is linked above; `list->level` has been raised although the insertion fails;
  emptying the list leaves level -1, which does no harm (`SearchIsRight`).
* RCU list: `list_add_tail_rcu()` (`rculist.h:66`) takes no lock; two threads that
  add at the tail, as in `test_rculist.c`, read the same `head->prev` and one of
  the nodes is lost. `list_del_rcu()` (`:80`) points the deleted node to itself, and
  a reader that stands on it never leaves the loop.
* transactional memory: a commit compares the tick only, the data is written in
  place before. A transaction that will fail overwrites what another has
  committed, and a retry changes the tick under whoever is about to commit.

## Not modelled

* **Hazard pointers.** The first `get_tid()` of a program returns -1
  (`harzard_pointer.c:54`), so that thread works on `thread_info[-1]`, and
  retire lists have an uninitialised size. What follows depends on the layout
  of memory; a model of the intended algorithm would not be one of this code.
* **RCU list.** Its publication is what ThrdRcu covers; its links change without
  any lock, so that beyond one updater there is no property left to check (see
  above), and with one updater the list is three stores in a row.
* **Transactional memory.** A draft of thirty lines, whose commit promises nothing
  of the data that could be stated (see above).
* **Scoped lock.** One call site in the repository, around a mutex; slots of call
  sites whose numbers are equal modulo 32 assert, which no program can meet.
* Of the concurrent skiplist: allocation that fails, the CPU hot-plug callback,
  leaves freed by `call_rcu()` and allocated again (a leaf is used once in
  Skiplist), a lockless lookup over several leaves (SkiplistLookup has one), ranges
  that end at 2^64, and the red-black tree the test compares with. A walk of
  several hops over dead nodes, and the reading of min and max together, are one
  step.
* `lrcu_exit()` of the classic RCU module and kernel symbol lookup.
* `test_rcu.c`: it measures the kernel's own RCU.
* Timing macros, sparse annotations, scripts, makefiles.
* Weak memory: x86 store buffers are modelled in ThrdRcu, where a plain store
  has to be seen by another processor; LockedRcu, Seqlock and Barrier
  use locked instructions for the stores that matter, and a context switch is a
  full barrier in ClassicRcu. Compiler reordering is not modelled.
* Failing `malloc()`/`kmalloc()`: the programs abort or return at once.
* `nr_thread` of thrd-based RCU: nothing reads it.

## Status

All modules of the inventory that can be modelled faithfully are there. In the
order in which they were built: RcuGracePeriod, ThrdRcu, LockedRcu, ClassicRcu,
Seqlock, Barrier; SkiplistLeaf, RangeSet and Skiplist (which composes
the leaf with levels and locks and implements RangeSet), SkiplistLookup,
SequentialSkiplist; and the proofs of all of them. Two components are
modelled in part: classic RCU without `lrcu_exit()`, and the concurrent skiplist
without memory reuse and without lockless lookups across leaves.
