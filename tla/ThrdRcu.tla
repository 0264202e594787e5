------------------------------ MODULE ThrdRcu ------------------------------
(***************************************************************************)
(* The thread-based RCU of rcu/thrd-based-rcu/thrd_rcu.h together with the *)
(* programs that drive it (main.c, read_side.c, update_side.c): readers    *)
(* register, run read-side critical sections and exit; updaters replace    *)
(* the shared pointer foo, wait for a grace period and free the old        *)
(* object; the main thread joins them all, cleans up and starts again.     *)
(*                                                                         *)
(* Memory.  Every store of a reader is a plain volatile store, which x86   *)
(* (the only target: api.h uses mfence) may delay past later loads of the  *)
(* same thread.  With StoreBufferSize > 0 each reader owns a FIFO store    *)
(* buffer that drains at any time; with 0 memory is sequentially           *)
(* consistent.  Updaters only store through locked instructions, which     *)
(* flush, so they need no buffer.                                          *)
(*                                                                         *)
(* A critical section of rcu_data.sp that touches nothing but what sp      *)
(* protects is one action.  nr_thread is left out: nothing reads it.       *)
(***************************************************************************)
EXTENDS Naturals, Sequences, FiniteSets

CONSTANTS Readers, Updaters,   \* the threads of one benchmark() round
          Objs,                \* addresses malloc() may return for foo
          NoObj, NoThread,
          Tids,                \* the values current_tid() may have, 32 bits:
                               \*   a set of functions from readers to ids
          MaxSections,         \* read-side sections per reader (TRACE_LOOP)
          MaxUpdates,          \* updates per updater (TRACE_LOOP)
          MaxRounds,           \* benchmark() rounds (TRACE_LOOP)
          StoreBufferSize      \* capacity of a store buffer, 0 for none

ASSUME ThreadAssumption ==
  /\ Readers \cap Updaters = {}
  /\ NoThread \notin Readers \cup Updaters
  /\ NoObj \notin Objs
  /\ \A f \in Tids : DOMAIN f = Readers

ASSUME BoundAssumption ==
  /\ MaxSections \in Nat \ {0}
  /\ MaxUpdates \in Nat \ {0}
  /\ MaxRounds \in Nat \ {0}
  /\ StoreBufferSize \in Nat

VARIABLES
  foo,         \* the RCU-protected pointer
  allocated,   \* the objects malloc'd and not yet freed
  list,        \* rcu_data.head: owners of the registered rcu_nodes
  nesting,     \* nesting[r]: rcu_nesting[2] of the node of r, slots 0 and 1
  idx,         \* rcu_thrd_nesting_idx & 1, the slot in use
  sp,          \* holder of rcu_data.sp, or NoThread
  storeBuf,    \* storeBuf[r]: nesting stores of r not yet in memory
  tid,         \* tid[r]: current_tid() in thread r
  registered,  \* threads whose __rcu_per_thrd_ptr is not NULL
  pc,          \* where each thread is
  lidx,        \* lidx[r]: the slot r loaded for its next nesting store
  ref,         \* ref[r]: what rcu_dereference(foo) gave r
  sections,    \* sections[r]: sections r has completed
  updates,     \* updates[u]: updates u has completed
  oldp,        \* oldp[u]: what rcu_assign_pointer gave u, to be freed
  pos,         \* pos[u]: index in list of the node the scan of u is at
  round,       \* the benchmark() round
  waiting,     \* history: readers inside when u called synchronize_rcu(),
               \*   and inside ever since
  seen         \* history: readers marked in the current slot when u got sp,
               \*   and inside ever since

heap    == <<foo, allocated>>
rcuData == <<list, nesting, idx, sp, storeBuf>>
reader  == <<tid, registered, lidx, ref, sections>>
updater == <<updates, oldp, pos>>
history == <<waiting, seen>>
vars    == <<heap, rcuData, reader, updater, history, pc, round>>

Slots == {0, 1}

\* The read-side critical section: from the nesting store of rcu_read_lock()
\* until rcu_read_unlock() begins.
Inside == {r \in Readers : pc[r] \in {"deref", "use"}}

\* Readers inside whose mark has reached memory in the slot now in use.
Marked == {r \in Inside : nesting[r][idx] = 1 /\ storeBuf[r] = <<>>}

\* A store through a NULL __rcu_per_thrd_ptr kills the whole process.
Crashed == \E r \in Readers : pc[r] = "segv"

RoundOver == \A t \in Readers \cup Updaters : pc[t] = "done"

Init ==
  /\ foo \in Objs
  /\ allocated  = {foo}
  /\ list       = <<>>
  /\ nesting    = [r \in Readers |-> [s \in Slots |-> 0]]
  /\ idx        = 0
  /\ sp         = NoThread
  /\ storeBuf   = [r \in Readers |-> <<>>]
  /\ tid \in Tids
  /\ registered = {}
  /\ pc         = [t \in Readers \cup Updaters |->
                     IF t \in Readers THEN "init" ELSE "assign"]
  /\ lidx       = [r \in Readers |-> 0]
  /\ ref        = [r \in Readers |-> NoObj]
  /\ sections   = [r \in Readers |-> 0]
  /\ updates    = [u \in Updaters |-> 0]
  /\ oldp       = [u \in Updaters |-> NoObj]
  /\ pos        = [u \in Updaters |-> 1]
  /\ round      = 1
  /\ waiting    = [u \in Updaters |-> {}]
  /\ seen       = [u \in Updaters |-> {}]

Goto(t, label) == pc' = [pc EXCEPT ![t] = label]

-----------------------------------------------------------------------------
(* Readers *)

HasTid(id) == \E i \in 1..Len(list) : tid[list[i]] = id

\* rcu_init(): a fresh zeroed node at the tail of the list.
RcuInitAdded(r) ==
  /\ pc[r] = "init"
  /\ sp = NoThread
  /\ ~HasTid(tid[r])
  /\ list' = Append(list, r)
  /\ nesting' = [nesting EXCEPT ![r] = [s \in Slots |-> 0]]
  /\ registered' = registered \cup {r}
  /\ Goto(r, "lock")
  /\ UNCHANGED <<heap, idx, sp, storeBuf, tid, lidx, ref, sections, updater,
                 history, round>>

\* rcu_init() fails on a tid already listed; no caller looks at the result.
RcuInitDuplicate(r) ==
  /\ pc[r] = "init"
  /\ sp = NoThread
  /\ HasTid(tid[r])
  /\ registered' = registered \ {r}
  /\ Goto(r, "lock")
  /\ UNCHANGED <<heap, rcuData, tid, lidx, ref, sections, updater, history,
                 round>>

LockFault(r) ==
  /\ pc[r] = "lock"
  /\ r \notin registered
  /\ Goto(r, "segv")
  /\ UNCHANGED <<heap, rcuData, reader, updater, history, round>>

\* rcu_read_lock() loads the index ...
ReadLockIdx(r) ==
  /\ pc[r] = "lock"
  /\ r \in registered
  /\ lidx' = [lidx EXCEPT ![r] = idx]
  /\ Goto(r, "mark")
  /\ UNCHANGED <<heap, rcuData, tid, registered, ref, sections, updater,
                 history, round>>

\* A nesting store of r: into memory, or into its store buffer.
Store(r, slot, val) ==
  IF StoreBufferSize = 0
  THEN /\ nesting' = [nesting EXCEPT ![r][slot] = val]
       /\ UNCHANGED storeBuf
  ELSE /\ Len(storeBuf[r]) < StoreBufferSize
       /\ storeBuf' = [storeBuf EXCEPT ![r] =
                         Append(@, [slot |-> slot, val |-> val])]
       /\ UNCHANGED nesting

\* ... and, in a second step, stores 1 in that slot.
Mark(r) ==
  /\ pc[r] = "mark"
  /\ Store(r, lidx[r], 1)
  /\ Goto(r, "deref")
  /\ UNCHANGED <<heap, list, idx, sp, reader, updater, history, round>>

Dereference(r) ==
  /\ pc[r] = "deref"
  /\ ref' = [ref EXCEPT ![r] = foo]
  /\ Goto(r, "use")
  /\ UNCHANGED <<heap, rcuData, tid, registered, lidx, sections, updater,
                 history, round>>

\* rcu_read_unlock() loads the index, perhaps not the one the lock used ...
ReadUnlockIdx(r) ==
  /\ pc[r] = "use"
  /\ lidx' = [lidx EXCEPT ![r] = idx]
  /\ ref' = [ref EXCEPT ![r] = NoObj]
  /\ waiting' = [u \in Updaters |-> waiting[u] \ {r}]
  /\ seen' = [u \in Updaters |-> seen[u] \ {r}]
  /\ Goto(r, "clear")
  /\ UNCHANGED <<heap, rcuData, tid, registered, sections, updater, round>>

\* ... and stores 0 there.
Clear(r) ==
  /\ pc[r] = "clear"
  /\ Store(r, lidx[r], 0)
  /\ sections' = [sections EXCEPT ![r] = @ + 1]
  /\ Goto(r, IF sections[r] + 1 < MaxSections THEN "lock" ELSE "exit")
  /\ UNCHANGED <<heap, list, idx, sp, tid, registered, lidx, ref, updater,
                 history, round>>

\* pthread_exit() goes through the kernel, which drains the store buffer.
ThreadExit(r) ==
  /\ pc[r] = "exit"
  /\ storeBuf[r] = <<>>
  /\ Goto(r, "done")
  /\ UNCHANGED <<heap, rcuData, reader, updater, history, round>>

\* The oldest buffered store of r reaches memory.
Drain(r) ==
  /\ storeBuf[r] # <<>>
  /\ LET st == Head(storeBuf[r])
     IN  nesting' = [nesting EXCEPT ![r][st.slot] = st.val]
  /\ storeBuf' = [storeBuf EXCEPT ![r] = Tail(@)]
  /\ UNCHANGED <<heap, list, idx, sp, reader, updater, history, pc, round>>

ReaderStep(r) ==
  \/ RcuInitAdded(r) \/ RcuInitDuplicate(r) \/ LockFault(r)
  \/ ReadLockIdx(r) \/ Mark(r) \/ Dereference(r)
  \/ ReadUnlockIdx(r) \/ Clear(r) \/ ThreadExit(r)

-----------------------------------------------------------------------------
(* Updaters *)

\* Seeded defect: the old pointer is not the one the exchange replaces but
\* one a concurrent updater has already been given.
AssignPointerStale(u) ==
  /\ pc[u] = "assign"
  /\ \E newval \in Objs \ allocated :
       /\ allocated' = allocated \cup {newval}
       /\ foo' = newval
  /\ \E old \in {foo} \cup ({oldp[v] : v \in Updaters} \ {NoObj}) :
       oldp' = [oldp EXCEPT ![u] = old]
  /\ waiting' = [waiting EXCEPT ![u] = Inside]
  /\ Goto(u, "sync")
  /\ UNCHANGED <<rcuData, reader, updates, pos, seen, round>>

\* malloc() of the new object, atomic exchange with foo, call of
\* synchronize_rcu(): only the exchange touches what others can see.
AssignPointer(u) ==
  /\ pc[u] = "assign"
  /\ \E newval \in Objs \ allocated :
       /\ allocated' = allocated \cup {newval}
       /\ foo' = newval
  /\ oldp' = [oldp EXCEPT ![u] = foo]
  /\ waiting' = [waiting EXCEPT ![u] = Inside]
  /\ Goto(u, "sync")
  /\ UNCHANGED <<rcuData, reader, updates, pos, seen, round>>

StartScan(u) ==
  /\ pc[u] = "sync"
  /\ sp' = u
  /\ pos' = [pos EXCEPT ![u] = 1]
  /\ seen' = [seen EXCEPT ![u] = Marked]
  /\ Goto(u, "scan")
  /\ UNCHANGED <<heap, list, nesting, idx, storeBuf, reader, updates, oldp,
                 waiting, round>>

\* Seeded defect: synchronize_rcu() without spin_lock().
SyncLockNoMutex(u) == StartScan(u)

SyncLock(u) == sp = NoThread /\ StartScan(u)

\* The scan spins on a node until the slot in use is clear.
ScanNode(u) ==
  /\ pc[u] = "scan"
  /\ pos[u] <= Len(list)
  /\ nesting[list[pos[u]]][idx] = 0
  /\ pos' = [pos EXCEPT ![u] = @ + 1]
  /\ UNCHANGED <<heap, rcuData, reader, updates, oldp, history, pc, round>>

\* The end of synchronize_rcu(): the slot to use, the holder of sp.
EndScan(u, slot, holder) ==
  /\ pc[u] = "scan"
  /\ idx' = slot
  /\ sp' = holder
  /\ Goto(u, "free")
  /\ UNCHANGED <<heap, list, nesting, storeBuf, reader, updater, history,
                 round>>

\* Seeded defects: the scan stops before the last node; the index is used
\* without "& 0x01"; spin_unlock() is forgotten.
AdvanceIdxEarly(u) == pos[u] >= Len(list) /\ EndScan(u, 1 - idx, NoThread)

AdvanceIdxNoMask(u) == pos[u] > Len(list) /\ EndScan(u, idx + 1, NoThread)

AdvanceIdxNoUnlock(u) == pos[u] > Len(list) /\ EndScan(u, 1 - idx, sp)

\* Past the last node: flip the slot, release sp, return.
AdvanceIdx(u) == pos[u] > Len(list) /\ EndScan(u, 1 - idx, NoThread)

\* What is freed leaves the heap; the updater loops or exits.
Free(u, freed) ==
  /\ pc[u] = "free"
  /\ allocated' = allocated \ freed
  /\ oldp' = [oldp EXCEPT ![u] = NoObj]
  /\ updates' = [updates EXCEPT ![u] = @ + 1]
  /\ Goto(u, IF updates[u] + 1 < MaxUpdates THEN "assign" ELSE "done")
  /\ UNCHANGED <<foo, rcuData, reader, pos, history, round>>

\* Seeded defect: free(oldp) is forgotten.
FreeOldLeak(u) == Free(u, {})

FreeOld(u) == Free(u, {oldp[u]})

UpdaterStep(u) ==
  \/ AssignPointer(u) \/ SyncLock(u) \/ ScanNode(u)
  \/ AdvanceIdx(u) \/ FreeOld(u)

-----------------------------------------------------------------------------
(* The main thread *)

\* All threads joined: free(foo), rcu_clean(), and the next benchmark() with
\* a new foo and new threads, whose ids may be those of the old ones.  The
\* index keeps its value; a node still marked only delays the clean-up.
NewRound(nodes) ==
  /\ RoundOver
  /\ round < MaxRounds
  /\ round' = round + 1
  /\ \E obj \in Objs \ (allocated \ {foo}) :
       /\ foo' = obj
       /\ allocated' = (allocated \ {foo}) \cup {obj}
  /\ list' = nodes
  /\ tid' \in Tids
  /\ registered' = {}
  /\ pc' = [t \in Readers \cup Updaters |->
              IF t \in Readers THEN "init" ELSE "assign"]
  /\ sections' = [r \in Readers |-> 0]
  /\ updates' = [u \in Updaters |-> 0]
  /\ UNCHANGED <<nesting, idx, sp, storeBuf, lidx, ref, oldp, pos, history>>

\* Seeded defect: rcu_clean() does not reset rcu_data.head.
NextBenchmarkKeepList == NewRound(list)

NextBenchmark == NewRound(<<>>)

\* The process has ended, normally or by a fault.
Stopped ==
  /\ Crashed \/ (RoundOver /\ round = MaxRounds)
  /\ UNCHANGED vars

Next ==
  \/ /\ ~Crashed
     /\ \/ \E r \in Readers : ReaderStep(r) \/ Drain(r)
        \/ \E u \in Updaters : UpdaterStep(u)
        \/ NextBenchmark
  \/ Stopped

Spec == Init /\ [][Next]_vars

\* The kernel schedules every thread, a store buffer drains, and main goes
\* on.  No thread competes for sp for ever, so weak fairness is enough.
FairSpec ==
  /\ Spec
  /\ \A r \in Readers : WF_vars(~Crashed /\ ReaderStep(r))
  /\ \A r \in Readers : WF_vars(~Crashed /\ Drain(r))
  /\ \A u \in Updaters : WF_vars(~Crashed /\ UpdaterStep(u))
  /\ WF_vars(~Crashed /\ NextBenchmark)
-----------------------------------------------------------------------------
(* Properties *)

\* Every variable has its type; list positions stay within reach of the list.
TypeOK ==
  /\ foo \in Objs
  /\ allocated \subseteq Objs
  /\ list \in Seq(Readers)
  /\ nesting \in [Readers -> [Slots -> Slots]]
  /\ idx \in Slots
  /\ sp \in Updaters \cup {NoThread}
  /\ storeBuf \in [Readers -> Seq([slot : Slots, val : Slots])]
  /\ tid \in Tids
  /\ registered \subseteq Readers
  /\ pc \in [Readers \cup Updaters ->
              {"init", "lock", "mark", "deref", "use", "clear", "exit",
               "segv", "assign", "sync", "scan", "free", "done"}]
  /\ lidx \in [Readers -> Slots]
  /\ ref \in [Readers -> Objs \cup {NoObj}]
  /\ sections \in [Readers -> Nat]
  /\ updates \in [Updaters -> Nat]
  /\ oldp \in [Updaters -> Objs \cup {NoObj}]
  /\ pos \in [Updaters -> Nat \ {0}]
  /\ round \in Nat \ {0}
  /\ waiting \in [Updaters -> SUBSET Readers]
  /\ seen \in [Updaters -> SUBSET Readers]

\* A grace period waits for every reader it could see: one inside its section
\* whose mark was in memory, in the slot in use, when the updater took sp.
\* When synchronize_rcu() has returned, all of those have left.
VisibleReadersWaited ==
  \A u \in Updaters : pc[u] = "free" => seen[u] = {}

\* What the programs rely on: an object a reader obtained from
\* rcu_dereference() is not freed while the reader is inside its section.
ReadersSafe ==
  \A r \in Readers : ref[r] # NoObj => ref[r] \in allocated

\* The exchange of rcu_assign_pointer gives each replaced object to exactly
\* one updater: what several updaters are about to free is allocated, not
\* reachable through foo, and owned by one of them only.
OwnershipUnique ==
  /\ foo \in allocated
  /\ \A u \in Updaters : oldp[u] # NoObj => oldp[u] \in allocated \ {foo}
  /\ \A u, v \in Updaters : u # v /\ oldp[u] # NoObj => oldp[u] # oldp[v]

\* When all threads of a benchmark round have been joined, only the object
\* foo points to is left for main to free.
NoLeak == RoundOver => allocated = {foo}

\* If no two threads of a round share a tid, rcu_init() does not fail, also
\* not in a later round whose threads have the tids of earlier ones: nobody
\* goes through a NULL pointer.
NoNullNode ==
  (\A q, r \in Readers : tid[q] = tid[r] => q = r) => ~Crashed

\* Unless rcu_init() has failed, benchmark() ends: every reader and updater of
\* every round terminates.
Termination == <>(Crashed \/ (RoundOver /\ round = MaxRounds))

\* synchronize_rcu() keeps the promise of RcuGracePeriod: it covers every
\* reader inside at the call.
GracePeriod ==
  INSTANCE RcuGracePeriod WITH
    inside  <- Inside,
    syncing <- {u \in Updaters : pc[u] \in {"sync", "scan"}},
    waiting <- waiting

ImplementsGracePeriod == GracePeriod!Spec
=============================================================================
