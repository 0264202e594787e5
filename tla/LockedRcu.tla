----------------------------- MODULE LockedRcu -----------------------------
(***************************************************************************)
(* The reference-counted RCU of rcu/locked-rcu/rcupdate.h and the programs *)
(* that drive it.  rcu_head points to the current rcu_node, which pairs an *)
(* object with the number of readers using it; rcu_assign_pointer() moves  *)
(* the current node to the tail of the retired list head->node and         *)
(* synchronize_rcu() frees each retired node, and its object, once its     *)
(* count is zero.                                                          *)
(*                                                                         *)
(* A reader loads head->current and increments the count in two steps, so  *)
(* it can touch a node that has been freed: such an access goes to the     *)
(* memory at that address, whatever malloc() has put there since, which is *)
(* what the build does.  late records that some increment came too late.   *)
(***************************************************************************)
EXTENDS Naturals, Sequences, FiniteSets

CONSTANTS Readers, Updaters,
          Nodes, Objs,         \* addresses malloc() may return
          NoObj, NoNode, NoThread,
          CountMod,            \* values of rcu_node.count, an unsigned int
          MaxSections,         \* read-side sections per reader
          MaxUpdates,          \* updates per updater
          NewvalSources        \* what updaters pass to rcu_assign_pointer():
                               \*   "fresh", "retired" or "current" objects

ASSUME ThreadAssumption ==
  /\ Readers \cap Updaters = {}
  /\ NoThread \notin Readers \cup Updaters
  /\ NoNode \notin Nodes
  /\ NoObj \notin Objs

ASSUME BoundAssumption ==
  /\ MaxSections \in Nat \ {0}
  /\ MaxUpdates \in Nat \ {0}
  /\ NewvalSources \subseteq {"fresh", "retired", "current"}

\* A program has fewer threads than an unsigned int has values.
ASSUME CountAssumption ==
  /\ IsFiniteSet(Readers)
  /\ CountMod \in Nat
  /\ Cardinality(Readers) < CountMod

VARIABLES
  current,     \* head->current
  retired,     \* head->node: the retired list
  obj,         \* obj[n]: the object of node n
  count,       \* count[n]: the readers counted in node n
  nodeHeap,    \* nodes malloc'd and not yet freed
  objHeap,     \* objects malloc'd and not yet freed
  sp,          \* holder of head->sp, or NoThread
  pc,          \* where each thread is
  cur,         \* cur[r]: the thread-local node pointer of r
  ref,         \* ref[r]: what rcu_dereference() gave r
  sections,    \* sections[r]: sections r has completed
  node,        \* node[u]: the node u is about to publish
  want,        \* want[u]: index in retired of the node u wants to free
  updates,     \* updates[u]: updates u has completed
  guarded,     \* history: readers counted while their node was countable
  late,        \* history: some reader was counted too late for that
  reused       \* history: some object was passed to rcu_assign_pointer() again

heap    == <<obj, count, nodeHeap, objHeap>>
head    == <<current, retired, sp>>
reader  == <<cur, ref, sections>>
updater == <<node, want, updates>>
history == <<guarded, late, reused>>
vars    == <<heap, head, reader, updater, history, pc>>

\* The retired nodes still to be freed ...
Pending ==
  LET freed == IF sp = NoThread THEN 0 ELSE want[sp] - 1
  IN  {retired[i] : i \in (freed + 1)..Len(retired)}

\* ... of which synchronize_rcu() condemns one when it reads a zero count.
Condemned == {retired[want[u]] : u \in {v \in Updaters : pc[v] = "free"}}

\* The nodes a reader can safely be counted in.
Countable == ({current} \cup Pending) \ Condemned

Finished == \A t \in Readers \cup Updaters : pc[t] = "done"

\* rcu_init() and thread creation.
Init ==
  /\ current \in Nodes
  /\ \E o \in Objs : /\ obj = [n \in Nodes |-> IF n = current THEN o ELSE NoObj]
                     /\ objHeap = {o}
  /\ retired  = <<>>
  /\ count    = [n \in Nodes |-> 0]
  /\ nodeHeap = {current}
  /\ sp       = NoThread
  /\ pc       = [t \in Readers \cup Updaters |->
                   IF t \in Readers THEN "load" ELSE "alloc"]
  /\ cur      = [r \in Readers |-> NoNode]
  /\ ref      = [r \in Readers |-> NoObj]
  /\ sections = [r \in Readers |-> 0]
  /\ node     = [u \in Updaters |-> NoNode]
  /\ want     = [u \in Updaters |-> 1]
  /\ updates  = [u \in Updaters |-> 0]
  /\ guarded  = {}
  /\ late     = FALSE
  /\ reused   = FALSE

Goto(t, label) == pc' = [pc EXCEPT ![t] = label]

-----------------------------------------------------------------------------
(* Readers: __rcu_read_access() *)

ReadLockLoad(r) ==
  /\ pc[r] = "load"
  /\ cur' = [cur EXCEPT ![r] = current]
  /\ Goto(r, "inc")
  /\ UNCHANGED <<heap, head, ref, sections, updater, history>>

ReadLockInc(r) ==
  /\ pc[r] = "inc"
  /\ count' = [count EXCEPT ![cur[r]] = (@ + 1) % CountMod]
  /\ IF cur[r] \in Countable
     THEN guarded' = guarded \cup {r} /\ UNCHANGED late
     ELSE late' = TRUE /\ UNCHANGED guarded
  /\ Goto(r, "deref")
  /\ UNCHANGED <<obj, nodeHeap, objHeap, head, reader, updater, reused>>

Dereference(r) ==
  /\ pc[r] = "deref"
  /\ ref' = [ref EXCEPT ![r] = obj[cur[r]]]
  /\ Goto(r, "use")
  /\ UNCHANGED <<heap, head, cur, sections, updater, history>>

EndSection(r, n) ==
  /\ pc[r] = "use"
  /\ count' = [count EXCEPT ![n] = (@ + CountMod - 1) % CountMod]
  /\ ref' = [ref EXCEPT ![r] = NoObj]
  /\ guarded' = guarded \ {r}
  /\ sections' = [sections EXCEPT ![r] = @ + 1]
  /\ Goto(r, IF sections[r] + 1 < MaxSections THEN "load" ELSE "done")
  /\ UNCHANGED <<obj, nodeHeap, objHeap, head, cur, updater, late,
                 reused>>

\* Seeded defect: the count of head->current is decremented.
ReadUnlockCurrent(r) == EndSection(r, current)

\* The unlock goes through the pointer loaded by the lock.
ReadUnlock(r) == EndSection(r, cur[r])

ReaderStep(r) ==
  ReadLockLoad(r) \/ ReadLockInc(r) \/ Dereference(r) \/ ReadUnlock(r)

-----------------------------------------------------------------------------
(* Updaters *)

RetiredObjs == {obj[retired[i]] : i \in 1..Len(retired)}

\* The object an updater passes to rcu_assign_pointer() is a new one from
\* malloc(), or one that has been passed before and is still in use.
Newvals(again) ==
  IF again
  THEN (IF "retired" \in NewvalSources THEN {obj[n] : n \in Pending} ELSE {})
         \cup (IF "current" \in NewvalSources THEN {obj[current]} ELSE {})
  ELSE IF "fresh" \in NewvalSources THEN Objs \ objHeap ELSE {}

\* The part of rcu_assign_pointer() before the lock: a node for newval.
AllocNode(u) ==
  /\ pc[u] = "alloc"
  /\ \E n \in Nodes \ nodeHeap, newval \in Objs, again \in BOOLEAN :
       /\ newval \in Newvals(again)
       /\ nodeHeap' = nodeHeap \cup {n}
       /\ objHeap' = IF again THEN objHeap ELSE objHeap \cup {newval}
       /\ obj' = [obj EXCEPT ![n] = newval]
       /\ count' = [count EXCEPT ![n] = 0]
       /\ node' = [node EXCEPT ![u] = n]
       /\ reused' = (reused \/ again)
  /\ Goto(u, "assign")
  /\ UNCHANGED <<head, reader, want, updates, guarded, late>>

\* The locked part when newval is not in the retired list: the current node
\* goes to its tail and the new node takes its place.
AssignPointer(u) ==
  /\ pc[u] = "assign"
  /\ sp = NoThread
  /\ obj[node[u]] \notin RetiredObjs
  /\ retired' = Append(retired, current)
  /\ current' = node[u]
  /\ Goto(u, "sync")
  /\ UNCHANGED <<heap, sp, reader, updater, history>>

\* Otherwise nothing is published, and the node is freed.
GiveUp(u, freed) ==
  /\ pc[u] = "assign"
  /\ sp = NoThread
  /\ obj[node[u]] \in RetiredObjs
  /\ nodeHeap' = nodeHeap \ freed
  /\ Goto(u, "sync")
  /\ UNCHANGED <<obj, count, objHeap, head, reader, updater, history>>

\* Seeded defect: the early return does not free the node.
AssignDuplicateLeaks(u) == GiveUp(u, {})

AssignDuplicate(u) == GiveUp(u, {node[u]})

StartSync(u, first) ==
  /\ pc[u] = "sync"
  /\ sp = NoThread
  /\ sp' = u
  /\ want' = [want EXCEPT ![u] = first]
  /\ Goto(u, "wait")
  /\ UNCHANGED <<heap, current, retired, reader, node, updates, history>>

\* Seeded defect: the list walked from one element too early.
SyncLockFromZero(u) == StartSync(u, 0)

SyncLock(u) == StartSync(u, 1)

\* Seeded defect: the count is not waited for.
SyncWaitNoSpin(u) ==
  /\ pc[u] = "wait"
  /\ want[u] <= Len(retired)
  /\ Goto(u, "free")
  /\ UNCHANGED <<heap, head, reader, updater, history>>

\* The spin on a retired node ends when its count is seen to be zero ...
SyncWait(u) ==
  /\ pc[u] = "wait"
  /\ want[u] <= Len(retired)
  /\ count[retired[want[u]]] = 0
  /\ Goto(u, "free")
  /\ UNCHANGED <<heap, head, reader, updater, history>>

\* ... and object and node are freed.
SyncFree(u) ==
  /\ pc[u] = "free"
  /\ nodeHeap' = nodeHeap \ {retired[want[u]]}
  /\ objHeap' = objHeap \ {obj[retired[want[u]]]}
  /\ want' = [want EXCEPT ![u] = @ + 1]
  /\ Goto(u, "wait")
  /\ UNCHANGED <<obj, count, head, reader, node, updates, history>>

\* The end of synchronize_rcu(): the list that is left, the holder of sp.
EndSync(u, list, holder) ==
  /\ pc[u] = "wait"
  /\ want[u] > Len(retired)
  /\ retired' = list
  /\ sp' = holder
  /\ updates' = [updates EXCEPT ![u] = @ + 1]
  /\ Goto(u, IF updates[u] + 1 < MaxUpdates THEN "alloc" ELSE "done")
  /\ UNCHANGED <<heap, current, reader, node, want, history>>

\* Seeded defects: head->node is not reset; sp is not released.
SyncUnlockKeepList(u) == EndSync(u, retired, NoThread)

SyncUnlockHeld(u) == EndSync(u, <<>>, sp)

SyncUnlock(u) == EndSync(u, <<>>, NoThread)

UpdaterStep(u) ==
  \/ AllocNode(u) \/ AssignPointer(u) \/ AssignDuplicate(u)
  \/ SyncLock(u) \/ SyncWait(u) \/ SyncFree(u) \/ SyncUnlock(u)

-----------------------------------------------------------------------------
(* The main thread *)

\* All threads joined: rcu_free().
RcuFree ==
  /\ Finished
  /\ current \in nodeHeap
  /\ nodeHeap' = nodeHeap \ {current}
  /\ objHeap' = objHeap \ {obj[current]}
  /\ UNCHANGED <<obj, count, head, reader, updater, history, pc>>

Exited == Finished /\ current \notin nodeHeap

Next ==
  \/ \E r \in Readers : ReaderStep(r)
  \/ \E u \in Updaters : UpdaterStep(u)
  \/ RcuFree
  \/ Exited /\ UNCHANGED vars

Spec == Init /\ [][Next]_vars

\* Every thread is scheduled; locks are contended only finitely often.
FairSpec ==
  /\ Spec
  /\ \A r \in Readers : WF_vars(ReaderStep(r))
  /\ \A u \in Updaters : WF_vars(UpdaterStep(u))
  /\ WF_vars(RcuFree)

-----------------------------------------------------------------------------
(* Properties *)

\* Every variable has its type.
TypeOK ==
  /\ current \in Nodes
  /\ retired \in Seq(Nodes)
  /\ obj \in [Nodes -> Objs \cup {NoObj}]
  /\ count \in [Nodes -> 0..(CountMod - 1)]
  /\ nodeHeap \subseteq Nodes
  /\ objHeap \subseteq Objs
  /\ sp \in Updaters \cup {NoThread}
  /\ pc \in [Readers \cup Updaters ->
              {"load", "inc", "deref", "use", "alloc", "assign", "sync",
               "wait", "free", "done"}]
  /\ cur \in [Readers -> Nodes \cup {NoNode}]
  /\ ref \in [Readers -> Objs \cup {NoObj}]
  /\ sections \in [Readers -> Nat]
  /\ node \in [Updaters -> Nodes \cup {NoNode}]
  /\ want \in [Updaters -> Nat \ {0}]
  /\ updates \in [Updaters -> Nat]
  /\ guarded \subseteq Readers
  /\ late \in BOOLEAN
  /\ reused \in BOOLEAN

\* The current node and the retired nodes still to be freed are all different
\* and allocated, whatever updaters retire and free in between: no node is
\* freed twice, and synchronize_rcu() only walks live nodes.  If every object
\* passed to rcu_assign_pointer() is new, the same holds of the objects.
RetiredIntact ==
  LET inUse == {current} \cup Pending
  IN  ~Exited =>
        /\ inUse \subseteq nodeHeap
        /\ current \notin Pending
        /\ \A i, j \in 1..Len(retired) : retired[i] = retired[j] => i = j
        /\ ~reused => /\ {obj[n] : n \in inUse} \subseteq objHeap
                      /\ \A m, n \in inUse : obj[m] = obj[n] => m = n

\* As long as no increment has come too late, the count of a current or
\* retired node is exactly the number of readers inside a section that began
\* there, and the updater about to free a node frees one nobody uses.
CountExact ==
  ~late => \A n \in {current} \cup Pending :
             count[n] = Cardinality({r \in guarded : cur[r] = n})

\* As long as no increment has come too late (and no object is passed twice),
\* a reader keeps what it dereferences: the load of head->current and the
\* increment of the count not being one step is the only way to lose it.
GuardedReadersSafe ==
  ~late =>
    \A r \in Readers :
      /\ pc[r] \in {"deref", "use"} => cur[r] \in nodeHeap
      /\ ref[r] # NoObj /\ ~reused => ref[r] \in objHeap

\* What rcu_read_lock() is for: the node and the object a reader uses inside
\* its section have not been freed.
NoUseAfterFree ==
  \A r \in Readers :
    /\ pc[r] \in {"deref", "use"} => cur[r] \in nodeHeap
    /\ ref[r] # NoObj => ref[r] \in objHeap

\* The nodes updaters have allocated and not yet published.
Private == {node[u] : u \in {v \in Updaters : pc[v] = "assign"}}

\* The objects about to be freed, by synchronize_rcu() and by rcu_free(), have
\* not been freed before.
FreesAllocated ==
  /\ \A u \in Updaters : pc[u] = "free" => obj[retired[want[u]]] \in objHeap
  /\ Finished /\ ~Exited => obj[current] \in objHeap

\* Everything allocated is freed in the end, once.  Until the exit each node
\* allocated is the current one, waits in the retired list or is in the hands
\* of one updater, only one of the three, and no object is without a node: the
\* early return of rcu_assign_pointer() and the list emptied behind another
\* updater lose nothing.  No free() is of a node freed before, nor of an object
\* if none is passed to rcu_assign_pointer() twice.
AllFreed ==
  /\ Exited => nodeHeap = {} /\ objHeap = {}
  /\ ~Exited =>
       /\ nodeHeap = {current} \cup Pending \cup Private
       /\ current \notin Pending \cup Private
       /\ Pending \cap Private = {}
       /\ \A u, v \in Updaters :
            pc[u] = "assign" /\ pc[v] = "assign" /\ node[u] = node[v] => u = v
       /\ objHeap \subseteq {obj[n] : n \in nodeHeap}
  /\ ~reused => FreesAllocated

\* Unless a reader was counted too late, every thread finishes and main gets
\* to free the last node.
Termination == [](~late) => <>Exited
=============================================================================
