----------------------------- MODULE ClassicRcu -----------------------------
(***************************************************************************)
(* The kernel-space RCU of rcu/classic-rcu/rcu.h with the kthreads of      *)
(* test_lrcu.c, on a preemptible kernel with several processors.  A read-  *)
(* side critical section disables preemption; synchronize_lrcu() moves the *)
(* calling thread from processor to processor, and once it has run on each *)
(* of them every section open at the call must have ended.                 *)
(*                                                                         *)
(* The scheduler puts a ready thread on any processor its affinity allows, *)
(* in the place of a thread that may be preempted.  Whoever holds or waits *)
(* for list_lock cannot be preempted, and the locked parts store no more   *)
(* than the list and gp, so each of them is one action.  Memory            *)
(* is sequentially consistent: synchronize_lrcu() and __call_lrcu() run    *)
(* between full barriers, and a context switch is one.                     *)
(***************************************************************************)
EXTENDS Naturals, FiniteSets

CONSTANTS NrCpu,                       \* processors 1 .. NrCpu, all online
          Readers, Updaters, Callers,  \* kthreads: read_side, update_side and
                                       \*   the __call_lrcu of call_lrcu()
          NoThread,
          Objs, NoObj,                 \* addresses of kmalloc(), and NULL
          Junk,                        \* a word kmalloc() has not cleared
          NrProtected                  \* NR_LRCU_PROTECTED

Synchronizers == Updaters \cup Callers

Threads == Readers \cup Synchronizers

Cpus == 1..NrCpu

ASSUME CpuAssumption == NrCpu \in Nat \ {0}

ASSUME ThreadAssumption ==
  /\ Readers \cap Synchronizers = {}
  /\ Updaters \cap Callers = {}
  /\ NoThread \notin Threads

ASSUME ObjAssumption ==
  /\ NoObj \notin Objs
  /\ Junk \notin Objs \cup {NoObj}
  /\ NrProtected \in Nat

VARIABLES
  gp,          \* the LRCU-protected pointer
  allocated,   \* the objects kmalloc'd and not yet freed
  list,        \* lrcu_data->list
  on,          \* on[c]: the thread running on processor c
  affinity,    \* affinity[t]: the processors t may run on
  pc,
  ref,         \* ref[r]: what lrcu_dereference(gp) gave r
  newp, oldp,  \* newp[u], oldp[u]: as in update_side()
  visit,       \* visit[u]: the processor u is at, in for_each_online_cpu
  oops,        \* an address was freed that was not allocated
  overlap,     \* history: two lrcu_assign_pointer() were under way at once
  waiting      \* history: readers inside when u called synchronize_lrcu(),
               \*   and inside ever since

heapVars == <<gp, allocated, list, oops>>
cpuVars == <<on, affinity>>
localVars == <<ref, newp, oldp, visit>>
historyVars == <<overlap, waiting>>
vars == <<heapVars, cpuVars, localVars, historyVars, pc>>

ListIdx == 1..NrProtected

NoCallers == \A c \in Callers : pc[c] = "absent"

\* The read-side critical section: preempt_disable() to preempt_enable().
Inside == {r \in Readers : pc[r] \in {"deref", "use"}}

Init ==
  /\ gp \in Objs
  /\ allocated = {gp}
  /\ list \in [ListIdx -> {NoObj, Junk}]    \* lrcu_data_init() leaves it so
  /\ on = [c \in Cpus |-> NoThread]
  /\ affinity = [t \in Threads |-> Cpus]
  /\ pc \in [Threads -> {"start", "absent"}]
  /\ ref = [r \in Readers |-> NoObj]
  /\ newp = [u \in Updaters |-> NoObj]
  /\ oldp = [u \in Updaters |-> NoObj]
  /\ visit = [u \in Synchronizers |-> 1]
  /\ oops = FALSE
  /\ overlap = FALSE
  /\ waiting = [u \in Synchronizers |-> {}]

Goto(t, label) == pc' = [pc EXCEPT ![t] = label]

Running(t) == \E c \in Cpus : on[c] = t

\* The thread returns: it leaves its processor.
Exit(t) ==
  /\ Goto(t, "done")
  /\ on' = [c \in Cpus |-> IF on[c] = t THEN NoThread ELSE on[c]]

-----------------------------------------------------------------------------
(* The scheduler *)

Place(t, preemptible) ==
  /\ pc[t] \notin {"absent", "done"}
  /\ ~Running(t)
  /\ \E c \in affinity[t] :
       /\ on[c] \in preemptible \cup {NoThread}
       /\ on' = [on EXCEPT ![c] = t]
  /\ UNCHANGED <<heapVars, affinity, localVars, historyVars, pc>>

\* Seeded defect: lrcu_read_lock() does not disable preemption.
SchedulePreemptAll(t) == Place(t, Threads)

\* preempt_disable() .. preempt_enable(): nobody inside is preempted.
Schedule(t) == Place(t, Threads \ Inside)

-----------------------------------------------------------------------------
(* read_side *)

ReadLock(r) ==
  /\ pc[r] = "start"
  /\ Running(r)
  /\ Goto(r, "deref")
  /\ UNCHANGED <<heapVars, cpuVars, localVars, historyVars>>

Dereference(r) ==
  /\ pc[r] = "deref"
  /\ ref' = [ref EXCEPT ![r] = gp]
  /\ Goto(r, "use")
  /\ UNCHANGED <<heapVars, cpuVars, newp, oldp, visit, historyVars>>

ReadUnlock(r) ==
  /\ pc[r] = "use"
  /\ ref' = [ref EXCEPT ![r] = NoObj]
  /\ waiting' = [u \in Synchronizers |-> waiting[u] \ {r}]
  /\ Exit(r)
  /\ UNCHANGED <<heapVars, affinity, newp, oldp, visit, overlap>>

ReaderStep(r) == ReadLock(r) \/ Dereference(r) \/ ReadUnlock(r)

-----------------------------------------------------------------------------
(* update_side and __call_lrcu *)

\* kmalloc() of newp; the macro lrcu_assign_pointer() loads gp, its argument,
\* before __lrcu_collect_old_pointer() takes list_lock.
LoadOldPointer(u) ==
  /\ pc[u] = "start"
  /\ Running(u)
  /\ \E obj \in Objs \ allocated :
       /\ allocated' = allocated \cup {obj}
       /\ newp' = [newp EXCEPT ![u] = obj]
  /\ oldp' = [oldp EXCEPT ![u] = gp]
  /\ overlap' = (overlap \/ \E v \in Updaters : pc[v] = "collect")
  /\ Goto(u, "collect")
  /\ UNCHANGED <<gp, list, oops, cpuVars, ref, visit, waiting>>

\* A call of synchronize_lrcu(), or the start of __call_lrcu.
SynchronizeBegin(u) ==
  /\ waiting' = [waiting EXCEPT ![u] = Inside]
  /\ Goto(u, "sync")

\* Under list_lock: the old pointer goes into the first free entry, and newp
\* is published.
CollectOldPointer(u) ==
  /\ pc[u] = "collect"
  /\ Running(u)
  /\ \E i \in ListIdx :
       /\ list[i] = NoObj
       /\ \A j \in 1..(i - 1) : list[j] # NoObj
       /\ list' = [list EXCEPT ![i] = oldp[u]]
  /\ gp' = newp[u]
  /\ SynchronizeBegin(u)
  /\ UNCHANGED <<allocated, oops, cpuVars, localVars, overlap>>

ListFull == \A i \in ListIdx : list[i] # NoObj

\* Seeded defect: the client keeps what it read from gp itself, and goes on with
\* that whatever lrcu_assign_pointer() returns.
CollectFullIgnored(u) ==
  /\ pc[u] = "collect"
  /\ Running(u)
  /\ ListFull
  /\ SynchronizeBegin(u)
  /\ UNCHANGED <<heapVars, cpuVars, localVars, overlap>>

\* The list is full: update_side returns and newp is lost.
CollectFull(u) ==
  /\ pc[u] = "collect"
  /\ Running(u)
  /\ ListFull
  /\ Exit(u)
  /\ UNCHANGED <<heapVars, affinity, localVars, historyVars>>

\* kthread_run(__call_lrcu): the thread that call_lrcu() creates starts.
CallLrcu(c) ==
  /\ pc[c] = "start"
  /\ Running(c)
  /\ SynchronizeBegin(c)
  /\ UNCHANGED <<heapVars, cpuVars, localVars, overlap>>

SetAffinity(u, stays) ==
  /\ pc[u] = "sync"
  /\ Running(u)
  /\ affinity' = [affinity EXCEPT ![u] = {visit[u]}]
  /\ on' = [c \in Cpus |-> IF on[c] = u /\ c \notin stays THEN NoThread
                                                         ELSE on[c]]
  /\ Goto(u, "visit")
  /\ UNCHANGED <<heapVars, localVars, historyVars>>

\* Seeded defect: the thread is not moved off a processor it may not be on.
RunOnNoMove(u) == SetAffinity(u, Cpus)

\* run_on(cpu): if the thread is elsewhere it is taken off that processor,
\* and returns from sched_setaffinity() when it runs on cpu.
RunOn(u) == SetAffinity(u, {visit[u]})

Advance(u, last) ==
  /\ pc[u] = "visit"
  /\ on[visit[u]] = u
  /\ IF visit[u] < last
     THEN visit' = [visit EXCEPT ![u] = @ + 1] /\ Goto(u, "sync")
     ELSE Goto(u, "clear") /\ UNCHANGED visit
  /\ UNCHANGED <<heapVars, cpuVars, ref, newp, oldp, historyVars>>

\* Seeded defects: the loop leaves out the last processor; it runs past it.
VisitedAllButLast(u) == Advance(u, NrCpu - 1)

VisitedOneMore(u) == Advance(u, NrCpu + 1)

\* run_on(cpu) has returned: the next processor, or the end of the loop.
Visited(u) == Advance(u, NrCpu)

\* synchronize_lrcu() empties the whole list, under list_lock.
ClearList(u) ==
  /\ u \in Updaters
  /\ pc[u] = "clear"
  /\ Running(u)
  /\ list' = [i \in ListIdx |-> NoObj]
  /\ Goto(u, "free")
  /\ UNCHANGED <<gp, allocated, oops, cpuVars, localVars, historyVars>>

Kfree(u) ==
  /\ pc[u] = "free"
  /\ Running(u)
  /\ allocated' = allocated \ {oldp[u]}
  /\ oops' = (oldp[u] \notin allocated)
  /\ Exit(u)
  /\ UNCHANGED <<gp, list, affinity, localVars, historyVars>>

\* __call_lrcu gives every entry of the list to the callback, which frees it,
\* under list_lock.
Callback(c) ==
  /\ c \in Callers
  /\ pc[c] = "clear"
  /\ Running(c)
  /\ LET used == {i \in ListIdx : list[i] # NoObj}
         objs == {list[i] : i \in used}
     IN  /\ allocated' = allocated \ objs
         /\ oops' = (\/ ~(objs \subseteq allocated)
                     \/ Cardinality(objs) # Cardinality(used))
  /\ list' = [i \in ListIdx |-> NoObj]
  /\ Exit(c)
  /\ UNCHANGED <<gp, affinity, localVars, historyVars>>

UpdaterStep(u) ==
  \/ LoadOldPointer(u) \/ CollectOldPointer(u) \/ CollectFull(u)
  \/ RunOn(u) \/ Visited(u) \/ ClearList(u) \/ Kfree(u)

CallerStep(c) == CallLrcu(c) \/ RunOn(c) \/ Visited(c) \/ Callback(c)

Step(t) ==
  \/ t \in Readers /\ ReaderStep(t)
  \/ t \in Updaters /\ UpdaterStep(t)
  \/ t \in Callers /\ CallerStep(t)

AllDone == \A t \in Threads : pc[t] \in {"absent", "done"}

\* A bad kfree() may do anything; the kernel reports it and stops.
Stopped == (oops \/ AllDone) /\ UNCHANGED vars

Next ==
  \/ ~oops /\ \E t \in Threads : Schedule(t) \/ Step(t)
  \/ Stopped

Spec == Init /\ [][Next]_vars

\* The scheduler is fair: a thread that is ready again and again gets a
\* processor again and again, and long enough to make a step.
FairSpec ==
  /\ Spec
  /\ \A t \in Threads : /\ SF_vars(~oops /\ Schedule(t))
                        /\ SF_vars(~oops /\ Step(t))

-----------------------------------------------------------------------------
(* Properties *)

\* Every variable has its type; the loop over the processors stays within
\* them.
TypeOK ==
  /\ gp \in Objs
  /\ allocated \subseteq Objs
  /\ list \in [ListIdx -> Objs \cup {NoObj, Junk}]
  /\ on \in [Cpus -> Threads \cup {NoThread}]
  /\ affinity \in [Threads -> SUBSET Cpus]
  /\ pc \in [Threads -> {"absent", "start", "deref", "use", "collect", "sync",
                         "visit", "clear", "free", "done"}]
  /\ ref \in [Readers -> Objs \cup {NoObj}]
  /\ newp \in [Updaters -> Objs \cup {NoObj}]
  /\ oldp \in [Updaters -> Objs \cup {NoObj}]
  /\ visit \in [Synchronizers -> Cpus]
  /\ oops \in BOOLEAN
  /\ overlap \in BOOLEAN
  /\ waiting \in [Synchronizers -> SUBSET Readers]

\* If no two lrcu_assign_pointer() overlap (a lock of the client's own sees to
\* that, as with the kernel's RCU) and call_lrcu() is not used next to
\* kfree(), what a reader got from lrcu_dereference() is not freed before its
\* lrcu_read_unlock(), also when one updater's synchronize_lrcu() empties
\* another one's entries.
ReadersSafe ==
  NoCallers /\ ~overlap =>
    \A r \in Readers : ref[r] # NoObj => ref[r] \in allocated

\* Under the same conditions every object is freed once, whatever was in the
\* list when it was allocated.
FreedOnce == NoCallers /\ ~overlap => ~oops

\* Readers and updaters all return, unless a bad kfree() stops the kernel.
Termination == <>(oops \/ AllDone)

\* However the scheduler moves threads around, synchronize_lrcu() and
\* __call_lrcu() get past their loop only when every reader inside its
\* section at the call has left it.
Syncing == {u \in Synchronizers : pc[u] \in {"sync", "visit", "clear"}}

GracePeriod ==
  INSTANCE RcuGracePeriod WITH
    Updaters <- Synchronizers,
    inside   <- Inside,
    syncing  <- Syncing,
    waiting  <- waiting

ImplementsGracePeriod == GracePeriod!Spec
=============================================================================
