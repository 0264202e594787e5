-------------------------- MODULE ClassicRcuProofs --------------------------
(***************************************************************************)
(* Proofs about ClassicRcu, for any number of processors, readers,         *)
(* updaters and call_lrcu() threads, any set of addresses, any length and  *)
(* any initial contents of the list.                                       *)
(***************************************************************************)
EXTENDS ClassicRcu, TLAPS

-----------------------------------------------------------------------------
(* Typing *)

\* An updater about to publish has something to publish.
TypeInv ==
  /\ TypeOK
  /\ \A u \in Updaters : pc[u] = "collect" => newp[u] \in Objs

\* The initial states have their types.
LEMMA TypeInit == Init => TypeInv
<1> SUFFICES ASSUME Init PROVE TypeInv
  OBVIOUS
<1>1. 1 \in Cpus
  BY CpuAssumption DEF Cpus
<1>2. /\ pc \in [Threads -> {"start", "absent"}]
      /\ list \in [ListIdx -> {NoObj, Junk}]
  BY DEF Init
<1>3. TypeOK
  BY <1>1, <1>2 DEF Init, TypeOK
<1>4. QED
  BY <1>2, <1>3 DEF TypeInv, Threads, Synchronizers

\* The scheduler changes nothing but who runs where.
LEMMA TypeSchedule ==
  ASSUME TypeInv, NEW t \in Threads, Schedule(t)
  PROVE  TypeInv'
  BY DEF TypeInv, TypeOK, Schedule, Place, heapVars, localVars, historyVars

\* Reader steps keep the types.
LEMMA TypeReader ==
  ASSUME TypeInv, NEW r \in Readers, ReaderStep(r)
  PROVE  TypeInv'
<1> USE ThreadAssumption
    DEF TypeInv, TypeOK, Goto, Exit, Threads, Synchronizers, heapVars,
        cpuVars, localVars, historyVars
<1>1. CASE ReadLock(r)
  BY <1>1 DEF ReadLock
<1>2. CASE Dereference(r)
  BY <1>2 DEF Dereference
<1>3. CASE ReadUnlock(r)
  BY <1>3 DEF ReadUnlock
<1>4. QED
  BY <1>1, <1>2, <1>3 DEF ReaderStep

\* So do the steps of synchronize_lrcu() that __call_lrcu shares.
LEMMA TypeSynchronize ==
  ASSUME TypeInv, NEW u \in Synchronizers, RunOn(u) \/ Visited(u)
  PROVE  TypeInv'
<1> USE DEF TypeInv, TypeOK, Goto, Threads, Synchronizers, heapVars, cpuVars,
            localVars, historyVars
<1>1. CASE RunOn(u)
  BY <1>1 DEF RunOn, SetAffinity
<1>2. CASE Visited(u)
  <2>1. visit[u] < NrCpu => visit[u] + 1 \in Cpus
    BY CpuAssumption DEF Cpus
  <2>2. visit' \in [Synchronizers -> Cpus]
    BY <1>2, <2>1 DEF Visited, Advance
  <2>3. QED
    BY <1>2, <2>2 DEF Visited, Advance
<1>3. QED
  BY <1>1, <1>2

\* And the other steps of update_side and __call_lrcu.
LEMMA TypeUpdater ==
  ASSUME TypeInv, NEW u \in Synchronizers,
         \/ u \in Updaters /\ (LoadOldPointer(u) \/ CollectOldPointer(u)
                               \/ CollectFull(u) \/ ClearList(u) \/ Kfree(u))
         \/ u \in Callers /\ (CallLrcu(u) \/ Callback(u))
  PROVE  TypeInv'
<1> USE DEF TypeInv, TypeOK, Goto, Exit, SynchronizeBegin, Threads,
            Synchronizers, heapVars, cpuVars, localVars, historyVars, Inside
<1>1. CASE u \in Updaters /\ LoadOldPointer(u)
  BY <1>1 DEF LoadOldPointer
<1>2. CASE u \in Updaters /\ CollectOldPointer(u)
  <2>1. PICK i \in ListIdx : list' = [list EXCEPT ![i] = oldp[u]]
    BY <1>2 DEF CollectOldPointer
  <2>2. gp' \in Objs
    BY <1>2 DEF CollectOldPointer
  <2>3. QED
    BY <1>2, <2>1, <2>2 DEF CollectOldPointer
<1>3. CASE u \in Updaters /\ CollectFull(u)
  BY <1>3 DEF CollectFull
<1>4. CASE u \in Updaters /\ ClearList(u)
  BY <1>4 DEF ClearList
<1>5. CASE u \in Updaters /\ Kfree(u)
  BY <1>5 DEF Kfree
<1>6. CASE u \in Callers /\ CallLrcu(u)
  BY <1>6 DEF CallLrcu
<1>7. CASE u \in Callers /\ Callback(u)
  BY <1>7 DEF Callback
<1>8. QED
  BY <1>1, <1>2, <1>3, <1>4, <1>5, <1>6, <1>7

\* All steps keep the types.
LEMMA TypeInvariant == Spec => []TypeInv
<1>1. TypeInv /\ [Next]_vars => TypeInv'
  <2> SUFFICES ASSUME TypeInv, [Next]_vars PROVE TypeInv'
    OBVIOUS
  <2>1. CASE UNCHANGED vars
    BY <2>1 DEF vars, heapVars, cpuVars, localVars, historyVars, TypeInv, TypeOK
  <2>2. CASE Next
    BY <2>1, <2>2, TypeSchedule, TypeReader, TypeSynchronize, TypeUpdater
       DEF Next, Stopped, Step, UpdaterStep, CallerStep, Threads, Synchronizers
  <2>3. QED
    BY <2>1, <2>2
<1>2. QED
  BY <1>1, TypeInit, PTL DEF Spec

\* Every variable always has its type; in particular for_each_online_cpu never
\* runs past the last processor.
THEOREM TypeCorrect == Spec => []TypeOK
<1>1. TypeInv => TypeOK
  BY DEF TypeInv
<1>2. QED
  BY <1>1, TypeInvariant, PTL

-----------------------------------------------------------------------------
(* The grace period *)

\* No thread runs on two processors.
OneCpu == \A c, d \in Cpus : on[c] = on[d] /\ on[c] # NoThread => c = d

\* A reader inside its section stays on its processor: it is not preempted.
InsideRuns == \A r \in Inside : Running(r)

\* The loop over the processors starts at the first one.
VisitInv ==
  \A u \in Synchronizers :
    pc[u] \in {"start", "absent", "collect"} => visit[u] = 1

\* The readers a grace period still has to wait for are inside, on processors
\* the loop has not been to; past the loop there are none.
WaitInv ==
  \A u \in Synchronizers :
    /\ waiting[u] \subseteq Inside
    /\ pc[u] \in {"sync", "visit"} =>
         \A c \in Cpus : on[c] \in waiting[u] => visit[u] <= c
    /\ pc[u] = "clear" => waiting[u] = {}

RunInv == OneCpu /\ InsideRuns /\ VisitInv /\ WaitInv

\* Nobody runs yet, and nobody is waited for.
LEMMA RunInit == Init => RunInv
  BY ThreadAssumption
     DEF Init, RunInv, OneCpu, InsideRuns, VisitInv, WaitInv, Inside, Threads,
         Synchronizers

\* A thread is put only where nobody runs that is inside its section.
LEMMA RunSchedule ==
  ASSUME TypeInv, RunInv, NEW t \in Threads, Schedule(t)
  PROVE  RunInv'
<1> USE ThreadAssumption
    DEF TypeInv, TypeOK, Schedule, Place, heapVars, localVars, historyVars
<1>1. Inside' = Inside /\ Inside \subseteq Threads
  BY DEF Inside, Threads
<1>2. PICK k \in Cpus : /\ on[k] \in (Threads \ Inside) \cup {NoThread}
                        /\ on' = [on EXCEPT ![k] = t]
  OBVIOUS
<1>3. \A c \in Cpus : on[c] # t
  BY DEF Running
<1>4. OneCpu'
  BY <1>2, <1>3 DEF RunInv, OneCpu
<1>5. InsideRuns'
  BY <1>1, <1>2 DEF RunInv, InsideRuns, Running
<1>6. VisitInv'
  BY DEF RunInv, VisitInv
<1>7. t \notin Inside
  BY <1>3 DEF RunInv, InsideRuns, Running
<1>8. WaitInv'
  BY <1>1, <1>2, <1>7 DEF RunInv, WaitInv
<1>9. QED
  BY <1>4, <1>5, <1>6, <1>8 DEF RunInv

\* A reader enters only on the processor it runs on, and nobody waits for it
\* yet; leaving takes it out of every waiting set.
LEMMA RunReader ==
  ASSUME TypeInv, RunInv, NEW r \in Readers, ReaderStep(r)
  PROVE  RunInv'
<1> USE ThreadAssumption
    DEF TypeInv, TypeOK, RunInv, Goto, Exit, Threads, Synchronizers, heapVars,
        cpuVars, localVars, historyVars, Inside
<1>1. CASE ReadLock(r)
  BY <1>1 DEF ReadLock, OneCpu, InsideRuns, VisitInv, WaitInv, Running
<1>2. CASE Dereference(r)
  BY <1>2 DEF Dereference, OneCpu, InsideRuns, VisitInv, WaitInv, Running
<1>3. CASE ReadUnlock(r)
  <2>1. OneCpu' /\ InsideRuns' /\ VisitInv'
    BY <1>3 DEF ReadUnlock, OneCpu, InsideRuns, VisitInv, Running
  <2>2. \A c \in Cpus : on'[c] \in {on[c], NoThread}
    BY <1>3 DEF ReadUnlock
  <2>3. WaitInv'
    BY <1>3, <2>2 DEF ReadUnlock, WaitInv
  <2>4. QED
    BY <2>1, <2>3
<1>4. QED
  BY <1>1, <1>2, <1>3 DEF ReaderStep

\* The heart of the matter: the thread that runs on a processor is not a
\* reader, so nobody it waits for is there.
LEMMA RunVisited ==
  ASSUME TypeInv, RunInv, NEW u \in Synchronizers, Visited(u)
  PROVE  RunInv'
<1> USE ThreadAssumption
    DEF TypeInv, TypeOK, RunInv, Goto, Threads, Synchronizers, heapVars,
        cpuVars, localVars, historyVars, Visited, Advance
<1>1. Inside' = Inside
  BY DEF Inside
<1>2. OneCpu' /\ InsideRuns' /\ VisitInv'
  BY <1>1 DEF OneCpu, InsideRuns, VisitInv, Running
<1>3. \A c \in Cpus : on[c] \in waiting[u] => visit[u] < c
  <2> SUFFICES ASSUME NEW c \in Cpus, on[c] \in waiting[u] PROVE visit[u] < c
    OBVIOUS
  <2>1. visit[u] <= c /\ on[c] # u
    BY DEF WaitInv, Inside
  <2>2. QED
    BY <2>1, CpuAssumption DEF Cpus
<1>4. CASE visit[u] < NrCpu
  <2>1. \A c \in Cpus : on[c] \in waiting[u] => visit[u] + 1 <= c
    BY <1>3, CpuAssumption DEF Cpus
  <2>2. WaitInv'
    BY <1>1, <1>4, <2>1 DEF WaitInv
  <2>3. QED
    BY <1>2, <2>2
<1>5. CASE ~(visit[u] < NrCpu)
  <2>1. \A c \in Cpus : on[c] \notin waiting[u]
    BY <1>3, <1>5, CpuAssumption DEF Cpus
  <2>2. waiting[u] = {}
    BY <2>1 DEF WaitInv, InsideRuns, Running
  <2>3. WaitInv'
    BY <1>1, <1>5, <2>2 DEF WaitInv
  <2>4. QED
    BY <1>2, <2>3
<1>6. QED
  BY <1>4, <1>5

\* A grace period begins with everybody inside on processors 1 and up.
LEMMA RunBegin ==
  ASSUME TypeInv, RunInv, NEW u \in Synchronizers,
         \/ u \in Updaters /\ CollectOldPointer(u)
         \/ u \in Callers /\ CallLrcu(u)
  PROVE  RunInv'
<1> USE ThreadAssumption
    DEF TypeInv, TypeOK, RunInv, Goto, SynchronizeBegin, Threads,
        Synchronizers, heapVars, cpuVars, localVars, historyVars
<1>1. /\ pc[u] \in {"collect", "start"}
      /\ pc' = [pc EXCEPT ![u] = "sync"]
      /\ waiting' = [waiting EXCEPT ![u] = Inside]
      /\ UNCHANGED <<on, visit>>
  BY DEF CollectOldPointer, CallLrcu
<1>2. Inside' = Inside
  BY <1>1 DEF Inside
<1>3. OneCpu' /\ InsideRuns' /\ VisitInv'
  BY <1>1, <1>2 DEF OneCpu, InsideRuns, VisitInv, Running
<1>4. visit[u] = 1 /\ \A c \in Cpus : 1 <= c
  BY <1>1, CpuAssumption DEF VisitInv, Cpus
<1>5. WaitInv'
  BY <1>1, <1>2, <1>4 DEF WaitInv
<1>6. QED
  BY <1>3, <1>5

\* The other steps of update_side and __call_lrcu take at most their own thread
\* off a processor.
LEMMA RunOther ==
  ASSUME TypeInv, RunInv, NEW u \in Synchronizers,
         \/ RunOn(u)
         \/ u \in Updaters /\ (LoadOldPointer(u) \/ CollectFull(u)
                               \/ ClearList(u) \/ Kfree(u))
         \/ u \in Callers /\ Callback(u)
  PROVE  RunInv'
<1> USE ThreadAssumption
    DEF TypeInv, TypeOK, RunInv, Goto, Exit, Threads, Synchronizers,
        heapVars, cpuVars, localVars, historyVars
<1>1. /\ \A c \in Cpus : on'[c] = on[c] \/ (on[c] = u /\ on'[c] = NoThread)
      /\ \A t \in Threads \ {u} : pc'[t] = pc[t]
      /\ UNCHANGED <<visit, waiting>>
  BY DEF RunOn, SetAffinity, LoadOldPointer, CollectFull, ClearList, Kfree,
         Callback
<1>2. /\ pc'[u] \in {"start", "absent", "collect"} => pc[u] = "start"
      /\ pc'[u] \in {"sync", "visit"} => pc[u] = "sync"
      /\ pc'[u] # "clear"
  BY DEF RunOn, SetAffinity, LoadOldPointer, CollectFull, ClearList, Kfree,
         Callback
<1>3. Inside' = Inside /\ u \notin Inside
  BY <1>1 DEF Inside
<1>4. OneCpu'
  BY <1>1 DEF OneCpu
<1>5. InsideRuns'
  BY <1>1, <1>3 DEF InsideRuns, Running
<1>6. VisitInv'
  BY <1>1, <1>2 DEF VisitInv
<1>7. WaitInv'
  <2> SUFFICES ASSUME NEW v \in Synchronizers
               PROVE  /\ waiting[v] \subseteq Inside
                      /\ pc'[v] \in {"sync", "visit"} =>
                           \A c \in Cpus :
                             on'[c] \in waiting[v] => visit[v] <= c
                      /\ pc'[v] = "clear" => waiting[v] = {}
    BY <1>1, <1>3 DEF WaitInv
  <2>1. NoThread \notin waiting[v]
    OBVIOUS
  <2>2. QED
    BY <1>1, <1>2, <2>1 DEF WaitInv
<1>8. QED
  BY <1>4, <1>5, <1>6, <1>7

\* Every step of every thread, and of the scheduler, keeps the invariant.
LEMMA RunInvariant == Spec => [](TypeInv /\ RunInv)
<1>1. TypeInv /\ RunInv /\ [Next]_vars => RunInv'
  <2> SUFFICES ASSUME TypeInv, RunInv, [Next]_vars PROVE RunInv'
    OBVIOUS
  <2>1. CASE UNCHANGED vars
    BY <2>1 DEF vars, heapVars, cpuVars, localVars, historyVars, RunInv,
                OneCpu, InsideRuns, VisitInv, WaitInv, Inside, Running
  <2>2. CASE Next
    BY <2>1, <2>2, RunSchedule, RunReader, RunVisited, RunBegin, RunOther
       DEF Next, Stopped, Step, UpdaterStep, CallerStep, Threads, Synchronizers
  <2>3. QED
    BY <2>1, <2>2
<1>2. QED
  BY <1>1, RunInit, TypeInvariant, PTL DEF Spec

\* Reader steps are reader steps of RcuGracePeriod, or invisible there.
LEMMA StepReader ==
  ASSUME TypeInv, RunInv, NEW r \in Readers, ReaderStep(r)
  PROVE  GracePeriod!Next \/ UNCHANGED GracePeriod!vars
<1> USE ThreadAssumption
    DEF TypeInv, TypeOK, Goto, Exit, Threads, Synchronizers, heapVars,
        cpuVars, localVars, historyVars
<1>1. Syncing' = Syncing
  BY DEF Syncing, ReaderStep, ReadLock, Dereference, ReadUnlock
<1>2. CASE ReadLock(r)
  <2>1. r \notin Inside /\ Inside' = Inside \cup {r}
    BY <1>2 DEF ReadLock, Inside
  <2>2. GracePeriod!ReadLock(r)
    BY <1>1, <1>2, <2>1 DEF ReadLock, GracePeriod!ReadLock
  <2>3. QED
    BY <2>2 DEF GracePeriod!Next
<1>3. CASE Dereference(r)
  <2>1. Inside' = Inside
    BY <1>3 DEF Dereference, Inside
  <2>2. QED
    BY <1>1, <1>3, <2>1 DEF Dereference, GracePeriod!vars
<1>4. CASE ReadUnlock(r)
  <2>1. r \in Inside /\ Inside' = Inside \ {r}
    BY <1>4 DEF ReadUnlock, Inside
  <2>2. GracePeriod!ReadUnlock(r)
    BY <1>1, <1>4, <2>1 DEF ReadUnlock, GracePeriod!ReadUnlock
  <2>3. QED
    BY <2>2 DEF GracePeriod!Next
<1>5. QED
  BY <1>2, <1>3, <1>4 DEF ReaderStep

\* A call of synchronize_lrcu() begins a grace period, the end of its loop,
\* when the list is emptied, ends it; the rest is invisible.
LEMMA StepSynchronizer ==
  ASSUME TypeInv, RunInv, NEW u \in Synchronizers,
         \/ u \in Updaters /\ UpdaterStep(u)
         \/ u \in Callers /\ CallerStep(u)
  PROVE  GracePeriod!Next \/ UNCHANGED GracePeriod!vars
<1> USE ThreadAssumption
    DEF TypeInv, TypeOK, Goto, Exit, Threads, Synchronizers, heapVars,
        cpuVars, localVars, historyVars
<1>1. Inside' = Inside
  BY DEF Inside, UpdaterStep, CallerStep, LoadOldPointer, CollectOldPointer,
         CollectFull, RunOn, SetAffinity, Visited, Advance, ClearList, Kfree,
         CallLrcu, Callback, SynchronizeBegin
<1>2. CASE \/ u \in Updaters /\ CollectOldPointer(u)
           \/ u \in Callers /\ CallLrcu(u)
  <2>1. u \notin Syncing /\ Syncing' = Syncing \cup {u}
    BY <1>2 DEF CollectOldPointer, CallLrcu, SynchronizeBegin, Syncing
  <2>2. GracePeriod!SynchronizeBegin(u)
    BY <1>1, <1>2, <2>1 DEF CollectOldPointer, CallLrcu, SynchronizeBegin,
                            GracePeriod!SynchronizeBegin
  <2>3. QED
    BY <2>2 DEF GracePeriod!Next
<1>3. CASE \/ u \in Updaters /\ ClearList(u)
           \/ u \in Callers /\ Callback(u)
  <2>1. u \in Syncing /\ Syncing' = Syncing \ {u}
    BY <1>3 DEF ClearList, Callback, Syncing
  <2>2. waiting[u] = {}
    BY <1>3 DEF ClearList, Callback, RunInv, WaitInv
  <2>3. GracePeriod!SynchronizeEnd(u)
    BY <1>1, <1>3, <2>1, <2>2 DEF ClearList, Callback,
                                  GracePeriod!SynchronizeEnd
  <2>4. QED
    BY <2>3 DEF GracePeriod!Next
<1>4. CASE \/ RunOn(u) \/ Visited(u)
           \/ u \in Updaters /\ (LoadOldPointer(u) \/ CollectFull(u)
                                 \/ Kfree(u))
  <2>1. Syncing' = Syncing /\ UNCHANGED waiting
    BY <1>4 DEF RunOn, SetAffinity, Visited, Advance, LoadOldPointer,
                CollectFull, Kfree, Syncing
  <2>2. QED
    BY <1>1, <2>1 DEF GracePeriod!vars
<1>5. QED
  BY <1>2, <1>3, <1>4 DEF UpdaterStep, CallerStep

\* synchronize_lrcu() and __call_lrcu keep the promise every RCU flavour of the
\* repository makes: they go on only when the readers inside their sections at
\* the call have left, however threads are preempted and moved.
THEOREM GracePeriodKept == Spec => ImplementsGracePeriod
<1>1. Init => GracePeriod!Init
  BY ThreadAssumption
     DEF Init, GracePeriod!Init, Inside, Syncing, Threads, Synchronizers
<1>2. TypeInv /\ RunInv /\ [Next]_vars => [GracePeriod!Next]_(GracePeriod!vars)
  <2> SUFFICES ASSUME TypeInv, RunInv, [Next]_vars
               PROVE  GracePeriod!Next \/ UNCHANGED GracePeriod!vars
    OBVIOUS
  <2>1. CASE UNCHANGED vars
    BY <2>1 DEF vars, historyVars, GracePeriod!vars, Inside, Syncing
  <2>2. ASSUME NEW t \in Threads, Schedule(t)
        PROVE  UNCHANGED GracePeriod!vars
    BY <2>2 DEF Schedule, Place, historyVars, GracePeriod!vars, Inside, Syncing
  <2>3. CASE Next
    BY <2>1, <2>2, <2>3, StepReader, StepSynchronizer
       DEF Next, Stopped, Step, Threads, Synchronizers
  <2>4. QED
    BY <2>1, <2>3
<1>3. QED
  BY <1>1, <1>2, RunInvariant, PTL
     DEF Spec, ImplementsGracePeriod, GracePeriod!Spec

-----------------------------------------------------------------------------
(* Memory safety, without call_lrcu() and overlapping updates *)

Quiet == NoCallers /\ ~overlap

\* Between lrcu_assign_pointer() and kfree() an updater owns the old object.
Pending(u) == pc[u] \in {"sync", "visit", "clear", "free"}

\* One updater at a time is about to publish, in the place of what is published.
CollectInv ==
  \A u \in Updaters : pc[u] = "collect" =>
    /\ oldp[u] = gp
    /\ newp[u] \in allocated \ {gp}
    /\ \A v \in Updaters : pc[v] = "collect" => u = v

\* Old objects are unpublished, allocated and have one owner.
OwnerInv ==
  \A u \in Updaters : Pending(u) =>
    /\ oldp[u] \in allocated \ {gp}
    /\ \A v \in Updaters : Pending(v) /\ oldp[u] = oldp[v] => u = v
    /\ \A v \in Updaters : pc[v] = "collect" => newp[v] # oldp[u]

\* What a reader uses is published, or its owner waits for that reader.
RefInv ==
  \A r \in Readers : ref[r] # NoObj =>
    /\ pc[r] = "use"
    /\ \/ ref[r] = gp
       \/ \E u \in Updaters : Pending(u) /\ oldp[u] = ref[r] /\ r \in waiting[u]

\* Nobody is left to wait for when the object is freed.
FreeInv == \A u \in Updaters : pc[u] = "free" => waiting[u] = {}

HeapInv ==
  Quiet => /\ ~oops /\ gp \in allocated
           /\ CollectInv /\ OwnerInv /\ RefInv /\ FreeInv

\* At first the one object is the published one.
LEMMA HeapInit == Init => HeapInv
  BY ThreadAssumption
     DEF Init, HeapInv, CollectInv, OwnerInv, Pending, RefInv, FreeInv,
         Threads, Synchronizers

\* No step undoes an overlap or the existence of a call_lrcu() thread.
LEMMA QuietBack ==
  ASSUME TypeInv, [Next]_vars, Quiet'
  PROVE  Quiet
<1> USE ThreadAssumption
    DEF TypeInv, TypeOK, Goto, Exit, SynchronizeBegin, Threads, Synchronizers,
        heapVars, cpuVars, localVars, historyVars
<1>1. overlap => overlap'
  BY DEF Next, Stopped, vars, Schedule, Place, Step, ReaderStep, ReadLock,
         Dereference, ReadUnlock, UpdaterStep, CallerStep, LoadOldPointer,
         CollectOldPointer, CollectFull, RunOn, SetAffinity, Visited, Advance,
         ClearList, Kfree, CallLrcu, Callback
<1>2. \A c \in Callers : pc'[c] = "absent" => pc[c] = "absent"
  BY DEF Next, Stopped, vars, Schedule, Place, Step, ReaderStep, ReadLock,
         Dereference, ReadUnlock, UpdaterStep, CallerStep, LoadOldPointer,
         CollectOldPointer, CollectFull, RunOn, SetAffinity, Visited, Advance,
         ClearList, Kfree, CallLrcu, Callback
<1>3. QED
  BY <1>1, <1>2 DEF Quiet, NoCallers

\* Readers only read: they add a reference to what is published.
LEMMA HeapReader ==
  ASSUME TypeInv, RunInv, HeapInv, Quiet, NEW r \in Readers, ReaderStep(r)
  PROVE  HeapInv'
<1> USE ThreadAssumption
    DEF TypeInv, TypeOK, Goto, Exit, Threads, Synchronizers, heapVars,
        cpuVars, localVars, historyVars, HeapInv
<1>1. /\ UNCHANGED <<gp, allocated, oops, oldp, newp>>
      /\ \A u \in Updaters : pc'[u] = pc[u]
  BY DEF ReaderStep, ReadLock, Dereference, ReadUnlock
<1>2. CollectInv' /\ OwnerInv'
  BY <1>1 DEF CollectInv, OwnerInv, Pending
<1>3. FreeInv'
  BY <1>1 DEF FreeInv, ReaderStep, ReadLock, Dereference, ReadUnlock
<1>4. RefInv'
  <2>1. CASE ReadLock(r)
    BY <1>1, <2>1 DEF ReadLock, RefInv, Pending
  <2>2. CASE Dereference(r)
    BY <1>1, <2>2 DEF Dereference, RefInv, Pending
  <2>3. CASE ReadUnlock(r)
    BY <1>1, <2>3 DEF ReadUnlock, RefInv, Pending
  <2>4. QED
    BY <2>1, <2>2, <2>3 DEF ReaderStep
<1>5. QED
  BY <1>1, <1>2, <1>3, <1>4

\* Loading the old pointer: without overlap nobody else is about to publish.
LEMMA HeapLoad ==
  ASSUME TypeInv, RunInv, HeapInv, Quiet, ~overlap',
         NEW u \in Updaters, LoadOldPointer(u)
  PROVE  HeapInv'
<1> USE ThreadAssumption, ObjAssumption
    DEF TypeInv, TypeOK, Goto, Threads, Synchronizers, cpuVars,
        HeapInv, LoadOldPointer
<1>1. PICK obj \in Objs \ allocated : /\ allocated' = allocated \cup {obj}
                                      /\ newp' = [newp EXCEPT ![u] = obj]
  OBVIOUS
<1>2. \A v \in Updaters : pc[v] # "collect"
  OBVIOUS
<1>3. CollectInv'
  BY <1>1, <1>2 DEF CollectInv
<1>4. OwnerInv'
  BY <1>1, <1>2 DEF OwnerInv, Pending
<1>5. RefInv' /\ FreeInv'
  BY DEF RefInv, FreeInv, Pending
<1>6. QED
  BY <1>1, <1>3, <1>4, <1>5

\* Publishing: all who may use the old object are inside, and waited for.
LEMMA HeapCollect ==
  ASSUME TypeInv, RunInv, HeapInv, Quiet,
         NEW u \in Updaters, CollectOldPointer(u)
  PROVE  HeapInv'
<1> USE ThreadAssumption, ObjAssumption
    DEF TypeInv, TypeOK, Goto, SynchronizeBegin, Threads, Synchronizers,
        cpuVars, localVars, HeapInv, CollectOldPointer
<1>1. CollectInv'
  BY DEF CollectInv
<1>2. OwnerInv'
  BY DEF CollectInv, OwnerInv, Pending
<1>3. FreeInv'
  BY DEF FreeInv
<1>4. RefInv'
  <2> SUFFICES ASSUME NEW r \in Readers, ref[r] # NoObj
               PROVE  /\ pc'[r] = "use"
                      /\ \/ ref[r] = gp'
                         \/ \E v \in Updaters : /\ Pending(v)'
                                                /\ oldp[v] = ref[r]
                                                /\ r \in waiting'[v]
    BY DEF RefInv
  <2>1. pc[r] = "use" /\ pc'[r] = "use" /\ r \in Inside
    BY DEF RefInv, Inside
  <2>2. CASE ref[r] = gp
    BY <2>1, <2>2 DEF CollectInv, Pending
  <2>3. CASE \E v \in Updaters :
               Pending(v) /\ oldp[v] = ref[r] /\ r \in waiting[v]
    BY <2>1, <2>3 DEF Pending
  <2>4. QED
    BY <2>1, <2>2, <2>3 DEF RefInv
<1>5. QED
  BY <1>1, <1>2, <1>3, <1>4 DEF CollectInv

\* Freeing: the object has one owner, is unpublished, and nobody uses it.
LEMMA HeapKfree ==
  ASSUME TypeInv, RunInv, HeapInv, Quiet, NEW u \in Updaters, Kfree(u)
  PROVE  HeapInv'
<1> USE ThreadAssumption
    DEF TypeInv, TypeOK, Goto, Exit, Threads, Synchronizers, localVars,
        historyVars, HeapInv, Kfree
<1>1. ~oops' /\ gp' \in allocated'
  BY DEF OwnerInv, Pending
<1>2. CollectInv'
  BY DEF CollectInv, OwnerInv, Pending
<1>3. OwnerInv'
  BY DEF OwnerInv, Pending
<1>4. RefInv' /\ FreeInv'
  BY DEF RefInv, FreeInv, Pending
<1>5. QED
  BY <1>1, <1>2, <1>3, <1>4

\* The remaining steps of an updater move it along, and free nothing.
LEMMA HeapOther ==
  ASSUME TypeInv, RunInv, HeapInv, Quiet, NEW u \in Updaters,
         RunOn(u) \/ Visited(u) \/ ClearList(u) \/ CollectFull(u)
  PROVE  HeapInv'
<1> USE ThreadAssumption
    DEF TypeInv, TypeOK, Goto, Exit, Threads, Synchronizers, heapVars,
        cpuVars, localVars, historyVars, HeapInv
<1>1. /\ UNCHANGED <<gp, allocated, oops, oldp, newp, ref, waiting>>
      /\ \A t \in Threads \ {u} : pc'[t] = pc[t]
  BY DEF RunOn, SetAffinity, Visited, Advance, ClearList, CollectFull
<1>2. /\ pc'[u] # "collect"
      /\ pc'[u] \in {"sync", "visit", "clear", "free"} <=> Pending(u)
      /\ pc'[u] = "free" => pc[u] = "clear"
  BY DEF RunOn, SetAffinity, Visited, Advance, ClearList, CollectFull, Pending
<1>3. CollectInv' /\ OwnerInv'
  BY <1>1, <1>2 DEF CollectInv, OwnerInv, Pending
<1>4. FreeInv'
  BY <1>1, <1>2 DEF FreeInv, RunInv, WaitInv
<1>5. \A v \in Updaters : Pending(v)' <=> Pending(v)
  BY <1>1, <1>2 DEF Pending
<1>6. RefInv'
  BY <1>1, <1>5 DEF RefInv
<1>7. QED
  BY <1>1, <1>3, <1>4, <1>6

\* The heap invariant holds in every state.
LEMMA HeapInvariant == Spec => []HeapInv
<1>1. TypeInv /\ RunInv /\ HeapInv /\ [Next]_vars => HeapInv'
  <2> SUFFICES ASSUME TypeInv, RunInv, HeapInv, [Next]_vars, Quiet'
               PROVE  HeapInv'
    BY DEF HeapInv
  <2>1. Quiet /\ ~overlap'
    BY QuietBack DEF Quiet
  <2>2. CASE UNCHANGED vars
    BY <2>2 DEF vars, heapVars, localVars, historyVars, Quiet, NoCallers,
                HeapInv, CollectInv, OwnerInv, Pending, RefInv, FreeInv
  <2>3. ASSUME NEW t \in Threads, Schedule(t)
        PROVE  HeapInv'
    BY <2>3 DEF Schedule, Place, heapVars, localVars, historyVars, Quiet,
                NoCallers, HeapInv, CollectInv, OwnerInv, Pending, RefInv,
                 FreeInv
  <2>4. ASSUME NEW c \in Callers, CallerStep(c)
        PROVE  FALSE
    BY <2>1, <2>4 DEF Quiet, NoCallers, CallerStep, CallLrcu, RunOn,
                      SetAffinity, Visited, Advance, Callback
  <2>5. CASE Next
    BY <2>1, <2>2, <2>3, <2>4, <2>5, HeapReader, HeapLoad, HeapCollect,
       HeapKfree, HeapOther
       DEF Next, Stopped, Step, UpdaterStep, Threads, Synchronizers
  <2>6. QED
    BY <2>2, <2>5
<1>2. QED
  BY <1>1, HeapInit, RunInvariant, PTL DEF Spec

\* As long as no two updates overlap and call_lrcu() is not used, no reader uses
\* what kfree() has been given: for any number of updaters that share the list,
\* and whatever the list held at first.
THEOREM MemorySafe == Spec => []ReadersSafe
<1>1. TypeInv /\ HeapInv => ReadersSafe
  BY DEF HeapInv, Quiet, ReadersSafe, RefInv, OwnerInv
<1>2. QED
  BY <1>1, HeapInvariant, RunInvariant, PTL

\* Under the same condition kfree() is given every object once only.
THEOREM NothingFreedTwice == Spec => []FreedOnce
<1>1. HeapInv => FreedOnce
  BY DEF HeapInv, Quiet, FreedOnce
<1>2. QED
  BY <1>1, HeapInvariant, PTL
=============================================================================
