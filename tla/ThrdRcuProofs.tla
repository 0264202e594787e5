--------------------------- MODULE ThrdRcuProofs ---------------------------
(***************************************************************************)
(* Proofs about ThrdRcu for any number of readers, updaters, updates and   *)
(* rounds, and for store buffers of any size.                              *)
(***************************************************************************)
EXTENDS ThrdRcu, SequenceTheorems, TLAPS

ReaderLabels  == {"init", "lock", "mark", "deref", "use", "clear", "exit",
                  "segv", "done"}
UpdaterLabels == {"assign", "sync", "scan", "free", "done"}

\* Readers run reader code and updaters run updater code.
PcOK ==
  /\ \A r \in Readers  : pc[r] \in ReaderLabels
  /\ \A u \in Updaters : pc[u] \in UpdaterLabels

\* Exactly the updater that scans holds sp.
SpHeldByScanner == \A u \in Updaters : pc[u] = "scan" <=> sp = u

Listed(r, from) == \E i \in 1..Len(list) : i >= from /\ list[i] = r

\* A registered reader has its node in the list, and only registered readers
\* get past rcu_read_lock().
RegisteredListed ==
  /\ \A r \in registered : Listed(r, 1)
  /\ \A r \in Inside \cup {q \in Readers : pc[q] = "mark"} : r \in registered

\* Why the scan cannot miss a reader it has seen: that reader is still
\* marked in the slot in use, with no store pending that could clear the
\* mark, and its node is not behind the scan.
SeenAhead ==
  \A u \in Updaters : pc[u] = "scan" =>
    \A r \in seen[u] : r \in Marked /\ Listed(r, pos[u])

IndInv ==
  /\ TypeOK
  /\ PcOK
  /\ SpHeldByScanner
  /\ RegisteredListed
  /\ SeenAhead
  /\ VisibleReadersWaited

\* The objects in use: the current one and those waiting to be freed, each of
\* which belongs to the one updater that is between exchange and free().
HeapInv ==
  /\ OwnershipUnique
  /\ allocated = {foo} \cup ({oldp[u] : u \in Updaters} \ {NoObj})
  /\ \A u \in Updaters : oldp[u] # NoObj <=> pc[u] \in {"sync", "scan", "free"}
-----------------------------------------------------------------------------
(* Type correctness *)

\* The initial states have their types.
LEMMA TypeInit == Init => TypeOK
  BY ThreadAssumption DEF Init, TypeOK, Slots

\* A nesting store keeps the types of memory and store buffer.
LEMMA StoreType ==
  ASSUME TypeOK, NEW r \in Readers, NEW slot \in Slots, NEW val \in Slots,
         Store(r, slot, val)
  PROVE  /\ nesting' \in [Readers -> [Slots -> Slots]]
         /\ storeBuf' \in [Readers -> Seq([slot : Slots, val : Slots])]
<1> DEFINE st == [slot |-> slot, val |-> val]
<1>1. CASE StoreBufferSize = 0
  <2>1. [nesting[r] EXCEPT ![slot] = val] \in [Slots -> Slots]
    BY val \in Slots DEF TypeOK
  <2>2. nesting' = [nesting EXCEPT ![r] = [nesting[r] EXCEPT ![slot] = val]]
    BY <1>1 DEF Store
  <2>3. QED
    BY <1>1, <2>1, <2>2 DEF Store, TypeOK
<1>2. CASE StoreBufferSize # 0
  <2>1. st \in [slot : Slots, val : Slots]
    OBVIOUS
  <2>2. storeBuf[r] \in Seq([slot : Slots, val : Slots])
    BY DEF TypeOK
  <2> HIDE DEF st
  <2>3. Append(storeBuf[r], st) \in Seq([slot : Slots, val : Slots])
    BY <2>1, <2>2
  <2> USE DEF st
  <2>4. QED
    BY <1>2, <2>3 DEF Store, TypeOK
<1>3. QED
  BY <1>1, <1>2

\* It touches nothing of other readers.
LEMMA StoreFrame ==
  ASSUME TypeOK, NEW r \in Readers, NEW slot, NEW val, Store(r, slot, val)
  PROVE  \A q \in Readers : q # r => /\ nesting'[q] = nesting[q]
                                     /\ storeBuf'[q] = storeBuf[q]
<1>1. CASE StoreBufferSize = 0
  BY <1>1 DEF Store, TypeOK
<1>2. CASE StoreBufferSize # 0
  BY <1>2 DEF Store, TypeOK
<1>3. QED
  BY <1>1, <1>2

\* One reader step keeps the types.
LEMMA TypeReader ==
  ASSUME TypeOK, NEW r \in Readers, ReaderStep(r) \/ Drain(r)
  PROVE  TypeOK'
<1> USE ThreadAssumption DEF TypeOK, Slots, Goto, heap, rcuData, reader,
        updater, history
<1>1. CASE RcuInitAdded(r)
  BY <1>1 DEF RcuInitAdded
<1>2. CASE RcuInitDuplicate(r)
  BY <1>2 DEF RcuInitDuplicate
<1>3. CASE LockFault(r)
  BY <1>3 DEF LockFault
<1>4. CASE ReadLockIdx(r)
  BY <1>4 DEF ReadLockIdx
<1>5. CASE Mark(r)
  BY <1>5, StoreType, lidx[r] \in Slots, 1 \in Slots DEF Mark
<1>6. CASE Dereference(r)
  BY <1>6 DEF Dereference
<1>7. CASE ReadUnlockIdx(r)
  BY <1>7 DEF ReadUnlockIdx
<1>8. CASE Clear(r)
  <2>1. /\ nesting' \in [Readers -> [Slots -> Slots]]
        /\ storeBuf' \in [Readers -> Seq([slot : Slots, val : Slots])]
    BY <1>8, StoreType, lidx[r] \in Slots, 0 \in Slots DEF Clear
  <2>2. /\ sections' \in [Readers -> Nat]
        /\ pc' \in [Readers \cup Updaters ->
                      {"init", "lock", "mark", "deref", "use", "clear", "exit",
                       "segv", "assign", "sync", "scan", "free", "done"}]
    BY <1>8 DEF Clear
  <2>3. QED
    BY <1>8, <2>1, <2>2 DEF Clear
<1>9. CASE ThreadExit(r)
  BY <1>9 DEF ThreadExit
<1>10. CASE Drain(r)
  <2> DEFINE st == Head(storeBuf[r])
  <2>1. /\ st \in [slot : Slots, val : Slots]
        /\ Tail(storeBuf[r]) \in Seq([slot : Slots, val : Slots])
    <3>1. /\ storeBuf[r] \in Seq([slot : Slots, val : Slots])
          /\ storeBuf[r] # <<>>
      BY <1>10 DEF Drain
    <3> HIDE DEF Slots
    <3>2. QED
      BY <3>1, HeadTailProperties
  <2>2. [nesting[r] EXCEPT ![st.slot] = st.val] \in [Slots -> Slots]
    BY <2>1
  <2>3. nesting' =
          [nesting EXCEPT ![r] = [nesting[r] EXCEPT ![st.slot] = st.val]]
    BY <1>10 DEF Drain
  <2>4. nesting' \in [Readers -> [Slots -> Slots]]
    BY <2>2, <2>3
  <2>5. storeBuf' \in [Readers -> Seq([slot : Slots, val : Slots])]
    BY <2>1, <1>10 DEF Drain
  <2>6. QED
    BY <2>4, <2>5, <1>10 DEF Drain
<1> QED
  BY <1>1, <1>2, <1>3, <1>4, <1>5, <1>6, <1>7, <1>8, <1>9, <1>10
  DEF ReaderStep

\* One updater step keeps the types.
LEMMA TypeUpdater ==
  ASSUME TypeOK, NEW u \in Updaters, UpdaterStep(u)
  PROVE  TypeOK'
<1> USE ThreadAssumption DEF TypeOK, Slots, Goto, heap, rcuData, reader,
        updater, history
<1>1. CASE AssignPointer(u)
  BY <1>1 DEF AssignPointer, Inside
<1>2. CASE SyncLock(u)
  <2>1. Marked \subseteq Readers
    BY DEF Marked, Inside
  <2>2. QED
    BY <1>2, <2>1 DEF SyncLock, StartScan
<1>3. CASE ScanNode(u)
  <2>1. pos' \in [Updaters -> Nat \ {0}]
    BY <1>3 DEF ScanNode
  <2>2. QED
    BY <1>3, <2>1 DEF ScanNode
<1>4. CASE AdvanceIdx(u)
  BY <1>4 DEF AdvanceIdx, EndScan
<1>5. CASE FreeOld(u)
  BY <1>5 DEF FreeOld, Free
<1> QED
  BY <1>1, <1>2, <1>3, <1>4, <1>5 DEF UpdaterStep

\* Every step keeps the types.
LEMMA TypeStep == TypeOK /\ [Next]_vars => TypeOK'
<1> SUFFICES ASSUME TypeOK, [Next]_vars PROVE TypeOK'
  OBVIOUS
<1>1. CASE NextBenchmark
  <2>1. PICK obj \in Objs \ (allocated \ {foo}) :
          /\ foo' = obj
          /\ allocated' = (allocated \ {foo}) \cup {obj}
    BY <1>1 DEF NextBenchmark, NewRound
  <2>2. foo' \in Objs /\ allocated' \subseteq Objs
    BY <2>1 DEF TypeOK
  <2>3. /\ list' \in Seq(Readers)
        /\ registered' \subseteq Readers
        /\ sections' \in [Readers -> Nat]
        /\ updates' \in [Updaters -> Nat]
        /\ round' \in Nat \ {0}
    BY <1>1 DEF NextBenchmark, NewRound, TypeOK
  <2>4. pc' \in [Readers \cup Updaters ->
                   {"init", "lock", "mark", "deref", "use", "clear", "exit",
                    "segv", "assign", "sync", "scan", "free", "done"}]
    BY <1>1 DEF NextBenchmark, NewRound
  <2>5. QED
    BY <1>1, <2>2, <2>3, <2>4
    DEF NextBenchmark, NewRound, TypeOK, history
<1>2. CASE UNCHANGED vars
  BY <1>2 DEF vars, TypeOK, heap, rcuData, reader, updater, history
<1> QED
  BY <1>1, <1>2, TypeReader, TypeUpdater DEF Next, Stopped
-----------------------------------------------------------------------------
(* The grace period waits for every reader it could see *)

\* At first nobody is registered and nobody scans.
LEMMA IndInvInit == Init => IndInv
<1> SUFFICES ASSUME Init PROVE IndInv
  OBVIOUS
<1>1. TypeOK
  BY TypeInit
<1>2. PcOK
  BY ThreadAssumption DEF Init, PcOK, ReaderLabels, UpdaterLabels
<1>3. \A t \in Readers \cup Updaters : pc[t] \in {"init", "assign"}
  BY DEF Init
<1>4. SpHeldByScanner
  BY <1>3, ThreadAssumption DEF Init, SpHeldByScanner
<1>5. RegisteredListed
  BY <1>3 DEF Init, RegisteredListed, Inside
<1>6. SeenAhead /\ VisibleReadersWaited
  BY <1>3 DEF SeenAhead, VisibleReadersWaited
<1>7. QED
  BY <1>1, <1>2, <1>4, <1>5, <1>6 DEF IndInv

\* The steps of a reader that leave the list, the slot in use, sp and the
\* updaters alone.  SeenAhead is theirs to break: a seen reader must not be
\* able to clear its mark without leaving its section first.
LEMMA IndInvSection ==
  ASSUME IndInv, TypeOK', NEW r \in Readers,
         \/ RcuInitDuplicate(r) \/ LockFault(r) \/ ReadLockIdx(r) \/ Mark(r)
         \/ Dereference(r) \/ ReadUnlockIdx(r) \/ Clear(r) \/ ThreadExit(r)
         \/ Drain(r)
  PROVE  IndInv'
<1> USE ThreadAssumption DEF Goto, heap, rcuData, reader, updater, history
<1> DEFINE Acts ==
      \/ RcuInitDuplicate(r) \/ LockFault(r) \/ ReadLockIdx(r) \/ Mark(r)
      \/ Dereference(r) \/ ReadUnlockIdx(r) \/ Clear(r) \/ ThreadExit(r)
      \/ Drain(r)
<1>1. /\ list' = list /\ idx' = idx /\ sp' = sp /\ pos' = pos
      /\ \A t \in Readers \cup Updaters : t # r => pc'[t] = pc[t]
      /\ \A q \in Readers : q # r => /\ nesting'[q] = nesting[q]
                                     /\ storeBuf'[q] = storeBuf[q]
      /\ registered' \subseteq registered
      /\ \A q \in Readers : q # r /\ q \in registered => q \in registered'
      /\ \A u \in Updaters : seen'[u] \subseteq seen[u]
  <2> USE DEF IndInv, TypeOK
  <2>1. CASE RcuInitDuplicate(r) \/ LockFault(r) \/ ReadLockIdx(r)
    BY <2>1 DEF RcuInitDuplicate, LockFault, ReadLockIdx
  <2>2. CASE Mark(r) \/ Clear(r)
    <3>1. /\ list' = list /\ idx' = idx /\ sp' = sp /\ pos' = pos
          /\ registered' = registered /\ seen' = seen
          /\ \A t \in Readers \cup Updaters : t # r => pc'[t] = pc[t]
      BY <2>2 DEF Mark, Clear
    <3>2. \A q \in Readers : q # r => /\ nesting'[q] = nesting[q]
                                      /\ storeBuf'[q] = storeBuf[q]
      BY <2>2, StoreFrame DEF Mark, Clear
    <3>3. QED
      BY <3>1, <3>2
  <2>3. CASE Dereference(r) \/ ReadUnlockIdx(r) \/ ThreadExit(r)
    BY <2>3 DEF Dereference, ReadUnlockIdx, ThreadExit
  <2>4. CASE Drain(r)
    BY <2>4 DEF Drain
  <2>5. QED
    BY <2>1, <2>2, <2>3, <2>4
<1>2. \A u \in Updaters : pc'[u] = pc[u]
  BY <1>1
<1>3. PcOK'
  <2>1. pc'[r] \in ReaderLabels
    BY DEF IndInv, TypeOK, PcOK, ReaderLabels, RcuInitDuplicate, LockFault,
       ReadLockIdx, Mark, Clear, Dereference, ReadUnlockIdx, ThreadExit, Drain
  <2>2. QED
    BY <1>1, <1>2, <2>1 DEF IndInv, PcOK
<1>4. SpHeldByScanner'
  BY <1>1, <1>2 DEF IndInv, SpHeldByScanner
<1>5. RegisteredListed'
  <2>1. \A q \in registered' : Listed(q, 1)'
    BY <1>1 DEF IndInv, RegisteredListed, Listed
  <2>2. pc'[r] \in {"mark", "deref", "use"} => r \in registered'
    BY DEF IndInv, TypeOK, RegisteredListed, Inside, RcuInitDuplicate,
       LockFault, ReadLockIdx, Mark, Clear, Dereference, ReadUnlockIdx,
       ThreadExit, Drain
  <2>3. QED
    BY <1>1, <2>1, <2>2 DEF IndInv, RegisteredListed, Inside
<1>6. SeenAhead'
  <2> SUFFICES ASSUME NEW u \in Updaters, pc'[u] = "scan", NEW q \in seen'[u]
               PROVE  q \in Marked' /\ Listed(q, pos[u])'
    BY DEF SeenAhead
  <2>1. q \in seen[u] /\ q \in Marked /\ Listed(q, pos[u])
    BY <1>1, <1>2 DEF IndInv, SeenAhead
  <2>2. Listed(q, pos[u])'
    BY <1>1, <2>1 DEF Listed
  <2>3. CASE q # r
    BY <1>1, <2>1, <2>2, <2>3 DEF Marked, Inside
  <2>4. CASE q = r
    <3>1. /\ pc[r] \in {"deref", "use"}
          /\ nesting[r][idx] = 1
          /\ storeBuf[r] = <<>>
      BY <2>1, <2>4 DEF Marked, Inside
    <3>2. r \in seen'[u]
      BY <2>4
    <3>3. Dereference(r)
      <4>1. ~ RcuInitDuplicate(r) /\ ~ LockFault(r) /\ ~ ReadLockIdx(r)
        BY <3>1 DEF RcuInitDuplicate, LockFault, ReadLockIdx
      <4>2. ~ Mark(r) /\ ~ Clear(r) /\ ~ ThreadExit(r) /\ ~ Drain(r)
        BY <3>1 DEF Mark, Clear, ThreadExit, Drain
      <4>3. ~ ReadUnlockIdx(r)
        BY <3>1, <3>2 DEF ReadUnlockIdx, IndInv, TypeOK
      <4>4. QED
        BY <4>1, <4>2, <4>3
    <3>4. QED
      BY <1>1, <2>1, <2>2, <2>4, <3>1, <3>3
      DEF Dereference, Marked, Inside, IndInv, TypeOK
  <2>5. QED
    BY <2>3, <2>4
<1>7. VisibleReadersWaited'
  BY <1>1, <1>2 DEF IndInv, VisibleReadersWaited
<1>8. QED
  BY <1>3, <1>4, <1>5, <1>6, <1>7 DEF IndInv

\* Registering grows the list, which no scan is reading.
LEMMA IndInvRegister ==
  ASSUME IndInv, TypeOK', NEW r \in Readers, RcuInitAdded(r)
  PROVE  IndInv'
<1> USE ThreadAssumption DEF Goto, heap, updater, history
<1>1. /\ list' = Append(list, r)
      /\ sp' = sp /\ sp = NoThread /\ seen' = seen
      /\ registered' = registered \cup {r}
      /\ pc'[r] = "lock"
      /\ \A t \in Readers \cup Updaters : t # r => pc'[t] = pc[t]
  BY DEF RcuInitAdded, IndInv, TypeOK
<1>2. \A u \in Updaters : pc'[u] = pc[u] /\ pc[u] # "scan"
  BY <1>1 DEF IndInv, SpHeldByScanner
<1>3. PcOK'
  BY <1>1, <1>2 DEF IndInv, PcOK, ReaderLabels
<1>4. SpHeldByScanner'
  BY <1>1, <1>2 DEF IndInv, SpHeldByScanner
<1>5. RegisteredListed'
  <2>1. /\ list \in Seq(Readers)
        /\ Len(list') = Len(list) + 1
        /\ list'[Len(list) + 1] = r
        /\ \A i \in 1..Len(list) : list'[i] = list[i]
    BY <1>1, AppendProperties DEF IndInv, TypeOK
  <2>2. Len(list) \in Nat
    BY <2>1, LenProperties
  <2>3. Listed(r, 1)'
    BY <2>1, <2>2 DEF Listed
  <2>4. \A q \in registered : Listed(q, 1)'
    BY <2>1, <2>2 DEF IndInv, RegisteredListed, Listed
  <2>5. QED
    BY <1>1, <2>3, <2>4 DEF IndInv, RegisteredListed, Inside
<1>6. SeenAhead' /\ VisibleReadersWaited'
  BY <1>1, <1>2 DEF IndInv, SeenAhead, VisibleReadersWaited
<1>7. QED
  BY <1>3, <1>4, <1>5, <1>6 DEF IndInv

\* The steps of an updater: taking sp starts a scan with all of the list ahead,
\* each node passed was clear, and the end leaves nobody seen behind.
LEMMA IndInvUpdater ==
  ASSUME IndInv, TypeOK', NEW u \in Updaters, UpdaterStep(u)
  PROVE  IndInv'
<1> USE ThreadAssumption DEF Goto, heap, rcuData, reader, updater, history
<1>1. /\ list' = list /\ registered' = registered
      /\ nesting' = nesting /\ storeBuf' = storeBuf
      /\ \A t \in Readers \cup Updaters : t # u => pc'[t] = pc[t]
      /\ \A v \in Updaters : v # u => seen'[v] = seen[v] /\ pos'[v] = pos[v]
  BY DEF IndInv, TypeOK, UpdaterStep, AssignPointer, SyncLock, StartScan,
     ScanNode, AdvanceIdx, EndScan, FreeOld, Free
<1>2. \A r \in Readers : pc'[r] = pc[r]
  BY <1>1
<1>3. Inside' = Inside /\ RegisteredListed'
  BY <1>1, <1>2 DEF IndInv, RegisteredListed, Inside, Listed
<1>4. PcOK'
  <2>1. pc'[u] \in UpdaterLabels
    BY DEF IndInv, TypeOK, PcOK, UpdaterLabels, UpdaterStep, AssignPointer,
       SyncLock, StartScan, ScanNode, AdvanceIdx, EndScan, FreeOld, Free
  <2>2. QED
    BY <1>1, <1>2, <2>1 DEF IndInv, PcOK
<1>5. SpHeldByScanner'
  BY <1>1 DEF IndInv, TypeOK, SpHeldByScanner, UpdaterStep, AssignPointer,
     SyncLock, StartScan, ScanNode, AdvanceIdx, EndScan, FreeOld, Free
<1>6. SeenAhead'
  <2> SUFFICES ASSUME NEW v \in Updaters, pc'[v] = "scan", NEW r \in seen'[v]
               PROVE  r \in Marked' /\ Listed(r, pos[v])'
    BY DEF SeenAhead
  <2>1. CASE v # u
    \* v scans, so u is in a step that needs no sp, and the slot stays.
    <3>1. pc[v] = "scan" /\ sp = v
      BY <1>1, <2>1 DEF IndInv, SpHeldByScanner
    <3>2. idx' = idx
      BY <2>1, <3>1 DEF IndInv, SpHeldByScanner, UpdaterStep, AssignPointer,
         SyncLock, StartScan, ScanNode, AdvanceIdx, EndScan, FreeOld, Free
    <3>3. r \in Marked /\ Listed(r, pos[v])
      BY <1>1, <2>1, <3>1 DEF IndInv, SeenAhead
    <3>4. QED
      BY <1>1, <1>3, <2>1, <3>2, <3>3 DEF Marked, Listed
  <2>2. CASE v = u /\ SyncLock(u)
    <3>1. /\ seen'[u] = Marked /\ pos'[u] = 1 /\ idx' = idx
      BY <2>2 DEF SyncLock, StartScan, IndInv, TypeOK
    <3>2. r \in Marked'
      BY <1>1, <1>3, <2>2, <3>1 DEF Marked
    <3>3. Listed(r, 1)
      BY <2>2, <3>1 DEF Marked, IndInv, RegisteredListed
    <3>4. QED
      BY <1>1, <2>2, <3>1, <3>2, <3>3 DEF Listed
  <2>3. CASE v = u /\ ScanNode(u)
    \* The node passed is clear, so it is not the node of a seen reader.
    <3>1. /\ pc[u] = "scan" /\ pos[u] <= Len(list)
          /\ nesting[list[pos[u]]][idx] = 0
          /\ pos'[u] = pos[u] + 1 /\ seen'[u] = seen[u] /\ idx' = idx
      BY <2>3 DEF ScanNode, IndInv, TypeOK
    <3>2. r \in Marked /\ Listed(r, pos[u])
      BY <2>3, <3>1 DEF IndInv, SeenAhead
    <3>3. r \in Marked'
      BY <1>1, <1>3, <3>1, <3>2 DEF Marked
    <3>4. PICK i \in 1..Len(list) : i >= pos[u] /\ list[i] = r
      BY <3>2 DEF Listed
    <3>5. i # pos[u]
      BY <3>1, <3>2, <3>4 DEF Marked
    <3>6. pos[u] \in Nat /\ Len(list) \in Nat
      BY LenProperties DEF IndInv, TypeOK
    <3>7. i >= pos'[u]
      BY <3>1, <3>4, <3>5, <3>6
    <3>8. QED
      BY <1>1, <2>3, <3>3, <3>4, <3>7 DEF Listed
  <2>4. CASE v = u /\ ~SyncLock(u) /\ ~ScanNode(u)
    BY <2>4 DEF IndInv, TypeOK, UpdaterStep, AssignPointer, AdvanceIdx,
       EndScan, FreeOld, Free
  <2>5. QED
    BY <2>1, <2>2, <2>3, <2>4
<1>7. VisibleReadersWaited'
  <2> SUFFICES ASSUME NEW v \in Updaters, pc'[v] = "free" PROVE seen'[v] = {}
    BY DEF VisibleReadersWaited
  <2>1. CASE v # u
    BY <1>1, <2>1 DEF IndInv, VisibleReadersWaited
  <2>2. CASE v = u
    <3>1. AdvanceIdx(u)
      BY <2>2 DEF IndInv, TypeOK, UpdaterStep, AssignPointer, SyncLock,
         StartScan, ScanNode, FreeOld, Free
    <3>2. pc[u] = "scan" /\ pos[u] > Len(list) /\ seen'[u] = seen[u]
      BY <3>1 DEF AdvanceIdx, EndScan
    <3>3. pos[u] \in Nat /\ Len(list) \in Nat
      BY LenProperties DEF IndInv, TypeOK
    <3>4. \A r \in seen[u] : Listed(r, pos[u])
      BY <3>2 DEF IndInv, SeenAhead
    <3>5. QED
      BY <2>2, <3>2, <3>3, <3>4 DEF Listed
  <2>3. QED
    BY <2>1, <2>2
<1>8. QED
  BY <1>3, <1>4, <1>5, <1>6, <1>7 DEF IndInv

\* Between two rounds nobody is inside and nobody scans.
LEMMA IndInvRound ==
  ASSUME IndInv, TypeOK', NextBenchmark
  PROVE  IndInv'
<1> USE ThreadAssumption DEF NextBenchmark, NewRound, RoundOver, history
<1>1. /\ \A r \in Readers : pc'[r] = "init"
      /\ \A u \in Updaters : pc'[u] = "assign" /\ pc[u] = "done"
      /\ sp' = sp
  BY DEF IndInv, TypeOK
<1>2. PcOK'
  BY <1>1 DEF PcOK, ReaderLabels, UpdaterLabels
<1>3. SpHeldByScanner'
  BY <1>1 DEF IndInv, SpHeldByScanner
<1>4. RegisteredListed'
  BY <1>1 DEF RegisteredListed, Inside
<1>5. SeenAhead' /\ VisibleReadersWaited'
  BY <1>1 DEF SeenAhead, VisibleReadersWaited
<1>6. QED
  BY <1>2, <1>3, <1>4, <1>5 DEF IndInv

\* Every step keeps the invariant.
LEMMA IndInvStep == IndInv /\ [Next]_vars => IndInv'
<1> SUFFICES ASSUME IndInv, [Next]_vars PROVE IndInv'
  OBVIOUS
<1>1. TypeOK'
  BY TypeStep DEF IndInv
<1>2. ASSUME NEW r \in Readers, ReaderStep(r) \/ Drain(r) PROVE IndInv'
  BY <1>1, <1>2, IndInvSection, IndInvRegister DEF ReaderStep
<1>3. ASSUME NEW u \in Updaters, UpdaterStep(u) PROVE IndInv'
  BY <1>1, <1>3, IndInvUpdater
<1>4. CASE NextBenchmark
  BY <1>1, <1>4, IndInvRound
<1>5. CASE UNCHANGED vars
  <2>1. /\ list' = list /\ nesting' = nesting /\ idx' = idx /\ sp' = sp
        /\ storeBuf' = storeBuf /\ registered' = registered /\ pc' = pc
        /\ pos' = pos /\ seen' = seen
    BY <1>5 DEF vars, rcuData, reader, updater, history
  <2>2. PcOK' /\ SpHeldByScanner' /\ VisibleReadersWaited'
    BY <2>1 DEF IndInv, PcOK, SpHeldByScanner, VisibleReadersWaited
  <2>3. RegisteredListed'
    BY <2>1 DEF IndInv, RegisteredListed, Listed, Inside
  <2>4. SeenAhead'
    BY <2>1 DEF IndInv, SeenAhead, Listed, Marked, Inside
  <2>5. QED
    BY <1>1, <2>2, <2>3, <2>4 DEF IndInv
<1>6. QED
  BY <1>2, <1>3, <1>4, <1>5 DEF Next, Stopped

\* Every variable keeps its type, whatever the threads do.
THEOREM TypeCorrect == Spec => []TypeOK
<1>1. Init => TypeOK
  BY TypeInit
<1>2. TypeOK /\ [Next]_vars => TypeOK'
  BY TypeStep
<1>3. QED
  BY <1>1, <1>2, PTL DEF Spec

\* synchronize_rcu() never returns while a reader whose mark was in memory, in
\* the slot in use, when the updater took sp is still in the same section:
\* with several updaters, any number of grace periods and a relaxed memory.
THEOREM GracePeriodWaits == Spec => []VisibleReadersWaited
<1>1. Init => IndInv
  BY IndInvInit
<1>2. IndInv /\ [Next]_vars => IndInv'
  BY IndInvStep
<1>3. IndInv => VisibleReadersWaited
  BY DEF IndInv
<1>4. QED
  BY <1>1, <1>2, <1>3, PTL DEF Spec
-----------------------------------------------------------------------------
(* Every object has exactly one owner *)

\* At first the one object is foo's, and no updater owns any.
LEMMA HeapInvInit == Init => HeapInv
<1> SUFFICES ASSUME Init PROVE HeapInv
  OBVIOUS
<1>1. /\ foo \in Objs /\ allocated = {foo} /\ foo # NoObj
      /\ \A u \in Updaters : oldp[u] = NoObj /\ pc[u] = "assign"
  BY ThreadAssumption DEF Init
<1>2. QED
  BY <1>1 DEF HeapInv, OwnershipUnique

\* Steps that touch neither the heap nor an updater's way from exchange to
\* free() keep the invariant.
LEMMA HeapInvFrame ==
  ASSUME HeapInv, foo' = foo, allocated' = allocated, oldp' = oldp,
         \A u \in Updaters : pc'[u] \in {"sync", "scan", "free"}
                               <=> pc[u] \in {"sync", "scan", "free"}
  PROVE  HeapInv'
BY DEF HeapInv, OwnershipUnique

\* The exchange hands foo's object to one updater, free() takes it away.
LEMMA HeapInvUpdater ==
  ASSUME HeapInv, TypeOK, NEW u \in Updaters, UpdaterStep(u)
  PROVE  HeapInv'
<1> USE ThreadAssumption DEF Goto, heap, rcuData, reader, updater, history
<1>1. CASE AssignPointer(u)
  <2>1. PICK newval \in Objs \ allocated :
          /\ allocated' = allocated \cup {newval}
          /\ foo' = newval
    BY <1>1 DEF AssignPointer
  <2>2. /\ oldp' = [oldp EXCEPT ![u] = foo]
        /\ pc' = [pc EXCEPT ![u] = "sync"]
        /\ oldp[u] = NoObj
    BY <1>1 DEF AssignPointer, HeapInv
  <2>3. /\ oldp'[u] = foo /\ pc'[u] = "sync"
        /\ \A v \in Updaters : v # u => oldp'[v] = oldp[v] /\ pc'[v] = pc[v]
    BY <2>2 DEF TypeOK
  <2>4. foo \in allocated /\ newval \notin allocated /\ foo # NoObj
    BY <2>1 DEF HeapInv, OwnershipUnique, TypeOK
  <2>5. OwnershipUnique'
    BY <2>1, <2>3, <2>4 DEF HeapInv, OwnershipUnique
  <2>6. {oldp'[v] : v \in Updaters} \ {NoObj}
          = {foo} \cup ({oldp[v] : v \in Updaters} \ {NoObj})
    BY <2>2, <2>3, <2>4
  <2>7. QED
    BY <2>1, <2>3, <2>4, <2>5, <2>6 DEF HeapInv
<1>2. CASE FreeOld(u)
  <2>1. /\ allocated' = allocated \ {oldp[u]} /\ foo' = foo
        /\ oldp'[u] = NoObj /\ pc'[u] \in {"assign", "done"}
        /\ oldp[u] # NoObj
        /\ \A v \in Updaters : v # u => oldp'[v] = oldp[v] /\ pc'[v] = pc[v]
    BY <1>2 DEF FreeOld, Free, TypeOK, HeapInv
  <2>2. OwnershipUnique'
    BY <2>1 DEF HeapInv, OwnershipUnique
  <2>3. {oldp'[v] : v \in Updaters} \ {NoObj}
          = ({oldp[v] : v \in Updaters} \ {NoObj}) \ {oldp[u]}
    BY <2>1 DEF HeapInv, OwnershipUnique
  <2>4. foo # oldp[u]
    BY <2>1 DEF HeapInv, OwnershipUnique
  <2>5. QED
    BY <2>1, <2>2, <2>3, <2>4 DEF HeapInv
<1>3. CASE SyncLock(u) \/ ScanNode(u) \/ AdvanceIdx(u)
  <2>1. /\ foo' = foo /\ allocated' = allocated /\ oldp' = oldp
        /\ pc[u] \in {"sync", "scan"} /\ pc'[u] \in {"scan", "free"}
        /\ \A v \in Updaters : v # u => pc'[v] = pc[v]
    BY <1>3 DEF SyncLock, StartScan, ScanNode, AdvanceIdx, EndScan, TypeOK
  <2>2. QED
    BY <2>1, HeapInvFrame
<1>4. QED
  BY <1>1, <1>2, <1>3 DEF UpdaterStep

\* Every step keeps the invariant.
LEMMA HeapInvStep == HeapInv /\ TypeOK /\ [Next]_vars => HeapInv'
<1> SUFFICES ASSUME HeapInv, TypeOK, [Next]_vars PROVE HeapInv'
  OBVIOUS
<1> USE ThreadAssumption DEF heap, rcuData, reader, updater, history
<1>1. ASSUME NEW r \in Readers, ReaderStep(r) \/ Drain(r) PROVE HeapInv'
  <2>1. foo' = foo /\ allocated' = allocated /\ oldp' = oldp
    BY <1>1 DEF ReaderStep, RcuInitAdded, RcuInitDuplicate, LockFault,
       ReadLockIdx, Mark, Dereference, ReadUnlockIdx, Clear, ThreadExit, Drain
  <2>2. \A u \in Updaters : pc'[u] = pc[u]
    BY <1>1 DEF ReaderStep, RcuInitAdded, RcuInitDuplicate, LockFault,
       ReadLockIdx, Mark, Dereference, ReadUnlockIdx, Clear, ThreadExit, Drain,
       Goto, TypeOK
  <2>3. QED
    BY <2>1, <2>2, HeapInvFrame
<1>2. ASSUME NEW u \in Updaters, UpdaterStep(u) PROVE HeapInv'
  BY <1>2, HeapInvUpdater
<1>3. CASE NextBenchmark
  <2>1. PICK obj \in Objs \ (allocated \ {foo}) :
          /\ foo' = obj
          /\ allocated' = (allocated \ {foo}) \cup {obj}
    BY <1>3 DEF NextBenchmark, NewRound
  <2>2. \A u \in Updaters : pc[u] = "done" /\ pc'[u] = "assign"
    BY <1>3 DEF NextBenchmark, NewRound, RoundOver
  <2>3. oldp' = oldp /\ \A u \in Updaters : oldp[u] = NoObj
    BY <1>3, <2>2 DEF NextBenchmark, NewRound, HeapInv
  <2>4. allocated = {foo}
    BY <2>3 DEF HeapInv
  <2>5. QED
    BY <2>1, <2>2, <2>3, <2>4 DEF HeapInv, OwnershipUnique
<1>4. CASE UNCHANGED vars
  BY <1>4, HeapInvFrame DEF vars
<1>5. QED
  BY <1>1, <1>2, <1>3, <1>4 DEF Next, Stopped

\* The heap is in order in every reachable state.
LEMMA HeapInvariant == Spec => [](HeapInv /\ TypeOK)
<1>1. Init => HeapInv /\ TypeOK
  BY HeapInvInit, TypeInit
<1>2. (HeapInv /\ TypeOK) /\ [Next]_vars => (HeapInv /\ TypeOK)'
  BY HeapInvStep, TypeStep
<1>3. QED
  BY <1>1, <1>2, PTL DEF Spec

\* Each replaced object is handed to exactly one updater by the exchange of
\* rcu_assign_pointer and freed once, however many updaters run.
THEOREM OneOwner == Spec => []OwnershipUnique
<1>1. HeapInv => OwnershipUnique
  BY DEF HeapInv
<1>2. QED
  BY <1>1, HeapInvariant, PTL

\* When a round is over nothing but the current object is left.
THEOREM NothingLost == Spec => []NoLeak
<1>1. HeapInv => NoLeak
  <2> SUFFICES ASSUME HeapInv PROVE NoLeak
    OBVIOUS
  <2>1. RoundOver => \A u \in Updaters : oldp[u] = NoObj
    BY DEF HeapInv, RoundOver
  <2>2. QED
    BY <2>1 DEF HeapInv, NoLeak
<1>2. QED
  BY <1>1, HeapInvariant, PTL
-----------------------------------------------------------------------------
(* Nobody is without a node *)

TidsUnique == \A q, r \in Readers : tid[q] = tid[r] => q = r

\* The list holds nobody of an earlier round; with different ids every thread
\* past rcu_init() is registered.
NodeInv ==
  /\ \A i \in 1..Len(list) : pc[list[i]] # "init"
  /\ TidsUnique =>
       \A r \in Readers : /\ pc[r] # "init" => r \in registered
                          /\ pc[r] # "segv"

\* At first everybody is in rcu_init().
LEMMA NodeInvInit == Init => NodeInv
<1> SUFFICES ASSUME Init PROVE NodeInv
  OBVIOUS
<1>1. Len(list) = 0 /\ \A r \in Readers : pc[r] = "init"
  BY DEF Init
<1>2. QED
  BY <1>1 DEF NodeInv

\* Reader steps keep the invariant.
LEMMA NodeInvReader ==
  ASSUME TypeOK, NodeInv, NEW r \in Readers, ReaderStep(r)
  PROVE  NodeInv'
<1> USE DEF Goto, heap, rcuData, reader, updater, history
<1>1. tid' = tid /\ \A q \in Readers : q # r => pc'[q] = pc[q]
  BY DEF TypeOK, ReaderStep, RcuInitAdded, RcuInitDuplicate, LockFault,
         ReadLockIdx, Mark, Dereference, ReadUnlockIdx, Clear, ThreadExit
<1>2. list \in Seq(Readers) /\ \A i \in 1..Len(list) : list[i] \in Readers
  BY DEF TypeOK
<1>3. CASE RcuInitAdded(r)
  <2>1. /\ list' = Append(list, r) /\ registered' = registered \cup {r}
        /\ pc'[r] = "lock"
    BY <1>3 DEF RcuInitAdded, TypeOK
  <2>2. \A i \in 1..Len(list') : list'[i] = r \/ (i \in 1..Len(list)
                                                  /\ list'[i] = list[i])
    BY <1>2, <2>1
  <2>3. \A i \in 1..Len(list') : pc'[list'[i]] # "init"
    BY <1>1, <1>2, <2>1, <2>2 DEF NodeInv
  <2>4. QED
    BY <1>1, <2>1, <2>3 DEF NodeInv, TidsUnique
<1>4. CASE RcuInitDuplicate(r)
  <2>1. /\ pc[r] = "init" /\ pc'[r] = "lock" /\ list' = list
        /\ HasTid(tid[r])
    BY <1>4 DEF RcuInitDuplicate, TypeOK
  <2>2. ~TidsUnique
    BY <1>2, <2>1 DEF HasTid, TidsUnique, NodeInv
  <2>3. QED
    BY <1>1, <1>2, <2>1, <2>2 DEF NodeInv, TidsUnique
<1>5. CASE \/ LockFault(r) \/ ReadLockIdx(r) \/ Mark(r) \/ Dereference(r)
           \/ ReadUnlockIdx(r) \/ Clear(r) \/ ThreadExit(r)
  <2>1. /\ list' = list /\ registered' = registered
        /\ pc[r] # "init" /\ pc'[r] # "init"
        /\ pc'[r] = "segv" => r \notin registered
    BY <1>5 DEF TypeOK, LockFault, ReadLockIdx, Mark, Dereference,
                ReadUnlockIdx, Clear, ThreadExit
  <2>2. QED
    BY <1>1, <1>2, <2>1 DEF NodeInv, TidsUnique
<1>6. QED
  BY <1>3, <1>4, <1>5 DEF ReaderStep

\* Every step keeps the invariant.
LEMMA NodeInvStep == TypeOK /\ NodeInv /\ [Next]_vars => NodeInv'
<1> SUFFICES ASSUME TypeOK, NodeInv, [Next]_vars PROVE NodeInv'
  OBVIOUS
<1> USE ThreadAssumption DEF heap, rcuData, reader, updater, history
<1>1. \A i \in 1..Len(list) : list[i] \in Readers
  BY DEF TypeOK
<1>2. ASSUME NEW r \in Readers, Drain(r) PROVE NodeInv'
  BY <1>2 DEF Drain, NodeInv, TidsUnique
<1>3. ASSUME NEW u \in Updaters, UpdaterStep(u) PROVE NodeInv'
  <2>1. /\ UNCHANGED <<list, registered, tid>>
        /\ \A r \in Readers : pc'[r] = pc[r]
    BY <1>3 DEF UpdaterStep, AssignPointer, SyncLock, StartScan, ScanNode,
                AdvanceIdx, EndScan, FreeOld, Free, Goto, TypeOK
  <2>2. QED
    BY <1>1, <2>1 DEF NodeInv, TidsUnique
<1>4. CASE NextBenchmark
  <2>1. list' = <<>> /\ \A r \in Readers : pc'[r] = "init"
    BY <1>4 DEF NextBenchmark, NewRound
  <2>2. Len(list') = 0
    BY <2>1
  <2>3. QED
    BY <2>1, <2>2 DEF NodeInv
<1>5. CASE UNCHANGED vars
  BY <1>5 DEF vars, NodeInv, TidsUnique
<1>6. QED
  BY <1>2, <1>3, <1>4, <1>5, NodeInvReader DEF Next, Stopped

\* If the ids of a round's threads differ nobody goes through a NULL pointer,
\* whatever ids earlier rounds had: for any number of readers and rounds.
THEOREM NobodyWithoutNode == Spec => []NoNullNode
<1>1. NodeInv => NoNullNode
  BY DEF NodeInv, NoNullNode, TidsUnique, Crashed
<1>2. QED
  BY <1>1, NodeInvInit, NodeInvStep, TypeCorrect, PTL DEF Spec

-----------------------------------------------------------------------------
(* One grace period per round *)

\* One updater with one grace period per benchmark() round, on sequentially
\* consistent memory: for any number of readers, sections and rounds this keeps
\* the whole promise of RcuGracePeriod, and no reader loses its object.
OneGracePeriod(u) ==
  /\ Updaters = {u}
  /\ MaxUpdates = 1
  /\ StoreBufferSize = 0

\* The slot index is not flipped before the one scan of the round is over.
Unflipped(u) == pc[u] \in {"assign", "sync", "scan"}

\* Until then every reader has loaded the same index and marked that slot.
SteadyInv(u) ==
  Unflipped(u) =>
    \A r \in Readers :
      /\ pc[r] \in {"mark", "deref", "use", "clear"} => lidx[r] = idx
      /\ pc[r] \in {"deref", "use", "clear"} => nesting[r][idx] = 1

\* The readers to be waited for are inside, and the scan sees all of them.
AwaitedInv(u) ==
  /\ pc[u] \in {"sync", "scan"} => waiting[u] \subseteq Inside
  /\ pc[u] \in {"scan", "free"} => waiting[u] \subseteq seen[u]

\* A reader uses the current object, or the old one and is waited for.
RefInv(u) ==
  \A r \in Readers :
    ref[r] # NoObj =>
      /\ pc[r] = "use"
      /\ ref[r] = foo \/ (ref[r] = oldp[u] /\ r \in waiting[u])

SingleInv(u) ==
  /\ pc[u] # "done" => updates[u] = 0
  /\ \A r \in Readers : storeBuf[r] = <<>>
  /\ SteadyInv(u)
  /\ AwaitedInv(u)
  /\ RefInv(u)

Base == IndInv /\ HeapInv

\* At first nobody is inside.
LEMMA SingleInvInit ==
  ASSUME NEW u \in Updaters, Init
  PROVE  SingleInv(u)
<1>1. /\ pc[u] = "assign" /\ updates[u] = 0
      /\ \A r \in Readers : pc[r] = "init" /\ ref[r] = NoObj
      /\ \A r \in Readers : storeBuf[r] = <<>>
  BY ThreadAssumption DEF Init
<1>2. QED
  BY <1>1 DEF SingleInv, SteadyInv, AwaitedInv, RefInv

\* Reader steps keep the invariant.
LEMMA SingleInvReader ==
  ASSUME NEW u \in Updaters, OneGracePeriod(u), Base, SingleInv(u),
         NEW r \in Readers, ReaderStep(r)
  PROVE  SingleInv(u)'
<1> USE DEF Goto, heap, rcuData, reader, updater, history
<1>1. TypeOK /\ StoreBufferSize = 0 /\ idx \in Slots
  BY DEF Base, IndInv, OneGracePeriod, TypeOK
<1>2. /\ pc'[u] = pc[u] /\ updates' = updates /\ idx' = idx
      /\ foo' = foo /\ oldp' = oldp /\ storeBuf' = storeBuf
      /\ \A q \in Readers : q # r => /\ pc'[q] = pc[q]
                                     /\ lidx'[q] = lidx[q]
                                     /\ ref'[q] = ref[q]
                                     /\ nesting'[q] = nesting[q]
  BY <1>1, ThreadAssumption
     DEF TypeOK, ReaderStep, RcuInitAdded, RcuInitDuplicate, LockFault,
         ReadLockIdx, Mark, Store, Dereference, ReadUnlockIdx, Clear,
         ThreadExit
<1>3. /\ ref[r] # NoObj => pc[r] = "use"
      /\ \A q \in Readers :
           ref[q] # NoObj => ref[q] = foo
                             \/ (ref[q] = oldp[u] /\ q \in waiting[u])
  BY DEF SingleInv, RefInv
<1>4. SteadyInv(u)'
  <2>1. ASSUME Unflipped(u)
        PROVE  /\ pc'[r] \in {"mark", "deref", "use", "clear"}
                    => lidx'[r] = idx
               /\ pc'[r] \in {"deref", "use", "clear"} => nesting'[r][idx] = 1
    <3>1. /\ pc[r] \in {"mark", "deref", "use", "clear"} => lidx[r] = idx
          /\ pc[r] \in {"deref", "use", "clear"} => nesting[r][idx] = 1
      BY <2>1 DEF SingleInv, SteadyInv
    <3>2. QED
      BY <1>1, <3>1
         DEF TypeOK, Slots, ReaderStep, RcuInitAdded, RcuInitDuplicate,
             LockFault, ReadLockIdx, Mark, Store, Dereference, ReadUnlockIdx,
             Clear, ThreadExit
  <2>2. QED
    BY <1>2, <2>1 DEF SingleInv, SteadyInv, Unflipped
<1>5. CASE ReadUnlockIdx(r)
  <2>1. /\ waiting'[u] = waiting[u] \ {r} /\ seen'[u] = seen[u] \ {r}
        /\ ref'[r] = NoObj /\ pc'[r] = "clear"
    BY <1>1, <1>5 DEF ReadUnlockIdx, TypeOK
  <2>2. Inside' = Inside \ {r}
    BY <1>2, <2>1 DEF Inside
  <2>3. AwaitedInv(u)'
    BY <1>2, <2>1, <2>2 DEF SingleInv, AwaitedInv
  <2>4. RefInv(u)'
    BY <1>2, <2>1 DEF SingleInv, RefInv
  <2>5. QED
    BY <1>2, <1>4, <2>3, <2>4 DEF SingleInv
<1>6. CASE ~ReadUnlockIdx(r)
  <2>1. waiting' = waiting /\ seen' = seen /\ Inside \subseteq Inside'
    BY <1>1, <1>2, <1>6
       DEF TypeOK, Inside, ReaderStep, RcuInitAdded, RcuInitDuplicate,
           LockFault, ReadLockIdx, Mark, Dereference, Clear, ThreadExit
  <2>2. AwaitedInv(u)'
    BY <1>2, <2>1 DEF SingleInv, AwaitedInv
  <2>3. ref'[r] # NoObj => pc'[r] = "use" /\ ref'[r] = foo
    BY <1>1, <1>3, <1>6
       DEF TypeOK, ReaderStep, RcuInitAdded, RcuInitDuplicate, LockFault,
           ReadLockIdx, Mark, Dereference, Clear, ThreadExit
  <2>4. RefInv(u)'
    BY <1>2, <2>1, <2>3 DEF SingleInv, RefInv
  <2>5. QED
    BY <1>2, <1>4, <2>2, <2>4 DEF SingleInv
<1>7. QED
  BY <1>5, <1>6

\* When the scan is over, every reader that was inside at the call has left.
LEMMA NobodyAwaited ==
  ASSUME NEW u \in Updaters, Base, SingleInv(u),
         \/ pc[u] = "free"
         \/ AdvanceIdx(u) /\ IndInv'
  PROVE  waiting[u] = {}
<1>1. waiting[u] \subseteq seen[u]
  BY DEF SingleInv, AwaitedInv, AdvanceIdx, EndScan
<1>2. CASE pc[u] = "free"
  BY <1>1, <1>2 DEF Base, IndInv, VisibleReadersWaited
<1>3. CASE AdvanceIdx(u) /\ IndInv'
  <2>1. pc'[u] = "free" /\ seen' = seen
    BY <1>3 DEF AdvanceIdx, EndScan, Goto, history, Base, IndInv, TypeOK
  <2>2. seen'[u] = {}
    BY <1>3, <2>1 DEF IndInv, VisibleReadersWaited
  <2>3. QED
    BY <1>1, <2>1, <2>2
<1>4. QED
  BY <1>2, <1>3

\* So do the steps of the updater.
LEMMA SingleInvUpdater ==
  ASSUME NEW u \in Updaters, OneGracePeriod(u), Base, SingleInv(u), IndInv',
         UpdaterStep(u)
  PROVE  SingleInv(u)'
<1> USE DEF Goto, heap, rcuData, reader, updater, history
<1>1. TypeOK /\ MaxUpdates = 1
  BY DEF Base, IndInv, OneGracePeriod
<1>2. /\ \A r \in Readers : pc'[r] = pc[r]
      /\ UNCHANGED <<storeBuf, nesting, lidx, ref>>
      /\ Inside' = Inside
  BY <1>1, ThreadAssumption
     DEF TypeOK, UpdaterStep, AssignPointer, SyncLock, StartScan, ScanNode,
         AdvanceIdx, EndScan, FreeOld, Free, Inside
<1>3. CASE AssignPointer(u)
  <2>1. /\ pc[u] = "assign" /\ pc'[u] = "sync" /\ idx' = idx
        /\ oldp'[u] = foo /\ waiting'[u] = Inside /\ updates' = updates
    BY <1>1, <1>3 DEF TypeOK, AssignPointer
  <2>2. oldp[u] = NoObj
    BY <2>1 DEF Base, HeapInv
  <2>3. RefInv(u)'
    BY <1>2, <2>1, <2>2 DEF SingleInv, RefInv, Inside
  <2>4. SteadyInv(u)' /\ AwaitedInv(u)'
    BY <1>2, <2>1 DEF SingleInv, SteadyInv, Unflipped, AwaitedInv
  <2>5. QED
    BY <1>2, <2>1, <2>3, <2>4 DEF SingleInv
<1>4. CASE SyncLock(u)
  <2>1. /\ pc[u] = "sync" /\ pc'[u] = "scan" /\ idx' = idx /\ foo' = foo
        /\ oldp' = oldp /\ waiting' = waiting /\ updates' = updates
        /\ seen'[u] = Marked
    BY <1>1, <1>4 DEF TypeOK, SyncLock, StartScan
  <2>2. Inside \subseteq Marked
    BY <2>1 DEF SingleInv, SteadyInv, Unflipped, Inside, Marked
  <2>3. AwaitedInv(u)'
    BY <1>2, <2>1, <2>2 DEF SingleInv, AwaitedInv
  <2>4. SteadyInv(u)' /\ RefInv(u)'
    BY <1>2, <2>1 DEF SingleInv, SteadyInv, Unflipped, RefInv
  <2>5. QED
    BY <1>2, <2>1, <2>3, <2>4 DEF SingleInv
<1>5. CASE ScanNode(u)
  <2>1. /\ pc' = pc /\ idx' = idx /\ foo' = foo /\ oldp' = oldp
        /\ waiting' = waiting /\ seen' = seen /\ updates' = updates
    BY <1>5 DEF ScanNode
  <2>2. QED
    BY <1>2, <2>1 DEF SingleInv, SteadyInv, Unflipped, AwaitedInv, RefInv
<1>6. CASE AdvanceIdx(u)
  <2>1. /\ pc[u] = "scan" /\ pc'[u] = "free" /\ foo' = foo /\ oldp' = oldp
        /\ waiting' = waiting /\ seen' = seen /\ updates' = updates
    BY <1>1, <1>6 DEF TypeOK, AdvanceIdx, EndScan
  <2>2. QED
    BY <1>2, <2>1 DEF SingleInv, SteadyInv, Unflipped, AwaitedInv, RefInv
<1>7. CASE FreeOld(u)
  <2>1. /\ pc[u] = "free" /\ foo' = foo
        /\ updates[u] = 0 /\ pc'[u] = "done"
    BY <1>1, <1>7 DEF TypeOK, FreeOld, Free, SingleInv
  <2>2. waiting[u] = {}
    BY <2>1, NobodyAwaited
  <2>3. QED
    BY <1>2, <2>1, <2>2
       DEF SingleInv, SteadyInv, Unflipped, AwaitedInv, RefInv
<1>8. QED
  BY <1>3, <1>4, <1>5, <1>6, <1>7 DEF UpdaterStep

\* A new round begins as the first did.
LEMMA SingleInvRound ==
  ASSUME NEW u \in Updaters, Base, SingleInv(u), NextBenchmark
  PROVE  SingleInv(u)'
<1>1. /\ pc'[u] = "assign" /\ updates'[u] = 0 /\ storeBuf' = storeBuf
      /\ ref' = ref
      /\ \A r \in Readers : pc[r] = "done" /\ pc'[r] = "init"
  BY ThreadAssumption DEF NextBenchmark, NewRound, RoundOver
<1>2. \A r \in Readers : ref[r] = NoObj
  BY <1>1 DEF SingleInv, RefInv
<1>3. QED
  BY <1>1, <1>2 DEF SingleInv, SteadyInv, AwaitedInv, RefInv

\* Every step keeps the invariant.
LEMMA SingleInvStep ==
  ASSUME NEW u \in Updaters, OneGracePeriod(u), Base, SingleInv(u), IndInv',
         [Next]_vars
  PROVE  SingleInv(u)'
<1>1. ASSUME NEW r \in Readers, Drain(r) PROVE FALSE
  BY <1>1 DEF Drain, SingleInv
<1>2. CASE UNCHANGED vars
  BY <1>2 DEF vars, heap, rcuData, reader, updater, history, SingleInv,
              SteadyInv, Unflipped, AwaitedInv, RefInv, Inside
<1>3. \A v \in Updaters : v = u
  BY DEF OneGracePeriod
<1>4. QED
  BY <1>1, <1>2, <1>3, SingleInvReader, SingleInvUpdater, SingleInvRound
     DEF Next, Stopped

\* The invariant holds in every reachable state.
LEMMA SingleInvariant ==
  ASSUME NEW u \in Updaters, OneGracePeriod(u)
  PROVE  Spec => [](Base /\ SingleInv(u))
<1>1. Init => Base /\ SingleInv(u)
  BY IndInvInit, HeapInvInit, SingleInvInit DEF Base
<1>2. Base /\ [Next]_vars => Base'
  BY IndInvStep, HeapInvStep DEF Base, IndInv
<1>3. (Base /\ SingleInv(u)) /\ [Next]_vars => (Base /\ SingleInv(u))'
  BY <1>2, SingleInvStep DEF Base
<1>4. QED
  BY <1>1, <1>3, PTL DEF Spec

\* With one grace period per round no reader loses its object, for any number
\* of readers and rounds: what is freed was replaced before the grace period,
\* so who still uses it was inside and is waited for.
THEOREM SingleReadersSafe ==
  ASSUME NEW u \in Updaters, OneGracePeriod(u)
  PROVE  Spec => []ReadersSafe
<1>1. Base /\ SingleInv(u) => ReadersSafe
  BY DEF Base, HeapInv, SingleInv, RefInv, ReadersSafe
<1>2. QED
  BY <1>1, SingleInvariant, PTL

\* Reader steps as steps of the abstract specification.
LEMMA StepReader ==
  ASSUME Base, NEW r \in Readers, ReaderStep(r)
  PROVE  GracePeriod!Next \/ UNCHANGED GracePeriod!vars
<1> USE DEF Goto, heap, rcuData, reader, updater, history
<1> DEFINE syncing == {u \in Updaters : pc[u] \in {"sync", "scan"}}
<1>1. /\ \A u \in Updaters : pc'[u] = pc[u]
      /\ \A q \in Readers : q # r => pc'[q] = pc[q]
  BY ThreadAssumption
     DEF Base, IndInv, TypeOK, ReaderStep, RcuInitAdded, RcuInitDuplicate,
         LockFault, ReadLockIdx, Mark, Dereference, ReadUnlockIdx, Clear,
         ThreadExit
<1>2. syncing' = syncing
  BY <1>1
<1>3. CASE Mark(r)
  <2>1. /\ pc[r] = "mark" /\ pc'[r] = "deref" /\ waiting' = waiting
    BY <1>3 DEF Mark, Base, IndInv, TypeOK
  <2>2. r \notin Inside /\ Inside' = Inside \cup {r}
    BY <1>1, <2>1 DEF Inside
  <2>3. GracePeriod!ReadLock(r)
    BY <1>2, <2>1, <2>2 DEF GracePeriod!ReadLock
  <2>4. QED
    BY <2>3 DEF GracePeriod!Next
<1>4. CASE ReadUnlockIdx(r)
  <2>1. /\ pc[r] = "use" /\ pc'[r] = "clear"
        /\ waiting' = [u \in Updaters |-> waiting[u] \ {r}]
    BY <1>4 DEF ReadUnlockIdx, Base, IndInv, TypeOK
  <2>2. r \in Inside /\ Inside' = Inside \ {r}
    BY <1>1, <2>1 DEF Inside
  <2>3. GracePeriod!ReadUnlock(r)
    BY <1>2, <2>1, <2>2 DEF GracePeriod!ReadUnlock
  <2>4. QED
    BY <2>3 DEF GracePeriod!Next
<1>5. CASE \/ RcuInitAdded(r) \/ RcuInitDuplicate(r) \/ LockFault(r)
           \/ ReadLockIdx(r) \/ Dereference(r) \/ Clear(r) \/ ThreadExit(r)
  <2>1. /\ pc[r] \in {"deref", "use"} <=> pc'[r] \in {"deref", "use"}
        /\ waiting' = waiting
    BY <1>5 DEF Base, IndInv, TypeOK, RcuInitAdded, RcuInitDuplicate,
                LockFault, ReadLockIdx, Dereference, Clear, ThreadExit
  <2>2. Inside' = Inside
    BY <1>1, <2>1 DEF Inside
  <2>3. QED
    BY <1>2, <2>1, <2>2 DEF GracePeriod!vars
<1>6. QED
  BY <1>3, <1>4, <1>5 DEF ReaderStep

\* Updater steps: the call, and the return after nobody is left to wait for.
LEMMA StepUpdater ==
  ASSUME NEW u \in Updaters, Base, SingleInv(u), IndInv', UpdaterStep(u)
  PROVE  GracePeriod!Next \/ UNCHANGED GracePeriod!vars
<1> USE DEF Goto, heap, rcuData, reader, updater, history
<1> DEFINE syncing == {v \in Updaters : pc[v] \in {"sync", "scan"}}
<1>1. /\ \A v \in Updaters : v # u => pc'[v] = pc[v]
      /\ Inside' = Inside
  BY ThreadAssumption
     DEF Base, IndInv, TypeOK, UpdaterStep, AssignPointer, SyncLock,
         StartScan, ScanNode, AdvanceIdx, EndScan, FreeOld, Free, Inside
<1>2. CASE AssignPointer(u)
  <2>1. /\ pc[u] = "assign" /\ pc'[u] = "sync"
        /\ waiting' = [waiting EXCEPT ![u] = Inside]
    BY <1>2 DEF AssignPointer, Base, IndInv, TypeOK
  <2>2. u \notin syncing /\ syncing' = syncing \cup {u}
    BY <1>1, <2>1
  <2>3. GracePeriod!SynchronizeBegin(u)
    BY <1>1, <2>1, <2>2 DEF GracePeriod!SynchronizeBegin
  <2>4. QED
    BY <2>3 DEF GracePeriod!Next
<1>3. CASE AdvanceIdx(u)
  <2>1. pc[u] = "scan" /\ pc'[u] = "free" /\ waiting' = waiting
    BY <1>3 DEF AdvanceIdx, EndScan, Base, IndInv, TypeOK
  <2>2. u \in syncing /\ syncing' = syncing \ {u}
    BY <1>1, <2>1
  <2>3. waiting[u] = {}
    BY <1>3, NobodyAwaited
  <2>4. GracePeriod!SynchronizeEnd(u)
    BY <1>1, <2>1, <2>2, <2>3 DEF GracePeriod!SynchronizeEnd
  <2>5. QED
    BY <2>4 DEF GracePeriod!Next
<1>4. CASE SyncLock(u) \/ ScanNode(u) \/ FreeOld(u)
  <2>1. /\ pc[u] \in {"sync", "scan"} <=> pc'[u] \in {"sync", "scan"}
        /\ waiting' = waiting
    BY <1>4 DEF Base, IndInv, TypeOK, SyncLock, StartScan, ScanNode, FreeOld,
                Free
  <2>2. syncing' = syncing
    BY <1>1, <2>1
  <2>3. QED
    BY <1>1, <2>1, <2>2 DEF GracePeriod!vars
<1>5. QED
  BY <1>2, <1>3, <1>4 DEF UpdaterStep

\* With one grace period per round synchronize_rcu() keeps the promise every
\* RCU flavour of the repository makes, for any number of readers and rounds.
THEOREM SingleGracePeriodKept ==
  ASSUME NEW u \in Updaters, OneGracePeriod(u)
  PROVE  Spec => ImplementsGracePeriod
<1>1. Init => GracePeriod!Init
  BY ThreadAssumption DEF Init, GracePeriod!Init, Inside
<1>2. Base /\ SingleInv(u) /\ (Base /\ SingleInv(u))' /\ [Next]_vars
        => [GracePeriod!Next]_(GracePeriod!vars)
  <2> SUFFICES ASSUME Base, SingleInv(u), Base', [Next]_vars
               PROVE  GracePeriod!Next \/ UNCHANGED GracePeriod!vars
    OBVIOUS
  <2>1. ASSUME NEW r \in Readers, Drain(r) PROVE FALSE
    BY <2>1 DEF Drain, SingleInv
  <2>2. CASE NextBenchmark
    <3>1. /\ \A r \in Readers : pc[r] = "done" /\ pc'[r] = "init"
          /\ \A v \in Updaters : pc[v] = "done" /\ pc'[v] = "assign"
          /\ waiting' = waiting
      BY <2>2, ThreadAssumption DEF NextBenchmark, NewRound, RoundOver, history
    <3>2. QED
      BY <3>1 DEF GracePeriod!vars, Inside
  <2>3. CASE UNCHANGED vars
    BY <2>3 DEF vars, history, GracePeriod!vars, Inside
  <2>4. \A v \in Updaters : v = u
    BY DEF OneGracePeriod
  <2>5. IndInv'
    BY DEF Base
  <2>6. QED
    BY <2>1, <2>2, <2>3, <2>4, <2>5, StepReader, StepUpdater DEF Next, Stopped
<1>3. QED
  BY <1>1, <1>2, SingleInvariant, PTL
     DEF Spec, ImplementsGracePeriod, GracePeriod!Spec

=============================================================================
