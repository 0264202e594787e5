-------------------------- MODULE LockedRcuProofs --------------------------
(***************************************************************************)
(* Proofs about LockedRcu, for any number of readers and updaters, any     *)
(* memory, any number of sections and updates and whatever objects are     *)
(* passed to rcu_assign_pointer().                                         *)
(***************************************************************************)
EXTENDS LockedRcu, FiniteSetTheorems, TLAPS

-----------------------------------------------------------------------------
(* Typing *)

\* The labels each sort of thread goes through, and the pointers that have
\* been set when it gets there.
LocalsInv ==
  /\ obj[current] \in Objs
  /\ \A i \in 1..Len(retired) : obj[retired[i]] \in Objs
  /\ \A r \in Readers :
       /\ pc[r] \in {"load", "inc", "deref", "use", "done"}
       /\ pc[r] \in {"inc", "deref", "use"} => cur[r] \in Nodes
  /\ \A u \in Updaters :
       /\ pc[u] \in {"alloc", "assign", "sync", "wait", "free", "done"}
       /\ pc[u] = "assign" => node[u] \in Nodes /\ obj[node[u]] \in Objs

TypeInv == TypeOK /\ LocalsInv

\* There is at least the count zero.
LEMMA CountMin == CountMod \in Nat /\ CountMod > 0
  BY CountAssumption, FS_CardinalityType

\* A remainder is below the modulus, and a number below it is its own.
LEMMA CountStep ==
  ASSUME NEW c \in Nat, c < CountMod
  PROVE  /\ (c + 1) % CountMod \in 0..(CountMod - 1)
         /\ (c + CountMod - 1) % CountMod \in 0..(CountMod - 1)
         /\ c + 1 < CountMod => (c + 1) % CountMod = c + 1
         /\ c > 0 => (c + CountMod - 1) % CountMod = c - 1
<1>1. CountMod \in Nat /\ CountMod > 0
  BY CountMin
<1>2. /\ c + 1 <= CountMod
      /\ c + CountMod - 1 = CountMod + (c - 1)
  BY <1>1
<1>3. (c + 1) % CountMod = IF c + 1 < CountMod THEN c + 1 ELSE 0
  BY <1>1, <1>2
<1>4. (c + CountMod - 1) % CountMod = IF c = 0 THEN CountMod - 1 ELSE c - 1
  BY <1>1, <1>2
<1>5. QED
  BY <1>1, <1>3, <1>4

\* The initial state has its type.
LEMMA TypeInit == Init => TypeInv
<1>1. 0 \in 0..(CountMod - 1)
  BY CountMin
<1>2. SUFFICES ASSUME Init PROVE TypeInv
  OBVIOUS
<1>3. retired \in Seq(Nodes) /\ Len(retired) = 0
  BY <1>2 DEF Init
<1>4. TypeOK
  <2>1. pc \in [Readers \cup Updaters -> {"load", "alloc"}]
    BY <1>2 DEF Init
  <2>2. obj \in [Nodes -> Objs \cup {NoObj}] /\ objHeap \subseteq Objs
    BY <1>2 DEF Init
  <2>3. count \in [Nodes -> 0..(CountMod - 1)]
    BY <1>1, <1>2 DEF Init
  <2>4. /\ cur \in [Readers -> Nodes \cup {NoNode}]
        /\ ref \in [Readers -> Objs \cup {NoObj}]
        /\ sections \in [Readers -> Nat]
        /\ node \in [Updaters -> Nodes \cup {NoNode}]
        /\ want \in [Updaters -> Nat \ {0}]
        /\ updates \in [Updaters -> Nat]
    BY <1>2 DEF Init
  <2>5. /\ current \in Nodes /\ nodeHeap \subseteq Nodes
        /\ sp \in Updaters \cup {NoThread}
        /\ guarded \subseteq Readers
        /\ late \in BOOLEAN /\ reused \in BOOLEAN
    BY <1>2 DEF Init
  <2>6. QED
    BY <1>3, <2>1, <2>2, <2>3, <2>4, <2>5 DEF TypeOK
<1>5. LocalsInv
  BY <1>2, <1>3, ThreadAssumption DEF Init, LocalsInv
<1>6. QED
  BY <1>4, <1>5 DEF TypeInv

\* What is pending is in the list; when the lock is free all of the list is,
\* and its holder has freed what comes before want.
LEMMA PendingPart ==
  ASSUME TypeInv
  PROVE  /\ Pending \subseteq {retired[i] : i \in 1..Len(retired)}
         /\ sp = NoThread => Pending = {retired[i] : i \in 1..Len(retired)}
         /\ sp # NoThread =>
              Pending = {retired[i] : i \in want[sp]..Len(retired)}
<1>1. Len(retired) \in Nat
  BY DEF TypeInv, TypeOK
<1>2. CASE sp = NoThread
  BY <1>1, <1>2 DEF Pending
<1>3. CASE sp # NoThread
  <2>1. want[sp] \in Nat \ {0}
    BY <1>3 DEF TypeInv, TypeOK
  <2>2. (want[sp] - 1) + 1 = want[sp]
    BY <2>1
  <2>3. Pending = {retired[i] : i \in want[sp]..Len(retired)}
    BY <1>3, <2>2 DEF Pending
  <2>4. QED
    BY <1>1, <1>3, <2>1, <2>3
<1>4. QED
  BY <1>2, <1>3

\* A retired node is put behind the others.
LEMMA AppendElements ==
  ASSUME NEW S, NEW list \in Seq(S), NEW e \in S
  PROVE  /\ Append(list, e) \in Seq(S)
         /\ Len(Append(list, e)) = Len(list) + 1
         /\ Len(list) \in Nat
         /\ Append(list, e)[Len(list) + 1] = e
         /\ \A i \in 1..Len(list) : Append(list, e)[i] = list[i]
         /\ 1..Len(Append(list, e)) = 1..Len(list) \cup {Len(list) + 1}
  OBVIOUS

\* Reader steps keep the types.
LEMMA TypeReader ==
  ASSUME TypeInv, NEW r \in Readers, ReaderStep(r)
  PROVE  TypeInv'
<1> USE ThreadAssumption
    DEF TypeInv, TypeOK, LocalsInv, Goto, heap, head, reader, updater, history
<1>1. CASE ReadLockLoad(r)
  BY <1>1 DEF ReadLockLoad
<1>2. CASE ReadLockInc(r)
  <2>1. cur[r] \in Nodes
    BY <1>2 DEF ReadLockInc
  <2>2. (count[cur[r]] + 1) % CountMod \in 0..(CountMod - 1)
    BY <2>1, CountStep, CountAssumption
  <2>3. QED
    BY <1>2, <2>1, <2>2 DEF ReadLockInc
<1>3. CASE Dereference(r)
  BY <1>3 DEF Dereference
<1>4. CASE ReadUnlock(r)
  <2>1. cur[r] \in Nodes
    BY <1>4 DEF ReadUnlock, EndSection
  <2>2. (count[cur[r]] + CountMod - 1) % CountMod \in 0..(CountMod - 1)
    BY <2>1, CountStep, CountAssumption
  <2>3. QED
    BY <1>4, <2>1, <2>2 DEF ReadUnlock, EndSection
<1>5. QED
  BY <1>1, <1>2, <1>3, <1>4 DEF ReaderStep

\* Updater steps keep the types.
LEMMA TypeUpdater ==
  ASSUME TypeInv, NEW u \in Updaters, UpdaterStep(u)
  PROVE  TypeInv'
<1> USE ThreadAssumption
    DEF TypeInv, TypeOK, LocalsInv, Goto, heap, head, reader, updater, history
<1>1. CASE AllocNode(u)
  <2>1. PICK n \in Nodes \ nodeHeap, newval \in Objs, again \in BOOLEAN :
          /\ newval \in Newvals(again)
          /\ nodeHeap' = nodeHeap \cup {n}
          /\ objHeap' = IF again THEN objHeap ELSE objHeap \cup {newval}
          /\ obj' = [obj EXCEPT ![n] = newval]
          /\ count' = [count EXCEPT ![n] = 0]
          /\ node' = [node EXCEPT ![u] = n]
          /\ reused' = (reused \/ again)
    BY <1>1 DEF AllocNode
  <2>2. newval \in Objs
    OBVIOUS
  <2>3. /\ nodeHeap' \subseteq Nodes /\ objHeap' \subseteq Objs
        /\ obj' \in [Nodes -> Objs \cup {NoObj}]
        /\ count' \in [Nodes -> 0..(CountMod - 1)]
        /\ \A m \in Nodes : obj[m] \in Objs => obj'[m] \in Objs
        /\ obj'[n] \in Objs
    BY <2>1, <2>2, CountMin
  <2>4. /\ node' \in [Updaters -> Nodes \cup {NoNode}]
        /\ node'[u] = n /\ \A v \in Updaters : v # u => node'[v] = node[v]
    BY <2>1
  <2>5. reused' \in BOOLEAN
    BY <2>1
  <2>6. QED
    BY <1>1, <2>3, <2>4, <2>5 DEF AllocNode
<1>2. CASE AssignPointer(u)
  <2>1. /\ current' = node[u] /\ retired' = Append(retired, current)
        /\ obj' = obj /\ node' = node
        /\ node[u] \in Nodes /\ obj[node[u]] \in Objs
    BY <1>2 DEF AssignPointer
  <2>2. /\ retired' \in Seq(Nodes)
        /\ \A i \in 1..Len(retired') : obj'[retired'[i]] \in Objs
    BY <2>1, AppendElements
  <2>3. QED
    BY <1>2, <2>1, <2>2 DEF AssignPointer
<1>3. CASE AssignDuplicate(u)
  BY <1>3 DEF AssignDuplicate, GiveUp
<1>4. CASE SyncLock(u)
  BY <1>4 DEF SyncLock, StartSync
<1>5. CASE SyncWait(u)
  BY <1>5 DEF SyncWait
<1>6. CASE SyncFree(u)
  BY <1>6 DEF SyncFree
<1>7. CASE SyncUnlock(u)
  BY <1>7 DEF SyncUnlock, EndSync
<1>8. QED
  BY <1>1, <1>2, <1>3, <1>4, <1>5, <1>6, <1>7 DEF UpdaterStep

\* Every step keeps the types.
LEMMA TypeStep == TypeInv /\ [Next]_vars => TypeInv'
<1> SUFFICES ASSUME TypeInv, [Next]_vars PROVE TypeInv'
  OBVIOUS
<1>1. CASE RcuFree
  BY <1>1 DEF RcuFree, TypeInv, TypeOK, LocalsInv, heap, head, reader,
              updater, history
<1>2. CASE UNCHANGED vars
  BY <1>2 DEF vars, TypeInv, TypeOK, LocalsInv, heap, head, reader, updater,
              history
<1>3. QED
  BY <1>1, <1>2, TypeReader, TypeUpdater DEF Next

\* Every variable always has its type; in particular no count leaves its
\* width, although a stale reader may decrement one that is zero.
THEOREM TypeCorrect == Spec => []TypeOK
<1>1. TypeInv => TypeOK
  BY DEF TypeInv
<1>2. QED
  BY <1>1, TypeInit, TypeStep, PTL DEF Spec

-----------------------------------------------------------------------------
(* The retired list and the memory *)

\* synchronize_rcu() runs under sp, from one end of the list to the other.
LockInv ==
  \A u \in Updaters :
    /\ pc[u] \in {"wait", "free"} <=> sp = u
    /\ pc[u] = "wait" => want[u] <= Len(retired) + 1
    /\ pc[u] = "free" => want[u] <= Len(retired)

\* A list that is not empty has an updater that will walk it.
WalkedInv ==
  retired # <<>> => \E u \in Updaters : pc[u] \in {"sync", "wait", "free"}

\* The nodes of the program are the current one, the pending ones and the
\* private ones, all different; they are what is allocated, and no object is
\* allocated without one of them.
NodesInv ==
  /\ current \notin Pending /\ current \notin Private
  /\ Pending \cap Private = {}
  /\ \A u, v \in Updaters :
       pc[u] = "assign" /\ pc[v] = "assign" /\ node[u] = node[v] => u = v
  /\ \A i, j \in 1..Len(retired) : retired[i] = retired[j] => i = j

HeapInv ==
  /\ \/ nodeHeap = {current} \cup Pending \cup Private
     \/ Finished /\ nodeHeap = {}
  /\ objHeap \subseteq {obj[n] : n \in nodeHeap}
  /\ ~reused => /\ {obj[n] : n \in nodeHeap} \subseteq objHeap
                /\ \A m, n \in nodeHeap : obj[m] = obj[n] => m = n

MemInv == LockInv /\ WalkedInv /\ NodesInv /\ HeapInv

\* At first there is the current node.
LEMMA MemInvInit == Init => MemInv
<1> SUFFICES ASSUME Init PROVE MemInv
  OBVIOUS
<1>1. Pending = {} /\ retired = <<>> /\ Len(retired) = 0
  BY DEF Init, Pending
<1>2. \A u \in Updaters : pc[u] = "alloc"
  BY ThreadAssumption DEF Init
<1>3. Private = {}
  BY <1>2 DEF Private
<1>4. nodeHeap = {current} /\ objHeap = {obj[current]} /\ sp = NoThread
  BY DEF Init
<1>5. LockInv /\ WalkedInv /\ NodesInv
  BY <1>1, <1>2, <1>3, <1>4, ThreadAssumption DEF LockInv, WalkedInv, NodesInv
<1>6. HeapInv
  BY <1>1, <1>3, <1>4 DEF HeapInv
<1>7. QED
  BY <1>5, <1>6 DEF MemInv

\* The lock and the list: what each step of an updater does to them.
LEMMA LockInvStep == TypeInv /\ MemInv /\ [Next]_vars => LockInv' /\ WalkedInv'
<1> SUFFICES ASSUME TypeInv, LockInv, WalkedInv, [Next]_vars
             PROVE  LockInv' /\ WalkedInv'
  BY DEF MemInv
<1> USE ThreadAssumption DEF TypeInv, TypeOK, LocalsInv, LockInv, WalkedInv,
                             Goto, heap, head, reader, updater, history
<1>1. ASSUME NEW r \in Readers, ReaderStep(r) PROVE LockInv' /\ WalkedInv'
  <2>1. /\ retired' = retired /\ sp' = sp /\ want' = want
        /\ \A u \in Updaters : pc'[u] = pc[u]
    BY <1>1 DEF ReaderStep, ReadLockLoad, ReadLockInc, Dereference,
                ReadUnlock, EndSection
  <2>2. QED
    BY <2>1
<1>2. ASSUME NEW u \in Updaters, AllocNode(u) PROVE LockInv' /\ WalkedInv'
  BY <1>2 DEF AllocNode
<1>3. ASSUME NEW u \in Updaters, AssignPointer(u)
      PROVE  LockInv' /\ WalkedInv'
  <2>1. Len(retired') = Len(retired) + 1 /\ Len(retired) \in Nat
    BY <1>3, AppendElements DEF AssignPointer
  <2>2. QED
    BY <1>3, <2>1 DEF AssignPointer
<1>4. ASSUME NEW u \in Updaters, AssignDuplicate(u)
      PROVE  LockInv' /\ WalkedInv'
  BY <1>4 DEF AssignDuplicate, GiveUp
<1>5. ASSUME NEW u \in Updaters, SyncLock(u) PROVE LockInv' /\ WalkedInv'
  BY <1>5 DEF SyncLock, StartSync
<1>6. ASSUME NEW u \in Updaters, SyncWait(u) PROVE LockInv' /\ WalkedInv'
  BY <1>6 DEF SyncWait
<1>7. ASSUME NEW u \in Updaters, SyncFree(u) PROVE LockInv' /\ WalkedInv'
  BY <1>7 DEF SyncFree
<1>8. ASSUME NEW u \in Updaters, SyncUnlock(u) PROVE LockInv' /\ WalkedInv'
  BY <1>8 DEF SyncUnlock, EndSync
<1>9. CASE RcuFree
  BY <1>9 DEF RcuFree
<1>10. CASE UNCHANGED vars
  BY <1>10 DEF vars
<1>11. QED
  BY <1>1, <1>2, <1>3, <1>4, <1>5, <1>6, <1>7, <1>8, <1>9, <1>10
     DEF Next, UpdaterStep

\* A step that moves no node and no object between their owners.
LEMMA HeapFrame ==
  ASSUME MemInv, Finished => Finished',
         Pending' = Pending, Private' = Private, current' = current,
         retired' = retired, node' = node,
         \A u \in Updaters : pc'[u] = "assign" <=> pc[u] = "assign",
         obj' = obj, nodeHeap' = nodeHeap, objHeap' = objHeap,
         reused' = reused
  PROVE  NodesInv' /\ HeapInv'
<1>1. NodesInv'
  BY DEF MemInv, NodesInv
<1>2. HeapInv'
  BY DEF MemInv, HeapInv
<1>3. QED
  BY <1>1, <1>2

\* A private node is no longer one when its updater publishes or frees it.
LEMMA PrivateGivenUp ==
  ASSUME TypeInv, NodesInv, NEW u \in Updaters, pc[u] = "assign",
         pc' = [pc EXCEPT ![u] = "sync"], node' = node
  PROVE  /\ Private' = Private \ {node[u]}
         /\ node[u] \in Private
         /\ \A v \in Updaters : pc'[v] = "assign" => pc[v] = "assign"
<1>1. \A v \in Updaters : pc'[v] = "assign" <=> pc[v] = "assign" /\ v # u
  BY DEF TypeInv, TypeOK
<1>2. QED
  BY <1>1 DEF NodesInv, Private

\* The current node is retired behind the others.
LEMMA PendingRetire ==
  ASSUME TypeInv, NodesInv, NEW u \in Updaters, AssignPointer(u)
  PROVE  /\ Pending' = Pending \cup {current}
         /\ \A i, j \in 1..Len(retired') : retired'[i] = retired'[j] => i = j
<1>1. /\ retired' = Append(retired, current)
      /\ sp = NoThread /\ sp' = NoThread
  BY DEF AssignPointer
<1>2. Pending = {retired[i] : i \in 1..Len(retired)}
  BY <1>1, PendingPart
<1>3. Pending' = {retired'[i] : i \in 1..Len(retired')}
  BY <1>1 DEF Pending
<1>4. retired \in Seq(Nodes) /\ current \in Nodes
  BY DEF TypeInv, TypeOK
<1>5. /\ Len(retired) \in Nat
      /\ retired'[Len(retired) + 1] = current
      /\ \A i \in 1..Len(retired) : retired'[i] = retired[i]
      /\ 1..Len(retired') = 1..Len(retired) \cup {Len(retired) + 1}
  BY <1>1, <1>4, AppendElements
<1>6. QED
  BY <1>2, <1>3, <1>5 DEF NodesInv

\* The condemned node is the first of the pending ones.
LEMMA PendingFree ==
  ASSUME TypeInv, LockInv, NodesInv, NEW u \in Updaters, SyncFree(u)
  PROVE  /\ retired[want[u]] \in Pending
         /\ Pending' = Pending \ {retired[want[u]]}
<1>1. u # NoThread /\ want[u] \in Nat \ {0} /\ Len(retired) \in Nat
  BY ThreadAssumption DEF TypeInv, TypeOK
<1>2. /\ sp = u /\ want[u] <= Len(retired)
      /\ sp' = sp /\ retired' = retired /\ want'[u] = want[u] + 1
  BY DEF SyncFree, LockInv, TypeInv, TypeOK, head
<1>3. Pending = {retired[i] : i \in want[u]..Len(retired)}
  BY <1>1, <1>2, PendingPart
<1>4. Pending' = {retired[i] : i \in (want[u] + 1)..Len(retired)}
  BY <1>1, <1>2 DEF Pending
<1>5. /\ want[u]..Len(retired)
           = {want[u]} \cup ((want[u] + 1)..Len(retired))
      /\ want[u]..Len(retired) \subseteq 1..Len(retired)
      /\ want[u] \notin (want[u] + 1)..Len(retired)
  BY <1>1, <1>2
<1>6. QED
  BY <1>3, <1>4, <1>5 DEF NodesInv

\* rcu_assign_pointer(): the node is private, then current, and the current
\* one pending; or it is freed at once.
LEMMA MemInvAssign ==
  ASSUME TypeInv, MemInv, NEW u \in Updaters,
         AllocNode(u) \/ AssignPointer(u) \/ AssignDuplicate(u)
  PROVE  NodesInv' /\ HeapInv'
<1> USE DEF heap, head, reader, updater, history
<1>1. nodeHeap = {current} \cup Pending \cup Private
  BY ThreadAssumption
     DEF MemInv, HeapInv, Finished, AllocNode, AssignPointer, AssignDuplicate,
         GiveUp
<1>2. CASE AllocNode(u)
  <2>1. PICK n \in Nodes \ nodeHeap, newval \in Objs, again \in BOOLEAN :
          /\ newval \in Newvals(again)
          /\ nodeHeap' = nodeHeap \cup {n}
          /\ objHeap' = IF again THEN objHeap ELSE objHeap \cup {newval}
          /\ obj' = [obj EXCEPT ![n] = newval]
          /\ node' = [node EXCEPT ![u] = n]
          /\ reused' = (reused \/ again)
    BY <1>2 DEF AllocNode
  <2>2. /\ current' = current /\ retired' = retired
        /\ sp' = sp /\ want' = want
        /\ pc[u] = "alloc" /\ pc' = [pc EXCEPT ![u] = "assign"]
    BY <1>2 DEF AllocNode, Goto
  <2>3. Pending' = Pending
    BY <2>2 DEF Pending
  <2>4. /\ node'[u] = n /\ pc'[u] = "assign"
        /\ \A v \in Updaters :
             v # u => node'[v] = node[v] /\ pc'[v] = pc[v]
    BY <2>1, <2>2 DEF TypeInv, TypeOK
  <2>5. Private' = Private \cup {n}
    BY <2>2, <2>4 DEF Private
  <2>6. n \notin {current} \cup Pending \cup Private
    BY <1>1
  <2>7. NodesInv'
    <3>1. \A v \in Updaters : pc[v] = "assign" => node[v] # n
      BY <2>6 DEF Private
    <3>2. QED
      BY <2>2, <2>3, <2>4, <2>5, <2>6, <3>1 DEF MemInv, NodesInv
  <2>8. /\ obj'[n] = newval
        /\ \A m \in nodeHeap : m # n /\ obj'[m] = obj[m]
    BY <2>1 DEF TypeInv, TypeOK
  <2>9. {obj'[m] : m \in nodeHeap'} = {obj[m] : m \in nodeHeap} \cup {newval}
    BY <2>1, <2>8
  <2>10. HeapInv'
    <3>1. nodeHeap' = {current'} \cup Pending' \cup Private'
      BY <1>1, <2>1, <2>2, <2>3, <2>5
    <3>2. objHeap' \subseteq {obj'[m] : m \in nodeHeap'}
      BY <2>1, <2>9 DEF MemInv, HeapInv
    <3>3. ASSUME ~reused'
          PROVE  /\ {obj'[m] : m \in nodeHeap'} \subseteq objHeap'
                 /\ \A m, k \in nodeHeap' : obj'[m] = obj'[k] => m = k
      <4>1. ~reused /\ ~again /\ newval \notin objHeap
        BY <2>1, <3>3 DEF Newvals
      <4>2. \A m \in nodeHeap : obj[m] # newval
        BY <4>1 DEF MemInv, HeapInv
      <4>3. QED
        BY <2>1, <2>8, <2>9, <4>1, <4>2 DEF MemInv, HeapInv
    <3>4. QED
      BY <3>1, <3>2, <3>3 DEF HeapInv
  <2>11. QED
    BY <2>7, <2>10
<1>3. CASE AssignPointer(u)
  <2>1. /\ current' = node[u] /\ retired' = Append(retired, current)
        /\ sp = NoThread /\ sp' = NoThread
        /\ pc[u] = "assign" /\ pc' = [pc EXCEPT ![u] = "sync"]
        /\ node' = node /\ obj' = obj /\ nodeHeap' = nodeHeap
        /\ objHeap' = objHeap /\ reused' = reused
    BY <1>3 DEF AssignPointer, Goto
  <2>2. /\ Pending' = Pending \cup {current}
        /\ \A i, j \in 1..Len(retired') : retired'[i] = retired'[j] => i = j
    BY <1>3, PendingRetire DEF MemInv
  <2>3. /\ Private' = Private \ {node[u]} /\ node[u] \in Private
        /\ \A v \in Updaters : pc'[v] = "assign" => pc[v] = "assign"
    BY <2>1, PrivateGivenUp DEF MemInv
  <2>4. NodesInv'
    BY <2>1, <2>2, <2>3 DEF MemInv, NodesInv
  <2>5. nodeHeap' = {current'} \cup Pending' \cup Private'
    BY <1>1, <2>1, <2>2, <2>3
  <2>6. HeapInv'
    BY <2>1, <2>5 DEF MemInv, HeapInv
  <2>7. QED
    BY <2>4, <2>6
<1>4. CASE AssignDuplicate(u)
  <2>1. /\ current' = current /\ retired' = retired
        /\ sp = NoThread /\ sp' = NoThread
        /\ pc[u] = "assign" /\ pc' = [pc EXCEPT ![u] = "sync"]
        /\ node' = node /\ obj' = obj /\ nodeHeap' = nodeHeap \ {node[u]}
        /\ objHeap' = objHeap /\ reused' = reused
        /\ obj[node[u]] \in RetiredObjs
    BY <1>4 DEF AssignDuplicate, GiveUp, Goto
  <2>2. Pending' = Pending /\ Pending = {retired[i] : i \in 1..Len(retired)}
    BY <2>1, PendingPart DEF Pending
  <2>3. /\ Private' = Private \ {node[u]} /\ node[u] \in Private
        /\ \A v \in Updaters : pc'[v] = "assign" => pc[v] = "assign"
    BY <2>1, PrivateGivenUp DEF MemInv
  <2>4. NodesInv'
    BY <2>1, <2>2, <2>3 DEF MemInv, NodesInv
  <2>5. PICK m \in Pending : obj[m] = obj[node[u]]
    BY <2>1, <2>2 DEF RetiredObjs
  <2>6. m \in nodeHeap /\ m # node[u] /\ node[u] \in nodeHeap
    BY <1>1, <2>3 DEF MemInv, NodesInv
  <2>7. nodeHeap' = {current'} \cup Pending' \cup Private'
    BY <1>1, <2>1, <2>2, <2>3 DEF MemInv, NodesInv
  <2>8. {obj[n] : n \in nodeHeap'} = {obj[n] : n \in nodeHeap}
    BY <2>1, <2>5, <2>6
  <2>9. HeapInv'
    BY <2>1, <2>7, <2>8 DEF MemInv, HeapInv
  <2>10. QED
    BY <2>4, <2>9
<1>5. QED
  BY <1>2, <1>3, <1>4

\* synchronize_rcu(): what is pending is freed node by node, with its object.
LEMMA MemInvSync ==
  ASSUME TypeInv, MemInv, NEW u \in Updaters,
         SyncLock(u) \/ SyncWait(u) \/ SyncFree(u) \/ SyncUnlock(u)
  PROVE  NodesInv' /\ HeapInv'
<1> USE DEF heap, head, reader, updater, history
<1>1. /\ ~Finished
      /\ Private' = Private
      /\ \A v \in Updaters : pc'[v] = "assign" <=> pc[v] = "assign"
      /\ current' = current /\ node' = node /\ obj' = obj /\ reused' = reused
  <2>1. /\ pc[u] \in {"sync", "wait", "free"}
        /\ pc'[u] # "assign"
        /\ \A v \in Updaters : v # u => pc'[v] = pc[v]
        /\ node' = node
    BY DEF SyncLock, StartSync, SyncWait, SyncFree, SyncUnlock,
           EndSync, Goto, TypeInv, TypeOK
  <2>2. \A v \in Updaters : pc'[v] = "assign" <=> pc[v] = "assign"
    BY <2>1
  <2>3. QED
    BY <2>1, <2>2
       DEF SyncLock, StartSync, SyncWait, SyncFree, SyncUnlock,
           EndSync, Private, Finished
<1>2. u # NoThread /\ want[u] \in Nat \ {0} /\ Len(retired) \in Nat
  BY ThreadAssumption DEF TypeInv, TypeOK
<1>3. CASE SyncLock(u)
  <2>1. /\ sp = NoThread /\ sp' = u /\ retired' = retired /\ want'[u] = 1
        /\ nodeHeap' = nodeHeap /\ objHeap' = objHeap
    BY <1>3 DEF SyncLock, StartSync, TypeInv, TypeOK
  <2>2. Pending' = Pending
    BY <1>2, <2>1 DEF Pending
  <2>3. QED
    BY <1>1, <2>1, <2>2, HeapFrame
<1>4. CASE SyncWait(u)
  <2>1. /\ sp' = sp /\ retired' = retired /\ want' = want
        /\ nodeHeap' = nodeHeap /\ objHeap' = objHeap
    BY <1>4 DEF SyncWait
  <2>2. Pending' = Pending
    BY <2>1 DEF Pending
  <2>3. QED
    BY <1>1, <2>1, <2>2, HeapFrame
<1>5. CASE SyncFree(u)
  <2> DEFINE n == retired[want[u]]
  <2>1. /\ retired' = retired
        /\ nodeHeap' = nodeHeap \ {n} /\ objHeap' = objHeap \ {obj[n]}
    BY <1>5 DEF SyncFree
  <2>2. n \in Pending /\ Pending' = Pending \ {n}
    BY <1>5, PendingFree DEF MemInv
  <2>3. NodesInv'
    BY <1>1, <2>1, <2>2 DEF MemInv, NodesInv
  <2>4. nodeHeap = {current} \cup Pending \cup Private
    BY <1>1 DEF MemInv, HeapInv
  <2>5. nodeHeap' = {current'} \cup Pending' \cup Private'
    BY <1>1, <2>1, <2>2, <2>4 DEF MemInv, NodesInv
  <2>6. n \in nodeHeap
    BY <2>2, <2>4
  <2>7. objHeap' \subseteq {obj[m] : m \in nodeHeap'}
    BY <2>1, <2>6 DEF MemInv, HeapInv
  <2>8. HeapInv'
    BY <1>1, <2>1, <2>5, <2>6, <2>7 DEF MemInv, HeapInv
  <2>9. QED
    BY <2>3, <2>8
<1>6. CASE SyncUnlock(u)
  <2>1. /\ sp = u /\ want[u] > Len(retired)
        /\ sp' = NoThread /\ retired' = <<>>
        /\ nodeHeap' = nodeHeap /\ objHeap' = objHeap
    BY <1>6 DEF SyncUnlock, EndSync, MemInv, LockInv, TypeInv, TypeOK
  <2>2. Pending = {}
    BY <1>2, <2>1, PendingPart
  <2>3. Len(retired') = 0
    BY <2>1
  <2>4. Pending' = {}
    BY <2>1, <2>3 DEF Pending
  <2>5. NodesInv'
    BY <1>1, <2>2, <2>3, <2>4 DEF MemInv, NodesInv
  <2>6. HeapInv'
    BY <1>1, <2>1, <2>2, <2>4 DEF MemInv, HeapInv
  <2>7. QED
    BY <2>5, <2>6
<1>7. QED
  BY <1>3, <1>4, <1>5, <1>6

\* When all have finished only the current node is left to rcu_free().
LEMMA OnlyCurrentLeft ==
  ASSUME TypeInv, MemInv, Finished
  PROVE  Pending = {} /\ Private = {}
<1>1. Private = {}
  BY DEF Finished, Private
<1>2. retired = <<>>
  BY DEF Finished, MemInv, WalkedInv
<1>3. Pending \subseteq {retired[i] : i \in 1..Len(retired)} /\ Len(retired) = 0
  BY <1>2, PendingPart
<1>4. QED
  BY <1>1, <1>3

\* Every step keeps the memory in order.
LEMMA MemInvStep == TypeInv /\ MemInv /\ [Next]_vars => MemInv'
<1> SUFFICES ASSUME TypeInv, MemInv, [Next]_vars PROVE NodesInv' /\ HeapInv'
  BY LockInvStep DEF MemInv
<1> USE DEF heap, head, reader, updater, history
<1>1. ASSUME NEW r \in Readers, ReaderStep(r) PROVE NodesInv' /\ HeapInv'
  <2>1. /\ retired' = retired /\ sp' = sp /\ want' = want /\ node' = node
        /\ current' = current /\ obj' = obj /\ reused' = reused
        /\ nodeHeap' = nodeHeap /\ objHeap' = objHeap
        /\ pc[r] # "done"
        /\ \A u \in Updaters : pc'[u] = pc[u]
    BY <1>1, ThreadAssumption
       DEF ReaderStep, ReadLockLoad, ReadLockInc, Dereference, ReadUnlock,
           EndSection, Goto, TypeInv, TypeOK
  <2>2. Pending' = Pending /\ Private' = Private /\ ~Finished
    BY <2>1 DEF Pending, Private, Finished
  <2>3. QED
    BY <2>1, <2>2, HeapFrame
<1>2. ASSUME NEW u \in Updaters, UpdaterStep(u) PROVE NodesInv' /\ HeapInv'
  BY <1>2, MemInvAssign, MemInvSync DEF UpdaterStep
<1>3. CASE RcuFree
  <2>1. Pending = {} /\ Private = {} /\ Finished
    BY <1>3, OnlyCurrentLeft DEF RcuFree
  <2>2. /\ nodeHeap' = nodeHeap \ {current}
        /\ objHeap' = objHeap \ {obj[current]}
        /\ current' = current /\ retired' = retired /\ sp' = sp
        /\ want' = want /\ node' = node /\ pc' = pc /\ reused' = reused
    BY <1>3 DEF RcuFree
  <2>3. Pending' = {} /\ Private' = {} /\ Finished'
    BY <2>1, <2>2 DEF Pending, Private, Finished
  <2>4. nodeHeap' = {} /\ objHeap' = {}
    BY <2>1, <2>2 DEF MemInv, HeapInv
  <2>5. QED
    BY <2>2, <2>3, <2>4 DEF MemInv, NodesInv, HeapInv
<1>4. CASE UNCHANGED vars
  <2>1. Pending' = Pending /\ Private' = Private /\ Finished' = Finished
    BY <1>4 DEF vars, Pending, Private, Finished
  <2>2. QED
    BY <1>4, <2>1, HeapFrame DEF vars
<1>5. QED
  BY <1>1, <1>2, <1>3, <1>4 DEF Next

\* Types and memory are in order in every reachable state.
LEMMA MemInvariant == Spec => [](TypeInv /\ MemInv)
<1>1. Init => TypeInv /\ MemInv
  BY TypeInit, MemInvInit
<1>2. (TypeInv /\ MemInv) /\ [Next]_vars => (TypeInv /\ MemInv)'
  BY TypeStep, MemInvStep
<1>3. QED
  BY <1>1, <1>2, PTL DEF Spec

\* However updaters retire and free at the same time, the nodes of the list
\* and the current one are different and allocated, and so are their objects
\* if each was passed once: nothing is freed twice.
THEOREM RetiredStaysIntact == Spec => []RetiredIntact
<1>1. TypeInv /\ MemInv => RetiredIntact
  <2> SUFFICES ASSUME TypeInv, MemInv, ~Exited PROVE RetiredIntact
    BY DEF RetiredIntact
  <2>1. nodeHeap = {current} \cup Pending \cup Private
    BY DEF Exited, MemInv, HeapInv
  <2>2. QED
    BY <2>1 DEF RetiredIntact, MemInv, NodesInv, HeapInv
<1>2. QED
  BY <1>1, MemInvariant, PTL

\* Everything allocated is freed once.  Every node has one owner until the
\* program ends, and then everything has been freed, whatever objects were passed
\* again and whatever readers did to the counts; no object is freed twice if none
\* is passed twice.
THEOREM AllFreedOnce == Spec => []AllFreed
<1>1. TypeInv /\ MemInv => AllFreed
  <2> SUFFICES ASSUME TypeInv, MemInv PROVE AllFreed
    OBVIOUS
  <2>1. Exited => nodeHeap = {} /\ objHeap = {}
    BY DEF Exited, MemInv, HeapInv
  <2>2. ASSUME ~Exited PROVE nodeHeap = {current} \cup Pending \cup Private
    BY <2>2 DEF Exited, MemInv, HeapInv
  <2>3. ASSUME ~reused PROVE FreesAllocated
    <3>1. ASSUME NEW n \in nodeHeap PROVE obj[n] \in objHeap
      BY <2>3, <3>1 DEF MemInv, HeapInv
    <3>2. ASSUME NEW u \in Updaters, pc[u] = "free"
          PROVE  retired[want[u]] \in nodeHeap
      <4>1. sp = u /\ sp # NoThread /\ want[u] \in want[sp]..Len(retired)
        BY <3>2, ThreadAssumption DEF MemInv, LockInv, TypeInv, TypeOK
      <4>2. retired[want[u]] \in Pending
        BY <4>1, PendingPart
      <4>3. ~Exited
        BY <3>2 DEF Exited, Finished
      <4>4. QED
        BY <2>2, <4>2, <4>3
    <3>3. Finished /\ ~Exited => current \in nodeHeap
      BY DEF Exited
    <3>4. QED
      BY <3>1, <3>2, <3>3 DEF FreesAllocated
  <2>4. QED
    BY <2>1, <2>2, <2>3 DEF AllFreed, MemInv, NodesInv, HeapInv
<1>2. QED
  BY <1>1, MemInvariant, PTL

-----------------------------------------------------------------------------
(* The counts *)

Counted(n) == {r \in guarded : cur[r] = n}

\* As long as no increment came too late: who is inside is counted, in a node
\* that is current or pending and not condemned; the counts of the allocated
\* nodes are exact; and a reader uses the object of its node.
CountInv ==
  ~late =>
    /\ \A r \in Readers : pc[r] \in {"deref", "use"} <=> r \in guarded
    /\ \A r \in guarded : cur[r] \in Countable
    /\ \A n \in nodeHeap \cup {current} :
         count[n] = Cardinality(Counted(n))
    /\ \A r \in Readers :
         ref[r] # NoObj => pc[r] = "use" /\ ref[r] = obj[cur[r]]

\* Adding a reader to those counted in a node, or taking one away.
LEMMA CountedCard ==
  ASSUME TypeInv, NEW n
  PROVE  /\ Cardinality(Counted(n)) \in Nat
         /\ Cardinality(Counted(n)) = 0 <=> Counted(n) = {}
         /\ \A r \in Readers \ Counted(n) :
              /\ Cardinality(Counted(n) \cup {r}) = Cardinality(Counted(n)) + 1
              /\ Cardinality(Counted(n)) + 1 < CountMod
         /\ \A r \in Counted(n) :
              Cardinality(Counted(n) \ {r}) = Cardinality(Counted(n)) - 1
<1>1. Counted(n) \subseteq Readers /\ IsFiniteSet(Readers)
  BY CountAssumption DEF Counted, TypeInv, TypeOK
<1>2. IsFiniteSet(Counted(n))
  BY <1>1, FS_Subset
<1>3. Cardinality(Counted(n)) \in Nat
  BY <1>2, FS_CardinalityType
<1>4. Cardinality(Counted(n)) = 0 <=> Counted(n) = {}
  BY <1>2, FS_EmptySet
<1>5. ASSUME NEW r \in Readers \ Counted(n)
      PROVE  /\ Cardinality(Counted(n) \cup {r}) = Cardinality(Counted(n)) + 1
             /\ Cardinality(Counted(n)) + 1 < CountMod
  <2>1. Cardinality(Counted(n) \cup {r}) = Cardinality(Counted(n)) + 1
    BY <1>2, FS_AddElement
  <2>2. Counted(n) \cup {r} \subseteq Readers
    BY <1>1
  <2>3. Cardinality(Counted(n) \cup {r}) <= Cardinality(Readers)
    BY <1>1, <2>2, FS_Subset
  <2>4. Cardinality(Readers) \in Nat /\ Cardinality(Readers) < CountMod
    BY <1>1, CountAssumption, FS_CardinalityType
  <2>5. QED
    BY <1>3, <2>1, <2>3, <2>4, CountMin
<1>6. ASSUME NEW r \in Counted(n)
      PROVE  Cardinality(Counted(n) \ {r}) = Cardinality(Counted(n)) - 1
  BY <1>2, FS_RemoveElement
<1>7. QED
  BY <1>3, <1>4, <1>5, <1>6

\* At first nobody is counted.
LEMMA CountInvInit == Init => CountInv
<1> SUFFICES ASSUME Init PROVE CountInv
  OBVIOUS
<1>1. guarded = {} /\ \A r \in Readers : pc[r] = "load" /\ ref[r] = NoObj
  BY DEF Init
<1>2. \A n : Counted(n) = {}
  BY <1>1 DEF Counted
<1>3. \A n \in Nodes : count[n] = 0
  BY DEF Init
<1>4. nodeHeap \cup {current} \subseteq Nodes
  BY DEF Init
<1>5. QED
  BY <1>1, <1>2, <1>3, <1>4, FS_EmptySet DEF CountInv

\* Nobody is condemned but by the holder of sp, after it has found a count of
\* zero.
LEMMA CondemnedOne ==
  ASSUME TypeInv, LockInv
  PROVE  /\ sp = NoThread => Condemned = {}
         /\ \A u \in Updaters :
              /\ pc[u] = "wait" => Condemned = {}
              /\ pc[u] = "free" => Condemned = {retired[want[u]]}
  BY ThreadAssumption DEF Condemned, LockInv

\* Whoever can be counted in, is allocated.
LEMMA CountableAllocated ==
  ASSUME MemInv, ~Finished
  PROVE  Countable \subseteq nodeHeap /\ current \in nodeHeap
  BY DEF MemInv, HeapInv, Countable

\* Readers leave the nodes where they are.
LEMMA ReaderKeepsNodes ==
  ASSUME TypeInv, NEW r \in Readers, ReaderStep(r)
  PROVE  /\ Countable' = Countable /\ ~Finished
         /\ nodeHeap' = nodeHeap /\ current' = current /\ obj' = obj
<1>1. /\ retired' = retired /\ sp' = sp /\ want' = want
      /\ nodeHeap' = nodeHeap /\ current' = current /\ obj' = obj
      /\ pc[r] # "done"
      /\ \A u \in Updaters : pc'[u] = pc[u]
  BY ThreadAssumption
     DEF ReaderStep, ReadLockLoad, ReadLockInc, Dereference, ReadUnlock,
         EndSection, Goto, TypeInv, TypeOK, heap, head, reader, updater,
         history
<1>2. Pending' = Pending /\ Condemned' = Condemned
  BY <1>1 DEF Pending, Condemned
<1>3. QED
  BY <1>1, <1>2 DEF Countable, Finished

\* A reader that is counted in time keeps the counts exact.
LEMMA CountInvReader ==
  ASSUME TypeInv, MemInv, CountInv, NEW r \in Readers, ReaderStep(r), ~late'
  PROVE  CountInv'
<1> USE DEF heap, head, reader, updater, history
<1>1. /\ Countable' = Countable /\ ~Finished
      /\ nodeHeap' = nodeHeap /\ current' = current /\ obj' = obj
  BY ReaderKeepsNodes
<1>2. ~late
  BY DEF ReaderStep, ReadLockLoad, ReadLockInc, Dereference, ReadUnlock,
         EndSection
<1>3. /\ \A q \in Readers : pc[q] \in {"deref", "use"} <=> q \in guarded
      /\ \A q \in guarded : cur[q] \in Countable
      /\ \A n \in nodeHeap \cup {current} :
           count[n] = Cardinality(Counted(n))
      /\ \A q \in Readers :
           ref[q] # NoObj => pc[q] = "use" /\ ref[q] = obj[cur[q]]
  BY <1>2 DEF CountInv
<1>4. /\ \A q \in Readers : q # r => pc'[q] = pc[q]
      /\ guarded \subseteq Readers
  BY DEF ReaderStep, ReadLockLoad, ReadLockInc, Dereference, ReadUnlock,
         EndSection, Goto, TypeInv, TypeOK
<1>5. CASE ReadLockLoad(r)
  <2>1. /\ pc[r] = "load" /\ pc'[r] = "inc" /\ ref' = ref
        /\ guarded' = guarded /\ count' = count
        /\ \A q \in Readers : q # r => cur'[q] = cur[q]
    BY <1>5 DEF ReadLockLoad, Goto, TypeInv, TypeOK
  <2>2. r \notin guarded /\ \A q \in guarded : cur'[q] = cur[q]
    BY <1>3, <1>4, <2>1
  <2>3. \A n : Counted(n)' = Counted(n)
    BY <2>1, <2>2 DEF Counted
  <2>4. \A q \in Readers : ref[q] # NoObj => q # r
    BY <1>3, <2>1
  <2>5. QED
    BY <1>1, <1>3, <1>4, <2>1, <2>2, <2>3, <2>4 DEF CountInv
<1>6. CASE ReadLockInc(r)
  <2>1. /\ pc[r] = "inc" /\ pc'[r] = "deref" /\ ref' = ref /\ cur' = cur
        /\ cur[r] \in Countable /\ guarded' = guarded \cup {r}
        /\ count' = [count EXCEPT ![cur[r]] = (@ + 1) % CountMod]
    BY <1>6 DEF ReadLockInc, Goto, TypeInv, TypeOK
  <2>2. r \notin guarded /\ cur[r] \in nodeHeap /\ nodeHeap \subseteq Nodes
    BY <1>1, <1>3, <2>1, CountableAllocated DEF TypeInv, TypeOK
  <2>3. /\ Counted(cur[r])' = Counted(cur[r]) \cup {r}
        /\ r \notin Counted(cur[r])
        /\ \A n : n # cur[r] => Counted(n)' = Counted(n)
    BY <2>1, <2>2 DEF Counted
  <2>4. count'[cur[r]] = Cardinality(Counted(cur[r])')
    <3>1. /\ count[cur[r]] = Cardinality(Counted(cur[r]))
          /\ count[cur[r]] \in Nat /\ count[cur[r]] + 1 < CountMod
          /\ Cardinality(Counted(cur[r])') = count[cur[r]] + 1
      BY <1>3, <2>2, <2>3, CountedCard
    <3>2. (count[cur[r]] + 1) % CountMod = count[cur[r]] + 1
      BY <3>1, CountStep, CountMin
    <3>3. QED
      BY <2>1, <2>2, <3>1, <3>2 DEF TypeInv, TypeOK
  <2>5. \A n \in nodeHeap \cup {current} :
          n # cur[r] => count'[n] = count[n]
    BY <2>1, <2>2 DEF TypeInv, TypeOK
  <2>6. \A n \in (nodeHeap \cup {current})' :
          count'[n] = Cardinality(Counted(n)')
    <3>1. ASSUME NEW n \in nodeHeap \cup {current}
          PROVE  count'[n] = Cardinality(Counted(n)')
      <4>1. CASE n = cur[r]
        BY <2>1, <2>4, <4>1
      <4>2. CASE n # cur[r]
        <5>1. Counted(n)' = Counted(n) /\ count'[n] = count[n]
          BY <2>3, <2>5, <4>2
        <5>2. count[n] = Cardinality(Counted(n))
          BY <1>3
        <5>3. QED
          BY <5>1, <5>2
      <4>3. QED
        BY <4>1, <4>2
    <3>2. QED
      BY <1>1, <3>1
  <2>7. /\ \A q \in Readers : pc'[q] \in {"deref", "use"} <=> q \in guarded'
        /\ \A q \in guarded' : cur'[q] \in Countable'
    BY <1>1, <1>3, <1>4, <2>1
  <2>8. \A q \in Readers :
          ref'[q] # NoObj => pc'[q] = "use" /\ ref'[q] = obj'[cur'[q]]
    BY <1>1, <1>3, <1>4, <2>1
  <2>9. QED
    BY <2>6, <2>7, <2>8 DEF CountInv
<1>7. CASE Dereference(r)
  <2>1. /\ pc[r] = "deref" /\ pc'[r] = "use" /\ cur' = cur
        /\ guarded' = guarded /\ count' = count
        /\ ref' = [ref EXCEPT ![r] = obj[cur[r]]]
    BY <1>7 DEF Dereference, Goto, TypeInv, TypeOK
  <2>2. /\ ref'[r] = obj[cur[r]]
        /\ \A q \in Readers : q # r => ref'[q] = ref[q]
    BY <2>1 DEF TypeInv, TypeOK
  <2>3. \A n : Counted(n)' = Counted(n)
    BY <2>1 DEF Counted
  <2>4. QED
    BY <1>1, <1>3, <1>4, <2>1, <2>2, <2>3 DEF CountInv
<1>8. CASE ReadUnlock(r)
  <2>1. /\ pc[r] = "use" /\ pc'[r] \in {"load", "done"} /\ cur' = cur
        /\ guarded' = guarded \ {r}
        /\ ref' = [ref EXCEPT ![r] = NoObj]
        /\ count' = [count EXCEPT ![cur[r]] = (@ + CountMod - 1) % CountMod]
    BY <1>8 DEF ReadUnlock, EndSection, Goto, TypeInv, TypeOK
  <2>2. r \in guarded /\ cur[r] \in nodeHeap /\ nodeHeap \subseteq Nodes
    BY <1>1, <1>3, <2>1, CountableAllocated DEF TypeInv, TypeOK
  <2>3. /\ Counted(cur[r])' = Counted(cur[r]) \ {r}
        /\ r \in Counted(cur[r])
        /\ \A n : n # cur[r] => Counted(n)' = Counted(n)
    BY <2>1, <2>2 DEF Counted
  <2>4. count'[cur[r]] = Cardinality(Counted(cur[r])')
    <3>1. /\ count[cur[r]] = Cardinality(Counted(cur[r]))
          /\ count[cur[r]] \in Nat /\ count[cur[r]] # 0
          /\ Cardinality(Counted(cur[r])') = count[cur[r]] - 1
      BY <1>3, <2>2, <2>3, CountedCard
    <3>2. count[cur[r]] < CountMod
      BY <2>2, CountMin DEF TypeInv, TypeOK
    <3>3. (count[cur[r]] + CountMod - 1) % CountMod = count[cur[r]] - 1
      BY <3>1, <3>2, CountStep
    <3>4. QED
      BY <2>1, <2>2, <3>1, <3>3 DEF TypeInv, TypeOK
  <2>5. \A n \in nodeHeap \cup {current} :
          n # cur[r] => count'[n] = count[n]
    BY <2>1, <2>2 DEF TypeInv, TypeOK
  <2>6. /\ ref'[r] = NoObj
        /\ \A q \in Readers : q # r => ref'[q] = ref[q]
    BY <2>1 DEF TypeInv, TypeOK
  <2>7. \A n \in (nodeHeap \cup {current})' :
          count'[n] = Cardinality(Counted(n)')
    <3>1. ASSUME NEW n \in nodeHeap \cup {current}
          PROVE  count'[n] = Cardinality(Counted(n)')
      <4>1. CASE n = cur[r]
        BY <2>1, <2>4, <4>1
      <4>2. CASE n # cur[r]
        <5>1. Counted(n)' = Counted(n) /\ count'[n] = count[n]
          BY <2>3, <2>5, <4>2
        <5>2. count[n] = Cardinality(Counted(n))
          BY <1>3
        <5>3. QED
          BY <5>1, <5>2
      <4>3. QED
        BY <4>1, <4>2
    <3>2. QED
      BY <1>1, <3>1
  <2>8. /\ \A q \in Readers : pc'[q] \in {"deref", "use"} <=> q \in guarded'
        /\ \A q \in guarded' : cur'[q] \in Countable'
    BY <1>1, <1>3, <1>4, <2>1
  <2>9. \A q \in Readers :
          ref'[q] # NoObj => pc'[q] = "use" /\ ref'[q] = obj'[cur'[q]]
    BY <1>1, <1>3, <1>4, <2>1, <2>6
  <2>10. QED
    BY <2>7, <2>8, <2>9 DEF CountInv
<1>9. QED
  BY <1>5, <1>6, <1>7, <1>8 DEF ReaderStep

\* Updater steps: readers, counts and objects of the nodes that stay are left
\* alone, and no node with a reader in it ceases to be countable.
LEMMA CountFrame ==
  ASSUME CountInv, UNCHANGED <<cur, guarded, late, ref>>,
         \A r \in Readers : pc'[r] = pc[r],
         \A n \in (nodeHeap \cup {current})' :
            \/ n \in nodeHeap \cup {current} /\ count'[n] = count[n]
            \/ count'[n] = 0 /\ Cardinality(Counted(n)) = 0,
         ~late => \A r \in guarded : cur[r] \in Countable',
         ~late => \A r \in guarded : obj'[cur[r]] = obj[cur[r]]
  PROVE  CountInv'
<1> SUFFICES ASSUME ~late PROVE CountInv'
  BY DEF CountInv
<1>1. /\ \A q \in Readers : pc[q] \in {"deref", "use"} <=> q \in guarded
      /\ \A n \in nodeHeap \cup {current} :
           count[n] = Cardinality(Counted(n))
      /\ \A q \in Readers :
           ref[q] # NoObj => pc[q] = "use" /\ ref[q] = obj[cur[q]]
  BY DEF CountInv
<1>2. \A n : Counted(n)' = Counted(n)
  BY DEF Counted
<1>3. \A n \in (nodeHeap \cup {current})' :
        count'[n] = Cardinality(Counted(n)')
  BY <1>1, <1>2
<1>4. \A q \in Readers :
        ref'[q] # NoObj => pc'[q] = "use" /\ ref'[q] = obj'[cur'[q]]
  BY <1>1
<1>5. QED
  BY <1>1, <1>3, <1>4 DEF CountInv

\* What an updater step leaves alone.
LEMMA UpdaterKeepsReaders ==
  ASSUME TypeInv, NEW u \in Updaters, UpdaterStep(u)
  PROVE  /\ UNCHANGED <<cur, guarded, late, ref>>
         /\ \A r \in Readers : pc'[r] = pc[r]
         /\ ~Finished
<1> USE DEF heap, head, reader, updater, history
<1>1. /\ UNCHANGED <<cur, guarded, late, ref>>
      /\ \E l \in {"assign", "sync", "wait", "free", "alloc", "done"} :
           pc' = [pc EXCEPT ![u] = l]
      /\ pc[u] # "done"
  BY DEF UpdaterStep, AllocNode, AssignPointer, AssignDuplicate, GiveUp, SyncLock,
         StartSync, SyncWait, SyncFree, SyncUnlock, EndSync, Goto
<1>2. \A r \in Readers : pc'[r] = pc[r]
  BY <1>1, ThreadAssumption DEF TypeInv, TypeOK
<1>3. QED
  BY <1>1, <1>2 DEF Finished

\* Updaters leave the counts exact and free no node that has a reader in it.
LEMMA CountInvUpdater ==
  ASSUME TypeInv, MemInv, CountInv, NEW u \in Updaters, UpdaterStep(u)
  PROVE  CountInv'
<1> USE DEF heap, head, reader, updater, history
<1>1. /\ UNCHANGED <<cur, guarded, late, ref>>
      /\ \A r \in Readers : pc'[r] = pc[r]
      /\ ~Finished
  BY UpdaterKeepsReaders
<1>2. /\ Countable \subseteq nodeHeap
      /\ current \in nodeHeap
      /\ nodeHeap \subseteq Nodes
      /\ ~late => \A r \in guarded : cur[r] \in Countable
  BY <1>1, CountableAllocated DEF CountInv, TypeInv, TypeOK
<1>3. CASE AllocNode(u)
  <2>1. PICK n \in Nodes \ nodeHeap, newval \in Objs, again \in BOOLEAN :
          /\ newval \in Newvals(again)
          /\ nodeHeap' = nodeHeap \cup {n}
          /\ obj' = [obj EXCEPT ![n] = newval]
          /\ count' = [count EXCEPT ![n] = 0]
    BY <1>3 DEF AllocNode
  <2>2. /\ current' = current /\ retired' = retired
        /\ sp' = sp /\ want' = want
        /\ \A v \in Updaters : pc'[v] = "free" <=> pc[v] = "free"
    BY <1>3 DEF AllocNode, Goto, TypeInv, TypeOK
  <2>3. Countable' = Countable
    <3>1. Pending' = Pending /\ Condemned' = Condemned
      BY <2>2 DEF Pending, Condemned
    <3>2. QED
      BY <2>2, <3>1 DEF Countable
  <2>4. ~late => Cardinality(Counted(n)) = 0
    <3>1. ~late => Counted(n) = {}
      BY <1>2 DEF Counted
    <3>2. QED
      BY <3>1, FS_EmptySet
  <2>5. /\ count'[n] = 0
        /\ \A m \in nodeHeap : count'[m] = count[m] /\ obj'[m] = obj[m]
    BY <1>2, <2>1 DEF TypeInv, TypeOK
  <2>6. CASE late
    BY <1>1, <2>6 DEF CountInv
  <2>7. CASE ~late
    BY <1>1, <1>2, <2>1, <2>2, <2>3, <2>4, <2>5, <2>7, CountFrame
  <2>8. QED
    BY <2>6, <2>7
<1>4. CASE AssignPointer(u)
  <2>1. /\ current' = node[u] /\ nodeHeap' = nodeHeap
        /\ count' = count /\ obj' = obj
        /\ sp = NoThread /\ sp' = NoThread /\ pc[u] = "assign"
        /\ pc'[u] = "sync" /\ \A v \in Updaters : v # u => pc'[v] = pc[v]
    BY <1>4 DEF AssignPointer, Goto, TypeInv, TypeOK
  <2>2. node[u] \in nodeHeap
    BY <1>1, <2>1 DEF MemInv, HeapInv, Private
  <2>3. Pending' = Pending \cup {current}
    BY <1>4, PendingRetire DEF MemInv
  <2>4. Condemned = {} /\ Condemned' = {}
    BY <2>1, ThreadAssumption DEF MemInv, LockInv, Condemned
  <2>5. Countable \subseteq Countable'
    BY <2>3, <2>4 DEF Countable
  <2>6. QED
    BY <1>1, <1>2, <2>1, <2>2, <2>5, CountFrame
<1>5. CASE AssignDuplicate(u)
  <2>1. /\ current' = current /\ nodeHeap' \subseteq nodeHeap
        /\ count' = count /\ obj' = obj
        /\ retired' = retired /\ sp' = sp /\ want' = want
        /\ \A v \in Updaters : pc'[v] = "free" <=> pc[v] = "free"
    BY <1>5 DEF AssignDuplicate, GiveUp, Goto, TypeInv, TypeOK
  <2>2. Countable' = Countable
    <3>1. Pending' = Pending /\ Condemned' = Condemned
      BY <2>1 DEF Pending, Condemned
    <3>2. QED
      BY <2>1, <3>1 DEF Countable
  <2>3. QED
    BY <1>1, <1>2, <2>1, <2>2, CountFrame
<1>6. CASE SyncLock(u)
  <2>1. /\ current' = current /\ nodeHeap' = nodeHeap
        /\ count' = count /\ obj' = obj
        /\ retired' = retired /\ sp = NoThread /\ sp' = u /\ want'[u] = 1
        /\ \A v \in Updaters : pc'[v] = "free" <=> pc[v] = "free"
    BY <1>6 DEF SyncLock, StartSync, Goto, TypeInv, TypeOK
  <2>2. Condemned = {} /\ Condemned' = {}
    BY <2>1, ThreadAssumption DEF MemInv, LockInv, Condemned
  <2>3. Pending' = Pending
    BY <2>1, ThreadAssumption DEF Pending
  <2>4. Countable' = Countable
    BY <2>1, <2>2, <2>3 DEF Countable
  <2>5. QED
    BY <1>1, <1>2, <2>1, <2>4, CountFrame
<1>7. CASE SyncWait(u)
  <2> DEFINE n == retired[want[u]]
  <2>1. /\ current' = current /\ nodeHeap' = nodeHeap
        /\ count' = count /\ obj' = obj
        /\ retired' = retired /\ sp' = sp /\ want' = want
        /\ pc[u] = "wait" /\ pc'[u] = "free" /\ count[n] = 0
        /\ want[u] <= Len(retired)
        /\ \A v \in Updaters : v # u => pc'[v] = pc[v]
    BY <1>7 DEF SyncWait, Goto, TypeInv, TypeOK
  <2>2. \A v \in Updaters : pc'[v] = "free" <=> v = u
    BY <2>1 DEF MemInv, LockInv
  <2>3. Condemned = {} /\ Condemned' = {n}
    BY <2>1, <2>2, CondemnedOne DEF Condemned, MemInv
  <2>4. Pending' = Pending
    BY <2>1 DEF Pending
  <2>5. n \in nodeHeap
    <3>1. sp = u /\ u # NoThread
      BY <2>1, ThreadAssumption DEF MemInv, LockInv
    <3>2. n \in Pending
      BY <2>1, <3>1, PendingPart DEF TypeInv, TypeOK
    <3>3. QED
      BY <1>1, <3>2 DEF MemInv, HeapInv
  <2>6. ~late => \A r \in guarded : cur[r] # n
    BY <2>1, <2>5, CountedCard DEF CountInv, Counted
  <2>7. ~late => \A r \in guarded : cur[r] \in Countable'
    BY <1>2, <2>1, <2>3, <2>4, <2>6 DEF Countable
  <2>8. QED
    BY <1>1, <1>2, <2>1, <2>7, CountFrame
<1>8. CASE SyncFree(u)
  <2> DEFINE n == retired[want[u]]
  <2>1. /\ current' = current /\ nodeHeap' \subseteq nodeHeap
        /\ count' = count /\ obj' = obj
        /\ pc[u] = "free" /\ pc'[u] = "wait"
        /\ \A v \in Updaters : v # u => pc'[v] = pc[v]
    BY <1>8 DEF SyncFree, Goto, TypeInv, TypeOK
  <2>2. Pending' = Pending \ {n}
    BY <1>8, PendingFree DEF MemInv
  <2>3. \A v \in Updaters : pc'[v] # "free"
    BY <2>1 DEF MemInv, LockInv
  <2>4. Condemned = {n} /\ Condemned' = {}
    BY <2>1, <2>3, CondemnedOne DEF Condemned, MemInv
  <2>5. Countable \subseteq Countable'
    BY <2>1, <2>2, <2>4 DEF Countable
  <2>6. QED
    BY <1>1, <1>2, <2>1, <2>5, CountFrame
<1>9. CASE SyncUnlock(u)
  <2>1. /\ current' = current /\ nodeHeap' = nodeHeap
        /\ count' = count /\ obj' = obj
        /\ pc[u] = "wait" /\ sp = u /\ u # NoThread
        /\ want[u] > Len(retired)
        /\ \A v \in Updaters : pc'[v] = "free" <=> pc[v] = "free"
    BY <1>9, ThreadAssumption
       DEF SyncUnlock, EndSync, Goto, MemInv, LockInv, TypeInv, TypeOK
  <2>2. Pending = {}
    BY <2>1, PendingPart DEF TypeInv, TypeOK
  <2>3. Condemned' = {}
    BY <2>1 DEF MemInv, LockInv, Condemned
  <2>4. Countable \subseteq Countable'
    BY <2>1, <2>2, <2>3 DEF Countable
  <2>5. QED
    BY <1>1, <1>2, <2>1, <2>4, CountFrame
<1>10. QED
  BY <1>3, <1>4, <1>5, <1>6, <1>7, <1>8, <1>9 DEF UpdaterStep

\* Every step keeps the counts exact, or is an increment that comes too late.
LEMMA CountInvStep == TypeInv /\ MemInv /\ CountInv /\ [Next]_vars => CountInv'
<1> SUFFICES ASSUME TypeInv, MemInv, CountInv, [Next]_vars PROVE CountInv'
  OBVIOUS
<1>1. ASSUME NEW r \in Readers, ReaderStep(r) PROVE CountInv'
  BY <1>1, CountInvReader DEF CountInv
<1>2. CASE RcuFree \/ UNCHANGED vars
  <2>1. /\ UNCHANGED <<cur, guarded, late, ref, current, count, obj, pc>>
        /\ UNCHANGED <<retired, sp, want>>
        /\ nodeHeap' \subseteq nodeHeap
    BY <1>2 DEF RcuFree, vars, heap, head, reader, updater, history
  <2>2. Pending' = Pending /\ Condemned' = Condemned
    BY <2>1 DEF Pending, Condemned
  <2>3. Countable' = Countable
    BY <2>1, <2>2 DEF Countable
  <2>4. ~late => \A r \in guarded : cur[r] \in Countable
    BY DEF CountInv
  <2>5. QED
    BY <2>1, <2>3, <2>4, CountFrame
<1>3. QED
  BY <1>1, <1>2, CountInvUpdater DEF Next

\* The whole invariant holds in every reachable state.
LEMMA CountInvariant == Spec => [](TypeInv /\ MemInv /\ CountInv)
<1>1. Init => TypeInv /\ MemInv /\ CountInv
  BY TypeInit, MemInvInit, CountInvInit
<1>2. (TypeInv /\ MemInv /\ CountInv) /\ [Next]_vars
        => (TypeInv /\ MemInv /\ CountInv)'
  BY TypeStep, MemInvStep, CountInvStep
<1>3. QED
  BY <1>1, <1>2, PTL DEF Spec

\* The count of a node that is in use is the number of its readers, for any
\* number of readers and updaters, unless a reader was counted too late.
THEOREM CountsStayExact == Spec => []CountExact
<1>1. TypeInv /\ MemInv /\ CountInv => CountExact
  <2> SUFFICES ASSUME TypeInv, MemInv, CountInv, ~late,
                      NEW n \in {current} \cup Pending
               PROVE  count[n] = Cardinality(Counted(n))
    BY DEF CountExact, Counted
  <2>1. n \in nodeHeap \cup {current}
    BY OnlyCurrentLeft DEF MemInv, HeapInv
  <2>2. QED
    BY <2>1 DEF CountInv
<1>2. QED
  BY <1>1, CountInvariant, PTL

\* A reader that was counted in time keeps its node and its object, for any
\* number of updaters: what lies between the load of head->current and the
\* increment of the count is all that rcu_read_lock() gets wrong.
THEOREM ReadersKeepTheirs == Spec => []GuardedReadersSafe
<1>1. TypeInv /\ MemInv /\ CountInv => GuardedReadersSafe
  <2> SUFFICES ASSUME TypeInv, MemInv, CountInv, ~late, NEW r \in Readers,
                      pc[r] \in {"deref", "use"} \/ ref[r] # NoObj
               PROVE  /\ cur[r] \in nodeHeap
                      /\ ref[r] # NoObj /\ ~reused => ref[r] \in objHeap
    BY DEF GuardedReadersSafe
  <2>1. /\ pc[r] \in {"deref", "use"}
        /\ ref[r] # NoObj => ref[r] = obj[cur[r]]
        /\ cur[r] \in Countable
    BY DEF CountInv
  <2>2. ~Finished
    BY <2>1 DEF Finished
  <2>3. cur[r] \in nodeHeap
    BY <2>1, <2>2, CountableAllocated
  <2>4. QED
    BY <2>1, <2>3 DEF MemInv, HeapInv
<1>2. QED
  BY <1>1, CountInvariant, PTL
=============================================================================
