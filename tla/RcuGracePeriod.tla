--------------------------- MODULE RcuGracePeriod ---------------------------
(***************************************************************************)
(* What every RCU flavour of this repository promises its callers, however *)
(* it detects the end of a grace period: an updater that calls             *)
(* synchronize_rcu() (synchronize_lrcu() in the kernel flavour) returns    *)
(* only when every reader that was inside a read-side critical section at  *)
(* the moment of the call has left it at least once.  Readers never wait.  *)
(*                                                                         *)
(* The module is abstract: it has no counters, no locks and no memory.     *)
(* ThrdRcu implements it under the conditions its README section names.    *)
(***************************************************************************)
CONSTANTS Readers,    \* threads that run read-side critical sections
          Updaters    \* threads that call synchronize_rcu()

VARIABLES inside,     \* the readers inside a read-side critical section
          syncing,    \* the updaters inside synchronize_rcu()
          waiting     \* waiting[u]: readers u still has to see leave

vars == <<inside, syncing, waiting>>

TypeOK ==
  /\ inside  \subseteq Readers
  /\ syncing \subseteq Updaters
  /\ waiting \in [Updaters -> SUBSET Readers]

Init ==
  /\ inside  = {}
  /\ syncing = {}
  /\ waiting = [u \in Updaters |-> {}]

\* A reader never waits, whatever the updaters do.
ReadLock(r) ==
  /\ r \notin inside
  /\ inside' = inside \cup {r}
  /\ UNCHANGED <<syncing, waiting>>

\* Leaving releases the reader from every grace period that waits for it.
ReadUnlock(r) ==
  /\ r \in inside
  /\ inside'  = inside \ {r}
  /\ waiting' = [u \in Updaters |-> waiting[u] \ {r}]
  /\ UNCHANGED syncing

\* The grace period of u covers exactly the sections open at the call.
SynchronizeBegin(u) ==
  /\ u \notin syncing
  /\ syncing' = syncing \cup {u}
  /\ waiting' = [waiting EXCEPT ![u] = inside]
  /\ UNCHANGED inside

SynchronizeEnd(u) ==
  /\ u \in syncing
  /\ waiting[u] = {}
  /\ syncing' = syncing \ {u}
  /\ UNCHANGED <<inside, waiting>>

Next ==
  \/ \E r \in Readers  : ReadLock(r) \/ ReadUnlock(r)
  \/ \E u \in Updaters : SynchronizeBegin(u) \/ SynchronizeEnd(u)

Spec == Init /\ [][Next]_vars
=============================================================================
