------------------------------ MODULE Barrier ------------------------------
(***************************************************************************)
(* The sense-reversing barrier of barrier/centralized_barrier.h.  Every    *)
(* thread calls barrier() on the same sequence of barriers; its sense is a *)
(* thread-local variable of the header, one for all barriers.              *)
(*                                                                         *)
(* The locked part of barrier() touches nothing but count, which only      *)
(* locked code touches, so flipping the sense and counting are one action; *)
(* the store and the loads of flag are outside the lock.                   *)
(***************************************************************************)
EXTENDS Naturals, Sequences, FiniteSets

CONSTANTS Parties,    \* the threads that meet
          Barriers,
          Schedule    \* the barriers every thread calls, in order

ASSUME PartiesAssumption == IsFiniteSet(Parties)

ASSUME ScheduleAssumption == Schedule \in Seq(Barriers)

VARIABLES flag,          \* flag[b]
          count,         \* count[b]
          local_sense,   \* local_sense[t]
          place,         \* "out", "spin" or "release"
          entered,       \* entered[t]: calls of barrier() t has begun
          passed,        \* passed[t]: calls of barrier() t has returned from
          episode        \* history: barrier openings so far

barrierVars == <<flag, count, local_sense, place, entered, passed, episode>>

\* The n of barrier(b, n).
NrParties == Cardinality(Parties)

\* The barrier t is in.
At(t) == Schedule[entered[t]]

BarrierInit ==
  /\ flag        = [b \in Barriers |-> 0]
  /\ count       = [b \in Barriers |-> 0]
  /\ local_sense = [t \in Parties |-> 0]
  /\ place       = [t \in Parties |-> "out"]
  /\ entered     = [t \in Parties |-> 0]
  /\ passed      = [t \in Parties |-> 0]
  /\ episode     = 0

\* The call: reverse the sense and register under the lock; the last thread
\* to arrive resets the count (to "reset") and goes on to open the barrier.
Register(t, reset, last) ==
  /\ place[t] = "out"
  /\ entered[t] < Len(Schedule)
  /\ local_sense' = [local_sense EXCEPT ![t] = 1 - @]
  /\ entered' = [entered EXCEPT ![t] = @ + 1]
  /\ LET b == Schedule[entered[t] + 1]
     IN  IF count[b] + 1 = last
         THEN /\ count' = [count EXCEPT ![b] = reset]
              /\ place' = [place EXCEPT ![t] = "release"]
         ELSE /\ count' = [count EXCEPT ![b] = @ + 1]
              /\ place' = [place EXCEPT ![t] = "spin"]
  /\ UNCHANGED <<flag, passed, episode>>

\* Seeded defects: the count is not reset; the test is made before the
\* increment.
ArriveNoReset(t) == Register(t, NrParties, NrParties)

ArriveEarly(t) == Register(t, 0, NrParties - 1)

Arrive(t) == Register(t, 0, NrParties)

Return(t) ==
  /\ place' = [place EXCEPT ![t] = "out"]
  /\ passed' = [passed EXCEPT ![t] = @ + 1]

Open(t, sense) ==
  /\ place[t] = "release"
  /\ flag' = [flag EXCEPT ![At(t)] = sense]
  /\ episode' = episode + 1
  /\ Return(t)
  /\ UNCHANGED <<count, local_sense, entered>>

\* The last thread opens the barrier with its own sense.
Release(t) == Open(t, local_sense[t])

\* The others spin until the flag has their sense.
Spin(t) ==
  /\ place[t] = "spin"
  /\ flag[At(t)] = local_sense[t]
  /\ Return(t)
  /\ UNCHANGED <<flag, count, local_sense, entered, episode>>

Done == \A t \in Parties : place[t] = "out" /\ entered[t] = Len(Schedule)

BarrierNext ==
  \/ \E t \in Parties : Arrive(t) \/ Release(t) \/ Spin(t)
  \/ Done /\ UNCHANGED barrierVars

BarrierSpec == BarrierInit /\ [][BarrierNext]_barrierVars

\* Every thread is scheduled.
FairBarrierSpec ==
  /\ BarrierSpec
  /\ \A t \in Parties : WF_barrierVars(Arrive(t) \/ Release(t) \/ Spin(t))

-----------------------------------------------------------------------------
(* Properties *)

\* Every variable has its type.
BarrierTypeOK ==
  /\ flag \in [Barriers -> {0, 1}]
  /\ count \in [Barriers -> Nat]
  /\ local_sense \in [Parties -> {0, 1}]
  /\ place \in [Parties -> {"out", "spin", "release"}]
  /\ entered \in [Parties -> 0..Len(Schedule)]
  /\ passed \in [Parties -> Nat]
  /\ episode \in Nat

\* What centralized_barrier.c shows by printing [1] before and [2] after the
\* call: nobody returns from its k-th call of barrier() before everybody has
\* begun its own k-th call.
Separation == \A s, t \in Parties : passed[s] <= entered[t]

\* A fast thread that enters the next round while slow ones still spin in the
\* old one neither traps them nor lets itself through: a thread that still
\* spins on an opened round can always leave, and the count of the new round
\* has not been touched by the old one.
NoLostWakeup ==
  \A t \in Parties :
    place[t] = "spin" =>
      \/ \E s \in Parties : entered[s] < entered[t]   \* still awaited
      \/ \E s \in Parties : place[s] = "release"      \* about to open
      \/ flag[At(t)] = local_sense[t]                 \* open

\* Everybody gets through the whole schedule.
EverybodyPasses == <>Done
=============================================================================
