------------------------------ MODULE Seqlock ------------------------------
(***************************************************************************)
(* The sequence lock of seqlock/seqlock.h, used the way its operations are *)
(* meant to be paired: writers bracket two stores with write_seqlock() and *)
(* write_sequnlock(); a reader copies the two words                        *)
(*   - without the lock, read_seqbegin() .. read_seqretry(),               *)
(*   - with the lock, read_seqlock_excl() .. read_sequnlock_excl(), or     *)
(*   - read_seqbegin_or_lock() .. need_seqretry() .. done_seqretry().      *)
(* The repository has no caller of these; the protected words and the      *)
(* order in which a client touches them are external.                      *)
(*                                                                         *)
(* Every access to the lock is an atomic operation and one action.  Those  *)
(* that write are locked instructions, and readers of the sequence only    *)
(* load, so on x86 the interleavings are all there is.                     *)
(***************************************************************************)
EXTENDS Integers, FiniteSets

CONSTANTS Writers, Readers, NoThread,
          Kinds,        \* the ways readers may read: functions from Readers
          CountMod,     \* 2^32: seqcount is an atomic_int
          MaxTry,       \* 10 in read_seqbegin_or_lock()
          MaxWrites,    \* writes per writer
          MaxReads      \* reads per reader

ASSUME ThreadAssumption ==
  /\ Writers \cap Readers = {}
  /\ NoThread \notin Writers \cup Readers
  /\ Kinds \subseteq [Readers -> {"lockless", "excl", "or_lock"}]

ASSUME CountAssumption ==
  /\ CountMod \in Nat /\ CountMod > 1 /\ CountMod % 2 = 0
  /\ MaxTry \in Nat

VARIABLES seqcount,   \* 0 .. CountMod - 1, the last one being -1
          lock,       \* the holder of __write_lock, or NoThread
          data,       \* data[i]: the write that last stored word i, 0 for none
          writes,     \* history: write sections begun so far
          kind,       \* kind[r]: how r reads
          pc,
          seq,        \* seq[r]: what the begin operation gave r
          try_cnt,    \* try_cnt[r], in read_seqbegin_or_lock()
          copy,       \* copy[r]: what r copied of the two words
          begun,      \* history: writes when r began
          until,      \* history: writes when r was told not to retry
          done        \* done[t]: sections t has completed

clientVars == <<data, copy>>
historyVars == <<writes, begun, until>>
readerVars == <<kind, seq, try_cnt, done>>
vars == <<seqcount, lock, clientVars, historyVars, readerVars, pc>>

Threads == Writers \cup Readers

\* The int -1, which marks a locked reader.
Minus1 == CountMod - 1

\* The write sections: from one atomic_fetch_add to the other.
Writing == {w \in Writers : pc[w] \in {"store1", "store2", "unlock"}}

NoData == [i \in {1, 2} |-> 0]

Init ==
  /\ seqcount = 0
  /\ lock = NoThread
  /\ data = NoData
  /\ writes = 0
  /\ kind \in Kinds
  /\ pc = [t \in Threads |-> "begin"]
  /\ seq = [r \in Readers |-> 0]
  /\ try_cnt = [r \in Readers |-> 0]
  /\ copy = [r \in Readers |-> NoData]
  /\ begun = [r \in Readers |-> 0]
  /\ until = [r \in Readers |-> 0]
  /\ done = [t \in Threads |-> 0]

Goto(t, label) == pc' = [pc EXCEPT ![t] = label]

\* Seeded defect: a count that does not wrap around.
AdvanceNoWrap == seqcount' = seqcount + 1

\* atomic_fetch_add on seqcount; the 32-bit count wraps around.
Advance == seqcount' = IF seqcount = Minus1 THEN 0 ELSE seqcount + 1

-----------------------------------------------------------------------------
(* Writers *)

TakeWriteLock(w) ==
  /\ pc[w] = "begin"
  /\ done[w] < MaxWrites
  /\ lock' = w
  /\ Goto(w, "count")
  /\ UNCHANGED <<seqcount, clientVars, historyVars, readerVars>>

\* Seeded defect: write_seqlock() does not wait for __write_lock.
WriteSeqlockNoWait(w) == TakeWriteLock(w)

\* write_seqlock() spins on __write_lock ...
WriteSeqlock(w) == lock = NoThread /\ TakeWriteLock(w)

\* ... and makes the count odd.
WriteBegin(w) ==
  /\ pc[w] = "count"
  /\ Advance
  /\ writes' = writes + 1
  /\ Goto(w, "store1")
  /\ UNCHANGED <<lock, clientVars, begun, until, readerVars>>

\* The client's stores, one word after the other.
WriteData(w) ==
  /\ \/ pc[w] = "store1" /\ data' = [data EXCEPT ![1] = writes]
                         /\ Goto(w, "store2")
     \/ pc[w] = "store2" /\ data' = [data EXCEPT ![2] = writes]
                         /\ Goto(w, "unlock")
  /\ UNCHANGED <<seqcount, lock, copy, historyVars, readerVars>>

\* write_sequnlock() makes the count even ...
WriteEnd(w) ==
  /\ pc[w] = "unlock"
  /\ Advance
  /\ Goto(w, "clear")
  /\ UNCHANGED <<lock, clientVars, historyVars, readerVars>>

EndWrite(w, holder) ==
  /\ pc[w] = "clear"
  /\ lock' = holder
  /\ done' = [done EXCEPT ![w] = @ + 1]
  /\ Goto(w, "begin")
  /\ UNCHANGED <<seqcount, clientVars, historyVars, kind, seq, try_cnt>>

\* Seeded defect: write_sequnlock() does not clear __write_lock.
WriteSequnlockHeld(w) == EndWrite(w, lock)

\* ... and clears __write_lock.
WriteSequnlock(w) == EndWrite(w, NoThread)

WriterStep(w) ==
  \/ WriteSeqlock(w) \/ WriteBegin(w) \/ WriteData(w)
  \/ WriteEnd(w) \/ WriteSequnlock(w)

-----------------------------------------------------------------------------
(* Readers *)

Odd(c) == c % 2 = 1

\* read_seqbegin(), and the loop of read_seqbegin_or_lock() when it leaves by
\* its condition: the load that finds the count odd.
ReadSeqbegin(r) ==
  /\ pc[r] = "begin"
  /\ done[r] < MaxReads
  /\ \/ kind[r] = "lockless"
     \/ kind[r] = "or_lock" /\ try_cnt[r] <= MaxTry
  /\ Odd(seqcount)
  /\ seq' = [seq EXCEPT ![r] = seqcount]
  /\ try_cnt' = [try_cnt EXCEPT ![r] = 0]
  /\ begun' = [begun EXCEPT ![r] = writes]
  /\ Goto(r, "copy1")
  /\ UNCHANGED <<seqcount, lock, clientVars, writes, until, kind, done>>

\* read_seqbegin_or_lock(): a load that finds the count even costs a try ...
ReadSeqbeginRetry(r) ==
  /\ pc[r] = "begin"
  /\ done[r] < MaxReads
  /\ kind[r] = "or_lock"
  /\ try_cnt[r] <= MaxTry
  /\ ~Odd(seqcount)
  /\ try_cnt' = [try_cnt EXCEPT ![r] = @ + 1]
  /\ UNCHANGED <<seqcount, lock, clientVars, historyVars, kind, seq, done, pc>>

TakeReadLock(r) ==
  /\ pc[r] = "begin"
  /\ done[r] < MaxReads
  /\ \/ kind[r] = "excl"
     \/ kind[r] = "or_lock" /\ try_cnt[r] > MaxTry
  /\ lock' = r
  /\ seq' = [seq EXCEPT ![r] = IF kind[r] = "excl" THEN @ ELSE Minus1]
  /\ try_cnt' = [try_cnt EXCEPT ![r] = 0]
  /\ begun' = [begun EXCEPT ![r] = writes]
  /\ Goto(r, "copy1")
  /\ UNCHANGED <<seqcount, clientVars, writes, until, kind, done>>

\* Seeded defect: read_seqlock_excl() does not wait for __write_lock.
ReadSeqlockExclNoWait(r) == TakeReadLock(r)

\* ... and after more than MaxTry of them the reader spins on __write_lock;
\* read_seqlock_excl() does so at once.
ReadSeqlockExcl(r) == lock = NoThread /\ TakeReadLock(r)

\* The client's loads, one word after the other.
ReadData(r) ==
  /\ \/ pc[r] = "copy1" /\ copy' = [copy EXCEPT ![r][1] = data[1]]
                        /\ Goto(r, "copy2")
     \/ pc[r] = "copy2" /\ copy' = [copy EXCEPT ![r][2] = data[2]]
                        /\ Goto(r, "check")
  /\ UNCHANGED <<seqcount, lock, data, historyVars, readerVars>>

\* read_seqretry(), or need_seqretry() for a reader that may hold the lock.
Accept(r, retry) ==
  /\ pc[r] = "check"
  /\ IF \/ kind[r] = "excl"
        \/ kind[r] = "or_lock" /\ seq[r] = Minus1
        \/ ~retry
     THEN /\ until' = [until EXCEPT ![r] = writes]
          /\ Goto(r, "accepted")
     ELSE /\ Goto(r, "begin")
          /\ UNCHANGED until
  /\ UNCHANGED <<seqcount, lock, clientVars, writes, begun, readerVars>>

\* Seeded defect: only the parity of the count is compared.
ReadSeqretryParity(r) == Accept(r, Odd(seq[r]) # Odd(seqcount))

ReadSeqretry(r) == Accept(r, seq[r] # seqcount)

\* The end of a read.  read_sequnlock_excl() clears __write_lock;
\* done_seqretry() calls read_seqlock_excl() again if seq is -1.  What the read
\* kept in local variables is gone.
EndRead(r) ==
  /\ pc[r] = "accepted"
  /\ \/ /\ kind[r] = "excl"
        /\ lock' = NoThread
     \/ /\ kind[r] = "or_lock" /\ seq[r] = Minus1
        /\ lock = NoThread
        /\ lock' = r
     \/ /\ kind[r] = "lockless" \/ (kind[r] = "or_lock" /\ seq[r] # Minus1)
        /\ UNCHANGED lock
  /\ done' = [done EXCEPT ![r] = @ + 1]
  /\ seq' = [seq EXCEPT ![r] = 0]
  /\ copy' = [copy EXCEPT ![r] = NoData]
  /\ begun' = [begun EXCEPT ![r] = 0]
  /\ until' = [until EXCEPT ![r] = 0]
  /\ Goto(r, "begin")
  /\ UNCHANGED <<seqcount, data, writes, kind, try_cnt>>

ReaderStep(r) ==
  \/ ReadSeqbegin(r) \/ ReadSeqbeginRetry(r) \/ ReadSeqlockExcl(r)
  \/ ReadData(r) \/ ReadSeqretry(r) \/ EndRead(r)

Next ==
  \/ \E w \in Writers : WriterStep(w)
  \/ \E r \in Readers : ReaderStep(r)

Spec == Init /\ [][Next]_vars

\* The kernel schedules every thread.  Reads and writes are bounded, so nobody
\* competes for __write_lock for ever.
FairSpec ==
  /\ Spec
  /\ \A w \in Writers : WF_vars(WriterStep(w))
  /\ \A r \in Readers : WF_vars(ReaderStep(r))

-----------------------------------------------------------------------------
(* Properties *)

\* Every variable has its type.
TypeOK ==
  /\ seqcount \in 0..Minus1
  /\ lock \in Threads \cup {NoThread}
  /\ data \in [{1, 2} -> Nat]
  /\ writes \in Nat
  /\ kind \in [Readers -> {"lockless", "excl", "or_lock"}]
  /\ pc \in [Threads -> {"begin", "count", "store1", "store2", "unlock",
                         "clear", "copy1", "copy2", "check", "accepted"}]
  /\ seq \in [Readers -> 0..Minus1]
  /\ try_cnt \in [Readers -> 0..(MaxTry + 1)]
  /\ copy \in [Readers -> [{1, 2} -> Nat]]
  /\ begun \in [Readers -> Nat]
  /\ until \in [Readers -> Nat]
  /\ done \in [Threads -> Nat]

\* The count is odd exactly while a writer is between its two increments,
\* also after it has wrapped around, and there is one such writer at most: the
\* parity a reader looks at tells whether the data is being written.
OddWhileWriting ==
  /\ Odd(seqcount) <=> Writing # {}
  /\ \A w \in Writing : lock = w

\* A reader that really holds __write_lock (read_seqlock_excl(), or the
\* fallback of read_seqbegin_or_lock()) copies both words of one write.
LockedReadsConsistent ==
  \A r \in Readers :
    lock = r /\ pc[r] \in {"check", "accepted"} => copy[r][1] = copy[r][2]

\* What read_seqretry() guarantees, given where read_seqbegin() lets a reader
\* start: unless the count has gone all the way round in between, an accepted
\* copy was made while one and the same write was going on, and mixes at most
\* the words of that write with those of the write before it.
AcceptedWithinOneWrite ==
  \A r \in Readers :
    /\ pc[r] = "accepted"
    /\ kind[r] = "lockless" \/ (kind[r] = "or_lock" /\ seq[r] # Minus1)
    /\ 2 * (until[r] - begun[r]) < CountMod
    => \A i \in {1, 2} : copy[r][i] \in {begun[r] - 1, begun[r]}

\* What a sequence lock is for, and why "The seqcount must be even at
\* beginning of the read side critical section" (seqlock.h:59): an accepted
\* copy holds both words of one write.
AcceptedReadsConsistent ==
  \A r \in Readers :
    /\ pc[r] = "accepted"
    /\ kind[r] = "lockless"
    /\ 2 * (until[r] - begun[r]) < CountMod
    => copy[r][1] = copy[r][2]

\* Lockless readers never hold writers up, locked ones only while they read:
\* every writer gets through, unless read_seqbegin_or_lock() has fallen back
\* to the lock, which done_seqretry() never gives back.
WritersFinish ==
  <>(\/ \A w \in Writers : done[w] = MaxWrites
     \/ lock \in Readers /\ kind[lock] = "or_lock")
=============================================================================
