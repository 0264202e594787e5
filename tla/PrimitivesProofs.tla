-------------------------- MODULE PrimitivesProofs --------------------------
(***************************************************************************)
(* Proofs about the two primitives of the repository that stand alone.     *)
(*                                                                         *)
(* Seqlock: for any number of writers and readers of any kind, any even    *)
(* modulus of the count and any number of tries.                           *)
(*                                                                         *)
(* Barrier: a single barrier separates its rounds, for any number of       *)
(* threads and of rounds.  Two barriers do not: MCBarrier shows it.        *)
(***************************************************************************)
EXTENDS Seqlock, Barrier, FiniteSetTheorems, TLAPS

-----------------------------------------------------------------------------
(* Typing *)

\* The two ways a count can be advanced keep it in its 32 bits and change its
\* parity, because the modulus is even.
LEMMA AdvanceParity ==
  ASSUME TypeOK, Advance
  PROVE  /\ seqcount' \in 0..Minus1
         /\ Odd(seqcount') <=> ~Odd(seqcount)
<1>1. seqcount \in Int /\ 0 <= seqcount /\ seqcount <= CountMod - 1
  BY CountAssumption DEF TypeOK, Minus1
<1>2. CASE seqcount = Minus1
  BY <1>1, <1>2, CountAssumption DEF Advance, Minus1, Odd
<1>3. CASE seqcount # Minus1
  BY <1>1, <1>3, CountAssumption DEF Advance, Minus1, Odd
<1>4. QED
  BY <1>2, <1>3

\* The initial state has its type.
LEMMA TypeInit == Init => TypeOK
  BY ThreadAssumption, CountAssumption
     DEF Init, TypeOK, Threads, NoData, Minus1

\* Writer steps keep the types.
LEMMA TypeWriter ==
  ASSUME TypeOK, NEW w \in Writers, WriterStep(w)
  PROVE  TypeOK'
<1> USE ThreadAssumption DEF TypeOK, Threads, Goto, clientVars, historyVars,
                             readerVars
<1>1. CASE WriteSeqlock(w)
  BY <1>1 DEF WriteSeqlock, TakeWriteLock
<1>2. CASE WriteBegin(w)
  BY <1>2, AdvanceParity DEF WriteBegin
<1>3. CASE WriteData(w)
  BY <1>3 DEF WriteData
<1>4. CASE WriteEnd(w)
  BY <1>4, AdvanceParity DEF WriteEnd
<1>5. CASE WriteSequnlock(w)
  BY <1>5 DEF WriteSequnlock, EndWrite
<1>6. QED
  BY <1>1, <1>2, <1>3, <1>4, <1>5 DEF WriterStep

\* Reader steps keep the types.
LEMMA TypeReader ==
  ASSUME TypeOK, NEW r \in Readers, ReaderStep(r)
  PROVE  TypeOK'
<1> USE ThreadAssumption, CountAssumption
    DEF TypeOK, Threads, Goto, clientVars, historyVars, readerVars
<1>1. CASE ReadSeqbegin(r)
  BY <1>1 DEF ReadSeqbegin
<1>2. CASE ReadSeqbeginRetry(r)
  BY <1>2 DEF ReadSeqbeginRetry
<1>3. CASE ReadSeqlockExcl(r)
  BY <1>3 DEF ReadSeqlockExcl, TakeReadLock, Minus1
<1>4. CASE ReadData(r)
  BY <1>4 DEF ReadData
<1>5. CASE ReadSeqretry(r)
  BY <1>5 DEF ReadSeqretry, Accept
<1>6. CASE EndRead(r)
  BY <1>6 DEF EndRead, NoData, Minus1
<1>7. QED
  BY <1>1, <1>2, <1>3, <1>4, <1>5, <1>6 DEF ReaderStep

\* Every variable always has its type; in particular the count stays within
\* its 32 bits and no reader tries more than MaxTry + 1 times.
THEOREM TypeCorrect == Spec => []TypeOK
<1>1. TypeOK /\ [Next]_vars => TypeOK'
  <2> SUFFICES ASSUME TypeOK, [Next]_vars PROVE TypeOK'
    OBVIOUS
  <2>1. CASE UNCHANGED vars
    BY <2>1 DEF vars, clientVars, historyVars, readerVars, TypeOK
  <2>2. CASE Next
    BY <2>2, TypeWriter, TypeReader DEF Next
  <2>3. QED
    BY <2>1, <2>2
<1>2. QED
  BY <1>1, TypeInit, PTL DEF Spec

-----------------------------------------------------------------------------
(* Mutual exclusion, parity and consistent locked reads *)

\* From the test-and-set to the clear the lock is the writer's; a reader of
\* read_seqlock_excl() has it until its read has ended.
Holding(w) == pc[w] \in {"count", "store1", "store2", "unlock", "clear"}

HolderInv ==
  /\ \A w \in Writers : Holding(w) => lock = w
  /\ \A r \in Readers : kind[r] = "excl" /\ pc[r] # "begin" => lock = r

OddInv == Odd(seqcount) <=> Writing # {}

\* The two words differ only between the two stores of a writer.
DataInv ==
  \/ data[1] = data[2]
  \/ \E w \in Writers : pc[w] = "store2"

\* A writer between its stores has stored the current write; what a reader
\* that has the lock has copied so far is what the words still hold.
CopyInv ==
  /\ \A w \in Writers : pc[w] = "store2" => data[1] = writes
  /\ \A r \in Readers :
       lock = r => /\ pc[r] = "copy2" => copy[r][1] = data[1]
                   /\ pc[r] \in {"check", "accepted"} =>
                        copy[r][1] = copy[r][2]

SeqInv == HolderInv /\ OddInv /\ DataInv /\ CopyInv

\* At first the lock is free and the count even.
LEMMA SeqInvInit == Init => SeqInv
  BY ThreadAssumption
     DEF Init, SeqInv, HolderInv, Holding, OddInv, Odd, Writing,
         DataInv, CopyInv, NoData, Threads

\* Writer steps keep the invariant.
LEMMA SeqInvWriter ==
  ASSUME TypeOK, SeqInv, NEW w \in Writers, WriterStep(w)
  PROVE  SeqInv'
<1> USE ThreadAssumption DEF TypeOK, Threads, Goto, clientVars, historyVars,
                             readerVars, SeqInv
<1>1. CASE WriteSeqlock(w)
  BY <1>1 DEF WriteSeqlock, TakeWriteLock, HolderInv, Holding, OddInv,
              Odd, Writing, DataInv, CopyInv
<1>2. CASE WriteBegin(w)
  <2>1. HolderInv' /\ DataInv' /\ CopyInv'
    BY <1>2 DEF WriteBegin, HolderInv, Holding, DataInv, CopyInv
  <2>2. Writing = {} /\ Writing' # {}
    BY <1>2 DEF WriteBegin, HolderInv, Holding, Writing
  <2>3. OddInv'
    BY <1>2, <2>2, AdvanceParity DEF WriteBegin, OddInv
  <2>4. QED
    BY <2>1, <2>3
<1>3. CASE WriteData(w)
  <2>1. Writing' = Writing
    BY <1>3 DEF WriteData, Writing
  <2>2. HolderInv' /\ OddInv'
    BY <1>3, <2>1 DEF WriteData, HolderInv, Holding, OddInv, Odd
  <2>3. DataInv' /\ CopyInv'
    BY <1>3 DEF WriteData, HolderInv, Holding, DataInv, CopyInv
  <2>4. QED
    BY <2>2, <2>3
<1>4. CASE WriteEnd(w)
  <2>1. HolderInv' /\ DataInv' /\ CopyInv'
    BY <1>4 DEF WriteEnd, HolderInv, Holding, DataInv, CopyInv
  <2>2. Writing # {} /\ Writing' = {}
    BY <1>4 DEF WriteEnd, HolderInv, Holding, Writing
  <2>3. OddInv'
    BY <1>4, <2>2, AdvanceParity DEF WriteEnd, OddInv
  <2>4. QED
    BY <2>1, <2>3
<1>5. CASE WriteSequnlock(w)
  BY <1>5 DEF WriteSequnlock, EndWrite, HolderInv, Holding, OddInv,
              Odd, Writing, DataInv, CopyInv
<1>6. QED
  BY <1>1, <1>2, <1>3, <1>4, <1>5 DEF WriterStep

\* A reader step leaves the writers, the count and the words alone.
LEMMA ReaderFrame ==
  ASSUME TypeOK, SeqInv, NEW r \in Readers, ReaderStep(r)
  PROVE  /\ \A w \in Writers : pc'[w] = pc[w]
         /\ UNCHANGED <<seqcount, data, writes>>
  BY ThreadAssumption
     DEF TypeOK, Threads, ReaderStep, ReadSeqbegin, ReadSeqbeginRetry,
         ReadSeqlockExcl, TakeReadLock, ReadData, ReadSeqretry, Accept,
         EndRead, Goto, clientVars, historyVars, readerVars

\* Reader steps keep the invariant: a reader releases the lock only if it
\* holds it, and takes it only if nobody does.
LEMMA SeqInvReader ==
  ASSUME TypeOK, SeqInv, NEW r \in Readers, ReaderStep(r)
  PROVE  SeqInv'
<1> USE ThreadAssumption DEF TypeOK, Threads, Goto, clientVars, historyVars,
                             readerVars, SeqInv
<1>1. OddInv' /\ DataInv'
  BY ReaderFrame DEF OddInv, Odd, Writing, DataInv
<1>2. CASE ReadSeqbegin(r)
  BY <1>1, <1>2 DEF ReadSeqbegin, HolderInv, Holding, CopyInv
<1>3. CASE ReadSeqbeginRetry(r)
  BY <1>1, <1>3 DEF ReadSeqbeginRetry, HolderInv, Holding, CopyInv
<1>4. CASE ReadSeqlockExcl(r)
  BY <1>1, <1>4 DEF ReadSeqlockExcl, TakeReadLock, HolderInv, Holding, CopyInv
<1>5. CASE ReadData(r)
  <2>1. HolderInv'
    BY <1>5 DEF ReadData, HolderInv, Holding
  <2>2. lock = r => data[1] = data[2]
    BY DEF HolderInv, Holding, DataInv
  <2>3. CopyInv'
    BY <1>5, <2>2 DEF ReadData, CopyInv
  <2>4. QED
    BY <1>1, <2>1, <2>3
<1>6. CASE ReadSeqretry(r)
  BY <1>1, <1>6 DEF ReadSeqretry, Accept, HolderInv, Holding, CopyInv
<1>7. CASE EndRead(r)
  BY <1>1, <1>7 DEF EndRead, HolderInv, Holding, CopyInv
<1>8. QED
  BY <1>2, <1>3, <1>4, <1>5, <1>6, <1>7 DEF ReaderStep

\* Every step keeps the invariant.
LEMMA SeqInvariant == Spec => [](TypeOK /\ SeqInv)
<1>1. TypeOK /\ SeqInv /\ [Next]_vars => SeqInv'
  <2> SUFFICES ASSUME TypeOK, SeqInv, [Next]_vars PROVE SeqInv'
    OBVIOUS
  <2>1. CASE UNCHANGED vars
    BY <2>1 DEF vars, clientVars, historyVars, readerVars, SeqInv, HolderInv,
                Holding, OddInv, Odd, Writing, DataInv, CopyInv
  <2>2. CASE Next
    BY <2>2, SeqInvWriter, SeqInvReader DEF Next
  <2>3. QED
    BY <2>1, <2>2
<1>2. QED
  BY <1>1, SeqInvInit, TypeCorrect, PTL DEF Spec

\* The count is odd exactly while the one writer that holds the lock is
\* between its two increments: for any number of threads and any history of
\* wraps.
THEOREM WritersExclude == Spec => []OddWhileWriting
<1>1. SeqInv => OddWhileWriting
  BY DEF SeqInv, HolderInv, Holding, OddInv, OddWhileWriting, Writing
<1>2. QED
  BY <1>1, SeqInvariant, PTL

\* A reader that holds the lock copies both words of one write.
THEOREM LockedReadsAgree == Spec => []LockedReadsConsistent
<1>1. SeqInv => LockedReadsConsistent
  BY DEF SeqInv, CopyInv, LockedReadsConsistent
<1>2. QED
  BY <1>1, SeqInvariant, PTL

-----------------------------------------------------------------------------
(* What an accepted read without the lock may have seen *)

\* The readers that rely on the count.
Optimistic(r) ==
  kind[r] = "lockless" \/ (kind[r] = "or_lock" /\ seq[r] # Minus1)

\* The increments of the count since r began, when it was odd.
Elapsed(r) == 2 * (writes - begun[r]) + (IF Writing = {} THEN 1 ELSE 0)

Wrap(n) == IF n < CountMod THEN n ELSE n - CountMod

\* Until the count has gone all the way round, it tells how far it has gone.
WindowInv ==
  \A r \in Readers :
    /\ begun[r] <= writes
    /\ /\ pc[r] \in {"copy1", "copy2", "check"}
       /\ Optimistic(r)
       /\ Elapsed(r) < CountMod
       => seqcount = Wrap(seq[r] + Elapsed(r))

\* The words are those of the latest write or of the one before, and of the
\* latest when nobody writes.
WordsInv ==
  /\ \A i \in {1, 2} : /\ data[i] \in {writes - 1, writes}
                       /\ Writing = {} => data[i] = writes
  /\ \A w \in Writers : /\ pc[w] \in {"store2", "unlock"} => data[1] = writes
                        /\ pc[w] = "unlock" => data[2] = writes

\* So are those a reader has copied, if no write has begun since it began.
ReadInv ==
  \A r \in Readers :
    writes = begun[r] =>
      /\ pc[r] \in {"copy2", "check"} => copy[r][1] \in {writes - 1, writes}
      /\ pc[r] = "check" => copy[r][2] \in {writes - 1, writes}

OptInv == WindowInv /\ WordsInv /\ ReadInv /\ AcceptedWithinOneWrite

\* At first both words are those of write 0, which is none.
LEMMA OptInvInit == Init => OptInv
<1> SUFFICES ASSUME Init PROVE OptInv
  OBVIOUS
<1>1. \A t \in Threads : pc[t] = "begin"
  BY DEF Init
<1>2. /\ writes = 0 /\ \A i \in {1, 2} : data[i] = 0
      /\ \A r \in Readers : begun[r] = 0
  BY DEF Init, NoData
<1>3. QED
  BY <1>1, <1>2
     DEF OptInv, WindowInv, WordsInv, ReadInv, AcceptedWithinOneWrite, Threads

\* One more increment, as long as they are fewer than the count has values.
LEMMA WrapStep ==
  ASSUME NEW c \in 0..Minus1, NEW e \in Nat, e + 1 < CountMod
  PROVE  (IF Wrap(c + e) = Minus1 THEN 0 ELSE Wrap(c + e) + 1)
           = Wrap(c + (e + 1))
  BY CountAssumption DEF Wrap, Minus1

\* An increment by a writer moves the window of every reader on.
LEMMA WindowAdvance ==
  ASSUME TypeOK, SeqInv, WindowInv, Advance,
         UNCHANGED <<kind, seq, begun>>,
         \A r \in Readers : pc'[r] = pc[r],
         \/ writes' = writes /\ Writing # {} /\ Writing' = {}
         \/ writes' = writes + 1 /\ Writing = {} /\ Writing' # {}
  PROVE  WindowInv'
<1> SUFFICES ASSUME NEW r \in Readers
             PROVE  /\ begun'[r] <= writes'
                    /\ /\ pc'[r] \in {"copy1", "copy2", "check"}
                       /\ Optimistic(r)'
                       /\ Elapsed(r)' < CountMod
                       => seqcount' = Wrap(seq[r] + Elapsed(r)')
  BY DEF WindowInv
<1>1. writes \in Nat /\ begun[r] \in Nat /\ begun[r] <= writes
  BY DEF TypeOK, WindowInv
<1>2. Elapsed(r) \in Nat /\ Elapsed(r)' = Elapsed(r) + 1
  BY <1>1 DEF Elapsed
<1>3. ASSUME pc[r] \in {"copy1", "copy2", "check"}, Optimistic(r),
             Elapsed(r) + 1 < CountMod
      PROVE  seqcount' = Wrap(seq[r] + (Elapsed(r) + 1))
  <2>1. seqcount = Wrap(seq[r] + Elapsed(r))
    BY <1>2, <1>3, CountAssumption DEF WindowInv
  <2>2. seq[r] \in 0..Minus1
    BY DEF TypeOK
  <2>3. QED
    BY <1>2, <1>3, <2>1, <2>2, WrapStep DEF Advance
<1>4. QED
  BY <1>1, <1>2, <1>3 DEF Optimistic

\* Writer steps keep the invariant.
LEMMA OptInvWriter ==
  ASSUME TypeOK, SeqInv, OptInv, NEW w \in Writers, WriterStep(w)
  PROVE  OptInv'
<1> USE ThreadAssumption DEF TypeOK, Threads, Goto, clientVars, historyVars,
                             readerVars, OptInv
<1>1. /\ UNCHANGED <<kind, seq, begun, until, copy>>
      /\ \A r \in Readers : pc'[r] = pc[r]
  BY DEF WriterStep, WriteSeqlock, TakeWriteLock, WriteBegin, WriteData,
         WriteEnd, WriteSequnlock, EndWrite
<1>2. AcceptedWithinOneWrite'
  BY <1>1 DEF AcceptedWithinOneWrite
<1>3. CASE WriteSeqlock(w) \/ WriteData(w) \/ WriteSequnlock(w)
  <2>1. /\ writes' = writes /\ seqcount' = seqcount
        /\ Writing' = Writing
    BY <1>3 DEF WriteSeqlock, TakeWriteLock, WriteData, WriteSequnlock,
                EndWrite, Writing
  <2>2. WindowInv' /\ ReadInv'
    BY <1>1, <2>1 DEF WindowInv, ReadInv, Elapsed, Optimistic
  <2>3. WordsInv'
    <3>1. CASE WriteData(w)
      <4>1. w \in Writing /\ \A v \in Writing : v = w
        BY <3>1 DEF WriteData, SeqInv, HolderInv, Holding, Writing
      <4>2. QED
        BY <2>1, <3>1, <4>1 DEF WriteData, WordsInv, Writing
    <3>2. CASE WriteSeqlock(w) \/ WriteSequnlock(w)
      BY <2>1, <3>2 DEF WriteSeqlock, TakeWriteLock, WriteSequnlock, EndWrite,
                        WordsInv
    <3>3. QED
      BY <1>3, <3>1, <3>2
  <2>4. QED
    BY <1>2, <2>2, <2>3
<1>4. CASE WriteBegin(w)
  <2>1. Writing = {} /\ Writing' # {} /\ \A v \in Writers : v # w =>
          pc'[v] \notin {"store2", "unlock"}
    BY <1>4 DEF WriteBegin, SeqInv, HolderInv, Holding, Writing
  <2>2. writes' = writes + 1 /\ data' = data /\ pc'[w] = "store1"
    BY <1>4 DEF WriteBegin
  <2>3. WindowInv'
    BY <1>1, <1>4, <2>1, <2>2, WindowAdvance DEF WriteBegin
  <2>4. WordsInv'
    BY <2>1, <2>2 DEF WordsInv
  <2>5. ReadInv'
    BY <1>1, <2>2 DEF WindowInv, ReadInv
  <2>6. QED
    BY <1>2, <2>3, <2>4, <2>5
<1>5. CASE WriteEnd(w)
  <2>1. /\ Writing # {} /\ Writing' = {}
        /\ \A v \in Writers : pc'[v] \notin {"store2", "unlock"}
    BY <1>5 DEF WriteEnd, SeqInv, HolderInv, Holding, Writing
  <2>2. writes' = writes /\ data' = data /\ pc[w] = "unlock"
    BY <1>5 DEF WriteEnd
  <2>3. WindowInv'
    BY <1>1, <1>5, <2>1, <2>2, WindowAdvance DEF WriteEnd
  <2>4. WordsInv'
    BY <2>1, <2>2 DEF WordsInv
  <2>5. ReadInv'
    BY <1>1, <2>2 DEF ReadInv
  <2>6. QED
    BY <1>2, <2>3, <2>4, <2>5
<1>6. QED
  BY <1>3, <1>4, <1>5 DEF WriterStep

\* If the count is what it was and cannot have gone all the way round, no
\* write has begun, because the count has an even number of values.
LEMMA SameCountSameWrite ==
  ASSUME TypeOK, WindowInv, NEW r \in Readers, pc[r] = "check",
         Optimistic(r), seq[r] = seqcount,
         2 * (writes - begun[r]) < CountMod
  PROVE  writes = begun[r]
<1>1. writes \in Nat /\ begun[r] \in Nat /\ begun[r] <= writes
  BY DEF TypeOK, WindowInv
<1>2. PICK h \in Nat : CountMod = 2 * h
  BY CountAssumption
<1>3. Elapsed(r) \in Nat /\ Elapsed(r) < CountMod
  BY <1>1, <1>2 DEF Elapsed
<1>4. seqcount = Wrap(seq[r] + Elapsed(r)) /\ seqcount \in 0..Minus1
  BY <1>3 DEF WindowInv, TypeOK
<1>5. Elapsed(r) = 0
  BY <1>3, <1>4, CountAssumption DEF Wrap, Minus1
<1>6. QED
  BY <1>1, <1>5 DEF Elapsed

\* Reader steps keep the invariant.
LEMMA OptInvReader ==
  ASSUME TypeOK, SeqInv, OptInv, NEW r \in Readers, ReaderStep(r)
  PROVE  OptInv'
<1> USE ThreadAssumption DEF TypeOK, Threads, Goto, clientVars, historyVars,
                             readerVars, OptInv
<1>1. /\ Writing' = Writing
      /\ UNCHANGED <<seqcount, data, writes, kind>>
      /\ \A w \in Writers : pc'[w] = pc[w]
      /\ \A q \in Readers : q # r => /\ pc'[q] = pc[q]
                                     /\ seq'[q] = seq[q]
                                     /\ begun'[q] = begun[q]
                                     /\ until'[q] = until[q]
                                     /\ copy'[q] = copy[q]
  BY ReaderFrame
     DEF ReaderStep, ReadSeqbegin, ReadSeqbeginRetry, ReadSeqlockExcl,
         TakeReadLock, ReadData, ReadSeqretry, Accept, EndRead, Writing
<1>2. WordsInv'
  BY <1>1 DEF WordsInv
<1> DEFINE Window(q) ==
             /\ begun[q] <= writes
             /\ /\ pc[q] \in {"copy1", "copy2", "check"}
                /\ Optimistic(q)
                /\ Elapsed(q) < CountMod
                => seqcount = Wrap(seq[q] + Elapsed(q))
           Read(q) ==
             writes = begun[q] =>
               /\ pc[q] \in {"copy2", "check"} =>
                    copy[q][1] \in {writes - 1, writes}
               /\ pc[q] = "check" => copy[q][2] \in {writes - 1, writes}
           Accepted(q) ==
             /\ pc[q] = "accepted"
             /\ Optimistic(q)
             /\ 2 * (until[q] - begun[q]) < CountMod
             => \A i \in {1, 2} : copy[q][i] \in {begun[q] - 1, begun[q]}
<1>3. \A q \in Readers : Window(q) /\ Read(q) /\ Accepted(q)
  BY DEF WindowInv, ReadInv, AcceptedWithinOneWrite, Optimistic
<1>4. \A q \in Readers : q # r => Window(q)' /\ Read(q)' /\ Accepted(q)'
  BY <1>1, <1>3 DEF Optimistic, Elapsed
<1>5. Window(r)' /\ Read(r)' /\ Accepted(r)'
  <2>1. CASE ReadSeqbegin(r)
    <3>1. /\ pc'[r] = "copy1" /\ seq'[r] = seqcount /\ begun'[r] = writes
          /\ Writing # {}
      BY <2>1 DEF ReadSeqbegin, SeqInv, OddInv
    <3>2. Elapsed(r)' = 0 /\ seqcount = Wrap(seqcount + 0)
      BY <1>1, <3>1, CountAssumption DEF Elapsed, Wrap, Minus1
    <3>3. QED
      BY <1>1, <3>1, <3>2
  <2>2. CASE ReadSeqbeginRetry(r)
    BY <1>1, <1>3, <2>2 DEF ReadSeqbeginRetry, Optimistic, Elapsed
  <2>3. CASE ReadSeqlockExcl(r)
    <3>1. /\ pc'[r] = "copy1" /\ begun'[r] = writes
          /\ kind[r] # "lockless" /\ kind[r] # "excl" => seq'[r] = Minus1
          /\ kind[r] # "lockless"
      BY <2>3 DEF ReadSeqlockExcl, TakeReadLock, Minus1
    <3>2. ~Optimistic(r)'
      BY <1>1, <3>1 DEF Optimistic, Minus1
    <3>3. QED
      BY <1>1, <3>1, <3>2
  <2>4. CASE ReadData(r)
    <3>1. /\ seq'[r] = seq[r] /\ begun'[r] = begun[r]
          /\ pc'[r] \in {"copy2", "check"}
          /\ pc[r] \in {"copy1", "copy2"}
      BY <2>4 DEF ReadData
    <3>2. Window(r)'
      BY <1>1, <1>3, <3>1 DEF Optimistic, Elapsed
    <3>3. Read(r)'
      BY <1>1, <1>3, <2>4 DEF ReadData, WordsInv
    <3>4. QED
      BY <3>1, <3>2, <3>3
  <2>5. CASE ReadSeqretry(r)
    <3>1. /\ seq'[r] = seq[r] /\ begun'[r] = begun[r] /\ copy' = copy
          /\ pc[r] = "check" /\ pc'[r] \in {"accepted", "begin"}
      BY <2>5 DEF ReadSeqretry, Accept
    <3>2. Window(r)' /\ Read(r)'
      BY <1>1, <1>3, <3>1
    <3>3. ASSUME pc'[r] = "accepted", Optimistic(r),
                 2 * (until'[r] - begun[r]) < CountMod
          PROVE  \A i \in {1, 2} : copy[r][i] \in {begun[r] - 1, begun[r]}
      <4>1. until'[r] = writes /\ seq[r] = seqcount
        BY <2>5, <3>3 DEF ReadSeqretry, Accept, Optimistic
      <4>2. writes = begun[r]
        BY <3>1, <3>3, <4>1, SameCountSameWrite
      <4>3. QED
        BY <1>3, <3>1, <4>2
    <3>4. QED
      BY <1>1, <3>1, <3>2, <3>3 DEF Optimistic
  <2>6. CASE EndRead(r)
    <3>1. pc'[r] = "begin" /\ begun'[r] = 0
      BY <2>6 DEF EndRead
    <3>2. QED
      BY <1>1, <3>1
  <2>7. QED
    BY <2>1, <2>2, <2>3, <2>4, <2>5, <2>6 DEF ReaderStep
<1>6. WindowInv' /\ ReadInv' /\ AcceptedWithinOneWrite'
  BY <1>4, <1>5 DEF WindowInv, ReadInv, AcceptedWithinOneWrite, Optimistic
<1>7. QED
  BY <1>2, <1>6

\* An accepted read without the lock was made while one write was going on,
\* for any number of threads, any even number of counts and any history of
\* wraps, unless the count has gone all the way round meanwhile.
THEOREM AcceptedReadsOverlapOneWrite == Spec => []AcceptedWithinOneWrite
<1>1. TypeOK /\ SeqInv /\ OptInv /\ [Next]_vars => OptInv'
  <2> SUFFICES ASSUME TypeOK, SeqInv, OptInv, [Next]_vars PROVE OptInv'
    OBVIOUS
  <2>1. CASE UNCHANGED vars
    BY <2>1 DEF vars, clientVars, historyVars, readerVars, OptInv, WindowInv,
                WordsInv, ReadInv, AcceptedWithinOneWrite, Writing, Elapsed,
                Optimistic
  <2>2. CASE Next
    BY <2>2, OptInvWriter, OptInvReader DEF Next
  <2>3. QED
    BY <2>1, <2>2
<1>2. OptInv => AcceptedWithinOneWrite
  BY DEF OptInv
<1>3. QED
  BY <1>1, <1>2, OptInvInit, SeqInvariant, PTL DEF Spec

-----------------------------------------------------------------------------
(* The barrier *)

\* The schedule uses barrier b only.
OneBarrier(b) == \A i \in 1..Len(Schedule) : Schedule[i] = b

\* Parity of a call number.
Sense(k) == k % 2

\* The threads that have begun the round being gathered.
Arrived == {t \in Parties : entered[t] = episode + 1}

Releasing == \E t \in Parties : place[t] = "release"

\* A thread is outside, having passed all opened rounds, or inside the round
\* being gathered or the one just opened; its sense is the parity of its calls.
ThreadInv ==
  \A t \in Parties :
    /\ entered[t] \in {episode, episode + 1}
    /\ place[t] = "out" => entered[t] = episode /\ passed[t] = episode
    /\ place[t] # "out" => passed[t] + 1 = entered[t]
    /\ local_sense[t] = Sense(entered[t])

\* Until the last thread arrives the count is that of the round being
\* gathered.
GatherInv(b) ==
  ~Releasing => count[b] = Cardinality(Arrived) /\ Arrived # Parties

\* The last thread has reset it and, alone, is about to open the barrier.
ReleaseInv(b) ==
  Releasing =>
    /\ Arrived = Parties
    /\ count[b] = 0
    /\ \A s, t \in Parties :
         place[s] = "release" /\ place[t] = "release" => s = t

IndInv(b) ==
  /\ BarrierTypeOK
  /\ flag[b] = Sense(episode)
  /\ ThreadInv
  /\ GatherInv(b)
  /\ ReleaseInv(b)

-----------------------------------------------------------------------------
\* Successive rounds have opposite senses.
LEMMA SenseAlternates ==
  ASSUME NEW k \in Nat
  PROVE  Sense(k) \in {0, 1} /\ Sense(k + 1) = 1 - Sense(k)
BY DEF Sense

\* The arrived threads are a finite set; when there are as many as parties,
\* they are all.
LEMMA ArrivedFinite ==
  /\ IsFiniteSet(Arrived) /\ IsFiniteSet(Parties)
  /\ Cardinality(Arrived) \in Nat /\ NrParties \in Nat
  /\ Cardinality(Arrived) = NrParties => Arrived = Parties
BY PartiesAssumption, FS_Subset, FS_CardinalityType, Arrived \subseteq Parties
DEF Arrived, NrParties

\* Every step keeps the types.
LEMMA TypeStep ==
  ASSUME BarrierTypeOK, [BarrierNext]_barrierVars
  PROVE  BarrierTypeOK'
<1>0. /\ Len(Schedule) \in Nat
      /\ \A i \in 1..Len(Schedule) : Schedule[i] \in Barriers
  BY ScheduleAssumption
<1>1. ASSUME NEW t \in Parties, Arrive(t) PROVE BarrierTypeOK'
  <2> DEFINE b == Schedule[entered[t] + 1]
  <2>1. b \in Barriers
    BY <1>0, <1>1 DEF Arrive, Register, BarrierTypeOK
  <2>2. count' \in [Barriers -> Nat]
    BY <1>1, <2>1 DEF Arrive, Register, BarrierTypeOK
  <2>3. entered' \in [Parties -> 0..Len(Schedule)]
    <3>1. entered[t] + 1 \in 0..Len(Schedule)
      <4>1. entered[t] < Len(Schedule) /\ entered[t] \in 0..Len(Schedule)
        BY <1>1 DEF Arrive, Register, BarrierTypeOK
      <4>2. QED
        BY <1>0, <4>1
    <3>2. entered' = [entered EXCEPT ![t] = entered[t] + 1]
      BY <1>1 DEF Arrive, Register
    <3>3. QED
      BY <3>1, <3>2 DEF BarrierTypeOK
  <2>4. /\ local_sense' \in [Parties -> {0, 1}]
        /\ place' \in [Parties -> {"out", "spin", "release"}]
    <3>1. local_sense' = [local_sense EXCEPT ![t] = 1 - local_sense[t]]
      BY <1>1 DEF Arrive, Register
    <3>2. \/ place' = [place EXCEPT ![t] = "release"]
          \/ place' = [place EXCEPT ![t] = "spin"]
      BY <1>1 DEF Arrive, Register
    <3>3. local_sense[t] \in {0, 1}
      BY DEF BarrierTypeOK
    <3>4. 1 - local_sense[t] \in {0, 1}
      BY <3>3
    <3>5. QED
      BY <3>1, <3>2, <3>4 DEF BarrierTypeOK
  <2>5. flag' = flag /\ passed' = passed /\ episode' = episode
    BY <1>1 DEF Arrive, Register
  <2>6. QED
    BY <2>2, <2>3, <2>4, <2>5 DEF BarrierTypeOK
<1>2. ASSUME NEW t \in Parties, Release(t) \/ Spin(t) PROVE BarrierTypeOK'
  <2>1. flag' \in [Barriers -> {0, 1}]
    BY <1>2 DEF Release, Open, Spin, BarrierTypeOK
  <2>2. /\ place' \in [Parties -> {"out", "spin", "release"}]
        /\ passed' \in [Parties -> Nat]
    <3>1. Return(t)
      BY <1>2 DEF Release, Open, Spin
    <3>2. QED
      BY <3>1 DEF Return, BarrierTypeOK
  <2>3. /\ count' = count /\ local_sense' = local_sense /\ entered' = entered
        /\ episode' \in Nat
    <3>1. CASE Release(t)
      BY <3>1 DEF Release, Open, BarrierTypeOK
    <3>2. CASE Spin(t)
      BY <3>2 DEF Spin, BarrierTypeOK
    <3>3. QED
      BY <1>2, <3>1, <3>2
  <2>4. QED
    BY <2>1, <2>2, <2>3 DEF BarrierTypeOK
<1>3. QED
  BY <1>1, <1>2 DEF BarrierNext, BarrierTypeOK, barrierVars

\* Arriving adds one thread to the round being gathered; the last arrival
\* completes it.
LEMMA ArriveStep ==
  ASSUME NEW b \in Barriers, OneBarrier(b), IndInv(b), BarrierTypeOK',
         NEW t \in Parties, Arrive(t)
  PROVE  IndInv(b)'
<1>1. /\ place[t] = "out" /\ entered[t] = episode /\ passed[t] = episode
      /\ episode \in Nat
  BY DEF Arrive, Register, IndInv, ThreadInv, BarrierTypeOK
<1>2. /\ t \notin Arrived
      /\ ~Releasing
      /\ count[b] = Cardinality(Arrived)
  BY <1>1 DEF Arrived, IndInv, GatherInv, ReleaseInv
<1>3. Schedule[entered[t] + 1] = b
  BY <1>1, ScheduleAssumption DEF OneBarrier, Arrive, Register
<1>4. /\ entered' = [entered EXCEPT ![t] = episode + 1]
      /\ local_sense' = [local_sense EXCEPT ![t] = 1 - @]
      /\ flag' = flag /\ passed' = passed /\ episode' = episode
  BY <1>1 DEF Arrive, Register
<1>5. Arrived' = Arrived \cup {t}
  BY <1>1, <1>4 DEF Arrived, IndInv, BarrierTypeOK
<1>6. Cardinality(Arrived') = Cardinality(Arrived) + 1
  BY <1>2, <1>5, ArrivedFinite, FS_AddElement
<1>7. /\ place'[t] \in {"release", "spin"}
      /\ \A s \in Parties : s # t => /\ place'[s] = place[s]
                                     /\ entered'[s] = entered[s]
                                     /\ local_sense'[s] = local_sense[s]
      /\ entered'[t] = episode + 1
      /\ local_sense'[t] = Sense(episode + 1)
  <2>1. /\ place'[t] \in {"release", "spin"}
        /\ \A s \in Parties : s # t => place'[s] = place[s]
    BY DEF Arrive, Register, IndInv, BarrierTypeOK
  <2>2. /\ entered'[t] = episode + 1
        /\ \A s \in Parties : s # t => /\ entered'[s] = entered[s]
                                       /\ local_sense'[s] = local_sense[s]
    BY <1>4 DEF IndInv, BarrierTypeOK
  <2>3. local_sense[t] = Sense(episode)
    BY <1>1 DEF IndInv, ThreadInv
  <2>4. local_sense'[t] = 1 - Sense(episode)
    BY <1>4, <2>3 DEF IndInv, BarrierTypeOK
  <2>5. QED
    BY <1>1, <2>1, <2>2, <2>4, SenseAlternates
<1>8. ThreadInv'
  BY <1>1, <1>4, <1>7 DEF IndInv, ThreadInv
<1>9. CASE count[b] + 1 = NrParties
  <2>1. place'[t] = "release" /\ count'[b] = 0
    BY <1>3, <1>9 DEF Arrive, Register, IndInv, BarrierTypeOK
  <2>2. IsFiniteSet(Parties) /\ Arrived' \subseteq Parties
    BY PartiesAssumption, <1>5 DEF Arrived
  <2>3. Cardinality(Arrived') = Cardinality(Parties)
    BY <1>2, <1>6, <1>9 DEF NrParties
  <2>4. Arrived' = Parties
    BY <2>2, <2>3, FS_Subset
  <2>5. \A s \in Parties : place'[s] = "release" => s = t
    BY <1>2, <1>7 DEF Releasing
  <2>6. QED
    BY <1>4, <1>8, <2>1, <2>4, <2>5
    DEF IndInv, GatherInv, ReleaseInv, Releasing
<1>10. CASE count[b] + 1 # NrParties
  <2>1. place'[t] = "spin" /\ count'[b] = count[b] + 1
    BY <1>3, <1>10 DEF Arrive, Register, IndInv, BarrierTypeOK
  <2>2. ~Releasing'
    BY <1>2, <1>7, <2>1 DEF Releasing
  <2>3. Arrived' # Parties
    BY <1>2, <1>6, <1>10 DEF NrParties
  <2>4. QED
    BY <1>2, <1>4, <1>6, <1>8, <2>1, <2>2, <2>3
    DEF IndInv, GatherInv, ReleaseInv
<1>11. QED
  BY <1>9, <1>10

\* Opening turns the gathered round into the opened one, which everybody else
\* still has to leave.
LEMMA ReleaseStep ==
  ASSUME NEW b \in Barriers, OneBarrier(b), IndInv(b), BarrierTypeOK',
         NEW t \in Parties, Release(t)
  PROVE  IndInv(b)'
<1>1. place[t] = "release" /\ Releasing
  BY DEF Release, Open, Releasing
<1>2. /\ Arrived = Parties /\ count[b] = 0
      /\ \A s \in Parties : place[s] = "release" => s = t
  BY <1>1 DEF IndInv, ReleaseInv
<1>3. \A s \in Parties : entered[s] = episode + 1 /\ place[s] # "out"
  BY <1>2 DEF Arrived, IndInv, ThreadInv, BarrierTypeOK
<1>4. At(t) = b
  BY <1>3, ScheduleAssumption DEF At, OneBarrier, IndInv, BarrierTypeOK
<1>5. /\ flag' = [flag EXCEPT ![b] = local_sense[t]]
      /\ episode' = episode + 1
      /\ place' = [place EXCEPT ![t] = "out"]
      /\ passed' = [passed EXCEPT ![t] = @ + 1]
      /\ count' = count /\ local_sense' = local_sense /\ entered' = entered
  BY <1>4 DEF Release, Open, Return
<1>6. flag'[b] = Sense(episode')
  BY <1>3, <1>5 DEF IndInv, ThreadInv, BarrierTypeOK
<1>7. ThreadInv'
  BY <1>3, <1>5 DEF IndInv, ThreadInv, BarrierTypeOK
<1>8. ~Releasing'
  BY <1>2, <1>5 DEF Releasing, IndInv, BarrierTypeOK
<1>9. Arrived' = {}
  BY <1>3, <1>5 DEF Arrived, IndInv, BarrierTypeOK
<1>10. count'[b] = Cardinality(Arrived') /\ Arrived' # Parties
  BY <1>2, <1>5, <1>9, FS_EmptySet
<1>11. QED
  BY <1>6, <1>7, <1>8, <1>10 DEF IndInv, GatherInv, ReleaseInv

\* Only threads of the opened round find the flag at their sense.
LEMMA SpinStep ==
  ASSUME NEW b \in Barriers, OneBarrier(b), IndInv(b), BarrierTypeOK',
         NEW t \in Parties, Spin(t)
  PROVE  IndInv(b)'
<1>1. place[t] = "spin" /\ flag[At(t)] = local_sense[t]
  BY DEF Spin
<1>2. episode \in Nat /\ entered[t] \in 1..Len(Schedule)
  <2>1. /\ passed[t] \in Nat /\ entered[t] \in 0..Len(Schedule)
        /\ passed[t] + 1 = entered[t] /\ Len(Schedule) \in Nat
    BY <1>1, ScheduleAssumption DEF IndInv, ThreadInv, BarrierTypeOK
  <2>2. QED
    BY <2>1 DEF IndInv, BarrierTypeOK
<1>3. At(t) = b
  BY <1>2 DEF At, OneBarrier
<1>4. Sense(entered[t]) = Sense(episode)
  BY <1>1, <1>3 DEF IndInv, ThreadInv
<1>5. entered[t] = episode
  <2>1. Sense(episode) \in {0, 1} /\ Sense(episode + 1) = 1 - Sense(episode)
    BY <1>2, SenseAlternates
  <2>2. entered[t] \in {episode, episode + 1}
    BY DEF IndInv, ThreadInv
  <2>3. QED
    BY <1>4, <2>1, <2>2
<1>6. /\ place' = [place EXCEPT ![t] = "out"]
      /\ passed' = [passed EXCEPT ![t] = @ + 1]
      /\ flag' = flag /\ count' = count /\ local_sense' = local_sense
      /\ entered' = entered /\ episode' = episode
  BY DEF Spin, Return
<1>7. ThreadInv'
  BY <1>1, <1>5, <1>6 DEF IndInv, ThreadInv, BarrierTypeOK
<1>8. Releasing' = Releasing /\ Arrived' = Arrived
  BY <1>1, <1>6 DEF Releasing, Arrived, IndInv, BarrierTypeOK
<1>9. \A s \in Parties : place'[s] = "release" => place[s] = "release"
  BY <1>1, <1>6 DEF IndInv, BarrierTypeOK
<1>10. QED
  BY <1>6, <1>7, <1>8, <1>9 DEF IndInv, GatherInv, ReleaseInv

\* At first nobody has arrived and no round has been opened.
LEMMA IndInvInit ==
  ASSUME NEW b \in Barriers, Parties # {}, BarrierInit
  PROVE  IndInv(b)
<1>1. BarrierTypeOK
  BY ScheduleAssumption DEF BarrierInit, BarrierTypeOK
<1>2. ThreadInv /\ flag[b] = Sense(episode)
  BY DEF BarrierInit, ThreadInv, Sense
<1>3. Arrived = {} /\ ~Releasing
  BY DEF BarrierInit, Arrived, Releasing
<1>4. GatherInv(b) /\ ReleaseInv(b)
  BY <1>3, FS_EmptySet DEF BarrierInit, GatherInv, ReleaseInv
<1>5. QED
  BY <1>1, <1>2, <1>4 DEF IndInv

\* Every step of every thread keeps the invariant.
LEMMA IndInvStep ==
  ASSUME NEW b \in Barriers, OneBarrier(b), IndInv(b), [BarrierNext]_barrierVars
  PROVE  IndInv(b)'
<1>1. BarrierTypeOK'
  BY TypeStep DEF IndInv
<1>2. CASE UNCHANGED barrierVars
  <2>1. Arrived' = Arrived /\ Releasing' = Releasing
    BY <1>2 DEF barrierVars, Arrived, Releasing
  <2>2. QED
    BY <1>1, <1>2, <2>1
    DEF barrierVars, IndInv, ThreadInv, GatherInv, ReleaseInv
<1>3. QED
  BY <1>1, <1>2, ArriveStep, ReleaseStep, SpinStep DEF BarrierNext

\* Every variable keeps its type, whatever barriers the schedule uses.
THEOREM BarrierTypeCorrect == BarrierSpec => []BarrierTypeOK
<1>1. BarrierInit => BarrierTypeOK
  BY ScheduleAssumption DEF BarrierInit, BarrierTypeOK
<1>2. BarrierTypeOK /\ [BarrierNext]_barrierVars => BarrierTypeOK'
  BY TypeStep
<1>3. QED
  BY <1>1, <1>2, PTL DEF BarrierSpec

\* With one barrier, the invariant holds in every state.
LEMMA IndInvariant ==
  ASSUME NEW b \in Barriers, OneBarrier(b), Parties # {}
  PROVE  BarrierSpec => []IndInv(b)
<1>1. BarrierInit => IndInv(b)
  BY IndInvInit
<1>2. IndInv(b) /\ [BarrierNext]_barrierVars => IndInv(b)'
  BY IndInvStep
<1>3. QED
  BY <1>1, <1>2, PTL DEF BarrierSpec

\* With one barrier, nobody returns from its k-th call of barrier() before
\* everybody has begun its own k-th call.
THEOREM BarrierSeparates ==
  ASSUME NEW b \in Barriers, OneBarrier(b), Parties # {}
  PROVE  BarrierSpec => []Separation
<1>1. IndInv(b) => Separation
  <2> SUFFICES ASSUME IndInv(b), NEW s \in Parties, NEW t \in Parties
               PROVE  passed[s] <= entered[t]
    BY DEF Separation
  <2>1. episode \in Nat /\ passed[s] \in Nat
    BY DEF IndInv, BarrierTypeOK
  <2>2. passed[s] <= episode
    BY <2>1 DEF IndInv, ThreadInv
  <2>3. entered[t] \in {episode, episode + 1}
    BY DEF IndInv, ThreadInv
  <2>4. QED
    BY <2>1, <2>2, <2>3
<1>2. BarrierSpec => []IndInv(b)
  BY IndInvariant
<1>3. QED
  BY <1>1, <1>2, PTL

\* With one barrier, no thread is left spinning in barrier() on a round that
\* nobody will open.
THEOREM NobodyLeftBehind ==
  ASSUME NEW b \in Barriers, OneBarrier(b), Parties # {}
  PROVE  BarrierSpec => []NoLostWakeup
<1>1. IndInv(b) => NoLostWakeup
  <2> SUFFICES ASSUME IndInv(b), NEW t \in Parties, place[t] = "spin",
                      \A s \in Parties : entered[s] >= entered[t],
                      ~Releasing
               PROVE  flag[At(t)] = local_sense[t]
    BY DEF NoLostWakeup, IndInv, BarrierTypeOK, Releasing
  <2>1. \E s \in Parties : entered[s] = episode
    BY DEF IndInv, ThreadInv, GatherInv, Arrived
  <2>2. entered[t] = episode
    BY <2>1 DEF IndInv, ThreadInv, BarrierTypeOK
  <2>3. At(t) = b
    BY ScheduleAssumption DEF At, OneBarrier, IndInv, ThreadInv, BarrierTypeOK
  <2>4. QED
    BY <2>2, <2>3 DEF IndInv, ThreadInv
<1>2. BarrierSpec => []IndInv(b)
  BY IndInvariant
<1>3. QED
  BY <1>1, <1>2, PTL
=============================================================================
