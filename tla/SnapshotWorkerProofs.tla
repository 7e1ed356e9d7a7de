------------------------ MODULE SnapshotWorkerProofs ------------------------
(***************************************************************************)
(* Proofs about the snapshot worker, for every set of reading threads and  *)
(* every value of the bounds: the inductive invariant, the three safety    *)
(* properties that follow from it, and the refinement of SnapshotRegister. *)
(***************************************************************************)
EXTENDS SnapshotWorker, TLAPS

\* The initial state satisfies the inductive invariant.
LEMMA InitIInv == Init => IInv
<1> SUFFICES ASSUME Init
             PROVE  IInv
  OBVIOUS
<1> USE DEF Init, Index, NoBuffer, Torn, Readers, NotReading
<1>1. TypeOK
  <2>1. buffers \in [Index -> [head : Nat, caches : Nat]]
    OBVIOUS
  <2>2. reader \in [Readers -> [buffer : Index \cup {NoBuffer}, slept : 0 .. 2]]
    <3>1. NotReading \in [buffer : Index \cup {NoBuffer}, slept : 0 .. 2]
      OBVIOUS
    <3>2. QED
      BY <3>1
  <2>3. bufferCacheGen \in [Index -> Nat]
    OBVIOUS
  <2>4. /\ crashInProgress \in BOOLEAN
        /\ pc \in WorkerPc
    BY DEF WorkerPc
  <2>5. /\ published \in Index \cup {NoBuffer}
        /\ writeIndex \in Index
        /\ cacheGen \in Nat \ {0}
        /\ tick \in Nat
    OBVIOUS
  <2>6. QED
    BY <2>1, <2>2, <2>3, <2>4, <2>5 DEF TypeOK
<1>2. PublishedIsOther /\ MarkedCaches /\ TargetFilled /\ PublishedHolds
  BY DEF PublishedIsOther, MarkedCaches, TargetFilled, PublishedHolds, Writing
<1>3. FrozenReaders /\ GameReads /\ NothingHeldBeforePublish
  BY DEF FrozenReaders, GameReads, NothingHeldBeforePublish
<1>4. QED
  BY <1>1, <1>2, <1>3 DEF IInv

\* What falling asleep and waking do to the record of a reading thread.
LEMMA SleepEffect ==
  ASSUME NEW x \in [buffer : Index \cup {NoBuffer}, slept : 0 .. 2]
  PROVE  /\ FallsAsleep(x) \in [buffer : Index \cup {NoBuffer}, slept : 0 .. 2]
         /\ FallsAsleep(x).buffer = x.buffer
         /\ FallsAsleep(x).slept = IF x.buffer # NoBuffer /\ x.slept = 0 THEN 1 ELSE x.slept
         /\ Wakes(x) \in [buffer : Index \cup {NoBuffer}, slept : 0 .. 2]
         /\ Wakes(x).buffer = x.buffer
         /\ Wakes(x).slept = IF x.slept = 1 THEN 2 ELSE x.slept
  BY DEF FallsAsleep, Wakes, Index, NoBuffer

\* Every step of the worker and of the reading threads preserves the types.
LEMMA NextTypeOK == TypeOK /\ [Next]_vars => TypeOK'
<1> SUFFICES ASSUME TypeOK, [Next]_vars
             PROVE  TypeOK'
  OBVIOUS
<1> USE DEF TypeOK, Index, NoBuffer, WorkerPc, Readers
<1>1. CASE TickBegin
  BY <1>1 DEF TickBegin, WakeReaders, Wakes
<1>2. CASE TickSkipped
  BY <1>2, SleepEffect DEF TickSkipped
<1>3. CASE FillHead
  BY <1>3 DEF FillHead
<1>4. CASE RefreshCaches
  BY <1>4 DEF RefreshCaches
<1>5. CASE CopyCaches
  BY <1>5 DEF CopyCaches
<1>6. CASE Publish
  BY <1>6 DEF Publish
<1>7. CASE TickEnd
  BY <1>7 DEF TickEnd, SleepReaders, FallsAsleep
<1>8. CASE TickThrows
  BY <1>8 DEF TickThrows, SleepReaders, FallsAsleep, Torn
<1>9. CASE FreezeForCrash
  BY <1>9 DEF FreezeForCrash, workerVars
<1>10. ASSUME NEW r \in Readers, ReadBegin(r) \/ ReadEnd(r)
       PROVE  TypeOK'
  BY <1>10 DEF ReadBegin, ReadEnd, workerVars, NotReading
<1>11. CASE UNCHANGED vars
  BY <1>11 DEF vars, workerVars
<1>12. QED
  BY <1>1, <1>2, <1>3, <1>4, <1>5, <1>6, <1>7, <1>8, <1>9, <1>10, <1>11 DEF Next, Worker

\* The part of the invariant that is about the worker's own buffers.
BufferInv ==
  PublishedIsOther /\ MarkedCaches /\ TargetFilled /\ PublishedHolds

\* Every step preserves what the invariant says of the buffers.
LEMMA NextBufferInv == IInv /\ [Next]_vars => BufferInv'
<1> SUFFICES ASSUME IInv, [Next]_vars
             PROVE  BufferInv'
  OBVIOUS
<1> USE DEF IInv, TypeOK, BufferInv, PublishedIsOther, MarkedCaches, TargetFilled,
            PublishedHolds, Index, NoBuffer, Torn, WorkerPc, Writing
<1>1. CASE TickBegin
  BY <1>1 DEF TickBegin
<1>2. CASE TickSkipped
  BY <1>2 DEF TickSkipped
<1>3. CASE FillHead
  BY <1>3 DEF FillHead
<1>4. CASE RefreshCaches
  BY <1>4 DEF RefreshCaches
<1>5. CASE CopyCaches
  BY <1>5 DEF CopyCaches
<1>6. CASE Publish
  BY <1>6 DEF Publish
<1>7. CASE TickEnd
  BY <1>7 DEF TickEnd
<1>8. CASE TickThrows
  <2>1. CASE pc = "checked"
    BY <1>8, <2>1 DEF TickThrows
  <2>2. CASE pc = "refreshed"
    BY <1>8, <2>2 DEF TickThrows
  <2>3. QED
    BY <1>8, <2>1, <2>2 DEF TickThrows
<1>9. CASE FreezeForCrash
  BY <1>9 DEF FreezeForCrash, workerVars
<1>10. ASSUME NEW r \in Readers, ReadBegin(r) \/ ReadEnd(r)
       PROVE  BufferInv'
  BY <1>10 DEF ReadBegin, ReadEnd, workerVars
<1>11. CASE UNCHANGED vars
  BY <1>11 DEF vars, workerVars
<1>12. QED
  BY <1>1, <1>2, <1>3, <1>4, <1>5, <1>6, <1>7, <1>8, <1>9, <1>10, <1>11 DEF Next, Worker

\* The part of the invariant that is about the reading threads.
ReaderInv ==
  FrozenReaders /\ GameReads /\ NothingHeldBeforePublish

\* Every step preserves what the invariant says of the readers.
LEMMA NextReaderInv == IInv /\ [Next]_vars => ReaderInv'
<1> SUFFICES ASSUME IInv, [Next]_vars
             PROVE  ReaderInv'
  OBVIOUS
<1> USE ReadersAssumption
    DEF IInv, TypeOK, ReaderInv, FrozenReaders, GameReads, NothingHeldBeforePublish,
        PublishedIsOther, Index, NoBuffer, WorkerPc, Readers, Writing
<1>1. CASE TickBegin
  BY <1>1 DEF TickBegin, WakeReaders, Wakes
<1>2. CASE TickSkipped
  BY <1>2, SleepEffect DEF TickSkipped
<1>3. CASE FillHead
  BY <1>3 DEF FillHead
<1>4. CASE RefreshCaches
  BY <1>4 DEF RefreshCaches
<1>5. CASE CopyCaches
  BY <1>5 DEF CopyCaches
<1>6. CASE Publish
  BY <1>6 DEF Publish
<1>7. CASE TickEnd
  BY <1>7 DEF TickEnd, SleepReaders, FallsAsleep
<1>8. CASE TickThrows
  BY <1>8 DEF TickThrows, SleepReaders, FallsAsleep
<1>9. CASE FreezeForCrash
  BY <1>9 DEF FreezeForCrash, workerVars
<1>10. ASSUME NEW r \in Readers, ReadBegin(r) \/ ReadEnd(r)
       PROVE  ReaderInv'
  BY <1>10 DEF ReadBegin, ReadEnd, workerVars, NotReading
<1>11. CASE UNCHANGED vars
  BY <1>11 DEF vars, workerVars
<1>12. QED
  BY <1>1, <1>2, <1>3, <1>4, <1>5, <1>6, <1>7, <1>8, <1>9, <1>10, <1>11 DEF Next, Worker

\* IInv is an invariant of the specification.
THEOREM InductiveInvariant == Spec => []IInv
<1>1. IInv /\ [Next]_vars => IInv'
  BY NextTypeOK, NextBufferInv, NextReaderInv DEF IInv, BufferInv, ReaderInv
<1>2. QED
  BY InitIInv, <1>1, PTL DEF Spec

\* Every reachable state of the worker and its readers is well typed.
THEOREM TypeCorrect == Spec => []TypeOK
  BY InductiveInvariant, PTL DEF IInv

\* What the crash handler reads after FreezeForCrash is never written under it.
THEOREM FrozenReadsAreStable == Spec => []FrozenReadStable
<1>1. IInv => FrozenReadStable
  BY DEF IInv, TypeOK, FrozenReadStable, FrozenReaders, PublishedIsOther, Overwrites,
         Writing, NotReading, Index, NoBuffer, Readers, GameReads, WorkerPc
<1>2. QED
  BY InductiveInvariant, <1>1, PTL

\* A diagnostic read that lasts less than one interval is never torn.
THEOREM ShortReadsAreStable == Spec => []ShortReadStable
<1>1. IInv => ShortReadStable
  BY DEF IInv, TypeOK, ShortReadStable, GameReads, PublishedIsOther, Overwrites,
         Writing, NotReading, Index, NoBuffer, Readers, WorkerPc
<1>2. QED
  BY InductiveInvariant, <1>1, PTL

\* Whatever is published is a complete capture.
THEOREM PublishedCaptureIsComplete == Spec => []PublishedComplete
<1>1. IInv => PublishedComplete
  BY DEF IInv, TypeOK, PublishedComplete, PublishedHolds, MarkedCaches, Index, NoBuffer, Torn
<1>2. QED
  BY InductiveInvariant, <1>1, PTL

\* Every step of the worker is a step of the register of complete captures, or
\* leaves the register alone.
THEOREM WorkerImplementsRegister == Spec => ImplementsRegister
<1>1. Init => Register!RInit
  BY DEF Init, Register!RInit, Register!NoCapture, NothingCaptured, Writing, NoBuffer, Torn
<1>2. IInv /\ [Next]_vars => [Register!RNext]_(Register!rvars)
  <2> SUFFICES ASSUME IInv, [Next]_vars
               PROVE  [Register!RNext]_(Register!rvars)
    OBVIOUS
  <2> USE DEF Register!RNext, Register!rvars, Register!RPublish, Register!RFreeze,
              Register!RAbandon, Writing, NothingCaptured, NoBuffer, Index, Torn,
              IInv, TypeOK, PublishedIsOther, WorkerPc
  <2>1. CASE TickBegin
    BY <2>1 DEF TickBegin
  <2>2. CASE TickSkipped
    BY <2>2 DEF TickSkipped
  <2>3. CASE FillHead
    BY <2>3 DEF FillHead
  <2>4. CASE RefreshCaches
    BY <2>4 DEF RefreshCaches
  <2>5. CASE CopyCaches
    BY <2>5 DEF CopyCaches
  <2>6. CASE Publish
    BY <2>6 DEF Publish, Register!Capture, Register!Newer, MarkedCaches, TargetFilled,
                PublishedHolds
  <2>7. CASE TickEnd
    BY <2>7 DEF TickEnd
  <2>8. CASE TickThrows
    BY <2>8 DEF TickThrows
  <2>9. CASE FreezeForCrash
    BY <2>9 DEF FreezeForCrash, workerVars
  <2>10. ASSUME NEW r \in Readers, ReadBegin(r) \/ ReadEnd(r)
         PROVE  UNCHANGED Register!rvars
    BY <2>10 DEF ReadBegin, ReadEnd, workerVars
  <2>11. CASE UNCHANGED vars
    BY <2>11 DEF vars, workerVars
  <2>12. QED
    BY <2>1, <2>2, <2>3, <2>4, <2>5, <2>6, <2>7, <2>8, <2>9, <2>10, <2>11 DEF Next, Worker
<1>3. QED
  BY <1>1, <1>2, InductiveInvariant, PTL DEF Spec, Register!RSpec, ImplementsRegister
=============================================================================
