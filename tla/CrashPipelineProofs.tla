------------------------- MODULE CrashPipelineProofs -------------------------
(***************************************************************************)
(* The crash handler keeps its side of the contract of the snapshot        *)
(* worker, for any threads and bounds: whatever the handlers of all        *)
(* threads do, what the worker and its readers see is a behaviour of       *)
(* SnapshotWorker, whose theorems hold of it.                              *)
(*                                                                         *)
(* The contract says that a thread reads only after the freeze.  A section *)
(* that starts looks at where its thread is, not at the flag; so the       *)
(* invariant ties the two: the flag is set when a thread takes the gate    *)
(* and nothing clears it, so it is set while a thread is inside.           *)
(*                                                                         *)
(* With the contract the worker's own invariant holds in the composition,  *)
(* its lemmas cited through PW.  ReportCoherent then needs what a report   *)
(* has seen so far related to what is published and to the one tick that   *)
(* may be in flight: SeenInv.                                              *)
(***************************************************************************)
EXTENDS CrashPipeline, TLAPS

-----------------------------------------------------------------------------
(***************************************************************************)
(* The contract.                                                           *)
(***************************************************************************)

FrozenInside ==
  /\ crashInProgress \in BOOLEAN
  /\ where \in [Threads -> InsideAt \cup {"run", "raised", "left", "search", "terminate", "died"}]
  /\ \A t \in Threads : Inside(t) => crashInProgress

\* A thread goes from one place to another, and is inside afterwards only if it was before or
\* the flag is set.
LEMMA MoveKeepsFrozen ==
  ASSUME NEW t \in Threads, NEW w \in InsideAt \cup {"run", "raised", "left", "search", "terminate", "died"},
         FrozenInside,
         where' = [where EXCEPT ![t] = w],
         crashInProgress' = crashInProgress,
         w \in InsideAt => Inside(t)
  PROVE  FrozenInside'
  <1>1. \A u \in Threads : Inside(u)' => Inside(u)
    BY DEF FrozenInside, Inside
  <1> QED
    BY <1>1 DEF FrozenInside

\* What a handler does after it has taken the gate, and what a thread does without it, leaves the
\* flag as it is and brings no thread inside.
LEMMA ProceedKeepsFrozen ==
  ASSUME FrozenInside, NEW t \in Threads, Raise(t) \/ LeftFaults(t) \/ Proceed(t)
  PROVE  FrozenInside' /\ crashInProgress' = crashInProgress
  <1> USE DEF Goto, Inside, InsideAt, gate
  <1>1. CASE Raise(t)
    BY <1>1, MoveKeepsFrozen DEF Raise
  <1>2. CASE Bounce(t)
    BY <1>2, MoveKeepsFrozen DEF Bounce
  <1>3. CASE Search(t)
    BY <1>3, MoveKeepsFrozen DEF Search
  <1>4. CASE StartBody(t)
    BY <1>4, MoveKeepsFrozen DEF StartBody
  <1>5. CASE EmitStage(t) \/ EmitStageFaults(t)
    BY <1>5, MoveKeepsFrozen DEF EmitStage, EmitStageFaults, NextStep
  <1>6. CASE OpenFile(t)
    BY <1>6, MoveKeepsFrozen DEF OpenFile
  <1>7. CASE OpenFails(t)
    BY <1>7, MoveKeepsFrozen DEF OpenFails, AfterFailedWrite, NextStep
  <1>8. CASE WriteFile(t)
    BY <1>8, MoveKeepsFrozen DEF WriteFile, AfterWrite, NextStep
  <1>9. CASE WriteFileFails(t)
    BY <1>9, MoveKeepsFrozen DEF WriteFileFails, AfterFailedWrite, NextStep
  <1>10. CASE WriteLiteral(t)
    BY <1>10, MoveKeepsFrozen DEF WriteLiteral
  <1>11. CASE BodyFaults(t)
    BY <1>11, MoveKeepsFrozen DEF BodyFaults
  <1>12. CASE WriteFailedReport(t)
    BY <1>12, MoveKeepsFrozen DEF WriteFailedReport
  <1>13. CASE OverflowBody(t)
    BY <1>13, MoveKeepsFrozen DEF OverflowBody
  <1>14. CASE HandlerFaults(t)
    BY <1>14, MoveKeepsFrozen DEF HandlerFaults
  <1>15. CASE Leave(t)
    <2>1. PICK w \in {"terminate", "left"} : where' = [where EXCEPT ![t] = w]
      BY <1>15 DEF Leave, AfterGate
    <2> QED
      BY <1>15, <2>1, MoveKeepsFrozen DEF Leave
  <1>16. CASE Terminate(t)
    BY <1>16, MoveKeepsFrozen DEF Terminate
  <1>17. CASE BuildPath(t)
    BY <1>17, MoveKeepsFrozen DEF BuildPath
  <1>18. CASE Return(t)
    BY <1>18, MoveKeepsFrozen DEF Return
  <1>19. CASE Finish(t)
    <2>1. PICK w \in {"terminate", "search"} : where' = [where EXCEPT ![t] = w]
      BY <1>19 DEF Finish
    <2> QED
      BY <1>19, <2>1, MoveKeepsFrozen DEF Finish
  <1>20. CASE LeftFaults(t)
    BY <1>20, MoveKeepsFrozen DEF LeftFaults
  <1> QED
    BY <1>1, <1>2, <1>3, <1>4, <1>5, <1>6, <1>7, <1>8, <1>9, <1>10, <1>11, <1>12,
       <1>13, <1>14, <1>15, <1>16, <1>17, <1>18, <1>19, <1>20 DEF Proceed

\* The steps of the worker and of the sections move no thread of the handler.
LEMMA StillKeepsFrozen ==
  ASSUME FrozenInside, UNCHANGED <<where, crashInProgress>>
  PROVE  FrozenInside'
  BY DEF FrozenInside, Inside

\* A thread that takes the gate sets the flag.
LEMMA ReportBeginsKeepsFrozen ==
  ASSUME FrozenInside, NEW t \in Threads, ReportBegins(t)
  PROVE  FrozenInside'
  BY DEF FrozenInside, ReportBegins, Enter, TakeGate, Goto, Inside, InsideAt

LEMMA WorkerLeavesFlag == W!Worker => UNCHANGED crashInProgress
  BY DEF W!Worker, W!TickBegin, W!TickSkipped, W!FillHead, W!RefreshCaches, W!CopyCaches, W!Publish,
         W!TickEnd, W!TickThrows

\* Every step of the composition keeps the invariant and is, for the worker and its readers, a
\* step of SnapshotWorker or none.
LEMMA StepKeepsContract ==
  ASSUME FrozenInside, [PipelineNext]_pipelineVars
  PROVE  FrozenInside' /\ [W!Next]_(W!vars)
  <1> USE DEF W!vars, W!workerVars, workerVars, reading
  <1>1. CASE WorkerStep
    <2>1. W!Worker /\ UNCHANGED where
      BY <1>1 DEF WorkerStep
    <2>2. UNCHANGED crashInProgress
      BY <2>1, WorkerLeavesFlag
    <2> QED
      BY <2>1, <2>2, StillKeepsFrozen DEF W!Next
  <1>2. CASE Second /\ UNCHANGED <<workerVars, reading, skipped, stale>>
    BY <1>2, StillKeepsFrozen DEF Second, gate
  <1>3. ASSUME NEW t \in Threads, SectionBegins(t)
        PROVE  FrozenInside' /\ [W!Next]_(W!vars)
    <2>1. UNCHANGED <<where, crashInProgress, workerVars>>
      BY <1>3 DEF SectionBegins, handlerVars, gate
    <2>2. crashInProgress
      BY <1>3 DEF SectionBegins, ReadsSnapshot, FrozenInside, Inside, InsideAt
    <2>3. W!ReadBegin(t)
      BY <1>3, <2>1, <2>2 DEF SectionBegins, W!ReadBegin
    <2> QED
      BY <2>1, <2>3, StillKeepsFrozen DEF W!Next, W!Readers
  <1>4. ASSUME NEW t \in Threads, SectionEnds(t)
        PROVE  FrozenInside' /\ [W!Next]_(W!vars)
    <2>1. UNCHANGED <<where, crashInProgress, workerVars>>
      BY <1>4 DEF SectionEnds, handlerVars, gate
    <2>2. W!ReadEnd(t)
      BY <1>4, <2>1 DEF SectionEnds, W!ReadEnd
    <2> QED
      BY <2>1, <2>2, StillKeepsFrozen DEF W!Next, W!Readers
  <1>5. ASSUME NEW t \in Threads, ReportBegins(t)
        PROVE  FrozenInside' /\ [W!Next]_(W!vars)
    <2>1. W!FreezeForCrash
      BY <1>5 DEF ReportBegins, Enter, TakeGate, W!FreezeForCrash
    <2> QED
      BY <1>5, <2>1, ReportBeginsKeepsFrozen DEF W!Next
  <1>6. ASSUME NEW t \in Threads, ThreadStep(t)
        PROVE  FrozenInside' /\ [W!Next]_(W!vars)
    BY <1>6, ProceedKeepsFrozen DEF ThreadStep
  <1>7. CASE UNCHANGED pipelineVars
    BY <1>7, StillKeepsFrozen DEF pipelineVars, handlerVars, gate
  <1> QED
    BY <1>1, <1>2, <1>3, <1>4, <1>5, <1>6, <1>7 DEF PipelineNext

\* The handlers of any number of threads freeze the worker before they read what it published, and
\* never thaw it (SehHandler.cpp:83, SnapshotWorker.cpp:554-556).
THEOREM HandlerKeepsContract == PipelineSpec => WorkerContract
  <1>1. PipelineInit => FrozenInside /\ W!Init
    BY DEF PipelineInit, Init, FrozenInside, Inside, InsideAt
  <1>2. FrozenInside /\ [PipelineNext]_pipelineVars => FrozenInside' /\ [W!Next]_(W!vars)
    BY StepKeepsContract
  <1> QED
    BY <1>1, <1>2, PTL DEF PipelineSpec, WorkerContract, W!Spec

-----------------------------------------------------------------------------
(***************************************************************************)
(* What a report is written from.                                          *)
(***************************************************************************)

\* The theorems about the worker, with the threads of the handler as its readers.
PW == INSTANCE SnapshotWorkerProofs WITH CrashReaders <- Threads, GameReaders <- {}, pc <- workerPc

\* The constants of the pipeline satisfy what the worker assumes.
LEMMA WorkerAssumptions == PW!ReadersAssumption /\ PW!BoundsAssumption
  BY WorkerBounds DEF PW!ReadersAssumption, PW!BoundsAssumption

\* The worker of the pipeline is that worker.
LEMMA SameWorker ==
  /\ W!Init => PW!Init
  /\ W!Worker => PW!Worker
  /\ [W!Next]_(W!vars) => [PW!Next]_(PW!vars)
  BY DEF W!Init, PW!Init, W!Next, PW!Next, W!vars, PW!vars, W!workerVars, PW!workerVars, W!Worker, PW!Worker,
     W!TickBegin, PW!TickBegin, W!TickSkipped, PW!TickSkipped, W!FillHead, PW!FillHead, W!RefreshCaches, PW!RefreshCaches,
     W!CopyCaches, PW!CopyCaches, W!Publish, PW!Publish, W!TickEnd, PW!TickEnd, W!TickThrows, PW!TickThrows,
     W!FreezeForCrash, PW!FreezeForCrash, W!ReadBegin, PW!ReadBegin, W!ReadEnd, PW!ReadEnd, W!Readers, PW!Readers,
     W!NotReading, PW!NotReading, W!NoBuffer, PW!NoBuffer, W!Index, PW!Index, W!Torn, PW!Torn,
     W!WakeReaders, PW!WakeReaders, W!SleepReaders, PW!SleepReaders, W!FallsAsleep, PW!FallsAsleep, W!Wakes, PW!Wakes

\* One step of the worker and its readers keeps the inductive invariant of SnapshotWorker.
LEMMA WorkerInvStep ==
  ASSUME PW!IInv, [W!Next]_(W!vars)
  PROVE  PW!IInv'
  <1>1. [PW!Next]_(PW!vars)
    BY SameWorker
  <1>2. PW!TypeOK'
    BY <1>1, PW!NextTypeOK, WorkerAssumptions DEF PW!IInv
  <1>3. PW!BufferInv' /\ PW!ReaderInv'
    BY <1>1, PW!NextBufferInv, PW!NextReaderInv, WorkerAssumptions
  <1> QED
    BY <1>2, <1>3 DEF PW!IInv, PW!BufferInv, PW!ReaderInv

\* What a buffer of the worker may hold.
Captures == [head : Nat, caches : Nat]

\* The capture that Current() returns.
Shown == buffers[published]

\* A tick is in flight: one more capture may still be published.
InFlight == workerPc \in {"checked", "filled", "refreshed", "copied"}

\* A report has seen nothing, the capture that is published, the one before it, or both.
SeenSoFar(t) ==
  /\ seen[t] \in Seq(Captures) /\ Len(seen[t]) <= 2
  /\ \A i \in DOMAIN seen[t] : seen[t][i].head # 0 /\ seen[t][i].caches # 0
  /\ Len(seen[t]) # 0 => crashInProgress /\ published # 2
  /\ Len(seen[t]) = 1 => seen[t][1] = Shown \/ (~InFlight /\ seen[t][1].head < Shown.head)
  /\ Len(seen[t]) = 2 => seen[t][2] = Shown /\ ~InFlight /\ seen[t][1].head < Shown.head

\* What every report has seen.
SeenInv ==
  /\ seen \in [Threads -> Seq(Captures)]
  /\ \A t \in Threads : SeenSoFar(t)

\* What the worker shows is a complete capture, however it got there.
LEMMA ShownComplete ==
  ASSUME PW!IInv, published # 2
  PROVE  Shown \in Captures /\ Shown.head # 0 /\ Shown.caches # 0
  BY DEF PW!IInv, PW!TypeOK, PW!PublishedHolds, PW!Index, PW!NoBuffer, PW!Torn, Shown, Captures

\* After the freeze the worker goes on with the tick in flight, if there is one, and that tick
\* publishes once at most; what is published meanwhile is not touched.
LEMMA WorkerAfterFreeze ==
  ASSUME PW!IInv, W!Worker, crashInProgress, published # 2
  PROVE  /\ published' # 2
         /\ \/ Shown' = Shown /\ (~InFlight => ~InFlight')
            \/ InFlight /\ ~InFlight' /\ Shown.head < Shown'.head
  <1> USE DEF PW!IInv, PW!TypeOK, PW!PublishedIsOther, PW!PublishedHolds, PW!TargetFilled, PW!Writing, PW!Index, PW!NoBuffer,
          PW!WorkerPc, Shown, InFlight
  <1>1. PW!Worker
    BY SameWorker
  <1>2. CASE PW!TickBegin
    BY <1>2 DEF PW!TickBegin
  <1>3. CASE PW!TickSkipped
    BY <1>3 DEF PW!TickSkipped
  <1>4. CASE PW!FillHead
    BY <1>4 DEF PW!FillHead
  <1>5. CASE PW!RefreshCaches
    BY <1>5 DEF PW!RefreshCaches
  <1>6. CASE PW!CopyCaches
    BY <1>6 DEF PW!CopyCaches
  <1>7. CASE PW!Publish
    BY <1>7 DEF PW!Publish
  <1>8. CASE PW!TickEnd
    BY <1>8 DEF PW!TickEnd
  <1>9. CASE PW!TickThrows
    BY <1>9 DEF PW!TickThrows
  <1> QED
    BY <1>1, <1>2, <1>3, <1>4, <1>5, <1>6, <1>7, <1>8, <1>9 DEF PW!Worker

\* A section adds the capture that is shown, when the report has not seen it.
LEMMA SectionSees ==
  ASSUME FrozenInside, PW!IInv, SeenInv, NEW t \in Threads, SectionBegins(t)
  PROVE  SeenInv'
  <1>1. UNCHANGED <<published, buffers, workerPc, crashInProgress>> /\ crashInProgress /\ published # 2
    BY DEF SectionBegins, ReadsSnapshot, FrozenInside, Inside, InsideAt, handlerVars, gate, workerVars, W!NoBuffer
  <1>2. Shown \in Captures /\ Shown.head # 0 /\ Shown.caches # 0 /\ Shown' = Shown
    BY <1>1, ShownComplete DEF Shown
  <1>3. InFlight' = InFlight
    BY <1>1 DEF InFlight
  <1>4. CASE seen' = seen
    BY <1>1, <1>2, <1>3, <1>4 DEF SeenInv, SeenSoFar
  <1>5. CASE seen' = [seen EXCEPT ![t] = Append(seen[t], Shown)] /\ \A i \in DOMAIN seen[t] : seen[t][i] # Shown
    <2>1. seen[t] \in Seq(Captures) /\ SeenSoFar(t)
      BY DEF SeenInv
    <2> DEFINE s == seen[t]
    <2>2. Len(s) = 0 \/ (Len(s) = 1 /\ s[1] # Shown)
      <3>1. s \in Seq(Captures) /\ Len(s) <= 2 /\ (Len(s) = 2 => s[2] = Shown)
        BY <2>1 DEF SeenSoFar
      <3>2. \A i \in DOMAIN s : s[i] # Shown
        BY <1>5
      <3> HIDE DEF s
      <3>3. Len(s) \in Nat /\ DOMAIN s = 1 .. Len(s)
        BY <3>1
      <3>4. Len(s) # 2
        BY <3>1, <3>2, <3>3
      <3> QED
        BY <3>1, <3>2, <3>3, <3>4
    <2>3. seen'[t] = Append(s, Shown) /\ seen' \in [Threads -> Seq(Captures)]
      BY <1>2, <1>5, <2>1 DEF SeenInv
    <2>4. Len(seen'[t]) = Len(s) + 1 /\ seen'[t][Len(s) + 1] = Shown /\ \A i \in 1 .. Len(s) : seen'[t][i] = s[i]
      BY <1>2, <2>1, <2>3
    <2>5. SeenSoFar(t)'
      BY <1>1, <1>2, <1>3, <2>1, <2>2, <2>3, <2>4 DEF SeenSoFar
    <2>6. \A u \in Threads : u # t => SeenSoFar(u)'
      BY <1>1, <1>2, <1>3, <1>5 DEF SeenInv, SeenSoFar
    <2> QED
      BY <2>3, <2>5, <2>6 DEF SeenInv
  <1> QED
    BY <1>4, <1>5 DEF SectionBegins, Shown

\* Every step of the pipeline keeps what the reports have seen.
LEMMA SeenStep ==
  ASSUME FrozenInside, PW!IInv, SeenInv, [PipelineNext]_pipelineVars
  PROVE  SeenInv'
  <1>1. CASE WorkerStep
    <2>1. W!Worker /\ UNCHANGED <<seen, crashInProgress>>
      BY <1>1, WorkerLeavesFlag DEF WorkerStep
    <2>2. ASSUME NEW t \in Threads
          PROVE  SeenSoFar(t)'
      <3>1. SeenSoFar(t)
        BY DEF SeenInv
      <3>2. CASE Len(seen[t]) = 0
        BY <2>1, <3>1, <3>2 DEF SeenSoFar
      <3>3. CASE Len(seen[t]) # 0
        <4>1. crashInProgress /\ published # 2
          BY <3>1, <3>3 DEF SeenSoFar
        <4>2. /\ published' # 2
              /\ \/ Shown' = Shown /\ (~InFlight => ~InFlight')
                 \/ InFlight /\ ~InFlight' /\ Shown.head < Shown'.head
          BY <2>1, <4>1, WorkerAfterFreeze
        <4> QED
          BY <2>1, <3>1, <4>1, <4>2 DEF SeenSoFar
      <3> QED
        BY <3>2, <3>3
    <2> QED
      BY <2>1, <2>2 DEF SeenInv
  <1>2. ASSUME NEW t \in Threads, SectionBegins(t)
        PROVE  SeenInv'
    BY <1>2, SectionSees
  <1>3. ASSUME NEW t \in Threads, ReportBegins(t)
        PROVE  SeenInv'
    <2>1. crashInProgress' /\ UNCHANGED <<published, buffers, workerPc>> /\ seen' = [seen EXCEPT ![t] = << >>]
      BY <1>3 DEF ReportBegins, Enter, TakeGate, workerVars
    <2>2. Shown' = Shown /\ InFlight' = InFlight
      BY <2>1 DEF Shown, InFlight
    <2> QED
      BY <2>1, <2>2 DEF SeenInv, SeenSoFar
  <1>4. ASSUME UNCHANGED <<published, buffers, workerPc, crashInProgress, seen>>
        PROVE  SeenInv'
    BY <1>4 DEF SeenInv, SeenSoFar, Shown, InFlight
  <1>5. ASSUME NEW t \in Threads, SectionEnds(t) \/ ThreadStep(t)
        PROVE  SeenInv'
    BY <1>4, <1>5, ProceedKeepsFrozen DEF SectionEnds, ThreadStep, handlerVars, gate, workerVars, reading
  <1>6. CASE (Second /\ UNCHANGED <<workerVars, reading, skipped, stale>>) \/ UNCHANGED pipelineVars
    BY <1>4, <1>6 DEF Second, pipelineVars, handlerVars, gate, workerVars, reading
  <1> QED
    BY <1>1, <1>2, <1>3, <1>5, <1>6 DEF PipelineNext

\* Whatever tick was in flight when the exception came, the sections of one report come from
\* complete captures, two at most, and in the order they were published
\* (SnapshotWorker.cpp:453 and 554-556, SehHandler.cpp:83).
THEOREM ReportsAreCoherent == PipelineSpec => []ReportCoherent
  <1> DEFINE Inv == FrozenInside /\ PW!IInv /\ SeenInv
  <1>1. PipelineInit => Inv
    <2>1. PipelineInit => FrozenInside /\ W!Init
      BY DEF PipelineInit, Init, FrozenInside, Inside, InsideAt
    <2>2. W!Init => PW!IInv
      BY SameWorker, PW!InitIInv, WorkerAssumptions
    <2>3. PipelineInit => SeenInv
      BY DEF PipelineInit, SeenInv, SeenSoFar
    <2> QED
      BY <2>1, <2>2, <2>3
  <1>2. Inv /\ [PipelineNext]_pipelineVars => Inv'
    BY StepKeepsContract, WorkerInvStep, SeenStep
  <1>3. Inv => ReportCoherent
    BY DEF SeenInv, SeenSoFar, ReportCoherent, W!Torn
  <1> QED
    BY <1>1, <1>2, <1>3, PTL DEF PipelineSpec

\* While a section of a report uses the buffer that Current() returned, the worker does not
\* write into it: the guarantee of the worker, under the handlers there really are.
THEOREM SectionsAreStable == PipelineSpec => []W!FrozenReadStable
  <1>1. PW!Spec => []PW!FrozenReadStable
    BY PW!FrozenReadsAreStable, WorkerAssumptions, PTL
  <1>2. W!Init => PW!Init
    BY SameWorker
  <1>3. [W!Next]_(W!vars) => [PW!Next]_(PW!vars)
    BY SameWorker
  <1>4. PW!FrozenReadStable => W!FrozenReadStable
    BY DEF PW!FrozenReadStable, W!FrozenReadStable, PW!NotReading, W!NotReading, PW!NoBuffer, W!NoBuffer, PW!Overwrites, W!Overwrites,
       PW!Writing, W!Writing
  <1> QED
    BY <1>1, <1>2, <1>3, <1>4, HandlerKeepsContract, PTL DEF WorkerContract, W!Spec, PW!Spec
=============================================================================
