---------------------------- MODULE CrashPipeline ----------------------------
(***************************************************************************)
(* The crash handler and the snapshot worker together.  The report is      *)
(* written, section by section, from whatever Current() returns when the   *)
(* section starts; the worker is a thread like the others, whose tick may  *)
(* be in flight when another thread faults and which may itself raise an   *)
(* exception in the middle of a tick.                                      *)
(***************************************************************************)
EXTENDS CrashHandler

CONSTANTS
  WorkerThread,  \* the thread that runs snap::Run
  MaxTick, MaxGen

ASSUME WorkerAssumption == WorkerThread \in Threads
ASSUME WorkerBounds == MaxTick \in Nat /\ MaxGen \in Nat \ {0}

VARIABLES
  published, writeIndex, cacheGen, bufferCacheGen, buffers, tick, workerPc, reader,
  seen,      \* history: per thread, the captures its current report was written from
  skipped,   \* history: the worker has skipped a tick while no report was being written
  stale      \* history: per thread, the value of skipped when its report began

W == INSTANCE SnapshotWorker WITH CrashReaders <- Threads, GameReaders <- {}, pc <- workerPc

workerVars == <<published, writeIndex, cacheGen, bufferCacheGen, buffers, tick, workerPc>>
reading == <<reader, seen>>
pipelineVars == <<handlerVars, workerVars, reading, skipped, stale>>

PipelineInit ==
  /\ Init
  /\ W!Init
  /\ seen = [t \in Threads |-> << >>]
  /\ skipped = FALSE
  /\ stale = [t \in Threads |-> FALSE]

\* The worker goes on unless its thread is held by an exception of its own.
WorkerStep ==
  /\ where[WorkerThread] = "run"
  /\ W!Worker
  /\ skipped' = (skipped \/ (W!TickSkipped /\ handlerInProgress = 0))
  /\ UNCHANGED <<gate, buffer, files, who, where, step, history, env, ioErrors, faults, seen, stale>>

\* The parts of a report that are made from the snapshot.
ReadsSnapshot(t) ==
  \/ where[t] = "body" /\ Op(t) \in StageSet \cup {"sidecar"}
  \/ where[t] = "entered" /\ exc[t].kind = "overflow"

\* A section starts: it takes the published buffer, if there is one, and keeps it.
SectionBegins(t) ==
  /\ ReadsSnapshot(t)
  /\ reader[t] = W!NotReading
  /\ published # W!NoBuffer
  /\ reader' = [reader EXCEPT ![t] = [buffer |-> published, slept |-> 0]]
  /\ LET capture == buffers[published]
         known == {seen[t][i] : i \in DOMAIN seen[t]}
     IN  seen' = IF capture \in known THEN seen ELSE [seen EXCEPT ![t] = Append(@, capture)]
  /\ UNCHANGED <<handlerVars, workerVars, skipped, stale>>

SectionEnds(t) ==
  /\ reader[t] # W!NotReading
  /\ reader' = [reader EXCEPT ![t] = W!NotReading]
  /\ UNCHANGED <<handlerVars, workerVars, seen, skipped, stale>>

ReportBegins(t) ==
  /\ Enter(t)
  /\ seen' = [seen EXCEPT ![t] = << >>]
  /\ stale' = [stale EXCEPT ![t] = skipped]
  /\ UNCHANGED <<workerVars, reader, skipped>>

ThreadStep(t) ==
  /\ reader[t] = W!NotReading
  /\ Raise(t) \/ LeftFaults(t) \/ Proceed(t)
  /\ UNCHANGED <<workerVars, reading, skipped, stale>>

PipelineNext ==
  /\ alive
  /\ \/ WorkerStep
     \/ Second /\ UNCHANGED <<workerVars, reading, skipped, stale>>
     \/ \E t \in Threads :
          SectionBegins(t) \/ SectionEnds(t) \/ ReportBegins(t) \/ ThreadStep(t)

PipelineSpec == PipelineInit /\ [][PipelineNext]_pipelineVars

-----------------------------------------------------------------------------
(***************************************************************************)
(* Properties.                                                             *)
(***************************************************************************)

\* The sections of one report come from complete captures, and from two of them at
\* most: the one published when the gate was taken and the one of the tick that was
\* in flight then, in that order.
ReportCoherent ==
  \A t \in Threads :
    /\ \A i \in DOMAIN seen[t] : seen[t][i].head # W!Torn /\ seen[t][i].caches # W!Torn
    /\ Len(seen[t]) <= 2
    /\ Len(seen[t]) = 2 => seen[t][1].head < seen[t][2].head

\* The handler keeps its side of the worker's contract, on which the worker's own
\* properties rest: it reads only after the freeze, and nothing thaws it.
WorkerContract == W!Spec

\* README.md:22, "Live engine state at the crash": a report is not written from a
\* snapshot that the worker stopped refreshing before the exception was raised.
SnapshotLiveAtCrash == \A t \in Threads : Inside(t) => ~stale[t]
=============================================================================
