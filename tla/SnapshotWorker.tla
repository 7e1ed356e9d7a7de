--------------------------- MODULE SnapshotWorker ---------------------------
(***************************************************************************)
(* The background worker of snapshot/SnapshotWorker.cpp.  Every interval   *)
(* it fills the buffer that is not published, refreshes the slow caches,   *)
(* copies them into the buffer if the buffer holds an older generation,    *)
(* and publishes the buffer by storing its address.  Two kinds of thread   *)
(* read the published buffer without a lock: the thread that crashed,      *)
(* after FreezeForCrash, and the game thread that asks for the diagnostic  *)
(* JSON, at any time.                                                      *)
(*                                                                         *)
(* A buffer is abstracted to the capture it holds: head is the number of   *)
(* the tick that wrote the per-tick part, caches the cache generation that *)
(* was copied into it, Torn a part that is half written.                   *)
(***************************************************************************)
EXTENDS Integers

CONSTANTS
  CrashReaders,  \* threads that read from the crash handler
  GameReaders,   \* threads that read from GetDiagnosticJson_Native
  MaxTick,       \* bound: number of ticks
  MaxGen         \* bound: value of g_cacheGen

ASSUME ReadersAssumption == CrashReaders \cap GameReaders = {}
ASSUME BoundsAssumption == MaxTick \in Nat /\ MaxGen \in Nat \ {0}

VARIABLES
  crashInProgress,  \* g_crashInProgress
  published,        \* g_published: index of the published buffer, or NoBuffer
  writeIndex,       \* g_writeIndex
  cacheGen,         \* g_cacheGen
  bufferCacheGen,   \* g_bufferCacheGen
  buffers,          \* g_buffers
  tick,             \* number of ticks started
  pc,               \* where the worker stands in Run / Tick
  reader            \* what each reading thread is doing

workerVars == <<published, writeIndex, cacheGen, bufferCacheGen, buffers, tick, pc>>
vars == <<crashInProgress, workerVars, reader>>

Index == 0 .. 1
NoBuffer == 2
Torn == 0     \* no tick and no cache generation has number 0
Readers == CrashReaders \cup GameReaders

WorkerPc == {"boot", "sleep", "checked", "filled", "refreshed", "copied", "published"}

\* The phases in which the worker writes into g_buffers[g_writeIndex].
Writing == pc \in {"checked", "filled", "refreshed", "copied"}

NotReading == [buffer |-> NoBuffer, slept |-> 0]

-----------------------------------------------------------------------------
Init ==
  /\ crashInProgress = FALSE
  /\ published = NoBuffer
  /\ writeIndex = 0
  /\ cacheGen = 1
  /\ bufferCacheGen = [b \in Index |-> 0]
  /\ buffers = [b \in Index |-> [head |-> Torn, caches |-> Torn]]
  /\ tick = 0
  /\ pc = "boot"
  /\ reader = [r \in Readers |-> NotReading]

(***************************************************************************)
(* The worker.                                                             *)
(***************************************************************************)

\* slept counts what a read has seen of the worker's sleep: 1 when the worker fell
\* asleep during the read, 2 when the whole Sleep(intervalMs) passed during it.
FallsAsleep(r) == [r EXCEPT !.slept = IF r.buffer # NoBuffer /\ @ = 0 THEN 1 ELSE @]
Wakes(r) == [r EXCEPT !.slept = IF @ = 1 THEN 2 ELSE @]

SleepReaders == [r \in Readers |-> FallsAsleep(reader[r])]
WakeReaders == [r \in Readers |-> Wakes(reader[r])]

\* Mutant: a tick that does not look at g_crashInProgress.
TickBeginUnchecked ==
  /\ pc \in {"boot", "sleep"}
  /\ tick < MaxTick
  /\ tick' = tick + 1
  /\ pc' = "checked"
  /\ reader' = WakeReaders
  /\ UNCHANGED <<crashInProgress, published, writeIndex, cacheGen, bufferCacheGen, buffers>>

\* Sleep ends (or Start calls the first Tick itself) and the tick passes the
\* check of g_crashInProgress.  From here on a freeze does not stop it.
TickBegin ==
  /\ pc \in {"boot", "sleep"}
  /\ tick < MaxTick
  /\ ~crashInProgress
  /\ tick' = tick + 1
  /\ pc' = "checked"
  /\ reader' = WakeReaders
  /\ UNCHANGED <<crashInProgress, published, writeIndex, cacheGen, bufferCacheGen, buffers>>

\* The tick finds the flag set and returns; the thread sleeps again.
TickSkipped ==
  /\ pc \in {"boot", "sleep"}
  /\ crashInProgress
  /\ pc' = "sleep"
  /\ reader' = [r \in Readers |-> FallsAsleep(Wakes(reader[r]))]
  /\ UNCHANGED <<crashInProgress, published, writeIndex, cacheGen, bufferCacheGen, buffers, tick>>

\* Time stamp, versions, memory, engine state, live state, module list.
FillHead ==
  /\ pc = "checked"
  /\ buffers' = [buffers EXCEPT ![writeIndex].head = tick]
  /\ pc' = "filled"
  /\ UNCHANGED <<crashInProgress, published, writeIndex, cacheGen, bufferCacheGen, tick, reader>>

\* Inventory, plugin metadata, wrap chains, archive conflicts and setup
\* integrity: each is refreshed, and counted, when it is stale and does not
\* throw.  Only the worker reads the caches, so the five are one step.
RefreshCaches ==
  /\ pc = "filled"
  /\ \E refreshed \in 0 .. 5 :
       /\ cacheGen + refreshed <= MaxGen
       /\ cacheGen' = cacheGen + refreshed
  /\ pc' = "refreshed"
  /\ UNCHANGED <<crashInProgress, published, writeIndex, bufferCacheGen, buffers, tick, reader>>

\* Mutant: the buffer is marked current before the copy, so a copy that
\* throws is never repeated.
CopyCachesMarkedFirst ==
  /\ pc = "refreshed"
  /\ bufferCacheGen' = [bufferCacheGen EXCEPT ![writeIndex] = cacheGen]
  /\ \E copied \in {cacheGen, Torn} :
       IF bufferCacheGen[writeIndex] # cacheGen
         THEN /\ buffers' = [buffers EXCEPT ![writeIndex].caches = copied]
              /\ pc' = IF copied = Torn THEN "sleep" ELSE "copied"
         ELSE buffers' = buffers /\ pc' = "copied"
  /\ UNCHANGED <<crashInProgress, published, writeIndex, cacheGen, tick, reader>>

CopyCaches ==
  /\ pc = "refreshed"
  /\ IF bufferCacheGen[writeIndex] # cacheGen
       THEN /\ buffers' = [buffers EXCEPT ![writeIndex].caches = cacheGen]
            /\ bufferCacheGen' = [bufferCacheGen EXCEPT ![writeIndex] = cacheGen]
       ELSE UNCHANGED <<buffers, bufferCacheGen>>
  /\ pc' = "copied"
  /\ UNCHANGED <<crashInProgress, published, writeIndex, cacheGen, tick, reader>>

\* Mutant: the worker goes on writing into the buffer it has published.
PublishWithoutFlip ==
  /\ pc = "copied"
  /\ published' = writeIndex
  /\ pc' = "published"
  /\ UNCHANGED <<crashInProgress, writeIndex, cacheGen, bufferCacheGen, buffers, tick, reader>>

Publish ==
  /\ pc = "copied"
  /\ published' = writeIndex
  /\ writeIndex' = (writeIndex + 1) % 2
  /\ pc' = "published"
  /\ UNCHANGED <<crashInProgress, cacheGen, bufferCacheGen, buffers, tick, reader>>

\* hooks::InstallAll, ResolveHeartbeatNames and CheckForHang, each with its own
\* catch (...), then Run sleeps.
TickEnd ==
  /\ pc = "published"
  /\ pc' = "sleep"
  /\ reader' = SleepReaders
  /\ UNCHANGED <<crashInProgress, published, writeIndex, cacheGen, bufferCacheGen, buffers, tick>>

\* An allocation fails while the buffer is filled or the caches are copied: Run
\* catches, and the tick is given up with the buffer half written.
TickThrows ==
  /\ pc \in {"checked", "refreshed"}
  /\ pc = "refreshed" => bufferCacheGen[writeIndex] # cacheGen
  /\ buffers' = IF pc = "checked"
                  THEN [buffers EXCEPT ![writeIndex].head = Torn]
                  ELSE [buffers EXCEPT ![writeIndex].caches = Torn]
  /\ pc' = "sleep"
  /\ reader' = SleepReaders
  /\ UNCHANGED <<crashInProgress, published, writeIndex, cacheGen, bufferCacheGen, tick>>

Worker ==
  \/ TickBegin \/ TickSkipped \/ FillHead \/ RefreshCaches
  \/ CopyCaches \/ Publish \/ TickEnd \/ TickThrows

(***************************************************************************)
(* The other threads.                                                      *)
(***************************************************************************)

\* Nothing clears the flag: it survives an exception that somebody handles.
FreezeForCrash ==
  /\ crashInProgress' = TRUE
  /\ UNCHANGED <<workerVars, reader>>

\* A thread calls Current() and starts to use the buffer it gets.  The crash
\* handler does so only after it has called FreezeForCrash.
ReadBegin(r) ==
  /\ reader[r] = NotReading
  /\ published # NoBuffer
  /\ r \in CrashReaders => crashInProgress
  /\ reader' = [reader EXCEPT ![r] = [buffer |-> published, slept |-> 0]]
  /\ UNCHANGED <<crashInProgress, workerVars>>

ReadEnd(r) ==
  /\ reader[r] # NotReading
  /\ reader' = [reader EXCEPT ![r] = NotReading]
  /\ UNCHANGED <<crashInProgress, workerVars>>

Next ==
  \/ Worker
  \/ FreezeForCrash
  \/ \E r \in Readers : ReadBegin(r) \/ ReadEnd(r)

Spec == Init /\ [][Next]_vars

-----------------------------------------------------------------------------
(***************************************************************************)
(* Properties.                                                             *)
(***************************************************************************)

TypeOK ==
  /\ crashInProgress \in BOOLEAN
  /\ published \in Index \cup {NoBuffer}
  /\ writeIndex \in Index
  /\ cacheGen \in Nat \ {0}
  /\ bufferCacheGen \in [Index -> Nat]
  /\ buffers \in [Index -> [head : Nat, caches : Nat]]
  /\ tick \in Nat
  /\ pc \in WorkerPc
  /\ reader \in [Readers -> [buffer : Index \cup {NoBuffer}, slept : 0 .. 2]]

\* The worker is writing into buffer b.
Overwrites(b) == Writing /\ writeIndex = b

\* A buffer that the crash handler obtained after FreezeForCrash is never
\* written while the handler still uses it, whatever tick was in flight when
\* the crash came: Tick checks g_crashInProgress only once, at its start.
FrozenReadStable ==
  \A r \in CrashReaders : reader[r] # NotReading => ~Overwrites(reader[r].buffer)

\* GetDiagnosticJson_Native reads without freezing anything.  What protects it
\* is time alone: the buffer it holds can be overwritten only once a whole
\* Sleep(intervalMs) has passed during the read.
ShortReadStable ==
  \A r \in GameReaders :
    reader[r] # NotReading /\ reader[r].slept < 2 => ~Overwrites(reader[r].buffer)

\* A published capture is complete: its per-tick part was written by one tick,
\* and its caches are the generation recorded for the buffer, also after copies
\* that threw half way and were caught in Run.
PublishedComplete ==
  published # NoBuffer =>
    /\ buffers[published].head # Torn
    /\ buffers[published].caches # Torn
    /\ buffers[published].caches = bufferCacheGen[published]

(***************************************************************************)
(* The inductive invariant behind the three properties above.              *)
(***************************************************************************)

\* Once something is published, it is always the buffer that is not up for writing.
PublishedIsOther == published # NoBuffer => published = 1 - writeIndex

\* A buffer marked with the current generation holds that generation: a copy that
\* threw leaves the older mark, so the next tick repeats it.
MarkedCaches ==
  \A b \in Index :
    /\ bufferCacheGen[b] <= cacheGen
    /\ buffers[b].caches = Torn => bufferCacheGen[b] < cacheGen
    /\ buffers[b].caches # Torn => buffers[b].caches = bufferCacheGen[b]

\* The buffer being written holds what this tick has put there so far.
TargetFilled ==
  /\ pc \in {"filled", "refreshed", "copied"} => buffers[writeIndex].head = tick
  /\ pc = "copied" => bufferCacheGen[writeIndex] = cacheGen
  /\ pc # "boot" /\ Writing => tick > 0

\* The published buffer holds a complete capture, older than the tick in progress.
PublishedHolds ==
  published # NoBuffer =>
    /\ buffers[published].head \in 1 .. tick
    /\ Writing => buffers[published].head < tick
    /\ buffers[published].caches # Torn

\* A crash reader whose buffer is no longer the published one has the in-flight
\* tick behind it; no other tick can begin.
FrozenReaders ==
  \A r \in CrashReaders :
    reader[r].buffer # NoBuffer =>
      /\ crashInProgress
      /\ reader[r].buffer # published => pc \in {"published", "sleep"}

\* Where the worker is when a game reader holds a buffer that was replaced.
GameReads ==
  \A r \in GameReaders :
    /\ reader[r].slept = 1 => pc = "sleep"
    /\ reader[r].slept = 0 /\ reader[r].buffer # NoBuffer =>
         reader[r].buffer = published \/ pc = "published"

NothingHeldBeforePublish ==
  published = NoBuffer => \A r \in Readers : reader[r].buffer = NoBuffer

IInv ==
  /\ TypeOK
  /\ PublishedIsOther
  /\ MarkedCaches
  /\ TargetFilled
  /\ PublishedHolds
  /\ FrozenReaders
  /\ GameReads
  /\ NothingHeldBeforePublish

(***************************************************************************)
(* The worker implements the register of complete captures.  The buffer is *)
(* read through g_published, so overwriting the published buffer would be a*)
(* step that the register does not allow.                                  *)
(***************************************************************************)
NothingCaptured == [head |-> Torn, caches |-> Torn]

Register == INSTANCE SnapshotRegister WITH
  value <- IF published = NoBuffer THEN NothingCaptured ELSE buffers[published],
  frozen <- crashInProgress,
  pending <- crashInProgress /\ Writing

\* Every caller of Current() sees an atomic register: captures arrive whole, in
\* order, and at most one after the freeze.
ImplementsRegister == Register!RSpec
=============================================================================
