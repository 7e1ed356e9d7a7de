---------------------------- MODULE HangWatchdog ----------------------------
(***************************************************************************)
(* The hang watchdog (handler/HangWatchdog.cpp).  At the end of each tick  *)
(* the snapshot worker compares the newest heartbeat with the clock; the   *)
(* engine state it goes by is the one it read at the start of the tick.    *)
(* One unit of time stands for the polling interval.  The threshold is     *)
(* many intervals, so the clock moves on only when the worker has ticked   *)
(* since it moved last, as long as the worker ticks at all: a crash report *)
(* for an exception that the game handles freezes it for good.  Nor does  *)
(* it move on while a thread is in the few instructions of the detour.     *)
(***************************************************************************)
EXTENDS Heartbeat, SequencesExt

CONSTANTS
  Threshold,    \* hangThresholdSeconds, in units
  MaxFreezes,   \* bound: exceptions reported and handled
  MaxIoErrors,  \* bound: hang reports that cannot be written
  MaxMisreads   \* bound: ticks that cannot read the engine state; below Threshold, or
                \* they could hide all the activity between two hangs

ASSUME WatchdogBounds ==
  Threshold \in Nat \ {0} /\ {MaxFreezes, MaxIoErrors, MaxMisreads} \subseteq Nat

VARIABLES
  engine,           \* the state the engine is in
  crashInProgress,  \* g_crashInProgress of the worker
  workerPc,         \* where the worker stands: asleep, or in a tick
  observed,         \* engineLive of the buffer of this tick
  ticked,           \* the worker has checked since the clock moved
  g_reported,       \* of HangWatchdog.cpp
  reports,          \* history: the silences reported, each by the heartbeat before it
  ioErrors, freezes, misreads

watchdogVars == <<engine, crashInProgress, workerPc, observed, ticked, g_reported, reports, ioErrors, freezes, misreads>>
hangVars == <<heartbeatVars, watchdogVars>>

\* EvaluateHang tells only Running from the others: "initialization" stands for the
\* states the engine goes through before it is Running, "left" for those after it.
EngineStates == {"initialization", "running", "left"}

\* Mutant: the loop over the table ends after the first slot.
NewestHeartbeatFirstSlot == slots[1].lastEnteredNs

NewestHeartbeat ==
  LET times == {slots[i].lastEnteredNs : i \in {j \in Slots : slots[j].tid # Free}} \cup {0}
  IN  CHOOSE m \in times : \A n \in times : n <= m

HangInit ==
  /\ Init
  /\ engine = "initialization"
  /\ crashInProgress = FALSE
  /\ workerPc = "sleep"
  /\ observed = "initialization"
  /\ ticked = FALSE
  /\ g_reported = FALSE
  /\ reports = << >>
  /\ ioErrors = 0 /\ freezes = 0 /\ misreads = 0

-----------------------------------------------------------------------------
\* The tick reads the engine state into the buffer it fills; the read may fail.
TickBegins ==
  /\ workerPc = "sleep"
  /\ ~crashInProgress
  /\ \/ observed' = engine /\ UNCHANGED misreads
     \/ /\ misreads < MaxMisreads
        /\ misreads' = misreads + 1
        /\ observed' = "unknown"
  /\ workerPc' = "ticking"
  /\ UNCHANGED <<heartbeatVars, engine, crashInProgress, ticked, g_reported, reports, ioErrors, freezes>>

\* Mutant: a hang is forgotten only by a restart.
EvaluateHangNoRearm(maxLast, at, state, already) ==
  IF state # "running" \/ maxLast <= 0 THEN "none"
  ELSE IF at - maxLast > Threshold /\ ~already THEN "detected"
  ELSE "none"

\* Mutant: a hang is reported again at each tick.
EvaluateHangRepeats(maxLast, at, state, already) ==
  IF state # "running" \/ maxLast <= 0 THEN "none"
  ELSE IF at - maxLast > Threshold THEN "detected"
  ELSE IF already THEN "rearmed"
  ELSE "none"

EvaluateHang(maxLast, at, state, already) ==
  IF state # "running" \/ maxLast <= 0 THEN "none"
  ELSE LET hung == at - maxLast > Threshold IN
       IF hung /\ ~already THEN "detected"
       ELSE IF ~hung /\ already THEN "rearmed"
       ELSE "none"

\* CheckForHang, of a watchdog that is enabled, has a threshold above 0 and meets no debugger
\* that it respects; a tick that throws before it comes here is left out.  The table is read slot by slot while threads write it; what that can
\* change is far below the unit of time.  g_reported is set before the report is
\* written, and stays set when it cannot be.
CheckForHang ==
  /\ workerPc = "ticking"
  /\ workerPc' = "sleep"
  /\ ticked' = TRUE
  /\ LET maxLast == NewestHeartbeat
         verdict == EvaluateHang(maxLast, now, observed, g_reported)
     IN  \/ /\ verdict = "detected"
            /\ g_reported' = TRUE
            /\ \/ /\ reports' = Append(reports, maxLast)
                  /\ UNCHANGED ioErrors
               \/ /\ ioErrors < MaxIoErrors
                  /\ ioErrors' = ioErrors + 1
                  /\ UNCHANGED reports
         \/ /\ verdict = "rearmed"
            /\ g_reported' = FALSE
            /\ UNCHANGED <<reports, ioErrors>>
         \/ /\ verdict = "none"
            /\ UNCHANGED <<g_reported, reports, ioErrors>>
  /\ UNCHANGED <<heartbeatVars, engine, crashInProgress, observed, freezes, misreads>>

\* A report for an exception that the game then handles.
HandledException ==
  /\ freezes < MaxFreezes
  /\ freezes' = freezes + 1
  /\ crashInProgress' = TRUE
  /\ UNCHANGED <<heartbeatVars, engine, workerPc, observed, ticked, g_reported, reports, ioErrors, misreads>>

\* The game's own code, assumed not to come back to Running.  (If it did, scripts that
\* ran in between would not re-arm the watchdog, and the next hang would go unreported.)
EngineMoves ==
  /\ \/ engine = "initialization" /\ engine' = "running"
     \/ engine = "running" /\ engine' = "left"
  /\ UNCHANGED <<heartbeatVars, crashInProgress, workerPc, observed, ticked, g_reported, reports, ioErrors, freezes, misreads>>

TimePasses ==
  /\ ticked \/ crashInProgress
  /\ \A t \in Threads : pc[t] = "idle"
  /\ Tick
  /\ ticked' = FALSE
  /\ UNCHANGED <<engine, crashInProgress, workerPc, observed, g_reported, reports, ioErrors, freezes, misreads>>

HangNext ==
  \/ TickBegins \/ CheckForHang
  \/ HandledException \/ EngineMoves \/ TimePasses
  \/ \E t \in Threads : ThreadStep(t) /\ UNCHANGED watchdogVars

\* The worker's loop runs; a tick that is due begins, and ends.
WorkerFairness == WF_hangVars(TickBegins \/ CheckForHang)

HangSpec == HangInit /\ [][HangNext]_hangVars /\ WorkerFairness

-----------------------------------------------------------------------------
(***************************************************************************)
(* Properties.                                                             *)
(***************************************************************************)

HangTypeOK ==
  /\ TypeOK
  /\ engine \in EngineStates /\ observed \in EngineStates \cup {"unknown"}
  /\ workerPc \in {"sleep", "ticking"}
  /\ {crashInProgress, ticked, g_reported} \subseteq BOOLEAN
  /\ reports \in Seq(1 .. MaxTime)
  /\ ioErrors \in 0 .. MaxIoErrors /\ freezes \in 0 .. MaxFreezes /\ misreads \in 0 .. MaxMisreads

\* One freeze, one report: between two hang reports some scripted code has run, also
\* when the engine state could not be read in the middle of a hang.
OneReportPerSilence ==
  \A i, j \in DOMAIN reports : i < j => reports[i] < reports[j]

\* Scripts that have been silent for longer than the threshold in a running game.
Silent == engine = "running" /\ NewestHeartbeat > 0 /\ now - NewestHeartbeat > Threshold

ReportedSilence == \E i \in DOMAIN reports : reports[i] = NewestHeartbeat

\* Every lasting silence gets a report of its own, the second hang of a session as
\* well as the first, unless the report could not be written or the worker is frozen.
\* It is promised of an enabled watchdog with a threshold above 0, while no debugger that it
\* respects is attached (HangWatchdog.cpp:298-299), and of ticks that come as far as
\* SnapshotWorker.cpp:518: a tick that throws earlier, or returns here, checks nothing.
HangReported == Silent ~> (ReportedSilence \/ ~Silent \/ ioErrors > 0 \/ crashInProgress)

\* HangWatchdog.cpp:231, "no scripted activity for %u s": no thread that has a slot ran
\* scripted code in the time the report calls silent.  (Threads that found the table
\* full are not seen: they may run scripts all the while.)
SilenceIsTrue ==
  [][reports' # reports =>
       \A t \in Threads : slotIndex[t] # 0 => lastActive[t] <= Last(reports')]_hangVars
=============================================================================
