---------------------------- MODULE CrashHandler ----------------------------
(***************************************************************************)
(* The vectored exception handler (handler/SehHandler.cpp), its fallback   *)
(* (handler/NestedFallback.cpp) and the order in which a report reaches    *)
(* the disk (report/Sections.cpp).  Exceptions are raised by any thread at *)
(* any time; the handler runs on the thread that raised, first chance, so  *)
(* it also sees exceptions that a frame handler deals with afterwards.  A  *)
(* thread whose exception nobody handles takes the process down, whatever  *)
(* the other threads are doing at that moment.                             *)
(*                                                                         *)
(* A report is abstracted to the sequence of the stages appended to the    *)
(* shared buffer; a file to the report that opened it and what it holds.   *)
(***************************************************************************)
EXTENDS Integers, Sequences, FiniteSets

CONSTANTS
  Threads,
  MaxRaises,   \* bound: exceptions raised
  MaxSecond,   \* bound: the clock that names the files
  MaxIoErrors, \* bound: file operations that fail
  MaxFaults    \* bound: exceptions raised by REDscope's own code while reporting

ASSUME HandlerBounds == {MaxRaises, MaxSecond, MaxIoErrors, MaxFaults} \subseteq Nat

VARIABLES
  handlerInProgress, \* g_handlerInProgress
  terminateAfterReport, \* g_terminateAfterReport
  crashInProgress,   \* g_crashInProgress, set by FreezeForCrash
  buffer,            \* MainCrashBuffer(), shared by all reports
  crash,             \* the .crash files, by the second in their name
  json,              \* the .crash.json files
  failed,            \* the REDscope-FAILED-*.crash files
  where,             \* where each thread stands in the handler
  exc,               \* the exception each thread has raised
  report,            \* the number of the report a thread is writing
  step,              \* its position in Plan
  name,              \* the second its file names were built from
  clock, alive,
  raises, reports, ioErrors, faults,
  lostGate,          \* history: the report whose handler faulted and left the gate closed, 0: none
  begun,             \* history: the reports that have reset the shared buffer
  completed          \* history: the reports whose last write succeeded

gate == <<handlerInProgress, crashInProgress, reports, lostGate>>
files == <<crash, json, failed>>
who == <<exc, report, name>>
history == <<begun, completed>>
env == <<terminateAfterReport, clock, alive, raises>>
handlerVars == <<gate, buffer, files, who, where, step, history, env, ioErrors, faults>>

Seconds == 0 .. MaxSecond
Kinds == {"fault", "overflow", "other"}  \* other: no listed code, or a debugger is attached

NoFile == [owner |-> 0, parts |-> << >>]
Literal == "literal"   \* the one-line text of the last-resort writes

\* The stages of WriteMinimalReport, each standing for the sections emitted
\* between two writes: core is header .. registers, context is process memory,
\* engine state and recent logs, launch is since last launch and loaded modules,
\* mods is installed mods and wrap chains.
Stages == << "core", "stack", "context", "launch", "mods" >>
StageSet == {Stages[i] : i \in 1 .. 5}

\* Mutant: the sidecar is written before there is a report to go with it.
SidecarFirstPlan ==
  << "core", "sidecar", "checkpoint", "stack", "checkpoint", "context", "checkpoint",
     "launch", "checkpoint", "mods", "final" >>

\* What WriteMinimalReport does, in order.  The stack section checkpoints within itself as
\* well (StackDump.cpp); those writes are left out: they leave a file with a part of that
\* stage in it, which the next checkpoint replaces.
Plan ==
  << "core", "checkpoint", "sidecar", "stack", "checkpoint", "context", "checkpoint",
     "launch", "checkpoint", "mods", "final" >>

Op(t) == Plan[step[t]]

\* A thread is inside the handler from the moment it takes the gate until it
\* gives it back.
InsideAt == {"entered", "named", "body", "opened", "literal", "wrote", "fallback", "leaving"}
Inside(t) == where[t] \in InsideAt

Goto(t, w) == where' = [where EXCEPT ![t] = w]

-----------------------------------------------------------------------------
Init ==
  /\ handlerInProgress = 0
  /\ terminateAfterReport \in BOOLEAN
  /\ crashInProgress = FALSE
  /\ buffer = << >>
  /\ crash = [s \in Seconds |-> NoFile]
  /\ json = [s \in Seconds |-> NoFile]
  /\ failed = [s \in Seconds |-> NoFile]
  /\ where = [t \in Threads |-> "run"]
  /\ exc = [t \in Threads |-> [kind |-> "other", handled |-> TRUE]]
  /\ report = [t \in Threads |-> 0]
  /\ step = [t \in Threads |-> 1]
  /\ name = [t \in Threads |-> 0]
  /\ clock = 0
  /\ alive = TRUE
  /\ reports = 0
  /\ raises = 0 /\ ioErrors = 0 /\ faults = 0
  /\ lostGate = 0
  /\ begun = {} /\ completed = {}

(***************************************************************************)
(* Raising and the gate.                                                   *)
(***************************************************************************)

\* Code outside REDscope raises an exception.  handled says whether a frame
\* handler will deal with it once the vectored handlers are done.
Raise(t) ==
  /\ where[t] = "run"
  /\ raises < MaxRaises
  /\ raises' = raises + 1
  /\ \E k \in Kinds, h \in BOOLEAN : exc' = [exc EXCEPT ![t] = [kind |-> k, handled |-> h]]
  /\ report' = [report EXCEPT ![t] = 0]
  /\ Goto(t, "raised")
  /\ UNCHANGED <<gate, files, history, buffer, name, step, terminateAfterReport, clock, alive, ioErrors, faults>>

\* Mutant: the snapshot worker is not stopped.
EnterWithoutFreeze(t) ==
  /\ where[t] = "raised"
  /\ exc[t].kind # "other"
  /\ handlerInProgress = 0
  /\ handlerInProgress' = 1
  /\ reports' = reports + 1
  /\ report' = [report EXCEPT ![t] = reports + 1]
  /\ Goto(t, "entered")
  /\ UNCHANGED <<crashInProgress, files, history, env, lostGate, buffer, exc, name, step, ioErrors, faults>>

\* The thread takes the gate and freezes the snapshot worker.  The handler reads
\* nothing between the two, and a tick that begins between them is one that
\* begins before both, so they are one step.
TakeGate(t) ==
  /\ where[t] = "raised"
  /\ exc[t].kind # "other"
  /\ handlerInProgress' = 1
  /\ crashInProgress' = TRUE
  /\ reports' = reports + 1
  /\ report' = [report EXCEPT ![t] = reports + 1]
  /\ Goto(t, "entered")
  /\ UNCHANGED <<files, history, env, lostGate, buffer, exc, name, step, ioErrors, faults>>

\* Mutant: the flag is set without looking at its old value.
EnterUnguarded(t) == TakeGate(t)

Enter(t) ==
  /\ handlerInProgress = 0
  /\ TakeGate(t)

\* Not an exception to report, or another thread (or an outer call on this one)
\* is reporting: EXCEPTION_CONTINUE_SEARCH.
Bounce(t) ==
  /\ where[t] = "raised"
  /\ exc[t].kind = "other" \/ handlerInProgress # 0
  /\ Goto(t, "search")
  /\ UNCHANGED <<gate, files, who, history, env, buffer, step, ioErrors, faults>>

\* The frame handlers get their turn.  Without one the process dies on the spot.
Search(t) ==
  /\ where[t] = "search"
  /\ alive' = exc[t].handled
  /\ Goto(t, IF exc[t].handled THEN "run" ELSE "died")
  /\ UNCHANGED <<gate, files, who, history, buffer, step, terminateAfterReport, clock, raises, ioErrors, faults>>

(***************************************************************************)
(* The report body.                                                        *)
(***************************************************************************)

\* BodyWriteReport names the file after the second it is now.  From here on the body runs
\* inside the __try of RunWithNestedFallback.
BuildPath(t) ==
  /\ where[t] = "entered"
  /\ exc[t].kind = "fault"
  /\ name' = [name EXCEPT ![t] = clock]
  /\ Goto(t, "named")
  /\ UNCHANGED <<gate, files, history, env, buffer, exc, report, step, ioErrors, faults>>

\* Mutant: the shared buffer still holds the previous report.
StartBodyNoReset(t) ==
  /\ where[t] = "named"
  /\ begun' = begun \cup {report[t]}
  /\ step' = [step EXCEPT ![t] = 1]
  /\ Goto(t, "body")
  /\ UNCHANGED <<gate, files, who, completed, env, buffer, ioErrors, faults>>

\* WriteMinimalReport resets the shared buffer, which held the previous report until now.
StartBody(t) ==
  /\ where[t] = "named"
  /\ buffer' = << >>
  /\ begun' = begun \cup {report[t]}
  /\ step' = [step EXCEPT ![t] = 1]
  /\ Goto(t, "body")
  /\ UNCHANGED <<gate, files, who, completed, env, ioErrors, faults>>

Emitted(t, faulted) ==
  buffer' = Append(buffer, [report |-> report[t], stage |-> Op(t), faulted |-> faulted])

NextStep(t) ==
  /\ step' = [step EXCEPT ![t] = @ + 1]
  /\ Goto(t, "body")

EmitStage(t) ==
  /\ where[t] = "body"
  /\ Op(t) \in StageSet
  /\ Emitted(t, FALSE)
  /\ NextStep(t)
  /\ UNCHANGED <<gate, files, who, history, env, ioErrors, faults>>

\* Mutant: the stage that faulted is given up together with the report.
EmitStageAborted(t) ==
  /\ where[t] = "body"
  /\ Op(t) \in StageSet
  /\ faults < MaxFaults
  /\ faults' = faults + 1
  /\ Goto(t, "leaving")
  /\ UNCHANGED <<gate, files, who, history, env, buffer, step, ioErrors>>

\* An emitter faults.  The nested exception finds the gate closed, RunEmitSafe's own
\* __except takes it and appends a banner in place of the rest of the section.
EmitStageFaults(t) ==
  /\ where[t] = "body"
  /\ Op(t) \in StageSet
  /\ faults < MaxFaults
  /\ faults' = faults + 1
  /\ Emitted(t, TRUE)
  /\ NextStep(t)
  /\ UNCHANGED <<gate, files, who, history, env, ioErrors>>

(***************************************************************************)
(* Files.  CREATE_ALWAYS truncates before anything is written, and fails    *)
(* without touching the file when it cannot be opened.                     *)
(***************************************************************************)

Writes == {"checkpoint", "sidecar", "final"}

PutFile(t, op, parts) ==
  LET content == [owner |-> report[t], parts |-> parts] IN
  IF op = "sidecar"
    THEN json' = [json EXCEPT ![name[t]] = content] /\ UNCHANGED <<crash, failed>>
    ELSE crash' = [crash EXCEPT ![name[t]] = content] /\ UNCHANGED <<json, failed>>

OpenFile(t) ==
  /\ where[t] = "body"
  /\ Op(t) \in Writes
  /\ PutFile(t, Op(t), << >>)
  /\ Goto(t, "opened")
  /\ UNCHANGED <<gate, who, history, env, buffer, step, ioErrors, faults>>

\* Mutant: the last resort is missing.
AfterFailedWriteGivesUp(t) ==
  IF Op(t) = "final"
    THEN Goto(t, "leaving") /\ UNCHANGED step
    ELSE NextStep(t)

\* A write that failed: a checkpoint and the sidecar ignore it, the final write goes
\* on to the literal text.
AfterFailedWrite(t) ==
  IF Op(t) = "final"
    THEN Goto(t, "literal") /\ UNCHANGED step
    ELSE NextStep(t)

AfterWrite(t) ==
  IF Op(t) = "final"
    THEN Goto(t, "wrote") /\ UNCHANGED step
    ELSE NextStep(t)

\* The file cannot be opened, or BuildJsonSidecar faults before it is.
OpenFails(t) ==
  /\ where[t] = "body"
  /\ Op(t) \in Writes
  /\ ioErrors < MaxIoErrors
  /\ ioErrors' = ioErrors + 1
  /\ AfterFailedWrite(t)
  /\ UNCHANGED <<gate, files, who, history, env, buffer, faults>>

\* The sidecar has a buffer of its own and is built from the snapshot, so what it
\* holds is one entry.
Contents(t) ==
  IF Op(t) = "sidecar"
    THEN << [report |-> report[t], stage |-> "json", faulted |-> FALSE] >>
    ELSE buffer

WriteFile(t) ==
  /\ where[t] = "opened"
  /\ PutFile(t, Op(t), Contents(t))
  /\ AfterWrite(t)
  /\ completed' = IF Op(t) = "final" THEN completed \cup {report[t]} ELSE completed
  /\ UNCHANGED <<gate, who, env, begun, buffer, ioErrors, faults>>

\* The disk takes only a part of the bytes, or none.
WriteFileFails(t) ==
  /\ where[t] = "opened"
  /\ ioErrors < MaxIoErrors
  /\ ioErrors' = ioErrors + 1
  /\ \E n \in 0 .. Len(Contents(t)) - 1 : PutFile(t, Op(t), SubSeq(Contents(t), 1, n))
  /\ AfterFailedWrite(t)
  /\ UNCHANGED <<gate, who, history, env, buffer, faults>>

\* The last resort: one line in place of the report.
WriteLiteral(t) ==
  /\ where[t] = "literal"
  /\ \/ /\ PutFile(t, "final",
                   << [report |-> report[t], stage |-> Literal, faulted |-> FALSE] >>)
        /\ UNCHANGED ioErrors
     \/ /\ ioErrors < MaxIoErrors
        /\ ioErrors' = ioErrors + 1
        /\ UNCHANGED files
  /\ Goto(t, "leaving")
  /\ UNCHANGED <<gate, who, history, env, buffer, step, faults>>

(***************************************************************************)
(* The ways out.                                                           *)
(***************************************************************************)

\* Code of the body outside RunEmitSafe raises (the path and the progress log allocate): the
\* __except of RunWithNestedFallback takes it, wherever the body stands.
BodyFaults(t) ==
  /\ exc[t].kind = "fault"
  /\ \/ where[t] \in {"named", "literal", "wrote"}
     \/ where[t] = "body" /\ Op(t) \in StageSet \cup {"final"}
  /\ faults < MaxFaults
  /\ faults' = faults + 1
  /\ Goto(t, "fallback")
  /\ UNCHANGED <<gate, files, who, history, env, buffer, step, ioErrors>>

\* WriteFailedReport: a file of another name, with what the main buffer holds up to
\* 4096 bytes: the previous report when this one has not reset it.
WriteFailedReport(t) ==
  /\ where[t] = "fallback"
  /\ \/ /\ \E n \in 0 .. Len(buffer) :
             failed' = [failed EXCEPT ![clock] = [owner |-> report[t], parts |-> SubSeq(buffer, 1, n)]]
        /\ UNCHANGED ioErrors
     \/ /\ ioErrors < MaxIoErrors
        /\ ioErrors' = ioErrors + 1
        /\ UNCHANGED failed
  /\ Goto(t, "leaving")
  /\ UNCHANGED <<gate, who, history, env, buffer, crash, json, step, faults>>

\* WriteStackOverflowReport: a reduced report, written once, at the end.
OverflowBody(t) ==
  /\ where[t] = "entered"
  /\ exc[t].kind = "overflow"
  /\ name' = [name EXCEPT ![t] = clock]
  /\ step' = [step EXCEPT ![t] = Len(Plan)]
  /\ buffer' = << [report |-> report[t], stage |-> "reduced", faulted |-> FALSE] >>
  /\ begun' = begun \cup {report[t]}
  /\ Goto(t, "body")
  /\ UNCHANGED <<gate, files, completed, env, exc, report, ioErrors, faults>>

\* The code that no __except of REDscope is around: what lies between the gate and the
\* body (it logs), WriteFailedReport itself (it allocates), and with a stack overflow the
\* whole report.
Unguarded(t) ==
  \/ where[t] \in {"entered", "fallback"}
  \/ exc[t].kind = "overflow" /\ where[t] \in {"wrote", "leaving"}

\* An exception there bounces off the closed gate and the search goes on with the frames of
\* the thread: the handler is left where it stands and the gate stays closed.
HandlerFaults(t) ==
  /\ Unguarded(t)
  /\ faults < MaxFaults
  /\ faults' = faults + 1
  /\ lostGate' = report[t]
  /\ \E h \in BOOLEAN : exc' = [exc EXCEPT ![t].handled = h]
  /\ Goto(t, "search")
  /\ UNCHANGED <<handlerInProgress, crashInProgress, reports, files, report, name, history, env, buffer, step, ioErrors>>

\* The body logs how the last write went and returns.
Return(t) ==
  /\ where[t] = "wrote"
  /\ Goto(t, "leaving")
  /\ UNCHANGED <<gate, files, who, history, env, buffer, step, ioErrors, faults>>

AfterGate(t) == IF exc[t].kind = "overflow" THEN "terminate" ELSE "left"

\* Mutant: the gate is not given back.
LeaveHolding(t) ==
  /\ where[t] = "leaving"
  /\ Goto(t, AfterGate(t))
  /\ UNCHANGED <<gate, files, who, history, env, buffer, step, ioErrors, faults>>

\* g_handlerInProgress.fetch_sub(1)
Leave(t) ==
  /\ where[t] = "leaving"
  /\ handlerInProgress' = handlerInProgress - 1
  /\ Goto(t, AfterGate(t))
  /\ UNCHANGED <<files, who, history, env, crashInProgress, reports, lostGate, buffer, step, ioErrors, faults>>

\* The outcome is logged with the gate open.  An exception in that is a new one, of this
\* thread, for the handler.
LeftFaults(t) ==
  /\ where[t] = "left"
  /\ faults < MaxFaults
  /\ faults' = faults + 1
  /\ \E k \in Kinds, h \in BOOLEAN : exc' = [exc EXCEPT ![t] = [kind |-> k, handled |-> h]]
  /\ report' = [report EXCEPT ![t] = 0]
  /\ Goto(t, "raised")
  /\ UNCHANGED <<gate, files, history, buffer, name, step, env, ioErrors>>

Finish(t) ==
  /\ where[t] = "left"
  /\ Goto(t, IF terminateAfterReport THEN "terminate" ELSE "search")
  /\ UNCHANGED <<gate, files, who, history, env, buffer, step, ioErrors, faults>>

Terminate(t) ==
  /\ where[t] = "terminate"
  /\ alive' = FALSE
  /\ Goto(t, "died")
  /\ UNCHANGED <<gate, files, who, history, buffer, step, terminateAfterReport, clock, raises, ioErrors, faults>>

Second ==
  /\ clock < MaxSecond
  /\ clock' = clock + 1
  /\ UNCHANGED <<gate, files, who, history, buffer, where, step, terminateAfterReport, alive, raises, ioErrors, faults>>

-----------------------------------------------------------------------------
Proceed(t) ==
  \/ Bounce(t) \/ Search(t)
  \/ BuildPath(t) \/ StartBody(t) \/ EmitStage(t) \/ EmitStageFaults(t)
  \/ OpenFile(t) \/ OpenFails(t) \/ WriteFile(t) \/ WriteFileFails(t) \/ WriteLiteral(t)
  \/ BodyFaults(t) \/ WriteFailedReport(t) \/ OverflowBody(t) \/ HandlerFaults(t)
  \/ Return(t) \/ Leave(t) \/ Finish(t) \/ Terminate(t)

\* A thread that is in the kernel's or the handler's hands goes on.
Handler(t) == Enter(t) \/ Proceed(t)

Next ==
  /\ alive
  /\ \/ Second
     \/ \E t \in Threads : Raise(t) \/ LeftFaults(t) \/ Handler(t)

\* A thread inside the handler is scheduled; nothing forces an exception to happen.
Fairness == \A t \in Threads : WF_handlerVars(alive /\ Handler(t))

Spec == Init /\ [][Next]_handlerVars /\ Fairness

-----------------------------------------------------------------------------
(***************************************************************************)
(* Properties.                                                             *)
(***************************************************************************)

Entries == [report : Nat, stage : StageSet \cup {"reduced", "json", Literal}, faulted : BOOLEAN]
Files == [owner : Nat, parts : Seq(Entries)]

TypeOK ==
  /\ handlerInProgress \in {0, 1}
  /\ terminateAfterReport \in BOOLEAN /\ crashInProgress \in BOOLEAN
  /\ alive \in BOOLEAN /\ lostGate \in 0 .. reports
  /\ buffer \in Seq(Entries)
  /\ {crash, json, failed} \subseteq [Seconds -> Files]
  /\ where \in [Threads -> InsideAt \cup {"run", "raised", "left", "search", "terminate", "died"}]
  /\ exc \in [Threads -> [kind : Kinds, handled : BOOLEAN]]
  /\ step \in [Threads -> 1 .. Len(Plan)]
  /\ name \in [Threads -> Seconds] /\ clock \in Seconds
  /\ report \in [Threads -> 0 .. reports] /\ begun \cup completed \subseteq 1 .. reports
  /\ reports \in Nat /\ raises \in 0 .. MaxRaises
  /\ ioErrors \in 0 .. MaxIoErrors /\ faults \in 0 .. MaxFaults

\* Two threads that fault together never write the report together: the buffer, the
\* sidecar buffer and the symbol engine of the process have one user.
OneReporter == \A t, u \in Threads : Inside(t) /\ Inside(u) => t = u

\* What a report may hold on disk: the stages of one report, in order and from the
\* first, or a text that stands for the whole of it.
FromOneReport(r, parts) ==
  /\ \A i \in DOMAIN parts : parts[i].report = r
  /\ \/ Len(parts) <= 5 /\ \A i \in DOMAIN parts : parts[i].stage = Stages[i]
     \/ Len(parts) = 1 /\ parts[1].stage \in {"reduced", "json", Literal}

\* Reports share one buffer and, within a second, one file name; whoever faults, dies
\* or fails to write in between, no file mixes two reports or leaves out a stage from
\* the middle.  A FAILED file holds what its own report had emitted, or, when that report
\* faulted before it reset the buffer, what an earlier one had.
ReportsNotMixed ==
  \A s \in Seconds :
    /\ FromOneReport(crash[s].owner, crash[s].parts)
    /\ FromOneReport(json[s].owner, json[s].parts)
    /\ \E r \in 0 .. failed[s].owner :
         /\ FromOneReport(r, failed[s].parts)
         /\ failed[s].owner \in begun => r = failed[s].owner

Covered(r, s) ==
  \/ r \in completed
  \/ \E q \in Seconds : failed[q].owner >= r
  \/ crash[s].owner > r

\* A thread that dies of an exception the handler let in has left a report behind,
\* whatever faulted while it was written, unless the disk refused it, a later report
\* took its name, or the fault was one that left its handler where it stood.
ReportBeforeDeath ==
  \A t \in Threads :
    (where[t] = "died" /\ report[t] # 0 /\ ioErrors = 0 /\ lostGate # report[t]) =>
      Covered(report[t], name[t])

\* One failed file operation never costs the user the whole report: by the time the
\* handler is left the file has some text.
SingleFailureLeavesText ==
  \A t \in Threads :
    (where[t] \in {"wrote", "leaving", "left", "search", "terminate", "died"} /\ report[t] # 0
       /\ ioErrors <= 1 /\ faults = 0) =>
      \/ crash[name[t]].owner = report[t] /\ crash[name[t]].parts # << >>
      \/ crash[name[t]].owner > report[t]

\* docs/index.html:855, "Matching filenames belong to the same Capture ID": no sidecar
\* describes a report that the text file of the same name does not reach yet, and between
\* reports it describes that very text, unless a later report of the same second, which
\* was of a stack overflow or failed before it came to its sidecar, took the text over.
SidecarFollowsReport ==
  ioErrors = 0 =>
    \A s \in Seconds :
      /\ json[s].owner <= crash[s].owner
      /\ (json[s].owner # 0 /\ faults = 0 /\ \A t \in Threads : ~Inside(t)) =>
           \/ json[s].owner = crash[s].owner
           \/ \E i \in DOMAIN crash[s].parts : crash[s].parts[i].stage = "reduced"

\* The gate opens again after every report, whatever the body does, so that a fatal
\* exception that follows a handled one is reported too; the exception is a handler that
\* faults where no __except of its own is around it.
GateReopens == handlerInProgress = 1 ~> (handlerInProgress = 0 \/ ~alive \/ lostGate # 0)

\* README.md:4, "When the game crashes, REDscope writes its highest-ranked lead to a
\* plain-text .crash file": when a thread dies of an exception that was reported, the
\* text of some report is on the disk under its name.
CrashLeavesReport ==
  \A t \in Threads :
    (where[t] = "died" /\ report[t] \in completed) => crash[name[t]].parts # << >>
=============================================================================
