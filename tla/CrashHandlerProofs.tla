------------------------- MODULE CrashHandlerProofs -------------------------
(***************************************************************************)
(* What the crash handler promises, for any set of threads and any number  *)
(* of exceptions, seconds, failed file operations and faults of its own.   *)
(*                                                                         *)
(* The gate.  OneReporter alone is not inductive: Enter lets a thread in   *)
(* because the gate reads 0, which says nothing of the threads already     *)
(* inside, and Leave subtracts 1 from whatever the gate holds.  GateInv    *)
(* ties the value of the gate to the threads inside.                       *)
(*                                                                         *)
(* The reports.  ReportInv adds what the properties about the files lean   *)
(* on: Numbered, that reports have different numbers and the one being     *)
(* written has the last; LostInv, that nobody is inside once a handler has *)
(* left the gate closed; BufferOwned, that the shared buffer holds exactly *)
(* the stages the writer's step says it has emitted, and one report even   *)
(* when nobody writes; Unbegun, that a report which has not reset the      *)
(* buffer has no FAILED file yet; StepFits, that a                         *)
(* thread is at a write when it is writing and has a failure behind it in  *)
(* the fallbacks; FilesOK, that every file is of one report; Outcome and   *)
(* SidecarInv, what a report left behind and how far the sidecar may run   *)
(* ahead of the text.                                                      *)
(***************************************************************************)
EXTENDS CrashHandler, TLAPS

-----------------------------------------------------------------------------
(***************************************************************************)
(* The gate.                                                               *)
(***************************************************************************)
WherePlaces == InsideAt \cup {"run", "raised", "left", "search", "terminate", "died"}

GateType ==
  /\ handlerInProgress \in {0, 1}
  /\ where \in [Threads -> WherePlaces]

\* While any thread is inside, the gate is closed.
GateShut == \A t \in Threads : Inside(t) => handlerInProgress = 1

GateInv == GateType /\ GateShut /\ OneReporter

\* Every way a handler step can move a thread other than through the gate: t goes
\* from one place to another, and it is inside afterwards only if it was before.
LEMMA MoveKeepsGate ==
  ASSUME NEW t \in Threads, NEW w \in WherePlaces,
         GateInv, handlerInProgress' = handlerInProgress,
         where' = [where EXCEPT ![t] = w],
         w \in InsideAt => Inside(t)
  PROVE  GateInv'
  <1>1. GateType'
    BY DEF GateInv, GateType
  <1>2. \A u \in Threads : Inside(u)' => Inside(u)
    BY DEF GateInv, GateType, Inside
  <1> QED
    BY <1>1, <1>2 DEF GateInv, GateShut, OneReporter

\* Initially nobody is inside.
LEMMA InitGateInv == Init => GateInv
  <1> SUFFICES ASSUME Init PROVE GateInv
    OBVIOUS
  <1>1. GateType
    BY DEF Init, GateType, WherePlaces
  <1>2. \A t \in Threads : ~Inside(t)
    BY DEF Init, Inside, InsideAt
  <1> QED
    BY <1>1, <1>2 DEF GateInv, GateShut, OneReporter

\* The gate opens for a thread only when nobody is inside.
LEMMA EnterKeepsGate ==
  ASSUME GateInv, NEW t \in Threads, Enter(t)
  PROVE  GateInv'
  <1>1. handlerInProgress = 0 /\ handlerInProgress' = 1 /\ where' = [where EXCEPT ![t] = "entered"]
    BY DEF Enter, TakeGate, Goto
  <1>2. GateType'
    BY <1>1 DEF GateInv, GateType, WherePlaces, InsideAt
  <1>3. \A u \in Threads : ~Inside(u)
    BY <1>1 DEF GateInv, GateShut
  <1>4. \A u \in Threads : Inside(u)' => u = t
    BY <1>1, <1>3 DEF GateInv, GateType, Inside
  <1> QED
    BY <1>1, <1>2, <1>4 DEF GateInv, GateShut, OneReporter

\* The thread that gives the gate back was the only one inside.
LEMMA LeaveKeepsGate ==
  ASSUME GateInv, NEW t \in Threads, Leave(t)
  PROVE  GateInv'
  <1>1. Inside(t)
    BY DEF Leave, Inside, InsideAt
  <1>2. handlerInProgress' = 0
    BY <1>1 DEF Leave, GateInv, GateShut
  <1>3. PICK w \in {"terminate", "left"} : where' = [where EXCEPT ![t] = w]
    BY DEF Leave, AfterGate, Goto
  <1>4. GateType'
    BY <1>2, <1>3 DEF GateInv, GateType, WherePlaces
  <1>5. \A u \in Threads : ~Inside(u)'
    <2> TAKE u \in Threads
    <2>1. CASE u = t
      BY <2>1, <1>3 DEF GateInv, GateType, Inside, InsideAt
    <2>2. CASE u # t
      <3>1. ~Inside(u)
        BY <2>2, <1>1 DEF GateInv, OneReporter
      <3> QED
        BY <3>1, <2>2, <1>3 DEF GateInv, GateType, Inside
    <2> QED
      BY <2>1, <2>2
  <1> QED
    BY <1>4, <1>5 DEF GateInv, GateShut, OneReporter

\* Each step of the handler keeps the invariant.
LEMMA HandlerKeepsGate ==
  ASSUME GateInv, NEW t \in Threads, Handler(t)
  PROVE  GateInv'
  <1> USE DEF Goto, Inside, InsideAt, WherePlaces, gate
  <1>1. CASE Enter(t)
    BY <1>1, EnterKeepsGate
  <1>2. CASE Bounce(t)
    BY <1>2, MoveKeepsGate DEF Bounce
  <1>3. CASE Search(t)
    BY <1>3, MoveKeepsGate DEF Search
  <1>4. CASE BuildPath(t) \/ StartBody(t)
    BY <1>4, MoveKeepsGate DEF BuildPath, StartBody
  <1>5. CASE EmitStage(t) \/ EmitStageFaults(t)
    BY <1>5, MoveKeepsGate DEF EmitStage, EmitStageFaults, NextStep
  <1>6. CASE OpenFile(t)
    BY <1>6, MoveKeepsGate DEF OpenFile
  <1>7. CASE OpenFails(t)
    BY <1>7, MoveKeepsGate DEF OpenFails, AfterFailedWrite, NextStep
  <1>8. CASE WriteFile(t)
    BY <1>8, MoveKeepsGate DEF WriteFile, AfterWrite, NextStep
  <1>9. CASE WriteFileFails(t)
    BY <1>9, MoveKeepsGate DEF WriteFileFails, AfterFailedWrite, NextStep
  <1>10. CASE WriteLiteral(t)
    BY <1>10, MoveKeepsGate DEF WriteLiteral
  <1>11. CASE BodyFaults(t)
    BY <1>11, MoveKeepsGate DEF BodyFaults
  <1>12. CASE WriteFailedReport(t)
    BY <1>12, MoveKeepsGate DEF WriteFailedReport
  <1>13. CASE OverflowBody(t)
    BY <1>13, MoveKeepsGate DEF OverflowBody
  <1>14. CASE HandlerFaults(t)
    BY <1>14, MoveKeepsGate DEF HandlerFaults
  <1>15. CASE Leave(t)
    BY <1>15, LeaveKeepsGate
  <1>16. CASE Terminate(t)
    BY <1>16, MoveKeepsGate DEF Terminate
  <1>17. CASE Return(t) \/ Finish(t)
    BY <1>17, MoveKeepsGate DEF Return, Finish
  <1> QED
    BY <1>1, <1>2, <1>3, <1>4, <1>5, <1>6, <1>7, <1>8, <1>9, <1>10, <1>11, <1>12,
       <1>13, <1>14, <1>15, <1>16, <1>17 DEF Handler, Proceed

\* Each step of the system does.
LEMMA NextGateInv == GateInv /\ [Next]_handlerVars => GateInv'
  <1> SUFFICES ASSUME GateInv, [Next]_handlerVars PROVE GateInv'
    OBVIOUS
  <1>1. CASE Second
    BY <1>1 DEF Second, gate, GateInv, GateType, GateShut, OneReporter, Inside
  <1>2. ASSUME NEW t \in Threads, Raise(t) \/ LeftFaults(t) PROVE GateInv'
    BY <1>2, MoveKeepsGate DEF Raise, LeftFaults, Goto, gate, WherePlaces, InsideAt
  <1>3. ASSUME NEW t \in Threads, Handler(t) PROVE GateInv'
    BY <1>3, HandlerKeepsGate
  <1>4. CASE UNCHANGED handlerVars
    BY <1>4 DEF handlerVars, gate, GateInv, GateType, GateShut, OneReporter, Inside
  <1> QED
    BY <1>1, <1>2, <1>3, <1>4 DEF Next

\* Whatever faults, however many threads fault together, the report body has one
\* thread in it (SehHandler.cpp:78-81).
THEOREM AtMostOneReporter == Spec => []OneReporter
  <1>1. GateInv => OneReporter
    BY DEF GateInv
  <1> QED
    BY InitGateInv, NextGateInv, <1>1, PTL DEF Spec

-----------------------------------------------------------------------------
(***************************************************************************)
(* The plan and the types.                                                 *)
(***************************************************************************)

\* The order of WriteMinimalReport, one position at a time.
LEMMA PlanFacts ==
  /\ Len(Plan) = 11
  /\ Plan[1] = "core" /\ Plan[2] = "checkpoint" /\ Plan[3] = "sidecar" /\ Plan[4] = "stack"
  /\ Plan[5] = "checkpoint" /\ Plan[6] = "context" /\ Plan[7] = "checkpoint" /\ Plan[8] = "launch"
  /\ Plan[9] = "checkpoint" /\ Plan[10] = "mods" /\ Plan[11] = "final"
  BY DEF Plan

\* The stages, one at a time.
LEMMA StageFacts ==
  /\ StageSet = {"core", "stack", "context", "launch", "mods"}
  /\ Stages[1] = "core" /\ Stages[2] = "stack" /\ Stages[3] = "context" /\ Stages[4] = "launch" /\ Stages[5] = "mods"
  <1>1. Stages[1] = "core" /\ Stages[2] = "stack" /\ Stages[3] = "context" /\ Stages[4] = "launch" /\ Stages[5] = "mods"
    BY DEF Stages
  <1>2. 1 .. 5 = {1, 2, 3, 4, 5}
    OBVIOUS
  <1> QED
    BY <1>1, <1>2 DEF StageSet

\* The types of the variables that steer a thread; the flags are treated apart, at the end.
ControlOK ==
  /\ exc \in [Threads -> [kind : Kinds, handled : BOOLEAN]]
  /\ step \in [Threads -> 1 .. 11]
  /\ name \in [Threads -> Seconds] /\ clock \in Seconds
  /\ report \in [Threads -> 0 .. reports]
  /\ reports \in Nat /\ raises \in 0 .. MaxRaises
  /\ ioErrors \in 0 .. MaxIoErrors /\ faults \in 0 .. MaxFaults

\* The bounds are natural numbers.
LEMMA Bounds == MaxRaises \in Nat /\ MaxSecond \in Nat /\ MaxIoErrors \in Nat /\ MaxFaults \in Nat
  BY HandlerBounds

\* Only the final write has no successor.
LEMMA LastIsFinal == \A n \in 1 .. 11 : Plan[n] # "final" => n + 1 \in 1 .. 11
  BY PlanFacts

\* The types hold initially.
LEMMA InitControl == Init => ControlOK
  BY Bounds DEF Init, ControlOK, Seconds, Kinds

\* The step of a thread goes on, but not past the final write.
LEMMA StepGoesOn ==
  ASSUME ControlOK, NEW t \in Threads, Op(t) # "final", NextStep(t)
  PROVE  /\ step' = [step EXCEPT ![t] = step[t] + 1]
         /\ step' \in [Threads -> 1 .. 11]
  BY LastIsFinal DEF ControlOK, NextStep, Op

\* Emitting and writing are different steps.
LEMMA StageIsNotFinal == \A op \in StageSet : op # "final" /\ op \notin Writes
  BY StageFacts DEF Writes

\* Inside the handler the types stay.
LEMMA ControlProceeds ==
  ASSUME ControlOK, NEW t \in Threads, Proceed(t)
  PROVE  ControlOK'
  <1> USE Bounds DEF ControlOK, gate, who, env
  <1>1. CASE Bounce(t) \/ Search(t) \/ Terminate(t)
    BY <1>1 DEF Bounce, Search, Terminate
  <1>2. CASE BuildPath(t) \/ StartBody(t)
    <2>1. CASE BuildPath(t)
      BY <2>1 DEF BuildPath
    <2>2. CASE StartBody(t)
      BY <2>2 DEF StartBody
    <2> QED
      BY <1>2, <2>1, <2>2
  <1>3. CASE EmitStage(t) \/ EmitStageFaults(t)
    <2>1. /\ NextStep(t) /\ UNCHANGED <<gate, who, env, ioErrors>>
          /\ UNCHANGED faults \/ (faults < MaxFaults /\ faults' = faults + 1)
      BY <1>3 DEF EmitStage, EmitStageFaults
    <2>2. step' \in [Threads -> 1 .. 11]
      BY <1>3, <2>1, StageIsNotFinal, StepGoesOn DEF EmitStage, EmitStageFaults
    <2>3. QED
      BY <2>1, <2>2
  <1>4. CASE OpenFile(t)
    BY <1>4 DEF OpenFile
  <1>5. CASE OpenFails(t) \/ WriteFileFails(t)
    <2>1. AfterFailedWrite(t) /\ ioErrors < MaxIoErrors /\ ioErrors' = ioErrors + 1 /\ UNCHANGED <<gate, who, env, faults>>
      BY <1>5 DEF OpenFails, WriteFileFails
    <2>2. step' \in [Threads -> 1 .. 11]
      BY <2>1, StepGoesOn DEF AfterFailedWrite
    <2>3. QED
      BY <2>1, <2>2
  <1>6. CASE WriteFile(t)
    <2>1. AfterWrite(t) /\ UNCHANGED <<gate, who, env, faults, ioErrors>>
      BY <1>6 DEF WriteFile
    <2>2. step' \in [Threads -> 1 .. 11]
      BY <2>1, StepGoesOn DEF AfterWrite
    <2>3. QED
      BY <2>1, <2>2
  <1>7. CASE WriteLiteral(t) \/ WriteFailedReport(t)
    BY <1>7, SMTT(30) DEF WriteLiteral, WriteFailedReport
  <1>8. CASE BodyFaults(t) \/ HandlerFaults(t)
    BY <1>8 DEF BodyFaults, HandlerFaults
  <1>9. CASE OverflowBody(t)
    BY <1>9, PlanFacts DEF OverflowBody
  <1>10. CASE Leave(t) \/ Return(t) \/ Finish(t)
    BY <1>10 DEF Leave, Return, Finish
  <1> QED
    BY <1>1, <1>2, <1>3, <1>4, <1>5, <1>6, <1>7, <1>8, <1>9, <1>10 DEF Proceed

\* And so they do in every step.
LEMMA ControlStep ==
  ASSUME ControlOK, [Next]_handlerVars
  PROVE  ControlOK'
  <1> USE Bounds DEF ControlOK, gate, who, env
  <1>1. CASE Second
    BY <1>1 DEF Second, Seconds
  <1>2. ASSUME NEW t \in Threads, Raise(t) \/ LeftFaults(t)
        PROVE  ControlOK'
    BY <1>2 DEF Raise, LeftFaults, Kinds
  <1>3. ASSUME NEW t \in Threads, Enter(t)
        PROVE  ControlOK'
    BY <1>3 DEF Enter, TakeGate
  <1>4. ASSUME NEW t \in Threads, Proceed(t)
        PROVE  ControlOK'
    BY <1>4, ControlProceeds
  <1>5. CASE UNCHANGED handlerVars
    BY <1>5 DEF handlerVars
  <1> QED
    BY <1>1, <1>2, <1>3, <1>4, <1>5 DEF Next, Handler

-----------------------------------------------------------------------------
(***************************************************************************)
(* What a file may hold.                                                   *)
(***************************************************************************)

\* A file cut off anywhere still holds one report from its first stage on.
LEMMA Prefixes ==
  ASSUME NEW r, NEW p \in Seq(Entries), FromOneReport(r, p), NEW n \in 0 .. Len(p)
  PROVE  SubSeq(p, 1, n) \in Seq(Entries) /\ FromOneReport(r, SubSeq(p, 1, n))
  <1> DEFINE q == SubSeq(p, 1, n)
  <1>1. q \in Seq(Entries) /\ Len(q) = n /\ \A i \in 1 .. n : q[i] = p[i]
    OBVIOUS
  <1>2. DOMAIN q = 1 .. n /\ DOMAIN p = 1 .. Len(p)
    BY <1>1
  <1> HIDE DEF q
  <1>3. \A i \in DOMAIN q : q[i].report = r
    BY <1>1, <1>2 DEF FromOneReport
  <1>4. CASE Len(p) <= 5 /\ \A i \in DOMAIN p : p[i].stage = Stages[i]
    BY <1>1, <1>2, <1>3, <1>4 DEF FromOneReport
  <1>5. CASE Len(p) = 1 /\ p[1].stage \in {"reduced", "json", Literal}
    <2>1. n = 0 \/ n = 1
      BY <1>5
    <2> QED
      BY <1>1, <1>2, <1>3, <1>5, <2>1 DEF FromOneReport
  <1> QED
    BY <1>1, <1>4, <1>5 DEF FromOneReport, q

\* A file that was only truncated is of the report that truncated it.
LEMMA EmptyFits ==
  ASSUME NEW r
  PROVE  << >> \in Seq(Entries) /\ FromOneReport(r, << >>)
  BY DEF FromOneReport

\* A text that stands for a whole report is one entry.
LEMMA SingleFits ==
  ASSUME NEW r \in Nat, NEW text \in {"reduced", "json", Literal}
  PROVE  LET p == << [report |-> r, stage |-> text, faulted |-> FALSE] >>
         IN  p \in Seq(Entries) /\ Len(p) = 1 /\ FromOneReport(r, p)
  <1> DEFINE e == [report |-> r, stage |-> text, faulted |-> FALSE]
  <1>1. e \in Entries /\ e.report = r /\ e.stage = text
    BY DEF Entries
  <1> HIDE DEF e
  <1>2. << e >> \in Seq(Entries) /\ Len(<< e >>) = 1 /\ << e >>[1] = e /\ DOMAIN << e >> = {1}
    BY <1>1
  <1>3. FromOneReport(r, << e >>)
    BY <1>1, <1>2 DEF FromOneReport
  <1> QED
    BY <1>2, <1>3 DEF e

\* How many stages have been emitted when a thread stands at a step.
StagesBefore == << 0, 1, 1, 1, 2, 2, 3, 3, 4, 4, 5 >>

\* The plan and the count of stages agree at every step.
LEMMA Stagewise ==
  \A n \in 1 .. 11 :
    /\ StagesBefore[n] \in 0 .. 5
    /\ Plan[n] \in StageSet => StagesBefore[n + 1] = StagesBefore[n] + 1 /\ Plan[n] = Stages[StagesBefore[n] + 1]
    /\ Plan[n] \in Writes /\ Plan[n] # "final" => StagesBefore[n + 1] = StagesBefore[n]
    /\ Plan[n] \in StageSet => n <= 10
    /\ Plan[n] = "final" <=> n = 11
    /\ Plan[n] = "sidecar" <=> n = 3
    /\ Plan[n] \in StageSet \cup Writes
    /\ n = 2 => Plan[n] = "checkpoint"
    /\ n = 1 => Plan[n] \in StageSet
    /\ Plan[n] \in StageSet => Plan[n] \notin Writes
  <1>1. StagesBefore[1] = 0 /\ StagesBefore[2] = 1 /\ StagesBefore[3] = 1 /\ StagesBefore[4] = 1 /\ StagesBefore[5] = 2
        /\ StagesBefore[6] = 2 /\ StagesBefore[7] = 3 /\ StagesBefore[8] = 3 /\ StagesBefore[9] = 4
        /\ StagesBefore[10] = 4 /\ StagesBefore[11] = 5
    BY DEF StagesBefore
  <1>2. TAKE n \in 1 .. 11
  <1>3. n \in {1, 2, 3, 4, 5, 6, 7, 8, 9, 10, 11}
    OBVIOUS
  <1> QED
    BY <1>1, <1>3, PlanFacts, StageFacts DEF Writes

\* The stages emitted before a step are a report as far as it has come.
LEMMA StagesFit ==
  ASSUME NEW r, NEW n \in 1 .. 11, NEW b \in Seq(Entries), Len(b) = StagesBefore[n],
         \A i \in DOMAIN b : b[i].report = r /\ b[i].stage = Stages[i]
  PROVE  FromOneReport(r, b)
  <1>1. StagesBefore[n] \in 0 .. 5
    BY Stagewise
  <1>2. Len(b) <= 5
    BY <1>1
  <1> QED
    BY <1>2 DEF FromOneReport

-----------------------------------------------------------------------------
(***************************************************************************)
(* The numbers of the reports.                                             *)
(***************************************************************************)

\* t goes from one place to another, inside only if it was inside.
MovesTo(t, w) ==
  /\ where' = [where EXCEPT ![t] = w]
  /\ w \in WherePlaces \ {"raised"} /\ (w \in InsideAt => Inside(t))
  /\ UNCHANGED <<report, reports>>
  /\ \A u \in Threads : exc'[u].kind = exc[u].kind /\ (u # t => exc'[u] = exc[u])

\* Every step of a thread in the handler moves that thread and changes nothing of who
\* reports what.
LEMMA ProceedMoves ==
  ASSUME ControlOK, NEW t \in Threads, Proceed(t)
  PROVE  \E w : MovesTo(t, w)
  <1> USE DEF MovesTo, Goto, gate, who, WherePlaces, Inside, InsideAt
  <1>1. CASE Bounce(t)
    <2>1. MovesTo(t, "search")
      BY <1>1 DEF Bounce
    <2> QED
      BY <2>1
  <1>2. CASE Search(t)
    <2>1. MovesTo(t, "run") \/ MovesTo(t, "died")
      BY <1>2 DEF Search
    <2> QED
      BY <2>1
  <1>3. CASE BuildPath(t) \/ StartBody(t) \/ OverflowBody(t)
    <2>1. MovesTo(t, "named") \/ MovesTo(t, "body")
      BY <1>3 DEF BuildPath, StartBody, OverflowBody
    <2> QED
      BY <2>1
  <1>4. CASE EmitStage(t) \/ EmitStageFaults(t)
    <2>1. MovesTo(t, "body")
      BY <1>4 DEF EmitStage, EmitStageFaults, NextStep
    <2> QED
      BY <2>1
  <1>5. CASE OpenFile(t)
    <2>1. MovesTo(t, "opened")
      BY <1>5 DEF OpenFile
    <2> QED
      BY <2>1
  <1>6. CASE OpenFails(t) \/ WriteFileFails(t)
    <2>1. MovesTo(t, "literal") \/ MovesTo(t, "body")
      BY <1>6 DEF OpenFails, WriteFileFails, AfterFailedWrite, NextStep
    <2> QED
      BY <2>1
  <1>7. CASE WriteFile(t)
    <2>1. MovesTo(t, "wrote") \/ MovesTo(t, "body")
      BY <1>7 DEF WriteFile, AfterWrite, NextStep
    <2> QED
      BY <2>1
  <1>8. CASE WriteLiteral(t) \/ WriteFailedReport(t)
    <2>1. MovesTo(t, "leaving")
      BY <1>8 DEF WriteLiteral, WriteFailedReport
    <2> QED
      BY <2>1
  <1>9. CASE BodyFaults(t)
    <2>1. MovesTo(t, "fallback")
      BY <1>9 DEF BodyFaults
    <2> QED
      BY <2>1
  <1>10. CASE HandlerFaults(t)
    <2>1. MovesTo(t, "search")
      BY <1>10 DEF HandlerFaults, ControlOK
    <2> QED
      BY <2>1
  <1>11. CASE Leave(t)
    <2>1. MovesTo(t, "left") \/ MovesTo(t, "terminate")
      BY <1>11 DEF Leave, AfterGate
    <2> QED
      BY <2>1
  <1>12. CASE Terminate(t)
    <2>1. MovesTo(t, "died")
      BY <1>12 DEF Terminate
    <2> QED
      BY <2>1
  <1>13. CASE Return(t)
    <2>1. MovesTo(t, "leaving")
      BY <1>13 DEF Return
    <2> QED
      BY <2>1
  <1>14. CASE Finish(t)
    <2>1. MovesTo(t, "search") \/ MovesTo(t, "terminate")
      BY <1>14 DEF Finish
    <2> QED
      BY <2>1
  <1> QED
    BY <1>1, <1>2, <1>3, <1>4, <1>5, <1>6, <1>7, <1>8, <1>9, <1>10, <1>11, <1>12, <1>13, <1>14 DEF Proceed

\* A set of reports is left alone, or the report that t writes is added to it.
Grows(t, old, new) == new = old \/ (new = old \cup {report[t]} /\ Inside(t))

\* Only the reporter begins and completes a report.
LEMMA HistoryGrows ==
  ASSUME NEW t \in Threads, Proceed(t)
  PROVE  Grows(t, begun, begun') /\ Grows(t, completed, completed')
  <1> USE DEF Grows, Inside, InsideAt, history
  <1>1. CASE StartBody(t) \/ OverflowBody(t)
    BY <1>1 DEF StartBody, OverflowBody
  <1>2. CASE WriteFile(t)
    BY <1>2 DEF WriteFile
  <1>3. ASSUME ~StartBody(t), ~OverflowBody(t), ~WriteFile(t)
        PROVE  UNCHANGED history
    BY <1>3 DEF Proceed, Bounce, Search, BuildPath, EmitStage, EmitStageFaults, OpenFile, OpenFails,
       WriteFileFails, WriteLiteral, BodyFaults, WriteFailedReport, HandlerFaults, Return, Leave,
       Finish, Terminate
  <1> QED
    BY <1>1, <1>2, <1>3

\* The report that is being written has the last number, and no two threads share one.
Numbered ==
  /\ \A t \in Threads : Inside(t) => report[t] = reports /\ reports # 0 /\ exc[t].kind # "other"
  /\ \A t \in Threads : where[t] = "raised" => report[t] = 0
  /\ \A t, u \in Threads : report[t] = report[u] /\ report[t] # 0 => t = u
  /\ begun \subseteq 1 .. reports /\ completed \subseteq 1 .. reports

\* Moving a thread keeps the numbers.
LEMMA NumberedMoves ==
  ASSUME GateInv, Numbered, NEW t \in Threads, NEW w, MovesTo(t, w), reports \in Nat,
         Grows(t, begun, begun'), Grows(t, completed, completed')
  PROVE  Numbered'
  <1>1. \A u \in Threads : Inside(u)' => Inside(u)
    BY DEF MovesTo, GateInv, GateType, Inside
  <1>2. \A u \in Threads : where'[u] = "raised" => where[u] = "raised"
    BY DEF MovesTo, GateInv, GateType
  <1>3. Inside(t) => report[t] \in 1 .. reports
    BY DEF Numbered
  <1>4. begun' \subseteq 1 .. reports /\ completed' \subseteq 1 .. reports
    BY <1>3 DEF Numbered, Grows
  <1> QED
    BY <1>1, <1>2, <1>4 DEF Numbered, MovesTo

\* A new report takes the next number; nobody else has it.
LEMMA NumberedStep ==
  ASSUME ControlOK, GateInv, Numbered, [Next]_handlerVars
  PROVE  Numbered'
  <1>1. CASE Second
    BY <1>1 DEF Second, gate, who, history, Numbered, Inside
  <1>2. ASSUME NEW t \in Threads, Raise(t) \/ LeftFaults(t)
        PROVE  Numbered'
    <2>1. where' = [where EXCEPT ![t] = "raised"] /\ where[t] \in {"run", "left"} /\ report' = [report EXCEPT ![t] = 0]
          /\ UNCHANGED <<reports, begun, completed>> /\ \A u \in Threads : u # t => exc'[u] = exc[u]
      BY <1>2 DEF Raise, LeftFaults, Goto, gate, history, ControlOK
    <2>2. \A u \in Threads : Inside(u)' => Inside(u) /\ u # t
      BY <2>1 DEF GateInv, GateType, Inside, InsideAt
    <2>3. \A u \in Threads : report'[u] = IF u = t THEN 0 ELSE report[u]
      BY <2>1 DEF ControlOK
    <2>4. \A u \in Threads : where'[u] = "raised" => u = t \/ where[u] = "raised"
      BY <2>1 DEF GateInv, GateType
    <2>5. QED
      BY <2>1, <2>2, <2>3, <2>4 DEF Numbered
  <1>3. ASSUME NEW t \in Threads, Enter(t)
        PROVE  Numbered'
    <2>1. /\ exc[t].kind # "other" /\ handlerInProgress = 0 /\ reports' = reports + 1
          /\ report' = [report EXCEPT ![t] = reports + 1] /\ where' = [where EXCEPT ![t] = "entered"]
          /\ UNCHANGED <<exc, begun, completed>>
      BY <1>3 DEF Enter, TakeGate, Goto, history
    <2>2. \A u \in Threads : Inside(u)' => u = t
      BY <2>1 DEF GateInv, GateType, GateShut, Inside
    <2>3. \A u \in Threads : report'[u] = IF u = t THEN reports + 1 ELSE report[u]
      BY <2>1 DEF ControlOK
    <2>4. \A u \in Threads : where'[u] = "raised" => u # t /\ where[u] = "raised"
      BY <2>1 DEF GateInv, GateType
    <2>5. \A u \in Threads : report[u] \in 0 .. reports /\ reports \in Nat
      BY DEF ControlOK
    <2>6. QED
      BY <2>1, <2>2, <2>3, <2>4, <2>5 DEF Numbered
  <1>4. ASSUME NEW t \in Threads, Proceed(t)
        PROVE  Numbered'
    <2>1. PICK w : MovesTo(t, w)
      BY <1>4, ProceedMoves
    <2>2. Grows(t, begun, begun') /\ Grows(t, completed, completed')
      BY <1>4, HistoryGrows
    <2>3. QED
      BY <2>1, <2>2, NumberedMoves DEF ControlOK
  <1>5. CASE UNCHANGED handlerVars
    BY <1>5 DEF handlerVars, gate, who, history, Numbered, Inside
  <1> QED
    BY <1>1, <1>2, <1>3, <1>4, <1>5 DEF Next, Handler

\* A handler that has left the gate closed is the last one: nobody is inside any more.
LostInv ==
  /\ lostGate \in 0 .. reports
  /\ lostGate # 0 => handlerInProgress = 1 /\ \A t \in Threads : ~Inside(t)

\* The gate is lost by the handler that holds it, once.
LEMMA GateLostOnce ==
  ASSUME GateInv, Numbered, LostInv, NEW t \in Threads, Proceed(t)
  PROVE  lostGate' = lostGate \/ (HandlerFaults(t) /\ Inside(t) /\ lostGate = 0 /\ lostGate' = report[t] /\ report[t] = reports)
  <1>1. CASE HandlerFaults(t)
    BY <1>1 DEF HandlerFaults, Unguarded, LostInv, Numbered, Inside, InsideAt
  <1>2. CASE ~HandlerFaults(t)
    BY <1>2 DEF Proceed, Bounce, Search, BuildPath, StartBody, EmitStage, EmitStageFaults, OpenFile, OpenFails, WriteFile,
       WriteFileFails, WriteLiteral, BodyFaults, WriteFailedReport, OverflowBody, Return, Leave, Finish, Terminate, gate
  <1> QED
    BY <1>1, <1>2

\* It stays lost, and nobody comes in.
LEMMA LostStep ==
  ASSUME ControlOK, GateInv, Numbered, LostInv, [Next]_handlerVars
  PROVE  LostInv'
  <1>1. ASSUME NEW t \in Threads, Proceed(t)
        PROVE  LostInv'
    <2>1. PICK w : MovesTo(t, w)
      BY <1>1, ProceedMoves
    <2>2. \A u \in Threads : Inside(u)' => Inside(u)
      BY <2>1 DEF MovesTo, GateInv, GateType, Inside
    <2>3. CASE HandlerFaults(t)
      <3>1. Inside(t) /\ where' = [where EXCEPT ![t] = "search"] /\ handlerInProgress' = handlerInProgress
            /\ lostGate' = report[t] /\ report[t] = reports /\ reports' = reports
        BY <2>3 DEF HandlerFaults, Unguarded, Goto, Inside, InsideAt, Numbered
      <3>2. handlerInProgress' = 1
        BY <3>1 DEF GateInv, GateShut
      <3>3. \A u \in Threads : ~Inside(u)'
        BY <2>2, <3>1 DEF GateInv, GateType, OneReporter, Inside, InsideAt
      <3>4. lostGate' \in 0 .. reports'
        BY <3>1 DEF ControlOK
      <3> QED
        BY <3>2, <3>3, <3>4 DEF LostInv
    <2>4. CASE ~HandlerFaults(t)
      <3>1. lostGate' = lostGate
        BY <1>1, <2>4, GateLostOnce
      <3>2. handlerInProgress' = handlerInProgress \/ Leave(t)
        BY <1>1, <2>4 DEF Proceed, Bounce, Search, BuildPath, StartBody, EmitStage, EmitStageFaults, OpenFile, OpenFails, WriteFile,
           WriteFileFails, WriteLiteral, BodyFaults, WriteFailedReport, OverflowBody, Return, Finish, Terminate, gate
      <3>3. Leave(t) => lostGate = 0
        BY DEF Leave, LostInv, Inside, InsideAt
      <3> QED
        BY <2>1, <2>2, <3>1, <3>2, <3>3 DEF LostInv, MovesTo
    <2> QED
      BY <2>3, <2>4
  <1>2. ASSUME NEW t \in Threads, Enter(t)
        PROVE  LostInv'
    <2>1. lostGate = 0 /\ lostGate' = lostGate /\ reports' = reports + 1
      BY <1>2 DEF Enter, TakeGate, LostInv
    <2> QED
      BY <2>1 DEF LostInv, ControlOK
  <1>3. ASSUME NEW t \in Threads, Raise(t) \/ LeftFaults(t)
        PROVE  LostInv'
    <2>1. where' = [where EXCEPT ![t] = "raised"] /\ UNCHANGED gate
      BY <1>3 DEF Raise, LeftFaults, Goto
    <2>2. \A u \in Threads : Inside(u)' => Inside(u)
      BY <2>1 DEF GateInv, GateType, Inside, InsideAt
    <2> QED
      BY <2>1, <2>2 DEF LostInv, gate
  <1>4. CASE Second \/ UNCHANGED handlerVars
    BY <1>4 DEF Second, handlerVars, LostInv, Inside, gate
  <1> QED
    BY <1>1, <1>2, <1>3, <1>4 DEF Next, Handler

-----------------------------------------------------------------------------
(***************************************************************************)
(* The files.                                                              *)
(***************************************************************************)

\* The files have their types, no file is of a report that has not begun, none is mixed.
FilesOK ==
  /\ crash \in [Seconds -> Files] /\ json \in [Seconds -> Files] /\ failed \in [Seconds -> Files]
  /\ \A s \in Seconds : crash[s].owner <= reports /\ json[s].owner <= reports /\ failed[s].owner <= reports
  /\ ReportsNotMixed

\* A file is replaced by one that t opened and that holds stages of report r.
Puts(t, r, old, new) ==
  \E s \in Seconds, p \in Seq(Entries) :
    /\ FromOneReport(r, p)
    /\ new = [old EXCEPT ![s] = [owner |-> report[t], parts |-> p]]

\* The FAILED file has the stages of an earlier report only when its own has not begun.
PutsFailed(t) ==
  \E r \in 0 .. report[t] :
    /\ report[t] \in begun => r = report[t]
    /\ Puts(t, r, failed, failed')

\* One file is replaced, by the thread that is inside.
Stores(t) ==
  /\ Inside(t) /\ UNCHANGED begun
  /\ \/ Puts(t, report[t], crash, crash') /\ UNCHANGED <<json, failed>>
     \/ Puts(t, report[t], json, json') /\ UNCHANGED <<crash, failed>>
     \/ PutsFailed(t) /\ UNCHANGED <<crash, json>>

\* Such a replacement keeps the file map in order.
LEMMA PutsKept ==
  ASSUME NEW t \in Threads, report[t] \in Nat, report[t] <= reports, reports \in Nat, NEW old \in [Seconds -> Files], NEW new,
         \A s \in Seconds : old[s].owner <= reports /\ FromOneReport(old[s].owner, old[s].parts),
         new = old \/ Puts(t, report[t], old, new)
  PROVE  /\ new \in [Seconds -> Files]
         /\ \A s \in Seconds : new[s].owner <= reports /\ FromOneReport(new[s].owner, new[s].parts)
  <1>1. CASE new = old
    BY <1>1
  <1>2. CASE Puts(t, report[t], old, new)
    <2>1. PICK s \in Seconds, p \in Seq(Entries) :
            FromOneReport(report[t], p) /\ new = [old EXCEPT ![s] = [owner |-> report[t], parts |-> p]]
      BY <1>2 DEF Puts
    <2> DEFINE c == [owner |-> report[t], parts |-> p]
    <2>2. c \in Files /\ c.owner = report[t] /\ c.parts = p
      BY DEF Files
    <2> HIDE DEF c
    <2>3. new = [old EXCEPT ![s] = c]
      BY <2>1 DEF c
    <2> QED
      BY <2>1, <2>2, <2>3
  <1> QED
    BY <1>1, <1>2

\* What a FAILED file of report o may hold when the reports b have begun.
FailedFits(o, parts, b) ==
  \E r \in 0 .. o : FromOneReport(r, parts) /\ (o \in b => r = o)

\* A report that has not reset the buffer has no FAILED file, and its number is not among
\* the reports that have begun.
Unbegun ==
  \A t \in Threads :
    where[t] \in {"entered", "named"} =>
      report[t] \notin begun /\ \A s \in Seconds : failed[s].owner < report[t]

\* The FAILED files stay in order: one is written, or a report begins that has none.
LEMMA FailedKept ==
  ASSUME ControlOK, FilesOK, NEW t \in Threads, UNCHANGED reports,
         \/ UNCHANGED <<failed, begun>>
         \/ PutsFailed(t) /\ UNCHANGED begun
         \/ UNCHANGED failed /\ begun' = begun \cup {report[t]} /\ \A s \in Seconds : failed[s].owner < report[t]
  PROVE  /\ failed' \in [Seconds -> Files]
         /\ \A s \in Seconds : failed'[s].owner <= reports /\ FailedFits(failed'[s].owner, failed'[s].parts, begun')
  <1>1. report[t] \in Nat /\ report[t] <= reports /\ reports \in Nat
    BY DEF ControlOK
  <1>2. \A s \in Seconds : failed[s].owner <= reports /\ FailedFits(failed[s].owner, failed[s].parts, begun)
    BY DEF FilesOK, ReportsNotMixed, FailedFits
  <1>3. CASE UNCHANGED <<failed, begun>>
    BY <1>2, <1>3 DEF FilesOK
  <1>4. CASE PutsFailed(t) /\ UNCHANGED begun
    <2>1. PICK r \in 0 .. report[t] : (report[t] \in begun => r = report[t]) /\ Puts(t, r, failed, failed')
      BY <1>4 DEF PutsFailed
    <2>2. PICK n \in Seconds, p \in Seq(Entries) :
            FromOneReport(r, p) /\ failed' = [failed EXCEPT ![n] = [owner |-> report[t], parts |-> p]]
      BY <2>1 DEF Puts
    <2> DEFINE c == [owner |-> report[t], parts |-> p]
    <2>3. c \in Files /\ c.owner = report[t] /\ c.parts = p
      BY <1>1 DEF Files
    <2> HIDE DEF c
    <2>4. failed' = [failed EXCEPT ![n] = c]
      BY <2>2 DEF c
    <2>5. failed' \in [Seconds -> Files] /\ \A s \in Seconds : failed'[s] = IF s = n THEN c ELSE failed[s]
      BY <2>3, <2>4 DEF FilesOK
    <2>6. FailedFits(report[t], p, begun)
      BY <2>1, <2>2 DEF FailedFits
    <2> QED
      BY <1>1, <1>2, <1>4, <2>3, <2>5, <2>6
  <1>5. CASE UNCHANGED failed /\ begun' = begun \cup {report[t]} /\ \A s \in Seconds : failed[s].owner < report[t]
    <2>1. ASSUME NEW s \in Seconds
          PROVE  FailedFits(failed[s].owner, failed[s].parts, begun')
      <3>1. failed[s].owner \in Nat /\ failed[s].owner < report[t]
        BY <1>5 DEF FilesOK, Files
      <3>2. failed[s].owner # report[t]
        BY <1>1, <3>1
      <3> QED
        BY <1>2, <1>5, <3>2 DEF FailedFits
    <2> QED
      BY <1>2, <1>5, <2>1 DEF FilesOK
  <1> QED
    BY <1>3, <1>4, <1>5

\* A step that stores at most one file of the reporter keeps FilesOK.
LEMMA FilesStored ==
  ASSUME FilesOK, ControlOK, NEW t \in Threads, UNCHANGED reports,
         \/ UNCHANGED <<files, begun>>
         \/ Stores(t)
         \/ UNCHANGED files /\ begun' = begun \cup {report[t]} /\ \A s \in Seconds : failed[s].owner < report[t]
  PROVE  FilesOK'
  <1>1. report[t] \in Nat /\ report[t] <= reports /\ reports \in Nat
    BY DEF ControlOK
  <1>2. (crash' = crash \/ Puts(t, report[t], crash, crash')) /\ (json' = json \/ Puts(t, report[t], json, json'))
    BY DEF Stores, files
  <1>3. \A s \in Seconds :
          /\ crash[s].owner <= reports /\ FromOneReport(crash[s].owner, crash[s].parts)
          /\ json[s].owner <= reports /\ FromOneReport(json[s].owner, json[s].parts)
    BY DEF FilesOK, ReportsNotMixed
  <1>4. crash' \in [Seconds -> Files] /\ \A s \in Seconds : crash'[s].owner <= reports /\ FromOneReport(crash'[s].owner, crash'[s].parts)
    BY <1>1, <1>2, <1>3, PutsKept DEF FilesOK
  <1>5. json' \in [Seconds -> Files] /\ \A s \in Seconds : json'[s].owner <= reports /\ FromOneReport(json'[s].owner, json'[s].parts)
    BY <1>1, <1>2, <1>3, PutsKept DEF FilesOK
  <1>6. failed' \in [Seconds -> Files] /\ \A s \in Seconds : failed'[s].owner <= reports /\ FailedFits(failed'[s].owner, failed'[s].parts, begun')
    BY FailedKept DEF Stores, files
  <1> QED
    BY <1>4, <1>5, <1>6 DEF FilesOK, ReportsNotMixed, FailedFits

\* PutFile stores a file of the reporter.
LEMMA PutFileStores ==
  ASSUME ControlOK, NEW t \in Threads, Inside(t), NEW op, NEW p \in Seq(Entries), FromOneReport(report[t], p),
         PutFile(t, op, p), UNCHANGED begun
  PROVE  Stores(t)
  <1>1. name[t] \in Seconds
    BY DEF ControlOK
  <1> QED
    BY <1>1 DEF PutFile, Stores, Puts

-----------------------------------------------------------------------------
(***************************************************************************)
(* The shared buffer.                                                      *)
(***************************************************************************)

\* The shared buffer is in use.
Writing(t) ==
  \/ where[t] \in {"body", "opened", "literal", "wrote"}
  \/ where[t] = "fallback" /\ report[t] \in begun

\* The buffer holds the stages that the step of t says it has emitted, all of its own report.
Owned(t) ==
  \/ /\ exc[t].kind = "fault"
     /\ Len(buffer) = StagesBefore[step[t]]
     /\ \A i \in DOMAIN buffer : buffer[i].report = report[t] /\ buffer[i].stage = Stages[i]
  \/ /\ exc[t].kind = "overflow" /\ step[t] = 11
     /\ buffer = << [report |-> report[t], stage |-> "reduced", faulted |-> FALSE] >>

\* The shared buffer belongs to whoever is writing; when nobody is, it holds what the last
\* report had emitted.
BufferOwned ==
  /\ buffer \in Seq(Entries)
  /\ \E r \in 0 .. reports : FromOneReport(r, buffer)
  /\ \A t \in Threads : Writing(t) => Owned(t)

\* Where a thread stands agrees with its operation and with what has failed.
StepFits ==
  \A t \in Threads :
    /\ where[t] = "opened" => Op(t) \in Writes
    /\ where[t] = "literal" => Op(t) = "final" /\ ioErrors >= 1
    /\ where[t] = "fallback" => faults >= 1
    /\ where[t] \in {"named", "fallback"} => exc[t].kind = "fault"

\* What the buffer holds is a report, and so is what goes into a file.
LEMMA BufferFits ==
  ASSUME ControlOK, BufferOwned, NEW t \in Threads, Writing(t)
  PROVE  FromOneReport(report[t], buffer)
  <1>1. CASE exc[t].kind = "fault"
    <2>1. step[t] \in 1 .. 11
      BY DEF ControlOK
    <2> QED
      BY <1>1, <2>1, StagesFit DEF BufferOwned, Owned
  <1>2. CASE buffer = << [report |-> report[t], stage |-> "reduced", faulted |-> FALSE] >>
    <2>1. report[t] \in Nat
      BY DEF ControlOK
    <2> QED
      BY <1>2, <2>1, SingleFits
  <1> QED
    BY <1>1, <1>2 DEF BufferOwned, Owned

\* What a write puts into its file is of one report.
LEMMA ContentsFit ==
  ASSUME ControlOK, BufferOwned, NEW t \in Threads, where[t] = "opened"
  PROVE  Contents(t) \in Seq(Entries) /\ FromOneReport(report[t], Contents(t))
  <1>1. report[t] \in Nat
    BY DEF ControlOK
  <1>2. CASE Op(t) = "sidecar"
    BY <1>1, <1>2, SingleFits DEF Contents
  <1>3. CASE Op(t) # "sidecar"
    BY <1>3, BufferFits DEF Contents, BufferOwned, Writing
  <1> QED
    BY <1>2, <1>3

\* Every step of the handler leaves the disk alone or stores a file of its own report.
LEMMA ProceedStores ==
  ASSUME ControlOK, BufferOwned, Numbered, NEW t \in Threads, Proceed(t)
  PROVE  UNCHANGED files \/ Stores(t)
  <1> USE DEF Inside, InsideAt, history
  <1>1. CASE OpenFile(t)
    BY <1>1, EmptyFits, PutFileStores DEF OpenFile
  <1>2. CASE WriteFile(t)
    BY <1>2, ContentsFit, PutFileStores DEF WriteFile
  <1>3. CASE WriteFileFails(t)
    <2>1. PICK n \in 0 .. Len(Contents(t)) - 1 : PutFile(t, Op(t), SubSeq(Contents(t), 1, n))
      BY <1>3 DEF WriteFileFails
    <2>2. Contents(t) \in Seq(Entries) /\ FromOneReport(report[t], Contents(t)) /\ Inside(t) /\ UNCHANGED begun
      BY <1>3, ContentsFit DEF WriteFileFails
    <2>3. n \in 0 .. Len(Contents(t))
      BY <2>2
    <2>4. SubSeq(Contents(t), 1, n) \in Seq(Entries) /\ FromOneReport(report[t], SubSeq(Contents(t), 1, n))
      BY <2>2, <2>3, Prefixes
    <2> QED
      BY <2>1, <2>2, <2>4, PutFileStores
  <1>4. CASE WriteLiteral(t)
    <2> DEFINE p == << [report |-> report[t], stage |-> Literal, faulted |-> FALSE] >>
    <2>1. report[t] \in Nat
      BY DEF ControlOK
    <2>2. p \in Seq(Entries) /\ FromOneReport(report[t], p)
      BY <2>1, SingleFits
    <2>3. PutFile(t, "final", p) \/ UNCHANGED files
      BY <1>4 DEF WriteLiteral
    <2>4. Inside(t) /\ UNCHANGED begun
      BY <1>4 DEF WriteLiteral
    <2> HIDE DEF p
    <2> QED
      BY <2>2, <2>3, <2>4, PutFileStores
  <1>5. CASE WriteFailedReport(t)
    <2>1. CASE UNCHANGED failed
      BY <1>5, <2>1 DEF WriteFailedReport, files
    <2>2. ASSUME NEW n \in 0 .. Len(buffer),
                 failed' = [failed EXCEPT ![clock] = [owner |-> report[t], parts |-> SubSeq(buffer, 1, n)]]
          PROVE  Stores(t)
      <3>1. buffer \in Seq(Entries) /\ clock \in Seconds /\ report[t] = reports
        BY <1>5 DEF BufferOwned, ControlOK, Numbered, WriteFailedReport
      <3>2. PICK r \in 0 .. report[t] : FromOneReport(r, buffer) /\ (report[t] \in begun => r = report[t])
        <4>1. CASE report[t] \in begun
          <5>1. FromOneReport(report[t], buffer) /\ report[t] \in 0 .. report[t]
            BY <1>5, <4>1, BufferFits DEF WriteFailedReport, Writing, ControlOK
          <5> QED
            BY <5>1
        <4>2. CASE report[t] \notin begun
          BY <3>1, <4>2 DEF BufferOwned
        <4> QED
          BY <4>1, <4>2
      <3>3. SubSeq(buffer, 1, n) \in Seq(Entries) /\ FromOneReport(r, SubSeq(buffer, 1, n))
        BY <3>1, <3>2, Prefixes
      <3>4. PutsFailed(t)
        BY <2>2, <3>1, <3>2, <3>3 DEF Puts, PutsFailed
      <3> QED
        BY <1>5, <3>4 DEF WriteFailedReport, Stores
    <2> QED
      BY <1>5, <2>1, <2>2 DEF WriteFailedReport
  <1>6. ASSUME ~OpenFile(t), ~WriteFile(t), ~WriteFileFails(t), ~WriteLiteral(t), ~WriteFailedReport(t)
        PROVE  UNCHANGED files
    BY <1>6 DEF Proceed, Bounce, Search, BuildPath, StartBody, EmitStage, EmitStageFaults, OpenFails,
       BodyFaults, OverflowBody, HandlerFaults, Return, Leave, Finish, Terminate, files
  <1> QED
    BY <1>1, <1>2, <1>3, <1>4, <1>5, <1>6

\* A report begins with no file of its own on the disk.
LEMMA BeginsUnbegun ==
  ASSUME Unbegun, NEW t \in Threads, Proceed(t), begun' # begun
  PROVE  UNCHANGED files /\ begun' = begun \cup {report[t]} /\ \A s \in Seconds : failed[s].owner < report[t]
  <1>1. StartBody(t) \/ OverflowBody(t)
    BY DEF Proceed, Bounce, Search, BuildPath, EmitStage, EmitStageFaults, OpenFile, OpenFails, WriteFile,
       WriteFileFails, WriteLiteral, BodyFaults, WriteFailedReport, HandlerFaults, Return, Leave,
       Finish, Terminate, history
  <1> QED
    BY <1>1 DEF StartBody, OverflowBody, Unbegun, files

\* So no file ever mixes two reports.
LEMMA FilesStep ==
  ASSUME ControlOK, Numbered, FilesOK, BufferOwned, Unbegun, [Next]_handlerVars
  PROVE  FilesOK'
  <1>1. ASSUME NEW t \in Threads, Proceed(t)
        PROVE  FilesOK'
    <2>1. UNCHANGED reports
      BY <1>1, ProceedMoves DEF MovesTo
    <2>2. CASE begun' = begun
      BY <1>1, <2>1, <2>2, ProceedStores, FilesStored
    <2>3. CASE begun' # begun
      BY <1>1, <2>1, <2>3, BeginsUnbegun, FilesStored
    <2> QED
      BY <2>2, <2>3
  <1>2. ASSUME NEW t \in Threads, Enter(t)
        PROVE  FilesOK'
    <2>1. reports' = reports + 1 /\ UNCHANGED <<files, begun>>
      BY <1>2 DEF Enter, TakeGate, history
    <2>2. reports \in Nat /\ \A s \in Seconds : crash[s].owner \in Nat /\ json[s].owner \in Nat /\ failed[s].owner \in Nat
      BY DEF ControlOK, FilesOK, Files
    <2> QED
      BY <2>1, <2>2 DEF FilesOK, ReportsNotMixed, files
  <1>3. ASSUME NEW t \in Threads, Raise(t) \/ LeftFaults(t)
        PROVE  FilesOK'
    BY <1>3 DEF Raise, LeftFaults, FilesOK, ReportsNotMixed, files, gate, history
  <1>4. CASE Second \/ UNCHANGED handlerVars
    BY <1>4 DEF Second, handlerVars, FilesOK, ReportsNotMixed, files, gate, history
  <1> QED
    BY <1>1, <1>2, <1>3, <1>4 DEF Next, Handler

\* A report that has not begun has left nothing behind.
LEMMA UnbegunStep ==
  ASSUME ControlOK, GateInv, Numbered, FilesOK, BufferOwned, Unbegun, [Next]_handlerVars
  PROVE  Unbegun'
  <1>1. ASSUME NEW t \in Threads, Proceed(t)
        PROVE  Unbegun'
    <2>1. PICK w : MovesTo(t, w)
      BY <1>1, ProceedMoves
    <2>2. ASSUME NEW u \in Threads, where'[u] \in {"entered", "named"}
          PROVE  where[u] \in {"entered", "named"} /\ UNCHANGED <<failed, begun>>
      <3>1. CASE u # t
        <4>1. where[u] \in {"entered", "named"} /\ ~Inside(t)
          BY <2>1, <2>2, <3>1 DEF MovesTo, GateInv, GateType, OneReporter, Inside, InsideAt
        <4> QED
          BY <1>1, <4>1, ProceedStores, HistoryGrows DEF Stores, Grows, files
      <3>2. CASE u = t
        <4>1. CASE BuildPath(t)
          BY <3>2, <4>1 DEF BuildPath, files, history
        <4>2. CASE ~BuildPath(t)
          <5>1. where'[t] \notin {"entered", "named"}
            BY <1>1, <4>2 DEF Proceed, Bounce, Search, StartBody, EmitStage, EmitStageFaults, OpenFile, OpenFails, WriteFile,
               WriteFileFails, WriteLiteral, BodyFaults, WriteFailedReport, OverflowBody, HandlerFaults, Return, Leave,
               Finish, Terminate, AfterWrite, AfterFailedWrite, AfterGate, NextStep, Goto, GateInv, GateType
          <5> QED
            BY <2>2, <3>2, <5>1
        <4> QED
          BY <4>1, <4>2
      <3> QED
        BY <3>1, <3>2
    <2> QED
      BY <2>1, <2>2 DEF Unbegun, MovesTo
  <1>2. ASSUME NEW t \in Threads, Enter(t)
        PROVE  Unbegun'
    <2>1. reports' = reports + 1 /\ report' = [report EXCEPT ![t] = reports + 1] /\ UNCHANGED <<failed, begun>>
          /\ where' = [where EXCEPT ![t] = "entered"]
      BY <1>2 DEF Enter, TakeGate, history, files, Goto
    <2>2. reports \in Nat /\ begun \subseteq 1 .. reports
          /\ \A s \in Seconds : failed[s].owner \in Nat /\ failed[s].owner <= reports
      BY DEF ControlOK, Numbered, FilesOK, Files
    <2>3. reports + 1 \notin begun
      BY <2>2
    <2> QED
      BY <2>1, <2>2, <2>3 DEF Unbegun, ControlOK, GateInv, GateType
  <1>3. ASSUME NEW t \in Threads, Raise(t) \/ LeftFaults(t)
        PROVE  Unbegun'
    BY <1>3 DEF Raise, LeftFaults, Goto, Unbegun, files, history, ControlOK, GateInv, GateType
  <1>4. CASE Second \/ UNCHANGED handlerVars
    BY <1>4 DEF Second, handlerVars, Unbegun, files, history, who
  <1> QED
    BY <1>1, <1>2, <1>3, <1>4 DEF Next, Handler

\* A step that leaves the buffer alone, and brings nobody to the body, keeps it owned.
LEMMA OwnedKept ==
  ASSUME BufferOwned, buffer' = buffer, reports \in Nat, reports' = reports \/ reports' = reports + 1,
         \A u \in Threads : Writing(u)' =>
           Writing(u) /\ exc'[u] = exc[u] /\ report'[u] = report[u] /\ step'[u] = step[u]
  PROVE  BufferOwned'
  <1>1. ASSUME NEW u \in Threads, Writing(u)'
        PROVE  Owned(u)'
    <2>1. Owned(u)
      BY <1>1 DEF BufferOwned
    <2> QED
      BY <1>1, <2>1 DEF Owned
  <1>2. PICK r \in 0 .. reports : FromOneReport(r, buffer)
    BY DEF BufferOwned
  <1>3. r \in 0 .. reports'
    OBVIOUS
  <1> QED
    BY <1>1, <1>2, <1>3 DEF BufferOwned

\* A step of the one reporter settles the matter for everybody.
LEMMA OwnedAlone ==
  ASSUME GateInv, ControlOK, NEW t \in Threads, Inside(t), NEW w, MovesTo(t, w),
         step'[t] \in 1 .. 11, buffer' \in Seq(Entries), Owned(t)'
  PROVE  BufferOwned'
  <1>1. \A u \in Threads : u # t => where'[u] = where[u] /\ ~Inside(u)
    BY DEF MovesTo, GateInv, GateType, OneReporter
  <1>2. \A u \in Threads : Writing(u)' => u = t
    BY <1>1 DEF Writing, Inside, InsideAt
  <1>3. report'[t] = report[t] /\ report[t] \in 0 .. reports /\ reports' = reports /\ report[t] \in Nat
    BY DEF MovesTo, ControlOK
  <1>4. FromOneReport(report[t], buffer')
    <2>1. CASE /\ Len(buffer') = StagesBefore[step'[t]]
               /\ \A i \in DOMAIN buffer' : buffer'[i].report = report[t] /\ buffer'[i].stage = Stages[i]
      BY <2>1, StagesFit
    <2>2. CASE buffer' = << [report |-> report[t], stage |-> "reduced", faulted |-> FALSE] >>
      BY <1>3, <2>2, SingleFits
    <2> QED
      BY <1>3, <2>1, <2>2 DEF Owned
  <1> QED
    BY <1>2, <1>3, <1>4 DEF BufferOwned

\* A stage that is emitted, whole or with its banner, is the next one.
LEMMA EmittedOwned ==
  ASSUME ControlOK, GateInv, BufferOwned, NEW t \in Threads, where[t] = "body", Op(t) \in StageSet,
         NEW b \in BOOLEAN, Emitted(t, b), NextStep(t), UNCHANGED <<exc, report, reports>>
  PROVE  BufferOwned'
  <1> DEFINE e == [report |-> report[t], stage |-> Op(t), faulted |-> b]
  <1>1. report[t] \in Nat /\ step[t] \in 1 .. 11 /\ Op(t) = Plan[step[t]]
    BY DEF ControlOK, Op
  <1>2. e \in Entries /\ e.report = report[t] /\ e.stage = Op(t)
    BY <1>1 DEF Entries
  <1>3. buffer' = Append(buffer, e)
    BY DEF Emitted
  <1> HIDE DEF e
  <1>4. /\ buffer \in Seq(Entries) /\ Len(buffer) = StagesBefore[step[t]]
        /\ \A i \in DOMAIN buffer : buffer[i].report = report[t] /\ buffer[i].stage = Stages[i]
        /\ exc[t].kind = "fault"
    <2>1. Owned(t) /\ step[t] # 11
      BY <1>1, Stagewise DEF BufferOwned, Writing
    <2> QED
      BY <2>1 DEF Owned, BufferOwned
  <1>5. /\ StagesBefore[step[t]] \in 0 .. 5
        /\ StagesBefore[step[t] + 1] = StagesBefore[step[t]] + 1
        /\ Op(t) = Stages[StagesBefore[step[t]] + 1]
        /\ Op(t) # "final"
    BY <1>1, Stagewise, StageIsNotFinal
  <1>6. step'[t] = step[t] + 1
    BY <1>5, StepGoesOn DEF ControlOK
  <1>7. buffer' \in Seq(Entries) /\ Len(buffer') = Len(buffer) + 1
    BY <1>2, <1>3, <1>4
  <1>8. \A i \in DOMAIN buffer' : buffer'[i].report = report[t] /\ buffer'[i].stage = Stages[i]
    <2> SUFFICES ASSUME NEW i \in DOMAIN buffer'
                 PROVE  buffer'[i].report = report[t] /\ buffer'[i].stage = Stages[i]
      OBVIOUS
    <2>1. i \in 1 .. Len(buffer) + 1
      BY <1>7
    <2>2. CASE i = Len(buffer) + 1
      BY <2>2, <1>2, <1>3, <1>4, <1>5
    <2>3. CASE i # Len(buffer) + 1
      <3>1. buffer'[i] = buffer[i] /\ i \in DOMAIN buffer
        BY <2>1, <2>3, <1>3, <1>4
      <3> QED
        BY <3>1, <1>4
    <2> QED
      BY <2>2, <2>3
  <1>9. MovesTo(t, "body") /\ Inside(t)
    BY DEF MovesTo, NextStep, Goto, WherePlaces, Inside, InsideAt
  <1>10. Owned(t)'
    BY <1>4, <1>5, <1>6, <1>7, <1>8 DEF Owned
  <1>11. step'[t] \in 1 .. 11
    BY <1>5, StepGoesOn
  <1> QED
    BY <1>7, <1>9, <1>10, <1>11, OwnedAlone

\* A write leaves the buffer as it is, and the plan expects no further stage of it.
LEMMA GoneOnOwned ==
  ASSUME ControlOK, GateInv, BufferOwned, NEW t \in Threads, where[t] \in {"body", "opened"}, Op(t) \in Writes, Op(t) # "final",
         NextStep(t), UNCHANGED <<buffer, exc, report, reports>>
  PROVE  BufferOwned'
  <1>1. step[t] \in 1 .. 11 /\ Op(t) = Plan[step[t]]
    BY DEF ControlOK, Op
  <1>2. Owned(t) /\ step[t] # 11
    BY <1>1, Stagewise DEF BufferOwned, Writing
  <1>3. StagesBefore[step[t] + 1] = StagesBefore[step[t]]
    BY <1>1, Stagewise
  <1>4. step'[t] = step[t] + 1
    BY StepGoesOn DEF ControlOK
  <1>5. MovesTo(t, "body") /\ Inside(t)
    BY DEF MovesTo, NextStep, Goto, WherePlaces, Inside, InsideAt
  <1>6. Owned(t)'
    BY <1>2, <1>3, <1>4 DEF Owned
  <1>7. step'[t] \in 1 .. 11
    BY StepGoesOn
  <1> QED
    BY <1>5, <1>6, <1>7, OwnedAlone DEF BufferOwned

\* The buffer stays owned through the handler.
LEMMA OwnedProceeds ==
  ASSUME ControlOK, GateInv, BufferOwned, StepFits, Unbegun, NEW t \in Threads, Proceed(t)
  PROVE  BufferOwned'
  <1>1. CASE StartBody(t)
    <2>1. StagesBefore[1] = 0
      BY DEF StagesBefore
    <2>2. exc[t].kind = "fault" /\ buffer' = << >> /\ step'[t] = 1 /\ UNCHANGED <<exc, report, reports>> /\ Goto(t, "body")
          /\ where[t] = "named"
      BY <1>1 DEF StartBody, ControlOK, StepFits, gate, who
    <2>3. Owned(t)'
      BY <2>1, <2>2 DEF Owned
    <2>4. MovesTo(t, "body") /\ Inside(t)
      BY <2>2 DEF MovesTo, Goto, WherePlaces, Inside, InsideAt
    <2> QED
      BY <2>2, <2>3, <2>4, OwnedAlone
  <1>2. CASE OverflowBody(t)
    <2>1. report[t] \in Nat
      BY DEF ControlOK
    <2>2. /\ exc[t].kind = "overflow" /\ buffer' = << [report |-> report[t], stage |-> "reduced", faulted |-> FALSE] >>
          /\ step'[t] = 11 /\ UNCHANGED <<exc, report, reports>> /\ Goto(t, "body") /\ where[t] = "entered"
      BY <1>2, PlanFacts DEF OverflowBody, ControlOK, gate
    <2>3. MovesTo(t, "body") /\ Inside(t)
      BY <2>2 DEF MovesTo, Goto, WherePlaces, Inside, InsideAt
    <2>4. Owned(t)'
      BY <2>2 DEF Owned
    <2>5. buffer' \in Seq(Entries)
      BY <2>1, <2>2, SingleFits
    <2>6. step'[t] \in 1 .. 11
      BY <2>2
    <2> QED
      BY <2>3, <2>4, <2>5, <2>6, OwnedAlone
  <1>3. CASE EmitStage(t) \/ EmitStageFaults(t)
    <2>1. /\ where[t] = "body" /\ Op(t) \in StageSet /\ NextStep(t) /\ UNCHANGED <<exc, report, reports>>
          /\ Emitted(t, TRUE) \/ Emitted(t, FALSE)
      BY <1>3 DEF EmitStage, EmitStageFaults, gate, who
    <2> QED
      BY <2>1, EmittedOwned
  <1>4. CASE OpenFails(t) \/ WriteFile(t) \/ WriteFileFails(t)
    <2>1. /\ where[t] \in {"body", "opened"} /\ UNCHANGED <<buffer, begun, exc, report, reports>>
          /\ where[t] = "body" => Op(t) \in Writes
          /\ AfterFailedWrite(t) \/ AfterWrite(t)
      BY <1>4 DEF OpenFails, WriteFile, WriteFileFails, gate, who, history
    <2>2. CASE Op(t) = "final"
      <3>1. (Goto(t, "literal") \/ Goto(t, "wrote")) /\ step' = step
        BY <2>1, <2>2 DEF AfterFailedWrite, AfterWrite
      <3>2. \A u \in Threads : Writing(u)' => Writing(u)
        BY <2>1, <3>1 DEF Goto, Writing, GateInv, GateType
      <3> QED
        BY <2>1, <3>1, <3>2, OwnedKept DEF ControlOK
    <2>3. CASE Op(t) # "final" /\ Op(t) \in Writes
      BY <2>1, <2>3, GoneOnOwned DEF AfterFailedWrite, AfterWrite
    <2>4. Op(t) \in Writes
      BY <2>1 DEF StepFits
    <2> QED
      BY <2>2, <2>3, <2>4
  <1>5. ASSUME ~StartBody(t), ~OverflowBody(t), ~EmitStage(t), ~EmitStageFaults(t), ~OpenFails(t), ~WriteFile(t), ~WriteFileFails(t)
        PROVE  BufferOwned'
    <2>1. /\ UNCHANGED <<buffer, report, step, begun, reports>>
          /\ \A u \in Threads : u # t => exc'[u] = exc[u]
      BY <1>5, ProceedMoves DEF Proceed, Bounce, Search, BuildPath, OpenFile, WriteLiteral, BodyFaults, WriteFailedReport,
         HandlerFaults, Return, Leave, Finish, Terminate, MovesTo, who, history, gate
    <2>2. /\ \A u \in Threads : u # t => where'[u] = where[u]
          /\ Writing(t)' => Writing(t) /\ exc' = exc
      <3>1. CASE BodyFaults(t)
        <4>1. exc' = exc /\ where' = [where EXCEPT ![t] = "fallback"] /\ where[t] \in {"named", "body", "literal", "wrote"}
          BY <3>1 DEF BodyFaults, Goto, who
        <4> QED
          BY <2>1, <4>1 DEF Writing, Unbegun, GateInv, GateType
      <3>2. CASE OpenFile(t)
        BY <2>1, <3>2 DEF OpenFile, Goto, who, Writing, GateInv, GateType
      <3>3. CASE ~BodyFaults(t) /\ ~OpenFile(t)
        <4>1. PICK w \in WherePlaces \ {"body", "opened", "literal", "wrote", "fallback"} : where' = [where EXCEPT ![t] = w]
          BY <1>5, <3>3 DEF Proceed, Bounce, Search, BuildPath, WriteLiteral, WriteFailedReport,
             HandlerFaults, Return, Leave, Finish, Terminate, AfterGate, Goto, WherePlaces, InsideAt
        <4> QED
          BY <4>1 DEF Writing, GateInv, GateType
      <3> QED
        BY <3>1, <3>2, <3>3
    <2>3. \A u \in Threads : Writing(u)' => Writing(u) /\ exc'[u] = exc[u]
      BY <2>1, <2>2 DEF Writing, GateInv, GateType
    <2> QED
      BY <2>1, <2>3, OwnedKept DEF ControlOK
  <1> QED
    BY <1>1, <1>2, <1>3, <1>4, <1>5

\* And in every step.
LEMMA OwnedStep ==
  ASSUME ControlOK, GateInv, BufferOwned, StepFits, Unbegun, [Next]_handlerVars
  PROVE  BufferOwned'
  <1>1. ASSUME NEW t \in Threads, Proceed(t)
        PROVE  BufferOwned'
    BY <1>1, OwnedProceeds
  <1>2. ASSUME NEW t \in Threads, Enter(t)
        PROVE  BufferOwned'
    <2>1. where' = [where EXCEPT ![t] = "entered"] /\ report' = [report EXCEPT ![t] = reports + 1]
          /\ reports' = reports + 1 /\ UNCHANGED <<buffer, exc, step, begun>>
      BY <1>2 DEF Enter, TakeGate, Goto, history
    <2>2. \A u \in Threads : Writing(u)' => u # t /\ Writing(u) /\ report'[u] = report[u]
      BY <2>1 DEF Writing, GateInv, GateType, ControlOK
    <2> QED
      BY <2>1, <2>2, OwnedKept DEF ControlOK
  <1>3. ASSUME NEW t \in Threads, Raise(t) \/ LeftFaults(t)
        PROVE  BufferOwned'
    <2>1. where' = [where EXCEPT ![t] = "raised"] /\ report' = [report EXCEPT ![t] = 0]
          /\ UNCHANGED <<buffer, step, begun, reports>> /\ \A u \in Threads : u # t => exc'[u] = exc[u]
      BY <1>3 DEF Raise, LeftFaults, Goto, ControlOK, history, gate
    <2>2. \A u \in Threads : Writing(u)' => u # t /\ Writing(u) /\ report'[u] = report[u]
      BY <2>1 DEF Writing, GateInv, GateType, ControlOK
    <2> QED
      BY <2>1, <2>2, OwnedKept DEF ControlOK
  <1>4. CASE Second \/ UNCHANGED handlerVars
    BY <1>4 DEF Second, handlerVars, who, gate, history, BufferOwned, Owned, Writing
  <1> QED
    BY <1>1, <1>2, <1>3, <1>4 DEF Next, Handler

\* t goes to a place that its operation and the failures so far account for.
GoesFitly(t, w) ==
  /\ where' = [where EXCEPT ![t] = w]
  /\ w \in {"opened", "literal"} => step' = step
  /\ w = "opened" => Op(t) \in Writes
  /\ w = "literal" => Op(t) = "final" /\ ioErrors' >= 1
  /\ w = "fallback" => faults' >= 1
  /\ w \in {"named", "fallback"} => exc'[t].kind = "fault"

\* Such a move keeps StepFits.
LEMMA FitsElsewhere ==
  ASSUME ControlOK, GateInv, StepFits, NEW t \in Threads, NEW w, GoesFitly(t, w),
         ioErrors' >= ioErrors, faults' >= faults, ioErrors' \in Nat, faults' \in Nat,
         \A u \in Threads : u # t => step'[u] = step[u] /\ exc'[u] = exc[u]
  PROVE  StepFits'
  <1>1. ASSUME NEW u \in Threads
        PROVE  /\ where'[u] = "opened" => Plan[step'[u]] \in Writes
               /\ where'[u] = "literal" => Plan[step'[u]] = "final" /\ ioErrors' >= 1
               /\ where'[u] = "fallback" => faults' >= 1
               /\ where'[u] \in {"named", "fallback"} => exc'[u].kind = "fault"
    <2>1. ioErrors \in Nat /\ faults \in Nat
      BY DEF ControlOK
    <2>2. CASE u = t
      <3>1. where'[u] = w
        BY <2>2 DEF GoesFitly, GateInv, GateType
      <3> QED
        BY <2>2, <3>1 DEF GoesFitly, Op
    <2>3. CASE u # t
      <3>1. where'[u] = where[u] /\ step'[u] = step[u] /\ exc'[u] = exc[u]
        BY <2>3 DEF GoesFitly, GateInv, GateType
      <3> QED
        BY <2>1, <3>1 DEF Op, StepFits
    <2> QED
      BY <2>2, <2>3
  <1> QED
    BY <1>1 DEF StepFits, Op

\* Failures are counted one at a time.
LEMMA ErrorsCount ==
  ASSUME NEW t \in Threads, Raise(t) \/ LeftFaults(t) \/ Handler(t)
  PROVE  /\ ioErrors' = ioErrors \/ ioErrors' = ioErrors + 1
         /\ faults' = faults \/ faults' = faults + 1
  <1>1. CASE OpenFails(t) \/ WriteFileFails(t)
    BY <1>1 DEF OpenFails, WriteFileFails
  <1>2. CASE WriteLiteral(t) \/ WriteFailedReport(t)
    BY <1>2 DEF WriteLiteral, WriteFailedReport
  <1>3. CASE BodyFaults(t) \/ EmitStageFaults(t) \/ HandlerFaults(t) \/ LeftFaults(t)
    BY <1>3 DEF BodyFaults, EmitStageFaults, HandlerFaults, LeftFaults
  <1>4. CASE Raise(t) \/ Enter(t) \/ Bounce(t) \/ Search(t) \/ BuildPath(t) \/ StartBody(t) \/ EmitStage(t) \/ OpenFile(t)
              \/ WriteFile(t) \/ OverflowBody(t) \/ Return(t) \/ Leave(t) \/ Finish(t) \/ Terminate(t)
    BY <1>4 DEF Raise, Enter, TakeGate, Bounce, Search, BuildPath, StartBody, EmitStage, OpenFile,
       WriteFile, OverflowBody, Return, Leave, Finish, Terminate
  <1> QED
    BY <1>1, <1>2, <1>3, <1>4 DEF Handler, Proceed

\* A step of t leaves what the other threads do and have raised alone.
LEMMA OthersKeep ==
  ASSUME ControlOK, NEW t \in Threads, Raise(t) \/ LeftFaults(t) \/ Handler(t), NEW u \in Threads, u # t
  PROVE  step'[u] = step[u] /\ exc'[u] = exc[u]
  <1>1. CASE Proceed(t)
    <2>1. exc'[u] = exc[u]
      BY <1>1, ProceedMoves DEF MovesTo
    <2>2. step'[u] = step[u]
      BY <1>1 DEF Proceed, Bounce, Search, BuildPath, StartBody, EmitStage, EmitStageFaults, OpenFile, OpenFails,
         WriteFile, WriteFileFails, WriteLiteral, BodyFaults, WriteFailedReport, OverflowBody,
         HandlerFaults, Return, Leave, Finish, Terminate, AfterFailedWrite, AfterWrite, NextStep, ControlOK
    <2> QED
      BY <2>1, <2>2
  <1>2. CASE Raise(t) \/ LeftFaults(t) \/ Enter(t)
    BY <1>2 DEF Raise, LeftFaults, Enter, TakeGate, ControlOK
  <1> QED
    BY <1>1, <1>2 DEF Handler

\* Every step is such a move.
LEMMA FitsStep ==
  ASSUME ControlOK, GateInv, StepFits, [Next]_handlerVars
  PROVE  StepFits'
  <1>1. ASSUME NEW t \in Threads, Raise(t) \/ LeftFaults(t) \/ Handler(t)
        PROVE  StepFits'
    <2>1. /\ ioErrors' >= ioErrors /\ faults' >= faults /\ ioErrors \in Nat /\ faults \in Nat
          /\ ioErrors' \in Nat /\ faults' \in Nat
      <3>1. ioErrors' = ioErrors \/ ioErrors' = ioErrors + 1
        BY <1>1, ErrorsCount
      <3>2. faults' = faults \/ faults' = faults + 1
        BY <1>1, ErrorsCount
      <3> QED
        BY <3>1, <3>2 DEF ControlOK
    <2>2. \A u \in Threads : u # t => step'[u] = step[u] /\ exc'[u] = exc[u]
      BY <1>1, OthersKeep
    <2>3. \E w : GoesFitly(t, w)
      <3>1. CASE OpenFails(t) \/ WriteFileFails(t)
        <4>1. AfterFailedWrite(t) /\ ioErrors' = ioErrors + 1
          BY <3>1 DEF OpenFails, WriteFileFails
        <4>2. GoesFitly(t, "literal") \/ GoesFitly(t, "body")
          BY <2>1, <4>1 DEF AfterFailedWrite, NextStep, Goto, GoesFitly
        <4> QED
          BY <4>2
      <3>2. CASE WriteFile(t)
        <4>1. GoesFitly(t, "wrote") \/ GoesFitly(t, "body")
          BY <3>2 DEF WriteFile, AfterWrite, NextStep, Goto, GoesFitly
        <4> QED
          BY <4>1
      <3>3. CASE OpenFile(t)
        <4>1. GoesFitly(t, "opened")
          BY <3>3 DEF OpenFile, Goto, GoesFitly
        <4> QED
          BY <4>1
      <3>4. CASE BodyFaults(t)
        <4>1. faults' >= 1 /\ Goto(t, "fallback") /\ exc'[t].kind = "fault"
          BY <2>1, <3>4 DEF BodyFaults, who
        <4>2. GoesFitly(t, "fallback")
          BY <4>1 DEF Goto, GoesFitly
        <4> QED
          BY <4>2
      <3>5. CASE BuildPath(t)
        <4>1. GoesFitly(t, "named")
          BY <3>5 DEF BuildPath, Goto, GoesFitly
        <4> QED
          BY <4>1
      <3>6. CASE ~OpenFails(t) /\ ~WriteFileFails(t) /\ ~WriteFile(t) /\ ~OpenFile(t) /\ ~BodyFaults(t) /\ ~BuildPath(t)
        <4>1. PICK w \in WherePlaces \ {"named", "opened", "literal", "fallback"} : where' = [where EXCEPT ![t] = w]
          BY <1>1, <3>6 DEF Raise, LeftFaults, Handler, Proceed, Enter, TakeGate, Bounce, Search, StartBody,
             EmitStage, EmitStageFaults, WriteLiteral, WriteFailedReport, OverflowBody, HandlerFaults, Return, Leave,
             Finish, Terminate, AfterGate, NextStep, Goto, WherePlaces, InsideAt
        <4>2. GoesFitly(t, w)
          BY <4>1 DEF GoesFitly
        <4> QED
          BY <4>2
      <3> QED
        BY <3>1, <3>2, <3>3, <3>4, <3>5, <3>6
    <2> QED
      BY <2>1, <2>2, <2>3, FitsElsewhere
  <1>2. CASE Second \/ UNCHANGED handlerVars
    BY <1>2 DEF Second, handlerVars, who, StepFits, Op
  <1> QED
    BY <1>1, <1>2 DEF Next

-----------------------------------------------------------------------------
(***************************************************************************)
(* What a report leaves behind.                                            *)
(***************************************************************************)

\* A report that was begun and left.
Left(t) == where[t] \in {"wrote", "leaving", "left", "search", "terminate", "died"} /\ report[t] # 0

\* The report is on the disk, or the file of a nested fault stands for it.
Kept(r) == r \in completed \/ \E q \in Seconds : failed[q].owner >= r

\* The text under the name of a thread is its own, or that of a later report.
HasText(t) ==
  \/ crash[name[t]].owner = report[t] /\ crash[name[t]].parts # << >>
  \/ crash[name[t]].owner > report[t]

\* What a report leaves behind, in terms of the failures so far.
LeftWell(t) ==
  /\ ioErrors = 0 /\ lostGate # report[t] => Kept(report[t])
  /\ ioErrors <= 1 /\ faults = 0 => HasText(t)

\* Every report that was left was left well.
Outcome == \A t \in Threads : Left(t) => LeftWell(t)

\* A replaced file is of the replacing report.
LEMMA PutsOwner ==
  ASSUME NEW t \in Threads, NEW r, NEW old \in [Seconds -> Files], NEW new, Puts(t, r, old, new), NEW s \in Seconds
  PROVE  new[s] = old[s] \/ new[s].owner = report[t]
  <1>1. PICK q \in Seconds, p \in Seq(Entries) : new = [old EXCEPT ![q] = [owner |-> report[t], parts |-> p]]
    BY DEF Puts
  <1> QED
    BY <1>1

\* A report that was kept stays kept: a later FAILED file has a later number.
LEMMA KeptStays ==
  ASSUME ControlOK, FilesOK, Numbered, NEW t \in Threads, UNCHANGED files \/ Stores(t), completed \subseteq completed',
         NEW r \in 0 .. reports, Kept(r)
  PROVE  Kept(r)'
  <1>1. CASE r \in completed \/ UNCHANGED failed
    BY <1>1 DEF Kept
  <1>2. CASE PutsFailed(t) /\ Inside(t)
    <2>1. report[t] = reports /\ reports \in Nat
      BY <1>2 DEF Numbered, ControlOK
    <2> PICK k \in 0 .. report[t] : Puts(t, k, failed, failed')
      BY <1>2 DEF PutsFailed
    <2>2. ASSUME NEW q \in Seconds, failed[q].owner >= r
          PROVE  failed'[q].owner >= r
      BY <1>2, <2>1, <2>2, PutsOwner DEF FilesOK
    <2> QED
      BY <1>2, <2>2 DEF Kept
  <1> QED
    BY <1>1, <1>2 DEF Stores, files

\* The text of a report is only overtaken by a later one.
LEMMA TextStays ==
  ASSUME ControlOK, FilesOK, Numbered, NEW t \in Threads, UNCHANGED files \/ Stores(t),
         NEW u \in Threads, u # t \/ UNCHANGED crash, report[u] # 0, report'[u] = report[u], name'[u] = name[u], HasText(u)
  PROVE  HasText(u)'
  <1>1. CASE UNCHANGED crash
    BY <1>1 DEF HasText
  <1>2. CASE u # t /\ Puts(t, report[t], crash, crash') /\ Inside(t)
    <2>1. report[t] = reports /\ reports \in Nat /\ report[u] \in 0 .. reports /\ report[u] # report[t]
      BY <1>2 DEF Numbered, ControlOK
    <2>2. name[u] \in Seconds
      BY DEF ControlOK
    <2>3. crash'[name[u]] = crash[name[u]] \/ crash'[name[u]].owner = report[t]
      BY <1>2, <2>2, PutsOwner DEF FilesOK
    <2> QED
      BY <2>1, <2>3 DEF HasText
  <1> QED
    BY <1>1, <1>2 DEF Stores, files

\* Once a report has been left well, other threads do not undo it.
LEMMA LeftStaysWell ==
  ASSUME ControlOK, FilesOK, Numbered, NEW t \in Threads, UNCHANGED files \/ Stores(t), completed \subseteq completed',
         ioErrors' = ioErrors \/ ioErrors' = ioErrors + 1, faults' = faults \/ faults' = faults + 1, lostGate' = lostGate \/ lostGate = 0,
         NEW u \in Threads, u # t \/ UNCHANGED crash, Left(u), report'[u] = report[u], name'[u] = name[u], LeftWell(u)
  PROVE  LeftWell(u)'
  <1>1. ioErrors \in Nat /\ faults \in Nat /\ report[u] \in 0 .. reports
    BY DEF ControlOK
  <1>2. ASSUME ioErrors' = 0, lostGate' # report[u]
        PROVE  Kept(report[u])'
    <2>1. Kept(report[u])
      BY <1>1, <1>2 DEF Left, LeftWell
    <2> QED
      BY <1>1, <2>1, KeptStays
  <1>3. ASSUME ioErrors' <= 1, faults' = 0
        PROVE  HasText(u)'
    <2>1. HasText(u)
      BY <1>1, <1>3 DEF LeftWell
    <2> QED
      BY <2>1, TextStays DEF Left
  <1> QED
    BY <1>2, <1>3 DEF LeftWell

\* What stays of the other threads.
LEMMA OthersStay ==
  ASSUME GateInv, ControlOK, NEW t \in Threads, Proceed(t), NEW u \in Threads, u # t
  PROVE  where'[u] = where[u] /\ name'[u] = name[u] /\ report'[u] = report[u] /\ step'[u] = step[u] /\ exc'[u] = exc[u]
  <1>1. where'[u] = where[u] /\ report'[u] = report[u] /\ exc'[u] = exc[u]
    BY ProceedMoves DEF MovesTo, GateInv, GateType
  <1>2. name'[u] = name[u]
    BY DEF Proceed, Bounce, Search, BuildPath, StartBody, EmitStage, EmitStageFaults, OpenFile, OpenFails,
       WriteFile, WriteFileFails, WriteLiteral, BodyFaults, WriteFailedReport, OverflowBody,
       HandlerFaults, Return, Leave, Finish, Terminate, who, ControlOK
  <1>3. step'[u] = step[u]
    BY OthersKeep DEF Handler
  <1> QED
    BY <1>1, <1>2, <1>3

\* The final write leaves the whole report.
LEMMA FinalWriteLeavesWell ==
  ASSUME GateInv, ControlOK, FilesOK, BufferOwned, NEW t \in Threads, WriteFile(t), Op(t) = "final"
  PROVE  LeftWell(t)'
  <1>1. crash' = [crash EXCEPT ![name[t]] = [owner |-> report[t], parts |-> buffer]] /\ report' = report /\ name' = name
        /\ completed' = completed \cup {report[t]}
    BY DEF WriteFile, PutFile, Contents, who
  <1>2. step[t] = 11 /\ name[t] \in Seconds /\ report[t] \in Nat
    BY Stagewise DEF ControlOK, Op
  <1>3. StagesBefore[11] = 5
    BY DEF StagesBefore
  <1>4. buffer # << >>
    <2>1. Owned(t) /\ buffer \in Seq(Entries)
      BY DEF WriteFile, BufferOwned, Writing
    <2>2. CASE exc[t].kind = "fault"
      <3>1. Len(buffer) = 5
        BY <1>2, <1>3, <2>1, <2>2 DEF Owned
      <3> QED
        BY <3>1
    <2>3. CASE buffer = << [report |-> report[t], stage |-> "reduced", faulted |-> FALSE] >>
      <3>1. Len(buffer) = 1
        BY <1>2, <2>3, SingleFits
      <3> QED
        BY <3>1
    <2> QED
      BY <2>1, <2>2, <2>3 DEF Owned
  <1>5. HasText(t)'
    BY <1>1, <1>2, <1>4 DEF HasText, FilesOK
  <1>6. Kept(report[t])'
    BY <1>1 DEF Kept
  <1> QED
    BY <1>5, <1>6 DEF LeftWell

\* Every way out of the handler leaves the report well.
LEMMA OutcomeProceeds ==
  ASSUME GateInv, ControlOK, FilesOK, Numbered, LostInv, BufferOwned, StepFits, Outcome, NEW t \in Threads, Proceed(t)
  PROVE  Outcome'
  <1>1. UNCHANGED files \/ Stores(t)
    BY ProceedStores
  <1>2. completed \subseteq completed' /\ (lostGate' = lostGate \/ lostGate = 0)
    BY HistoryGrows, GateLostOnce DEF Grows
  <1>3. (ioErrors' = ioErrors \/ ioErrors' = ioErrors + 1) /\ (faults' = faults \/ faults' = faults + 1)
    BY ErrorsCount DEF Handler
  <1>4. ioErrors \in Nat /\ faults \in Nat
    BY DEF ControlOK
  <1>5. ASSUME NEW u \in Threads, Left(u)', u # t
        PROVE  LeftWell(u)'
    <2>1. Left(u) /\ name'[u] = name[u] /\ report'[u] = report[u]
      BY <1>5, OthersStay DEF Left
    <2> QED
      BY <1>1, <1>2, <1>3, <1>5, <2>1, LeftStaysWell DEF Outcome
  <1>6. ASSUME Left(t)'
        PROVE  LeftWell(t)'
    <2>1. report' = report /\ report[t] # 0
      BY <1>6, ProceedMoves DEF Left, MovesTo
    <2>2. CASE Return(t) \/ Leave(t) \/ Finish(t) \/ Search(t) \/ Terminate(t)
      <3>1. Left(t) /\ name' = name /\ crash' = crash
        BY <2>1, <2>2 DEF Return, Leave, Finish, Search, Terminate, Left, who, files
      <3> QED
        BY <1>1, <1>2, <1>3, <2>1, <3>1, LeftStaysWell DEF Outcome
    <2>3. CASE Bounce(t)
      BY <2>1, <2>3 DEF Bounce, Numbered
    <2>4. CASE WriteFile(t)
      <3>1. CASE Op(t) = "final"
        BY <2>4, <3>1, FinalWriteLeavesWell
      <3>2. CASE Op(t) # "final"
        BY <1>6, <2>4, <3>2 DEF WriteFile, AfterWrite, NextStep, Goto, Left, GateInv, GateType
      <3> QED
        BY <3>1, <3>2
    <2>5. CASE WriteLiteral(t)
      <3>1. ioErrors >= 1
        BY <2>5 DEF WriteLiteral, StepFits
      <3>2. CASE ioErrors' = ioErrors + 1
        BY <1>4, <3>1, <3>2 DEF LeftWell
      <3>3. CASE ioErrors' = ioErrors
        <4>1. PutFile(t, "final", << [report |-> report[t], stage |-> Literal, faulted |-> FALSE] >>) /\ name' = name
          BY <1>4, <2>5, <3>3 DEF WriteLiteral, who
        <4> DEFINE p == << [report |-> report[t], stage |-> Literal, faulted |-> FALSE] >>
        <4>2. crash' = [crash EXCEPT ![name[t]] = [owner |-> report[t], parts |-> p]]
          BY <4>1 DEF PutFile
        <4>3. p # << >> /\ name[t] \in Seconds
          BY DEF ControlOK
        <4> HIDE DEF p
        <4>4. HasText(t)'
          BY <2>1, <4>1, <4>2, <4>3 DEF HasText, FilesOK
        <4> QED
          BY <1>4, <3>1, <3>3, <4>4 DEF LeftWell
      <3> QED
        BY <1>3, <3>2, <3>3
    <2>6. CASE WriteFailedReport(t)
      <3>1. faults' >= 1
        BY <2>6 DEF WriteFailedReport, StepFits
      <3>2. CASE ioErrors' = ioErrors + 1
        BY <1>4, <3>1, <3>2 DEF LeftWell
      <3>3. CASE ioErrors' = ioErrors
        <4>1. PICK n \in 0 .. Len(buffer) :
                failed' = [failed EXCEPT ![clock] = [owner |-> report[t], parts |-> SubSeq(buffer, 1, n)]]
          BY <1>4, <2>6, <3>3 DEF WriteFailedReport
        <4>2. clock \in Seconds /\ report[t] \in Nat
          BY DEF ControlOK
        <4>3. failed'[clock].owner = report[t]
          BY <4>1, <4>2 DEF FilesOK
        <4>4. Kept(report[t])'
          BY <2>1, <4>2, <4>3 DEF Kept
        <4> QED
          BY <3>1, <4>4 DEF LeftWell
      <3> QED
        BY <1>3, <3>2, <3>3
    <2>7. CASE HandlerFaults(t)
      BY <1>4, <2>1, <2>7 DEF HandlerFaults, LeftWell
    <2>8. CASE BuildPath(t) \/ StartBody(t) \/ EmitStage(t) \/ EmitStageFaults(t) \/ OpenFile(t) \/ OverflowBody(t) \/ BodyFaults(t)
      <3>1. where'[t] \in {"named", "body", "opened", "fallback"}
        BY <2>8 DEF BuildPath, StartBody, EmitStage, EmitStageFaults, OpenFile, OverflowBody, BodyFaults,
           NextStep, Goto, GateInv, GateType
      <3> QED
        BY <1>6, <3>1 DEF Left
    <2>9. CASE OpenFails(t) \/ WriteFileFails(t)
      <3>1. where'[t] \in {"body", "literal"}
        BY <2>9 DEF OpenFails, WriteFileFails, AfterFailedWrite, NextStep, Goto, GateInv, GateType
      <3> QED
        BY <1>6, <3>1 DEF Left
    <2> QED
      BY <2>2, <2>3, <2>4, <2>5, <2>6, <2>7, <2>8, <2>9 DEF Proceed
  <1> QED
    BY <1>5, <1>6 DEF Outcome

\* And no other step disturbs that.
LEMMA OutcomeStep ==
  ASSUME GateInv, ControlOK, FilesOK, Numbered, LostInv, BufferOwned, StepFits, Outcome, [Next]_handlerVars
  PROVE  Outcome'
  <1>1. ASSUME NEW t \in Threads, Proceed(t)
        PROVE  Outcome'
    BY <1>1, OutcomeProceeds
  <1>2. ASSUME NEW t \in Threads, Raise(t) \/ LeftFaults(t) \/ Enter(t)
        PROVE  Outcome'
    <2>1. /\ UNCHANGED <<files, completed, lostGate, ioErrors, name>>
          /\ faults' = faults \/ faults' = faults + 1
          /\ where' = [where EXCEPT ![t] = "raised"] \/ where' = [where EXCEPT ![t] = "entered"]
          /\ \A u \in Threads : u # t => report'[u] = report[u]
      BY <1>2 DEF Raise, LeftFaults, Enter, TakeGate, gate, history, Goto, ControlOK
    <2>2. ASSUME NEW u \in Threads, Left(u)'
          PROVE  u # t /\ Left(u) /\ report'[u] = report[u]
      BY <2>1, <2>2 DEF Left, GateInv, GateType
    <2>3. faults' = 0 => faults = 0
      BY <2>1 DEF ControlOK
    <2> QED
      BY <2>1, <2>2, <2>3 DEF Outcome, LeftWell, HasText, Kept, files
  <1>3. CASE Second \/ UNCHANGED handlerVars
    BY <1>3 DEF Second, handlerVars, Outcome, Left, LeftWell, HasText, Kept, who, files, gate, history
  <1> QED
    BY <1>1, <1>2, <1>3 DEF Next, Handler

-----------------------------------------------------------------------------
(***************************************************************************)
(* The sidecar.                                                            *)
(***************************************************************************)

\* From the first checkpoint on the text of the report is on the disk, from the sidecar
\* on so is that.
Ahead(t) ==
  exc[t].kind = "fault" /\ where[t] \in {"body", "opened"} =>
    /\ step[t] >= 3 \/ where[t] = "opened" => crash[name[t]].owner = report[t]
    /\ step[t] >= 4 \/ (where[t] = "opened" /\ step[t] = 3) => json[name[t]].owner = report[t]

\* The sidecar of a second describes its text, or a reduced report took the text over.
Settled(s) ==
  json[s].owner # 0 =>
    \/ json[s].owner = crash[s].owner
    \/ \E i \in DOMAIN crash[s].parts : crash[s].parts[i].stage = "reduced"

\* The report that took the text of a second over has not come to its sidecar.
Pending(t, s) ==
  /\ name[t] = s
  /\ \/ exc[t].kind = "fault" /\ where[t] = "body" /\ step[t] <= 3
     \/ exc[t].kind = "fault" /\ where[t] = "opened" /\ step[t] = 2
     \/ exc[t].kind = "overflow" /\ where[t] = "opened"

\* No second has a sidecar that belongs to another text, unless the report at work is
\* about to replace it.
InPlace(s) == Settled(s) \/ \E t \in Threads : Pending(t, s)

\* How the two files of a second move together.
SidecarInv ==
  ioErrors = 0 =>
    /\ \A t \in Threads : Ahead(t)
    /\ \A s \in Seconds : json[s].owner <= crash[s].owner
    /\ faults = 0 => \A s \in Seconds : InPlace(s)

\* Between reports nothing is pending, so the sidecar matches the text.
LEMMA SidecarFollows ==
  ASSUME SidecarInv
  PROVE  SidecarFollowsReport
  <1>1. ASSUME NEW s \in Seconds, NEW t \in Threads, Pending(t, s)
        PROVE  Inside(t)
    BY <1>1 DEF Pending, Inside, InsideAt
  <1> QED
    BY <1>1 DEF SidecarInv, InPlace, Settled, SidecarFollowsReport

\* A step that touches neither file, and moves no report on, leaves them in place.
LEMMA SidecarIdle ==
  ASSUME SidecarInv, UNCHANGED <<crash, json>>, ioErrors' = 0 => ioErrors = 0, faults' = 0 => faults = 0,
         \A u \in Threads : where'[u] \in {"body", "opened"} =>
           where'[u] = where[u] /\ exc'[u] = exc[u] /\ step'[u] = step[u] /\ name'[u] = name[u] /\ report'[u] = report[u],
         ASSUME faults' = 0, NEW u \in Threads, NEW s \in Seconds, Pending(u, s)
         PROVE  Pending(u, s)'
  PROVE  SidecarInv'
  <1> SUFFICES ASSUME ioErrors' = 0
               PROVE  /\ \A t \in Threads : Ahead(t)'
                      /\ \A s \in Seconds : json'[s].owner <= crash'[s].owner
                      /\ faults' = 0 => \A s \in Seconds : InPlace(s)'
    BY DEF SidecarInv
  <1>1. \A t \in Threads : Ahead(t)'
    BY DEF SidecarInv, Ahead
  <1>2. \A s \in Seconds : json'[s].owner <= crash'[s].owner
    BY DEF SidecarInv
  <1>3. ASSUME faults' = 0, NEW s \in Seconds
        PROVE  InPlace(s)'
    <2>1. CASE Settled(s)
      BY <2>1 DEF InPlace, Settled
    <2>2. ASSUME NEW u \in Threads, Pending(u, s)
          PROVE  InPlace(s)'
      BY <1>3, <2>2 DEF InPlace
    <2>3. InPlace(s)
      BY <1>3 DEF SidecarInv
    <2> QED
      BY <2>1, <2>2, <2>3 DEF InPlace
  <1> QED
    BY <1>1, <1>2, <1>3

\* A step of the one reporter is settled at the second it writes to.
LEMMA SidecarLocal ==
  ASSUME GateInv, SidecarInv, NEW t \in Threads, Inside(t), NEW w, MovesTo(t, w), NEW n \in Seconds,
         ioErrors = 0, ioErrors' = 0, faults' = 0 => faults = 0,
         \A s \in Seconds : s # n => crash'[s] = crash[s] /\ json'[s] = json[s] /\ ~Pending(t, s),
         Ahead(t)', json'[n].owner <= crash'[n].owner, faults' = 0 => Settled(n)' \/ Pending(t, n)'
  PROVE  SidecarInv'
  <1>1. \A u \in Threads : u # t => where'[u] = where[u] /\ ~Inside(u)
    BY DEF MovesTo, GateInv, GateType, OneReporter
  <1>2. \A u \in Threads : Ahead(u)'
    BY <1>1 DEF Ahead, Inside, InsideAt
  <1>3. \A s \in Seconds : json'[s].owner <= crash'[s].owner
    BY DEF SidecarInv
  <1>4. ASSUME faults' = 0, NEW s \in Seconds
        PROVE  InPlace(s)'
    <2>1. CASE s = n
      BY <1>4, <2>1 DEF InPlace
    <2>2. CASE s # n
      <3>1. \A u \in Threads : ~Pending(u, s)
        BY <1>1, <2>2 DEF Pending, Inside, InsideAt
      <3>2. Settled(s)
        BY <1>4, <3>1 DEF SidecarInv, InPlace
      <3> QED
        BY <2>2, <3>2 DEF InPlace, Settled
    <2> QED
      BY <2>1, <2>2
  <1> QED
    BY <1>2, <1>3, <1>4 DEF SidecarInv

\* The steps of the body that leave the disk alone.
LEMMA SidecarBody ==
  ASSUME GateInv, ControlOK, FilesOK, BufferOwned, SidecarInv, NEW t \in Threads,
         StartBody(t) \/ OverflowBody(t) \/ EmitStage(t) \/ EmitStageFaults(t), ioErrors' = 0
  PROVE  SidecarInv'
  <1>1. /\ where[t] \in {"entered", "named", "body"} /\ UNCHANGED <<files, exc, report, reports, ioErrors>> /\ Goto(t, "body")
    BY DEF StartBody, OverflowBody, EmitStage, EmitStageFaults, NextStep, gate, who
  <1>2. MovesTo(t, "body") /\ Inside(t) /\ where'[t] = "body"
    BY <1>1 DEF MovesTo, Goto, WherePlaces, Inside, InsideAt, GateInv, GateType
  <1>3. faults' = 0 => faults = 0
    BY ErrorsCount DEF Handler, Proceed, ControlOK
  <1>4. \A s \in Seconds : json[s].owner <= crash[s].owner
    BY <1>1 DEF SidecarInv
  <1>7. ioErrors = 0
    BY <1>1 DEF files
  <1>5. CASE StartBody(t) \/ OverflowBody(t)
    <2>1. where[t] \in {"entered", "named"} /\ clock \in Seconds
      BY <1>5 DEF StartBody, OverflowBody, ControlOK
    <2> PICK n \in Seconds : n = clock
      BY <2>1
    <2>2. Ahead(t)'
      <3>1. CASE StartBody(t)
        BY <1>2, <3>1 DEF StartBody, Ahead, ControlOK
      <3>2. CASE OverflowBody(t)
        BY <3>2 DEF OverflowBody, Ahead
      <3> QED
        BY <1>5, <3>1, <3>2
    <2>3. \A s \in Seconds : ~Pending(t, s)
      BY <2>1 DEF Pending
    <2>4. \A u \in Threads : u # t => ~Inside(u)
      BY <1>2 DEF GateInv, OneReporter
    <2>5. \A u \in Threads, s \in Seconds : ~Pending(u, s)
      BY <2>3, <2>4 DEF Pending, Inside, InsideAt
    <2>6. faults' = 0 => Settled(n)
      BY <1>1, <1>3, <2>1, <2>5 DEF SidecarInv, InPlace
    <2>7. faults' = 0 => Settled(n)'
      <3>1. Settled(n)' = Settled(n)
        BY <1>1, <1>5 DEF Settled, files, StartBody, OverflowBody, env
      <3> QED
        BY <2>6, <3>1
    <2>8. json'[n].owner <= crash'[n].owner
      BY <1>1, <1>4, <2>1 DEF files
    <2>9. \A s \in Seconds : s # n => crash'[s] = crash[s] /\ json'[s] = json[s] /\ ~Pending(t, s)
      BY <1>1, <2>3 DEF files
    <2> QED
      BY <1>1, <1>2, <1>3, <1>7, <2>1, <2>2, <2>7, <2>8, <2>9, SidecarLocal
  <1>6. CASE EmitStage(t) \/ EmitStageFaults(t)
    <2>1. where[t] = "body" /\ Op(t) \in StageSet /\ NextStep(t) /\ name' = name
      BY <1>6 DEF EmitStage, EmitStageFaults, who
    <2>2. Op(t) = Plan[step[t]] /\ step[t] \in 1 .. 11 /\ step[t] # 2 /\ step[t] # 3 /\ step[t] # 11
      BY <2>1, Stagewise, PlanFacts, StageFacts DEF Op, ControlOK
    <2>3. step'[t] = step[t] + 1
      BY <2>1 DEF NextStep, ControlOK
    <2>4. exc[t].kind = "fault"
      BY <2>1, <2>2 DEF BufferOwned, Owned, Writing
    <2>5. Ahead(t)
      BY <1>1 DEF SidecarInv
    <2>6. Ahead(t)'
      BY <1>1, <1>2, <2>1, <2>2, <2>3, <2>4, <2>5 DEF Ahead, files
    <2>7. PICK n \in Seconds : n = name[t]
      BY DEF ControlOK
    <2>8. \A u \in Threads : u # t => ~Inside(u)
      BY <1>2 DEF GateInv, OneReporter
    <2>9. ASSUME faults' = 0
          PROVE  Settled(n)' \/ Pending(t, n)'
      <3>1. Settled(n) \/ Pending(t, n)
        BY <1>1, <1>3, <2>7, <2>8, <2>9 DEF SidecarInv, InPlace, Pending, Inside, InsideAt
      <3>2. CASE Settled(n)
        BY <1>1, <2>1, <3>2 DEF Settled, files
      <3>3. CASE Pending(t, n)
        BY <1>1, <1>2, <2>1, <2>2, <2>3, <2>4, <2>7, <3>3 DEF Pending
      <3> QED
        BY <3>1, <3>2, <3>3
    <2>10. json'[n].owner <= crash'[n].owner
      BY <1>1, <1>4, <2>7 DEF files
    <2>11. \A s \in Seconds : s # n => crash'[s] = crash[s] /\ json'[s] = json[s] /\ ~Pending(t, s)
      BY <1>1, <2>7 DEF files, Pending
    <2> QED
      BY <1>1, <1>2, <1>3, <1>7, <2>6, <2>7, <2>9, <2>10, <2>11, SidecarLocal
  <1> QED
    BY <1>5, <1>6

\* The steps of the body that write.
LEMMA SidecarWrites ==
  ASSUME GateInv, ControlOK, FilesOK, Numbered, BufferOwned, StepFits, SidecarInv, NEW t \in Threads,
         OpenFile(t) \/ WriteFile(t), ioErrors' = 0
  PROVE  SidecarInv'
  <1>1. /\ where[t] \in {"body", "opened"} /\ Op(t) \in Writes
        /\ exc' = exc /\ report' = report /\ name' = name /\ reports' = reports /\ ioErrors' = ioErrors /\ faults' = faults
    BY DEF OpenFile, WriteFile, StepFits, who, gate
  <1>2. PICK p : PutFile(t, Op(t), p) /\ (WriteFile(t) => p = Contents(t))
    BY DEF OpenFile, WriteFile
  <1>3. PICK n \in Seconds : n = name[t]
    BY DEF ControlOK
  <1>4. Op(t) = Plan[step[t]] /\ step[t] \in 1 .. 11 /\ report[t] = reports /\ reports \in Nat \ {0} /\ Inside(t)
    BY <1>1 DEF Op, ControlOK, Numbered, Inside, InsideAt
  <1>5. step[t] \in {2, 3, 5, 7, 9, 11} /\ (Op(t) = "final" <=> step[t] = 11) /\ (Op(t) = "sidecar" <=> step[t] = 3)
    BY <1>1, <1>4, Stagewise, PlanFacts, StageFacts DEF Writes
  <1>6. exc[t].kind = "fault" \/ (exc[t].kind = "overflow" /\ step[t] = 11)
    BY <1>1 DEF BufferOwned, Owned, Writing
  <1>7. /\ IF step[t] = 3
             THEN json'[n].owner = report[t] /\ crash'[n] = crash[n]
             ELSE crash'[n].owner = report[t] /\ crash'[n].parts = p /\ json'[n] = json[n]
        /\ \A s \in Seconds : s # n => crash'[s] = crash[s] /\ json'[s] = json[s]
    BY <1>2, <1>3, <1>5 DEF PutFile, FilesOK
  <1>8. Ahead(t) /\ json[n].owner <= reports
    BY <1>1 DEF SidecarInv, FilesOK
  <1>9. \/ OpenFile(t) /\ where'[t] = "opened" /\ step'[t] = step[t]
        \/ WriteFile(t) /\ where[t] = "opened" /\ step[t] # 11 /\ where'[t] = "body" /\ step'[t] = step[t] + 1
        \/ WriteFile(t) /\ where[t] = "opened" /\ step[t] = 11 /\ where'[t] = "wrote" /\ step'[t] = step[t]
    BY <1>5 DEF OpenFile, WriteFile, AfterWrite, NextStep, Goto, GateInv, GateType, ControlOK
  <1>10. exc[t].kind = "fault" => (step[t] >= 3 => crash[n].owner = report[t]) /\ (step[t] >= 4 => json[n].owner = report[t])
    BY <1>1, <1>3, <1>8 DEF Ahead
  <1>11. exc[t].kind = "fault" => crash'[n].owner = report[t] /\ (step[t] >= 3 => json'[n].owner = report[t])
    BY <1>5, <1>7, <1>10
  <1>12. Ahead(t)'
    BY <1>1, <1>3, <1>5, <1>9, <1>11 DEF Ahead
  <1>13. json'[n].owner <= crash'[n].owner
    <2>1. json[n].owner \in Nat
      BY DEF FilesOK, Files
    <2> QED
      BY <1>4, <1>5, <1>6, <1>7, <1>8, <1>11, <2>1
  <1>14. Settled(n)' \/ Pending(t, n)'
    <2>1. CASE exc[t].kind = "fault" /\ step[t] >= 3
      BY <1>11, <2>1 DEF Settled
    <2>2. CASE exc[t].kind = "fault" /\ step[t] = 2
      BY <1>1, <1>3, <1>9, <2>2 DEF Pending
    <2>3. CASE exc[t].kind = "overflow" /\ step[t] = 11
      <3>1. CASE OpenFile(t) /\ where'[t] = "opened"
        BY <1>1, <1>3, <2>3, <3>1 DEF Pending
      <3>2. CASE WriteFile(t) /\ where[t] = "opened"
        <4>1. buffer = << [report |-> report[t], stage |-> "reduced", faulted |-> FALSE] >>
          BY <2>3, <3>2 DEF BufferOwned, Owned, Writing
        <4>2. p = buffer
          BY <1>2, <1>5, <2>3, <3>2 DEF Contents
        <4> DEFINE e == [report |-> report[t], stage |-> "reduced", faulted |-> FALSE]
        <4>3. e.stage = "reduced"
          OBVIOUS
        <4>4. p = << e >>
          BY <4>1, <4>2
        <4> HIDE DEF e
        <4>5. 1 \in DOMAIN p /\ p[1].stage = "reduced"
          BY <4>3, <4>4
        <4> QED
          BY <1>7, <2>3, <4>5 DEF Settled
      <3> QED
        BY <1>9, <3>1, <3>2
    <2> QED
      BY <1>5, <1>6, <2>1, <2>2, <2>3
  <1>15. \E w : MovesTo(t, w)
    BY ProceedMoves DEF Proceed
  <1>16. \A s \in Seconds : s # n => crash'[s] = crash[s] /\ json'[s] = json[s] /\ ~Pending(t, s)
    BY <1>3, <1>7 DEF Pending
  <1> QED
    BY <1>1, <1>4, <1>12, <1>13, <1>14, <1>15, <1>16, SidecarLocal

\* Every step of the handler is one of the three.
LEMMA SidecarProceeds ==
  ASSUME GateInv, ControlOK, FilesOK, Numbered, BufferOwned, StepFits, SidecarInv, NEW t \in Threads, Proceed(t)
  PROVE  SidecarInv'
  <1> SUFFICES ASSUME ioErrors' = 0
               PROVE  SidecarInv'
    BY DEF SidecarInv
  <1>1. CASE StartBody(t) \/ OverflowBody(t) \/ EmitStage(t) \/ EmitStageFaults(t)
    BY <1>1, SidecarBody
  <1>2. CASE OpenFile(t) \/ WriteFile(t)
    BY <1>2, SidecarWrites
  <1>3. CASE OpenFails(t) \/ WriteFileFails(t)
    BY <1>3 DEF OpenFails, WriteFileFails, ControlOK
  <1>4. CASE WriteLiteral(t)
    BY <1>4 DEF WriteLiteral, StepFits, ControlOK
  <1>5. CASE Bounce(t) \/ Search(t) \/ BuildPath(t) \/ BodyFaults(t) \/ WriteFailedReport(t) \/ HandlerFaults(t)
             \/ Return(t) \/ Leave(t) \/ Finish(t) \/ Terminate(t)
    <2>1. /\ UNCHANGED <<crash, json, step, report>>
          /\ where'[t] \notin {"body", "opened"}
          /\ where[t] \in {"body", "opened"} => faults' >= 1
      BY <1>5 DEF Bounce, Search, BuildPath, BodyFaults, WriteFailedReport, HandlerFaults, Unguarded, Return, Leave,
         Finish, Terminate, AfterGate, files, who, Goto, GateInv, GateType, ControlOK
    <2>2. \A u \in Threads : u # t => where'[u] = where[u] /\ exc'[u] = exc[u] /\ name'[u] = name[u]
      BY OthersStay
    <2>3. (ioErrors' = 0 => ioErrors = 0) /\ (faults' = 0 => faults = 0)
      BY ErrorsCount DEF Handler, ControlOK
    <2>4. ASSUME faults' = 0, NEW u \in Threads, NEW s \in Seconds, Pending(u, s)
          PROVE  Pending(u, s)'
      <3>1. u # t
        BY <2>1, <2>4 DEF Pending
      <3> QED
        BY <2>1, <2>2, <2>4, <3>1 DEF Pending
    <2>5. \A u \in Threads : where'[u] \in {"body", "opened"} =>
             where'[u] = where[u] /\ exc'[u] = exc[u] /\ step'[u] = step[u] /\ name'[u] = name[u] /\ report'[u] = report[u]
      BY <2>1, <2>2
    <2> QED
      BY <2>1, <2>3, <2>4, <2>5, SidecarIdle
  <1> QED
    BY <1>1, <1>2, <1>3, <1>4, <1>5 DEF Proceed

\* And the other steps touch no file.
LEMMA SidecarStep ==
  ASSUME GateInv, ControlOK, FilesOK, Numbered, BufferOwned, StepFits, SidecarInv, [Next]_handlerVars
  PROVE  SidecarInv'
  <1>1. ASSUME NEW t \in Threads, Proceed(t)
        PROVE  SidecarInv'
    BY <1>1, SidecarProceeds
  <1>2. ASSUME NEW t \in Threads, Raise(t) \/ LeftFaults(t) \/ Enter(t)
        PROVE  SidecarInv'
    <2>4. faults' = 0 => faults = 0
      BY <1>2, ErrorsCount DEF Handler, ControlOK
    <2>1. /\ UNCHANGED <<crash, json, step, name, ioErrors>>
          /\ where[t] \notin {"body", "opened"} /\ where'[t] \notin {"body", "opened"}
          /\ \A u \in Threads : u # t => where'[u] = where[u] /\ exc'[u] = exc[u] /\ report'[u] = report[u]
      BY <1>2 DEF Raise, LeftFaults, Enter, TakeGate, files, Goto, GateInv, GateType, ControlOK
    <2>2. ASSUME faults' = 0, NEW u \in Threads, NEW s \in Seconds, Pending(u, s)
          PROVE  Pending(u, s)'
      <3>1. u # t
        BY <2>1, <2>2 DEF Pending
      <3> QED
        BY <2>1, <2>2, <3>1 DEF Pending
    <2>3. \A u \in Threads : where'[u] \in {"body", "opened"} =>
             where'[u] = where[u] /\ exc'[u] = exc[u] /\ step'[u] = step[u] /\ name'[u] = name[u] /\ report'[u] = report[u]
      BY <2>1
    <2> QED
      BY <2>1, <2>2, <2>3, <2>4, SidecarIdle
  <1>3. CASE Second \/ UNCHANGED handlerVars
    BY <1>3 DEF Second, handlerVars, SidecarInv, Ahead, InPlace, Settled, Pending, who, files
  <1> QED
    BY <1>1, <1>2, <1>3 DEF Next, Handler

-----------------------------------------------------------------------------
(***************************************************************************)
(* The invariant and the theorems.                                         *)
(***************************************************************************)

\* The inductive invariant of the reports.
ReportInv ==
  /\ GateInv /\ ControlOK /\ Numbered /\ LostInv /\ FilesOK
  /\ BufferOwned /\ Unbegun /\ StepFits /\ Outcome /\ SidecarInv

\* The invariant holds initially.
LEMMA InitReportInv == Init => ReportInv
  <1> SUFFICES ASSUME Init PROVE ReportInv
    OBVIOUS
  <1>1. GateInv /\ ControlOK
    BY InitGateInv, InitControl
  <1>2. \A t \in Threads : where[t] = "run" /\ report[t] = 0 /\ step[t] = 1
    BY DEF Init
  <1>3. Numbered /\ LostInv /\ Unbegun /\ StepFits /\ Outcome
    BY <1>2 DEF Init, Numbered, LostInv, Unbegun, StepFits, Outcome, Left, Inside, InsideAt
  <1>4. NoFile \in Files /\ NoFile.owner = 0 /\ NoFile.parts = << >> /\ FromOneReport(0, << >>)
    BY EmptyFits DEF NoFile, Files
  <1>5. /\ crash \in [Seconds -> Files] /\ json \in [Seconds -> Files] /\ failed \in [Seconds -> Files] /\ reports = 0
        /\ \A s \in Seconds : crash[s] = NoFile /\ json[s] = NoFile /\ failed[s] = NoFile
    BY <1>4 DEF Init
  <1>6. FilesOK
    BY <1>4, <1>5 DEF FilesOK, ReportsNotMixed
  <1>7. BufferOwned
    BY <1>2, <1>4, <1>5 DEF Init, BufferOwned, Writing
  <1>8. SidecarInv
    BY <1>2, <1>4, <1>5 DEF SidecarInv, Ahead, InPlace, Settled
  <1> QED
    BY <1>1, <1>3, <1>6, <1>7, <1>8 DEF ReportInv

\* Every step keeps it.
LEMMA NextReportInv == ReportInv /\ [Next]_handlerVars => ReportInv'
  <1> SUFFICES ASSUME ReportInv, [Next]_handlerVars PROVE ReportInv'
    OBVIOUS
  <1>1. GateInv' /\ ControlOK' /\ Numbered' /\ LostInv'
    BY NextGateInv, ControlStep, NumberedStep, LostStep DEF ReportInv
  <1>2. FilesOK' /\ BufferOwned' /\ Unbegun' /\ StepFits'
    BY FilesStep, OwnedStep, UnbegunStep, FitsStep DEF ReportInv
  <1>3. Outcome' /\ SidecarInv'
    BY OutcomeStep, SidecarStep DEF ReportInv
  <1> QED
    BY <1>1, <1>2, <1>3 DEF ReportInv

\* The inductive invariant holds throughout.
THEOREM ReportInvariant == Spec => []ReportInv
  BY InitReportInv, NextReportInv, PTL DEF Spec

\* Whoever faults, dies or fails to write in between, no file on the disk mixes two
\* reports or leaves out a stage from the middle (PreallocatedBuffer.cpp, Sections.cpp:1180-1277);
\* a fault before the reset of the buffer (SehHandler.cpp:69, Sections.cpp:1067) puts the stages
\* of one earlier report into the FAILED file, and no other fault does.
THEOREM NoMixedReports == Spec => []ReportsNotMixed
  <1>1. ReportInv => ReportsNotMixed
    BY DEF ReportInv, FilesOK
  <1> QED
    BY <1>1, ReportInvariant, PTL

\* A thread that dies of an exception the handler let in has left its report, a later one
\* under the same name, or the file of a nested fault, when no file operation failed and its
\* handler did not fault where no __except is around it (SehHandler.cpp, NestedFallback.cpp).
THEOREM DeathIsReported == Spec => []ReportBeforeDeath
  <1>1. ReportInv => ReportBeforeDeath
    BY DEF ReportInv, Outcome, Left, LeftWell, Kept, ReportBeforeDeath, Covered
  <1> QED
    BY <1>1, ReportInvariant, PTL

\* One failed file operation never costs the user the whole report (Sections.cpp, the last
\* resort of WriteMinimalReport).
THEOREM OneFailureLeavesText == Spec => []SingleFailureLeavesText
  <1>1. ReportInv => SingleFailureLeavesText
    BY DEF ReportInv, Outcome, Left, LeftWell, HasText, SingleFailureLeavesText
  <1> QED
    BY <1>1, ReportInvariant, PTL

\* A sidecar never describes a report whose text is not on the disk, and between reports it
\* describes the text of its own name or one that a reduced report took over (Sections.cpp).
THEOREM SidecarMatchesText == Spec => []SidecarFollowsReport
  <1>1. ReportInv => SidecarFollowsReport
    BY SidecarFollows DEF ReportInv
  <1> QED
    BY <1>1, ReportInvariant, PTL

\* The Boolean variables.
Flags ==
  /\ terminateAfterReport \in BOOLEAN /\ crashInProgress \in BOOLEAN
  /\ alive \in BOOLEAN

\* The Boolean variables stay Boolean.
LEMMA FlagsStep ==
  ASSUME ControlOK, Flags, [Next]_handlerVars
  PROVE  Flags'
  <1>1. ASSUME NEW t \in Threads, Raise(t) \/ LeftFaults(t) \/ Handler(t)
        PROVE  /\ UNCHANGED terminateAfterReport
               /\ UNCHANGED crashInProgress \/ crashInProgress' = TRUE
               /\ UNCHANGED alive \/ alive' = FALSE \/ alive' = exc[t].handled
    <2>1. CASE Raise(t) \/ LeftFaults(t) \/ Enter(t) \/ Bounce(t) \/ BuildPath(t) \/ StartBody(t)
      BY <2>1, Zenon DEF Raise, LeftFaults, Enter, TakeGate, Bounce, BuildPath, StartBody, gate, env
    <2>2. CASE EmitStage(t) \/ EmitStageFaults(t) \/ OpenFile(t) \/ OpenFails(t) \/ WriteFile(t) \/ WriteFileFails(t)
      BY <2>2, Zenon DEF EmitStage, EmitStageFaults, OpenFile, OpenFails, WriteFile,
         WriteFileFails, gate, env
    <2>3. CASE WriteLiteral(t) \/ BodyFaults(t) \/ WriteFailedReport(t) \/ OverflowBody(t)
      BY <2>3, Zenon DEF WriteLiteral, BodyFaults, WriteFailedReport, OverflowBody, gate, env
    <2>4. CASE Search(t) \/ HandlerFaults(t) \/ Leave(t) \/ Return(t) \/ Finish(t) \/ Terminate(t)
      BY <2>4, Zenon DEF Search, HandlerFaults, Leave, Return, Finish, Terminate, gate, env
    <2> QED
      BY <1>1, <2>1, <2>2, <2>3, <2>4 DEF Handler, Proceed
  <1>2. \A t \in Threads : exc[t].handled \in BOOLEAN
    BY DEF ControlOK
  <1>3. ASSUME NEW t \in Threads, Raise(t) \/ LeftFaults(t) \/ Handler(t)
        PROVE  Flags'
    BY <1>1, <1>2, <1>3, Zenon DEF Flags
  <1>4. CASE Second \/ UNCHANGED handlerVars
    BY <1>4, Zenon DEF Second, handlerVars, Flags, gate, env
  <1> QED
    BY <1>3, <1>4 DEF Next

\* The invariant and the flags make up the type invariant.
LEMMA TypesAgree == ReportInv /\ Flags => TypeOK
  BY PlanFacts DEF ReportInv, Flags, GateInv, GateType, ControlOK, FilesOK, Numbered, LostInv,
     BufferOwned, TypeOK, WherePlaces

\* Every variable keeps its type.
THEOREM TypeCorrect == Spec => []TypeOK
  <1>1. Init => Flags
    BY Zenon DEF Init, Flags
  <1>2. ReportInv /\ Flags /\ [Next]_handlerVars => Flags'
    BY FlagsStep DEF ReportInv
  <1> QED
    BY <1>1, <1>2, ReportInvariant, TypesAgree, PTL DEF Spec
=============================================================================
