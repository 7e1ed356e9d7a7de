----------------------------- MODULE ScriptStack -----------------------------
(***************************************************************************)
(* The RedScript call stack that REDscope keeps for each thread            *)
(* (hooks/ScriptStack.cpp) and the detour of ExecuteScripted that feeds it *)
(* (hooks/DispatchHook.cpp).  The detour pushes a frame, calls the         *)
(* original and pops; nothing pops when an exception that the game handles *)
(* unwinds through the detour.  A crash report can be written on the       *)
(* thread between any two of these steps.                                  *)
(***************************************************************************)
EXTENDS Integers, Sequences

CONSTANTS
  Threads,
  Functions,   \* scripted functions
  NoFunction,  \* what an unused entry of frames holds
  kMaxDepth,   \* frames kept per thread
  MaxCalls,    \* bound: nesting of scripted calls
  MaxUnwinds   \* bound: exceptions handled below a detour, per thread

ASSUME DepthAssumption == kMaxDepth \in Nat \ {0}
ASSUME CallBounds == MaxCalls \in Nat /\ MaxUnwinds \in Nat

VARIABLES
  calls,    \* the detours on each thread's machine stack, outermost first
  frames, depth, overflow, maxDepthSeen,   \* ThreadStack
  leaked,   \* history: frames whose detour was unwound
  unwinds

stackVars == <<calls, frames, depth, overflow, maxDepthSeen, leaked, unwinds>>

Slots == 1 .. kMaxDepth

Last(s) == s[Len(s)]
Phase(t) == Last(calls[t]).phase
AtPhase(t, p) == calls[t] # << >> /\ Phase(t) = p

Init ==
  /\ calls = [t \in Threads |-> << >>]
  /\ frames = [t \in Threads |-> [i \in Slots |-> NoFunction]]
  /\ depth = [t \in Threads |-> 0]
  /\ overflow = [t \in Threads |-> 0]
  /\ maxDepthSeen = [t \in Threads |-> 0]
  /\ leaked = [t \in Threads |-> 0]
  /\ unwinds = [t \in Threads |-> 0]

-----------------------------------------------------------------------------
\* The detour is entered: it builds its frame, with reads of the engine's objects
\* that may fault and are guarded.
Call(t, f) ==
  /\ calls[t] = << >> \/ AtPhase(t, "running")
  /\ Len(calls[t]) < MaxCalls
  /\ calls' = [calls EXCEPT ![t] = Append(@, [fn |-> f, phase |-> "entering"])]
  /\ UNCHANGED <<frames, depth, overflow, maxDepthSeen, leaked, unwinds>>

SetPhase(t, p) == calls' = [calls EXCEPT ![t][Len(calls[t])].phase = p]

\* Mutant: the frame beyond the cap is not counted.
PushUncounted(t) ==
  /\ AtPhase(t, "entering")
  /\ SetPhase(t, "running")
  /\ IF depth[t] < kMaxDepth
       THEN /\ frames' = [frames EXCEPT ![t][depth[t] + 1] = Last(calls[t]).fn]
            /\ depth' = [depth EXCEPT ![t] = @ + 1]
            /\ maxDepthSeen' = [maxDepthSeen EXCEPT ![t] = IF depth[t] + 1 > @ THEN depth[t] + 1 ELSE @]
       ELSE UNCHANGED <<frames, depth, maxDepthSeen>>
  /\ UNCHANGED <<overflow, leaked, unwinds>>

Push(t) ==
  /\ AtPhase(t, "entering")
  /\ SetPhase(t, "running")
  /\ IF depth[t] < kMaxDepth
       THEN /\ frames' = [frames EXCEPT ![t][depth[t] + 1] = Last(calls[t]).fn]
            /\ depth' = [depth EXCEPT ![t] = @ + 1]
            /\ maxDepthSeen' = [maxDepthSeen EXCEPT ![t] = IF depth[t] + 1 > @ THEN depth[t] + 1 ELSE @]
            /\ UNCHANGED overflow
       ELSE /\ overflow' = [overflow EXCEPT ![t] = @ + 1]
            /\ UNCHANGED <<frames, depth, maxDepthSeen>>
  /\ UNCHANGED <<leaked, unwinds>>

\* Original_ExecuteScripted returns.
Return(t) ==
  /\ AtPhase(t, "running")
  /\ SetPhase(t, "returned")
  /\ UNCHANGED <<frames, depth, overflow, maxDepthSeen, leaked, unwinds>>

Leave(t) ==
  /\ AtPhase(t, "returned")
  /\ calls' = [calls EXCEPT ![t] = SubSeq(@, 1, Len(@) - 1)]

\* Mutant: the kept frames go before the dropped ones.
PopDepthFirst(t) ==
  /\ Leave(t)
  /\ IF depth[t] > 0
       THEN depth' = [depth EXCEPT ![t] = @ - 1] /\ UNCHANGED overflow
       ELSE /\ overflow' = [overflow EXCEPT ![t] = IF @ > 0 THEN @ - 1 ELSE @]
            /\ UNCHANGED depth
  /\ UNCHANGED <<frames, maxDepthSeen, leaked, unwinds>>

Pop(t) ==
  /\ Leave(t)
  /\ IF overflow[t] > 0
       THEN overflow' = [overflow EXCEPT ![t] = @ - 1] /\ UNCHANGED depth
       ELSE /\ depth' = [depth EXCEPT ![t] = IF @ > 0 THEN @ - 1 ELSE @]
            /\ UNCHANGED overflow
  /\ UNCHANGED <<frames, maxDepthSeen, leaked, unwinds>>

\* An exception is raised under the detours above position k and handled under
\* detour k, or under none: those detours are gone and Pop was not called.
Unwind(t, k) ==
  /\ AtPhase(t, "running")
  /\ unwinds[t] < MaxUnwinds
  /\ k < Len(calls[t])
  /\ calls' = [calls EXCEPT ![t] = SubSeq(@, 1, k)]
  /\ leaked' = [leaked EXCEPT ![t] = @ + Len(calls[t]) - k]
  /\ unwinds' = [unwinds EXCEPT ![t] = @ + 1]
  /\ UNCHANGED <<frames, depth, overflow, maxDepthSeen>>

Next ==
  \E t \in Threads :
    \/ \E f \in Functions : Call(t, f)
    \/ Push(t) \/ Return(t) \/ Pop(t)
    \/ \E k \in 0 .. MaxCalls : Unwind(t, k)

Spec == Init /\ [][Next]_stackVars

-----------------------------------------------------------------------------
(***************************************************************************)
(* Properties.                                                             *)
(***************************************************************************)

TypeOK ==
  /\ calls \in [Threads -> Seq([fn : Functions, phase : {"entering", "running", "returned"}])]
  /\ frames \in [Threads -> [Slots -> Functions \cup {NoFunction}]]
  /\ depth \in [Threads -> 0 .. kMaxDepth]
  /\ overflow \in [Threads -> Nat] /\ maxDepthSeen \in [Threads -> 0 .. kMaxDepth]
  /\ leaked \in [Threads -> Nat] /\ unwinds \in [Threads -> Nat]

\* The detours of a thread whose frame is on the stack.
Pushed(t) == IF AtPhase(t, "entering") THEN Len(calls[t]) - 1 ELSE Len(calls[t])

\* The counters never lose a call, also beyond the cap: what they hold is the number
\* of calls in flight and of the frames that were never popped.
CountersExact == \A t \in Threads : depth[t] + overflow[t] = Pushed(t) + leaked[t]

\* The cap drops the innermost frames only, and nothing is dropped below the cap.
DropsInnermost == \A t \in Threads : overflow[t] > 0 => depth[t] = kMaxDepth

\* On a thread where nothing was unwound, the frames a report lists are the outermost
\* calls in flight, in order, however deep the thread has been before.
StackMatchesCalls ==
  \A t \in Threads : leaked[t] = 0 => \A i \in 1 .. depth[t] : frames[t][i] = calls[t][i].fn

\* docs/index.html:657, "Class: native means it was not" (that RedScript was in flight):
\* an empty stack is never shown for a thread with a call in flight, whatever was
\* unwound before.
NativeMeansNoScript == \A t \in Threads : depth[t] = 0 => Pushed(t) = 0

\* docs/index.html:681, "The RedScript call stack shows script frames that were truly in
\* flight": no more frames are listed than there are detours on the thread.
ListedFramesInFlight == \A t \in Threads : depth[t] <= Len(calls[t])
=============================================================================
