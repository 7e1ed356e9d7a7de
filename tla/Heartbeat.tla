------------------------------ MODULE Heartbeat ------------------------------
(***************************************************************************)
(* The heartbeat table of hooks/ScriptStack.cpp: a fixed number of slots,  *)
(* one for each thread that has run scripted code, claimed by compare and  *)
(* swap the first time the thread enters a scripted function and never     *)
(* given back.  A thread of the model is one life of an operating-system   *)
(* thread; identifiers are used again once their thread has ended.         *)
(***************************************************************************)
EXTENDS Integers, FiniteSets

CONSTANTS
  Threads,
  Tids,       \* thread identifiers of the operating system
  SlotCount,  \* kMaxHeartbeatThreads
  MaxTime     \* bound: the clock

ASSUME SlotAssumption == SlotCount \in Nat \ {0}
ASSUME TimeAssumption == MaxTime \in Nat \ {0}
ASSUME TidAssumption == 0 \notin Tids

VARIABLES
  slots,       \* g_heartbeats: owner's identifier (0: free) and lastEnteredNs
  slotIndex,   \* t_slotIndex, 0 for -1
  tid,         \* identifier of each thread, 0 before it starts and after it ends
  pc,          \* where the thread stands in the detour
  claim,       \* position in the claim loop
  entered,     \* frame.enteredNs of the call being entered
  lastActive,  \* history: the last scripted call the thread got to run
  started,     \* history: the threads that have started
  now          \* NowNs

heartbeatVars == <<slots, slotIndex, tid, pc, claim, entered, lastActive, started, now>>

Slots == 1 .. SlotCount
Free == 0
Live(t) == tid[t] # 0

Init ==
  /\ slots = [i \in Slots |-> [tid |-> Free, lastEnteredNs |-> 0]]
  /\ slotIndex = [t \in Threads |-> 0]
  /\ tid = [t \in Threads |-> 0]
  /\ pc = [t \in Threads |-> "idle"]
  /\ claim = [t \in Threads |-> 1]
  /\ entered = [t \in Threads |-> 0]
  /\ lastActive = [t \in Threads |-> 0]
  /\ started = {}
  /\ now = 1

-----------------------------------------------------------------------------
StartThread(t) ==
  /\ t \notin started
  /\ started' = started \cup {t}
  /\ \E id \in Tids \ {tid[u] : u \in Threads} : tid' = [tid EXCEPT ![t] = id]
  /\ UNCHANGED <<slots, slotIndex, pc, claim, entered, lastActive, now>>

\* The slot of the thread is not released.
EndThread(t) ==
  /\ Live(t) /\ pc[t] = "idle"
  /\ tid' = [tid EXCEPT ![t] = 0]
  /\ UNCHANGED <<slots, slotIndex, pc, claim, entered, lastActive, started, now>>

\* The detour takes the time; UpdateHeartbeat looks for the thread's slot.
EnterCall(t) ==
  /\ Live(t) /\ pc[t] = "idle"
  /\ entered' = [entered EXCEPT ![t] = now]
  /\ pc' = [pc EXCEPT ![t] = IF slotIndex[t] = 0 THEN "claim" ELSE "beat"]
  /\ claim' = [claim EXCEPT ![t] = 1]
  /\ UNCHANGED <<slots, slotIndex, tid, lastActive, started, now>>

\* Mutant: the slot is taken without looking whether it is free.
ClaimSlotUnchecked(t) ==
  /\ pc[t] = "claim" /\ claim[t] \in Slots
  /\ slots' = [slots EXCEPT ![claim[t]].tid = tid[t]]
  /\ slotIndex' = [slotIndex EXCEPT ![t] = claim[t]]
  /\ pc' = [pc EXCEPT ![t] = "beat"]
  /\ UNCHANGED <<tid, claim, entered, lastActive, started, now>>

\* compare_exchange_strong on the slot's threadId succeeds ...
ClaimSlot(t) ==
  /\ pc[t] = "claim" /\ claim[t] \in Slots
  /\ slots[claim[t]].tid = Free
  /\ slots' = [slots EXCEPT ![claim[t]].tid = tid[t]]
  /\ slotIndex' = [slotIndex EXCEPT ![t] = claim[t]]
  /\ pc' = [pc EXCEPT ![t] = "beat"]
  /\ UNCHANGED <<tid, claim, entered, lastActive, started, now>>

\* ... or fails, and the loop goes on to the next slot.
SkipSlot(t) ==
  /\ pc[t] = "claim" /\ claim[t] \in Slots
  /\ slots[claim[t]].tid # Free
  /\ claim' = [claim EXCEPT ![t] = @ + 1]
  /\ UNCHANGED <<slots, slotIndex, tid, pc, entered, lastActive, started, now>>

Runs(t) ==
  /\ lastActive' = [lastActive EXCEPT ![t] = entered[t]]
  /\ pc' = [pc EXCEPT ![t] = "idle"]

\* No slot was free: the call runs without a heartbeat.
NoSlotLeft(t) ==
  /\ pc[t] = "claim" /\ claim[t] \notin Slots
  /\ Runs(t)
  /\ UNCHANGED <<slots, slotIndex, tid, claim, entered, started, now>>

\* The thread writes its own slot, without synchronisation, and the call runs.
Beat(t) ==
  /\ pc[t] = "beat"
  /\ slots' = [slots EXCEPT ![slotIndex[t]].lastEnteredNs = entered[t]]
  /\ Runs(t)
  /\ UNCHANGED <<slotIndex, tid, claim, entered, started, now>>

ThreadStep(t) ==
  \/ StartThread(t) \/ EndThread(t) \/ EnterCall(t)
  \/ ClaimSlot(t) \/ SkipSlot(t) \/ NoSlotLeft(t) \/ Beat(t)

Tick ==
  /\ now < MaxTime
  /\ now' = now + 1
  /\ UNCHANGED <<slots, slotIndex, tid, pc, claim, entered, lastActive, started>>

Next == Tick \/ \E t \in Threads : ThreadStep(t)

Spec == Init /\ [][Next]_heartbeatVars

-----------------------------------------------------------------------------
(***************************************************************************)
(* Properties.                                                             *)
(***************************************************************************)

TypeOK ==
  /\ slots \in [Slots -> [tid : Tids \cup {Free}, lastEnteredNs : 0 .. MaxTime]]
  /\ slotIndex \in [Threads -> 0 .. SlotCount]
  /\ tid \in [Threads -> Tids \cup {0}]
  /\ pc \in [Threads -> {"idle", "claim", "beat"}]
  /\ claim \in [Threads -> 1 .. SlotCount + 1]
  /\ entered \in [Threads -> 0 .. MaxTime] /\ lastActive \in [Threads -> 0 .. MaxTime]
  /\ started \subseteq Threads /\ now \in 1 .. MaxTime

\* Threads that claim at the same time get different slots, and a slot once claimed
\* is its thread's for good: no thread ever overwrites the heartbeat of another.
SlotsExclusive ==
  \A t \in Threads :
    slotIndex[t] # 0 =>
      /\ \A u \in Threads \ {t} : slotIndex[u] # slotIndex[t]
      /\ Live(t) => slots[slotIndex[t]].tid = tid[t]

\* The heartbeat of a thread that has a slot is the last call it got to run, unless
\* its next call is just being entered.
HeartbeatCurrent ==
  \A t \in Threads :
    slotIndex[t] # 0 /\ pc[t] = "idle" => slots[slotIndex[t]].lastEnteredNs = lastActive[t]

=============================================================================
