---------------------------- MODULE HeartbeatProofs ----------------------------
(***************************************************************************)
(* Any number of threads over a table of any size, with identifiers that   *)
(* are used again: a slot belongs to one thread, and says what that thread *)
(* did last.  On it stands what the watchdog promises: its reports are of  *)
(* silences that were, each of them once.                                  *)
(***************************************************************************)
EXTENDS HangWatchdog, WellFoundedInduction, TLAPS

\* A thread that has not started has left no traces, one in the detour is alive, and it has a
\* slot exactly when it is past the claim; a claimed slot is never free again.
Life ==
  \A t \in Threads :
    /\ t \notin started => tid[t] = 0 /\ slotIndex[t] = 0 /\ pc[t] = "idle"
    /\ pc[t] # "idle" => Live(t)
    /\ pc[t] = "claim" => slotIndex[t] = 0
    /\ pc[t] = "beat" => slotIndex[t] # 0
    /\ slotIndex[t] # 0 => slots[slotIndex[t]].tid # Free

IInv == TypeOK /\ Life /\ SlotsExclusive /\ HeartbeatCurrent

LEMMA InitInv == Init => IInv
  BY SlotAssumption, TimeAssumption DEF Init, IInv, TypeOK, Life, SlotsExclusive, HeartbeatCurrent, Slots, Free, Live

\* A table stays a table when one field of a slot is written.
LEMMA TidStored ==
  ASSUME NEW S, NEW T, NEW r \in [tid : S, lastEnteredNs : T], NEW x \in S
  PROVE  [r EXCEPT !.tid = x] \in [tid : S, lastEnteredNs : T]
  OBVIOUS

LEMMA TypeStep ==
  ASSUME IInv, [Next]_heartbeatVars
  PROVE  TypeOK'
<1> USE SlotAssumption, TimeAssumption DEF IInv, TypeOK, Slots, Free
<1>1. ASSUME NEW t \in Threads, StartThread(t) PROVE TypeOK'
  BY <1>1 DEF StartThread
<1>2. ASSUME NEW t \in Threads, EndThread(t) PROVE TypeOK'
  BY <1>2 DEF EndThread
<1>3. ASSUME NEW t \in Threads, EnterCall(t) PROVE TypeOK'
  BY <1>3, SMTT(30) DEF EnterCall
<1>4. ASSUME NEW t \in Threads, ClaimSlot(t) PROVE TypeOK'
  <2>1. claim[t] \in 1 .. SlotCount /\ tid[t] \in Tids \cup {0}
    BY <1>4 DEF ClaimSlot
  <2>2. ASSUME NEW i \in 1 .. SlotCount
        PROVE  [slots[i] EXCEPT !.tid = tid[t]] \in [tid : Tids \cup {0}, lastEnteredNs : 0 .. MaxTime]
    <3>1. slots[i] \in [tid : Tids \cup {0}, lastEnteredNs : 0 .. MaxTime]
      OBVIOUS
    <3>2. QED
      BY ONLY <2>1, <3>1, TidStored
  <2>3. slots' \in [1 .. SlotCount -> [tid : Tids \cup {0}, lastEnteredNs : 0 .. MaxTime]]
    BY <1>4, <2>1, <2>2 DEF ClaimSlot
  <2>4. slotIndex' \in [Threads -> 0 .. SlotCount]
    BY <1>4, <2>1 DEF ClaimSlot
  <2>5. QED
    BY <1>4, <2>3, <2>4 DEF ClaimSlot
<1>5. ASSUME NEW t \in Threads, SkipSlot(t) PROVE TypeOK'
  BY <1>5, SMTT(30) DEF SkipSlot
<1>6. ASSUME NEW t \in Threads, NoSlotLeft(t) PROVE TypeOK'
  BY <1>6 DEF NoSlotLeft, Runs
<1>7. ASSUME NEW t \in Threads, Beat(t) PROVE TypeOK'
  BY <1>7 DEF Beat, Runs
<1>8. CASE Tick
  BY <1>8 DEF Tick
<1>9. CASE UNCHANGED heartbeatVars
  BY <1>9 DEF heartbeatVars
<1>10. QED
  BY <1>1, <1>2, <1>3, <1>4, <1>5, <1>6, <1>7, <1>8, <1>9 DEF Next, ThreadStep

LEMMA LifeStep ==
  ASSUME IInv, [Next]_heartbeatVars
  PROVE  Life'
<1> USE SlotAssumption DEF IInv, TypeOK, Life, Slots, Free, Live
<1>1. ASSUME NEW t \in Threads, StartThread(t) PROVE Life'
  <2>1. tid'[t] # 0 /\ \A u \in Threads \ {t} : tid'[u] = tid[u]
    BY <1>1, TidAssumption DEF StartThread
  <2>2. QED
    BY <1>1, <2>1 DEF StartThread
<1>2. ASSUME NEW t \in Threads, EndThread(t) PROVE Life'
  BY <1>2 DEF EndThread
<1>3. ASSUME NEW t \in Threads, EnterCall(t) PROVE Life'
  BY <1>3 DEF EnterCall
<1>4. ASSUME NEW t \in Threads, ClaimSlot(t) PROVE Life'
  BY <1>4 DEF ClaimSlot
<1>5. ASSUME NEW t \in Threads, SkipSlot(t) PROVE Life'
  BY <1>5 DEF SkipSlot
<1>6. ASSUME NEW t \in Threads, NoSlotLeft(t) PROVE Life'
  BY <1>6 DEF NoSlotLeft, Runs
<1>7. ASSUME NEW t \in Threads, Beat(t) PROVE Life'
  BY <1>7 DEF Beat, Runs
<1>8. CASE Tick
  BY <1>8 DEF Tick
<1>9. CASE UNCHANGED heartbeatVars
  BY <1>9 DEF heartbeatVars
<1>10. QED
  BY <1>1, <1>2, <1>3, <1>4, <1>5, <1>6, <1>7, <1>8, <1>9 DEF Next, ThreadStep

\* Only a claim gives a thread a slot, and what it takes was nobody's.
LEMMA ExclusiveStep ==
  ASSUME IInv, [Next]_heartbeatVars
  PROVE  SlotsExclusive'
<1> USE DEF IInv, TypeOK, SlotsExclusive, Slots, Free, Live
<1>1. ASSUME NEW t \in Threads, StartThread(t) PROVE SlotsExclusive'
  BY <1>1 DEF StartThread, Life
<1>2. ASSUME NEW t \in Threads, EndThread(t) PROVE SlotsExclusive'
  BY <1>2 DEF EndThread
<1>3. ASSUME NEW t \in Threads, EnterCall(t) PROVE SlotsExclusive'
  BY <1>3 DEF EnterCall
<1>4. ASSUME NEW t \in Threads, ClaimSlot(t) PROVE SlotsExclusive'
  <2>1. \A u \in Threads : slotIndex[u] # claim[t]
    BY <1>4, SlotAssumption DEF ClaimSlot, Life
  <2>2. QED
    BY <1>4, <2>1, SlotAssumption DEF ClaimSlot
<1>5. ASSUME NEW t \in Threads, SkipSlot(t) PROVE SlotsExclusive'
  BY <1>5 DEF SkipSlot
<1>6. ASSUME NEW t \in Threads, NoSlotLeft(t) PROVE SlotsExclusive'
  BY <1>6 DEF NoSlotLeft, Runs
<1>7. ASSUME NEW t \in Threads, Beat(t) PROVE SlotsExclusive'
  BY <1>7 DEF Beat, Runs
<1>8. CASE Tick
  BY <1>8 DEF Tick
<1>9. CASE UNCHANGED heartbeatVars
  BY <1>9 DEF heartbeatVars
<1>10. QED
  BY <1>1, <1>2, <1>3, <1>4, <1>5, <1>6, <1>7, <1>8, <1>9 DEF Next, ThreadStep

\* Nobody writes the time of a slot but its thread.
LEMMA CurrentStep ==
  ASSUME IInv, [Next]_heartbeatVars
  PROVE  HeartbeatCurrent'
<1> USE DEF IInv, TypeOK, HeartbeatCurrent, Slots, Free
<1>1. ASSUME NEW t \in Threads, StartThread(t) PROVE HeartbeatCurrent'
  BY <1>1 DEF StartThread
<1>2. ASSUME NEW t \in Threads, EndThread(t) PROVE HeartbeatCurrent'
  BY <1>2 DEF EndThread
<1>3. ASSUME NEW t \in Threads, EnterCall(t) PROVE HeartbeatCurrent'
  BY <1>3 DEF EnterCall
<1>4. ASSUME NEW t \in Threads, ClaimSlot(t) PROVE HeartbeatCurrent'
  <2>1. \A u \in Threads : slotIndex[u] # claim[t]
    BY <1>4, SlotAssumption DEF ClaimSlot, Life
  <2>2. QED
    BY <1>4, <2>1, SlotAssumption DEF ClaimSlot
<1>5. ASSUME NEW t \in Threads, SkipSlot(t) PROVE HeartbeatCurrent'
  BY <1>5 DEF SkipSlot
<1>6. ASSUME NEW t \in Threads, NoSlotLeft(t) PROVE HeartbeatCurrent'
  BY <1>6 DEF NoSlotLeft, Runs, Life
<1>7. ASSUME NEW t \in Threads, Beat(t) PROVE HeartbeatCurrent'
  <2>1. slotIndex[t] \in 1 .. SlotCount
    BY <1>7, SlotAssumption DEF Beat, Life
  <2>2. \A u \in Threads \ {t} : slotIndex[u] # slotIndex[t]
    <3>1. slotIndex[t] # 0
      BY <1>7 DEF Beat, Life
    <3>2. QED
      BY <3>1 DEF SlotsExclusive
  <2>3. /\ slotIndex' = slotIndex
        /\ slots'[slotIndex[t]].lastEnteredNs = entered[t]
        /\ \A i \in 1 .. SlotCount : i # slotIndex[t] => slots'[i] = slots[i]
    <3>1. /\ slotIndex' = slotIndex
          /\ slots' = [slots EXCEPT ![slotIndex[t]] = [slots[slotIndex[t]] EXCEPT !.lastEnteredNs = entered[t]]]
      BY <1>7 DEF Beat
    <3>2. slots[slotIndex[t]] \in [tid : Tids \cup {0}, lastEnteredNs : 0 .. MaxTime]
      BY <2>1
    <3>3. [slots[slotIndex[t]] EXCEPT !.lastEnteredNs = entered[t]].lastEnteredNs = entered[t]
      BY <3>2
    <3>4. slots'[slotIndex[t]] = [slots[slotIndex[t]] EXCEPT !.lastEnteredNs = entered[t]]
      BY <2>1, <3>1
    <3>5. QED
      BY <3>1, <3>3, <3>4
  <2>4. /\ lastActive'[t] = entered[t]
        /\ \A u \in Threads \ {t} : lastActive'[u] = lastActive[u] /\ pc'[u] = pc[u]
    BY <1>7 DEF Beat, Runs
  <2>5. ASSUME NEW u \in Threads, slotIndex[u] # 0, pc'[u] = "idle"
        PROVE  slots'[slotIndex[u]].lastEnteredNs = lastActive'[u]
    <3>1. CASE u = t
      BY <2>3, <2>4, <3>1
    <3>2. CASE u # t
      <4>1. slotIndex[u] \in 1 .. SlotCount /\ slotIndex[u] # slotIndex[t]
        BY <2>2, <2>5, <3>2, SlotAssumption
      <4>2. slots'[slotIndex[u]] = slots[slotIndex[u]]
        BY <2>3, <4>1
      <4>3. QED
        BY <2>4, <2>5, <3>2, <4>2
    <3>3. QED
      BY <3>1, <3>2
  <2>6. QED
    BY <2>3, <2>5
<1>8. CASE Tick
  BY <1>8 DEF Tick
<1>9. CASE UNCHANGED heartbeatVars
  BY <1>9 DEF heartbeatVars
<1>10. QED
  BY <1>1, <1>2, <1>3, <1>4, <1>5, <1>6, <1>7, <1>8, <1>9 DEF Next, ThreadStep

LEMMA Inductive == Spec => []IInv
<1>1. IInv /\ [Next]_heartbeatVars => IInv'
  BY TypeStep, LifeStep, ExclusiveStep, CurrentStep DEF IInv
<1>2. QED
  BY InitInv, <1>1, PTL DEF Spec

----------------------------------------------------------------------------
\* The claims of any number of threads that race for the slots never meet in one, and an
\* identifier that the operating system gives out again takes no slot over.
THEOREM SlotsAreExclusive == Spec => []SlotsExclusive
<1>1. IInv => SlotsExclusive
  BY DEF IInv
<1>2. QED
  BY Inductive, <1>1, PTL

\* What the watchdog and a report read of a slot is the last call its thread got to run.
THEOREM HeartbeatsAreCurrent == Spec => []HeartbeatCurrent
<1>1. IInv => HeartbeatCurrent
  BY DEF IInv
<1>2. QED
  BY Inductive, <1>1, PTL

-----------------------------------------------------------------------------
(***************************************************************************)
(* The newest heartbeat.                                                   *)
(***************************************************************************)

Below == {ss \in Nat \X Nat : ss[1] < ss[2]}

LEMMA BelowWellFounded == IsWellFoundedOn(Below, Nat)
  BY NatLessThanWellFounded DEF OpToRel, Below

LEMMA LeastNumber ==
  ASSUME NEW T \in SUBSET Nat, T # {}
  PROVE  \E m \in T : \A k \in T : m <= k
<1>1. PICK m \in T : \A k \in T : ~ (<<k, m>> \in Below)
  BY WFMin, BelowWellFounded
<1>2. ASSUME NEW k \in T PROVE m <= k
  <2>1. k \in Nat /\ m \in Nat
    OBVIOUS
  <2>2. k < m => <<k, m>> \in Below
    BY <2>1 DEF Below
  <2>3. ~(k < m)
    BY <1>1, <2>2
  <2>4. QED
    BY <2>1, <2>3
<1>3. QED
  BY <1>2

\* The least of the distances to the bound is that of the greatest.
LEMMA GreatestNumber ==
  ASSUME NEW B \in Nat, NEW T \in SUBSET (0 .. B), T # {}
  PROVE  \E m \in T : \A n \in T : n <= m
<1> DEFINE D == {B - n : n \in T}
<1>1. D \in SUBSET Nat /\ D # {}
  <2>1. ASSUME NEW n \in T PROVE B - n \in Nat
    <3>1. n \in 0 .. B
      OBVIOUS
    <3>2. QED
      BY <3>1
  <2>2. QED
    BY <2>1
<1>2. PICK d \in D : \A k \in D : d <= k
  <2> HIDE DEF D
  <2> QED
    BY <1>1, LeastNumber
<1>3. PICK m \in T : d = B - m
  OBVIOUS
<1>4. ASSUME NEW n \in T PROVE n <= m
  <2>1. B - n \in D
    OBVIOUS
  <2>2. B - m <= B - n
    BY <1>2, <1>3, <2>1
  <2>3. m \in 0 .. B /\ n \in 0 .. B
    OBVIOUS
  <2>4. QED
    BY ONLY <2>2, <2>3, B \in Nat
<1>5. QED
  BY <1>4

HeartbeatTimes == {slots[i].lastEnteredNs : i \in {j \in Slots : slots[j].tid # Free}} \cup {0}

\* The choice of the newest is never a choice out of nothing.
LEMMA NewestIsGreatest ==
  ASSUME TypeOK
  PROVE  NewestHeartbeat \in HeartbeatTimes /\ \A n \in HeartbeatTimes : n <= NewestHeartbeat
<1>1. MaxTime \in Nat
  BY TimeAssumption
<1>2. ASSUME NEW i \in Slots PROVE slots[i].lastEnteredNs \in 0 .. MaxTime
  <2>1. slots[i] \in [tid : Tids \cup {Free}, lastEnteredNs : 0 .. MaxTime]
    BY DEF TypeOK
  <2>2. QED
    BY <2>1
<1>3. HeartbeatTimes \in SUBSET (0 .. MaxTime) /\ HeartbeatTimes # {}
  BY <1>1, <1>2 DEF HeartbeatTimes
<1>4. \E m \in HeartbeatTimes : \A n \in HeartbeatTimes : n <= m
  BY <1>1, <1>3, GreatestNumber
<1>5. NewestHeartbeat = CHOOSE m \in HeartbeatTimes : \A n \in HeartbeatTimes : n <= m
  BY DEF NewestHeartbeat, HeartbeatTimes
<1>6. QED
  BY <1>4, <1>5

LEMMA NewestBounds ==
  TypeOK => /\ NewestHeartbeat \in 0 .. MaxTime
            /\ \A i \in Slots : slots[i].tid # Free => slots[i].lastEnteredNs <= NewestHeartbeat
<1> SUFFICES ASSUME TypeOK
             PROVE  /\ NewestHeartbeat \in 0 .. MaxTime
                    /\ \A i \in Slots : slots[i].tid # Free => slots[i].lastEnteredNs <= NewestHeartbeat
  OBVIOUS
<1>1. ASSUME NEW i \in Slots PROVE slots[i].lastEnteredNs \in 0 .. MaxTime
  <2>1. slots[i] \in [tid : Tids \cup {Free}, lastEnteredNs : 0 .. MaxTime]
    BY DEF TypeOK
  <2>2. QED
    BY <2>1
<1>2. HeartbeatTimes \in SUBSET (0 .. MaxTime)
  BY <1>1, TimeAssumption DEF HeartbeatTimes
<1>3. ASSUME NEW i \in Slots, slots[i].tid # Free
      PROVE  slots[i].lastEnteredNs \in HeartbeatTimes
  BY <1>3 DEF HeartbeatTimes
<1>4. QED
  BY <1>2, <1>3, NewestIsGreatest

-----------------------------------------------------------------------------
(***************************************************************************)
(* Heartbeats never go back.                                               *)
(***************************************************************************)

\* No time lies ahead of the clock; a slot says what its thread did last from the moment
\* it is claimed, because a thread that ran without one never finds one later: there
\* was none free, and none becomes free.
TimesInv ==
  /\ \A i \in Slots : /\ slots[i].lastEnteredNs <= now
                      /\ slots[i].tid = Free => slots[i].lastEnteredNs = 0
  /\ \A t \in Threads : entered[t] <= now /\ lastActive[t] <= entered[t]
  /\ \A t \in Threads :
       slotIndex[t] = 0 /\ lastActive[t] # 0 => \A i \in Slots : slots[i].tid # Free
  /\ \A t \in Threads :
       pc[t] = "claim" => \A i \in Slots : i < claim[t] => slots[i].tid # Free
  /\ \A t \in Threads : slotIndex[t] # 0 => slots[slotIndex[t]].lastEnteredNs = lastActive[t]

\* A claimed slot stays claimed, with a time that does not go back.
SlotsGrow ==
  \A i \in Slots :
    /\ slots[i].tid # Free => slots'[i].tid # Free
    /\ slots[i].lastEnteredNs <= slots'[i].lastEnteredNs

\* What a claim and a heartbeat do to the table.
LEMMA ClaimEffect ==
  ASSUME IInv, NEW t \in Threads, ClaimSlot(t)
  PROVE  /\ claim[t] \in Slots /\ slots[claim[t]].tid = Free /\ tid[t] # Free
         /\ slots'[claim[t]].tid = tid[t]
         /\ slots'[claim[t]].lastEnteredNs = slots[claim[t]].lastEnteredNs
         /\ \A i \in Slots : i # claim[t] => slots'[i] = slots[i]
<1>1. claim[t] \in Slots /\ slots[claim[t]].tid = Free /\ tid[t] # Free
  BY DEF ClaimSlot, IInv, Life, Live, Free
<1>2. slots' = [slots EXCEPT ![claim[t]] = [slots[claim[t]] EXCEPT !.tid = tid[t]]]
  BY DEF ClaimSlot
<1>3. slots \in [Slots -> [tid : Tids \cup {Free}, lastEnteredNs : 0 .. MaxTime]]
  BY DEF IInv, TypeOK
<1>4. slots'[claim[t]] = [slots[claim[t]] EXCEPT !.tid = tid[t]]
  BY <1>1, <1>2, <1>3
<1>5. slots[claim[t]] \in [tid : Tids \cup {Free}, lastEnteredNs : 0 .. MaxTime]
  BY <1>1, <1>3
<1>6. slots'[claim[t]].tid = tid[t] /\ slots'[claim[t]].lastEnteredNs = slots[claim[t]].lastEnteredNs
  BY <1>4, <1>5
<1>7. QED
  BY <1>1, <1>2, <1>3, <1>6

LEMMA BeatEffect ==
  ASSUME IInv, NEW t \in Threads, Beat(t)
  PROVE  /\ slotIndex[t] \in Slots
         /\ slots'[slotIndex[t]].tid = slots[slotIndex[t]].tid
         /\ slots'[slotIndex[t]].lastEnteredNs = entered[t]
         /\ \A i \in Slots : i # slotIndex[t] => slots'[i] = slots[i]
<1>1. slotIndex[t] \in Slots
  BY SlotAssumption DEF Beat, IInv, TypeOK, Life, Slots
<1>2. slots' = [slots EXCEPT ![slotIndex[t]] = [slots[slotIndex[t]] EXCEPT !.lastEnteredNs = entered[t]]]
  BY DEF Beat
<1>3. slots \in [Slots -> [tid : Tids \cup {Free}, lastEnteredNs : 0 .. MaxTime]]
  BY DEF IInv, TypeOK
<1>4. slots'[slotIndex[t]] = [slots[slotIndex[t]] EXCEPT !.lastEnteredNs = entered[t]]
  BY <1>1, <1>2, <1>3
<1>5. slots[slotIndex[t]] \in [tid : Tids \cup {Free}, lastEnteredNs : 0 .. MaxTime]
  BY <1>1, <1>3
<1>6. /\ slots'[slotIndex[t]].tid = slots[slotIndex[t]].tid
      /\ slots'[slotIndex[t]].lastEnteredNs = entered[t]
  BY <1>4, <1>5
<1>7. QED
  BY <1>1, <1>2, <1>3, <1>6

LEMMA NumbersOfTheTable ==
  ASSUME TypeOK
  PROVE  /\ MaxTime \in Nat /\ SlotCount \in Nat /\ now \in Nat
         /\ \A i \in Slots : slots[i].lastEnteredNs \in Nat
         /\ \A t \in Threads : entered[t] \in Nat /\ lastActive[t] \in Nat
         /\ \A t \in Threads : slotIndex[t] # 0 => slotIndex[t] \in Slots
<1>1. ASSUME NEW i \in Slots PROVE slots[i].lastEnteredNs \in Nat
  <2>1. slots[i] \in [tid : Tids \cup {Free}, lastEnteredNs : 0 .. MaxTime]
    BY DEF TypeOK
  <2>2. QED
    BY <2>1, TimeAssumption
<1>2. QED
  BY <1>1, TimeAssumption, SlotAssumption DEF TypeOK, Slots

LEMMA GrowStep ==
  ASSUME IInv, TimesInv, [Next]_heartbeatVars
  PROVE  SlotsGrow
<1>1. \A i \in Slots : slots[i].lastEnteredNs \in Nat
  BY NumbersOfTheTable DEF IInv
<1>2. slots' = slots => SlotsGrow
  BY <1>1 DEF SlotsGrow
<1>3. ASSUME NEW t \in Threads, ClaimSlot(t) PROVE SlotsGrow
  BY <1>1, <1>3, ClaimEffect DEF SlotsGrow
<1>4. ASSUME NEW t \in Threads, Beat(t) PROVE SlotsGrow
  <2>1. slotIndex[t] # 0
    BY <1>4 DEF Beat, IInv, Life
  <2>2. slots[slotIndex[t]].lastEnteredNs <= entered[t]
    BY <2>1 DEF TimesInv
  <2>3. QED
    BY <1>1, <1>4, <2>2, BeatEffect DEF SlotsGrow
<1>5. QED
  BY <1>2, <1>3, <1>4
  DEF Next, ThreadStep, Tick, StartThread, EndThread, EnterCall, SkipSlot, NoSlotLeft, heartbeatVars

LEMMA TimesInit == Init => TimesInv
  BY SlotAssumption DEF Init, TimesInv, Slots, Free

LEMMA TimesStep ==
  ASSUME IInv, TimesInv, [Next]_heartbeatVars
  PROVE  TimesInv'
<1> DEFINE Times1 == \A i \in Slots : /\ slots[i].lastEnteredNs <= now
                                      /\ slots[i].tid = Free => slots[i].lastEnteredNs = 0
           Times2 == \A t \in Threads : entered[t] <= now /\ lastActive[t] <= entered[t]
           Times3 == \A t \in Threads :
                       slotIndex[t] = 0 /\ lastActive[t] # 0 => \A i \in Slots : slots[i].tid # Free
           Times4 == \A t \in Threads :
                       pc[t] = "claim" => \A i \in Slots : i < claim[t] => slots[i].tid # Free
           Times5 == \A t \in Threads :
                       slotIndex[t] # 0 => slots[slotIndex[t]].lastEnteredNs = lastActive[t]
<1>t. TypeOK
  BY DEF IInv
<1>n. /\ MaxTime \in Nat /\ SlotCount \in Nat /\ now \in Nat
      /\ \A i \in Slots : slots[i].lastEnteredNs \in Nat
      /\ \A t \in Threads : entered[t] \in Nat /\ lastActive[t] \in Nat
      /\ \A t \in Threads : slotIndex[t] # 0 => slotIndex[t] \in Slots
  BY <1>t, NumbersOfTheTable
<1>f. entered \in [Threads -> 0 .. MaxTime] /\ lastActive \in [Threads -> 0 .. MaxTime] /\ pc \in [Threads -> {"idle", "claim", "beat"}] /\ slotIndex \in [Threads -> 0 .. SlotCount] /\ claim \in [Threads -> 1 .. SlotCount + 1]
  BY <1>t DEF TypeOK
<1>g. SlotsGrow
  BY GrowStep
<1>i. Times1 /\ Times2 /\ Times3 /\ Times4 /\ Times5
  BY DEF TimesInv
<1>1. ASSUME NEW t \in Threads, StartThread(t) \/ EndThread(t) PROVE TimesInv'
  BY <1>1, <1>i DEF StartThread, EndThread, TimesInv
<1>2. ASSUME NEW t \in Threads, EnterCall(t) PROVE TimesInv'
  <2>1. Times1' /\ Times3' /\ Times5'
    BY <1>2, <1>i DEF EnterCall
  <2>2. Times2'
    BY <1>2, <1>i, <1>n, <1>f DEF EnterCall
  <2>3. Times4'
    BY <1>2, <1>i, <1>f DEF EnterCall, Slots
  <2>4. QED
    BY <2>1, <2>2, <2>3 DEF TimesInv
<1>3. ASSUME NEW t \in Threads, ClaimSlot(t) PROVE TimesInv'
  <2>1. /\ claim[t] \in Slots /\ slots[claim[t]].tid = Free /\ tid[t] # Free
        /\ slots'[claim[t]].tid = tid[t]
        /\ slots'[claim[t]].lastEnteredNs = slots[claim[t]].lastEnteredNs
        /\ \A i \in Slots : i # claim[t] => slots'[i] = slots[i]
    BY <1>3, ClaimEffect
  <2>2. /\ slotIndex[t] = 0 /\ slotIndex'[t] = claim[t]
        /\ \A u \in Threads \ {t} : slotIndex'[u] = slotIndex[u]
        /\ pc'[t] = "beat" /\ \A u \in Threads \ {t} : pc'[u] = pc[u]
        /\ UNCHANGED <<tid, claim, entered, lastActive, now>>
    BY <1>3, <1>f DEF ClaimSlot, IInv, Life
  <2>3. Times1'
    BY <2>1, <2>2, <1>i
  <2>4. Times2'
    BY <2>2, <1>i
  <2>5. Times3'
    BY <2>1, <2>2, <1>i DEF Slots
  <2>6. Times4'
    BY <2>1, <2>2, <1>i
  <2>7. Times5'
    <3>1. lastActive[t] = 0
      BY <2>1, <2>2, <1>i
    <3>2. slots[claim[t]].lastEnteredNs = 0
      BY <2>1, <1>i
    <3>3. ASSUME NEW u \in Threads \ {t}, slotIndex[u] # 0
          PROVE  slotIndex[u] # claim[t]
      BY <2>1, <3>3 DEF IInv, Life
    <3>4. QED
      BY <2>1, <2>2, <3>1, <3>2, <3>3, <1>i, <1>n
  <2>8. QED
    BY <2>3, <2>4, <2>5, <2>6, <2>7 DEF TimesInv
<1>4. ASSUME NEW t \in Threads, SkipSlot(t) PROVE TimesInv'
  <2>1. Times1' /\ Times2' /\ Times3' /\ Times5'
    BY <1>4, <1>i DEF SkipSlot
  <2>2. Times4'
    <3>1. /\ claim'[t] = claim[t] + 1
          /\ \A u \in Threads \ {t} : claim'[u] = claim[u]
          /\ slots[claim[t]].tid # Free /\ pc[t] = "claim" /\ UNCHANGED <<slots, pc>>
      BY <1>4, <1>f DEF SkipSlot
    <3>2. claim[t] \in Nat /\ Slots \subseteq Nat
      BY <1>f DEF Slots
    <3>3. ASSUME NEW i \in Slots, i < claim'[t]
          PROVE  slots[i].tid # Free
      <4>1. i < claim[t] \/ i = claim[t]
        BY <3>1, <3>2, <3>3
      <4>2. QED
        BY <4>1, <3>1, <1>i
    <3>4. ASSUME NEW u \in Threads, pc[u] = "claim", NEW i \in Slots, i < claim'[u]
          PROVE  slots[i].tid # Free
      <4>1. CASE u = t
        BY <3>3, <3>4, <4>1
      <4>2. CASE u # t
        BY <3>1, <3>4, <4>2, <1>i
      <4>3. QED
        BY <4>1, <4>2
    <3>5. QED
      BY <3>1, <3>4 DEF Slots
  <2>3. QED
    BY <2>1, <2>2 DEF TimesInv
<1>5. ASSUME NEW t \in Threads, NoSlotLeft(t) PROVE TimesInv'
  <2>1. /\ lastActive'[t] = entered[t] /\ \A u \in Threads \ {t} : lastActive'[u] = lastActive[u]
        /\ pc'[t] = "idle" /\ \A u \in Threads \ {t} : pc'[u] = pc[u]
        /\ UNCHANGED <<slots, slotIndex, claim, entered, now>>
    BY <1>5, <1>f DEF NoSlotLeft, Runs
  <2>2. \A i \in Slots : slots[i].tid # Free
    <3>1. pc[t] = "claim" /\ claim[t] \notin Slots
      BY <1>5 DEF NoSlotLeft
    <3>2. \A i \in Slots : i < claim[t]
      BY <3>1, <1>f, <1>n DEF Slots
    <3>3. QED
      BY <3>1, <3>2, <1>i
  <2>3. slotIndex[t] = 0
    BY <1>5 DEF NoSlotLeft, IInv, Life
  <2>4. Times1' /\ Times2'
    BY <2>1, <1>i, <1>n
  <2>5. Times3' /\ Times4' /\ Times5'
    BY <2>1, <2>2, <2>3, <1>i
  <2>6. QED
    BY <2>4, <2>5 DEF TimesInv
<1>6. ASSUME NEW t \in Threads, Beat(t) PROVE TimesInv'
  <2>1. /\ slotIndex[t] \in Slots
        /\ slots'[slotIndex[t]].tid = slots[slotIndex[t]].tid
        /\ slots'[slotIndex[t]].lastEnteredNs = entered[t]
        /\ \A i \in Slots : i # slotIndex[t] => slots'[i] = slots[i]
    BY <1>6, BeatEffect
  <2>2. /\ lastActive'[t] = entered[t] /\ \A u \in Threads \ {t} : lastActive'[u] = lastActive[u]
        /\ pc'[t] = "idle" /\ \A u \in Threads \ {t} : pc'[u] = pc[u]
        /\ UNCHANGED <<slotIndex, claim, entered, now>>
    BY <1>6, <1>f DEF Beat, Runs
  <2>3. slotIndex[t] # 0 /\ slots[slotIndex[t]].tid # Free
    BY <1>6 DEF Beat, IInv, Life
  <2>4. Times1'
    BY <2>1, <2>2, <2>3, <1>i, <1>n
  <2>5. Times2'
    BY <2>2, <1>i, <1>n
  <2>6. Times3' /\ Times4'
    BY <2>1, <2>2, <2>3, <1>i
  <2>7. Times5'
    <3>1. ASSUME NEW u \in Threads \ {t}, slotIndex[u] # 0
          PROVE  slotIndex[u] # slotIndex[t]
      BY <2>3, <3>1 DEF IInv, SlotsExclusive
    <3>2. QED
      BY <2>1, <2>2, <3>1, <1>i, <1>n
  <2>8. QED
    BY <2>4, <2>5, <2>6, <2>7 DEF TimesInv
<1>7. CASE Tick
  <2>1. now' = now + 1 /\ UNCHANGED <<slots, slotIndex, pc, claim, entered, lastActive>>
    BY <1>7 DEF Tick
  <2>2. Times1' /\ Times2'
    BY <2>1, <1>i, <1>n
  <2>3. Times3' /\ Times4' /\ Times5'
    BY <2>1, <1>i
  <2>4. QED
    BY <2>2, <2>3 DEF TimesInv
<1>8. CASE UNCHANGED heartbeatVars
  BY <1>8, <1>i DEF heartbeatVars, TimesInv
<1>9. QED
  BY <1>1, <1>2, <1>3, <1>4, <1>5, <1>6, <1>7, <1>8 DEF Next, ThreadStep

\* The newest heartbeat of a table that has only grown.
LEMMA NewestGrows ==
  ASSUME IInv, TimesInv, TypeOK', [Next]_heartbeatVars
  PROVE  NewestHeartbeat <= NewestHeartbeat'
<1>1. TypeOK
  BY DEF IInv
<1>2. NewestHeartbeat \in 0 .. MaxTime /\ NewestHeartbeat \in HeartbeatTimes
  BY <1>1, NewestBounds, NewestIsGreatest
<1>3. /\ NewestHeartbeat' \in 0 .. MaxTime
      /\ \A i \in Slots : slots'[i].tid # Free => slots'[i].lastEnteredNs <= NewestHeartbeat'
  <2>1. (TypeOK => /\ NewestHeartbeat \in 0 .. MaxTime
                   /\ \A i \in Slots : slots[i].tid # Free => slots[i].lastEnteredNs <= NewestHeartbeat)'
    BY NewestBounds, PTL
  <2>2. QED
    BY <2>1 DEF Slots
<1>4. CASE NewestHeartbeat = 0
  BY <1>3, <1>4
<1>5. CASE NewestHeartbeat # 0
  <2>1. PICK i \in Slots : slots[i].tid # Free /\ NewestHeartbeat = slots[i].lastEnteredNs
    BY <1>2, <1>5 DEF HeartbeatTimes
  <2>2. slots'[i].tid # Free /\ slots[i].lastEnteredNs <= slots'[i].lastEnteredNs
    BY <2>1, GrowStep DEF SlotsGrow
  <2>3. slots'[i].lastEnteredNs <= NewestHeartbeat'
    BY <1>3, <2>2
  <2>4. slots[i].lastEnteredNs \in Nat /\ slots'[i].lastEnteredNs \in Nat
    <3>1. slots[i] \in [tid : Tids \cup {Free}, lastEnteredNs : 0 .. MaxTime]
      BY <1>1 DEF TypeOK
    <3>2. slots'[i] \in [tid : Tids \cup {Free}, lastEnteredNs : 0 .. MaxTime]
      BY DEF TypeOK, Slots, Free
    <3>3. QED
      BY <3>1, <3>2, TimeAssumption
  <2>5. QED
    BY <1>2, <1>3, <2>1, <2>2, <2>3, <2>4
<1>6. QED
  BY <1>4, <1>5

-----------------------------------------------------------------------------
(***************************************************************************)
(* The watchdog.                                                           *)
(***************************************************************************)

\* A silence that was reported stays older than the threshold, and the newest heartbeat
\* is at least the last one before it; it is newer as soon as the watchdog is armed
\* again, and this is why the next report is of another silence.
ReportsInv ==
  /\ reports \in Seq(1 .. MaxTime)
  /\ \A i \in DOMAIN reports : reports[i] <= NewestHeartbeat /\ now - reports[i] > Threshold
  /\ ~g_reported => \A i \in DOMAIN reports : reports[i] < NewestHeartbeat
  /\ OneReportPerSilence

HangInv == IInv /\ TimesInv /\ ReportsInv

\* The watchdog only reads the table.
LEMMA WatchdogReads == [HangNext]_hangVars => [Next]_heartbeatVars
  BY DEF HangNext, TickBegins, CheckForHang, HandledException, EngineMoves, TimePasses, Next,
         hangVars, heartbeatVars

LEMMA HangStart == HangInit => HangInv
<1> SUFFICES ASSUME HangInit PROVE HangInv
  OBVIOUS
<1>1. IInv /\ TimesInv
  BY InitInv, TimesInit DEF HangInit
<1>2. reports = << >>
  BY DEF HangInit
<1>3. ReportsInv
  BY <1>2 DEF ReportsInv, OneReportPerSilence
<1>4. QED
  BY <1>1, <1>3 DEF HangInv

\* The clock and the newest heartbeat move forward, if they move.
LEMMA TimeForward ==
  ASSUME HangInv, [HangNext]_hangVars
  PROVE  /\ IInv' /\ TimesInv'
         /\ now <= now' /\ {now, now'} \subseteq Int
         /\ NewestHeartbeat <= NewestHeartbeat'
         /\ {NewestHeartbeat, NewestHeartbeat'} \subseteq 0 .. MaxTime
<1>1. IInv /\ TimesInv /\ [Next]_heartbeatVars
  BY WatchdogReads DEF HangInv
<1>2. IInv' /\ TimesInv'
  BY <1>1, TypeStep, LifeStep, ExclusiveStep, CurrentStep, TimesStep DEF IInv
<1>3. TypeOK /\ TypeOK'
  BY <1>1, <1>2 DEF IInv
<1>4. now \in Int /\ now' \in Int
  BY <1>3 DEF TypeOK
<1>5. now' = now \/ now' = now + 1
  BY <1>1 DEF Next, ThreadStep, Tick, StartThread, EndThread, EnterCall, ClaimSlot, SkipSlot,
              NoSlotLeft, Beat, heartbeatVars
<1>6. NewestHeartbeat <= NewestHeartbeat'
  BY <1>1, <1>3, NewestGrows
<1>7. NewestHeartbeat \in 0 .. MaxTime
  BY <1>3, NewestBounds
<1>8. (TypeOK => /\ NewestHeartbeat \in 0 .. MaxTime
                 /\ \A i \in Slots : slots[i].tid # Free => slots[i].lastEnteredNs <= NewestHeartbeat)'
  BY NewestBounds, PTL
<1>9. NewestHeartbeat' \in 0 .. MaxTime
  BY <1>3, <1>8
<1>10. QED
  BY <1>2, <1>4, <1>5, <1>6, <1>7, <1>9

LEMMA SeqElement ==
  ASSUME NEW S, NEW s \in Seq(S), NEW i \in DOMAIN s
  PROVE  s[i] \in S
  OBVIOUS

\* What was reported stays reported, and stays old.
LEMMA ReportsAge ==
  ASSUME HangInv, [HangNext]_hangVars, reports' = reports
  PROVE  /\ reports' \in Seq(1 .. MaxTime)
         /\ \A i \in DOMAIN reports' : reports'[i] <= NewestHeartbeat' /\ now' - reports'[i] > Threshold
         /\ OneReportPerSilence'
         /\ (\A i \in DOMAIN reports : reports[i] < NewestHeartbeat)
              => \A i \in DOMAIN reports' : reports'[i] < NewestHeartbeat'
<1>1. reports \in Seq(1 .. MaxTime)
  BY DEF HangInv, ReportsInv
<1>2. ASSUME NEW i \in DOMAIN reports
      PROVE  /\ reports[i] \in Int /\ reports[i] <= NewestHeartbeat /\ now - reports[i] > Threshold
  <2>1. reports[i] \in 1 .. MaxTime
    BY ONLY <1>1, i \in DOMAIN reports, SeqElement
  <2>2. reports[i] <= NewestHeartbeat /\ now - reports[i] > Threshold
    BY Zenon DEF HangInv, ReportsInv
  <2>3. QED
    BY <2>1, <2>2
<1>3. /\ now <= now' /\ now \in Int /\ now' \in Int
      /\ NewestHeartbeat <= NewestHeartbeat' /\ NewestHeartbeat \in Int /\ NewestHeartbeat' \in Int
  BY TimeForward
<1>4. Threshold \in Int
  BY WatchdogBounds
<1>5. ASSUME NEW i \in DOMAIN reports
      PROVE  reports[i] <= NewestHeartbeat' /\ now' - reports[i] > Threshold
  BY <1>2, <1>3, <1>4
<1>6. ASSUME \A i \in DOMAIN reports : reports[i] < NewestHeartbeat, NEW i \in DOMAIN reports
      PROVE  reports[i] < NewestHeartbeat'
  BY <1>2, <1>3, <1>6
<1>7. OneReportPerSilence'
  BY DEF HangInv, ReportsInv, OneReportPerSilence
<1>8. QED
  BY <1>1, <1>5, <1>6, <1>7

\* A step that does not touch what the watchdog remembers.
LEMMA QuietStep ==
  ASSUME HangInv, [HangNext]_hangVars, UNCHANGED <<reports, g_reported>>
  PROVE  ReportsInv'
<1>1. CASE g_reported
  BY <1>1, ReportsAge DEF ReportsInv
<1>2. CASE ~g_reported
  BY <1>2, ReportsAge DEF ReportsInv, HangInv
<1>3. QED
  BY <1>1, <1>2

\* A verdict, read back.
LEMMA Verdicts ==
  ASSUME NEW maxLast, NEW at, NEW state, NEW already \in BOOLEAN
  PROVE  /\ EvaluateHang(maxLast, at, state, already) = "detected"
              => ~(maxLast <= 0) /\ at - maxLast > Threshold /\ ~already
         /\ EvaluateHang(maxLast, at, state, already) = "rearmed"
              => ~(maxLast <= 0) /\ ~(at - maxLast > Threshold) /\ already
  BY Zenon DEF EvaluateHang

LEMMA CheckKeepsReports ==
  ASSUME HangInv, g_reported \in BOOLEAN, CheckForHang
  PROVE  /\ ReportsInv'
         /\ reports' # reports => /\ Len(reports') = Len(reports) + 1
                                  /\ reports'[Len(reports')] = NewestHeartbeat
<1> DEFINE verdict == EvaluateHang(NewestHeartbeat, now, observed, g_reported)
<1>1. UNCHANGED heartbeatVars /\ [HangNext]_hangVars
  BY DEF CheckForHang, HangNext
<1>2. NewestHeartbeat' = NewestHeartbeat /\ now' = now
  BY <1>1 DEF NewestHeartbeat, heartbeatVars, Slots, Free
<1>3. /\ now \in Int /\ NewestHeartbeat \in 0 .. MaxTime /\ Threshold \in Int /\ MaxTime \in Nat
  BY <1>1, TimeForward, WatchdogBounds, TimeAssumption
<1>4. reports \in Seq(1 .. MaxTime)
  BY DEF HangInv, ReportsInv
<1>5. \/ verdict = "detected" /\ g_reported' = TRUE
         /\ (reports' = Append(reports, NewestHeartbeat) \/ reports' = reports)
      \/ verdict = "rearmed" /\ g_reported' = FALSE /\ reports' = reports
      \/ verdict = "none" /\ UNCHANGED <<g_reported, reports>>
  BY DEF CheckForHang
<1>6. CASE /\ verdict = "detected" /\ g_reported' = TRUE
           /\ reports' = Append(reports, NewestHeartbeat)
  <2>1. NewestHeartbeat \in 1 .. MaxTime /\ now - NewestHeartbeat > Threshold /\ ~g_reported
    <3>1. ~(NewestHeartbeat <= 0) /\ now - NewestHeartbeat > Threshold /\ ~g_reported
      BY <1>6, Verdicts
    <3>2. NewestHeartbeat \in 1 .. MaxTime
      BY <1>3, <3>1
    <3>3. QED
      BY <3>1, <3>2
  <2>2. \A i \in DOMAIN reports : reports[i] < NewestHeartbeat
    BY <2>1 DEF HangInv, ReportsInv
  <2>3. /\ reports' \in Seq(1 .. MaxTime)
        /\ Len(reports') = Len(reports) + 1 /\ Len(reports) \in Nat
        /\ DOMAIN reports' = 1 .. Len(reports) + 1 /\ DOMAIN reports = 1 .. Len(reports)
        /\ reports'[Len(reports) + 1] = NewestHeartbeat
        /\ \A i \in DOMAIN reports : reports'[i] = reports[i]
    BY <1>4, <1>6, <2>1
  <2>4. \A i \in DOMAIN reports : now - reports[i] > Threshold
    BY DEF HangInv, ReportsInv
  <2>5. ASSUME NEW i \in DOMAIN reports'
        PROVE  reports'[i] <= NewestHeartbeat' /\ now' - reports'[i] > Threshold
    <3>1. i \in DOMAIN reports \/ i = Len(reports) + 1
      BY <2>3
    <3>2. CASE i \in DOMAIN reports
      <4>1. reports[i] \in 1 .. MaxTime
        BY ONLY <1>4, <3>2, SeqElement
      <4>2. reports[i] < NewestHeartbeat /\ now - reports[i] > Threshold /\ reports'[i] = reports[i]
        BY <2>2, <2>3, <2>4, <3>2
      <4>3. QED
        BY <1>2, <1>3, <4>1, <4>2
    <3>3. CASE i = Len(reports) + 1
      BY <1>2, <1>3, <2>1, <2>3, <3>3
    <3>4. QED
      BY <3>1, <3>2, <3>3
  <2>6. OneReportPerSilence'
    <3>1. \A i, j \in DOMAIN reports : i < j => reports[i] < reports[j]
      BY DEF HangInv, ReportsInv, OneReportPerSilence
    <3>2. ASSUME NEW i \in DOMAIN reports', NEW j \in DOMAIN reports', i < j
          PROVE  reports'[i] < reports'[j]
      <4>1. i \in DOMAIN reports /\ (j \in DOMAIN reports \/ j = Len(reports) + 1)
        BY <2>3, <3>2
      <4>2. CASE j \in DOMAIN reports
        BY <2>3, <3>1, <3>2, <4>1, <4>2
      <4>3. CASE j = Len(reports) + 1
        BY <2>2, <2>3, <4>1, <4>3
      <4>4. QED
        BY <4>1, <4>2, <4>3
    <3>3. QED
      BY <3>2 DEF OneReportPerSilence
  <2>7. ReportsInv'
    BY <1>6, <2>3, <2>5, <2>6 DEF ReportsInv
  <2>8. QED
    BY <2>3, <2>7
<1>7. CASE verdict = "detected" /\ g_reported' = TRUE /\ reports' = reports
  <2>1. ReportsInv'
    BY <1>1, <1>7, ReportsAge DEF ReportsInv
  <2>2. QED
    BY <1>7, <2>1
<1>8. CASE verdict = "rearmed" /\ g_reported' = FALSE /\ reports' = reports
  <2>1. ~(now - NewestHeartbeat > Threshold)
    BY <1>8, Verdicts
  <2>2. ASSUME NEW i \in DOMAIN reports PROVE reports[i] < NewestHeartbeat
    <3>1. now - reports[i] > Threshold
      BY DEF HangInv, ReportsInv
    <3>2. reports[i] \in 1 .. MaxTime
      BY ONLY <1>4, i \in DOMAIN reports, SeqElement
    <3>3. QED
      BY <1>3, <2>1, <3>1, <3>2
  <2>3. ReportsInv'
    BY <1>1, <1>8, <2>2, ReportsAge DEF ReportsInv
  <2>4. QED
    BY <1>8, <2>3
<1>9. CASE verdict = "none" /\ UNCHANGED <<g_reported, reports>>
  BY <1>1, <1>9, QuietStep
<1>10. QED
  BY <1>5, <1>6, <1>7, <1>8, <1>9

\* Only the check touches what the watchdog remembers.
LEMMA OthersAreQuiet ==
  ASSUME [HangNext]_hangVars, ~CheckForHang
  PROVE  UNCHANGED <<reports, g_reported>>
  BY DEF HangNext, TickBegins, HandledException, EngineMoves, TimePasses, hangVars, watchdogVars

ReportedIsFlag == g_reported \in BOOLEAN

LEMMA FlagStep == ReportedIsFlag /\ [HangNext]_hangVars => ReportedIsFlag'
<1> SUFFICES ASSUME ReportedIsFlag, [HangNext]_hangVars PROVE ReportedIsFlag'
  OBVIOUS
<1>1. CASE CheckForHang
  BY <1>1 DEF CheckForHang, ReportedIsFlag
<1>2. CASE ~CheckForHang
  BY <1>2, OthersAreQuiet DEF ReportedIsFlag
<1>3. QED
  BY <1>1, <1>2

LEMMA HangInductive == HangSpec => [](HangInv /\ ReportedIsFlag)
<1>1. HangInit => ReportedIsFlag
  BY DEF HangInit, ReportedIsFlag
<1>2. ASSUME HangInv, ReportedIsFlag, [HangNext]_hangVars PROVE HangInv'
  <2>1. CASE CheckForHang
    BY <1>2, <2>1, TimeForward, CheckKeepsReports DEF HangInv, ReportedIsFlag
  <2>2. CASE ~CheckForHang
    BY <1>2, <2>2, TimeForward, OthersAreQuiet, QuietStep DEF HangInv
  <2>3. QED
    BY <2>1, <2>2
<1>3. HangInv /\ ReportedIsFlag /\ [HangNext]_hangVars => (HangInv /\ ReportedIsFlag)'
  BY <1>2, FlagStep
<1>4. QED
  BY HangStart, <1>1, <1>3, PTL DEF HangSpec

\* However long the session, whatever ticks fail to read the engine state and whatever
\* reports cannot be written, no silence is reported twice.
THEOREM SilencesAreReportedOnce == HangSpec => []OneReportPerSilence
<1>1. HangInv => OneReportPerSilence
  BY DEF HangInv, ReportsInv
<1>2. QED
  BY HangInductive, <1>1, PTL

\* A hang report is right about every thread that has a slot.
THEOREM ReportedSilenceIsTrue == HangSpec => SilenceIsTrue
<1>1. ASSUME HangInv, ReportedIsFlag, [HangNext]_hangVars, reports' # reports,
             NEW t \in Threads, slotIndex[t] # 0
      PROVE  lastActive[t] <= Last(reports')
  <2>1. CheckForHang
    BY <1>1, OthersAreQuiet
  <2>2. reports'[Len(reports')] = NewestHeartbeat
    BY <1>1, <2>1, CheckKeepsReports DEF ReportedIsFlag
  <2>3. slotIndex[t] \in Slots /\ slots[slotIndex[t]].tid # Free
    BY <1>1, NumbersOfTheTable DEF HangInv, IInv, Life
  <2>4. slots[slotIndex[t]].lastEnteredNs <= NewestHeartbeat
    BY <1>1, <2>3, NewestBounds DEF HangInv, IInv
  <2>5. slots[slotIndex[t]].lastEnteredNs = lastActive[t]
    BY <1>1 DEF HangInv, TimesInv
  <2>6. QED
    BY <2>2, <2>4, <2>5 DEF Last
<1>2. HangInv /\ ReportedIsFlag /\ [HangNext]_hangVars
        => [reports' # reports =>
              \A t \in Threads : slotIndex[t] # 0 => lastActive[t] <= Last(reports')]_hangVars
  BY <1>1
<1>3. QED
  BY HangInductive, <1>2, PTL DEF HangSpec, SilenceIsTrue
=============================================================================
