-------------------------- MODULE ScriptStackProofs --------------------------
(***************************************************************************)
(* The properties of the script stack for any cap, any nesting and any     *)
(* number of unwound calls.                                                *)
(*                                                                         *)
(* Threads do not touch each other's stacks, so the invariant is stated    *)
(* for one thread and each step is a step of one thread.  Beyond the       *)
(* properties themselves it says that only the innermost detour can be     *)
(* entering or returned: when Pop removes it, the one below it is known to *)
(* have pushed its frame.                                                  *)
(***************************************************************************)
EXTENDS ScriptStack, TLAPS

Calls == [fn : Functions, phase : {"entering", "running", "returned"}]

StackType ==
  /\ calls \in [Threads -> Seq(Calls)]
  /\ frames \in [Threads -> [Slots -> Functions \cup {NoFunction}]]
  /\ depth \in [Threads -> 0 .. kMaxDepth]
  /\ overflow \in [Threads -> Nat]
  /\ leaked \in [Threads -> Nat]

OuterRunning(t) == \A i \in 1 .. Len(calls[t]) - 1 : calls[t][i].phase = "running"
Exact(t) == depth[t] + overflow[t] = Pushed(t) + leaked[t]
Drops(t) == overflow[t] > 0 => depth[t] = kMaxDepth
Matches(t) == leaked[t] = 0 => \A i \in 1 .. depth[t] : frames[t][i] = calls[t][i].fn

StackOK(t) == OuterRunning(t) /\ Exact(t) /\ Drops(t) /\ Matches(t)

StackInv == StackType /\ \A t \in Threads : StackOK(t)

\* What a step of thread t leaves alone: the stacks of the others.
OthersKept(t) ==
  \A u \in Threads \ {t} :
    /\ calls'[u] = calls[u] /\ frames'[u] = frames[u]
    /\ depth'[u] = depth[u] /\ overflow'[u] = overflow[u] /\ leaked'[u] = leaked[u]

\* A step of t that keeps the invariant of t keeps everybody's.
LEMMA OneThreadSuffices ==
  ASSUME NEW t \in Threads, StackInv, StackType', OthersKept(t), StackOK(t)'
  PROVE  StackInv'
  <1> SUFFICES ASSUME NEW u \in Threads, u # t PROVE StackOK(u)'
    BY DEF StackInv
  <1>1. /\ calls'[u] = calls[u] /\ frames'[u] = frames[u]
        /\ depth'[u] = depth[u] /\ overflow'[u] = overflow[u] /\ leaked'[u] = leaked[u]
    BY DEF OthersKept
  <1>2. OuterRunning(u)' /\ Matches(u)' /\ Drops(u)'
    BY <1>1 DEF StackInv, StackOK, OuterRunning, Matches, Drops
  <1>3. Exact(u)'
    BY <1>1 DEF StackInv, StackOK, Exact, Pushed, AtPhase, Phase, Last
  <1> QED
    BY <1>2, <1>3 DEF StackOK

\* SetPhase changes the phase of the innermost detour and nothing else.
LEMMA SetPhaseEffect ==
  ASSUME NEW t \in Threads, StackType, calls[t] # << >>,
         NEW p \in {"entering", "running", "returned"}, SetPhase(t, p)
  PROVE  /\ calls' \in [Threads -> Seq(Calls)]
         /\ \A u \in Threads \ {t} : calls'[u] = calls[u]
         /\ Len(calls'[t]) = Len(calls[t]) /\ Len(calls[t]) \in Nat \ {0}
         /\ \A i \in 1 .. Len(calls[t]) : calls'[t][i].fn = calls[t][i].fn
         /\ \A i \in 1 .. Len(calls[t]) - 1 : calls'[t][i] = calls[t][i]
         /\ calls'[t][Len(calls[t])].phase = p
  <1> DEFINE s == calls[t]
             n == Len(s)
             r == [s[n] EXCEPT !.phase = p]
  <1>1. s \in Seq(Calls) /\ n \in Nat \ {0} /\ s[n] \in Calls
    BY DEF StackType
  <1>2. r \in Calls /\ r.fn = s[n].fn /\ r.phase = p
    BY <1>1 DEF Calls
  <1>3. calls' = [calls EXCEPT ![t] = [s EXCEPT ![n] = r]]
    BY DEF SetPhase
  <1>4. [s EXCEPT ![n] = r] \in Seq(Calls) /\ Len([s EXCEPT ![n] = r]) = n
    BY <1>1, <1>2
  <1>5. \A i \in 1 .. n : [s EXCEPT ![n] = r][i] = IF i = n THEN r ELSE s[i]
    BY <1>1
  <1>6. calls'[t] = [s EXCEPT ![n] = r]
    BY <1>3 DEF StackType
  <1>7. calls' \in [Threads -> Seq(Calls)] /\ \A u \in Threads \ {t} : calls'[u] = calls[u]
    BY <1>3, <1>4 DEF StackType
  <1> QED
    BY <1>1, <1>2, <1>4, <1>5, <1>6, <1>7

\* The empty stacks of the start.
LEMMA InitStackInv == Init => StackInv
  <1> SUFFICES ASSUME Init PROVE StackInv
    OBVIOUS
  <1>1. calls \in [Threads -> Seq(Calls)]
    BY DEF Init
  <1>2. /\ frames \in [Threads -> [Slots -> Functions \cup {NoFunction}]]
        /\ overflow \in [Threads -> Nat] /\ leaked \in [Threads -> Nat]
    BY DEF Init
  <1>3. depth \in [Threads -> 0 .. kMaxDepth]
    BY DepthAssumption DEF Init
  <1>4. ASSUME NEW t \in Threads PROVE StackOK(t)
    BY DEF Init, StackOK, OuterRunning, Exact, Drops, Matches, Pushed, AtPhase
  <1> QED
    BY <1>1, <1>2, <1>3, <1>4 DEF StackInv, StackType

\* A detour that is entered adds a call whose frame is not on the stack yet.
LEMMA CallKeepsStack ==
  ASSUME StackInv, NEW t \in Threads, NEW f \in Functions, Call(t, f)
  PROVE  StackInv'
  <1> DEFINE c == [fn |-> f, phase |-> "entering"]
             n == Len(calls[t])
  <1>1. calls[t] \in Seq(Calls) /\ c \in Calls /\ n \in Nat
    <2>1. calls[t] \in Seq(Calls)
      BY DEF StackInv, StackType
    <2>2. c \in Calls
      BY DEF Calls
    <2> QED
      BY <2>1, <2>2
  <1>2. calls' = [calls EXCEPT ![t] = Append(calls[t], c)]
    BY DEF Call
  <1>3. /\ calls'[t] = Append(calls[t], c) /\ Len(calls'[t]) = n + 1
        /\ \A i \in 1 .. n : calls'[t][i] = calls[t][i]
        /\ calls'[t][n + 1] = c
    BY <1>1, <1>2 DEF StackInv, StackType
  <1>4. frames' = frames /\ depth' = depth /\ overflow' = overflow /\ leaked' = leaked
    BY DEF Call
  <1>5. StackType'
    <2>1. calls' \in [Threads -> Seq(Calls)]
      BY <1>1, <1>2 DEF StackInv, StackType
    <2> QED
      BY <2>1, <1>4 DEF StackInv, StackType
  <1>6. OthersKept(t)
    BY <1>2, <1>4 DEF OthersKept, StackInv, StackType
  <1>7. Pushed(t) = n
    BY <1>1 DEF Call, Pushed, AtPhase, Phase
  <1>8. Pushed(t)' = n
    BY <1>1, <1>3 DEF Pushed, AtPhase, Phase, Last
  <1>9. \A i \in 1 .. n : calls[t][i].phase = "running"
    BY <1>1 DEF Call, AtPhase, Phase, Last, StackInv, StackOK, OuterRunning
  <1>10. OuterRunning(t)'
    BY <1>1, <1>3, <1>9 DEF OuterRunning
  <1>11. Exact(t)' /\ Drops(t)'
    BY <1>4, <1>7, <1>8 DEF StackInv, StackOK, Exact, Drops
  <1>12. Matches(t)'
    <2>1. leaked[t] = 0 => 1 .. depth[t] \subseteq 1 .. n
      BY <1>1, <1>7 DEF StackInv, StackType, StackOK, Exact
    <2> QED
      BY <2>1, <1>3, <1>4 DEF StackInv, StackOK, Matches
  <1> QED
    BY <1>5, <1>6, <1>10, <1>11, <1>12, OneThreadSuffices DEF StackOK

\* The frame goes on top of those of the calls outside it, or is counted.
LEMMA PushKeepsStack ==
  ASSUME StackInv, NEW t \in Threads, Push(t)
  PROVE  StackInv'
  <1> DEFINE n == Len(calls[t])
  <1>1. calls[t] # << >> /\ calls[t][n].phase = "entering" /\ SetPhase(t, "running")
    BY DEF Push, AtPhase, Phase, Last
  <1>2. StackType
    BY DEF StackInv
  <1>3. /\ calls' \in [Threads -> Seq(Calls)]
        /\ \A u \in Threads \ {t} : calls'[u] = calls[u]
        /\ Len(calls'[t]) = n /\ n \in Nat \ {0}
        /\ \A i \in 1 .. n : calls'[t][i].fn = calls[t][i].fn
        /\ \A i \in 1 .. n - 1 : calls'[t][i] = calls[t][i]
        /\ calls'[t][n].phase = "running"
    BY <1>1, <1>2, SetPhaseEffect
  <1>4. calls[t][n].fn \in Functions
    <2>1. calls[t] \in Seq(Calls) /\ n \in 1 .. Len(calls[t])
      BY <1>2, <1>3 DEF StackType
    <2>2. calls[t][n] \in Calls
      BY <2>1
    <2> QED
      BY <2>2 DEF Calls
  <1>5. Pushed(t) = n - 1 /\ Pushed(t)' = n
    BY <1>1, <1>3 DEF Pushed, AtPhase, Phase, Last
  <1>6. OuterRunning(t)'
    BY <1>3 DEF StackInv, StackOK, OuterRunning
  <1>7. leaked' = leaked
    BY DEF Push
  <1>8. depth[t] \in 0 .. kMaxDepth /\ overflow[t] \in Nat /\ leaked[t] \in Nat /\ kMaxDepth \in Nat \ {0}
    BY <1>2, DepthAssumption DEF StackType
  <1>9. Exact(t) /\ Drops(t) /\ Matches(t)
    BY DEF StackInv, StackOK
  <1>10. CASE depth[t] < kMaxDepth
    <2>1. /\ frames' = [frames EXCEPT ![t] = [frames[t] EXCEPT ![depth[t] + 1] = calls[t][n].fn]]
          /\ depth' = [depth EXCEPT ![t] = depth[t] + 1]
          /\ overflow' = overflow
      BY <1>10 DEF Push, Last
    <2>2. StackType'
      <3>1. frames' \in [Threads -> [Slots -> Functions \cup {NoFunction}]]
        BY <1>2, <1>4, <2>1 DEF StackType
      <3>2. depth' \in [Threads -> 0 .. kMaxDepth]
        BY <1>2, <1>8, <1>10, <2>1 DEF StackType
      <3> QED
        BY <1>2, <1>3, <1>7, <2>1, <3>1, <3>2 DEF StackType
    <2>3. depth'[t] = depth[t] + 1 /\ overflow'[t] = overflow[t] /\ leaked'[t] = leaked[t]
      BY <1>2, <1>7, <2>1 DEF StackType
    <2>4. overflow[t] = 0
      BY <1>8, <1>9, <1>10 DEF Drops
    <2>5. Exact(t)'
      BY <1>5, <1>8, <1>9, <1>3, <2>3, <2>4 DEF Exact
    <2>6. Drops(t)'
      BY <2>3, <2>4 DEF Drops
    <2>7. \A i \in Slots : frames'[t][i] = IF i = depth[t] + 1 THEN calls[t][n].fn ELSE frames[t][i]
      BY <1>2, <1>8, <1>10, <2>1 DEF StackType, Slots
    <2>8. Matches(t)'
      <3> SUFFICES ASSUME leaked[t] = 0, NEW i \in 1 .. depth[t] + 1
                   PROVE  frames'[t][i] = calls'[t][i].fn
        BY <2>3 DEF Matches
      <3>1. depth[t] + 1 = n
        BY <1>3, <1>5, <1>8, <1>9, <2>4 DEF Exact
      <3>2. i \in Slots /\ i \in 1 .. n
        BY <1>3, <1>8, <1>10, <3>1 DEF Slots
      <3>3. calls'[t][i].fn = calls[t][i].fn
        BY <1>3, <3>2
      <3>4. CASE i = n
        BY <2>7, <3>1, <3>2, <3>3, <3>4
      <3>5. CASE i # n
        BY <1>8, <1>9, <2>7, <3>1, <3>2, <3>3, <3>5 DEF Matches
      <3> QED
        BY <3>4, <3>5
    <2>9. OthersKept(t)
      BY <1>2, <1>3, <1>7, <2>1 DEF OthersKept, StackType
    <2> QED
      BY <1>6, <2>2, <2>5, <2>6, <2>8, <2>9, OneThreadSuffices DEF StackOK
  <1>11. CASE ~(depth[t] < kMaxDepth)
    <2>1. /\ overflow' = [overflow EXCEPT ![t] = overflow[t] + 1]
          /\ frames' = frames /\ depth' = depth
      BY <1>11 DEF Push
    <2>2. StackType'
      BY <1>2, <1>3, <1>7, <1>8, <2>1 DEF StackType
    <2>3. overflow'[t] = overflow[t] + 1 /\ depth'[t] = depth[t] /\ leaked'[t] = leaked[t]
      BY <1>2, <1>7, <2>1 DEF StackType
    <2>4. Exact(t)'
      <3>1. depth[t] + overflow[t] = n - 1 + leaked[t]
        BY <1>5, <1>9 DEF Exact
      <3>2. n \in Int
        BY <1>3
      <3>3. depth[t] \in Int /\ overflow[t] \in Int /\ leaked[t] \in Int
        BY <1>8
      <3>4. depth[t] + (overflow[t] + 1) = n + leaked[t]
        <4> HIDE DEF n
        <4> QED
          BY <3>1, <3>2, <3>3
      <3>5. depth'[t] + overflow'[t] = n + leaked'[t]
        BY <2>3, <3>4
      <3> QED
        BY <1>5, <3>5 DEF Exact
    <2>5. Drops(t)'
      BY <1>8, <1>11, <2>1 DEF Drops
    <2>6. Matches(t)'
      <3>1. leaked[t] = 0 => 1 .. depth[t] \subseteq 1 .. n
        BY <1>3, <1>5, <1>8, <1>9 DEF Exact
      <3> QED
        BY <1>3, <1>7, <1>9, <2>1, <3>1 DEF Matches
    <2>7. OthersKept(t)
      BY <1>2, <1>3, <1>7, <2>1 DEF OthersKept, StackType
    <2> QED
      BY <1>6, <2>2, <2>4, <2>5, <2>6, <2>7, OneThreadSuffices DEF StackOK
  <1> QED
    BY <1>10, <1>11

\* The call has returned and its frame is still there.
LEMMA ReturnKeepsStack ==
  ASSUME StackInv, NEW t \in Threads, Return(t)
  PROVE  StackInv'
  <1> DEFINE n == Len(calls[t])
  <1>1. calls[t] # << >> /\ calls[t][n].phase = "running" /\ SetPhase(t, "returned")
    BY DEF Return, AtPhase, Phase, Last
  <1>2. StackType
    BY DEF StackInv
  <1>3. /\ calls' \in [Threads -> Seq(Calls)]
        /\ \A u \in Threads \ {t} : calls'[u] = calls[u]
        /\ Len(calls'[t]) = n /\ n \in Nat \ {0}
        /\ \A i \in 1 .. n : calls'[t][i].fn = calls[t][i].fn
        /\ \A i \in 1 .. n - 1 : calls'[t][i] = calls[t][i]
        /\ calls'[t][n].phase = "returned"
    BY <1>1, <1>2, SetPhaseEffect
  <1>4. frames' = frames /\ depth' = depth /\ overflow' = overflow /\ leaked' = leaked
    BY DEF Return
  <1>5. Pushed(t) = n /\ Pushed(t)' = n
    BY <1>1, <1>3 DEF Pushed, AtPhase, Phase, Last
  <1>6. OuterRunning(t)' /\ Exact(t)' /\ Drops(t)'
    BY <1>3, <1>4, <1>5 DEF StackInv, StackOK, OuterRunning, Exact, Drops
  <1>7. leaked[t] = 0 => 1 .. depth[t] \subseteq 1 .. n
    BY <1>2, <1>3, <1>5 DEF StackInv, StackType, StackOK, Exact
  <1>8. Matches(t)'
    BY <1>3, <1>4, <1>7 DEF StackInv, StackOK, Matches
  <1>9. StackType' /\ OthersKept(t)
    BY <1>2, <1>3, <1>4 DEF StackType, OthersKept
  <1> QED
    BY <1>6, <1>8, <1>9, OneThreadSuffices DEF StackOK

\* A step that leaves the first k calls of t, all of them running, and nothing else
\* on the machine stack of t.
LEMMA CutEffect ==
  ASSUME StackInv, NEW t \in Threads, NEW k \in Nat, k < Len(calls[t]),
         calls' = [calls EXCEPT ![t] = SubSeq(calls[t], 1, k)]
  PROVE  /\ calls' \in [Threads -> Seq(Calls)]
         /\ \A u \in Threads \ {t} : calls'[u] = calls[u]
         /\ Len(calls'[t]) = k
         /\ \A i \in 1 .. k : calls'[t][i] = calls[t][i]
         /\ OuterRunning(t)'
         /\ Pushed(t)' = k
  <1>1. calls[t] \in Seq(Calls) /\ Len(calls[t]) \in Nat
    BY DEF StackInv, StackType
  <1>2. SubSeq(calls[t], 1, k) \in Seq(Calls) /\ Len(SubSeq(calls[t], 1, k)) = k
    BY <1>1
  <1>3. \A i \in 1 .. k : SubSeq(calls[t], 1, k)[i] = calls[t][i]
    BY <1>1
  <1>4. calls'[t] = SubSeq(calls[t], 1, k)
    BY DEF StackInv, StackType
  <1>5. \A i \in 1 .. k : calls'[t][i].phase = "running"
    BY <1>1, <1>3, <1>4 DEF StackInv, StackOK, OuterRunning
  <1>6. OuterRunning(t)'
    BY <1>2, <1>4, <1>5 DEF OuterRunning
  <1>7. Pushed(t)' = k
    <2>1. CASE k = 0
      <3>1. SubSeq(calls[t], 1, k) = << >>
        BY <1>1, <2>1
      <3>2. calls'[t] = << >>
        BY <1>4, <3>1
      <3> QED
        BY <1>2, <1>4, <2>1, <3>2 DEF Pushed, AtPhase
    <2>2. CASE k # 0
      <3>1. calls'[t][Len(calls'[t])].phase = "running"
        BY <1>2, <1>4, <1>5, <2>2
      <3> QED
        BY <1>2, <1>4, <3>1 DEF Pushed, AtPhase, Phase, Last
    <2> QED
      BY <2>1, <2>2
  <1>8. calls' \in [Threads -> Seq(Calls)] /\ \A u \in Threads \ {t} : calls'[u] = calls[u]
    BY <1>2 DEF StackInv, StackType
  <1> QED
    BY <1>2, <1>3, <1>4, <1>6, <1>7, <1>8

\* Dropped calls are discounted before kept frames, so the frame that goes is the
\* one of the call that returned.
LEMMA PopKeepsStack ==
  ASSUME StackInv, NEW t \in Threads, Pop(t)
  PROVE  StackInv'
  <1> DEFINE n == Len(calls[t])
  <1>1. StackType /\ calls[t] # << >> /\ calls[t][n].phase = "returned"
    BY DEF StackInv, Pop, Leave, AtPhase, Phase, Last
  <1>2. n \in Nat \ {0}
    BY <1>1 DEF StackType
  <1>3. calls' = [calls EXCEPT ![t] = SubSeq(calls[t], 1, n - 1)]
    BY DEF Pop, Leave
  <1>4. /\ calls' \in [Threads -> Seq(Calls)]
        /\ \A u \in Threads \ {t} : calls'[u] = calls[u]
        /\ Len(calls'[t]) = n - 1
        /\ \A i \in 1 .. n - 1 : calls'[t][i] = calls[t][i]
        /\ OuterRunning(t)' /\ Pushed(t)' = n - 1
    <2>1. n - 1 \in Nat /\ n - 1 < n
      BY <1>2
    <2>2. n - 1 < Len(calls[t])
      BY <2>1
    <2> HIDE DEF n
    <2> QED
      BY <1>3, <2>1, <2>2, CutEffect
  <1>5. Pushed(t) = n
    BY <1>1 DEF Pushed, AtPhase, Phase, Last
  <1>6. frames' = frames /\ leaked' = leaked
    BY DEF Pop
  <1>7. depth[t] \in 0 .. kMaxDepth /\ overflow[t] \in Nat /\ leaked[t] \in Nat /\ kMaxDepth \in Nat \ {0}
    BY <1>1, DepthAssumption DEF StackType
  <1>8. Exact(t) /\ Drops(t) /\ Matches(t)
    BY DEF StackInv, StackOK
  <1>9. CASE overflow[t] > 0
    <2>1. overflow' = [overflow EXCEPT ![t] = overflow[t] - 1] /\ depth' = depth
      BY <1>9 DEF Pop
    <2>2. overflow'[t] = overflow[t] - 1 /\ depth'[t] = depth[t] /\ leaked'[t] = leaked[t] /\ frames'[t] = frames[t]
      BY <1>1, <1>6, <2>1 DEF StackType
    <2>3. StackType'
      BY <1>1, <1>4, <1>6, <1>7, <1>9, <2>1 DEF StackType
    <2>4. Exact(t)' /\ Drops(t)'
      <3>1. depth[t] + overflow[t] = n + leaked[t]
        BY <1>5, <1>8 DEF Exact
      <3>2. n \in Int /\ depth[t] \in Int /\ overflow[t] \in Int /\ leaked[t] \in Int
        BY <1>2, <1>7
      <3>3. depth[t] + (overflow[t] - 1) = n - 1 + leaked[t]
        <4> HIDE DEF n
        <4> QED
          BY <3>1, <3>2
      <3>4. depth'[t] + overflow'[t] = n - 1 + leaked'[t]
        BY <2>2, <3>3
      <3>5. Exact(t)'
        BY <1>4, <3>4 DEF Exact
      <3> QED
        BY <1>8, <1>9, <2>2, <3>5 DEF Drops
    <2>5. leaked[t] = 0 => 1 .. depth[t] \subseteq 1 .. n - 1
      BY <1>2, <1>5, <1>7, <1>8, <1>9 DEF Exact
    <2>6. Matches(t)'
      BY <1>4, <1>8, <2>2, <2>5 DEF Matches
    <2>7. OthersKept(t)
      BY <1>1, <1>4, <1>6, <2>1 DEF OthersKept, StackType
    <2> QED
      BY <1>4, <2>3, <2>4, <2>6, <2>7, OneThreadSuffices DEF StackOK
  <1>10. CASE ~(overflow[t] > 0)
    <2>1. depth[t] > 0 /\ overflow[t] = 0
      BY <1>2, <1>5, <1>7, <1>8, <1>10 DEF Exact
    <2>2. depth' = [depth EXCEPT ![t] = depth[t] - 1] /\ overflow' = overflow
      BY <1>10, <2>1 DEF Pop
    <2>3. overflow'[t] = 0 /\ depth'[t] = depth[t] - 1 /\ leaked'[t] = leaked[t] /\ frames'[t] = frames[t]
      BY <1>1, <1>6, <2>1, <2>2 DEF StackType
    <2>4. depth' \in [Threads -> 0 .. kMaxDepth]
      BY <1>1, <1>7, <2>1, <2>2 DEF StackType
    <2>5. StackType'
      BY <1>1, <1>4, <1>6, <2>2, <2>4 DEF StackType
    <2>6. Exact(t)' /\ Drops(t)'
      BY <1>2, <1>4, <1>5, <1>7, <1>8, <2>1, <2>3 DEF Exact, Drops
    <2>7. leaked[t] = 0 => 1 .. depth[t] - 1 \subseteq 1 .. n - 1 /\ 1 .. depth[t] - 1 \subseteq 1 .. depth[t]
      BY <1>2, <1>5, <1>7, <1>8, <2>1 DEF Exact
    <2>8. Matches(t)'
      BY <1>4, <1>8, <2>3, <2>7 DEF Matches
    <2>9. OthersKept(t)
      BY <1>1, <1>4, <1>6, <2>2 DEF OthersKept, StackType
    <2> QED
      BY <1>4, <2>5, <2>6, <2>8, <2>9, OneThreadSuffices DEF StackOK
  <1> QED
    BY <1>9, <1>10

\* The frames of the calls that were unwound stay, and are counted as leaked.
LEMMA UnwindKeepsStack ==
  ASSUME StackInv, NEW t \in Threads, NEW k \in 0 .. MaxCalls, Unwind(t, k)
  PROVE  StackInv'
  <1> DEFINE n == Len(calls[t])
  <1>1. StackType /\ k \in Nat /\ k < n /\ calls[t] # << >> /\ calls[t][n].phase = "running"
    BY CallBounds DEF StackInv, Unwind, AtPhase, Phase, Last
  <1>2. n \in Nat
    BY <1>1 DEF StackType
  <1>3. calls' = [calls EXCEPT ![t] = SubSeq(calls[t], 1, k)]
    BY DEF Unwind
  <1>4. /\ calls' \in [Threads -> Seq(Calls)]
        /\ \A u \in Threads \ {t} : calls'[u] = calls[u]
        /\ OuterRunning(t)' /\ Pushed(t)' = k
    BY <1>1, <1>3, CutEffect
  <1>5. Pushed(t) = n
    BY <1>1 DEF Pushed, AtPhase, Phase, Last
  <1>6. /\ frames' = frames /\ depth' = depth /\ overflow' = overflow
        /\ leaked' = [leaked EXCEPT ![t] = leaked[t] + n - k]
    BY DEF Unwind
  <1>7. depth[t] \in 0 .. kMaxDepth /\ overflow[t] \in Nat /\ leaked[t] \in Nat
    BY <1>1 DEF StackType
  <1>8. leaked'[t] = leaked[t] + n - k /\ depth'[t] = depth[t] /\ overflow'[t] = overflow[t]
    BY <1>1, <1>6 DEF StackType
  <1>9. leaked[t] + n - k \in Nat \ {0}
    BY <1>1, <1>2, <1>7
  <1>10. leaked' \in [Threads -> Nat]
    BY <1>1, <1>6, <1>9 DEF StackType
  <1>11. StackType'
    BY <1>1, <1>4, <1>6, <1>10 DEF StackType
  <1>12. Exact(t)' /\ Drops(t)'
    <2>1. depth[t] + overflow[t] = n + leaked[t]
      BY <1>5 DEF StackInv, StackOK, Exact
    <2>2. k \in Nat
      BY <1>1
    <2>3. depth'[t] + overflow'[t] = k + leaked'[t]
      BY <1>2, <1>7, <1>8, <2>1, <2>2
    <2>4. Exact(t)'
      BY <1>4, <2>3 DEF Exact
    <2> QED
      BY <1>8, <2>4 DEF StackInv, StackOK, Drops
  <1>13. Matches(t)'
    BY <1>8, <1>9 DEF Matches
  <1>14. OthersKept(t)
    BY <1>1, <1>4, <1>6 DEF OthersKept, StackType
  <1> QED
    BY <1>4, <1>11, <1>12, <1>13, <1>14, OneThreadSuffices DEF StackOK

\* Every step keeps the invariant.
LEMMA NextStackInv == StackInv /\ [Next]_stackVars => StackInv'
  <1> SUFFICES ASSUME StackInv, [Next]_stackVars PROVE StackInv'
    OBVIOUS
  <1>1. CASE UNCHANGED stackVars
    BY <1>1 DEF stackVars, StackInv, StackType, StackOK, OuterRunning, Exact, Drops, Matches,
                Pushed, AtPhase, Phase, Last
  <1>2. ASSUME NEW t \in Threads, NEW f \in Functions, Call(t, f) PROVE StackInv'
    BY <1>2, CallKeepsStack
  <1>3. ASSUME NEW t \in Threads, Push(t) \/ Return(t) \/ Pop(t) PROVE StackInv'
    BY <1>3, PushKeepsStack, ReturnKeepsStack, PopKeepsStack
  <1>4. ASSUME NEW t \in Threads, NEW k \in 0 .. MaxCalls, Unwind(t, k) PROVE StackInv'
    BY <1>4, UnwindKeepsStack
  <1> QED
    BY <1>1, <1>2, <1>3, <1>4 DEF Next

\* The invariant holds in every reachable state.
LEMMA StackInvAlways == Spec => []StackInv
  BY InitStackInv, NextStackInv, PTL DEF Spec

\* Push and Pop count every call, at any depth (ScriptStack.cpp:38-56).
THEOREM CountersAreExact == Spec => []CountersExact
  <1>1. StackInv => CountersExact
    BY DEF StackInv, StackOK, Exact, CountersExact
  <1> QED
    BY StackInvAlways, <1>1, PTL

\* Only frames beyond the cap are missing from a report (Sections.cpp:645).
THEOREM DropsInnermostOnly == Spec => []DropsInnermost
  <1>1. StackInv => DropsInnermost
    BY DEF StackInv, StackOK, Drops, DropsInnermost
  <1> QED
    BY StackInvAlways, <1>1, PTL

\* Where no exception unwound a detour, the report lists the calls in flight
\* (Sections.cpp:624-642).
THEOREM StackListsCalls == Spec => []StackMatchesCalls
  <1>1. StackInv => StackMatchesCalls
    BY DEF StackInv, StackOK, Matches, StackMatchesCalls
  <1> QED
    BY StackInvAlways, <1>1, PTL

\* A report classed native is right about scripts (Sections.cpp:1124).
THEOREM NativeIsTruthful == Spec => []NativeMeansNoScript
  <1>1. ASSUME StackInv, NEW t \in Threads, depth[t] = 0 PROVE Pushed(t) = 0
    <2>1. overflow[t] = 0
      <3>1. kMaxDepth # 0
        BY DepthAssumption
      <3>2. overflow[t] \in Nat /\ ~(overflow[t] > 0)
        BY <1>1, <3>1 DEF StackInv, StackType, StackOK, Drops
      <3> QED
        BY <3>2
    <2>2. Pushed(t) \in Nat
      <3>1. Len(calls[t]) \in Nat /\ (calls[t] # << >> => Len(calls[t]) - 1 \in Nat)
        BY <1>1 DEF StackInv, StackType
      <3> QED
        BY <3>1 DEF Pushed, AtPhase
    <2> QED
      BY <1>1, <2>1, <2>2 DEF StackInv, StackType, StackOK, Exact
  <1>2. StackInv => NativeMeansNoScript
    BY <1>1 DEF NativeMeansNoScript
  <1> QED
    BY StackInvAlways, <1>2, PTL
=============================================================================
