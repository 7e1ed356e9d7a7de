------------------------- MODULE GameStateLiveProofs -------------------------
(***************************************************************************)
(* What GameStateLive promises, for any keys, values and table size.       *)
(***************************************************************************)
EXTENDS GameStateLive, TLAPS

\* What the type of the entries says of each.
LEMMA EntryFacts ==
  ASSUME TypeOK
  PROVE  /\ entries \in Seq(Entry) /\ Len(entries) \in Nat
         /\ DOMAIN entries = 1 .. Len(entries)
         /\ \A i \in DOMAIN entries : entries[i].key \in Keys
<1>1. entries \in Seq(Entry)
  BY DEF TypeOK
<1>2. \A i \in DOMAIN entries : entries[i] \in Entry
  BY <1>1
<1> QED
  BY <1>1, <1>2 DEF Entry

\* Giving an entry another value changes nothing else.
LEMMA ReplaceValue ==
  \A es \in Seq(Entry), v \in Values : \A n \in DOMAIN es :
    LET fs == [es EXCEPT ![n].value = v] IN
    /\ fs \in Seq(Entry) /\ Len(fs) = Len(es) /\ DOMAIN fs = DOMAIN es
    /\ \A i \in DOMAIN es : fs[i].key = es[i].key
    /\ \A i \in DOMAIN es : i # n => fs[i] = es[i]
    /\ fs[n] = [key |-> es[n].key, value |-> v]
<1> TAKE es \in Seq(Entry), v \in Values
<1> TAKE n \in DOMAIN es
<1> DEFINE fs == [es EXCEPT ![n].value = v]
           e == [key |-> es[n].key, value |-> v]
<1>1. n \in 1 .. Len(es) /\ Len(es) \in Nat /\ \A i \in 1 .. Len(es) : es[i] \in Entry
  OBVIOUS
<1>2. e \in Entry /\ [es[n] EXCEPT !.value = v] = e
  BY <1>1 DEF Entry
<1>3. fs = [es EXCEPT ![n] = e]
  BY <1>2
<1>4. e.key = es[n].key
  OBVIOUS
<1> HIDE DEF e, fs
<1>5. fs \in Seq(Entry) /\ Len(fs) = Len(es) /\ DOMAIN fs = DOMAIN es
  BY <1>1, <1>2, <1>3
<1>6. fs[n] = e /\ \A i \in DOMAIN es : i # n => fs[i] = es[i]
  BY <1>1, <1>3
<1>7. \A i \in DOMAIN es : fs[i].key = es[i].key
  BY <1>4, <1>6
<1> QED
  BY <1>5, <1>6, <1>7 DEF e, fs

\* What SetLiveState does to the entries and to the last values.
LEMMA SetLiveStateType ==
  ASSUME TypeOK, NEW key \in Keys, NEW value \in Values, SetLiveState(key, value)
  PROVE  /\ entries' \in Seq(Entry)
         /\ Len(entries') <= MaxEntries
         /\ latest' \in [Keys -> Values \cup {NoValue}]
<1>1. latest' \in [Keys -> Values \cup {NoValue}]
  BY DEF TypeOK, SetLiveState
<1>2. CASE \E i \in DOMAIN entries : Finds(key, i) /\ entries' = [entries EXCEPT ![i].value = value]
  <2>1. PICK i \in DOMAIN entries : entries' = [entries EXCEPT ![i].value = value]
    BY <1>2
  <2> QED
    <3>1. entries' \in Seq(Entry) /\ Len(entries') = Len(entries)
      BY <2>1, ReplaceValue, EntryFacts
    <3> QED
      BY <1>1, <3>1 DEF TypeOK
<1>3. CASE Unknown(key) /\ Len(entries) < MaxEntries
           /\ entries' = Append(entries, [key |-> Field[key], value |-> value])
  <2>1. [key |-> Field[key], value |-> value] \in Entry
    BY KeyAssumption DEF Entry
  <2>2. Len(entries') = Len(entries) + 1
    BY <1>3 DEF TypeOK
  <2> QED
    BY <1>1, <1>3, <2>1, <2>2, CapAssumption DEF TypeOK
<1>4. CASE Unknown(key) /\ Len(entries) >= MaxEntries /\ UNCHANGED entries
  BY <1>1, <1>4 DEF TypeOK
<1> QED
  BY <1>2, <1>3, <1>4 DEF SetLiveState

\* Every step keeps the types.
LEMMA TypeInv ==
  ASSUME TypeOK, [Next]_liveVars
  PROVE  TypeOK'
<1>1. ASSUME NEW key \in Keys, NEW value \in Values, SetState(key, value)
      PROVE  TypeOK'
  <2>1. SetLiveState(key, value)
    BY <1>1 DEF SetState
  <2> QED
    BY <1>1, <2>1, SetLiveStateType DEF TypeOK, SetState
<1>2. ASSUME NEW key \in CetKeys, NEW value \in Values, pushIfChanged(key, value)
      PROVE  TypeOK'
  <2>1. key \in Keys /\ SetLiveState(key, value)
    BY <1>2, KeyAssumption DEF pushIfChanged
  <2>2. lastState' \in [CetKeys -> Values \cup {NoValue}] /\ foreign' \subseteq Keys
    BY <1>2 DEF pushIfChanged, TypeOK
  <2> QED
    BY <2>1, <2>2, SetLiveStateType DEF TypeOK
<1>3. CASE UNCHANGED liveVars
  BY <1>3 DEF TypeOK, liveVars
<1> QED
  BY <1>1, <1>2, <1>3 DEF Next

\* The keys of the entries never change, and an entry changes its value only when its
\* key is set; a key that fits gets an entry only under its own name.
LEMMA SetLiveStateKeepsShown ==
  ASSUME TypeOK, LatestShown, NEW key \in Keys, NEW value \in Values, SetLiveState(key, value)
  PROVE  LatestShown'
<1> DEFINE Shown(i, es, last) ==
      Own(es[i].key) =>
        /\ es[i].value = last[es[i].key]
        /\ \A j \in DOMAIN es : es[j].key = es[i].key => i = j
<1>1. latest' = [latest EXCEPT ![key] = value] /\ latest \in [Keys -> Values \cup {NoValue}]
  BY DEF SetLiveState, TypeOK
<1>2. CASE \E i \in DOMAIN entries : Finds(key, i) /\ entries' = [entries EXCEPT ![i].value = value]
  <2>1. PICK n \in DOMAIN entries : Finds(key, n) /\ entries' = [entries EXCEPT ![n].value = value]
    BY <1>2
  <2>2. /\ DOMAIN entries' = DOMAIN entries
        /\ \A i \in DOMAIN entries : entries'[i].key = entries[i].key
        /\ \A i \in DOMAIN entries : i # n => entries'[i].value = entries[i].value
    BY <2>1, ReplaceValue, EntryFacts
  <2>5. entries'[n] = [key |-> entries[n].key, value |-> value]
    BY <2>1, ReplaceValue, EntryFacts
  <2>3. entries[n].key = key
    BY <2>1 DEF Finds
  <2>4. ASSUME NEW i \in DOMAIN entries'
        PROVE  Shown(i, entries', latest')
    <3>1. CASE i = n
      BY <1>1, <2>2, <2>3, <2>5, <3>1 DEF LatestShown
    <3>2. CASE i # n
      <4>1. entries[i].key \in Keys
        BY <2>2, EntryFacts
      <4> QED
        BY <1>1, <2>2, <2>3, <3>2, <4>1 DEF LatestShown
    <3> QED
      BY <3>1, <3>2
  <2> QED
    BY <2>4 DEF LatestShown
<1>3. CASE Unknown(key) /\ Len(entries) < MaxEntries
           /\ entries' = Append(entries, [key |-> Field[key], value |-> value])
  <2> DEFINE n == Len(entries) + 1
  <2>1. /\ DOMAIN entries' = 1 .. n /\ DOMAIN entries = 1 .. Len(entries)
        /\ \A i \in DOMAIN entries : entries'[i] = entries[i]
        /\ entries'[n] = [key |-> Field[key], value |-> value]
        /\ Len(entries) \in Nat
    BY <1>3, KeyAssumption DEF TypeOK
  <2>2. \A i \in DOMAIN entries' : i # n => i \in DOMAIN entries
    BY <2>1
  <2>3. Own(Field[key]) => Field[key] = key
    BY DEF Own
  <2>4. \A i \in DOMAIN entries : entries[i].key \in Keys /\ entries[i].key # key
    BY <1>3, EntryFacts DEF Unknown
  <2>5. ASSUME NEW i \in DOMAIN entries'
        PROVE  Shown(i, entries', latest')
    <3>1. CASE i = n
      BY <1>1, <2>1, <2>2, <2>3, <2>4, <3>1
    <3>2. CASE i # n
      <4>1. i \in DOMAIN entries /\ entries'[i] = entries[i]
        BY <2>1, <2>2, <3>2
      <4>2. Own(entries[i].key) => entries[i].key # Field[key]
        BY <2>4, <4>1 DEF Own
      <4> QED
        BY <1>1, <2>1, <2>2, <2>4, <4>1, <4>2 DEF LatestShown
    <3> QED
      BY <3>1, <3>2
  <2> QED
    BY <2>5 DEF LatestShown
<1>4. CASE Unknown(key) /\ Len(entries) >= MaxEntries /\ UNCHANGED entries
  <2>1. \A i \in DOMAIN entries : entries[i].key \in Keys /\ entries[i].key # key
    BY <1>4, EntryFacts DEF Unknown
  <2> QED
    BY <1>1, <1>4, <2>1 DEF LatestShown
<1> QED
  BY <1>2, <1>3, <1>4 DEF SetLiveState

\* Every step keeps what the table shows.
LEMMA ShownInv ==
  ASSUME TypeOK, LatestShown, [Next]_liveVars
  PROVE  LatestShown'
<1>1. ASSUME NEW key \in Keys, NEW value \in Values, SetState(key, value)
      PROVE  LatestShown'
  BY <1>1, SetLiveStateKeepsShown DEF SetState
<1>2. ASSUME NEW key \in CetKeys, NEW value \in Values, pushIfChanged(key, value)
      PROVE  LatestShown'
  BY <1>2, SetLiveStateKeepsShown, KeyAssumption DEF pushIfChanged
<1>3. CASE UNCHANGED liveVars
  BY <1>3 DEF LatestShown, liveVars
<1> QED
  BY <1>1, <1>2, <1>3 DEF Next

\* Setting another key does not touch what the table shows for a key.
LEMMA OtherKeysKept ==
  ASSUME TypeOK, NEW key \in Keys, NEW value \in Values, SetLiveState(key, value),
         NEW k \in Keys, k # key, Own(k), NEW v,
         \/ \E i \in DOMAIN entries : entries[i] = [key |-> k, value |-> v]
         \/ Unknown(k) /\ Len(entries) = MaxEntries
  PROVE  \/ \E i \in DOMAIN entries' : entries'[i] = [key |-> k, value |-> v]
         \/ Unknown(k)' /\ Len(entries') = MaxEntries
<1>1. CASE \E i \in DOMAIN entries : Finds(key, i) /\ entries' = [entries EXCEPT ![i].value = value]
  <2>1. PICK n \in DOMAIN entries : Finds(key, n) /\ entries' = [entries EXCEPT ![n].value = value]
    BY <1>1
  <2>2. /\ DOMAIN entries' = DOMAIN entries /\ Len(entries') = Len(entries)
        /\ \A i \in DOMAIN entries : entries'[i].key = entries[i].key
        /\ \A i \in DOMAIN entries : i # n => entries'[i] = entries[i]
    BY <2>1, ReplaceValue, EntryFacts
  <2>3. entries[n].key = key
    BY <2>1 DEF Finds
  <2> QED
    BY <2>2, <2>3 DEF Unknown
<1>2. CASE Unknown(key) /\ Len(entries) < MaxEntries
           /\ entries' = Append(entries, [key |-> Field[key], value |-> value])
  <2>1. PICK i \in DOMAIN entries : entries[i] = [key |-> k, value |-> v]
    BY <1>2, CapAssumption DEF TypeOK
  <2>2. i \in DOMAIN entries' /\ entries'[i] = entries[i]
    BY <1>2, KeyAssumption DEF TypeOK
  <2> QED
    BY <2>1, <2>2
<1>3. CASE UNCHANGED entries
  BY <1>3 DEF Unknown
<1> QED
  BY <1>1, <1>2, <1>3 DEF SetLiveState

\* Setting a key that fits shows its value, or finds the table full.
LEMMA SetKeyShown ==
  ASSUME TypeOK, NEW key \in Keys, NEW value \in Values, SetLiveState(key, value), Own(key)
  PROVE  \/ \E i \in DOMAIN entries' : entries'[i] = [key |-> key, value |-> value]
         \/ Unknown(key)' /\ Len(entries') = MaxEntries
<1>1. CASE \E i \in DOMAIN entries : Finds(key, i) /\ entries' = [entries EXCEPT ![i].value = value]
  <2>1. PICK n \in DOMAIN entries : Finds(key, n) /\ entries' = [entries EXCEPT ![n].value = value]
    BY <1>1
  <2>2. DOMAIN entries' = DOMAIN entries /\ entries'[n] = [key |-> entries[n].key, value |-> value]
    BY <2>1, ReplaceValue, EntryFacts
  <2> QED
    BY <2>1, <2>2 DEF Finds
<1>2. CASE Unknown(key) /\ Len(entries) < MaxEntries
           /\ entries' = Append(entries, [key |-> Field[key], value |-> value])
  <2>1. Field[key] = key
    BY DEF Own
  <2>2. Len(entries) + 1 \in DOMAIN entries'
        /\ entries'[Len(entries) + 1] = [key |-> Field[key], value |-> value]
    BY <1>2, KeyAssumption DEF TypeOK
  <2> QED
    BY <2>1, <2>2
<1>3. CASE Unknown(key) /\ Len(entries) >= MaxEntries /\ UNCHANGED entries
  BY <1>3, CapAssumption DEF Unknown, TypeOK
<1> QED
  BY <1>1, <1>2, <1>3 DEF SetLiveState

\* Every step keeps the agreement of cache and table.
LEMMA CacheInv ==
  ASSUME TypeOK, CetCacheTruthful, [Next]_liveVars
  PROVE  CetCacheTruthful'
<1> SUFFICES ASSUME NEW k \in CetKeys, Own(k), k \notin foreign', lastState'[k] # NoValue
             PROVE  \/ \E i \in DOMAIN entries' : entries'[i] = [key |-> k, value |-> lastState'[k]]
                    \/ Unknown(k)' /\ Len(entries') = MaxEntries
  BY DEF CetCacheTruthful
<1>0. k \in Keys
  BY KeyAssumption
<1>1. ASSUME NEW key \in Keys, NEW value \in Values, SetState(key, value)
      PROVE  \/ \E i \in DOMAIN entries' : entries'[i] = [key |-> k, value |-> lastState'[k]]
             \/ Unknown(k)' /\ Len(entries') = MaxEntries
  <2>1. k # key /\ k \notin foreign /\ lastState' = lastState /\ SetLiveState(key, value)
    BY <1>1 DEF SetState
  <2>2. \/ \E i \in DOMAIN entries : entries[i] = [key |-> k, value |-> lastState'[k]]
        \/ Unknown(k) /\ Len(entries) = MaxEntries
    BY <2>1 DEF CetCacheTruthful
  <2> HIDE DEF CetCacheTruthful
  <2> QED
    BY <1>0, <2>1, <2>2, OtherKeysKept
<1>2. ASSUME NEW key \in CetKeys, NEW value \in Values, pushIfChanged(key, value)
      PROVE  \/ \E i \in DOMAIN entries' : entries'[i] = [key |-> k, value |-> lastState'[k]]
             \/ Unknown(k)' /\ Len(entries') = MaxEntries
  <2>1. /\ key \in Keys /\ foreign' = foreign /\ SetLiveState(key, value)
        /\ lastState' = [lastState EXCEPT ![key] = value]
    BY <1>2, KeyAssumption DEF pushIfChanged
  <2>2. CASE k = key
    <3>1. lastState'[k] = value
      BY <2>1, <2>2 DEF TypeOK
    <3> QED
      BY <2>1, <2>2, <3>1, SetKeyShown
  <2>3. CASE k # key
    <3>1. lastState'[k] = lastState[k]
      BY <2>1, <2>3 DEF TypeOK
    <3>2. \/ \E i \in DOMAIN entries : entries[i] = [key |-> k, value |-> lastState'[k]]
          \/ Unknown(k) /\ Len(entries) = MaxEntries
      BY <2>1, <3>1 DEF CetCacheTruthful
    <3> QED
      BY <1>0, <2>1, <2>3, <3>2, OtherKeysKept
  <2> QED
    BY <2>2, <2>3
<1>3. CASE UNCHANGED liveVars
  BY <1>3 DEF CetCacheTruthful, Unknown, liveVars
<1> QED
  BY <1>1, <1>2, <1>3 DEF Next

-----------------------------------------------------------------------------
\* The table never outgrows its array, and the rest of the types hold.
THEOREM TypeCorrect == Spec => []TypeOK
<1>1. Init => TypeOK
  BY CapAssumption DEF Init, TypeOK
<1> QED
  BY <1>1, TypeInv, PTL DEF Spec

\* A key that fits is listed once, with the last value it was given (GameStateLive.cpp:16).
THEOREM ShowsLatestValue == Spec => []LatestShown
<1>1. Init => LatestShown
  BY DEF Init, LatestShown
<1> QED
  BY <1>1, ShownInv, TypeCorrect, PTL DEF Spec

\* init.lua's cache of published values agrees with the table (init.lua:31).
THEOREM CetCacheIsTruthful == Spec => []CetCacheTruthful
<1>1. Init => CetCacheTruthful
  BY DEF Init, CetCacheTruthful
<1> QED
  BY <1>1, CacheInv, TypeCorrect, PTL DEF Spec
=============================================================================
