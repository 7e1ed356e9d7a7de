---------------------------- MODULE GameStateLive ----------------------------
(***************************************************************************)
(* The live state a report shows under "Game state": key and value pairs   *)
(* that the CET side of REDscope (init.lua) and other mods publish through *)
(* the SetState native, in a table of fixed size with fixed-width keys     *)
(* (snapshot/GameStateLive.cpp).  Callers on any thread are serialised by  *)
(* g_mutex, so a call is one step; the snapshot worker copies the table    *)
(* under the same mutex, so what it captures is one of its states.         *)
(***************************************************************************)
EXTENDS Integers, Sequences

CONSTANTS
  Keys,
  CetKeys,   \* the keys that init.lua publishes
  Values,
  NoValue,   \* a key that was never set
  Field,     \* what of each key fits in kGameStateKeyCap, with its terminator
  MaxEntries \* kGameStateMaxEntries

ASSUME KeyAssumption == CetKeys \subseteq Keys /\ Field \in [Keys -> Keys]
\* What fits once, fits again: cutting a key that was cut does nothing.
ASSUME FieldAssumption == \A k \in Keys : Field[Field[k]] = Field[k]
ASSUME CapAssumption == MaxEntries \in Nat \ {0}
ASSUME ValueAssumption == NoValue \notin Values

VARIABLES
  entries,   \* g_live.entries, the first g_live.count
  lastState, \* of init.lua
  latest,    \* history: the last value any caller gave each key
  foreign    \* history: the keys that somebody else set

liveVars == <<entries, lastState, latest, foreign>>

\* A key too long for its field.
Cut(k) == Field[k] # k

Init ==
  /\ entries = << >>
  /\ lastState = [k \in CetKeys |-> NoValue]
  /\ latest = [k \in Keys |-> NoValue]
  /\ foreign = {}

-----------------------------------------------------------------------------
\* The first entry with this key; strncmp sees the whole width of the field, so a key
\* that was cut when it was stored is not found.
Finds(key, i) ==
  /\ i \in DOMAIN entries /\ entries[i].key = key
  /\ \A j \in DOMAIN entries : j < i => entries[j].key # key

Unknown(key) == \A i \in DOMAIN entries : entries[i].key # key

\* Mutant: an entry that exists is left as it is.
SetLiveStateOnce(key, value) ==
  /\ latest' = [latest EXCEPT ![key] = value]
  /\ IF Unknown(key) /\ Len(entries) < MaxEntries
       THEN entries' = Append(entries, [key |-> Field[key], value |-> value])
       ELSE UNCHANGED entries

SetLiveState(key, value) ==
  /\ latest' = [latest EXCEPT ![key] = value]
  /\ \/ \E i \in DOMAIN entries :
          Finds(key, i) /\ entries' = [entries EXCEPT ![i].value = value]
     \/ /\ Unknown(key) /\ Len(entries) < MaxEntries
        /\ entries' = Append(entries, [key |-> Field[key], value |-> value])
     \/ /\ Unknown(key) /\ Len(entries) >= MaxEntries
        /\ UNCHANGED entries

\* Somebody else publishes a value: a mod, from CET through REDscope.SetState or from
\* RedScript, or the snapshot worker, under a key of its own.
SetState(key, value) ==
  /\ SetLiveState(key, value)
  /\ foreign' = foreign \cup {key}
  /\ UNCHANGED lastState

\* init.lua publishes a value it has not published last; the outcome of the call is not
\* looked at, so a value that finds the table full is not tried again.
pushIfChanged(key, value) ==
  /\ lastState[key] # value
  /\ lastState' = [lastState EXCEPT ![key] = value]
  /\ SetLiveState(key, value)
  /\ UNCHANGED foreign

Next ==
  \E value \in Values :
    \/ \E key \in Keys : SetState(key, value)
    \/ \E key \in CetKeys : pushIfChanged(key, value)

Spec == Init /\ [][Next]_liveVars

-----------------------------------------------------------------------------
(***************************************************************************)
(* Properties.                                                             *)
(***************************************************************************)

Entry == [key : Keys, value : Values]

TypeOK ==
  /\ entries \in Seq(Entry)
  /\ Len(entries) <= MaxEntries
  /\ lastState \in [CetKeys -> Values \cup {NoValue}]
  /\ latest \in [Keys -> Values \cup {NoValue}]
  /\ foreign \subseteq Keys

\* Keys that fit and are no other key's beginning.
Own(k) == \A j \in Keys : Field[j] = k <=> j = k

\* Such a key is listed once, with the last value it was given, however many other keys
\* come first, fill the table, or are listed again and again because they were cut.
LatestShown ==
  \A i \in DOMAIN entries :
    Own(entries[i].key) =>
      /\ entries[i].value = latest[entries[i].key]
      /\ \A j \in DOMAIN entries : entries[j].key = entries[i].key => i = j

\* What init.lua takes for published is what the table shows, unless somebody else
\* has used the key or the table was full before the key had an entry.
CetCacheTruthful ==
  \A k \in CetKeys :
    (Own(k) /\ k \notin foreign /\ lastState[k] # NoValue) =>
      \/ \E i \in DOMAIN entries : entries[i] = [key |-> k, value |-> lastState[k]]
      \/ Unknown(k) /\ Len(entries) = MaxEntries
=============================================================================
