--------------------------- MODULE SessionHistory ---------------------------
(***************************************************************************)
(* The list of mods that one launch leaves for the next                    *)
(* (snapshot/SessionHistory.cpp, and ComputeModDiffOnce in                 *)
(* snapshot/SnapshotWorker.cpp).  A launch reads session.previous, merges  *)
(* it with the mods it finds, and writes the file anew, all when the first *)
(* inventory of the session is ready; the process may be killed anywhere   *)
(* in between.                                                             *)
(*                                                                         *)
(* Mods are collected from six directories (EnumerateNative), and several  *)
(* may have one name, as REDscope has: it is a plugin of RED4ext and a mod *)
(* of CET.  Names are numbered in their order.                             *)
(***************************************************************************)
EXTENDS Integers, FiniteSets, Sequences

CONSTANTS
  Slots,      \* <<name, place>>: where there may be a mod, and its name
  Hashed,     \* the names that begin with '#'
  Versions,
  PartVersion,\* a version of which only a part reached the file
  MaxLaunches \* bound: launches of the game

ASSUME SlotsAssumption ==
  (\A slot \in Slots : slot[1] \in Nat) /\ PartVersion \notin Versions

VARIABLES
  installed,  \* the mods on the disk, with their versions
  file,       \* session.previous: {} if there is none or its magic line is missing,
              \* otherwise {the set of its mod lines}.  Who reads them sorts them; the
              \* place is not in the file, and only tells equal lines apart
  pc,         \* off, running (no diff yet), read (file read, not yet rewritten),
              \* truncated, done
  diff,       \* g_cachedModDiff
  launches,
  \* History variables; a set holds one list of mods, or none.
  previous,   \* the mods of the last launch that opened the file to write it
  whole,      \* the file holds all that launch meant to write
  wholeThen,  \* so it did when this launch read it
  baseline    \* previous, when this launch read the file

history == <<previous, whole, wholeThen, baseline>>
historyVars == <<installed, file, pc, diff, launches, history>>

Mod == {[name |-> slot[1], place |-> slot[2], version |-> v] : slot \in Slots, v \in Versions}
\* One mod in each slot, and not without end.
ModLists ==
  {mods \in SUBSET Mod :
     IsFiniteSet(mods) /\ \A a, b \in mods : a.name = b.name /\ a.place = b.place => a = b}

NamesOf(mods) == {m.name : m \in mods}

\* What SortByName may make of a list: std::sort does not keep the order of equal names.
Sortings(mods) ==
  {s \in [1 .. Cardinality(mods) -> mods] :
     \A i, j \in 1 .. Cardinality(mods) : i < j => s[i].name <= s[j].name /\ s[i] # s[j]}

NoDiff == [added |-> {}, removed |-> {}, updated |-> {}, priorFilePresent |-> FALSE]

Init ==
  /\ installed \in ModLists
  /\ file = {}
  /\ pc = "off"
  /\ diff = NoDiff
  /\ launches = 0
  /\ whole = TRUE /\ wholeThen = TRUE
  /\ previous = {} /\ baseline = {}

-----------------------------------------------------------------------------
\* ReadSessionPrevious skips the lines that begin with '#'.
ReadMods(lines) == {m \in lines : m.name \notin Hashed}

\* Mutant: both lists advance past a mod that is only in the first.
ComputeModDiffSkips(a, b) ==
  LET D[at \in (1 .. Len(a) + 1) \X (1 .. Len(b) + 1)] ==
        LET i == at[1]
            j == at[2]
        IN IF i > Len(a) THEN [NoDiff EXCEPT !.added = {b[k].name : k \in j .. Len(b)}]
           ELSE IF j > Len(b) THEN [NoDiff EXCEPT !.removed = {a[k].name : k \in i .. Len(a)}]
           ELSE IF a[i].name < b[j].name THEN [D[<<i + 1, j + 1>>] EXCEPT !.removed = @ \cup {a[i].name}]
           ELSE IF a[i].name > b[j].name THEN [D[<<i, j + 1>>] EXCEPT !.added = @ \cup {b[j].name}]
           ELSE IF a[i].version # b[j].version THEN [D[<<i + 1, j + 1>>] EXCEPT !.updated = @ \cup {a[i].name}]
           ELSE D[<<i + 1, j + 1>>]
  IN  D[<<1, 1>>]

\* The merge of two lists sorted by name.
ComputeModDiff(a, b) ==
  LET D[at \in (1 .. Len(a) + 1) \X (1 .. Len(b) + 1)] ==
        LET i == at[1]
            j == at[2]
        IN IF i > Len(a) THEN [NoDiff EXCEPT !.added = {b[k].name : k \in j .. Len(b)}]
           ELSE IF j > Len(b) THEN [NoDiff EXCEPT !.removed = {a[k].name : k \in i .. Len(a)}]
           ELSE IF a[i].name < b[j].name THEN [D[<<i + 1, j>>] EXCEPT !.removed = @ \cup {a[i].name}]
           ELSE IF a[i].name > b[j].name THEN [D[<<i, j + 1>>] EXCEPT !.added = @ \cup {b[j].name}]
           ELSE IF a[i].version # b[j].version THEN [D[<<i + 1, j + 1>>] EXCEPT !.updated = @ \cup {a[i].name}]
           ELSE D[<<i + 1, j + 1>>]
  IN  D[<<1, 1>>]

\* The user changes mods between launches.
ChangeMods ==
  /\ pc = "off"
  /\ installed' \in ModLists \ {installed}
  /\ UNCHANGED <<file, pc, diff, launches, history>>

Launch ==
  /\ pc = "off" /\ launches < MaxLaunches
  /\ launches' = launches + 1
  /\ pc' = "running"
  /\ UNCHANGED <<installed, file, diff, history>>

\* The first inventory that is not empty: the file is read and the diff cached.
ReadAndDiff ==
  /\ pc = "running"
  /\ installed # {}
  /\ \E lines \in IF file = {} THEN {{}} ELSE file :
       \E a \in Sortings(ReadMods(lines)), b \in Sortings(installed) :
         diff' = [ComputeModDiff(a, b) EXCEPT !.priorFilePresent = file # {}]
  /\ pc' = "read"
  /\ wholeThen' = whole /\ baseline' = previous
  /\ UNCHANGED <<installed, file, launches, previous, whole>>

\* WriteSessionPrevious opens the file with std::ios::trunc ...
Truncate ==
  /\ pc = "read"
  /\ file' = {}
  /\ pc' = "truncated"
  /\ previous' = {installed} /\ whole' = FALSE
  /\ UNCHANGED <<installed, diff, launches, wholeThen, baseline>>

\* ... if it can be opened; ComputeModDiffOnce ignores the result ...
OpenFails ==
  /\ pc = "read"
  /\ pc' = "done"
  /\ UNCHANGED <<installed, file, diff, launches, history>>

\* ... and the lines reach it when the stream's buffer is full or closed.
WriteLines ==
  /\ pc = "truncated"
  /\ file' = {installed}
  /\ pc' = "done"
  /\ whole' = TRUE
  /\ UNCHANGED <<installed, diff, launches, previous, wholeThen, baseline>>

\* A part of them does, the last line perhaps cut within its version (cut within
\* its name it has no '|' and is skipped when read); then the disk is full and the
\* result ignored, or the process is about to be killed.
WriteSomeLines ==
  /\ pc = "truncated"
  /\ \E s \in Sortings(installed), n \in 0 .. Cardinality(installed) - 1 :
       LET some == {s[k] : k \in 1 .. n}
           last == [s[n + 1] EXCEPT !.version = PartVersion]
       IN  file' \in {{some}, {some \cup {last}}}
  /\ pc' = "done"
  /\ UNCHANGED <<installed, diff, launches, history>>

\* The process ends, or is killed wherever it is, and its memory goes with it.
End ==
  /\ pc # "off"
  /\ pc' = "off"
  /\ diff' = NoDiff
  /\ wholeThen' = TRUE /\ baseline' = {}
  /\ UNCHANGED <<installed, file, launches, previous, whole>>

Next ==
  \/ ChangeMods \/ Launch \/ ReadAndDiff \/ Truncate
  \/ OpenFails \/ WriteLines \/ WriteSomeLines \/ End

Spec == Init /\ [][Next]_historyVars

-----------------------------------------------------------------------------
(***************************************************************************)
(* Properties.                                                             *)
(***************************************************************************)

TypeOK ==
  /\ installed \subseteq Mod
  /\ Cardinality(file) <= 1
  /\ \A m \in UNION file :
       <<m.name, m.place>> \in Slots /\ m.version \in Versions \cup {PartVersion}
  /\ pc \in {"off", "running", "read", "truncated", "done"}
  /\ diff.added \cup diff.removed \cup diff.updated \subseteq {slot[1] : slot \in Slots}
  /\ launches \in 0 .. MaxLaunches

DiffReady == pc \in {"read", "truncated", "done"}

Copies(mods, n) == Cardinality({m \in mods : m.name = n})
\* The names of which there are more mods after than before.
Added(before, after) == {n \in NamesOf(after) : Copies(after, n) > Copies(before, n)}
\* The names of which some mod before and some mod after, or each and each, differ in version.
SomeChanged(before, after) ==
  {n \in NamesOf(before) : \E m \in before, x \in after : m.name = n /\ x.name = n /\ m.version # x.version}
AllChanged(before, after) ==
  {n \in NamesOf(before) \cap NamesOf(after) :
     \A m \in before, x \in after : m.name = n /\ x.name = n => m.version # x.version}

\* README.md:25, "A diff of which mods were added, removed, or updated since your last
\* launch": exactly the changes since the last launch that wrote its list, through the
\* file and back, whatever crashed in between, as long as that launch wrote it whole.
\* Mods of one name are told by their number: the name is removed if there are fewer of
\* them, though some are left, and it is updated if all their versions changed, and only
\* if two of them differ, which may also be when none of them changed.
\* Mods whose name begins with '#' are the exception: their lines are taken for
\* comments, and each of them is reported as added at every launch.  A file that was cut
\* short, by a crash or a full disk, never makes a mod look removed that is still there,
\* and makes at most one look updated that was not; any may look added.
DiffExact ==
  DiffReady =>
    \A before \in baseline :
      /\ diff.removed \subseteq Added(installed, before)
      /\ Cardinality(diff.updated \ SomeChanged(before, installed)) <= 1
      /\ wholeThen =>
           /\ diff.priorFilePresent
           /\ diff.added = Added(before, installed) \cup (NamesOf(installed) \cap Hashed)
           /\ diff.removed = Added(installed, before) \ Hashed
           /\ diff.updated \subseteq SomeChanged(before, installed) \ Hashed
           /\ AllChanged(before, installed) \ Hashed \subseteq diff.updated
=============================================================================
