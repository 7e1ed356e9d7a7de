-------------------------- MODULE PluginServicesProofs --------------------------
(***************************************************************************)
(* The download of symbols: for any number of callers, targets and         *)
(* releases, whatever fails, one download at a time, no PDB that is known  *)
(* to be of another build is placed, and what was to be had is found.      *)
(*                                                                         *)
(* Loading and unloading the plugin: the order of Boot and Teardown keeps  *)
(* the hook single and the logger alive for the worker, however the steps  *)
(* of the worker, of the game and of the loader of the symbols fall        *)
(* between theirs.                                                         *)
(*                                                                         *)
(* The table of symbols: for files of any size, what a report calls a      *)
(* function of the game by is its nearest name.                            *)
(***************************************************************************)
EXTENDS SymbolFetch, PluginLifecycle, FiniteSetTheorems, TLAPS

\* Releases and entries are counted from 1.
Positive == Nat \ {0}

Runner == [at : {"idle", "target", "release", "extract", "write", "fetched", "done"},
           target : DOMAIN Targets, release : Positive, entry : Positive, placed : BOOLEAN, clean : BOOLEAN]
Going == {r \in Runner : r.at # "idle"}

\* The flag is set exactly while one caller runs, and that is always at one of the targets.
Alone ==
  /\ inFlight \in BOOLEAN
  /\ runner \in [Callers -> Runner]
  /\ OneDownload

\* Every identifier that is wanted has been noted, and so has every one on the disk.
Noted ==
  /\ want \in Wants
  /\ \A t \in DOMAIN Targets : want[t] \in wanted \cup {NoId}
  /\ disk \in [Names -> [id : wanted \cup {NoId}, cut : {"no", "early", "late", "absent"}]]

FetchInv == Alone /\ Noted

LEMMA IdleType == Idle \in Runner
  BY FetchAssumption DEF Idle, Runner, Positive

LEMMA FetchInitInv ==
  ASSUME FetchInit
  PROVE  FetchInv
<1>1. \A c \in Callers : ~Running(c)
  BY DEF FetchInit, Running, Idle
<1>2. inFlight = FALSE
  BY DEF FetchInit
<1>3. runner \in [Callers -> Runner]
  BY IdleType DEF FetchInit
<1>4. OneDownload
  BY <1>1, <1>2 DEF OneDownload
<1>5. Alone
  BY <1>2, <1>3, <1>4 DEF Alone
<1>6. \A t \in DOMAIN Targets : want[t] \in wanted \cup {NoId}
  BY FetchAssumption DEF FetchInit
<1>7. QED
  BY <1>5, <1>6 DEF FetchInit, FetchInv, Noted, Absent

----------------------------------------------------------------------------
(* The flag *)

\* A step in which the caller that runs goes on running.
LEMMA GoesOn ==
  ASSUME Alone, NEW c \in Callers, Running(c), UNCHANGED inFlight,
         NEW next \in Going, Move(c, next)
  PROVE  Alone'
<1>1. \A d \in Callers : Running(d)' <=> Running(d)
  BY DEF Alone, Move, Running, Going
<1>2. OneDownload'
  BY <1>1 DEF Alone, OneDownload
<1>3. runner' \in [Callers -> Runner]
  BY DEF Alone, Move, Going
<1>4. QED
  BY <1>2, <1>3 DEF Alone

\* What the record of a caller may become.
LEMMA Records ==
  ASSUME NEW r \in Going
  PROVE  /\ \A at \in {"target", "release", "extract", "write", "fetched", "done"} : [r EXCEPT !.at = at] \in Going
         /\ [r EXCEPT !.at = "release", !.release = 1] \in Going
         /\ [r EXCEPT !.at = "extract", !.entry = 1, !.placed = FALSE] \in Going
         /\ [r EXCEPT !.release = @ + 1] \in Going
         /\ [r EXCEPT !.release = @ + 1, !.clean = FALSE] \in Going
         /\ [r EXCEPT !.entry = @ + 1] \in Going
         /\ [r EXCEPT !.entry = @ + 1, !.clean = FALSE] \in Going
         /\ [r EXCEPT !.at = "extract", !.entry = @ + 1, !.placed = TRUE] \in Going
         /\ [r EXCEPT !.at = "extract", !.entry = @ + 1, !.clean = FALSE] \in Going
         /\ [r EXCEPT !.at = "release", !.release = @ + 1] \in Going
<1>1. 1 \in Positive /\ r.release + 1 \in Positive /\ r.entry + 1 \in Positive
  BY DEF Going, Runner, Positive
<1>2. \A at \in {"target", "release", "extract", "write", "fetched", "done"} : [r EXCEPT !.at = at] \in Going
  BY DEF Going, Runner
<1>3. \A n \in Positive : [r EXCEPT !.at = "extract", !.entry = n, !.placed = FALSE] \in Going
  BY DEF Going, Runner
<1>4. \A n \in Positive : [r EXCEPT !.release = n] \in Going
  BY DEF Going, Runner
<1>5. \A n \in Positive : [r EXCEPT !.release = n, !.clean = FALSE] \in Going
  BY DEF Going, Runner
<1>6. \A n \in Positive : [r EXCEPT !.entry = n] \in Going
  BY DEF Going, Runner
<1>7. \A n \in Positive : [r EXCEPT !.entry = n, !.clean = FALSE] \in Going
  BY DEF Going, Runner
<1>8. \A n \in Positive : [r EXCEPT !.at = "extract", !.entry = n, !.placed = TRUE] \in Going
  BY DEF Going, Runner
<1>9. \A n \in Positive : [r EXCEPT !.at = "extract", !.entry = n, !.clean = FALSE] \in Going
  BY DEF Going, Runner
<1>10. \A n \in Positive : [r EXCEPT !.at = "release", !.release = n] \in Going
  BY DEF Going, Runner
<1>11. QED
  BY <1>1, <1>2, <1>3, <1>4, <1>5, <1>6, <1>7, <1>8, <1>9, <1>10

LEMMA RunnerGoes ==
  ASSUME Alone, NEW c \in Callers, Running(c)
  PROVE  runner[c] \in Going /\ runner[c].target \in DOMAIN Targets
  BY DEF Alone, Going, Runner, Running

LEMMA EndTargetGoes ==
  ASSUME Alone, NEW c \in Callers, Running(c), EndTarget(c)
  PROVE  \E next \in Going : Move(c, next)
<1>1. CASE runner[c].target < Len(Targets)
  <2>1. runner[c].target + 1 \in DOMAIN Targets
    BY <1>1, FetchAssumption, RunnerGoes
  <2>2. [Idle EXCEPT !.at = "target", !.target = runner[c].target + 1] \in Going
    BY <2>1, IdleType DEF Going, Runner
  <2>3. QED
    BY <1>1, <2>2 DEF EndTarget
<1>2. CASE ~(runner[c].target < Len(Targets))
  BY <1>2, RunnerGoes, Records DEF EndTarget
<1>3. QED
  BY <1>1, <1>2

\* Every step of a download but its last leaves the flag, and the caller goes on.
LEMMA RunGoes ==
  ASSUME Alone, NEW c \in Callers, RunAll(c), ~Finish(c)
  PROVE  Running(c) /\ UNCHANGED inFlight /\ \E next \in Going : Move(c, next)
<1>1. Running(c) /\ UNCHANGED inFlight
  BY DEF RunAll, CheckPresent, FetchRelease, FetchReleaseFails, NothingFound, SkipEntry, OpenDest,
         EntryFails, WriteBytes, WriteBytesFails, EndArchive, NextTarget, FetchThrows, RunThrows,
         InArchive, Running
<1>2. runner[c] \in Going
  BY <1>1, RunnerGoes
<1>3. CASE EndTarget(c)
  BY <1>1, <1>3, EndTargetGoes
<1>4. CASE CheckPresent(c)
  BY <1>1, <1>2, <1>3, <1>4, Records DEF CheckPresent
<1>5. CASE FetchRelease(c) \/ FetchReleaseFails(c) \/ NothingFound(c)
  BY <1>1, <1>2, <1>5, Records DEF FetchRelease, FetchReleaseFails, NothingFound
<1>6. CASE SkipEntry(c) \/ OpenDest(c) \/ EntryFails(c)
  BY <1>1, <1>2, <1>6, Records DEF SkipEntry, OpenDest, EntryFails
<1>7. CASE WriteBytes(c) \/ WriteBytesFails(c)
  BY <1>1, <1>2, <1>7, Records DEF WriteBytes, WriteBytesFails
<1>8. CASE EndArchive(c)
  BY <1>1, <1>2, <1>8, Records DEF EndArchive
<1>9. CASE RunThrows(c)
  BY <1>1, <1>2, <1>9, Records DEF RunThrows
<1>10. QED
  BY <1>3, <1>4, <1>5, <1>6, <1>7, <1>8, <1>9 DEF RunAll, NextTarget, FetchThrows

LEMMA AloneStep ==
  ASSUME Alone, [FetchNext]_fetchVars
  PROVE  Alone'
<1>1. ASSUME NEW c \in Callers, Begin(c)
      PROVE  Alone'
  <2>1. \A d \in Callers : ~Running(d)
    BY <1>1 DEF Begin, Alone, OneDownload
  <2>2. runner' \in [Callers -> Runner]
    BY <1>1 DEF Begin, Move, Alone, Runner
  <2>3. \A d \in Callers : Running(d)' <=> d = c
    BY <1>1, <2>1 DEF Begin, Move, Alone, Running, Runner
  <2>4. inFlight' = TRUE
    BY <1>1 DEF Begin
  <2>5. OneDownload'
    BY <2>3, <2>4 DEF OneDownload
  <2>6. QED
    BY <2>2, <2>4, <2>5 DEF Alone
<1>2. ASSUME NEW c \in Callers, Finish(c)
      PROVE  Alone'
  <2>1. \A d \in Callers : ~Running(d)'
    BY <1>2 DEF Finish, Alone, OneDownload, Running, Idle
  <2>2. runner' \in [Callers -> Runner]
    BY <1>2, IdleType DEF Finish, Alone
  <2>3. inFlight' = FALSE
    BY <1>2 DEF Finish
  <2>4. OneDownload'
    BY <2>1, <2>3 DEF OneDownload
  <2>5. QED
    BY <2>2, <2>3, <2>4 DEF Alone
<1>3. ASSUME NEW c \in Callers, RunAll(c), ~Finish(c)
      PROVE  Alone'
  BY <1>3, RunGoes, GoesOn
<1>4. CASE Restart
  <2>1. \A d \in Callers : ~Running(d)'
    BY <1>4 DEF Restart, Running, Idle
  <2>2. runner' \in [Callers -> Runner] /\ inFlight' = FALSE
    BY <1>4, IdleType DEF Restart
  <2>3. OneDownload'
    BY <2>1, <2>2 DEF OneDownload
  <2>4. QED
    BY <2>2, <2>3 DEF Alone
<1>5. CASE UNCHANGED fetchVars
  BY <1>5 DEF fetchVars, Alone, OneDownload, Running
<1>6. QED
  BY <1>1, <1>2, <1>3, <1>4, <1>5 DEF FetchNext

----------------------------------------------------------------------------
(* The disk *)

LEMMA NotedStep ==
  ASSUME FetchInv, [FetchNext]_fetchVars
  PROVE  Noted'
<1>1. ASSUME NEW c \in Callers, OpenDest(c)
      PROVE  Noted'
  <2>1. Running(c)
    BY <1>1 DEF OpenDest, InArchive, Running
  <2>2. WantOf(c) \in wanted \cup {NoId}
    BY <2>1, RunnerGoes DEF FetchInv, Noted, WantOf
  <2>3. ThisPdb(c).id \in wanted \cup {NoId}
    BY <1>1, <2>2 DEF OpenDest
  <2>4. disk' \in [Names -> [id : wanted \cup {NoId}, cut : {"no", "early", "late", "absent"}]]
    BY <1>1, <2>3 DEF OpenDest, FetchInv, Noted
  <2>5. QED
    BY <1>1, <2>4 DEF OpenDest, remote, FetchInv, Noted
<1>2. ASSUME NEW c \in Callers, WriteBytes(c) \/ WriteBytesFails(c)
      PROVE  Noted'
  <2>1. \A cut \in {"no", "early", "late"} :
          [disk EXCEPT ![ThisPdb(c).name].cut = cut] \in
            [Names -> [id : wanted \cup {NoId}, cut : {"no", "early", "late", "absent"}]]
    BY DEF FetchInv, Noted
  <2>2. QED
    BY <1>2, <2>1 DEF WriteBytes, WriteBytesFails, remote, FetchInv, Noted
<1>3. ASSUME NEW c \in Callers, UNCHANGED <<disk, remote>>
      PROVE  Noted'
  BY <1>3 DEF remote, FetchInv, Noted
<1>4. CASE Restart
  <2>1. \A t \in DOMAIN Targets : want'[t] \in wanted' \cup {NoId}
    <3>1. DOMAIN want = DOMAIN Targets
      BY FetchAssumption DEF FetchInv, Noted
    <3>2. QED
      BY <1>4, <3>1 DEF Restart
  <2>2. \A cut \in {"early", "late"}, n \in Names :
          [disk[n] EXCEPT !.cut = cut] \in [id : wanted' \cup {NoId}, cut : {"no", "early", "late", "absent"}]
    BY <1>4 DEF Restart, FetchInv, Noted
  <2>3. \A n \in Names : disk[n] \in [id : wanted' \cup {NoId}, cut : {"no", "early", "late", "absent"}]
    BY <1>4 DEF Restart, FetchInv, Noted
  <2>4. disk' \in [Names -> [id : wanted' \cup {NoId}, cut : {"no", "early", "late", "absent"}]]
    BY <1>4, <2>2, <2>3 DEF Restart
  <2>5. QED
    BY <1>4, <2>1, <2>4 DEF Restart, Noted
<1>5. CASE UNCHANGED fetchVars
  BY <1>5 DEF fetchVars, FetchInv, Noted
<1>6. ASSUME NEW c \in Callers, Begin(c) \/ RunAll(c)
      PROVE  Noted'
  BY <1>1, <1>2, <1>3, <1>6 DEF Begin, RunAll, CheckPresent, FetchRelease, FetchReleaseFails, NothingFound,
     SkipEntry, EntryFails, EndArchive, NextTarget, FetchThrows, RunThrows, Finish
<1>7. QED
  BY <1>4, <1>5, <1>6 DEF FetchNext

LEMMA FetchInductive == FetchSpec => []FetchInv
<1>1. FetchInv /\ [FetchNext]_fetchVars => FetchInv'
  BY AloneStep, NotedStep DEF FetchInv
<1>2. QED
  BY FetchInitInv, <1>1, PTL DEF FetchSpec

----------------------------------------------------------------------------
\* Two downloads never run at once, for any number of threads that ask for one: the user's
\* request while the one of the boot goes on, and any request after a failure.
THEOREM DownloadsAreExclusive == FetchSpec => []OneDownload
<1>1. FetchInv => OneDownload
  BY DEF FetchInv, Alone
<1>2. QED
  BY FetchInductive, <1>1, PTL

\* No file of the symbols directory can be read as the symbols of a build that was never loaded,
\* whatever the releases hold, whatever is cut short, and over any number of launches.
THEOREM OnlyWantedIsPlaced == FetchSpec => []PlacedMatches
<1>1. FetchInv => PlacedMatches
  BY DEF FetchInv, Noted, PlacedMatches, ReadPdbId
<1>2. QED
  BY FetchInductive, <1>1, PTL

----------------------------------------------------------------------------
(* The search *)

Pdbs == [name : Names, id : Ids \cup {NoId}]

\* Before entry e of the archive there is nothing that is placed for the identifier.
Passed(archive, id, e) == \A i \in DOMAIN archive : i < e => archive[i].id \notin {NoId, id}

\* No unreadable PDB between entry i and entry e has the name of entry i.
Survives(archive, i, e) ==
  \A j \in DOMAIN archive : i < j /\ j < e /\ archive[j].name = archive[i].name => archive[j].id # NoId

\* The matches before entry e are on the disk, those that something unreadable replaced and
\* those of the names apart excepted.
Held(archive, id, e, files, apart) ==
  \A i \in DOMAIN archive :
    i < e /\ archive[i].id = id /\ archive[i].name \notin apart /\ Survives(archive, i, e) =>
      files[archive[i].name].id = id /\ files[archive[i].name].cut = "no"

\* The releases before r had nothing.
Searched(tags, id, r) ==
  \A s \in DOMAIN tags :
    s < r => tags[s] = NoAsset \/ \A i \in DOMAIN tags[s] : tags[s][i].id \notin {NoId, id}

InRelease(c) ==
  /\ runner[c].release \in DOMAIN Tags(c) /\ Archive(c) # NoAsset
  /\ runner[c].placed => ~Passed(Archive(c), WantOf(c), runner[c].entry)

InWrite(c) ==
  /\ runner[c].entry \in DOMAIN Archive(c)
  /\ ThisPdb(c).id \in {NoId, WantOf(c)}
  /\ disk[ThisPdb(c).name].id = ThisPdb(c).id

\* Where a search has got to; when nothing has failed in it, what it has placed is on the disk
\* and what it has left behind was nothing.
SearchInv(c) ==
  /\ runner[c].at \in {"release", "extract", "write"} => WantOf(c) # NoId
  /\ runner[c].at \in {"extract", "write"} => InRelease(c)
  /\ runner[c].at = "write" => InWrite(c)
  /\ runner[c].clean =>
       /\ runner[c].at \in {"release", "extract", "write"} => Searched(Tags(c), WantOf(c), runner[c].release)
       /\ runner[c].at \in {"extract", "write"} /\ ~runner[c].placed => Passed(Archive(c), WantOf(c), runner[c].entry)
       /\ runner[c].at = "extract" => Held(Archive(c), WantOf(c), runner[c].entry, disk, {})
       /\ runner[c].at = "write" => Held(Archive(c), WantOf(c), runner[c].entry, disk, {ThisPdb(c).name})
       /\ runner[c].at = "fetched" => (Obtainable(Tags(c), WantOf(c)) => Present(WantOf(c)))

SearchesOK == releases \in Releases /\ \A c \in Callers : SearchInv(c)

\* An entry of an archive, one after the other.
LEMMA PassEntry ==
  ASSUME NEW archive \in Seq(Pdbs), NEW id, NEW e \in DOMAIN archive,
         archive[e].id \notin {NoId, id}, Passed(archive, id, e)
  PROVE  Passed(archive, id, e + 1)
<1>1. ASSUME NEW i \in DOMAIN archive, i < e + 1
      PROVE  i < e \/ i = e
  <2>1. i \in Nat /\ e \in Nat
    OBVIOUS
  <2>2. QED
    BY <1>1, <2>1
<1>2. QED
  BY <1>1 DEF Passed

LEMMA PassLess ==
  ASSUME NEW archive \in Seq(Pdbs), NEW id, NEW e \in DOMAIN archive, ~Passed(archive, id, e)
  PROVE  ~Passed(archive, id, e + 1)
<1>1. ASSUME NEW i \in DOMAIN archive, i < e
      PROVE  i < e + 1
  <2>1. i \in Nat /\ e \in Nat
    OBVIOUS
  <2>2. QED
    BY <1>1, <2>1
<1>2. QED
  BY <1>1 DEF Passed

LEMMA SurvivesLess ==
  ASSUME NEW archive \in Seq(Pdbs), NEW i \in DOMAIN archive, NEW e \in DOMAIN archive,
         Survives(archive, i, e + 1)
  PROVE  Survives(archive, i, e)
<1>1. ASSUME NEW j \in DOMAIN archive, j < e
      PROVE  j < e + 1
  <2>1. j \in Nat /\ e \in Nat
    OBVIOUS
  <2>2. QED
    BY <1>1, <2>1
<1>2. QED
  BY <1>1 DEF Survives

LEMMA HoldSkipped ==
  ASSUME NEW archive \in Seq(Pdbs), NEW id, NEW e \in DOMAIN archive, NEW files,
         archive[e].id # id, Held(archive, id, e, files, {})
  PROVE  Held(archive, id, e + 1, files, {})
<1> SUFFICES ASSUME NEW i \in DOMAIN archive, i < e + 1, archive[i].id = id, Survives(archive, i, e + 1)
             PROVE  files[archive[i].name].id = id /\ files[archive[i].name].cut = "no"
  BY DEF Held
<1>1. i < e \/ i = e
  <2>1. i \in Nat /\ e \in Nat
    OBVIOUS
  <2>2. QED
    BY <2>1
<1>2. i < e
  BY <1>1
<1>3. Survives(archive, i, e)
  BY SurvivesLess
<1>4. QED
  BY <1>2, <1>3 DEF Held

LEMMA HoldOpened ==
  ASSUME NEW archive \in Seq(Pdbs), NEW id, NEW e \in DOMAIN archive, NEW files,
         NEW filesNext, \A n \in Names : n # archive[e].name => filesNext[n] = files[n],
         Held(archive, id, e, files, {})
  PROVE  Held(archive, id, e, filesNext, {archive[e].name})
<1>1. \A i \in DOMAIN archive : archive[i].name \in Names
  <2>1. ASSUME NEW i \in DOMAIN archive PROVE archive[i] \in Pdbs
    OBVIOUS
  <2>2. QED
    BY <2>1 DEF Pdbs
<1>2. QED
  BY <1>1 DEF Held

LEMMA HoldWritten ==
  ASSUME NEW archive \in Seq(Pdbs), NEW id, NEW e \in DOMAIN archive, NEW files, NEW filesNext,
         \A n \in Names : n # archive[e].name => filesNext[n] = files[n],
         filesNext[archive[e].name].id = archive[e].id, filesNext[archive[e].name].cut = "no",
         archive[e].id \in {NoId, id}, Held(archive, id, e, files, {archive[e].name})
  PROVE  Held(archive, id, e + 1, filesNext, {})
<1> SUFFICES ASSUME NEW i \in DOMAIN archive, i < e + 1, archive[i].id = id, Survives(archive, i, e + 1)
             PROVE  filesNext[archive[i].name].id = id /\ filesNext[archive[i].name].cut = "no"
  BY DEF Held
<1>1. i \in Nat /\ e \in Nat
  OBVIOUS
<1>2. i < e \/ i = e
  BY <1>1
<1>3. CASE archive[i].name = archive[e].name
  <2>1. archive[e].id = id
    <3>1. CASE i = e
      BY <3>1
    <3>2. CASE i < e
      <4>1. e < e + 1
        BY <1>1
      <4>2. archive[e].id # NoId
        BY <1>3, <3>2, <4>1 DEF Survives
      <4>3. QED
        BY <4>2
    <3>3. QED
      BY <1>2, <3>1, <3>2
  <2>2. QED
    BY <1>3, <2>1
<1>4. CASE archive[i].name # archive[e].name
  <2>1. i < e
    BY <1>2, <1>4
  <2>2. Survives(archive, i, e)
    BY SurvivesLess
  <2>3. archive[i] \in Pdbs
    OBVIOUS
  <2>4. filesNext[archive[i].name] = files[archive[i].name]
    BY <1>4, <2>3 DEF Pdbs
  <2>5. QED
    BY <1>4, <2>1, <2>2, <2>4 DEF Held
<1>5. QED
  BY <1>3, <1>4

\* At the end of an archive of which something was placed, the match is there if there was one
\* to be had: it was not in an earlier release, and a later one counts only if this one has
\* nothing unreadable.
LEMMA FoundAtEnd ==
  ASSUME NEW tags \in Seq({NoAsset} \cup Seq(Pdbs)), NEW id, id # NoId, NEW r \in DOMAIN tags,
         tags[r] # NoAsset, NEW e \in Nat, e > Len(tags[r]), NEW files,
         Searched(tags, id, r), ~Passed(tags[r], id, e), Held(tags[r], id, e, files, {}),
         Obtainable(tags, id)
  PROVE  \E i \in DOMAIN tags[r] : files[tags[r][i].name].id = id /\ files[tags[r][i].name].cut = "no"
<1> DEFINE archive == tags[r]
<1>1. archive \in Seq(Pdbs)
  OBVIOUS
<1>2. \A i \in DOMAIN archive : i \in Nat /\ i < e
  BY <1>1
<1>3. PICK s \in DOMAIN tags :
        /\ tags[s] # NoAsset /\ \E i \in Match(tags[s], id) : Kept(tags[s], i, id)
        /\ \A v \in 1..(s - 1) : tags[v] # NoAsset => ~Unreadable(tags[v])
  BY DEF Obtainable
<1>4. r \in Nat /\ s \in Nat /\ 1 <= r
  OBVIOUS
<1> HIDE DEF archive
<1>5. ASSUME NEW i \in DOMAIN archive, archive[i].id = id,
             \A j \in DOMAIN archive : j > i /\ archive[j].name = archive[i].name => archive[j].id # NoId
      PROVE  files[archive[i].name].id = id /\ files[archive[i].name].cut = "no"
  <2>1. Survives(archive, i, e)
    <3>1. \A j \in DOMAIN archive : i < j => j > i
      BY <1>2
    <3>2. QED
      BY <1>5, <3>1 DEF Survives
  <2>2. Held(archive, id, e, files, {})
    BY DEF archive
  <2>3. QED
    BY <1>2, <1>5, <2>1, <2>2 DEF Held
<1>6. CASE s < r
  <2>1. PICK i \in DOMAIN tags[s] : tags[s][i].id = id
    BY <1>3 DEF Match
  <2>2. QED
    BY <1>3, <1>6, <2>1 DEF Searched
<1>7. CASE s = r
  <2>1. PICK i \in Match(archive, id) : Kept(archive, i, id)
    BY <1>3, <1>7 DEF archive
  <2>2. QED
    BY <1>5, <2>1 DEF Match, Kept, archive
<1>8. CASE r < s
  <2>1. r \in 1 .. (s - 1)
    BY <1>4, <1>8
  <2>2. ~Unreadable(archive)
    BY <1>3, <2>1 DEF archive
  <2>3. PICK i \in DOMAIN archive : archive[i].id \in {NoId, id}
    BY DEF Passed, archive
  <2>4. archive[i].id = id
    BY <2>2, <2>3 DEF Unreadable
  <2>5. QED
    BY <1>5, <2>2, <2>4 DEF Unreadable, archive
<1>9. QED
  BY <1>4, <1>6, <1>7, <1>8

\* When every release has been looked through, there was nothing to be had.
LEMMA NothingToHave ==
  ASSUME NEW tags \in Seq({NoAsset} \cup Seq(Pdbs)), NEW id, NEW r \in Nat, r > Len(tags),
         Searched(tags, id, r)
  PROVE  ~Obtainable(tags, id)
<1>1. SUFFICES ASSUME Obtainable(tags, id) PROVE FALSE
  OBVIOUS
<1>2. PICK s \in DOMAIN tags : tags[s] # NoAsset /\ \E i \in Match(tags[s], id) : Kept(tags[s], i, id)
  BY <1>1 DEF Obtainable
<1>3. PICK i \in DOMAIN tags[s] : tags[s][i].id = id
  BY <1>2 DEF Match
<1>4. s < r
  OBVIOUS
<1>5. QED
  BY <1>2, <1>3, <1>4 DEF Searched

LEMMA TagsType ==
  ASSUME FetchInv, SearchesOK, NEW c \in Callers, Running(c)
  PROVE  /\ Tags(c) \in Seq({NoAsset} \cup Seq(Pdbs))
         /\ runner[c] \in Runner
         /\ InRelease(c) => Archive(c) \in Seq(Pdbs)
<1>1. runner[c] \in Runner /\ runner[c].target \in DOMAIN Targets
  BY RunnerGoes DEF FetchInv, Going
<1>2. Tags(c) \in Seq({NoAsset} \cup Seq(Pdbs))
  BY <1>1, FetchAssumption DEF SearchesOK, Tags, Pdbs
<1>3. ASSUME InRelease(c) PROVE Archive(c) \in Seq(Pdbs)
  <2>1. runner[c].release \in DOMAIN Tags(c) /\ Archive(c) # NoAsset /\ Archive(c) = Tags(c)[runner[c].release]
    BY <1>3 DEF InRelease, Archive
  <2>2. QED
    BY <1>2, <2>1
<1>4. QED
  BY <1>1, <1>2, <1>3

\* Nothing is asked of a search that has not begun or is over.
LEMMA NoSearch ==
  ASSUME NEW c \in Callers, runner'[c].at \in {"idle", "target", "done"}
  PROVE  SearchInv(c)'
  BY DEF SearchInv

LEMMA EndTargetIsNoSearch ==
  ASSUME FetchInv, NEW c \in Callers, Running(c), EndTarget(c)
  PROVE  runner'[c].at \in {"idle", "target", "done"}
<1>1. runner[c] \in Runner
  BY RunnerGoes DEF FetchInv, Going
<1>2. CASE runner[c].target < Len(Targets)
  <2>1. runner'[c] = [Idle EXCEPT !.at = "target", !.target = runner[c].target + 1]
    BY <1>2 DEF EndTarget, Move, FetchInv, Alone
  <2>2. QED
    BY <2>1 DEF Idle
<1>3. CASE ~(runner[c].target < Len(Targets))
  <2>1. runner'[c] = [runner[c] EXCEPT !.at = "done"]
    BY <1>3 DEF EndTarget, Move, FetchInv, Alone
  <2>2. QED
    BY <1>1, <2>1 DEF Runner
<1>4. QED
  BY <1>2, <1>3

\* A step of the caller within its target reads the same releases.
LEMMA SameTarget ==
  ASSUME NEW c \in Callers, UNCHANGED remote, runner'[c].target = runner[c].target
  PROVE  /\ Tags(c)' = Tags(c) /\ WantOf(c)' = WantOf(c)
         /\ runner'[c].release = runner[c].release => Archive(c)' = Archive(c)
         /\ runner'[c].release = runner[c].release /\ runner'[c].entry = runner[c].entry => ThisPdb(c)' = ThisPdb(c)
  BY DEF remote, Tags, WantOf, Archive, ThisPdb

LEMMA ReleaseStep ==
  ASSUME FetchInv, SearchesOK, NEW c \in Callers,
         CheckPresent(c) \/ FetchRelease(c) \/ FetchReleaseFails(c) \/ NothingFound(c)
  PROVE  SearchInv(c)'
<1> DEFINE r == runner[c]
           s == runner'[c]
<1>1. Running(c) /\ UNCHANGED remote /\ UNCHANGED disk
  BY DEF CheckPresent, FetchRelease, FetchReleaseFails, NothingFound, Running
<1>2. r \in Runner /\ Tags(c) \in Seq({NoAsset} \cup Seq(Pdbs))
  BY <1>1, TagsType
<1>3. r.release \in Nat \ {0}
  BY <1>2 DEF Runner, Positive
<1>4. runner \in [Callers -> Runner]
  BY DEF FetchInv, Alone
<1>i. SearchInv(c)
  BY DEF SearchesOK
<1>5. CASE CheckPresent(c)
  <2>1. CASE EndTarget(c)
    BY <1>1, <2>1, EndTargetIsNoSearch, NoSearch
  <2>2. CASE ~EndTarget(c)
    <3>1. WantOf(c) # NoId /\ s = [r EXCEPT !.at = "release", !.release = 1]
      BY <1>4, <1>5, <2>2 DEF CheckPresent, Move
    <3>2. s.at = "release" /\ s.release = 1 /\ s.target = r.target
      BY <1>2, <3>1 DEF Runner
    <3>3. Searched(Tags(c), WantOf(c), 1)
      BY <1>2 DEF Searched
    <3>4. QED
      BY <1>1, <3>1, <3>2, <3>3, SameTarget DEF SearchInv
  <2>3. QED
    BY <2>1, <2>2
<1>6. ASSUME FetchRelease(c) \/ FetchReleaseFails(c)
      PROVE  r.release \in DOMAIN Tags(c)
  <2>1. r.release <= Len(Tags(c))
    BY <1>6 DEF FetchRelease, FetchReleaseFails
  <2>2. QED
    BY <1>2, <1>3, <2>1
<1>7. CASE FetchRelease(c)
  <2>1. r.at = "release" /\ WantOf(c) # NoId
    BY <1>7, <1>i DEF FetchRelease, SearchInv
  <2>2. CASE Archive(c) # NoAsset /\ Move(c, [r EXCEPT !.at = "extract", !.entry = 1, !.placed = FALSE])
    <3>1. /\ s.at = "extract" /\ s.entry = 1 /\ s.placed = FALSE /\ s.target = r.target
          /\ s.release = r.release /\ s.clean = r.clean
      BY <1>2, <1>4, <2>2 DEF Move, Runner
    <3>2. /\ Tags(c)' = Tags(c) /\ WantOf(c)' = WantOf(c) /\ Archive(c)' = Archive(c)
      BY <1>1, <3>1, SameTarget
    <3>3. r.release \in DOMAIN Tags(c)
      BY <1>6, <1>7
    <3>4. InRelease(c)'
      BY <2>2, <3>1, <3>2, <3>3 DEF InRelease
    <3>5. Archive(c) \in Seq(Pdbs)
      BY <1>2, <2>2, <3>3 DEF Archive
    <3>6. Passed(Archive(c), WantOf(c), 1) /\ Held(Archive(c), WantOf(c), 1, disk, {})
      BY <3>5 DEF Passed, Held
    <3>7. QED
      BY <1>1, <1>i, <2>1, <3>1, <3>2, <3>4, <3>6 DEF SearchInv
  <2>3. CASE Archive(c) = NoAsset /\ Move(c, [r EXCEPT !.release = @ + 1])
    <3>1. s.at = "release" /\ s.release = r.release + 1 /\ s.target = r.target /\ s.clean = r.clean
      BY <1>2, <1>4, <2>1, <2>3 DEF Move, Runner
    <3>2. Searched(Tags(c), WantOf(c), r.release) => Searched(Tags(c), WantOf(c), r.release + 1)
      <4>1. \A v \in DOMAIN Tags(c) : v < r.release + 1 => v < r.release \/ v = r.release
        BY <1>2, <1>3
      <4>2. QED
        BY <2>3, <4>1 DEF Searched, Archive
    <3>3. QED
      BY <1>1, <1>i, <2>1, <3>1, <3>2, SameTarget DEF SearchInv
  <2>4. QED
    BY <1>7, <2>2, <2>3 DEF FetchRelease
<1>8. CASE FetchReleaseFails(c)
  <2>1. s.at = "release" /\ s.clean = FALSE /\ s.target = r.target
    BY <1>2, <1>4, <1>8 DEF FetchReleaseFails, Move, Runner
  <2>2. WantOf(c) # NoId
    BY <1>8, <1>i DEF FetchReleaseFails, SearchInv
  <2>3. QED
    BY <1>1, <2>1, <2>2, SameTarget DEF SearchInv
<1>9. CASE NothingFound(c)
  <2>1. s.at = "fetched" /\ s.clean = r.clean /\ s.target = r.target
    BY <1>2, <1>4, <1>9 DEF NothingFound, Move, Runner
  <2>2. r.clean => ~Obtainable(Tags(c), WantOf(c))
    <3>1. r.at = "release" /\ r.release > Len(Tags(c))
      BY <1>9 DEF NothingFound
    <3>2. QED
      BY <1>2, <1>3, <1>i, <3>1, NothingToHave DEF SearchInv
  <2>3. QED
    BY <1>1, <2>1, <2>2, SameTarget DEF SearchInv
<1>10. QED
  BY <1>5, <1>7, <1>8, <1>9

\* The invariant of a search that goes on in its archive.
LEMMA InArchiveAgain ==
  ASSUME NEW c \in Callers, runner'[c].at = "extract", WantOf(c)' # NoId, InRelease(c)',
         runner'[c].clean => /\ Searched(Tags(c), WantOf(c), runner[c].release)'
                             /\ ~runner'[c].placed => Passed(Archive(c), WantOf(c), runner[c].entry)'
                             /\ Held(Archive(c), WantOf(c), runner[c].entry, disk, {})'
  PROVE  SearchInv(c)'
  BY DEF SearchInv

LEMMA EntryStep ==
  ASSUME FetchInv, SearchesOK, NEW c \in Callers,
         SkipEntry(c) \/ OpenDest(c) \/ EntryFails(c)
  PROVE  SearchInv(c)'
<1> DEFINE r == runner[c]
           s == runner'[c]
<1>1. /\ Running(c) /\ UNCHANGED remote
      /\ r.at = "extract" /\ r.entry <= Len(Archive(c))
  BY DEF SkipEntry, OpenDest, EntryFails, InArchive, Running
<1>i. SearchInv(c)
  BY DEF SearchesOK
<1>2. InRelease(c) /\ WantOf(c) # NoId
  BY <1>1, <1>i DEF SearchInv
<1>3. r \in Runner /\ Archive(c) \in Seq(Pdbs)
  BY <1>1, <1>2, TagsType
<1>4. r.entry \in DOMAIN Archive(c) /\ r.entry \in Nat
  BY <1>1, <1>3 DEF Runner, Positive
<1>5. runner \in [Callers -> Runner]
  BY DEF FetchInv, Alone
<1>6. ThisPdb(c) = Archive(c)[r.entry]
  BY DEF ThisPdb
<1>7. CASE SkipEntry(c) \/ EntryFails(c)
  <2>1. /\ s.at = "extract" /\ s.entry = r.entry + 1 /\ s.target = r.target
        /\ s.release = r.release /\ s.placed = r.placed
        /\ UNCHANGED disk
    <3>1. CASE SkipEntry(c)
      BY <1>1, <1>3, <1>5, <3>1 DEF SkipEntry, Move, Runner
    <3>2. CASE EntryFails(c)
      BY <1>1, <1>3, <1>5, <3>2 DEF EntryFails, Move, Runner
    <3>3. QED
      BY <1>7, <3>1, <3>2
  <2>2. /\ Tags(c)' = Tags(c) /\ WantOf(c)' = WantOf(c) /\ Archive(c)' = Archive(c)
    BY <1>1, <2>1, SameTarget
  <2>3. InRelease(c)'
    BY <1>2, <1>3, <1>4, <2>1, <2>2, PassLess DEF InRelease
  <2>4. CASE SkipEntry(c)
    <3>1. s.clean = r.clean
      BY <1>3, <1>5, <2>4 DEF SkipEntry, Move, Runner
    <3>2. Archive(c)[r.entry].id \notin {NoId, WantOf(c)}
      BY <1>6, <2>4 DEF SkipEntry
    <3>3. Passed(Archive(c), WantOf(c), r.entry) => Passed(Archive(c), WantOf(c), r.entry + 1)
      BY <1>3, <1>4, <3>2, PassEntry
    <3>4. Held(Archive(c), WantOf(c), r.entry, disk, {}) => Held(Archive(c), WantOf(c), r.entry + 1, disk, {})
      BY <1>3, <1>4, <3>2, HoldSkipped
    <3>5. r.clean => /\ Searched(Tags(c), WantOf(c), r.release)
                     /\ ~r.placed => Passed(Archive(c), WantOf(c), r.entry)
                     /\ Held(Archive(c), WantOf(c), r.entry, disk, {})
      BY <1>1, <1>i DEF SearchInv
    <3>6. QED
      BY <1>2, <2>1, <2>2, <2>3, <3>1, <3>3, <3>4, <3>5, InArchiveAgain
  <2>5. CASE EntryFails(c)
    <3>1. s.clean = FALSE
      BY <1>3, <1>5, <2>5 DEF EntryFails, Move, Runner
    <3>2. QED
      BY <1>2, <2>1, <2>2, <2>3, <3>1, InArchiveAgain
  <2>6. QED
    BY <1>7, <2>4, <2>5
<1>8. CASE OpenDest(c)
  <2>1. /\ s.at = "write" /\ s.entry = r.entry /\ s.target = r.target
        /\ s.release = r.release /\ s.placed = r.placed /\ s.clean = r.clean
    BY <1>3, <1>5, <1>8 DEF OpenDest, Move, Runner
  <2>2. /\ Tags(c)' = Tags(c) /\ WantOf(c)' = WantOf(c) /\ Archive(c)' = Archive(c) /\ ThisPdb(c)' = ThisPdb(c)
    BY <1>1, <2>1, SameTarget
  <2>3. ThisPdb(c) \in Pdbs
    BY <1>3, <1>4, <1>6
  <2>4. /\ disk'[ThisPdb(c).name].id = ThisPdb(c).id
        /\ \A n \in Names : n # ThisPdb(c).name => disk'[n] = disk[n]
    BY <1>8, <2>3 DEF OpenDest, FetchInv, Noted, Pdbs
  <2>5. ThisPdb(c).id \in {NoId, WantOf(c)}
    BY <1>8 DEF OpenDest
  <2>6. InRelease(c)' /\ InWrite(c)'
    BY <1>2, <1>4, <2>1, <2>2, <2>4, <2>5 DEF InRelease, InWrite
  <2>7. r.clean => /\ Searched(Tags(c), WantOf(c), r.release)
                   /\ ~r.placed => Passed(Archive(c), WantOf(c), r.entry)
                   /\ Held(Archive(c), WantOf(c), r.entry, disk, {})
    BY <1>1, <1>i DEF SearchInv
  <2>8. Held(Archive(c), WantOf(c), r.entry, disk, {}) => Held(Archive(c), WantOf(c), r.entry, disk', {ThisPdb(c).name})
    BY <1>3, <1>4, <1>6, <2>4, HoldOpened
  <2>9. QED
    BY <1>2, <2>1, <2>2, <2>6, <2>7, <2>8 DEF SearchInv
<1>9. QED
  BY <1>7, <1>8

LEMMA WriteStep ==
  ASSUME FetchInv, SearchesOK, NEW c \in Callers,
         WriteBytes(c) \/ WriteBytesFails(c)
  PROVE  SearchInv(c)'
<1> DEFINE r == runner[c]
           s == runner'[c]
<1>1. Running(c) /\ UNCHANGED remote /\ r.at = "write"
  BY DEF WriteBytes, WriteBytesFails, Running
<1>i. SearchInv(c)
  BY DEF SearchesOK
<1>2. InRelease(c) /\ InWrite(c) /\ WantOf(c) # NoId
  BY <1>1, <1>i DEF SearchInv
<1>3. r \in Runner /\ Archive(c) \in Seq(Pdbs)
  BY <1>1, <1>2, TagsType
<1>4. r.entry \in DOMAIN Archive(c) /\ r.entry \in Nat
  BY <1>2, <1>3 DEF InWrite, Runner, Positive
<1>5. runner \in [Callers -> Runner]
  BY DEF FetchInv, Alone
<1>6. ThisPdb(c) = Archive(c)[r.entry] /\ ThisPdb(c).id \in {NoId, WantOf(c)}
  BY <1>2 DEF ThisPdb, InWrite
<1>7. /\ s.at = "extract" /\ s.entry = r.entry + 1 /\ s.target = r.target /\ s.release = r.release
  <2>1. CASE WriteBytes(c)
    BY <1>3, <1>5, <2>1 DEF WriteBytes, Move, Runner
  <2>2. CASE WriteBytesFails(c)
    BY <1>3, <1>5, <2>2 DEF WriteBytesFails, Move, Runner
  <2>3. QED
    BY <2>1, <2>2
<1>8. /\ Tags(c)' = Tags(c) /\ WantOf(c)' = WantOf(c) /\ Archive(c)' = Archive(c)
  BY <1>1, <1>7, SameTarget
<1>9. ~Passed(Archive(c), WantOf(c), r.entry + 1)
  <2>1. r.entry < r.entry + 1
    BY <1>4
  <2>2. QED
    BY <1>4, <1>6, <2>1 DEF Passed
<1>10. InRelease(c)'
  BY <1>2, <1>7, <1>8, <1>9 DEF InRelease
<1>11. CASE WriteBytes(c)
  <2>1. s.placed = TRUE /\ s.clean = r.clean
    BY <1>3, <1>5, <1>11 DEF WriteBytes, Move, Runner
  <2>2. ThisPdb(c) \in Pdbs
    BY <1>3, <1>4, <1>6
  <2>3. /\ disk'[ThisPdb(c).name].id = ThisPdb(c).id /\ disk'[ThisPdb(c).name].cut = "no"
        /\ \A n \in Names : n # ThisPdb(c).name => disk'[n] = disk[n]
    <3>1. disk' = [disk EXCEPT ![ThisPdb(c).name] = [disk[ThisPdb(c).name] EXCEPT !.cut = "no"]]
      BY <1>11 DEF WriteBytes
    <3>2. ThisPdb(c).name \in Names
      BY <2>2 DEF Pdbs
    <3>3. disk \in [Names -> [id : wanted \cup {NoId}, cut : {"no", "early", "late", "absent"}]]
      BY DEF FetchInv, Noted
    <3>4. disk[ThisPdb(c).name] \in [id : wanted \cup {NoId}, cut : {"no", "early", "late", "absent"}]
      BY <3>2, <3>3
    <3>5. disk'[ThisPdb(c).name] = [disk[ThisPdb(c).name] EXCEPT !.cut = "no"]
      BY <3>1, <3>2, <3>3
    <3>6. disk[ThisPdb(c).name].id = ThisPdb(c).id
      BY <1>2 DEF InWrite
    <3>7. QED
      BY <3>1, <3>3, <3>4, <3>5, <3>6
  <2>4. r.clean => /\ Searched(Tags(c), WantOf(c), r.release)
                   /\ Held(Archive(c), WantOf(c), r.entry, disk, {ThisPdb(c).name})
    BY <1>1, <1>i DEF SearchInv
  <2>5. Held(Archive(c), WantOf(c), r.entry, disk, {ThisPdb(c).name}) => Held(Archive(c), WantOf(c), r.entry + 1, disk', {})
    BY <1>3, <1>4, <1>6, <2>3, HoldWritten
  <2>6. QED
    BY <1>2, <1>7, <1>8, <1>10, <2>1, <2>4, <2>5, InArchiveAgain
<1>12. CASE WriteBytesFails(c)
  <2>1. s.clean = FALSE
    BY <1>3, <1>5, <1>12 DEF WriteBytesFails, Move, Runner
  <2>2. QED
    BY <1>2, <1>7, <1>8, <1>10, <2>1, InArchiveAgain
<1>13. QED
  BY <1>11, <1>12

LEMMA EndArchiveStep ==
  ASSUME FetchInv, SearchesOK, NEW c \in Callers, EndArchive(c)
  PROVE  SearchInv(c)'
<1> DEFINE r == runner[c]
           s == runner'[c]
<1>1. Running(c) /\ UNCHANGED <<disk, remote>> /\ r.at = "extract" /\ r.entry > Len(Archive(c))
  BY DEF EndArchive, Running
<1>i. SearchInv(c)
  BY DEF SearchesOK
<1>2. InRelease(c) /\ WantOf(c) # NoId
  BY <1>1, <1>i DEF SearchInv
<1>3. r \in Runner /\ Archive(c) \in Seq(Pdbs) /\ Tags(c) \in Seq({NoAsset} \cup Seq(Pdbs))
  BY <1>1, <1>2, TagsType
<1>4. r.entry \in Nat /\ r.release \in DOMAIN Tags(c) /\ Archive(c) # NoAsset /\ r.release \in Nat
  BY <1>2, <1>3 DEF InRelease, Runner, Positive
<1>5. runner \in [Callers -> Runner]
  BY DEF FetchInv, Alone
<1>6. Archive(c) = Tags(c)[r.release]
  BY DEF Archive
<1>7. CASE r.placed
  <2>1. s.at = "fetched" /\ s.clean = r.clean /\ s.target = r.target
    BY <1>3, <1>5, <1>7 DEF EndArchive, Move, Runner
  <2>2. /\ Tags(c)' = Tags(c) /\ WantOf(c)' = WantOf(c)
    BY <1>1, <2>1, SameTarget
  <2>3. ASSUME r.clean, Obtainable(Tags(c), WantOf(c)) PROVE Present(WantOf(c))
    <3>1. ~Passed(Archive(c), WantOf(c), r.entry)
      BY <1>2, <1>7 DEF InRelease
    <3>2. Searched(Tags(c), WantOf(c), r.release) /\ Held(Archive(c), WantOf(c), r.entry, disk, {})
      BY <1>1, <1>i, <2>3 DEF SearchInv
    <3>3. PICK i \in DOMAIN Archive(c) : disk[Archive(c)[i].name].id = WantOf(c) /\ disk[Archive(c)[i].name].cut = "no"
      <4> DEFINE tags == Tags(c)
                 id == WantOf(c)
                 e == r.entry
                 v == r.release
      <4>1. /\ tags \in Seq({NoAsset} \cup Seq(Pdbs)) /\ id # NoId /\ v \in DOMAIN tags
            /\ tags[v] # NoAsset /\ e \in Nat /\ e > Len(tags[v]) /\ Searched(tags, id, v)
            /\ ~Passed(tags[v], id, e) /\ Held(tags[v], id, e, disk, {}) /\ Obtainable(tags, id)
        BY <1>1, <1>2, <1>3, <1>4, <1>6, <2>3, <3>1, <3>2
      <4> HIDE DEF tags, id, e, v
      <4>2. \E i \in DOMAIN tags[v] : disk[tags[v][i].name].id = id /\ disk[tags[v][i].name].cut = "no"
        BY <4>1, FoundAtEnd
      <4>3. tags[v] = Archive(c) /\ id = WantOf(c)
        BY <1>6 DEF tags, v, id
      <4>4. QED
        BY <4>2, <4>3
    <3>4. Archive(c)[i] \in Pdbs
      BY <1>3
    <3>5. Archive(c)[i].name \in Names
      BY <3>4 DEF Pdbs
    <3>6. QED
      BY <1>2, <3>3, <3>5 DEF Present, ReadPdbId
  <2>4. (r.clean /\ Obtainable(Tags(c), WantOf(c)) => Present(WantOf(c)))'
    <3>1. s.clean /\ Obtainable(Tags(c), WantOf(c)) => Present(WantOf(c))
      BY <2>1, <2>3
    <3>2. Obtainable(Tags(c)', WantOf(c)') <=> Obtainable(Tags(c), WantOf(c))
      BY <2>2
    <3>3. Present(WantOf(c))' <=> Present(WantOf(c))
      BY <1>1, <2>2 DEF Present, ReadPdbId
    <3>4. QED
      BY <3>1, <3>2, <3>3
  <2>5. QED
    BY <2>1, <2>4 DEF SearchInv
<1>8. CASE ~r.placed
  <2>1. s.at = "release" /\ s.clean = r.clean /\ s.target = r.target /\ s.release = r.release + 1
    BY <1>3, <1>5, <1>8 DEF EndArchive, Move, Runner
  <2>2. /\ Tags(c)' = Tags(c) /\ WantOf(c)' = WantOf(c)
    BY <1>1, <2>1, SameTarget
  <2>3. ASSUME r.clean PROVE Searched(Tags(c), WantOf(c), r.release + 1)
    <3>1. Searched(Tags(c), WantOf(c), r.release) /\ Passed(Archive(c), WantOf(c), r.entry)
      BY <1>1, <1>8, <1>i, <2>3 DEF SearchInv
    <3>2. \A i \in DOMAIN Archive(c) : Archive(c)[i].id \notin {NoId, WantOf(c)}
      <4>1. \A i \in DOMAIN Archive(c) : i < r.entry
        BY <1>1, <1>3, <1>4
      <4>2. QED
        BY <3>1, <4>1 DEF Passed
    <3>3. \A v \in DOMAIN Tags(c) : v < r.release + 1 => v < r.release \/ v = r.release
      BY <1>3, <1>4
    <3>4. QED
      BY <1>6, <3>1, <3>2, <3>3 DEF Searched
  <2>4. QED
    BY <1>2, <2>1, <2>2, <2>3 DEF SearchInv
<1>9. QED
  BY <1>7, <1>8

LEMMA SearchStep ==
  ASSUME FetchInv, SearchesOK, FetchInv', [FetchNext]_fetchVars
  PROVE  SearchesOK'
<1>1. releases \in Releases /\ releases' = releases
  BY DEF SearchesOK, FetchNext, Restart, Begin, RunAll, CheckPresent, FetchRelease, FetchReleaseFails,
         NothingFound, SkipEntry, OpenDest, EntryFails, WriteBytes, WriteBytesFails, EndArchive, NextTarget,
         FetchThrows, RunThrows, Finish, remote, fetchVars
<1>2. ASSUME NEW c \in Callers, RunAll(c), ~Finish(c)
      PROVE  SearchesOK'
  <2>1. Running(c) /\ \E next \in Going : Move(c, next)
    BY <1>2, RunGoes DEF FetchInv
  <2>2. ASSUME NEW d \in Callers, d # c PROVE SearchInv(d)'
    <3>1. runner'[d] = runner[d]
      BY <2>1, <2>2 DEF Move, FetchInv, Alone
    <3>2. runner[d].at = "idle"
      BY <2>1, <2>2 DEF Running, FetchInv, Alone, OneDownload
    <3>3. QED
      BY <3>1, <3>2, NoSearch
  <2>3. SearchInv(c)'
    <3>1. CASE EndTarget(c)
      BY <2>1, <3>1, EndTargetIsNoSearch, NoSearch
    <3>2. CASE RunThrows(c)
      <4>1. runner'[c].at = "done"
        BY <3>2, <2>1, RunnerGoes DEF RunThrows, Move, FetchInv, Alone, Going, Runner
      <4>2. QED
        BY <4>1, NoSearch
    <3>3. QED
      BY <1>2, <3>1, <3>2, ReleaseStep, EntryStep, WriteStep, EndArchiveStep DEF RunAll, NextTarget, FetchThrows
  <2>4. QED
    BY <1>1, <2>2, <2>3 DEF SearchesOK
<1>3. ASSUME NEW c \in Callers, Begin(c)
      PROVE  SearchesOK'
  <2>1. \A d \in Callers : ~Running(d)
    BY <1>3 DEF Begin, FetchInv, Alone, OneDownload
  <2>2. \A d \in Callers : runner'[d].at \in {"idle", "target", "done"}
    BY <1>3, <2>1 DEF Begin, Move, Running, FetchInv, Alone, Runner
  <2>3. QED
    BY <1>1, <2>2, NoSearch DEF SearchesOK
<1>4. CASE Restart \/ \E c \in Callers : Finish(c)
  <2>1. \A d \in Callers : runner'[d].at \in {"idle", "target", "done"}
    <3>1. CASE Restart
      BY <3>1 DEF Restart, Idle
    <3>2. ASSUME NEW c \in Callers, Finish(c)
          PROVE  \A d \in Callers : runner'[d].at \in {"idle", "target", "done"}
      BY <3>2 DEF Finish, Idle, Running, FetchInv, Alone, OneDownload
    <3>3. QED
      BY <1>4, <3>1, <3>2
  <2>2. QED
    BY <1>1, <2>1, NoSearch DEF SearchesOK
<1>5. CASE UNCHANGED fetchVars
  <2>1. ASSUME NEW c \in Callers PROVE SearchInv(c)'
    BY <1>5 DEF SearchesOK, fetchVars, remote, SearchInv, InRelease, InWrite, WantOf, Tags, Archive, ThisPdb,
                Present, ReadPdbId
  <2>2. QED
    BY <1>1, <2>1 DEF SearchesOK
<1>6. QED
  BY <1>2, <1>3, <1>4, <1>5 DEF FetchNext

LEMMA SearchInductive == FetchSpec => [](FetchInv /\ SearchesOK)
<1>1. FetchInit => SearchesOK
  BY DEF FetchInit, SearchesOK, SearchInv, Idle
<1>2. FetchInv /\ SearchesOK /\ FetchInv' /\ [FetchNext]_fetchVars => SearchesOK'
  BY SearchStep
<1>3. QED
  BY FetchInductive, <1>1, <1>2, PTL DEF FetchSpec

\* A search in which nothing failed has the symbols when some release had them, also when the
\* match is one of several entries of its archive or in a later release.
THEOREM WhatWasToBeHadIsFound == FetchSpec => []MatchFound
<1>1. SearchesOK => MatchFound
  BY DEF SearchesOK, SearchInv, MatchFound
<1>2. QED
  BY SearchInductive, <1>1, PTL

----------------------------------------------------------------------------
(* Boot and Teardown *)

Booting == {"log", "arm", "start", "symbols", "install"}

\* The detours that the flag accounts for, or that the worker is about to set it for.
Accounted == IF installed \/ worker = "stores" THEN 1 ELSE 0

\* There are as many detours as are accounted for; one more between the exchange of the flag and
\* the detaching, and afterwards when that was refused.  The worker is not at it again while the
\* flag is set, Boot is through before the types are there, and whoever is to detach has a target.
LifeInv ==
  /\ worker \in {"none", "sleeps", "ticks", "attaches", "stores", "ended"}
  /\ main \in Booting => ~rttiReady /\ ~installed /\ worker \notin {"attaches", "stores"}
  /\ main \in {"log", "arm", "start"} => worker = "none"
  /\ main \in {"disarm", "shutdown", "unloaded"} => worker = "ended"
  /\ main # "log" /\ ~sdk => main = "unloaded"
  /\ installed => worker \notin {"attaches", "stores"}
  /\ hooks \in Nat /\ refused \in BOOLEAN
  /\ main = "detach" \/ (installed /\ main \in Booting \cup {"running"}) => target
  /\ main = "detach" => sdk
  /\ main \in Booting \cup {"running"} => hooks <= Accounted /\ ~refused
  /\ main = "detach" => hooks <= Accounted + 1 /\ ~refused
  /\ hooks <= Accounted + (IF refused \/ main = "detach" THEN 1 ELSE 0)

LEMMA LifeInitInv == LifecycleInit => LifeInv
<1>1. SUFFICES ASSUME LifeInit PROVE LifeInv
  BY DEF LifecycleInit
<1>2. main = "log" /\ worker = "none" /\ ~rttiReady /\ ~installed /\ hooks = 0 /\ refused = FALSE
  BY <1>1 DEF LifeInit
<1>3. Accounted = 0
  BY <1>2 DEF Accounted
<1>4. hooks <= Accounted /\ hooks <= Accounted + 1 /\ hooks <= Accounted + (IF refused \/ main = "detach" THEN 1 ELSE 0)
  BY <1>2, <1>3
<1>5. QED
  BY <1>2, <1>4 DEF LifeInv, Booting

LEMMA BootStep ==
  ASSUME LifeInv, Boot
  PROVE  LifeInv'
<1>1. CASE BootLog
  BY <1>1 DEF BootLog, At, hookVars, LifeInv, Accounted, Booting
<1>2. CASE BootArm
  BY <1>2 DEF BootArm, At, hookVars, LifeInv, Accounted, Booting
<1>3. CASE BootStart
  BY <1>3 DEF BootStart, At, hookVars, LifeInv, Accounted, Booting
<1>4. CASE BootSymbols
  BY <1>4 DEF BootSymbols, At, hookVars, LifeInv, Accounted, Booting
<1>5. CASE BootInstall
  <2>1. ~MayInstall
    BY <1>5 DEF BootInstall, At, MayInstall, LifeInv, Accounted, Booting
  <2>2. QED
    BY <1>5, <2>1 DEF BootInstall, At, LifeInv, Accounted, Booting
<1>6. QED
  BY <1>1, <1>2, <1>3, <1>4, <1>5 DEF Boot

LEMMA TeardownStep ==
  ASSUME LifeInv, Teardown
  PROVE  LifeInv'
<1>1. CASE Exchange
  BY <1>1 DEF Exchange, At, LifeInv, Accounted, Booting
<1>8. CASE Detach
  <2>0. sdk /\ target /\ hooks \in Nat /\ refused = FALSE
    BY <1>8 DEF Detach, At, LifeInv
  <2>1. hooks' \in Nat /\ refused' \in BOOLEAN /\ hooks' <= hooks /\ (hooks' <= hooks - 1 \/ refused')
    <3>1. CASE hooks' \in 0 .. hooks - 1 /\ refused' = refused
      <4>1. hooks' \in Nat /\ hooks' <= hooks /\ hooks' <= hooks - 1
        BY <2>0, <3>1
      <4>2. refused' \in BOOLEAN
        BY <2>0, <3>1
      <4>3. QED
        BY <4>1, <4>2
    <3>2. CASE hooks' = hooks /\ refused' = TRUE
      BY <2>0, <3>2
    <3>3. QED
      BY <1>8, <2>0, <3>1, <3>2 DEF Detach
  <2>2. main = "detach" /\ main' = "forget" /\ Accounted' = Accounted /\ Accounted \in {0, 1}
        /\ UNCHANGED <<worker, installed, sdk>>
    BY <1>8 DEF Detach, At, Accounted
  <2>3. hooks' <= Accounted' + (IF refused' \/ main' = "detach" THEN 1 ELSE 0)
    BY <2>1, <2>2 DEF LifeInv
  <2>4. QED
    BY <2>0, <2>1, <2>2, <2>3 DEF LifeInv, Booting
<1>9. CASE Forget
  BY <1>9 DEF Forget, At, LifeInv, Accounted, Booting
<1>2. CASE Unregister
  BY <1>2 DEF Unregister, At, hookVars, LifeInv, Accounted, Booting
<1>3. CASE Stop
  BY <1>3 DEF Stop, At, hookVars, LifeInv, Accounted, Booting
<1>4. CASE Join
  BY <1>4 DEF Join, At, hookVars, LifeInv, Accounted, Booting
<1>5. CASE Disarm
  BY <1>5 DEF Disarm, At, hookVars, LifeInv, Accounted, Booting
<1>6. CASE Shutdown
  BY <1>6 DEF Shutdown, At, hookVars, LifeInv, Accounted, Booting
<1>7. QED
  BY <1>1, <1>2, <1>3, <1>4, <1>5, <1>6, <1>8, <1>9 DEF Teardown

LEMMA WorkerStep ==
  ASSUME LifeInv, Worker
  PROVE  LifeInv'
<1>1. CASE TickOrEnd
  BY <1>1 DEF TickOrEnd, Works, hookVars, LifeInv, Accounted, Booting
<1>2. CASE TickInstall
  BY <1>2 DEF TickInstall, MayInstall, Works, hookVars, LifeInv, Accounted, Booting
<1>3. CASE TickAttach
  BY <1>3 DEF TickAttach, Works, LifeInv, Accounted, Booting
<1>4. CASE TickAttachFails
  BY <1>4 DEF TickAttachFails, Works, LifeInv, Accounted, Booting
<1>5. CASE TickStores
  BY <1>5 DEF TickStores, Works, LifeInv, Accounted, Booting
<1>6. QED
  BY <1>1, <1>2, <1>3, <1>4, <1>5 DEF Worker

LEMMA StepInv ==
  ASSUME LifeInv, [LifecycleNext]_<<lifeVars, dbVars>>
  PROVE  LifeInv'
<1>1. CASE PostRegister
  BY <1>1 DEF PostRegister, hookVars, LifeInv, Accounted, Booting
<1>2. CASE FreezeForCrash
  BY <1>2 DEF FreezeForCrash, hookVars, LifeInv, Accounted, Booting
<1>3. CASE Symbols
  BY <1>3 DEF Symbols, lifeVars, LifeInv, Accounted, Booting
<1>4. CASE UNCHANGED <<lifeVars, dbVars>>
  BY <1>4 DEF lifeVars, LifeInv, Accounted, Booting
<1>5. QED
  BY <1>1, <1>2, <1>3, <1>4, BootStep, TeardownStep, WorkerStep DEF LifecycleNext

LEMMA LifeInductive == LifecycleSpec => []LifeInv
  BY LifeInitInv, StepInv, PTL DEF LifecycleSpec

\* Boot and the worker both look at the flag before they attach the hook, without a lock, and the
\* script interpreter has no two detours while the plugin runs, and no three at any time; a second
\* one lives from the exchange of the flag to the detaching, unless that is refused.
THEOREM HookIsSingle == LifecycleSpec => []OneDetour
<1>1. LifeInv => OneDetour
  BY DEF LifeInv, Accounted, OneDetour
<1>2. QED
  BY LifeInductive, <1>1, PTL

\* When the logger and the SDK are given back the worker, which uses them, has ended.
THEOREM WorkerEndsBeforeUnload == LifecycleSpec => []WorkerEndsFirst
<1>1. LifeInv => WorkerEndsFirst
  BY DEF LifeInv, WorkerEndsFirst
<1>2. QED
  BY LifeInductive, <1>1, PTL

----------------------------------------------------------------------------
(* The table of symbols *)

Smaller == {ss \in Nat \X Nat : ss[1] < ss[2]}

LEMMA SmallerWellFounded == IsWellFoundedOn(Smaller, Nat)
  BY NatLessThanWellFounded DEF OpToRel, Smaller

LEMMA LeastNumber ==
  ASSUME NEW T \in SUBSET Nat, T # {}
  PROVE  \E m \in T : \A k \in T : m <= k
<1>1. PICK m \in T : \A k \in T : ~ (<<k, m>> \in Smaller)
  BY WFMin, SmallerWellFounded
<1>2. ASSUME NEW k \in T PROVE m <= k
  <2>1. k \in Nat /\ m \in Nat
    OBVIOUS
  <2>2. k < m => <<k, m>> \in Smaller
    BY <2>1 DEF Smaller
  <2>3. ~(k < m)
    BY <1>1, <2>2
  <2>4. QED
    BY <2>1, <2>3
<1>3. QED
  BY <1>2

EntryCount(f) == Cardinality(f.entries)

\* A file that may have been parsed.
Parsable(f) ==
  /\ IsFiniteSet(f.entries) /\ EntryCount(f) \in Nat
  /\ \A e \in f.entries : Rva(f, e) \in 0 .. Width - 1

\* What the sorting leaves: every entry at its address, in the order of the addresses, and the
\* sentinel after them.
IsTable(f, table) ==
  /\ Len(table) = EntryCount(f) + 1 /\ DOMAIN table = 1 .. EntryCount(f) + 1
  /\ \A i \in 1 .. EntryCount(f) :
       \E e \in f.entries : table[i].rva = Rva(f, e) /\ table[i].name = e.name
  /\ \A e \in f.entries :
       \E i \in 1 .. EntryCount(f) : table[i].rva = Rva(f, e) /\ table[i].name = e.name
  /\ \A i, j \in 1 .. EntryCount(f) : i < j => table[i].rva <= table[j].rva
  /\ table[EntryCount(f) + 1].rva = Width - 1 /\ table[EntryCount(f) + 1].name = ""

LEMMA RvaInWidth ==
  ASSUME NEW a \in Nat, NEW w \in Nat \ {0}
  PROVE  a % w \in 0 .. w - 1
  OBVIOUS

LEMMA FilesParse ==
  ASSUME NEW f \in Files, f # NoFile
  PROVE  Parsable(f)
<1>1. /\ IsFiniteSet(f.entries) /\ f.codeConst \in Nat
      /\ \A e \in f.entries : e.offset \in Nat
      /\ Width \in Nat \ {0}
  BY SymbolDbAssumption
<1>2. ASSUME NEW e \in f.entries PROVE Rva(f, e) \in 0 .. Width - 1
  <2>1. e.offset + f.codeConst \in Nat
    BY <1>1
  <2>2. QED
    BY <1>1, <2>1, RvaInWidth DEF Rva
<1>3. QED
  BY <1>1, <1>2, FS_CardinalityType DEF Parsable, EntryCount

\* A permutation of all the entries has each of them.
LEMMA AllEntriesPlaced ==
  ASSUME NEW S, IsFiniteSet(S), NEW p \in SetToAllKPermutations(S), Len(p) = Cardinality(S)
  PROVE  /\ p \in [1 .. Cardinality(S) -> S] /\ Cardinality(S) \in Nat
         /\ \A e \in S : \E i \in 1 .. Cardinality(S) : p[i] = e
<1>1. PICK T \in SUBSET S : p \in SetToSeqs(T)
  BY DEF SetToAllKPermutations
<1>2. IsFiniteSet(T) /\ Cardinality(T) \in Nat /\ Cardinality(S) \in Nat /\ (Cardinality(S) = Cardinality(T) => S = T)
  BY FS_Subset, FS_CardinalityType
<1>3. p \in [1 .. Cardinality(T) -> T] /\ \A i, j \in 1 .. Cardinality(T) : i # j => p[i] # p[j]
  BY <1>1 DEF SetToSeqs
<1>4. Len(p) = Cardinality(T)
  BY <1>2, <1>3
<1>5. T = S
  BY <1>2, <1>4
<1>6. p \in Injection(1 .. Cardinality(S), S)
  BY <1>3, <1>5 DEF Injection, IsInjective
<1>7. IsFiniteSet(1 .. Cardinality(S)) /\ Cardinality(1 .. Cardinality(S)) = Cardinality(S)
  BY <1>2, FS_Interval
<1>8. p \in Surjection(1 .. Cardinality(S), S)
  BY <1>6, <1>7, FS_Injection
<1>9. QED
  BY <1>2, <1>3, <1>5, <1>8 DEF Surjection

LEMMA ListIsSeq ==
  ASSUME NEW S, NEW n \in Nat, NEW s \in [1 .. n -> S]
  PROVE  s \in Seq(S) /\ Len(s) = n
  OBVIOUS

LEMMA AppendedList ==
  ASSUME NEW S, NEW s \in Seq(S), NEW x \in S
  PROVE  /\ Len(Append(s, x)) = Len(s) + 1 /\ DOMAIN Append(s, x) = 1 .. Len(s) + 1
         /\ Append(s, x)[Len(s) + 1] = x
         /\ \A i \in 1 .. Len(s) : Append(s, x)[i] = s[i]
  OBVIOUS

LEMMA SortedIsTable ==
  ASSUME NEW f, Parsable(f), NEW table \in SortedTables(f)
  PROVE  IsTable(f, table)
<1> DEFINE n == EntryCount(f)
           sentinel == [rva |-> Width - 1, name |-> ""]
<1>1. PICK p \in SetToAllKPermutations(f.entries) :
        /\ Len(p) = Cardinality(f.entries)
        /\ \A i, j \in DOMAIN p : i < j => Rva(f, p[i]) <= Rva(f, p[j])
        /\ table = Append([i \in DOMAIN p |-> [rva |-> Rva(f, p[i]), name |-> p[i].name]], sentinel)
  BY DEF SortedTables
<1>2. /\ p \in [1 .. n -> f.entries] /\ n \in Nat
      /\ \A e \in f.entries : \E i \in 1 .. n : p[i] = e
  BY <1>1, AllEntriesPlaced DEF Parsable, EntryCount
<1>3. DOMAIN p = 1 .. n
  BY <1>2
<1> DEFINE rows == [i \in 1 .. n |-> [rva |-> Rva(f, p[i]), name |-> p[i].name]]
           Row == {[rva |-> Rva(f, e), name |-> e.name] : e \in f.entries} \cup {sentinel}
<1>4. rows \in [1 .. n -> Row] /\ table = Append(rows, sentinel) /\ sentinel \in Row
  BY <1>1, <1>2, <1>3
<1>5. \A i \in 1 .. n : rows[i].rva = Rva(f, p[i]) /\ rows[i].name = p[i].name
  OBVIOUS
<1>6. \A i, j \in 1 .. n : i < j => Rva(f, p[i]) <= Rva(f, p[j])
  BY <1>1, <1>3
<1>7. sentinel.rva = Width - 1 /\ sentinel.name = ""
  OBVIOUS
<1> HIDE DEF rows, Row, sentinel
<1>8. /\ Len(table) = n + 1 /\ DOMAIN table = 1 .. n + 1 /\ table[n + 1] = sentinel
      /\ \A i \in 1 .. n : table[i] = rows[i]
  <2>1. rows \in Seq(Row) /\ Len(rows) = n
    BY ONLY <1>2, <1>4, ListIsSeq
  <2>2. QED
    BY ONLY <1>4, <2>1, AppendedList
<1>9. \A i \in 1 .. n : p[i] \in f.entries
  BY <1>2
<1>10. /\ \A i \in 1 .. n :
            \E e \in f.entries : table[i].rva = Rva(f, e) /\ table[i].name = e.name
       /\ \A e \in f.entries :
            \E i \in 1 .. n : table[i].rva = Rva(f, e) /\ table[i].name = e.name
  <2> HIDE DEF n
  <2> QED
    BY ONLY <1>2, <1>5, <1>8, <1>9
<1>11. \A i, j \in 1 .. n : i < j => table[i].rva <= table[j].rva
  <2> HIDE DEF n
  <2> QED
    BY ONLY <1>5, <1>6, <1>8
<1>12. QED
  BY <1>7, <1>8, <1>10, <1>11 DEF IsTable

\* Binary search: what LowerBound counts is the first row that is not before the address.
LEMMA LowerBoundIsFirst ==
  ASSUME NEW f, Parsable(f), NEW table, IsTable(f, table), NEW rva \in 0 .. Width - 1
  PROVE  /\ LowerBound(table, rva) \in 1 .. EntryCount(f) + 1
         /\ \A i \in 1 .. EntryCount(f) + 1 : i < LowerBound(table, rva) <=> table[i].rva < rva
<1> DEFINE n == EntryCount(f)
           After == {i \in 1 .. n + 1 : ~(table[i].rva < rva)}
<1>1. n \in Nat /\ Width \in Nat \ {0}
  BY SymbolDbAssumption DEF Parsable
<1>t. table[n + 1].rva = Width - 1 /\ DOMAIN table = 1 .. n + 1
  BY DEF IsTable
<1>2. \A i \in 1 .. n + 1 : table[i].rva \in 0 .. Width - 1
  <2>1. ASSUME NEW i \in 1 .. n PROVE table[i].rva \in 0 .. Width - 1
    <3>1. PICK e \in f.entries : table[i].rva = Rva(f, e)
      BY DEF IsTable
    <3>2. Rva(f, e) \in 0 .. Width - 1
      BY DEF Parsable
    <3>3. QED
      BY <3>1, <3>2
  <2>2. table[n + 1].rva \in 0 .. Width - 1
    BY ONLY <1>1, <1>t
  <2>3. \A i \in 1 .. n + 1 : i \in 1 .. n \/ i = n + 1
    BY <1>1
  <2>4. QED
    BY <2>1, <2>2, <2>3
<1>3. \A i, j \in 1 .. n + 1 : i < j => table[i].rva <= table[j].rva
  <2>1. ASSUME NEW i \in 1 .. n + 1, NEW j \in 1 .. n + 1, i < j
        PROVE  table[i].rva <= table[j].rva
    <3>1. CASE j = n + 1
      <4>1. table[j].rva = Width - 1
        BY <3>1 DEF IsTable
      <4>2. table[i].rva \in 0 .. Width - 1
        BY <1>2
      <4>3. QED
        BY <1>1, <4>1, <4>2
    <3>2. CASE j # n + 1
      <4>1. i \in 1 .. n /\ j \in 1 .. n
        BY <1>1, <2>1, <3>2
      <4>2. \A k, l \in 1 .. n : k < l => table[k].rva <= table[l].rva
        BY DEF IsTable
      <4>3. QED
        BY <2>1, <4>1, <4>2
    <3>3. QED
      BY <3>1, <3>2
  <2>2. QED
    BY <2>1
<1>4. After \in SUBSET Nat /\ After # {}
  <2>1. n + 1 \in 1 .. n + 1 /\ ~(table[n + 1].rva < rva)
    <3>1. rva \in 0 .. Width - 1
      OBVIOUS
    <3>2. QED
      BY ONLY <1>1, <1>t, <3>1
  <2>2. n + 1 \in After
    BY <2>1
  <2>3. QED
    BY <1>1, <2>2
<1>5. PICK m \in After : \A k \in After : m <= k
  <2> HIDE DEF After
  <2> QED
    BY <1>4, LeastNumber
<1>6. m \in 1 .. n + 1 /\ ~(table[m].rva < rva)
  OBVIOUS
<1>7. \A i \in 1 .. n + 1 : i < m <=> table[i].rva < rva
  <2>1. ASSUME NEW i \in 1 .. n + 1, i < m PROVE table[i].rva < rva
    BY <1>1, <1>5, <1>6, <2>1
  <2>2. ASSUME NEW i \in 1 .. n + 1, ~(i < m) PROVE ~(table[i].rva < rva)
    <3>1. i = m \/ m < i
      BY <1>1, <1>6, <2>2
    <3>2. table[m].rva <= table[i].rva
      BY <1>2, <1>3, <1>6, <3>1
    <3>3. QED
      BY <1>2, <1>6, <3>2
  <2>3. QED
    BY <2>1, <2>2
<1>8. {i \in DOMAIN table : table[i].rva < rva} = 1 .. (m - 1)
  <2>1. DOMAIN table = 1 .. n + 1
    BY <1>t
  <2>2. \A i : i \in 1 .. (m - 1) <=> i \in 1 .. n + 1 /\ i < m
    BY <1>1, <1>6
  <2>3. QED
    BY <1>7, <2>1, <2>2
<1>9. Cardinality(1 .. (m - 1)) = m - 1
  BY <1>1, <1>6, FS_Interval
<1>10. LowerBound(table, rva) = m
  <2>1. LowerBound(table, rva) = 1 + Cardinality({i \in DOMAIN table : table[i].rva < rva})
    BY DEF LowerBound
  <2>2. LowerBound(table, rva) = 1 + (m - 1)
    BY ONLY <1>8, <1>9, <2>1
  <2>3. QED
    BY <1>1, <1>6, <2>2
<1>11. QED
  BY <1>6, <1>7, <1>10

\* The row a lookup takes: nothing that is not after the address lies after it.
LookupRow(table, rva) ==
  LET at == LowerBound(table, rva)
  IN IF at <= Len(table) /\ table[at].rva = rva THEN at ELSE at - 1

LEMMA RowIsNearest ==
  ASSUME NEW f, Parsable(f), NEW table, IsTable(f, table), NEW rva \in 0 .. Width - 1
  PROVE  /\ LookupRow(table, rva) \in 0 .. EntryCount(f) + 1
         /\ LookupRow(table, rva) = EntryCount(f) + 1 => rva = Width - 1
         /\ LookupRow(table, rva) \in 1 .. EntryCount(f) => table[LookupRow(table, rva)].rva <= rva
         /\ \A i \in 1 .. EntryCount(f) :
              table[i].rva <= rva => /\ LookupRow(table, rva) # 0
                                     /\ table[i].rva <= table[LookupRow(table, rva)].rva
<1> DEFINE n == EntryCount(f)
           at == LowerBound(table, rva)
           row == LookupRow(table, rva)
<1>1. n \in Nat /\ Width \in Nat /\ rva \in Nat
  BY SymbolDbAssumption DEF Parsable
<1>2. at \in 1 .. n + 1 /\ \A i \in 1 .. n + 1 : i < at <=> table[i].rva < rva
  BY LowerBoundIsFirst
<1>3. Len(table) = n + 1 /\ table[n + 1].rva = Width - 1
  BY DEF IsTable
<1>4. \A i \in 1 .. n : table[i].rva \in Nat
  <2>1. ASSUME NEW i \in 1 .. n PROVE table[i].rva \in Nat
    <3>1. PICK e \in f.entries : table[i].rva = Rva(f, e)
      BY DEF IsTable
    <3>2. Rva(f, e) \in 0 .. Width - 1
      BY DEF Parsable
    <3>3. QED
      BY <1>1, <3>1, <3>2
  <2>2. QED
    BY <2>1
<1>5. \A i, j \in 1 .. n : i < j => table[i].rva <= table[j].rva
  BY DEF IsTable
<1>6. row = IF table[at].rva = rva THEN at ELSE at - 1
  BY <1>1, <1>2, <1>3 DEF LookupRow
<1> HIDE DEF n, at, row
<1>7. CASE table[at].rva = rva
  <2>1. row = at
    BY <1>6, <1>7
  <2>2. row \in 1 .. n + 1 /\ table[row].rva = rva
    BY <1>2, <1>7, <2>1
  <2>3. row = n + 1 => rva = Width - 1
    BY <1>3, <2>2
  <2>4. row # 0
    BY <1>1, <2>2
  <2>5. QED
    BY <1>1, <2>2, <2>3, <2>4 DEF n, row
<1>8. CASE table[at].rva # rva
  <2>1. row = at - 1
    BY <1>6, <1>8
  <2>2. row \in 0 .. n
    BY <1>1, <1>2, <2>1
  <2>3. ASSUME row \in 1 .. n PROVE table[row].rva <= rva
    <3>1. row < at /\ row \in 1 .. n + 1
      BY <1>1, <1>2, <2>1, <2>3
    <3>2. table[row].rva < rva
      BY <1>2, <3>1
    <3>3. QED
      BY <1>1, <1>4, <2>3, <3>2
  <2>4. ASSUME NEW i \in 1 .. n, table[i].rva <= rva
        PROVE  row # 0 /\ table[i].rva <= table[row].rva
    <3>1. i \in 1 .. n + 1
      BY <1>1
    <3>2. i < at
      <4>1. SUFFICES ASSUME ~(i < at) PROVE FALSE
        OBVIOUS
      <4>2. ~(table[i].rva < rva)
        BY <1>2, <3>1, <4>1
      <4>3. table[i].rva = rva
        BY <1>1, <1>4, <2>4, <4>2
      <4>4. at < i \/ at = i
        BY <1>1, <1>2, <4>1
      <4>5. at # i
        BY <1>8, <4>3
      <4>6. at \in 1 .. n /\ at < i
        BY <1>1, <1>2, <4>4, <4>5
      <4>7. table[at].rva <= rva
        BY <1>5, <4>3, <4>6
      <4>8. ~(table[at].rva < rva)
        <5>1. ~(at < at)
          BY <1>1, <1>2
        <5>2. QED
          BY <1>2, <5>1
      <4>9. QED
        BY <1>1, <1>4, <1>8, <4>6, <4>7, <4>8
    <3>3. i = row \/ i < row
      BY <1>1, <1>2, <2>1, <3>2
    <3>4. row \in 1 .. n /\ row # 0
      BY <1>1, <2>2, <3>3
    <3>5. table[i].rva \in Nat
      BY <1>4
    <3>6. QED
      BY <1>5, <3>3, <3>4, <3>5
  <2>5. row \in 0 .. n + 1 /\ row # n + 1
    BY <1>1, <2>2
  <2>6. QED
    BY <2>3, <2>4, <2>5 DEF n, row
<1>9. QED
  BY <1>7, <1>8

LEMMA AnswerIsRight ==
  ASSUME Parsable(file), NEW table, IsTable(file, table), NEW rva \in 0 .. Width - 1
  PROVE  NameIsRight(rva, ResolveCodeAddress(table, rva))
<1> DEFINE n == EntryCount(file)
           row == LookupRow(table, rva)
           s == Hit(table, row, rva)
           answer == ResolveCodeAddress(table, rva)
<1>1. n \in Nat /\ Width \in Nat /\ rva \in Nat /\ FarLimit \in Nat /\ NearLimit \in Nat
  BY SymbolDbAssumption DEF Parsable
<1>2. /\ row \in 0 .. n + 1
      /\ row = n + 1 => rva = Width - 1
      /\ row \in 1 .. n => table[row].rva <= rva
      /\ \A i \in 1 .. n : table[i].rva <= rva => row # 0 /\ table[i].rva <= table[row].rva
  BY RowIsNearest
<1>3. Lookup(table, rva) = s
  BY DEF Lookup, LookupRow
<1>4. answer = IF s.found /\ s.offset < FarLimit
               THEN [s EXCEPT !.approximate = s.offset >= NearLimit] ELSE NotFound
  BY <1>3 DEF ResolveCodeAddress
<1>5. NotFound.found = FALSE
  BY DEF NotFound
<1>6. \A e \in file.entries : Rva(file, e) \in Nat
  BY <1>1 DEF Parsable
<1>7. /\ \A e \in file.entries : \E i \in 1 .. n : table[i].rva = Rva(file, e)
      /\ \A i \in 1 .. n : \E e \in file.entries : table[i].rva = Rva(file, e) /\ table[i].name = e.name
      /\ table[n + 1].name = ""
  BY DEF IsTable
<1> HIDE DEF n, row
<1>8. CASE row = n + 1
  <2>1. s = NotFound
    BY <1>7, <1>8 DEF Hit
  <2>2. answer = NotFound
    BY <1>4, <1>5, <2>1
  <2>3. rva = Width - 1
    BY <1>2, <1>8
  <2>4. QED
    BY <1>5, <2>2, <2>3 DEF NameIsRight
<1>9. CASE row = 0
  <2>1. answer = NotFound
    BY <1>4, <1>5, <1>9 DEF Hit
  <2>2. ASSUME NEW e \in file.entries, Rva(file, e) <= rva PROVE FALSE
    BY <1>2, <1>7, <1>9, <2>2
  <2>3. Nearest(rva) = {}
    BY <2>2 DEF Nearest, Below
  <2>4. QED
    BY <1>5, <2>1, <2>3 DEF NameIsRight
<1>10. CASE row \in 1 .. n
  <2>1. PICK e \in file.entries : table[row].rva = Rva(file, e) /\ table[row].name = e.name
    BY <1>7, <1>10
  <2>2. Rva(file, e) <= rva
    BY <1>2, <1>10, <2>1
  <2>3. ASSUME NEW d \in file.entries, Rva(file, d) <= rva
        PROVE  Rva(file, d) <= Rva(file, e)
    BY <1>2, <1>7, <2>1, <2>3
  <2>4. e \in Nearest(rva)
    BY <2>2, <2>3 DEF Nearest, Below
  <2>5. CASE e.name = ""
    <3>1. s = NotFound
      BY <2>1, <2>5 DEF Hit
    <3>2. answer = NotFound
      BY <1>4, <1>5, <3>1
    <3>3. QED
      BY <1>5, <2>4, <2>5, <3>2 DEF NameIsRight
  <2>6. CASE e.name # ""
    <3>0. row # 0
      BY <1>1, <1>10
    <3>1. s = [found |-> TRUE, name |-> e.name, offset |-> rva - Rva(file, e), approximate |-> FALSE]
      BY <2>1, <2>6, <3>0 DEF Hit
    <3>2. CASE rva - Rva(file, e) < FarLimit
      <4>1. answer = [s EXCEPT !.approximate = s.offset >= NearLimit]
        BY <1>4, <3>1, <3>2
      <4>2. /\ answer.found = TRUE /\ answer.name = e.name /\ answer.offset = rva - Rva(file, e)
            /\ answer.approximate = (answer.offset >= NearLimit)
        BY <3>1, <4>1
      <4>3. QED
        BY <2>4, <3>2, <4>2 DEF NameIsRight
    <3>3. CASE ~(rva - Rva(file, e) < FarLimit)
      <4>1. answer = NotFound
        BY <1>4, <3>1, <3>3
      <4>2. ASSUME NEW d \in Nearest(rva) PROVE rva - Rva(file, d) >= FarLimit
        <5>1. d \in file.entries /\ Rva(file, d) <= Rva(file, e)
          BY <2>3 DEF Nearest, Below
        <5>2. QED
          BY <1>1, <1>6, <3>3, <5>1
      <4>3. QED
        BY <1>5, <4>1, <4>2 DEF NameIsRight
    <3>4. QED
      BY <3>2, <3>3
  <2>7. QED
    BY <2>5, <2>6
<1>11. row = 0 \/ row \in 1 .. n \/ row = n + 1
  BY <1>1, <1>2
<1>12. QED
  BY <1>8, <1>9, <1>10, <1>11

\* The columns are those of the file, and none is moved before they are sorted; who looks an
\* address up has seen the flag, which is set when all four are in place.
DbInv ==
  /\ file \in Files
  /\ status = "loading" => file # NoFile
  /\ sorted # <<>> => file # NoFile /\ sorted \in SortedTables(file)
  /\ columns # 0 => sorted # <<>>
  /\ ready => columns = 4
  /\ reader \in [Readers -> 0 .. Width]
  /\ \A r \in Readers : reader[r] # Width => ready

LEMMA DbInitInv == DbInit => DbInv
  BY SymbolDbAssumption DEF DbInit, DbInv

LEMMA DbStep == DbInv /\ [DbNext]_dbVars => DbInv'
<1> SUFFICES ASSUME DbInv, [DbNext]_dbVars PROVE DbInv'
  OBVIOUS
<1>1. CASE StartLoad
  BY <1>1 DEF StartLoad, DbInv
<1>2. CASE ParseFails
  BY <1>2 DEF ParseFails, DbInv
<1>3. CASE Parse
  BY <1>3 DEF Parse, DbInv
<1>4. CASE MoveColumn
  <2>1. ~ready
    BY <1>4 DEF MoveColumn, DbInv
  <2>2. QED
    BY <1>4, <2>1 DEF MoveColumn, DbInv
<1>5. CASE SetReady
  BY <1>5 DEF SetReady, DbInv
<1>6. CASE SetStatusReady
  BY <1>6 DEF SetStatusReady, DbInv
<1>7. ASSUME NEW r \in Readers, BeginLookup(r)
      PROVE  DbInv'
  <2>1. ready /\ UNCHANGED <<file, status, ready, sorted, columns>>
    BY <1>7 DEF BeginLookup
  <2>2. PICK rva \in 0 .. Width - 1 : reader' = [reader EXCEPT ![r] = rva]
    BY <1>7 DEF BeginLookup
  <2>3. rva \in 0 .. Width
    BY SymbolDbAssumption
  <2>4. reader' \in [Readers -> 0 .. Width]
    BY <2>2, <2>3 DEF DbInv
  <2>5. QED
    BY <2>1, <2>4 DEF DbInv
<1>8. ASSUME NEW r \in Readers, EndLookup(r)
      PROVE  DbInv'
  <2>1. UNCHANGED <<file, status, ready, sorted, columns>> /\ reader' = [reader EXCEPT ![r] = Width]
    BY <1>8 DEF EndLookup
  <2>2. Width \in 0 .. Width
    BY SymbolDbAssumption
  <2>3. reader' \in [Readers -> 0 .. Width]
    BY <2>1, <2>2 DEF DbInv
  <2>4. \A u \in Readers : reader'[u] # Width => reader[u] # Width
    BY <2>1 DEF DbInv
  <2>5. QED
    BY <2>1, <2>3, <2>4 DEF DbInv
<1>9. CASE UNCHANGED dbVars
  BY <1>9 DEF dbVars, DbInv
<1>10. QED
  BY <1>1, <1>2, <1>3, <1>4, <1>5, <1>6, <1>7, <1>8, <1>9 DEF DbNext, LoadThread

LEMMA LookupsAreRight == DbInv => NamesAreNearest
<1> SUFFICES ASSUME DbInv, NEW r \in Readers, reader[r] # Width
             PROVE  columns = 4 /\ NameIsRight(reader[r], ResolveCodeAddress(sorted, reader[r]))
  BY DEF NamesAreNearest
<1>1. columns = 4
  BY DEF DbInv
<1>2. file \in Files /\ file # NoFile /\ sorted \in SortedTables(file)
  BY <1>1 DEF DbInv
<1>3. IsTable(file, sorted) /\ Parsable(file)
  BY <1>2, FilesParse, SortedIsTable
<1>4. reader[r] \in 0 .. Width - 1
  <2>1. reader[r] \in 0 .. Width
    BY DEF DbInv
  <2>2. QED
    BY <2>1, SymbolDbAssumption
<1>5. QED
  BY <1>1, <1>3, <1>4, AnswerIsRight

\* To the table of symbols the plugin is one that starts its load, and its reports lookups.
LEMMA LoadsAsSpecified == LifecycleSpec => DbSpec
<1>1. LifecycleInit => DbInit
  BY DEF LifecycleInit
<1>2. [LifecycleNext]_<<lifeVars, dbVars>> => [DbNext]_dbVars
  BY DEF LifecycleNext, Boot, BootLog, BootArm, BootStart, BootSymbols, BootInstall, PostRegister,
         FreezeForCrash, Teardown, Exchange, Detach, Forget, Unregister, Stop, Join, Disarm, Shutdown, Worker, TickOrEnd,
         TickInstall, TickAttach, TickAttachFails, TickStores, Works, Symbols, DbNext, hookVars
<1>3. QED
  BY <1>1, <1>2, PTL DEF LifecycleSpec, DbSpec

\* For a symbol file of any size: a report that is written at any moment of the load takes a
\* name only from a table that is complete, and the nearest one.
THEOREM LookupsFindNearest == LifecycleSpec => []NamesAreNearest
<1>1. DbInit => DbInv
  BY DbInitInv
<1>2. DbInv /\ [DbNext]_dbVars => DbInv'
  BY DbStep
<1>3. DbInv => NamesAreNearest
  BY LookupsAreRight
<1>4. QED
  BY <1>1, <1>2, <1>3, LoadsAsSpecified, PTL DEF DbSpec
=============================================================================
