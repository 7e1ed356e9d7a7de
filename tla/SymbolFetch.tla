----------------------------- MODULE SymbolFetch -----------------------------
(***************************************************************************)
(* symbols/SymbolFetch.cpp: the download of debug symbols.  For each of a  *)
(* list of modules the newest suitable release is looked up on the web,    *)
(* its archive is fetched into memory, and every PDB in it that is not     *)
(* known to belong to another build is written to the symbols directory.   *)
(* A download is asked for at boot and again from the game's user          *)
(* interface, each on a thread of its own; the process may end at any      *)
(* step, and the directory is all that the next launch finds.              *)
(***************************************************************************)
EXTENDS Naturals, Sequences

CONSTANTS
  Callers,   \* the threads that may run a download: the one of the boot, those of the user
  Targets,   \* kTargets: the modules symbols are fetched for, a sequence
  Names,     \* base names of PDB files
  Ids,       \* debug identifiers (GUID and age)
  NoId,      \* PdbId::valid = false
  NoAsset,   \* a release that does not exist, or has no usable symbol archive
  Releases,  \* what the web may hold: per target the sequence of archives under its tags
  Wants      \* the builds that may be loaded: per target an identifier, or NoId

ASSUME FetchAssumption ==
  /\ NoId \notin Ids
  /\ Len(Targets) \in Nat \ {0} /\ DOMAIN Targets = 1..Len(Targets)
  /\ Wants \subseteq [DOMAIN Targets -> Ids \cup {NoId}]
  /\ \A web \in Releases, t \in DOMAIN Targets :
       web[t] \in Seq({NoAsset} \cup Seq([name : Names, id : Ids \cup {NoId}]))

VARIABLES
  inFlight,  \* s_inFlight
  runner,    \* per caller: where it is in RunGuarded
  disk,      \* per name the PDB in the symbols directory
  want,      \* per target what ReadDllCodeView finds; NoId also when it is not loaded
  releases,  \* the web
  wanted     \* history: the identifiers that were ever wanted

fetchVars == <<inFlight, runner, disk, want, releases, wanted>>
remote == <<want, releases, wanted>>

Absent == [id |-> NoId, cut |-> "absent"]

\* A PDB whose writing was cut short is unreadable ("early"), unless all that its
\* identifier is read from was in the part that was written ("late").
File == [id : Ids \cup {NoId}, cut : {"no", "early", "late"}] \cup {Absent}

ReadPdbId(file) == IF file.cut \in {"no", "late"} THEN file.id ELSE NoId

\* The look for a file of the directory that already has the identifier.
Present(id) == \E n \in Names : id # NoId /\ ReadPdbId(disk[n]) = id

Idle == [at |-> "idle", target |-> 1, release |-> 1, entry |-> 1, placed |-> FALSE, clean |-> TRUE]

\* clean is a history field: nothing has failed in the FetchOne that is going on.
Running(c) == runner[c].at # "idle"
WantOf(c) == want[runner[c].target]
Tags(c) == releases[runner[c].target]
Archive(c) == Tags(c)[runner[c].release]
ThisPdb(c) == Archive(c)[runner[c].entry]

Move(c, next) == runner' = [runner EXCEPT ![c] = next]

FetchTypeOK ==
  /\ inFlight \in BOOLEAN
  /\ runner \in [Callers -> [at : {"idle", "target", "release", "extract", "write", "fetched", "done"},
                             target : Nat, release : Nat, entry : Nat,
                             placed : BOOLEAN, clean : BOOLEAN]]
  /\ disk \in [Names -> File]
  /\ want \in Wants
  /\ wanted \subseteq Ids

FetchInit ==
  /\ inFlight = FALSE
  /\ runner = [c \in Callers |-> Idle]
  /\ disk = [n \in Names |-> Absent]
  /\ want \in Wants
  /\ releases \in Releases
  /\ wanted = {want[t] : t \in DOMAIN want} \ {NoId}

----------------------------------------------------------------------------
(* One caller *)

\* Mutant: the flag is looked at and set in two steps, and another caller comes between.
BeginUnguarded(c) == ~Running(c) /\ inFlight' = TRUE /\ Move(c, [runner[c] EXCEPT !.at = "target"]) /\ UNCHANGED <<disk, remote>>

\* RunGuarded: the compare-exchange; a caller that finds it taken skips the download.
Begin(c) ==
  /\ ~Running(c) /\ ~inFlight
  /\ inFlight' = TRUE
  /\ Move(c, [runner[c] EXCEPT !.at = "target"])
  /\ UNCHANGED <<disk, remote>>

EndTarget(c) ==
  Move(c, IF runner[c].target < Len(Targets) THEN [Idle EXCEPT !.at = "target", !.target = runner[c].target + 1]
                                              ELSE [runner[c] EXCEPT !.at = "done"])

\* FetchOne up to its tags: a module that is not loaded or has no identifier has no symbols
\* to fetch, and neither has one whose symbols a file of the directory already is.
CheckPresent(c) ==
  /\ runner[c].at = "target"
  /\ IF WantOf(c) = NoId \/ Present(WantOf(c)) THEN EndTarget(c)
                                             ELSE Move(c, [runner[c] EXCEPT !.at = "release", !.release = 1])
  /\ UNCHANGED <<inFlight, disk, remote>>

\* The two requests of a tag: the description of the release, and the archive it names.
FetchRelease(c) ==
  /\ runner[c].at = "release" /\ runner[c].release <= Len(Tags(c))
  /\ \/ /\ Archive(c) # NoAsset
        /\ Move(c, [runner[c] EXCEPT !.at = "extract", !.entry = 1, !.placed = FALSE])
     \/ /\ Archive(c) = NoAsset
        /\ Move(c, [runner[c] EXCEPT !.release = @ + 1])
  /\ UNCHANGED <<inFlight, disk, remote>>

\* A request fails, or its answer is cut short and is no archive or description.
FetchReleaseFails(c) ==
  /\ runner[c].at = "release" /\ runner[c].release <= Len(Tags(c))
  /\ Move(c, [runner[c] EXCEPT !.release = @ + 1, !.clean = FALSE])
  /\ UNCHANGED <<inFlight, disk, remote>>

NothingFound(c) ==
  /\ runner[c].at = "release" /\ runner[c].release > Len(Tags(c))
  /\ Move(c, [runner[c] EXCEPT !.at = "fetched"])
  /\ UNCHANGED <<inFlight, disk, remote>>

InArchive(c) == runner[c].at = "extract" /\ runner[c].entry <= Len(Archive(c))

SkipEntry(c) ==
  /\ InArchive(c)
  /\ ThisPdb(c).id # NoId /\ ThisPdb(c).id # WantOf(c)
  /\ Move(c, [runner[c] EXCEPT !.entry = @ + 1])
  /\ UNCHANGED <<inFlight, disk, remote>>

\* Mutant: what is in the archive is placed without a look at its identifier.
OpenDestUnchecked(c) ==
  /\ InArchive(c)
  /\ disk' = [disk EXCEPT ![ThisPdb(c).name] = [id |-> ThisPdb(c).id, cut |-> "early"]]
  /\ Move(c, [runner[c] EXCEPT !.at = "write"]) /\ UNCHANGED <<inFlight, remote>>

\* The entry is extracted, is not known to be of another build, and its file is opened.
OpenDest(c) ==
  /\ InArchive(c)
  /\ ThisPdb(c).id = NoId \/ ThisPdb(c).id = WantOf(c)
  /\ disk' = [disk EXCEPT ![ThisPdb(c).name] = [id |-> ThisPdb(c).id, cut |-> "early"]]
  /\ Move(c, [runner[c] EXCEPT !.at = "write"])
  /\ UNCHANGED <<inFlight, remote>>

\* The entry is damaged, or its file does not open.
EntryFails(c) ==
  /\ InArchive(c)
  /\ Move(c, [runner[c] EXCEPT !.entry = @ + 1, !.clean = FALSE])
  /\ UNCHANGED <<inFlight, disk, remote>>

WriteBytes(c) ==
  /\ runner[c].at = "write"
  /\ disk' = [disk EXCEPT ![ThisPdb(c).name].cut = "no"]
  /\ Move(c, [runner[c] EXCEPT !.at = "extract", !.entry = @ + 1, !.placed = TRUE])
  /\ UNCHANGED <<inFlight, remote>>

WriteBytesFails(c) ==
  /\ runner[c].at = "write"
  /\ \E cut \in {"early", "late"} : disk' = [disk EXCEPT ![ThisPdb(c).name].cut = cut]
  /\ Move(c, [runner[c] EXCEPT !.at = "extract", !.entry = @ + 1, !.clean = FALSE])
  /\ UNCHANGED <<inFlight, remote>>

\* Mutant: the first archive ends the search, whether a file came of it or not.
EndFirstArchive(c) ==
  /\ runner[c].at = "extract" /\ runner[c].entry > Len(Archive(c))
  /\ Move(c, [runner[c] EXCEPT !.at = "fetched"]) /\ UNCHANGED <<inFlight, disk, remote>>

\* The first release that placed a file ends the search.
EndArchive(c) ==
  /\ runner[c].at = "extract" /\ runner[c].entry > Len(Archive(c))
  /\ Move(c, IF runner[c].placed THEN [runner[c] EXCEPT !.at = "fetched"]
                                 ELSE [runner[c] EXCEPT !.at = "release", !.release = @ + 1])
  /\ UNCHANGED <<inFlight, disk, remote>>

NextTarget(c) ==
  /\ runner[c].at = "fetched"
  /\ EndTarget(c)
  /\ UNCHANGED <<inFlight, disk, remote>>

\* An exception of FetchOne (memory, a directory that goes away): the next target is taken.
FetchThrows(c) ==
  /\ runner[c].at \in {"target", "release", "extract", "write"}
  /\ EndTarget(c)
  /\ UNCHANGED <<inFlight, disk, remote>>

\* Mutant: the flag is not released.
FinishHolding(c) ==
  /\ runner[c].at = "done"
  /\ runner' = [runner EXCEPT ![c] = Idle] /\ UNCHANGED <<inFlight, disk, remote>>

\* The end of RunGuarded, which an exception of RunAll reaches too.
Finish(c) ==
  /\ runner[c].at = "done"
  /\ inFlight' = FALSE
  /\ runner' = [runner EXCEPT ![c] = Idle]
  /\ UNCHANGED <<disk, remote>>

RunThrows(c) ==
  /\ runner[c].at \in {"target", "fetched"}
  /\ Move(c, [runner[c] EXCEPT !.at = "done"])
  /\ UNCHANGED <<inFlight, disk, remote>>

\* The process ends, and the game is started again, perhaps with other builds of its modules.
\* What was being written is cut.
Restart ==
  /\ inFlight' = FALSE
  /\ runner' = [c \in Callers |-> Idle]
  /\ \E cut \in {"early", "late"} :
       disk' = [n \in Names |->
                  IF \E c \in Callers : runner[c].at = "write" /\ ThisPdb(c).name = n
                  THEN [disk[n] EXCEPT !.cut = cut] ELSE disk[n]]
  /\ want' \in Wants
  /\ wanted' = wanted \cup ({want'[t] : t \in DOMAIN want} \ {NoId})
  /\ UNCHANGED releases

RunAll(c) ==
  \/ CheckPresent(c) \/ FetchRelease(c) \/ FetchReleaseFails(c) \/ NothingFound(c)
  \/ SkipEntry(c) \/ OpenDest(c) \/ EntryFails(c) \/ WriteBytes(c) \/ WriteBytesFails(c)
  \/ EndArchive(c) \/ NextTarget(c) \/ FetchThrows(c) \/ RunThrows(c) \/ Finish(c)

FetchNext == Restart \/ \E c \in Callers : Begin(c) \/ RunAll(c)

FetchSpec == FetchInit /\ [][FetchNext]_fetchVars

\* A thread that runs a download goes on until it is through, whatever fails on the way.
FairFetch == FetchSpec /\ \A c \in Callers : WF_fetchVars(RunAll(c))

----------------------------------------------------------------------------
(* What the download promises *)

\* Two downloads never run at once, so that no two threads write one file of the directory.
OneDownload ==
  /\ \A c, d \in Callers : Running(c) /\ Running(d) => c = d
  /\ inFlight <=> \E c \in Callers : Running(c)

\* A file that can be read as the symbols of some build is of a build that was loaded in this
\* launch or an earlier one: what is known to be of another build is never placed.
PlacedMatches == \A n \in Names : ReadPdbId(disk[n]) \in wanted \cup {NoId}

\* Nothing between this release and the newest one is taken for symbols without being them,
\* and nothing after the match in its archive has its name.
Unreadable(archive) == \E i \in DOMAIN archive : archive[i].id = NoId
Match(archive, id) == {i \in DOMAIN archive : archive[i].id = id}
Kept(archive, i, id) ==
  \A j \in DOMAIN archive : j > i /\ archive[j].name = archive[i].name => archive[j].id \notin {NoId}
Obtainable(tags, id) ==
  \E r \in DOMAIN tags :
    /\ tags[r] # NoAsset /\ \E i \in Match(tags[r], id) : Kept(tags[r], i, id)
    /\ \A q \in 1..(r - 1) : tags[q] # NoAsset => ~Unreadable(tags[q])

\* A search in which nothing failed has found the symbols when a release had them, the first
\* one or a later one, unless an unreadable PDB ended the search before it.
MatchFound ==
  \A c \in Callers :
    runner[c].at = "fetched" /\ runner[c].clean /\ Obtainable(Tags(c), WantOf(c)) => Present(WantOf(c))

\* Whatever fails or throws, the flag is released, so that a later download can run.
DownloadEnds == inFlight ~> ~inFlight
=============================================================================
