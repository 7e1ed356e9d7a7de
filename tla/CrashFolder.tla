----------------------------- MODULE CrashFolder -----------------------------
(***************************************************************************)
(* The crashes directory over several launches.  REDscope writes a report  *)
(* for each fault, the game's own crash handler writes a dump directory    *)
(* for the fault it dies of, and at the next boot                          *)
(* snapshot/EngineDumpEnricher.cpp looks for the dump of each report and   *)
(* puts what it says beside it.  breadcrumbs/CrashArchive.cpp and          *)
(* breadcrumbs/BreadcrumbApi.cpp show the directory to the analyzer.       *)
(***************************************************************************)
EXTENDS Naturals, Sequences, FiniteSets, SequencesExt, Ordering

CONSTANTS
  Pids,      \* process identifiers, which Windows uses again
  Tolerance, \* 90 s: how far a dump's time may be from the report's
  DumpLag,   \* how long after the report the game writes its dump, at most
  Cap,       \* how many sidecars GetAllCrashesJson reads; 1000 in the code
  MaxTime, MaxReports, MaxBoots \* bounds of the model

ASSUME CrashFolderAssumption ==
  DumpLag \in Nat /\ Tolerance \in Nat /\ DumpLag <= Tolerance /\ Cap \in Nat \ {0}

VARIABLES
  now,      \* seconds
  launch,   \* the number of the launch, and whether the game runs
  pid,      \* its process identifier
  phase,    \* "off", "enrich", "runs" or "dies" (of the newest report)
  cursor,   \* the report the enricher has got to
  reports,  \* the .crash files, oldest first, each with its sidecars
  dumps,    \* the ReportQueue
  found     \* history: the dumps that were there when the launch began

folderVars == <<now, launch, pid, phase, cursor, reports, dumps, found>>

Distance(s, t) == IF s <= t THEN t - s ELSE s - t

----------------------------------------------------------------------------
(* The enricher *)

\* ParseCrashHeader: the time, and the process from the line that names the dump.  A hang report
\* and the text of a report that failed have no such line.
ParseCrashHeader(r) == [ok |-> r.headed, pid |-> r.pid, time |-> r.time]

\* Mutant: any dump of the process that is near enough.
FindReportQueueDirAny(info) == {d \in dumps : d.pid = info.pid /\ Distance(d.time, info.time) <= Tolerance}

\* The dumps of the process that are near enough, and of these the nearest; of two as near, the
\* one that the directory lists first.
FindReportQueueDir(info) ==
  LET Near == {d \in dumps : d.pid = info.pid /\ Distance(d.time, info.time) <= Tolerance}
  IN {d \in Near : \A e \in Near : Distance(d.time, info.time) <= Distance(e.time, info.time)}

\* The text that is put beside the report, from the engine's values and from what the save game
\* says; when neither is there, or not yet written, it says that there are no signals.
RenderSidecar(d) ==
  [text |-> IF d.parts \cap {"attch", "meta"} = {} THEN "nothing" ELSE "signals", of |-> d.launch]

NoState == [text |-> "absent", of |-> 0]

\* An engine-state file that exists, whatever it says, is never written again.
Wanted(r) == r.state.text = "absent" /\ ParseCrashHeader(r).ok

\* The dumps a report may get its state from: none when it is not to be enriched.
Source(r) == IF Wanted(r) THEN FindReportQueueDir(ParseCrashHeader(r)) ELSE {}

Enriching == phase = "enrich" /\ cursor <= Len(reports)

Put(state) == reports' = [reports EXCEPT ![cursor].state = state]

\* Mutant: a report without a dump ends the walk through the directory.
EnrichOneStops ==
  /\ Enriching
  /\ \/ Source(reports[cursor]) = {} /\ cursor' = Len(reports) + 1 /\ UNCHANGED reports
     \/ \E d \in Source(reports[cursor]) : Put(RenderSidecar(d)) /\ cursor' = cursor + 1
  /\ UNCHANGED <<now, launch, pid, phase, dumps, found>>

EnrichOne ==
  /\ Enriching
  /\ \/ Source(reports[cursor]) = {} /\ UNCHANGED reports
     \/ \E d \in Source(reports[cursor]) : Put(RenderSidecar(d))
  /\ cursor' = cursor + 1
  /\ UNCHANGED <<now, launch, pid, phase, dumps, found>>

\* The file does not open, and is tried again at the next boot; or it is opened and not
\* written, and stays empty.
EnrichFails ==
  /\ Enriching
  /\ \E d \in Source(reports[cursor]) : UNCHANGED reports \/ Put([text |-> "empty", of |-> d.launch])
  /\ cursor' = cursor + 1 /\ found' = {}
  /\ UNCHANGED <<now, launch, pid, phase, dumps>>

\* The process ends between the opening and the writing.
EnrichCut ==
  /\ Enriching
  /\ \E d \in Source(reports[cursor]) : Put([text |-> "empty", of |-> d.launch])
  /\ phase' = "off"
  /\ UNCHANGED <<now, launch, pid, cursor, dumps, found>>

EnrichEnds ==
  /\ phase = "enrich" /\ ~Enriching
  /\ phase' = "runs"
  /\ UNCHANGED <<now, launch, pid, cursor, reports, dumps, found>>

Enricher == EnrichOne \/ EnrichFails \/ EnrichCut \/ EnrichEnds

----------------------------------------------------------------------------
(* The game, its faults and its dumps *)

FolderInit ==
  /\ now = 0 /\ launch = 0 /\ pid \in Pids /\ phase = "off" /\ cursor = 1
  /\ reports = <<>> /\ dumps = {} /\ found = {}

\* Starting the game takes longer than the writing of a dump may lag.
Boot ==
  /\ phase = "off" /\ launch < MaxBoots /\ now + DumpLag < MaxTime
  /\ now' = now + DumpLag + 1 /\ launch' = launch + 1
  /\ pid' \in Pids
  /\ phase' = "enrich" /\ cursor' = 1 /\ found' = dumps
  /\ UNCHANGED <<reports, dumps>>

\* A report is written for a fault, which the game dies of or not; its sidecar may be missing
\* (a stack overflow, a hang) or cut by the end of the process.  No two reports are of one second
\* (CrashHandler has that case).
Fault ==
  /\ phase = "runs" /\ Len(reports) < MaxReports
  /\ \A i \in DOMAIN reports : reports[i].time # now
  /\ \E headed, fatal \in BOOLEAN, json \in {"none", "whole", "cut"} :
       /\ json = "cut" => fatal
       /\ ~headed => json = "none"
       /\ reports' = Append(reports, [headed |-> headed, pid |-> pid, time |-> now, launch |-> launch,
                                      fatal |-> fatal, json |-> json, state |-> NoState])
       /\ phase' = IF fatal THEN "dies" ELSE "runs"
  /\ UNCHANGED <<now, launch, pid, cursor, dumps, found>>

\* The game's own handler makes its directory, and the process ends; the reporter of the engine,
\* another process, fills the directory later.
Dump ==
  /\ phase = "dies"
  /\ dumps' = dumps \cup {[pid |-> pid, time |-> now, launch |-> launch, parts |-> {}]}
  /\ phase' = "off"
  /\ UNCHANGED <<now, launch, pid, cursor, reports, found>>

FillDump ==
  /\ \E d \in dumps, parts \in {{"attch"}, {"attch", "meta"}} :
       /\ d.parts = {}
       /\ dumps' = (dumps \ {d}) \cup {[d EXCEPT !.parts = parts]}
  /\ UNCHANGED <<now, launch, pid, phase, cursor, reports, found>>

\* The process ends without a dump: killed, or left by the player, or in the middle of its boot.
Ends ==
  /\ phase # "off"
  /\ phase' = "off"
  /\ UNCHANGED <<now, launch, pid, cursor, reports, dumps, found>>

Passes ==
  /\ now < MaxTime
  /\ phase = "dies" => now < reports[Len(reports)].time + DumpLag
  /\ now' = now + 1
  /\ UNCHANGED <<launch, pid, phase, cursor, reports, dumps, found>>

FolderNext == Enricher \/ Boot \/ Fault \/ Dump \/ FillDump \/ Ends \/ Passes

FolderSpec == FolderInit /\ [][FolderNext]_folderVars

----------------------------------------------------------------------------
(* What the analyzer reads *)

\* Newest first, by the times of the files.
Newest == Reverse(reports)
Sidecars == Selected(Newest, {i \in DOMAIN Newest : Newest[i].json # "none"})

\* Those of the files that parse.
Parsed(files) == Selected(files, {i \in DOMAIN files : files[i].json = "whole"})

\* Mutant: the files that are kept are the oldest.
ReadAllCrashesJsonOldest ==
  Parsed(SubSeq(Sidecars, IF Len(Sidecars) > Cap THEN Len(Sidecars) - Cap + 1 ELSE 1, Len(Sidecars)))

\* The cap counts the sidecars that do not parse, too.
ReadAllCrashesJson == Parsed(SubSeq(Sidecars, 1, IF Len(Sidecars) > Cap THEN Cap ELSE Len(Sidecars)))

\* The latest report and the latest sidecar, which need not be of one crash.
GetLatestCrashReport == Newest[1]
GetLatestCrashJson == Sidecars[1]

----------------------------------------------------------------------------
(* What the folder promises *)

OwnDump(r) == {d \in dumps : d.launch = r.launch}

\* A report of the crash the game died of never shows the engine state of another launch when
\* its own dump had been there, though process identifiers are used again within the tolerance.
FatalReportHasOwnState ==
  \A i \in DOMAIN reports :
    reports[i].fatal /\ reports[i].state.text # "absent" /\ OwnDump(reports[i]) # {} =>
      reports[i].state.of = reports[i].launch

\* A boot that nothing disturbed leaves no report behind whose dump had been there when it began.
BootEnrichesAll ==
  phase = "runs" =>
    \A i \in DOMAIN reports, d \in found :
      /\ reports[i].headed /\ reports[i].launch < launch
      /\ d.pid = reports[i].pid /\ Distance(d.time, reports[i].time) <= Tolerance
      => reports[i].state.text # "absent"

\* The archive lists crashes newest first and leaves one with a whole sidecar out only when Cap
\* sidecars are newer; its first is the crash of the latest sidecar unless that was cut, and the
\* crash of the latest report when that has a whole one.
ArchiveShowsNewest ==
  LET shown == ReadAllCrashesJson
  IN /\ \A i, j \in DOMAIN shown : i < j => shown[i].time > shown[j].time
     /\ \A i \in DOMAIN reports :
          reports[i].json = "whole" /\ reports[i] \notin Range(shown) =>
            Cardinality({j \in DOMAIN reports : j > i /\ reports[j].json # "none"}) >= Cap
     /\ Sidecars # <<>> /\ GetLatestCrashJson.json = "whole" => shown[1] = GetLatestCrashJson
     /\ reports # <<>> /\ GetLatestCrashReport.json = "whole" => shown[1] = GetLatestCrashReport
=============================================================================
