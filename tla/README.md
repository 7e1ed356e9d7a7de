# REDscope in TLA+

REDscope is a RED4ext plugin for Cyberpunk 2077 that writes a text report when the game
crashes or hangs.  It runs inside the process it reports on, on threads it does not own, at
moments it does not choose: a vectored exception handler runs first chance on whatever thread
raised, while a background worker refreshes the snapshot the report is made from and every
scripted call of the game passes through a detour.  Around that core it downloads and loads
symbols, puts the game's own dumps beside its reports, and says of the mods, their files and
their conflicts what a reader of a report needs.  This directory models these parts, checks
them with TLC and proves the most important results with TLAPS.

Paths below are relative to `src/` of the plugin (`src/src/...` in the repository's tree)
unless they name another directory.  `PROJECT.json` maps every definition to its lines.

## 1. The system

| part | state | operations | works with |
|---|---|---|---|
| snapshot worker, `snapshot/SnapshotWorker.cpp` | two buffers, `g_published`, `g_writeIndex`, cache generations, `g_crashInProgress` | `Tick` (fill, refresh caches, copy, publish), `FreezeForCrash`, `Current` | read by the crash handler, `BreadcrumbApi.cpp` and the hang watchdog |
| crash handler, `handler/SehHandler.cpp`, `NestedFallback.cpp` | `g_handlerInProgress`, `g_terminateAfterReport`, the report being written | `Handler`: filter, gate, freeze, report, terminate or continue the search | freezes the worker, runs the report writer |
| report writer, `report/*.cpp`, `util/PreallocatedBuffer.cpp` | one shared buffer, the files `.crash`, `.crash.json`, `REDscope-FAILED-*` | sections, checkpoints, sidecar, final write | reads the snapshot, the script stack, the heartbeats |
| verdict, class and identifiers, `report/CulpritHeuristic.cpp`, `CrashClass.cpp`, `Fingerprint.cpp` | none | functions of the snapshot, the stack and the symbols | the report's header |
| script stack, `hooks/ScriptStack.cpp`, `DispatchHook.cpp` | per thread: 128 frames, depth, overflow counter | `Push`, call the original, `Pop` | read by the report and by the worker |
| heartbeat table, `hooks/ScriptStack.cpp` | 16 slots with owner and last time | claim a slot, write the time | read by LAST ACTIVE and the hang watchdog |
| hang watchdog, `handler/HangWatchdog.cpp` | `g_reported` | `CheckForHang` at the end of each tick | runs on the worker |
| hooks and plugin lifecycle, `Plugin.cpp`, `hooks/*.cpp` | `g_installedScripted`, the worker thread, logger, SDK, handler, bindings | `Boot`, `Teardown`, `InstallAll` on boot and on every tick | the game's main thread, the worker, the loader |
| symbol download, `symbols/SymbolFetch.cpp` | `s_inFlight`, the symbols directory | look up a release, fetch, compare identifiers, place | threads of the boot and of the player |
| symbol database, `symbols/SymbolDb.cpp` | four columns, `g_ready`, `g_status` | load on a thread, look up | read by reports, without a lock |
| session history, `snapshot/SessionHistory.cpp` | file `session.previous`, the cached diff | read, diff, rewrite | once a launch, on the worker |
| dump enricher and crash archive, `snapshot/EngineDumpEnricher.cpp`, `breadcrumbs/*.cpp` | the directory of crashes, the game's `ReportQueue` | match dumps with reports at boot; list crashes for the analyzer | files of earlier launches |
| installed mods, setup integrity, `snapshot/InstalledMods.cpp`, `SetupIntegrity.cpp`; Clean Slate, `cleanslate/CleanCore.cpp` | caches of the worker | inventory through Mod Organizer, Vortex or none; scan for loose files; issues; plan of a full clean | worker; a program of its own |
| curated conflicts, `snapshot/CuratedConflicts.cpp` | the merged database | merge, finalise, evaluate | worker |
| live game state, `snapshot/GameStateLive.cpp`, CET's `init.lua` | table of 48 entries, init.lua's cache of what it sent | `SetLiveState`, `SetState`, `pushIfChanged` | copied by the worker |
| settings, `Config.cpp` | `REDscope.ini` | `LoadConfig`, `WriteAutoDownloadIni` | boot, RedScript API |
| log tailer, `logs/LogTailer.cpp` | none | choose a log, its end, the window around a crash | report |
| wrap chains, plugin metadata, engine state, hardware, RTTI; analyzer; CET panel | caches of the worker | scans, probes, parsers, user interface | not modelled (section 6) |

**What is hard here.**  Threads fault together, and the handler itself faults; the worker writes
while others read without a lock; the process dies at an arbitrary instruction of every other
thread; first-chance handling means the game may go on after a report; the disk fails in the
middle; tables of fixed size fill up; exceptions unwind through detours that are not exception
safe; a file written by one launch is read by the next; two threads install one hook; what a mod
manager deployed must be told from what somebody copied, from sources that may be missing, broken,
incomplete or old; two pieces of code read one file by different rules.  `PROJECT.json` lists these hazards at
their lines, with the properties that cover them.

## 2. The modules

| module | models | its properties |
|---|---|---|
| `SnapshotRegister` | the abstract promise of `Current()`: a register that changes to a later complete capture, at most once after the freeze | (specification) |
| `SnapshotWorker` | `Run`/`Tick` in the phases in which other threads can see a difference, cache generations, exceptions in the middle of a tick, `FreezeForCrash`, readers with and without freeze | `FrozenReadStable`, `ShortReadStable`, `PublishedComplete`, `ImplementsRegister` |
| `CrashHandler` | `Handler` with its filters and gate, both report bodies stage by stage, every file operation as open and write, the nested fallbacks, faults of the handler itself inside and outside its `__except` blocks, exits, and death of the process by any thread | `OneReporter`, `ReportsNotMixed`, `ReportBeforeDeath`, `SingleFailureLeavesText`, `SidecarFollowsReport`, `GateReopens`; claim `CrashLeavesReport` |
| `CrashPipeline` | the two together: EXTENDS `CrashHandler`, instantiates `SnapshotWorker`; the worker is itself a thread that can fault | `ReportCoherent`, `WorkerContract`; claim `SnapshotLiveAtCrash` |
| `ScriptStack` | the detour and the stack of each thread, calls nested beyond the cap, unwinding without `Pop` | `CountersExact`, `StackMatchesCalls`, `NativeMeansNoScript`; claim `ListedFramesInFlight` |
| `Heartbeat` | the claim loop step by step, threads that start, end and whose identifier comes back | `SlotsExclusive`, `HeartbeatCurrent` |
| `HangWatchdog` | EXTENDS `Heartbeat` with the worker's tick, the clock, the engine state and `EvaluateHang` | `OneReportPerSilence`, `HangReported`, `SilenceIsTrue` |
| `SymbolFetch` | `RunGuarded`, `RunAll` and `FetchOne` step by step on several threads; releases, archives with entries of the right, another or an unreadable build; failed requests, damaged entries, cut writes, exceptions, restarts with other builds | `OneDownload`, `PlacedMatches`, `MatchFound`, `DownloadEnds` |
| `SymbolDb` | the loader thread (parse, sort, four moves, the flag, the status) and the lookups of readers; addresses wrap | `NamesAreNearest` |
| `PluginLifecycle` | EXTENDS `SymbolDb`: `Boot`, `Teardown`, the worker's tick around `dispatch::Install`, the registration of types, the freeze | `OneDetour`, `WorkerEndsFirst`, `HookGetsAttached` |
| `SessionHistory` | file, reader, merge, writer over several launches; mods of one name in several places, a sort that does not keep their order, cut files, failed opens | `DiffExact` |
| `CrashFolder` | reports, dumps and engine-state files over launches, with process identifiers that come back, dumps filled late, cut writes; the listings of the analyzer | `FatalReportHasOwnState`, `BootEnrichesAll`, `ArchiveShowsNewest` |
| `ModSetup` | the inventory, the overlay of Mod Organizer, Vortex's manifest, the scan, the plan of a full clean and the issues, as operators; what is deployed is apart from the records that the code consults | `DeployedIsNotReported`, `StrayFileIsFound`, `IssuesAreTrue` (in `SetupIsTruthful`), `CleanAfterPlan` (in `CleanLeavesNothing`) |
| `ArchiveConflicts` | merging, finalising and evaluating the database, as operators | `ConflictsExact`, against the files as they are |
| `CrashVerdict` | the header of a report: modules sorted by address, binary search, verdict, class, identifiers | `SameCrashSameHeader`, `BucketsAreNested` (in `CrashIdsGroup`) |
| `Settings` | `LoadConfig` and `WriteAutoDownloadIni` over lines, with files that are read or written in part | `SettingIsKept`, `SettingsSurvive` (in `SettingsAreKept`) |
| `LogTail` | the tail with its cut first line and its ring, the window, the glob | `TailIsExact`, `WindowIsExact`, `NewestIsExact` (in `LogsAreExact`), each against a definition without the algorithm |
| `GameStateLive` | the table and init.lua's cache; keys cut to their field | `LatestShown`, `CetCacheTruthful` |
| `Ordering` | sorting and skipping, defined by how many elements are smaller, for `CrashFolder`, `ModSetup`, `CrashVerdict` and `LogTail` | (operators) |
| `*Proofs` | the theorems about the module of that name; `HeartbeatProofs` also those about `HangWatchdog`, `PluginServicesProofs` those about `SymbolFetch`, `PluginLifecycle` and `SymbolDb`, `LaunchFilesProofs` those about `SessionHistory`, `CrashFolder`, `ModSetup`, `Settings`, `ArchiveConflicts`, `CrashVerdict` and `LogTail` | |
| `MC*` | constants and families of inputs for TLC | |

Variables carry the source's names where there is one (`g_reported`, `handlerInProgress`,
`overflow`); each declaration says which variable of the code it is, or that it is a history
variable or a bound.  A program counter (`pc`, `where`, `worker`, `main`, `runner`) is a position in
the source between two effects other threads can see.  Operators whose comment begins with "Seeded
fault" or "Mutant" are not part of any specification: they are wrong variants of a definition
that follows them, kept to show that the properties notice the bug they describe.

**Abstractions.**  A report is the sequence of its stages, a file is the number of the report that
opened it and the stages it holds.  A capture is the number of its tick and of its cache
generation.  Scripted functions, mods, keys and values are model values or small numbers; strings
appear only by what the code does to them (a key cut to 31 characters, a mod name that begins with
`#`, a version cut by a full disk).  A PDB is its identifier and how far it was written; an archive is the
sequence of its PDBs.  A file of the game folder is the directory of the game it is under, whether
it is in a subdirectory of it, and what its name is known for.  A hash is the sequence that is hashed (so
collisions are left out).  A line of the ini is its kind, its name, what its value parses as and what is
in the brackets besides a name; a log is a sequence of line ends, time stamps and other characters.  A dump is
its process, its time and the parts that are there.

Details left out, each without effect on the properties:
time stamps in `session.previous`, values cut to 95 characters, formatting
and log output; in `CrashHandler` the compare-and-swap of the gate and the freeze that follows it
are one step (`Enter`), since nothing but the worker can tell them apart, and the worker allows
for a tick in flight anyway; the checkpoints within the stack section (`report/StackDump.cpp`), which leave a part of that
section in the file, are left out.  In `HangWatchdog` one unit of time is a polling interval, so the clock does not move
while a thread is in the few instructions of the detour; in `Heartbeat` alone it may.  In
`PluginLifecycle` the guards of `Install` on the worker are one step, and `Attach` and the stores of target and
flag two, with everything of the main thread in between; the exchange, the detaching and the clearing of the target in `Uninstall` are three.  In `CrashFolder` no two reports are of one
second (`CrashHandler` has that case).

## 3. The runs

| run | bounds | shows |
|---|---|---|
| `snapshot_worker` | 1 crash reader, 1 game reader, 5 ticks, 4 cache generations | no torn read after the freeze, none shorter than an interval, whole captures only, and the refinement to `SnapshotRegister` |
| `crash_handler` | 2 threads, 2 exceptions, 2 seconds, 1 failed file operation, 1 fault of the reporter | every safety property of the handler; a second thread can bounce off the gate, follow, or kill the process, at each step of the first |
| `crash_handler_live` | the same with 1 second | the gate opens again, unless the handler faults outside its `__except` blocks |
| `crash_handler_death` | 2 threads, no failures | **fails:** a finished report can be truncated by a second thread |
| `crash_pipeline` | game thread and worker thread, 2 exceptions, 3 ticks | a report consists of one or two whole captures in order; handler and worker keep their contract |
| `crash_pipeline_stale` | the same, 2 ticks | **fails:** after a handled exception the next report is made from an old snapshot |
| `script_stack` | cap 3, 5 nested calls, 2 unwindings | the counters and the listed frames |
| `script_stack_unwind` | the same | **fails:** frames that were unwound stay listed |
| `heartbeat` | 3 threads, 2 identifiers, 2 slots | racing claims, a full table, an identifier that comes back |
| `hang_watchdog` | 2 threads, 2 slots, 7 intervals, threshold 2, one exception, one failed report, one failed read of the engine state | two hangs in a session, each reported once |
| `plugin_services` | see below | downloads, symbols, the life of the plugin, live values |
| `launch_files` | see below | what launches leave to each other, and what one launch computes from files |

The last two runs hold several parts that share no state.  A variable `subject`, chosen in the initial
state, says which part a behaviour is about; the others stand still.  Nothing is composed by
that: each property is checked in the behaviours of its own part, exactly as in a run of its own.

`plugin_services`:
* *download*: 2 callers, 2 targets; the first target has two releases out of 5 x 3 choices (nothing, another
  build, an unreadable PDB, the match beside another file, the match overwritten by an unreadable one),
  identifiers wanted once or for both targets; restarts at every step.  Failures are not counted.
* *lifecycle*: addresses of 3 bits, 7 symbol files (missing, cut, without addresses, empty, with wrapping,
  equal and nameless entries), 1 reader, 2 failed attachments or detachments, one freeze at any time.
* *live*: 4 keys (one too long, one that it is cut to), 2 values, 3 entries.

`launch_files`:
* *session*: 4 places for mods (two of one name, one named like a comment), 2 versions, 3 launches.
* *folder*: 3 launches, 3 reports, 2 process identifiers, 6 seconds, tolerance 3, lag of a dump 1, cap 2.
* *setup*: about 15000 game folders, each with every set of frameworks: unmanaged ones with any of nine kinds of files; under
  Vortex, with any of five, of which it put there two, one or none, and a manifest that is missing, does not parse, or lists these or others;
  under Mod Organizer, with overlays that the list on the disk explains, or that have a file more or less; mod lists that cannot be found; files
  that a walk misses or that cannot be opened.
* *conflicts*: 2 files of 3 mods, 72 by 16 contents, every set of 3 archives, every state of the expansion and of its reading; caps 2.  *settings*: every file of up to 3 lines out of 11, and of 4 with
  two headers and two settings; reading and writing end anywhere, also within a line.
* *log*: every text of up to 6 characters, tails of 3 and 5 bytes and of 0 to 2 lines; *dir*: two files and every pattern of up to 4 characters.
* *crash*: the product of codes, memory, one or two sites in six modules, scripts and heartbeats, in 6 launches,
  and all pairs of crashes within one launch.

*Why the bounds are enough.*  Two buffers come round after two ticks, so five ticks pass each buffer
twice before and after a freeze.  Two exceptions give every pair: a handled one before a fatal one
on one thread, two at once, the second during any step of the first.  One failed operation and one
internal fault can fall anywhere, also both in one report.  Cap 3 and depth 5 put two calls beyond
the cap.  More threads than slots, and fewer identifiers than threads, are what the heartbeat table
is exposed to.  Threshold 2 with 7 intervals is the least that has a hang, activity, and another hang;
a misread engine state may not cover all activity in between, hence fewer misreads than the threshold.
Three launches give "cut by the first, read and rewritten by the second, read by the third".
Two releases are the least in which the search must go on after one that places nothing; two targets the
least in which one must not end the walk.  Three reports with cap 2 overflow the archive; a tolerance of 3 seconds
spans a start of the game, so dumps of two launches with one identifier compete.  Two conflict files have
every order of "first" and "last".  Six characters hold two cut lines and a ring that goes round.

Runs that may end say `CHECK_DEADLOCK FALSE`: the process dies, a bound is reached, the plugin is unloaded, an input is examined.

**Fairness.**  `CrashHandler`: a thread that is inside the handler goes on (weak fairness of the
handler's steps of each thread, as long as the process lives), which is the operating system's
scheduling; raising an exception is never fair.  `HangWatchdog`: the worker's loop goes on
(`Sleep`, then a tick), weakly fair; the threads, the engine and the clock are not.  `SymbolFetch`: a thread
that runs a download goes on, and every request ends, with an answer or (by the default time-outs of WinHTTP and the caps on the size of an answer) without; restarts are not
fair.  `PluginLifecycle`: the worker's loop goes on; the main thread and the game are not fair.
`HangReported` names its exceptions: a report that could not be written is not tried
again (`g_reported` is set first), and after a report on an exception the worker is frozen for good.
It is about a watchdog that is enabled, with a threshold above 0 and no debugger that it respects (`handler/HangWatchdog.cpp:298`), and
about ticks that come as far as the watchdog (`snapshot/SnapshotWorker.cpp:518`).
`HookGetsAttached` names the second too, and an unload.  That attaching fails only finitely often is a bound of the model and an assumption.

## 4. What is proved

All safety properties that the passing runs check are theorems too, and of the properties of
steps the refinement, the contract and `SilenceIsTrue`.  The proofs hold for any sets of threads,
callers, keys, mods, files and functions and for any bounds.  The only assumptions are the `ASSUME`s on the
constants, stated in the module that declares them and evaluated by TLC in every run; those that are more than types:
* `Cap` of `CrashFolder` is at least 1, because 0 means no cap in `breadcrumbs/CrashArchive.cpp:156`; a dump's lag stays within the tolerance of the match.
* In `SymbolFetch` there is a target, and releases and archives are finite sequences; in `SymbolDb` a file has finitely many entries.
* A list of mods in `SessionHistory` is finite, with one version in each place for a mod (`ModLists`); several may have one name.
* `GamesAssumption` of `ModSetup` says what a record of a game is made of: a folder has finitely many files, and each mod of a mod list has its
  files.  Nothing ties what is deployed to any record that the code consults.
* `DatabasesAssumption` of `ArchiveConflicts`: a file of the database describes finitely many mods, and a group is finite.
* `SettingsAssumption` of `Settings`: `auto_download` is the only setting whose name has that prefix.
* `CrashAssumption` of `CrashVerdict`: modules have different names and do not overlap in a launch, code that is of no
  module lies outside of them all, and a symbol belongs to a module.

What is proved, by module:

* `SnapshotWorkerProofs`.  The inductive invariant `IInv` (in `SnapshotWorker`) is the type invariant
  with: the published buffer is never the one up for writing; a buffer's generation mark is believed
  only if the copy was finished; what the tick has filled so far; and for each reader, why its buffer
  is safe (a frozen reader whose buffer was replaced has the in-flight tick behind it; a game reader
  counts the worker's sleeps).  The safety properties alone are not inductive: without the
  reader clauses a second tick could begin under a frozen reader.  From it: `TypeCorrect`,
  `FrozenReadsAreStable`, `ShortReadsAreStable`, `PublishedCaptureIsComplete` and the refinement
  `WorkerImplementsRegister` (`Spec => ImplementsRegister`, initial states and each action mapped).
* `CrashHandlerProofs`.  `AtMostOneReporter`, by `GateInv`: the gate is shut whenever a thread is
  inside, and the place of a thread becomes an inside place only through `Enter`.  The other four
  safety properties of the handler rest on `ReportInv`, which adds to the gate: reports have different
  numbers and the one being written has the last (`Numbered`); the shared buffer is of one report at any time, and, once that report
  has reset it, holds exactly the stages
  that the writer's step says it has emitted (`BufferOwned`, without which a checkpoint could write a buffer
  of two reports); a report that has not reset it has no FAILED file yet (`Unbegun`); nobody is inside once a handler has left the gate shut for good (`LostInv`); a thread is in a fallback only with a failure behind it (`StepFits`); every file is of one report
  (`FilesOK`); each report that was left was left well, and stays so though later ones take its name
  (`Outcome`); and how far the sidecar may run ahead of the text (`SidecarInv`).  `NoMixedReports`,
  `DeathIsReported`, `OneFailureLeavesText`, `SidecarMatchesText`, `TypeCorrect`.
* `CrashPipelineProofs`.  `HandlerKeepsContract`: `PipelineSpec` implies the worker's whole specification, with the
  threads of the handler as its crash readers.  The contract lets a reader begin only after the freeze, while a section looks only at
  where its thread is; `FrozenInside` ties the two.  So the theorems of the worker hold of the composed system: `SectionsAreStable`
  is `FrozenReadStable` for the handlers there are.  The module cites the worker's invariant through an instance of
  `SnapshotWorkerProofs`; with it `ReportsAreCoherent` follows from `SeenInv`, which relates what a report has seen to
  what is published and to the one tick that may be in flight when the gate is taken.
* `ScriptStackProofs`.  `StackInv` adds to the counters that only the innermost call can be entering
  or returning (`OuterRunning`), without which `Pop` could take the wrong call.  `CountersAreExact`,
  `DropsInnermostOnly`, `StackListsCalls`, `NativeIsTruthful`.
* `HeartbeatProofs`.  `SlotsAreExclusive` and `HeartbeatsAreCurrent`, with `Life`: a thread in the detour lives, it has a slot exactly when it is
  past the claim, and a claimed slot is never free again; without the last clause a second thread could take it.
  `SilencesAreReportedOnce` and `ReportedSilenceIsTrue` (a property of steps) for the watchdog on top: `TimesInv` says that
  no time lies ahead of the clock and that a slot holds the last activity of its owner; `ReportsInv`, that a silence that
  was reported stays longer than the threshold, and that while the watchdog is armed there is a newer heartbeat.
* `PluginServicesProofs`.  *Download:* `DownloadsAreExclusive` (the flag is set exactly while one caller runs), `OnlyWantedIsPlaced`
  (whatever is on the disk or being written has an identifier that was wanted, or none) and `WhatWasToBeHadIsFound`, which
  needs `SearchInv`: a search that nothing disturbed has looked through every release and entry before the one it is at.
  *Life:* `HookIsSingle` and `WorkerEndsBeforeUnload`.  The number of detours is tied to the flag, to the
  worker's place between `Attach` and the store, and to the teardown's between exchange and detaching (`Accounted`); Boot, which installs without a lock, is through before
  the types are registered.  *Symbols:* `LookupsFindNearest`, with `DbInv`: whoever looks an address up has seen
  the flag, which is set when all four columns are in place.  The composed specification implies that of the loader.
* `GameStateLiveProofs`.  `TypeCorrect`, `ShowsLatestValue` (a key that nothing is cut to has at most one
  entry, with its last value), `CetCacheIsTruthful`; each is inductive together with the type invariant.
* `LaunchFilesProofs`.  *Mods:* `DiffsAreExact`.  `SessionInv` says that the file holds the list of the last launch or
  its first lines, the last of them possibly cut; that the merge finds what was added, removed and changed is a lemma
  about any two lists that ascend, with equal names or not (`MergeFinds`: it counts the mods of each name from a place
  in each list on), by taking the smallest pair of positions at which it would not.
  *Crashes:* `EngineStateIsOfTheCrash`, `BootLeavesNoneBehind`, `ArchiveIsComplete`.  `FolderInv` needs that launches lie further apart
  than a dump lags (`Apart`; a step of the model's `Boot`, which takes that long), that a launch has one dump with which it ends (`ThisLaunch`), that the dump of a crash
  follows it closely (`OwnDumps`: a dump of another launch is never nearer), how far the walk at boot has come (`Walk`), and
  that reports grow in time (`TimesGrow`, on which the archive's order rests).
  *Game folder:* `SetupIsTold` and `CleanIsComplete`, for any folder and any records.  The scan calls a file loose exactly when it is not among
  those that the consulted source has (`Accounted`, `LooseIs`); that source is an overlay, a manifest, or the file system, and the
  theorem says, for each, when what is reported can be a file that was deployed after all.  A mod of the inventory has a file.
  *Settings:* `SettingsAreRead`, for every file.  The two readings of section headers agree where all of them are found alike (`SectionsAgree`), so the
  lines that the script replaces are all that set the key; in any file they are lines of no other setting.  A file that is read and written only up to some place begins
  as the file that was there, whether the script keeps, cuts or tears it (`RewrittenBegins`, `TruncationBegins`).
  *Conflicts:* `ConflictsAreOfTheFiles`, for any number of files: `MergedSays` says what the database has after each of them (the first entry
  of a mod, the last of its requirements, all groups), and `FinalIs` what is left when the unknown names are gone; the sets that a cap cuts are
  finite because all their names are known.
  *Headers of crashes:* `HeadersAreOfTheCrash`, for any crashes and launches: the modules are listed by ascending
  ranges, so the binary search ends at the one range that holds the address or finds that there is none (`SearchFinds`);
  each address of a crash is found at the same offset of the same module in every launch (`AlikeMeans`), and what the
  header says is made of nothing else.  Crashes that share an identifier agree in what it is made of, field by field.
  *Logs:* `LogsAreShown`, from `TailsAreOfTheLog`, `WindowsAreOfTheCrash` and `LogIsTheNewest`, for every text, file name and pattern.  After i
  characters the reader has the lines that end there (`HasRead`, hence `LinesAreSplit`), and the ring the last of them
  (`HoldsLast`); a line is in the window exactly when its stamp, or the last stamp before it, is (`WithinIsInTime`).
  For the match of names, what every step keeps is that the name can still fit from here, or with more
  characters taken by the last star (`CanFit`); that earlier stars need not be tried again (`FitsLater`, `FitsFromBlock`) is
  why a match that goes back to the last star only is right.

What was changed for the proofs.  `Class` was a `CASE` whose guards overlap, which
TLA+ leaves open (TLC takes the first); it now says which source goes first, as the code does.  What the code
sorts or skips was said with `SortSeq` and `SelectSeq`, which have no definition that a proof could expand; `Ordering` defines it.
Folds became recursive functions (`ArchiveConflicts`, `CrashVerdict`, `LogTail`) or positions in a file (`Settings`, which no
longer asks of a line that the script overwrites that it sets a key: the code does not ask either).  The inputs that are
examined (games, settings, databases, crashes, logs) are constants with assumptions, so that a theorem is about all of them.

Induction theorems that take a predicate as parameter are out of the provers' reach, so a recursive
function is reasoned about by the least element of a set of numbers (`LeastOf`): that it exists, once for those that recurse on a measure of their
argument (`TailRecursion`) and once for those that count steps (`StepsAreThere`), and what it computes, by the least
argument at which the claim would fail.

The type invariants of `SnapshotWorker`, `CrashHandler`, `ScriptStack`, `Heartbeat` and `GameStateLive` are proved; those of the
other modules are stated beside their variables as documentation.

**Only model-checked.**  Liveness (`GateReopens`, `HangReported`, `DownloadEnds`, `HookGetsAttached`: fairness is beyond the prover).
That the bounds of a run are reached, and the three runs with a counterexample, are TLC's by nature.

## 5. Where code and documents disagree

Three disagreements have a run with a counterexample (`findings` in `PROJECT.json`): a finished report
truncated by another thread before the process ends; the snapshot that stays frozen after an exception
the game handled; and script frames left on the stack by an unwinding.

Others, and limits of the code that a user would not expect, were met while modelling; the models state what the code does.

*Reports and the session.*
* `modDiff.parsedOk` is never set (`snapshot/SnapshotWorker.cpp:288`), so `report/JsonSidecar.cpp:508` always
  writes `null` for `modsChangedSinceLastLaunch` (docs/index.html:895 promises it).
* A mod whose name begins with `#` is written as a line the reader takes for a comment
  (`snapshot/SessionHistory.cpp:48`); it is "added" at every launch.  `DiffExact` states it.
* Mods are compared by name, and several may have one: REDscope itself is `red4ext/plugins/REDscope` and
  `cyber_engine_tweaks/mods/REDscope` (`snapshot/InstalledMods.cpp:334-381` collects both).  When one of a pair goes, the diff
  lists the name as removed though a mod of that name is left; and as `std::sort` (`snapshot/SessionHistory.cpp:17`) does not
  keep the order of equal names, the two may be paired the other way round and listed as updated though neither was.
  `DiffExact` counts the mods of a name and allows for this.
* A launch that crashes becomes the baseline of the next diff, while README.md:6 of the repository speaks of the
  "last working launch".
* A `SetState` key of 32 characters or more is stored cut and compared whole (`snapshot/GameStateLive.cpp:20`):
  every update appends an entry, against docs/index.html:897.  `LatestShown` is stated for keys that fit.
* Heartbeat slots are never given back.  A thread that comes when 16 are taken is described as "never entered a
  scripted frame" (`report/Sections.cpp:526`) whatever it runs, and does not count as activity for the
  watchdog (`SilenceIsTrue` says what does hold); a thread with a reused
  identifier is shown the row of the dead one.
* The path of a report is built before the shared buffer is reset (`handler/SehHandler.cpp:69`, `report/Sections.cpp:1067`): a fault
  in between puts the previous report's stages into the `REDscope-FAILED-*` file of this one.  `ReportsNotMixed` names the case.
* A fault of the handler outside the two `__except` blocks (the logging of `handler/SehHandler.cpp:96` and `:113`, `WriteFailedReport`
  itself, anything in a stack-overflow report) leaves no report and the gate shut for the rest of the session; `ReportBeforeDeath`
  and `GateReopens` name the case.
* Two exceptions in one second share a file name.  If the second is a stack overflow its report has no sidecar,
  and that of the first stays beside it; `SidecarFollowsReport` states this exception to docs/index.html:855.
* A hang that follows a handled exception is not detected, since the worker is frozen.
* A RED4ext frame on the stack makes a crash "scripted" (`report/CrashClass.cpp:34`); the names of frames that the
  class is also looked up by are never filled in.
* The identifier of a crash in the game depends on whether the symbols were loaded in time; with script functions in flight, crashes that are
  blamed on different mods can share the primary identifier.  `CrashIdsGroup` is stated accordingly.

*The plugin.*
* Teardown removes the hook before it stops the worker (`Plugin.cpp:109`), whose next tick attaches it again; nothing
  removes it then.  Between the exchange of the flag and the detaching (`hooks/DispatchHook.cpp:92`, `:94`) the worker may attach a second
  detour beside the first, and lose the target that it stores to the last line of `Uninstall`.  `OneDetour` names this window.  The threads of the loader, of a download and of the test fault are not waited for at all.
* A fault that the game survives before it registers its types freezes the worker, and the hook is not
  attached in that session (`HookGetsAttached` names the case).

*Symbols.*
* A PDB whose writing was cut behind its identifier counts as present for ever; an unreadable one is placed
  without a check and ends the search (`symbols/SymbolFetch.cpp:342`).  `MatchFound` excludes exactly this.
* The database ignores the section number of an address (`symbols/SymbolDb.cpp:43`).

*Files.*
* An engine-state file that exists, even empty or made from a dump not yet filled, is never written again; after a fault that the game
  survived, a report may be given the dump of a later fault within 90 s.  The latest report and the latest sidecar may be of different crashes.
* The inventory looks for `__vortex_deployment.json` (`snapshot/InstalledMods.cpp:462`), the scan for
  `vortex.deployment.json`; the inventory reads `<root>/mods` where the overlay follows the configured directories;
  no mod of Mod Organizer is ever of type `Asi`; loose files under Vortex give no issue.
* When `vortex.deployment.json` is gone and there is no `V2077` directory, every file that Vortex deployed is reported as loose; when the mod list has
  changed since the game was started, or a directory of a mod cannot be walked (`snapshot/InstalledMods.cpp:408`), so are the files in question.
  `DeployedIsNotReported` names these cases and no other: a manifest that does not parse makes every file loose to the scan, but the report then says nothing.
* Only archive mods have their archives listed, so conflicts miss mods of mixed content.
* A full clean leaves the files directly in `mods`, those below subdirectories of the configuration directory, and of the files that the scan knows as
  loaders `bin/x64/global.ini`, `bin/x64/LICENSE` and `engine/tools/scc_lib.dll` (`src/cleanslate/CleanCore.cpp:273`, `:328`).
* A setting below a header with a comment behind its bracket, or without a bracket, is read and written by
  different rules (`breadcrumbs/BreadcrumbApi.cpp:204`, `Config.cpp:60`), as is one in a file with both `[symbols]`
  and `[ symbols ]`; any line that begins with `auto_download` is overwritten; the `[hooks]` section of the shipped file is never read.
* `WriteAutoDownloadIni` does not look whether it could read the file (`breadcrumbs/BreadcrumbApi.cpp:194`) and rewrites it in place (`:212`): when the disk fails, or the
  process is killed, all other settings may fall back to their defaults.  `SettingsSurvive` says what is left in each case.

## 6. Not modelled

* **Contents of sections and of the JSON sidecar** (`report/Sections.cpp` beyond its header and order, `report/JsonSidecar.cpp`, `SetupSections.cpp`):
  formatting of values that the snapshot holds.
* **The size of the report**: `PreallocatedBuffer` and what is lost when it is full.
* **Probes**: hardware, GPU, engine state, module enumeration; reads of memory and of the operating system with nothing to interleave.
* **RTTI decoding** and **stack walking**: pattern matching on raw memory, guarded by structured exceptions; a fault there is a fault of
  a section in `CrashHandler`.
* **Wrap chains and plugin metadata**: searches in texts and version resources.
* **The analyzer** and the **CET panel**: separate Lua programs without state that the plugin shares; `GameUI.lua` is a third-party library.
* **Name resolution** of heartbeats, and a hang report and a crash report of one second: hazards listed without a property.
* **The path of the symbol file** in the ini, which nothing reads, and the text of the other settings.
* **Refresh intervals** of the caches (30 s, 5 min): a cache may be older than the report says; the scan for loose files is made once a session.
* The **logger** beyond its life, and the program around Clean Slate, which moves the files it planned to.

What the next steps would be: `PreallocatedBuffer` against an abstract bounded text; name resolution in `Heartbeat`; the composition of hang
and crash reports.
