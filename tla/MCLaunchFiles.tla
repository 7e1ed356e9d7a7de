---------------------------- MODULE MCLaunchFiles ----------------------------
(***************************************************************************)
(* What a launch finds on the disk.  Two things are left by the launches   *)
(* before it, and run here over several of them: the list of mods, and the *)
(* directory of crashes with the game's dumps.  The others are computed    *)
(* once from what is there, and checked for a family of inputs each: the   *)
(* game folder, the database of conflicts, the settings, the logs, and     *)
(* the modules and symbols behind the header of a report.  subject says    *)
(* which it is; an input is picked in one step.                            *)
(***************************************************************************)
EXTENDS SessionHistory, CrashFolder, ModSetup, ArchiveConflicts, Settings, LogTail, CrashVerdict

VARIABLES subject, input
inputVars == <<subject, input>>

MCSymmetry == Permutations(Versions) \cup Permutations(Pids)

Seqs(set, n) == UNION {[1..k -> set] : k \in 0..n}

\* Two of the mods have one name.
MCSlots == {<<1, 1>>, <<1, 2>>, <<2, 1>>, <<3, 1>>}

----------------------------------------------------------------------------
\* The game folder: managed by nobody, by Vortex or by Mod Organizer.
F(name, dir, deep, role) == [name |-> name, dir |-> dir, deep |-> deep, role |-> role]
Script == F("s", "scripts", TRUE, "mod")
CetMod == F("c", "cet", TRUE, "mod")
Tweak == F("t", "tweaks", FALSE, "mod")
Override == F("o", "config", FALSE, "mod")
DeepOverride == F("d", "config", TRUE, "mod")
RedMod == F("r", "mods", TRUE, "mod")
Stray == F("x", "mods", FALSE, "mod")
Proxy == F("p", "loader", FALSE, "proxy")
Framework == F("f", "plugins", FALSE, "framework")
Canary == F("k", "red4ext", TRUE, "canary")
Vanilla == F("v", "config", FALSE, "vanilla")
Marker == F("m", "mods", FALSE, "marker")

Extra == F("e", "loader", FALSE, "extra")

NoManager == [usvfs |-> FALSE, mo2 |-> NoMO2, manifest |-> NoManifest, deployed |-> {}, oldManifest |-> NoManifest,
              v2077 |-> FALSE, unseen |-> {}, unopened |-> {}]

Unmanaged ==
  {[files |-> files \cup {Vanilla, Marker}, unseen |-> unseen] @@ NoManager :
     files \in SUBSET {Script, CetMod, Override, DeepOverride, RedMod, Stray, Proxy, Extra, Framework},
     unseen \in {{}, {Override, RedMod, Script}}}

\* Vortex has put two files there, or one, or none; its manifest is missing, does not parse, or
\* lists them or others.
Manifests == {NoManifest, [parses |-> FALSE, files |-> {Script, CetMod}]}
             \cup {[parses |-> TRUE, files |-> files] : files \in SUBSET {Script, CetMod}}
Vortexes ==
  {[files |-> x[1] \cup {Vanilla, Marker}, deployed |-> x[2], manifest |-> x[3], oldManifest |-> x[4], v2077 |-> x[5], unseen |-> x[6]] @@ NoManager :
     x \in (SUBSET {Script, CetMod, Tweak, RedMod, Stray}) \X (SUBSET {Script, CetMod}) \X Manifests
           \X {NoManifest, {"s"}} \X BOOLEAN \X {{}, {Script, RedMod}}}

\* Mod Organizer overlays what its list says, or has overlaid a file more or less before the list
\* was changed.  The list cannot be found, or a file of it not be reached or opened.
ModLine(name, prefix, separator) == [name |-> name, prefix |-> prefix, separator |-> separator]
MO2s ==
  {[selected |-> p[1][1], profiles |-> p[1][2], defaultDirs |-> p[2], overwrite |-> p[3],
    modlist |-> <<ModLine("a", p[4], FALSE), ModLine("sep", "-", TRUE), ModLine("b", p[5], FALSE)>>,
    files |-> [m \in {"a", "b"} |-> IF m = "a" THEN {Canary, CetMod} ELSE p[6]], unread |-> p[7]] :
     p \in {<<"p", {"p", "q"}>>, <<"", {"p"}>>, <<"", {"p", "q"}>>} \X BOOLEAN \X (SUBSET {Override})
           \X {"+", "-"} \X {"+", "-"} \X {{}, {Script}, {Script, Tweak}} \X {{}, {Canary}, {Script}}}
Organized ==
  {[files |-> files \cup {Vanilla}, usvfs |-> TRUE, mo2 |-> IF known THEN mo2 ELSE NoMO2,
    deployed |-> (Overlays(mo2) \cup change[1]) \ change[2], unopened |-> mo2.unread] @@ NoManager :
     files \in SUBSET {Script, Stray, Framework}, mo2 \in MO2s, known \in BOOLEAN,
     change \in {<<{}, {}>>, <<{Tweak}, {}>>, <<{}, {Script}>>}}

MCGames == Unmanaged \cup Vortexes \cup Organized

----------------------------------------------------------------------------
\* Two files of conflicts that describe three mods.
Mod1(archives, tags) == [archives |-> archives, tags |-> tags]
Json(mods, conflicts, exceptions, dependencies) ==
  [mods |-> mods, conflicts |-> conflicts, exceptions |-> exceptions, dependencies |-> dependencies]
FirstJsons ==
  {Json(m, c, e, d) :
     m \in {"a" :> Mod1({"x"}, {"t"}) @@ "b" :> Mod1({"y"}, {"t"}),
            "a" :> Mod1({"x"}, {}) @@ "b" :> Mod1({"y"}, {"t"}) @@ "c" :> Mod1({"z"}, {"t"})},
     c \in SUBSET {{"a", "b"}, {"a", "b", "c"}},
     e \in {{}, {{"a", "b"}}, {{"b", "c"}}},
     d \in {<<>>, "a" :> {"b"}, "c" :> {"a", kPhantomLiberty}}}
SecondJsons ==
  {Json(m, c, e, d) :
     m \in {<<>>, "a" :> Mod1({"z"}, {}) @@ "c" :> Mod1({"x"}, {"t"})},
     c \in {{}, {{"b", "c"}, {"a"}}},
     e \in {{}, {{"a", "b", "c"}}},
     d \in {<<>>, "a" :> {"c", kPhantomLiberty}}}
MCDatabases == FirstJsons \X SecondJsons

----------------------------------------------------------------------------
\* Files of settings with up to three lines, and those of four with two headers.
Reads(says, num) == [says |-> says, isNum |-> num # 0, num |-> num]
Key(name, value) == [kind |-> "key", name |-> name, value |-> value, rest |-> ""]
IniLines ==
  {[Header(n) EXCEPT !.rest = r] : n \in {"symbols", "core"}, r \in {"", "spaces", "comment"}}
  \cup {Key("auto_download", v) : v \in {Reads("true", 1), Reads("neither", 0)}}
  \cup {Key("auto_download_later", Reads("false", 0)), Key("max_crash_files", Reads("neither", 20000)),
        [Key("auto_download", Reads("neither", 0)) EXCEPT !.kind = "note"]}
MCInis ==
  Seqs(IniLines, 3)
  \cup {<<h, k, i, l>> : h, i \in {x \in IniLines : x.kind = "header"}, k, l \in {x \in IniLines : x.kind # "header"}}
MCTornValues == {Reads("neither", 0), Reads("neither", 2)}
MCPrefixed == {"auto_download", "auto_download_later"}

----------------------------------------------------------------------------
MCLogs == Seqs({NL, Other, CR, 1, 5}, 6)
MCWindows == {<<4, 1>>}
Files == [name : Seqs({"a", "b"}, 3), time : {1, 2}, isDir : {FALSE}]
MCDirs ==
  {<<f, g>> : f \in Files, g \in {[name |-> <<"a", "a">>, time |-> 1, isDir |-> d] : d \in BOOLEAN}}
    \X Seqs({"*", "?", "a", "b"}, 4)

----------------------------------------------------------------------------
\* Crashes in the game, in the system, in two mods, in RED4ext and in code of no module.
Module(name, kind) == [name |-> name, kind |-> kind, size |-> 2]
MCModules == <<Module("Cyberpunk2077", "Game"), Module("ntdll", "System"), Module("RED4ext", "Mod"),
               Module("A", "Mod"), Module("B", "Mod")>>
MCSymbols == {[module |-> "Cyberpunk2077", rva |-> 1, name |-> "Func"], [module |-> "A", rva |-> 0, name |-> "Load"]}
Sites ==
  {[module |-> "Cyberpunk2077", rva |-> r] : r \in {0, 1}} \cup {[module |-> "A", rva |-> r] : r \in {0, 1}}
  \cup {[module |-> m, rva |-> 0] : m \in {"B", "RED4ext", "ntdll", Heap}}
MCCrashes ==
  {[code |-> c, oom |-> o, sites |-> s, scripts |-> t[1], beat |-> t[2]] :
     c \in {"ACCESS_VIOLATION", "HEAP_CORRUPTION"}, o \in BOOLEAN,
     s \in {<<x>> : x \in Sites} \cup Sites \X {x \in Sites : x.rva = 0 /\ x.module # Heap},
     t \in {<<<<>>, "">>, <<<<>>, "f">>, <<<<"f">>, "">>, <<<<"g", "f">>, "f">>}}
\* Where the modules, and the code outside of them, may be loaded.
Bases ==
  {[m \in {"A", "B", "RED4ext", "Cyberpunk2077", "ntdll", Heap} |->
      CASE m = "A" -> p[1] [] m = "B" -> p[2] [] m = "RED4ext" -> 14 [] m = "Cyberpunk2077" -> p[3] [] m = "ntdll" -> 20 [] OTHER -> 30] :
     p \in {<<2, 4, 10>>, <<12, 2, 4>>, <<18, 16, 22>>}}
FoundMods == <<[name |-> "A", enabled |-> TRUE], [name |-> "B", enabled |-> FALSE], [name |-> "C", enabled |-> TRUE]>>
MCLaunches == {[base |-> b, mods |-> IF b["A"] = 2 THEN FoundMods ELSE Reverse(FoundMods), symbolsReady |-> r] : b \in Bases, r \in BOOLEAN}
MCLaunch == [base |-> CHOOSE b \in Bases : b["A"] = 2, mods |-> FoundMods, symbolsReady |-> TRUE]
Headers == {<<c, EmitHeader(c, ALaunch)>> : c \in Crashes}

----------------------------------------------------------------------------
Inputs ==
  CASE subject = "setup" -> Games \X SUBSET {"cet", "tweakxl"}
    [] subject = "conflicts" -> Databases \X (SUBSET Archives) \X (BOOLEAN \X BOOLEAN)
    [] subject = "settings" -> Inis \X BOOLEAN
    [] subject = "log" -> Logs
    [] subject = "dir" -> Dirs
    [] subject = "crash" -> Crashes

MCInit ==
  /\ Init /\ FolderInit
  /\ input = <<>>
  /\ subject \in {"session", "folder", "setup", "conflicts", "settings", "log", "dir", "crash"}
  /\ subject # "session" => installed = {}

Pick ==
  /\ subject \notin {"session", "folder"} /\ input = <<>>
  /\ input' \in {<<i>> : i \in Inputs}
  /\ UNCHANGED <<subject, historyVars, folderVars>>

SessionStep == subject = "session" /\ Next /\ UNCHANGED <<inputVars, folderVars>>
FolderStep == subject = "folder" /\ FolderNext /\ UNCHANGED <<inputVars, historyVars>>

MCSpec == MCInit /\ [][Pick \/ SessionStep \/ FolderStep]_<<inputVars, historyVars, folderVars>>

----------------------------------------------------------------------------
Of(s) == subject = s /\ input # <<>>

\* "Setup integrity" in README.md: what a report says of the files of the game is true, also when
\* the records of the mod manager are missing, broken, incomplete or old.  No file that a manager
\* deployed is reported as loose while its own records still speak for it, a file of a mod that
\* nobody deployed is found, and an issue has a cause.
SetupIsTruthful ==
  Of("setup") =>
    /\ DeployedIsNotReported(input[1][1], input[1][2])
    /\ StrayFileIsFound(input[1][1])
    /\ IssuesAreTrue(input[1][1], input[1][2])

\* A full clean takes everything of mods and of their loaders from the places that REDscope scans,
\* but for four kinds of files: what is planned and what is scanned are two lists in the code.
CleanLeavesNothing == Of("setup") => CleanAfterPlan(input[1][1])

\* The conflicts of a report are those that the merged files have among the installed mods.
ConflictsAreExact ==
  Of("conflicts") => ConflictsExact(input[1][1], input[1][2], input[1][3][1], input[1][3][2])

\* A setting that a script changes is what the next launch reads, where the two read the file alike;
\* no other setting changes, or only to what a file that is cut off says.
SettingsAreKept ==
  Of("settings") => SettingIsKept(input[1][1], input[1][2]) /\ SettingsSurvive(input[1][1], input[1][2])

\* The end of a log in a report is what it has there, in whole lines.
TailsAreExact ==
  Of("log") => \A maxBytes \in ByteLimits, maxLines \in LineLimits : TailIsExact(input[1], maxBytes, maxLines)

\* The lines of a log from around a crash are those of that time, with what belongs to them.
WindowsAreExact ==
  Of("log") => \A window \in Windows, maxLines \in LineLimits : WindowIsExact(input[1], window[1], window[2], maxLines)

\* The log that is shown is the newest whose name fits the pattern.
NewestLogIsFound == Of("dir") => NewestIsExact(input[1][1], input[1][2])

\* What a report shows of the logs is in them, from the right file, and all that was asked for.
LogsAreExact == TailsAreExact /\ WindowsAreExact /\ NewestLogIsFound

\* The identifier of a crash depends on the crash alone, and groups crashes as it should.
CrashIdsGroup ==
  Of("crash") =>
    /\ \A a, b \in Launches : SameCrashSameHeader(input[1], a, b)
    /\ LET header == EmitHeader(input[1], ALaunch)
       IN \A h \in Headers : BucketsAreNested(input[1], h[1], header, h[2])
=============================================================================
