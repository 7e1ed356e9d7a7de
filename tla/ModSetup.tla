------------------------------- MODULE ModSetup -------------------------------
(***************************************************************************)
(* What REDscope says about the files of a modded game:                    *)
(* snapshot/InstalledMods.cpp lists the mods by way of the mod manager,    *)
(* cleanslate/CleanCore.cpp tells the files of the game folder that no     *)
(* manager accounts for and plans a full clean, and                        *)
(* snapshot/SetupIntegrity.cpp makes issues of it for a report.            *)
(*                                                                         *)
(* A file is a record: dir is the directory of the game it is under, deep  *)
(* says that it is in a subdirectory of that, role what its name is known  *)
(* for.  A game is a record of what is on the disk and loaded:             *)
(*   files: the files physically in the game folder                        *)
(*   deployed: those that the mod manager put or overlaid there, whatever  *)
(*        its records on the disk say by now                               *)
(*   usvfs: Mod Organizer has loaded its virtual file system               *)
(*   mo2: its directory, or NoMO2 when it cannot be found or read; a       *)
(*        record of the mod list, the files of each mod and of overwrite,  *)
(*        and unread, the files that a walk of those directories misses    *)
(*   manifest: vortex.deployment.json, or NoManifest; whether it parses,   *)
(*        and the files it lists                                           *)
(*   oldManifest: the sources that __vortex_deployment.json names, or      *)
(*        NoManifest                                                       *)
(*   v2077: the V2077 directory exists                                     *)
(*   unseen: the files that a walk of the game folder misses, for an error *)
(*        of the file system or for the cap of 200000 files                *)
(*   unopened: the files that cannot be opened to ask where they are       *)
(***************************************************************************)
EXTENDS Naturals, Sequences, FiniteSets, SequencesExt, Ordering

CONSTANTS
  NoMO2, NoManifest,
  kMaxInstalledMods, kMaxSetupIssues, \* caps of the inventory and of the issues
  SanityFloor,                        \* 200: fewer loose files than that are believed
  Games                               \* the games that are looked at

\* The directories a scan walks through (the mods of CET are in that of the plugins), and the
\* files of loaders that it looks for beside them.
kModDirs == {"scripts", "tweaks", "red4ext", "plugins", "cet", "storages", "audioware", "config", "mods", "archive"}
kLoaders == {"loader"}

----------------------------------------------------------------------------
(* What players and their managers leave on the disk *)

File == [name : STRING, dir : STRING, deep : BOOLEAN,
         role : {"mod", "proxy", "extra", "framework", "canary", "vanilla", "marker"}]

\* A line of modlist.txt: enabled, disabled, or no mod at all (a separator, a comment).
IsMod(line) == line.prefix \in {"+", "-"} /\ ~line.separator

IsModList(mo2) ==
  /\ mo2.modlist \in Seq([name : STRING, prefix : STRING, separator : BOOLEAN])
  /\ \A i \in DOMAIN mo2.modlist : IsMod(mo2.modlist[i]) => mo2.files[mo2.modlist[i].name] \subseteq File

\* What Mod Organizer overlays: the mods that are enabled, and what programs wrote.
Overlays(mo2) ==
  LET enabled == {i \in DOMAIN mo2.modlist : IsMod(mo2.modlist[i]) /\ mo2.modlist[i].prefix = "+"}
  IN UNION {mo2.files[mo2.modlist[i].name] : i \in enabled} \cup mo2.overwrite

\* Of the game's own files, those in the configuration directory are told by name.  Nothing ties
\* what is deployed to the records of a manager: they may be missing, broken, incomplete or old.
ASSUME GamesAssumption ==
  /\ kMaxInstalledMods \in Nat /\ kMaxSetupIssues \in Nat
  /\ \A game \in Games :
       /\ DOMAIN game = {"files", "deployed", "v2077", "usvfs", "mo2", "manifest", "oldManifest", "unseen", "unopened"}
       /\ game.files \subseteq File /\ game.deployed \subseteq File /\ IsFiniteSet(game.files)
       /\ game.oldManifest # NoManifest => IsFiniteSet(game.oldManifest)
       /\ game.usvfs /\ game.mo2 # NoMO2 => IsModList(game.mo2)

----------------------------------------------------------------------------
(* The mod list of Mod Organizer *)

\* Without a selected profile the only one there is is taken.
ResolveMO2Profile(mo2) ==
  IF mo2.selected # "" THEN mo2.selected ELSE IF Cardinality(mo2.profiles) = 1 THEN CHOOSE p \in mo2.profiles : TRUE ELSE ""

\* The first directory that is there decides the kind of a mod; only archive mods get the list
\* of their archives, and nothing is an ASI mod.
ClassifyMO2Mod(files) ==
  LET Has(dir) == \E f \in files : f.dir = dir
  IN IF Has("red4ext") THEN "Red4ext" ELSE IF Has("cet") THEN "Cet" ELSE IF Has("scripts") THEN "RedScript"
     ELSE IF Has("tweaks") THEN "TweakXL" ELSE IF Has("archive") THEN "Archive" ELSE "Unknown"

Unknown(manager) == [manager |-> manager, mods |-> <<>>, truncated |-> 0]

ClampToCap(inv) ==
  IF Len(inv.mods) <= kMaxInstalledMods THEN inv
  ELSE [inv EXCEPT !.truncated = Len(inv.mods) - kMaxInstalledMods, !.mods = SubSeq(inv.mods, 1, kMaxInstalledMods)]

\* The list reads the mods of <root>/mods, wherever the settings have them.
EnumerateMO2(mo2) ==
  IF ResolveMO2Profile(mo2) = "" THEN Unknown("MO2")
  ELSE LET lines == Selected(mo2.modlist, {i \in DOMAIN mo2.modlist : IsMod(mo2.modlist[i])})
       IN ClampToCap([Unknown("MO2") EXCEPT !.mods =
            [i \in DOMAIN lines |->
               [name |-> lines[i].name, enabled |-> lines[i].prefix = "+",
                type |-> ClassifyMO2Mod(IF mo2.defaultDirs THEN mo2.files[lines[i].name] ELSE {})]]])

\* One mod for each source that the manifest names, of unknown kind.
EnumerateVortex(sources) ==
  ClampToCap([Unknown("Vortex") EXCEPT !.mods =
    [i \in 1..Cardinality(sources) |->
       [name |-> SetToSeq(sources)[i], enabled |-> TRUE, type |-> "Unknown"]]])

NativeType(f) ==
  CASE f.dir = "red4ext" -> "Red4ext" [] f.dir = "cet" -> "Cet" [] f.dir = "scripts" -> "RedScript"
    [] f.dir = "tweaks" -> "TweakXL" [] f.dir = "archive" -> "Archive" [] f.dir = "plugins" -> "Asi"
    [] OTHER -> "none"

\* Directories of plugins and of CET mods, directories or files of scripts and tweaks, files of
\* archives and ASI plugins.
IsNativeMod(f) ==
  \/ f.dir \in {"red4ext", "cet"} /\ f.deep
  \/ f.dir \in {"scripts", "tweaks"} /\ (f.deep \/ f.role = "mod")
  \/ f.dir \in {"archive", "plugins"} /\ ~f.deep /\ f.role = "mod"

EnumerateNative(files) ==
  LET mods == SetToSeq({f \in files : IsNativeMod(f)})
  IN ClampToCap([Unknown("None") EXCEPT !.mods =
       [i \in DOMAIN mods |-> [name |-> mods[i].name, enabled |-> TRUE, type |-> NativeType(mods[i])]]])

EnumerateInstalled(game) ==
  IF game.usvfs THEN IF game.mo2 = NoMO2 THEN Unknown("MO2") ELSE EnumerateMO2(game.mo2)
  ELSE IF game.oldManifest # NoManifest THEN EnumerateVortex(game.oldManifest)
  ELSE EnumerateNative(game.files)

----------------------------------------------------------------------------
(* The scan of the game folder *)

NoOverlay == [known |-> FALSE, files |-> {}]

\* Mutant: what the programs wrote into the overwrite directory is not overlaid.
CollectMO2OverlayWithoutOverwrite(game) ==
  IF ~game.usvfs \/ game.mo2 = NoMO2 \/ ResolveMO2Profile(game.mo2) = "" THEN NoOverlay
  ELSE [known |-> TRUE,
        files |-> UNION {game.mo2.files[l.name] : l \in {k \in Range(game.mo2.modlist) : IsMod(k) /\ k.prefix = "+"}}
                  \ game.mo2.unread]

\* The files of the enabled mods and of the overwrite directory, where the settings have them.  A
\* directory that cannot be walked is passed over without a word.
CollectMO2OverlayRelpaths(game) ==
  IF ~game.usvfs \/ game.mo2 = NoMO2 \/ ResolveMO2Profile(game.mo2) = "" THEN NoOverlay
  ELSE [known |-> TRUE,
        files |-> (UNION {game.mo2.files[l.name] : l \in {k \in Range(game.mo2.modlist) : IsMod(k) /\ k.prefix = "+"}}
                   \cup game.mo2.overwrite) \ game.mo2.unread]

\* Nothing comes of a manifest that is not there or does not parse.
ParseVortexManifest(manifest) ==
  IF manifest = NoManifest \/ ~manifest.parses THEN {} ELSE manifest.files

DetectManager(game) ==
  IF game.usvfs THEN "MO2"
  ELSE IF game.manifest # NoManifest \/ game.v2077 THEN "Vortex" ELSE "None"

\* What the process finds in the game folder: through the virtual file system, the mods too.
Visible(game) ==
  game.files \cup IF game.usvfs THEN game.deployed ELSE {}

\* Mutant: a file that cannot be opened counts as one of the game folder.
IsPhysicalOrUnopened(game, f) == f \notin game.deployed \ game.unopened

\* A file is opened to ask where it is: one that is overlaid turns out to be somewhere else, and of
\* one that cannot be opened nothing is known.
IsPhysicalInGame(game, f) == f \notin game.deployed \cup game.unopened

\* A manifest without files counts as none: Vortex has purged its mods.
Class(game, overlay, f) ==
  LET manager == DetectManager(game)
      managed == ParseVortexManifest(game.manifest)
      IsAccountedFor ==
        IF overlay.known THEN f \in overlay.files
        ELSE IF manager = "Vortex" THEN f \in managed
        ELSE manager = "MO2" /\ ~IsPhysicalInGame(game, f)
  IN IF f.role = "framework" \/ f.dir \in kLoaders THEN "managed-infra"
     ELSE IF IsAccountedFor THEN "managed" ELSE "loose"

\* The markers of managers and the configuration files of the game itself are passed over.
Scanned(game) ==
  {f \in Visible(game) :
     /\ f.dir \in kLoaders \/ (f.dir \in kModDirs /\ f \notin game.unseen)
     /\ f.role \notin {"marker", "vanilla"}}

Scan(game, overlay) ==
  [manager |-> DetectManager(game),
   scanned |-> Cardinality(Scanned(game)),
   loose |-> {f \in Scanned(game) : Class(game, overlay, f) = "loose"}]

\* Under Mod Organizer a scan is believed only if it saw REDscope's own file overlaid, and did
\* not find most of the folder loose.
DetectLooseFiles(game) ==
  LET overlay == CollectMO2OverlayRelpaths(game)
      scan == Scan(game, overlay)
      looseCount == Cardinality(scan.loose)
      Redirected == game.deployed \ game.unopened
  IN [manager |-> scan.manager, loose |-> scan.loose,
      mo2Unreliable |->
        /\ scan.manager = "MO2"
        /\ IF overlay.known
           THEN \/ \A f \in overlay.files : f.role # "canary"
                \/ looseCount > SanityFloor /\ (looseCount * 100) \div scan.scanned > 50
           ELSE looseCount > 0 /\ \A f \in Redirected : f.role # "canary"]

\* Mutant: of the mods directory the files are planned, not the directories of the mods.
PlanFullCleanOfModFiles(game) ==
  {f \in game.files :
     \/ f.dir \in (kModDirs \ {"mods", "config"}) \cup {"reshade"}
     \/ f.dir = "mods" /\ ~f.deep /\ f \notin game.unseen
     \/ f.dir = "config" /\ ~f.deep /\ f.role # "vanilla" /\ f \notin game.unseen
     \/ f.dir = "loader" /\ f.role = "proxy"}

\* Directories are removed with all that is below them; of the configuration directory only the
\* files in it, of the mods directory only the directories in it, as far as a walk of them gets.
\* Of the files of loaders the proxies are planned, and the rest is not.
PlanFullClean(game) ==
  {f \in game.files :
     \/ f.dir \in (kModDirs \ {"mods", "config"}) \cup {"reshade"}
     \/ f.dir = "mods" /\ f.deep /\ f \notin game.unseen
     \/ f.dir = "config" /\ ~f.deep /\ f.role # "vanilla" /\ f \notin game.unseen
     \/ f.dir = "loader" /\ f.role = "proxy"}

----------------------------------------------------------------------------
(* The issues of a report *)

\* Mutant: what is loose under Vortex is reported as if there were no manager.
ComputeSetupIntegrityForVortex(inv, frameworks, loadFailures, loose) ==
  LET issues == IF loose.manager \in {"None", "Vortex"} /\ loose.loose # {} THEN <<"loose-files-native">> ELSE <<>>
  IN SubSeq(issues, 1, IF Len(issues) > kMaxSetupIssues THEN kMaxSetupIssues ELSE Len(issues))

\* Nothing is made of what is loose under Vortex.
ComputeSetupIntegrity(inv, frameworks, loadFailures, loose) ==
  LET Enabled(type) == \E i \in DOMAIN inv.mods : inv.mods[i].enabled /\ inv.mods[i].type = type
      Issue(kind, holds) == IF holds THEN <<kind>> ELSE <<>>
      unverified == loose.manager = "MO2" /\ loose.mo2Unreliable
      issues == Issue("no-cet", Enabled("Cet") /\ "cet" \notin frameworks)
             \o Issue("no-tweakxl", Enabled("TweakXL") /\ "tweakxl" \notin frameworks)
             \o Issue("plugin-load-failure", loadFailures > 0)
             \o Issue("loose-files-unverified", unverified)
             \o Issue("loose-files-mo2", ~unverified /\ loose.manager = "MO2" /\ loose.loose # {})
             \o Issue("loose-files-native", ~unverified /\ loose.manager = "None" /\ loose.loose # {})
  IN SubSeq(issues, 1, IF Len(issues) > kMaxSetupIssues THEN kMaxSetupIssues ELSE Len(issues))

IssuesOf(game, frameworks, loadFailures) ==
  Range(ComputeSetupIntegrity(EnumerateInstalled(game), frameworks, loadFailures, DetectLooseFiles(game)))

----------------------------------------------------------------------------
(* What the scan promises, by what is deployed and not by what REDscope consulted *)

\* The files that a report counts, and names, as loose.
Reported(game, frameworks) ==
  IF IssuesOf(game, frameworks, 0) \cap {"loose-files-mo2", "loose-files-native"} = {} THEN {}
  ELSE DetectLooseFiles(game).loose

\* A file that a manager deployed is reported as loose only if that manager has left no trace, or
\* if its own list on the disk does not have the file any more, or cannot be walked to it.
DeployedIsNotReported(game, frameworks) ==
  \A f \in Reported(game, frameworks) \cap game.deployed :
    IF game.usvfs THEN game.mo2 # NoMO2 /\ (f \notin Overlays(game.mo2) \/ f \in game.mo2.unread)
    ELSE game.manifest = NoManifest /\ ~game.v2077

\* What the manager's own list has.
Listed(game) ==
  IF game.usvfs THEN IF game.mo2 = NoMO2 THEN {} ELSE Overlays(game.mo2)
  ELSE IF game.manifest = NoManifest THEN {} ELSE game.manifest.files

\* A file that somebody put in the folder, under no name that the manager deploys or lists, is
\* found by the scan, unless the file system hides it.
StrayFileIsFound(game) ==
  LET hidden == game.unseen \cup IF game.usvfs THEN game.unopened ELSE {}
  IN \A f \in game.files \ (game.deployed \cup Listed(game) \cup hidden) :
       f.role = "mod" /\ f.dir \in kModDirs => f \in DetectLooseFiles(game).loose

IsLeftover(game, f) == f.dir \in kModDirs /\ f \in game.files \ game.deployed /\ f.role \notin {"framework", "vanilla", "marker"}

\* A report that says that files are loose has such a file for it, or a list that is behind; one
\* that says that a framework is missing has a mod that needs it, which is enabled.
IssuesAreTrue(game, frameworks) ==
  LET issues == IssuesOf(game, frameworks, 0)
      Has(dir) ==
        IF game.usvfs
        THEN game.mo2 # NoMO2 /\ \E i \in DOMAIN game.mo2.modlist :
               /\ game.mo2.modlist[i].prefix = "+" /\ IsMod(game.mo2.modlist[i])
               /\ \E f \in game.mo2.files[game.mo2.modlist[i].name] : f.dir = dir
        ELSE \E f \in game.files : f.dir = dir
  IN /\ "loose-files-mo2" \in issues =>
          \/ \E f \in game.files : IsLeftover(game, f)
          \/ game.mo2 # NoMO2 /\ \E f \in game.deployed : f \notin Overlays(game.mo2) \/ f \in game.mo2.unread
     /\ "loose-files-native" \in issues =>
          \E f \in game.files : f.dir \in kModDirs /\ f.role \notin {"framework", "vanilla", "marker"}
     /\ "no-cet" \in issues => Has("cet")
     /\ "no-tweakxl" \in issues => Has("tweaks")

\* Of what the scan and the plan know of, a full clean leaves, besides the game's own files, only
\* the files of loaders that are not proxies, files directly in the mods directory, files below
\* subdirectories of the configuration directory, and what a walk of those two misses.
CleanAfterPlan(game) ==
  \A f \in game.files \ PlanFullClean(game) :
    f.dir \in kModDirs \cup kLoaders \cup {"reshade"} =>
      \/ f.role = "vanilla"
      \/ f.dir = "loader" /\ f.role # "proxy"
      \/ f.dir = "mods" /\ (~f.deep \/ f \in game.unseen)
      \/ f.dir = "config" /\ (f.deep \/ f \in game.unseen)
=============================================================================
