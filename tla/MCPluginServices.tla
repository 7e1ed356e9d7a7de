-------------------------- MODULE MCPluginServices --------------------------
(***************************************************************************)
(* What the plugin does beside its reports: the download of symbols, the   *)
(* loading and unloading of the plugin with the table of symbols, and the  *)
(* table of live values.  They share no state, so a behaviour is one of    *)
(* one of them, which subject names, and the others stand still.           *)
(***************************************************************************)
EXTENDS SymbolFetch, PluginLifecycle, GameStateLive

CONSTANTS boot, user, p, q, a, b, none, nothing, handler, noFile, phase, combat, cut1, long1

VARIABLE subject

----------------------------------------------------------------------------
\* The download: two threads, two modules; two releases of the first.
MCTargets == <<"RED4ext", "CET">>
Pdb(n, i) == [name |-> n, id |-> i]

\* A first release with nothing, with one file of any kind, with the match beside a file of
\* another build, and with two files of one name; then a second one.
MCReleases ==
  {<< <<first, second>>, << <<Pdb(q, b)>> >> >> :
     first \in {nothing, <<Pdb(p, b)>>, <<Pdb(p, none)>>, <<Pdb(p, b), Pdb(q, a)>>,
               <<Pdb(p, a), Pdb(p, none)>>},
     second \in {nothing, <<Pdb(p, a)>>, <<Pdb(q, none), Pdb(p, a)>>}}

MCWants == {<<a, none>>, <<a, b>>}

----------------------------------------------------------------------------
\* The table of symbols: addresses of three bits; symbols that wrap, share an address or have
\* no name; files that are missing, broken off or without addresses.
Sym(o, n) == [offset |-> o, name |-> n]
Json(const, syms) == [entries |-> syms, codeConst |-> const, complete |-> TRUE, addresses |-> TRUE]

MCFiles ==
  {noFile,
   Json(1, {Sym(0, "f"), Sym(0, "g"), Sym(4, "h")}),
   Json(6, {Sym(1, "f"), Sym(3, "g"), Sym(4, "")}),
   Json(0, {Sym(2, "f")}),
   Json(0, {}),
   [Json(0, {Sym(2, "f")}) EXCEPT !.complete = FALSE],
   [Json(0, {}) EXCEPT !.addresses = FALSE]}

----------------------------------------------------------------------------
\* The live values: two keys that fit, one whose first characters are cut1, and cut1 itself,
\* which fits; a table of three entries.
MCKeys == {phase, combat, cut1, long1}
MCField == [k \in MCKeys |-> IF k = long1 THEN cut1 ELSE k]

----------------------------------------------------------------------------
loaderVars == <<lifeVars, dbVars>>

\* What a subject is not about starts in one of its initial states.
MCInit ==
  /\ FetchInit /\ LifecycleInit /\ Init
  /\ subject \in {"download", "lifecycle", "live"}
  /\ subject # "download" => want = <<a, b>> /\ releases = CHOOSE r \in MCReleases : TRUE
  /\ subject # "lifecycle" => file = noFile

DownloadStep == subject = "download" /\ FetchNext /\ UNCHANGED <<subject, loaderVars, liveVars>>
LifecycleStep == subject = "lifecycle" /\ LifecycleNext /\ UNCHANGED <<subject, fetchVars, liveVars>>
LiveStep == subject = "live" /\ Next /\ UNCHANGED <<subject, fetchVars, loaderVars>>

\* The fairness of FairFetch and of FairLifecycle.
MCSpec ==
  /\ MCInit
  /\ [][DownloadStep \/ LifecycleStep \/ LiveStep]_<<subject, fetchVars, loaderVars, liveVars>>
  /\ \A c \in Callers : WF_fetchVars(RunAll(c))
  /\ WF_loaderVars(Worker)
=============================================================================
