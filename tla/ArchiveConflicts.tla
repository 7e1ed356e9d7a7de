--------------------------- MODULE ArchiveConflicts ---------------------------
(***************************************************************************)
(* snapshot/CuratedConflicts.cpp: the curated database of mods that        *)
(* conflict and of what they depend on, merged from several files in the   *)
(* order of their names, and its evaluation against the archives that are  *)
(* installed.  A file is a record of partial maps and sets:                *)
(*   mods: name -> the archives it is recognised by, and its tags          *)
(*   conflicts, exceptions: sets of groups of names                        *)
(*   dependencies: name -> the names it requires                           *)
(***************************************************************************)
EXTENDS Naturals, Sequences, FiniteSets, SequencesExt

CONSTANTS
  kPhantomLiberty,    \* the expansion, which a mod may depend on
  Databases,          \* what the files of a database may be, in the order of their names
  Archives,           \* the archives that may be installed
  kMaxConflictGroups, kMaxMissingDeps

\* A file describes finitely many mods and has finite groups.
IsDatabase(files) ==
  /\ Len(files) \in Nat /\ DOMAIN files = 1..Len(files)
  /\ \A i \in DOMAIN files :
       /\ IsFiniteSet(DOMAIN files[i].mods)
       /\ \A g \in files[i].conflicts \cup files[i].exceptions : IsFiniteSet(g)

ASSUME DatabasesAssumption ==
  /\ kMaxConflictGroups \in Nat /\ kMaxMissingDeps \in Nat
  /\ \A files \in Databases : IsDatabase(files)

EmptyDB == [mods |-> <<>>, conflicts |-> {}, exceptions |-> {}, dependencies |-> <<>>]

Groups(groups) == {g \in groups : Cardinality(g) >= 2}

\* Two maps, of which the first goes first.
Over(f, g) == [x \in DOMAIN f \cup DOMAIN g |-> IF x \in DOMAIN f THEN f[x] ELSE g[x]]

\* Of a mod that two files describe the first counts, of dependencies the last.
MergeConflictJson(db, json) ==
  [mods |-> Over(db.mods, json.mods),
   conflicts |-> db.conflicts \cup Groups(json.conflicts),
   exceptions |-> db.exceptions \cup Groups(json.exceptions),
   dependencies |-> Over(json.dependencies, db.dependencies)]

\* The mods of one tag are a group of conflicts; then what names no mod of the database goes.
FinalizeConflictDB(db) ==
  LET known == DOMAIN db.mods
      tagged == {{n \in known : t \in db.mods[n].tags} : t \in UNION {db.mods[n].tags : n \in known}}
      Reqs(n) == {r \in db.dependencies[n] : r = kPhantomLiberty \/ r \in known}
      dependent == {n \in DOMAIN db.dependencies \cap known : Reqs(n) # {}}
  IN [db EXCEPT !.conflicts = Groups({g \cap known : g \in db.conflicts \cup Groups(tagged)}),
                !.dependencies = [n \in dependent |-> Reqs(n)]]

\* The database after each file.
Merged(files) ==
  LET merged[i \in 0..Len(files)] == IF i = 0 THEN EmptyDB ELSE MergeConflictJson(merged[i - 1], files[i])
  IN merged

LoadConflictDir(files) == FinalizeConflictDB(Merged(files)[Len(files)])

----------------------------------------------------------------------------
Installed(db, archives) == {n \in DOMAIN db.mods : db.mods[n].archives \cap archives # {}}

Excepted(db, a, b) == \E g \in db.exceptions : {a, b} \subseteq g

\* Mutant: a pair that is excepted in one group takes both out of every other.
SurvivorsOfNone(db, members) == {a \in members : \A b \in members \ {a} : ~Excepted(db, a, b)}

\* The installed mods of a group that conflict with another one of it.
Survivors(db, members) == {a \in members : \E b \in members \ {a} : ~Excepted(db, a, b)}

\* Without a valid reading of the engine's state nothing is said of the expansion.
Unmet(db, installed, n, isEP1, engineReadOk) ==
  {r \in db.dependencies[n] : IF r = kPhantomLiberty THEN engineReadOk /\ ~isEP1 ELSE r \notin installed}

FirstOf(set, cap) == {SetToSeq(set)[i] : i \in 1..(IF Cardinality(set) > cap THEN cap ELSE Cardinality(set))}

EvaluateConflicts(db, archives, isEP1, engineReadOk) ==
  LET installed == Installed(db, archives)
      active == {Survivors(db, g \cap installed) : g \in db.conflicts} \ {{}}
      missing == {[mod |-> n, unmet |-> Unmet(db, installed, n, isEP1, engineReadOk)] :
                    n \in {m \in DOMAIN db.dependencies \cap installed :
                             Unmet(db, installed, m, isEP1, engineReadOk) # {}}}
  IN [active |-> FirstOf(active, kMaxConflictGroups), missingDeps |-> FirstOf(missing, kMaxMissingDeps),
      truncated |-> Cardinality(active) > kMaxConflictGroups \/ Cardinality(missing) > kMaxMissingDeps]

----------------------------------------------------------------------------
(* What a report may rely on *)

Describes(files, n) == {i \in DOMAIN files : n \in DOMAIN files[i].mods}
Entry(files, n) == files[CHOOSE i \in Describes(files, n) : \A j \in Describes(files, n) : i <= j].mods[n]

Present(files, archives, n) == Describes(files, n) # {} /\ Entry(files, n).archives \cap archives # {}

\* Two mods clash by what the files say together: both are known and installed, some file has
\* them in one group or they have a tag in common, and no file excepts them.
Clash(files, archives, a, b) ==
  /\ a # b /\ Present(files, archives, a) /\ Present(files, archives, b)
  /\ \/ \E i \in DOMAIN files : \E g \in files[i].conflicts : {a, b} \subseteq g
     \/ Entry(files, a).tags \cap Entry(files, b).tags # {}
  /\ \A i \in DOMAIN files : \A g \in files[i].exceptions : ~({a, b} \subseteq g)

\* The report names all clashing mods and no others, each in a group with one it clashes with,
\* unless a cap cut it; it misses no requirement and claims none that is met or not known.
ConflictsExact(files, archives, isEP1, engineReadOk) ==
  LET found == EvaluateConflicts(LoadConflictDir(files), archives, isEP1, engineReadOk)
      names == UNION {DOMAIN files[i].mods : i \in DOMAIN files}
      Requires(n) == LET said == {i \in DOMAIN files : n \in DOMAIN files[i].dependencies}
                     IN IF said = {} THEN {} ELSE files[CHOOSE i \in said : \A j \in said : j <= i].dependencies[n]
  IN /\ \A g \in found.active : \A a \in g : \E b \in g : Clash(files, archives, a, b)
     /\ found.truncated \/
          /\ \A a, b \in names : Clash(files, archives, a, b) => \E g \in found.active : {a, b} \subseteq g
          /\ \A n \in names, r \in names \cup {kPhantomLiberty} :
               (\E m \in found.missingDeps : m.mod = n /\ r \in m.unmet) <=>
                 /\ Present(files, archives, n) /\ r \in Requires(n)
                 /\ IF r = kPhantomLiberty THEN engineReadOk /\ ~isEP1 ELSE ~Present(files, archives, r)
=============================================================================
