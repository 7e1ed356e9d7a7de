----------------------------- MODULE CrashVerdict -----------------------------
(***************************************************************************)
(* What the header of a report says of a crash: the likely culprit         *)
(* (report/CulpritHeuristic.cpp), the class (report/CrashClass.cpp) and    *)
(* the identifiers under which equal crashes are grouped                   *)
(* (report/Fingerprint.cpp), from the modules of the snapshot and the      *)
(* stack of the thread (report/StackDump.cpp).                             *)
(*                                                                         *)
(* A crash is what happened, wherever the modules were loaded:             *)
(*   code; sites: the sites of its native stack, innermost first, each in  *)
(*   a module at an offset; scripts: the script functions in flight,       *)
(*   innermost first; beat: the last one its thread entered, or ""; oom    *)
(* A launch is where the modules were loaded (base, a function), the       *)
(* mods in the order the inventory found them, and whether the database    *)
(* of symbols was loaded.                                                  *)
(***************************************************************************)
EXTENDS Integers, Sequences, FiniteSets, SequencesExt, Ordering

CONSTANTS
  Crashes, Launches,  \* the crashes and launches that are looked at,
  ALaunch,            \* and one of the launches
  Modules,            \* in the order of loading
  Symbols,            \* what the database and the PDBs have: records [module, rva, name]
  Build,
  kMaxFingerprintTail,\* 5
  kMaxModFrames       \* 4 of them are asked for

\* Where code lies that is in no module.
Heap == "heap"

\* Modules do not overlap, and lie where no other code is.
IsCrash(crash) ==
  /\ crash.sites \in Seq([module : STRING, rva : Nat]) /\ crash.sites # <<>>
  /\ crash.scripts \in Seq(STRING)
  /\ \A k \in DOMAIN crash.sites :
       \/ crash.sites[k].module = Heap
       \/ \E i \in DOMAIN Modules : Modules[i].name = crash.sites[k].module /\ crash.sites[k].rva < Modules[i].size
IsLaunch(loaded) ==
  /\ loaded.mods \in Seq([name : STRING, enabled : BOOLEAN])
  /\ loaded.base[Heap] \in Nat
  /\ \A i \in DOMAIN Modules : loaded.base[Modules[i].name] \in Nat
  /\ \A i, j \in DOMAIN Modules :
       i # j => \/ loaded.base[Modules[i].name] + Modules[i].size <= loaded.base[Modules[j].name]
                \/ loaded.base[Modules[j].name] + Modules[j].size <= loaded.base[Modules[i].name]
Outside(crash, loaded) ==
  \A k \in DOMAIN crash.sites, i \in DOMAIN Modules :
    crash.sites[k].module = Heap =>
      \/ loaded.base[Heap] + crash.sites[k].rva < loaded.base[Modules[i].name]
      \/ loaded.base[Heap] + crash.sites[k].rva >= loaded.base[Modules[i].name] + Modules[i].size

ASSUME CrashAssumption ==
  /\ Modules \in Seq([name : STRING \ {"", Heap}, kind : {"Unknown", "Mod", "Game", "System"}, size : Nat \ {0}])
  /\ \A i, j \in DOMAIN Modules : Modules[i].name = Modules[j].name => i = j
  /\ \A s \in Symbols : s.module # ""
  /\ kMaxModFrames \in Nat /\ kMaxFingerprintTail \in Nat
  /\ \A c \in Crashes : IsCrash(c)
  /\ \A l \in Launches : IsLaunch(l)
  /\ \A c \in Crashes, l \in Launches : Outside(c, l)
  /\ ALaunch \in Launches

NoModule == [name |-> "", kind |-> "none", base |-> 0, size |-> 0]
\* "cyber_engine_tweaks.asi", "RED4ext.dll" and "scc.dll"
HostFrameworks == {"RED4ext"}
\* ... and REDscope's own modules, which never count as a mod on the stack.
FrameworkSelf == HostFrameworks \cup {"REDscope"}

----------------------------------------------------------------------------
(* The modules of the snapshot, sorted by address *)

FillModuleList(loaded) ==
  LET Base(i) == loaded.base[Modules[i].name]
      order == Ascending({Base(i) : i \in DOMAIN Modules})
  IN [k \in DOMAIN order |->
        LET m == Modules[CHOOSE i \in DOMAIN Modules : Base(i) = order[k]]
        IN [name |-> m.name, kind |-> m.kind, base |-> order[k], size |-> m.size]]

\* A binary search of the half-open ranges.
FindModuleByPC(modules, address) ==
  LET Find[range \in (0..Len(modules)) \X (0..Len(modules))] ==
        LET lo == range[1]
            hi == range[2]
            mid == lo + (hi - lo) \div 2
            m == modules[mid + 1]
        IN IF lo >= hi THEN NoModule
           ELSE IF address < m.base THEN Find[<<lo, mid>>]
           ELSE IF address >= m.base + m.size THEN Find[<<mid + 1, hi>>]
           ELSE m
  IN Find[<<0, Len(modules)>>]

Address(loaded, site) == loaded.base[site.module] + site.rva

\* The frames in mods, the fault itself first.
InMod(m) == m.kind = "Mod" /\ m.name \notin FrameworkSelf
GatherModFramesOnStack(modules, pcs) ==
  LET frames == {i \in DOMAIN pcs : InMod(FindModuleByPC(modules, pcs[i]))}
      order == Ascending(frames)
      count == Cardinality(frames)
  IN [k \in 1..(IF count > kMaxModFrames THEN kMaxModFrames ELSE count) |->
        LET m == FindModuleByPC(modules, pcs[order[k]]) IN [name |-> m.name, rva |-> pcs[order[k]] - m.base]]

\* The nearest name at or below the address: in the game from the database, once it is loaded, in
\* the other modules from their PDBs.
SymbolOf(loaded, module, rva) ==
  LET below == {s \in Symbols : s.module = module /\ s.rva <= rva}
      nearest == {s \in below : \A o \in below : o.rva <= s.rva}
  IN IF nearest # {} /\ (module = "Cyberpunk2077" => loaded.symbolsReady)
     THEN (CHOOSE s \in nearest : TRUE).name ELSE ""

----------------------------------------------------------------------------
Verdict(category, confidence, names) == [category |-> category, confidence |-> confidence, names |-> names]

\* By the code of the exception alone; otherwise by the memory left, by the module of the fault,
\* and in the game's and the system's by the mod nearest to it on the stack.
ComputeVerdict(code, oomSuspected, m, modFrames) ==
  CASE code = "STACK_OVERFLOW" -> Verdict("stack-overflow", "High", {})
    [] code \in {"HEAP_CORRUPTION", "STACK_BUFFER_OVERRUN"} -> Verdict("memory", "High", {})
    [] code = "IN_PAGE_ERROR" -> Verdict("memory", "Medium", {})
    [] code = "GPU_REMOVED" -> Verdict("system", "Low", {})
    [] OTHER ->
         IF oomSuspected THEN Verdict("memory", "Low", {})
         ELSE IF m = NoModule THEN Verdict("unknown", "Unknown", {})
         ELSE IF m.name = "REDscope" THEN Verdict("redscope-itself", "High", {m.name})
         ELSE IF m.kind = "Mod" THEN Verdict("mod", IF m.name \in HostFrameworks THEN "Low" ELSE "High", {m.name})
         ELSE IF m.kind \in {"Game", "System"} /\ modFrames # <<>> THEN Verdict("mod", "Medium", {modFrames[1].name})
         ELSE IF m.kind = "Game" THEN Verdict("game", "Medium", {m.name})
         ELSE IF m.kind = "System" THEN Verdict("system", "Low", {m.name})
         ELSE Verdict("unknown", "Low", {m.name})

\* A frame of RED4ext is taken for a script's; symbols of frames are never filled in.
ClassifyCrash(frames, scriptStackDepth) ==
  IF scriptStackDepth > 0 THEN "scripted"
  ELSE IF frames = <<>> THEN "unknown"
  ELSE IF \E i \in DOMAIN frames : frames[i] = "RED4ext" THEN "scripted" ELSE "native"

----------------------------------------------------------------------------
(* The identifiers: hashes of sequences of fields, which are kept as they are *)

Sep == "\\x1F"

\* A module is told with the symbol of the fault, or without one with its offset; then one field
\* of the tail, or all of them, follow.
ComputeFingerprintCore(code, module, rva, symbol, tail) ==
  LET base == IF module = "" THEN <<code, Sep, Build, Sep>>
              ELSE <<code, Sep, Build, Sep, module, Sep, IF symbol # "" THEN <<symbol>> ELSE <<symbol, rva>>>>
      Fields(n) == [i \in 1..2 * n |-> IF i % 2 = 1 THEN Sep ELSE tail[i \div 2]]
      gameUnsymbolicated == module = "Cyberpunk2077" /\ symbol = ""
  IN [loose |-> IF gameUnsymbolicated /\ tail # <<>> THEN base \o Fields(1) ELSE base,
      primary |-> base \o Fields(Len(tail))]

\* Sums of hashes: every enabled mod with its version counts, in whatever order.
ComputeModSetHash(mods) ==
  [m \in {n \in Range(mods) : n.enabled} |-> Cardinality({i \in DOMAIN mods : mods[i] = m})]

\* The script functions in flight; without any, the mod on the stack and where in it; without one,
\* the function that the thread entered last.
TailNames(scripts, modFrames, beat) ==
  IF scripts # <<>>
  THEN [i \in 1..(IF Len(scripts) > kMaxFingerprintTail THEN kMaxFingerprintTail ELSE Len(scripts)) |-> <<scripts[i]>>]
  ELSE IF modFrames # <<>> THEN <<<<modFrames[1].name, modFrames[1].rva>>>>
  ELSE IF beat # "" THEN <<<<beat>>>> ELSE <<>>

\* Mutant: the address of the fault, not its offset in the module.
ComputeFingerprintOfAddress(code, rip, m, symbol, modFrames, scripts, beat, mods) ==
  LET core == ComputeFingerprintCore(code, m.name, rip, symbol, TailNames(scripts, modFrames, beat))
  IN [loose |-> core.loose, primary |-> core.primary, modSet |-> ComputeModSetHash(mods)]

ComputeFingerprint(code, rip, m, symbol, modFrames, scripts, beat, mods) ==
  LET core == ComputeFingerprintCore(code, m.name, rip - m.base, symbol, TailNames(scripts, modFrames, beat))
  IN [loose |-> core.loose, primary |-> core.primary, modSet |-> ComputeModSetHash(mods)]

\* EmitHeader: all of it for one crash in one launch.
EmitHeader(crash, loaded) ==
  LET modules == FillModuleList(loaded)
      pcs == [i \in DOMAIN crash.sites |-> Address(loaded, crash.sites[i])]
      m == FindModuleByPC(modules, pcs[1])
      symbol == SymbolOf(loaded, m.name, pcs[1] - m.base)
      modFrames == GatherModFramesOnStack(modules, pcs)
  IN [verdict |-> ComputeVerdict(crash.code, crash.oom, m, modFrames),
      id |-> ComputeFingerprint(crash.code, pcs[1], m, symbol, modFrames, crash.scripts, crash.beat, loaded.mods),
      class |-> ClassifyCrash([i \in DOMAIN pcs |-> FindModuleByPC(modules, pcs[i]).name], Len(crash.scripts))]

----------------------------------------------------------------------------
(* What the identifiers promise.  README.md: the same crash keeps its       *)
(* identifier, and crashes with one identifier are of one kind.             *)

\* The same crash has the same header wherever the modules were loaded and in whatever order the
\* mods were found, as long as the symbols are loaded, or not, in both launches.
SameCrashSameHeader(crash, a, b) ==
  /\ a.symbolsReady = b.symbolsReady
  /\ \E place \in Bijection(DOMAIN b.mods, DOMAIN a.mods) : \A i \in DOMAIN b.mods : b.mods[i] = a.mods[place[i]]
  => EmitHeader(crash, a) = EmitHeader(crash, b)

\* A finer bucket lies in one coarser bucket, and no bucket holds crashes of two modules; without
\* scripts in flight it holds no crashes that are blamed on two mods.  x and y are the headers
\* of the crashes c and d, in one launch.
BucketsAreNested(c, d, x, y) ==
  /\ x.id.primary = y.id.primary => x.id.loose = y.id.loose
  /\ x.id.loose = y.id.loose => c.sites[1].module = d.sites[1].module /\ c.code = d.code
  /\ /\ x.id.primary = y.id.primary
     /\ x.verdict.category = "mod" /\ y.verdict.category = "mod"
     /\ c.scripts = <<>> /\ d.scripts = <<>>
     => x.verdict.names = y.verdict.names
=============================================================================
