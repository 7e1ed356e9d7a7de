--------------------------- MODULE PluginLifecycle ---------------------------
(***************************************************************************)
(* Plugin.cpp with hooks/DispatchHook.cpp and the threads of               *)
(* snapshot/SnapshotWorker.cpp: the game loads the plugin and unloads it   *)
(* on its main thread; the worker, which Boot starts, tries on every tick  *)
(* to attach the hook of the script interpreter, as Boot does too; the     *)
(* loader of the symbols (SymbolDb) is started and never waited for.       *)
(***************************************************************************)
EXTENDS SymbolDb

CONSTANT MaxFails \* bound: how often attaching or detaching the hook may fail

VARIABLES
  main,      \* what the main thread does next
  worker,    \* "none", "sleeps", "ticks", "attaches", "stores" or "ended"
  run,       \* g_run
  sdk,       \* g_sdk and g_pluginHandle are set
  logger,    \* g_logger is set
  armed,     \* the vectored handler is registered
  bindings,  \* "none", "callback", "registered" or "removed"
  rttiReady, \* g_rttiReady
  frozen,    \* g_crashInProgress
  installed, \* g_installedScripted
  target,    \* g_scriptedTarget is set
  hooks,     \* how many detours are attached to ExecuteScripted
  fails,     \* failures of Attach and Detach so far
  refused    \* history: a Detach has failed

lifeVars == <<main, worker, run, sdk, logger, armed, bindings, rttiReady, frozen, installed, target, hooks, fails, refused>>
hookVars == <<installed, target, hooks, fails, refused>>

LifeInit ==
  /\ main = "log" /\ worker = "none"
  /\ run = FALSE /\ sdk = FALSE /\ logger = FALSE /\ armed = FALSE
  /\ bindings = "none" /\ rttiReady = FALSE /\ frozen = FALSE
  /\ installed = FALSE /\ target = FALSE /\ hooks = 0 /\ fails = 0 /\ refused = FALSE

At(here, next) == main = here /\ main' = next

----------------------------------------------------------------------------
(* Boot, in its order *)

BootLog ==
  /\ At("log", "arm")
  /\ sdk' = TRUE /\ logger' = TRUE
  /\ UNCHANGED <<worker, run, armed, bindings, rttiReady, frozen, hookVars, dbVars>>

BootArm ==
  /\ At("arm", "start")
  /\ armed' = TRUE
  /\ UNCHANGED <<worker, run, sdk, logger, bindings, rttiReady, frozen, hookVars, dbVars>>

\* RegisterRttiReadyCallback, and Start: its own first tick installs nothing, because the types
\* of the game are not registered before Boot returns.
BootStart ==
  /\ At("start", "symbols")
  /\ run' = TRUE /\ worker' = "sleeps"
  /\ UNCHANGED <<sdk, logger, armed, bindings, rttiReady, frozen, hookVars, dbVars>>

BootSymbols ==
  /\ At("symbols", "install")
  /\ StartLoad
  /\ bindings' = "callback"
  /\ UNCHANGED <<worker, run, sdk, logger, armed, rttiReady, frozen, hookVars>>

\* Mutant: the hook is attached as soon as there is an SDK, before the types are registered.
MayInstallUnready == ~installed /\ sdk

\* The guards of dispatch::Install.
MayInstall == ~installed /\ rttiReady /\ sdk

\* InstallAll at the end of Boot; the download is SymbolFetch's.
BootInstall ==
  /\ At("install", "running")
  /\ hooks' = IF MayInstall THEN hooks + 1 ELSE hooks
  /\ installed' = (installed \/ MayInstall) /\ target' = (target \/ MayInstall)
  /\ UNCHANGED <<worker, run, sdk, logger, armed, bindings, rttiReady, frozen, fails, refused, dbVars>>

Boot == BootLog \/ BootArm \/ BootStart \/ BootSymbols \/ BootInstall

\* The game registers its types, on the main thread, and calls back.
PostRegister ==
  /\ main = "running" /\ ~rttiReady
  /\ rttiReady' = TRUE /\ bindings' = "registered"
  /\ UNCHANGED <<main, worker, run, sdk, logger, armed, frozen, hookVars, dbVars>>

\* A fault is reported, which the game survives; the handler freezes the worker (CrashHandler).
FreezeForCrash ==
  /\ armed /\ ~frozen
  /\ frozen' = TRUE
  /\ UNCHANGED <<main, worker, run, sdk, logger, armed, bindings, rttiReady, hookVars, dbVars>>

----------------------------------------------------------------------------
(* Teardown, in its order *)

\* dispatch::Uninstall takes the flag; from here until the hook is detached, a worker that
\* looks at the flag takes the hook for missing.
Exchange ==
  /\ At("running", IF installed THEN "detach" ELSE "unregister")
  /\ installed' = FALSE
  /\ UNCHANGED <<worker, run, sdk, logger, armed, bindings, rttiReady, frozen, target, hooks, fails, refused, dbVars>>

\* Whether RED4ext takes both detours off, when there are two, is not said in this code.
\* That it refuses is not looked at.
Detach ==
  /\ At("detach", "forget")
  /\ \/ /\ hooks' \in IF sdk /\ target THEN 0 .. hooks - 1 ELSE {hooks}
        /\ UNCHANGED <<fails, refused>>
     \/ /\ sdk /\ target /\ fails < MaxFails
        /\ fails' = fails + 1 /\ refused' = TRUE
        /\ UNCHANGED hooks
  /\ UNCHANGED <<worker, run, sdk, logger, armed, bindings, rttiReady, frozen, installed, target, dbVars>>

\* The target is cleared, also when the worker has stored its own in the meantime.
Forget ==
  /\ At("forget", "unregister")
  /\ target' = FALSE
  /\ UNCHANGED <<worker, run, sdk, logger, armed, bindings, rttiReady, frozen, installed, hooks, fails, refused, dbVars>>

Unregister ==
  /\ At("unregister", "stop")
  /\ bindings' = IF bindings = "registered" THEN "removed" ELSE bindings
  /\ UNCHANGED <<worker, run, sdk, logger, armed, rttiReady, frozen, hookVars, dbVars>>

Stop ==
  /\ At("stop", "join")
  /\ run' = FALSE
  /\ UNCHANGED <<worker, sdk, logger, armed, bindings, rttiReady, frozen, hookVars, dbVars>>

\* Mutant: the worker is told to stop and not waited for.
JoinUnawaited ==
  /\ At("join", "disarm")
  /\ UNCHANGED <<worker, run, sdk, logger, armed, bindings, rttiReady, frozen, hookVars, dbVars>>

Join ==
  /\ At("join", "disarm")
  /\ worker = "ended"
  /\ UNCHANGED <<worker, run, sdk, logger, armed, bindings, rttiReady, frozen, hookVars, dbVars>>

Disarm ==
  /\ At("disarm", "shutdown")
  /\ armed' = FALSE
  /\ UNCHANGED <<worker, run, sdk, logger, bindings, rttiReady, frozen, hookVars, dbVars>>

Shutdown ==
  /\ At("shutdown", "unloaded")
  /\ logger' = FALSE /\ sdk' = FALSE
  /\ UNCHANGED <<worker, run, armed, bindings, rttiReady, frozen, hookVars, dbVars>>

Teardown == Exchange \/ Detach \/ Forget \/ Unregister \/ Stop \/ Join \/ Disarm \/ Shutdown

----------------------------------------------------------------------------
(* The worker: Run, and the end of Tick *)

Works(here, next) ==
  /\ worker = here /\ worker' = next
  /\ UNCHANGED <<main, run, sdk, logger, armed, bindings, rttiReady, frozen, dbVars>>

\* A frozen worker skips its tick, the installing with it.
TickOrEnd ==
  /\ Works("sleeps", IF ~run THEN "ended" ELSE IF frozen THEN "sleeps" ELSE "ticks")
  /\ UNCHANGED hookVars

TickInstall ==
  /\ Works("ticks", IF MayInstall THEN "attaches" ELSE "sleeps")
  /\ UNCHANGED hookVars

TickAttach ==
  /\ Works("attaches", "stores")
  /\ hooks' = hooks + 1
  /\ UNCHANGED <<installed, target, fails, refused>>

\* Mutant: a failure counts as done.
TickAttachGivesUp ==
  /\ fails < MaxFails
  /\ Works("attaches", "stores")
  /\ fails' = fails + 1
  /\ UNCHANGED <<installed, target, hooks, refused>>

\* The hooking of the SDK refuses; the next tick tries again.
TickAttachFails ==
  /\ fails < MaxFails
  /\ Works("attaches", "sleeps")
  /\ fails' = fails + 1
  /\ UNCHANGED <<installed, target, hooks, refused>>

TickStores ==
  /\ Works("stores", "sleeps")
  /\ target' = TRUE /\ installed' = TRUE
  /\ UNCHANGED <<hooks, fails, refused>>

Worker == TickOrEnd \/ TickInstall \/ TickAttach \/ TickAttachFails \/ TickStores

\* The loader of the symbols and the reports that use it.
Symbols ==
  /\ \/ LoadThread
     \/ \E r \in Readers : armed /\ BeginLookup(r)
     \/ \E r \in Readers : EndLookup(r)
  /\ UNCHANGED lifeVars

LifecycleInit == LifeInit /\ DbInit

LifecycleNext == Boot \/ PostRegister \/ FreezeForCrash \/ Teardown \/ (Worker \/ Symbols)

LifecycleSpec == LifecycleInit /\ [][LifecycleNext]_<<lifeVars, dbVars>>

\* The operating system runs the worker.
FairLifecycle == LifecycleSpec /\ WF_<<lifeVars, dbVars>>(Worker)

----------------------------------------------------------------------------
(* What the order of Boot and Teardown promises *)

LifeTypeOK ==
  /\ worker \in {"none", "sleeps", "ticks", "attaches", "stores", "ended"}
  /\ hooks \in Nat /\ fails \in 0..MaxFails
  /\ bindings \in {"none", "callback", "registered", "removed"}

\* Boot and the worker both install the hook, with no lock between the look at the flag and the
\* attaching, and still there are never two detours while the plugin runs: Boot is through before
\* the types are there.  The teardown has a window (DispatchHook.cpp:92-94): it takes the flag and
\* detaches later, and the worker, still running, may attach a second detour in between.  There is
\* no third, and the second stays behind only when RED4ext refuses to detach.
OneDetour == hooks <= 1 \/ (hooks = 2 /\ (main = "detach" \/ refused))

\* Nothing of the worker runs once the logger and the SDK are gone, which its tick uses
\* without looking again.
WorkerEndsFirst ==
  ~sdk /\ main # "log" => worker = "ended"

\* Once the types are registered the hook gets attached, however late the game registers them
\* and though attaching may fail a few times; unless the plugin is unloaded, or a fault that the
\* game survived has frozen the worker for good.
HookGetsAttached == rttiReady ~> (hooks = 1 \/ main # "running" \/ frozen)
=============================================================================
