--------------------------- MODULE MCCrashPipeline ---------------------------
(* One game thread and the worker's own thread, either of which may fault.   *)
EXTENDS CrashPipeline

CONSTANTS game, worker
=============================================================================
