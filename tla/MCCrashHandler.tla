--------------------------- MODULE MCCrashHandler ---------------------------
(***************************************************************************)
(* Two threads that fault at any time, bounded numbers of exceptions, of   *)
(* seconds, of failed file operations and of faults of the reporter.       *)
(***************************************************************************)
EXTENDS CrashHandler, TLC

ThreadSymmetry == Permutations(Threads)
=============================================================================
