-------------------------- MODULE MCSnapshotWorker --------------------------
(* A small instance of SnapshotWorker for TLC: one crashing thread and one   *)
(* game thread, enough ticks for a buffer to be reused while it is read.     *)
EXTENDS SnapshotWorker

CONSTANTS crasher, game

MCCrashReaders == {crasher}
MCGameReaders == {game}
=============================================================================
