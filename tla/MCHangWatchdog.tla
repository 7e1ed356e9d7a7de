--------------------------- MODULE MCHangWatchdog ---------------------------
(* Two threads, one after the other and each with a slot, and a clock that  *)
(* reaches two hangs with activity between them.                             *)
EXTENDS HangWatchdog
=============================================================================
