---------------------------- MODULE MCScriptStack ----------------------------
(* Calls nested deeper than the cap, and frames lost to exceptions on the    *)
(* way.                                                                      *)
EXTENDS ScriptStack
=============================================================================
