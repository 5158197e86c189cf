-------------------------- MODULE MCPreBootHandler --------------------------
(***************************************************************************)
(* An instance of PreBootHandler for TLC: three runs, two planned resets,  *)
(* and every file operation may fail.                                      *)
(***************************************************************************)
EXTENDS PreBootHandler

AllFaults == {"read", "open", "write", "close"}
=============================================================================
