--------------------------- MODULE MCCommandPath ---------------------------
(***************************************************************************)
(* An instance of CommandPath for TLC: four pieces over two connections    *)
(* and a queue of two, which fills while cmdTask executes; the first piece *)
(* may be short and the third is for the STM.                              *)
(***************************************************************************)
EXTENDS CommandPath

Shorts == {1}
Stms == {3}
=============================================================================
