--------------------------- MODULE MCGpsReceiver ---------------------------
(***************************************************************************)
(* An instance of GpsReceiver for TLC: a reboot after three failures, and  *)
(* five commands, so that two rounds of off and on fall into one bring-up. *)
(***************************************************************************)
EXTENDS GpsReceiver
=============================================================================
