---------------------------- MODULE MCOtaManager ----------------------------
(***************************************************************************)
(* An instance of OtaManager for TLC: an image of three units in chunks of *)
(* two, so that a short read leaves an odd remainder, three version checks *)
(* per run, so that a late event can be followed by two more requests.     *)
(***************************************************************************)
EXTENDS OtaManager
=============================================================================
