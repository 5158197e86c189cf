-------------------------- MODULE MCVehicleReport --------------------------
(***************************************************************************)
(* An instance of VehicleReport for TLC: the default source of motion, the *)
(* ignition, three readings to turn it on and two seconds to end a motion. *)
(***************************************************************************)
EXTENDS VehicleReport
=============================================================================
