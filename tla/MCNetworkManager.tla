-------------------------- MODULE MCNetworkManager --------------------------
(***************************************************************************)
(* NetworkManager for TLC.  Every state that waits has the same timeout of *)
(* one unit, and the overall timeout is longer, as in network.c:76-88.     *)
(***************************************************************************)
EXTENDS NetworkManager

Short == [s \in Timed |-> 1]
=============================================================================
