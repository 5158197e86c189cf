---------------------------- MODULE MCSupervisor ----------------------------
(***************************************************************************)
(* An instance of Supervisor for TLC: two supervised tasks, of which the   *)
(* second, the command module's, has a higher priority than WEMAIN.        *)
(***************************************************************************)
EXTENDS Supervisor

CommandTask == {2}
=============================================================================
