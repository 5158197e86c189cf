--------------------------- MODULE MCConfigStore ---------------------------
(***************************************************************************)
(* An instance of ConfigStore for TLC: three modules, of which the second  *)
(* is set in RAM only, and every file operation may fail.                  *)
(***************************************************************************)
EXTENDS ConfigStore

TcpModule == {2}
AllFaults == {"open", "read", "seek", "write", "close", "delete"}
=============================================================================
