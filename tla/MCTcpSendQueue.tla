--------------------------- MODULE MCTcpSendQueue ---------------------------
(***************************************************************************)
(* Instances of TcpSendQueue for TLC.  The values of the constants are in  *)
(* the configurations; the file operations that fail are named here.       *)
(***************************************************************************)
EXTENDS TcpSendQueue

WriteFaults == {"append", "save", "pop"}
=============================================================================
