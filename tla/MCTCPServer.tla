----------------------------- MODULE MCTCPServer -----------------------------
(* A server with a small reactor pool, for TLC.                             *)
EXTENDS TCPServer

=============================================================================
