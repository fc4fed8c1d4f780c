---------------------------- MODULE MCTCPClient -----------------------------
(* TCPClient with few descriptors, so that retries meet the process limit.  *)
EXTENDS TCPClient
=============================================================================
