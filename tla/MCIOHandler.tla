---------------------------- MODULE MCIOHandler -----------------------------
(* IOHandler with one or two foreign threads and a send buffer smaller than *)
(* two sends, so that sends are partial and the buffer fills exactly.       *)
EXTENDS IOHandler
=============================================================================
