-------------------------- MODULE MCMessagePumpNet ---------------------------
(* One loop with its posters and its watched descriptors, for TLC.          *)
EXTENDS MessagePumpNet

=============================================================================
