------------------------------ MODULE MCZEngine ------------------------------
(* Two engine threads and one timer id, for TLC.                            *)
EXTENDS ZEngine

=============================================================================
