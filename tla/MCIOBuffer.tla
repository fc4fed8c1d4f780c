----------------------------- MODULE MCIOBuffer -----------------------------
(* IOBuffer with two byte values and strings of up to MaxData bytes.        *)
EXTENDS IOBuffer

CONSTANT MaxData

MCData == UNION {[1 .. n -> Byte] : n \in 1 .. MaxData}
=============================================================================
