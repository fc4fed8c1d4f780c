------------------------------ MODULE MCCodec -------------------------------
(* Codec with a two-byte header and a limit of four: fields below the       *)
(* header size, at it, at the limit, just over it, and negative as int32.   *)
EXTENDS Codec
=============================================================================
