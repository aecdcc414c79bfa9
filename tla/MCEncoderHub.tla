--------------------------- MODULE MCEncoderHub ---------------------------
(* TLC instances of EncoderHub. *)
EXTENDS EncoderHub
=============================================================================
