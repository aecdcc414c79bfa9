--------------------------- MODULE MCVoiceRelay ---------------------------
(* TLC instances of VoiceRelay. Liveness is checked: no symmetry. *)
EXTENDS VoiceRelay
=============================================================================
