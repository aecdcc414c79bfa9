---------------------------- MODULE MCSignaling ----------------------------
(* The TLC instance of Signaling.                                          *)
EXTENDS Signaling
=============================================================================
