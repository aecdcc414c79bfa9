----------------------------- MODULE MCCamera -----------------------------
(* TLC instances of Camera. Liveness is checked: no symmetry. *)
EXTENDS Camera
=============================================================================
