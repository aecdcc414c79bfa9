--------------------------- MODULE MCFileReceive ---------------------------
(* TLC instances of FileReceive. Channels are interchangeable. *)
EXTENDS FileReceive, TLC

Symmetry == Permutations(Channels)
=============================================================================
