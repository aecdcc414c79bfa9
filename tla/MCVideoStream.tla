--------------------------- MODULE MCVideoStream ---------------------------
(* TLC instances of VideoStream. *)
EXTENDS VideoStream
=============================================================================
