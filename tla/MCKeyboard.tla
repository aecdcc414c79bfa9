----------------------------- MODULE MCKeyboard -----------------------------
(* TLC instances of Keyboard. *)
EXTENDS Keyboard
=============================================================================
