------------------------------ MODULE MCKeyboard ------------------------------
(***************************************************************************)
(* Module Keyboard for TLC, with a buffer small enough to fill and wrap.   *)
(***************************************************************************)
EXTENDS Keyboard
===============================================================================
