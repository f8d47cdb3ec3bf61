------------------------------- MODULE MCBuddy -------------------------------
(***************************************************************************)
(* Module Buddy for TLC, with a zone whose size is no power of two.        *)
(***************************************************************************)
EXTENDS Buddy
===============================================================================
