------------------------------ MODULE MCScheduler ------------------------------
(***************************************************************************)
(* Module Scheduler for TLC: kernel_main, idle and the other processes of  *)
(* the constant Procs, which fork and execv bring into being.              *)
(***************************************************************************)
EXTENDS Scheduler
===============================================================================
