------------------------------ MODULE MCDrivers ------------------------------
(***************************************************************************)
(* Modules Keyboard and Disk for TLC.  The two drivers share no state, so  *)
(* the behaviours of one are checked with the other at rest: driver says   *)
(* which of them runs.  The keyboard's buffer is small enough to fill and  *)
(* wrap; the disk requests are a byte inside a sector, one sector, ranges  *)
(* that begin or end inside one, and one that leaves the drive.            *)
(***************************************************************************)
EXTENDS Keyboard, Disk

VARIABLE driver

MCRanges == {<<0, 1>>, <<1, 1>>, <<2, 2>>, <<1, 3>>, <<3, 2>>}
MCPayload == <<1, 2, 3>>

DriversInit == KeyboardInit /\ Init /\ driver \in {"keyboard", "disk"}

KeyboardStep == driver = "keyboard" /\ KeyboardNext /\ UNCHANGED <<vars, driver>>
DiskStep == driver = "disk" /\ Next /\ UNCHANGED <<keyboardVars, driver>>

\* The fairness of the two specifications, for the driver that runs.
DriversFair ==
  /\ WF_keyboardVars(driver = "keyboard" /\ Reader)
  /\ WF_keyboardVars(driver = "keyboard" /\ TimerInterrupt)
  /\ WF_vars(driver = "disk" /\ Driver)

DriversSpec ==
  DriversInit /\ [][KeyboardStep \/ DiskStep]_<<keyboardVars, vars, driver>> /\ DriversFair
===============================================================================
