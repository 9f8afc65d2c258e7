-------------------------------- MODULE Fault --------------------------------
(***************************************************************************)
(* The fault manager with the sequence of buttons that its screen waits for:  *)
(* Fault_WaitButtonCombo, a loop of its own, returns where FaultMgr has       *)
(* Unlock.                                                                    *)
(***************************************************************************)
EXTENDS FaultMgr, FiniteSets

CONSTANTS Holds, Limit

VARIABLES x, y, held, elapsed, typed, fresh, age, playing

sequence == <<x, y, held, elapsed, typed, fresh, age, playing>>

Combo == INSTANCE FaultCombo

ASSUME ComboAssumption == Combo!ComboAssumption

(* fault.c:380-520: the screen opens for exactly the sequence; see FaultCombo. *)
ComboInv == Combo!ComboInv
=============================================================================
