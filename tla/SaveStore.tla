------------------------------ MODULE SaveStore ------------------------------
(***************************************************************************)
(* What the save functions of src/main/O2/65520.c and the EEPROM manager of *)
(* src/main/eepmgr.c promise together: one value, which a load finds and    *)
(* which is kept while the power is off, replaced by a save that completes. *)
(* A save that is cut short, by an error or by the power switch, leaves the *)
(* old or the new value.  After an error what a load finds and what is kept *)
(* may differ, even when a later save completes.  When a second save is cut *)
(* short nothing is promised: there may be no value left, or an earlier one. *)
(***************************************************************************)
EXTENDS Naturals

CONSTANTS Data, NoData

VARIABLES
    found,    \* the value a load finds
    kept,     \* the value that is there after the power was off
    saving,   \* the value that is being written, or NoData
    refused,  \* the value of the last save that failed
    doubt,    \* whether some of it may be there still, behind the back of a load
    cuts,     \* saves cut short since one that left no doubt, 2 for more
    result    \* what the last load returned

vars == <<found, kept, saving, refused, doubt, cuts, result>>

Init ==
    /\ kept \in Data
    /\ found = kept /\ refused = kept
    /\ saving = NoData /\ result = NoData
    /\ doubt = FALSE /\ cuts = 0

Anything == Data \cup {NoData}

(* Once a save was cut short, what the next one replaces is not known. *)
Begin(d) ==
    /\ saving = NoData
    /\ saving' = d
    /\ IF cuts = 0 THEN UNCHANGED <<found, kept>> ELSE found' = NoData /\ kept' = NoData
    /\ UNCHANGED <<refused, doubt, cuts, result>>

(* What the refused save left is written over. *)
Mend ==
    /\ saving # NoData
    /\ doubt' = FALSE
    /\ UNCHANGED <<found, kept, saving, refused, cuts, result>>

Complete ==
    /\ saving # NoData
    /\ saving' = NoData
    /\ found' = saving
    /\ IF doubt
       THEN /\ kept' \in IF cuts = 1 THEN {saving, refused} ELSE Anything
            /\ UNCHANGED <<refused, cuts>>
       ELSE kept' = saving /\ refused' = saving /\ cuts' = 0
    /\ UNCHANGED <<doubt, result>>

CutShort ==
    /\ saving # NoData
    /\ saving' = NoData
    /\ cuts' = IF cuts = 0 THEN 1 ELSE 2
    /\ kept' \in IF cuts = 0 THEN {kept, saving} ELSE Anything

Refuse ==
    /\ CutShort
    /\ found' \in IF cuts = 0 THEN {found, saving} ELSE Anything
    /\ refused' = saving
    /\ doubt' = TRUE
    /\ UNCHANGED result

(* The power is cut, and with it goes what was loaded. *)
PowerOff ==
    /\ \/ CutShort
       \/ saving = NoData /\ UNCHANGED <<saving, cuts, kept>>
    /\ found' = kept'
    /\ doubt' = FALSE
    /\ result' = NoData
    /\ UNCHANGED refused

(* A load that fails returns nothing, too. *)
Load ==
    /\ saving = NoData
    /\ result' \in {found, NoData}
    /\ UNCHANGED <<found, kept, saving, refused, doubt, cuts>>

Next ==
    \/ \E d \in Data : Begin(d)
    \/ Mend \/ Complete \/ Refuse \/ PowerOff \/ Load

Spec == Init /\ [][Next]_vars
=============================================================================
