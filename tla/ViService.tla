------------------------------ MODULE ViService ------------------------------
(***************************************************************************)
(* What the video manager promises: whatever was asked for last is on the     *)
(* screen from the next retrace on, all of it at once, and stays asked for    *)
(* until something else is.                                                  *)
(***************************************************************************)
CONSTANT Pictures   \* what the registers of the video interface may hold

VARIABLES asked, shown

Init == asked \in Pictures /\ shown = asked

Ask ==
    /\ asked' \in Pictures
    /\ UNCHANGED shown

Retrace ==
    /\ shown' = asked
    /\ UNCHANGED asked

Next == Ask \/ Retrace

Spec == Init /\ [][Next]_<<asked, shown>>

==============================================================================
