------------------------------- MODULE MCFault -------------------------------
(* A behaviour is one of the threads and the events, or one of the pad and the
   sequence, while the other part stays as it began.                         *)
EXTENDS Fault

CONSTANTS main, pad, idle

VARIABLE part    \* "threads" or "sequence"

ThreeThreads == <<pad, main, idle>>
TwoEligible == {pad, main}

(* Combo!Buttons: its instance takes Holds, so Holds cannot be given through it. *)
PadButtons ==
    {"A", "B", "S", "Z", "L", "R", "up", "down", "left", "right",
     "cup", "cdown", "cleft", "cright"}

(* Up to two buttons at a time, and the chords of the sequence. *)
SomeHolds ==
    {h \in SUBSET PadButtons : Cardinality(h) <= 2}
       \cup {{"L", "R", "Z"}, {"A", "B", "S"}, {"A", "B", "Z"}, {"L", "S", "Z"}}

MCInit ==
    /\ part \in {"threads", "sequence"}
    /\ Init /\ Combo!Init
    /\ part = "sequence" => loaded = {}
    /\ part = "threads" => held = {}

MCNext ==
    \/ part = "threads" /\ Next /\ UNCHANGED <<part, sequence>>
    \/ part = "sequence" /\ Combo!Next /\ UNCHANGED <<part, vars>>

(* A thread that never ran is at no break, and the fault thread has no event. *)
MCSpec == MCInit /\ [][MCNext]_<<part, vars, sequence>> /\ Fairness
=============================================================================
