------------------------------- MODULE MCTimers -------------------------------
(* The timers, while the rest of the video stays as it began. *)
EXTENDS Vi

MCInit ==
    /\ Init /\ Editor!Init /\ Clock!Init

MCNext == Clock!Next /\ UNCHANGED <<vars, editor>>

MCSpec == MCInit /\ [][MCNext]_<<vars, editor, timers>> /\ Clock!Fairness
=============================================================================
