------------------------------- MODULE PiService -------------------------------
(***************************************************************************)
(* What the PI manager promises those who start DMAs: commands are executed   *)
(* one at a time, in the order of the queue, and each is answered once it is  *)
(* done.  It is what the DMA manager of the game builds on.                   *)
(***************************************************************************)
EXTENDS Integers, Sequences

CONSTANTS Users, None, CmdCap

VARIABLES waiting, serving, answered

Init == waiting = <<>> /\ serving = None /\ answered = {}

\* At the end of the queue, or in front.
Ask(u) ==
    /\ Len(waiting) < CmdCap
    /\ waiting' \in {Append(waiting, u), <<u>> \o waiting}
    /\ UNCHANGED <<serving, answered>>

Serve ==
    /\ serving = None /\ waiting # <<>>
    /\ serving' = Head(waiting) /\ waiting' = Tail(waiting)
    /\ UNCHANGED answered

Answer ==
    /\ serving \in Users
    /\ serving' = None
    /\ answered' = answered \cup {serving}
    /\ UNCHANGED waiting

Take(u) ==
    /\ u \in answered
    /\ answered' = answered \ {u}
    /\ UNCHANGED <<waiting, serving>>

Next == Serve \/ Answer \/ \E u \in Users : Ask(u) \/ Take(u)

Spec == Init /\ [][Next]_<<waiting, serving, answered>>

=============================================================================
