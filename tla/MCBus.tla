-------------------------------- MODULE MCBus --------------------------------
(* A behaviour is one of either bus, while the other stays as it began. *)
EXTENDS Bus

CONSTANTS a, b, c, x, y, old, new

VARIABLE part    \* "parallel" or "serial"

MCInit ==
    /\ part \in {"parallel", "serial"}
    /\ Init /\ Pi!Init
    /\ part = "parallel" => chip = [n \in Blocks |-> old]

MCNext ==
    \/ part = "parallel" /\ Pi!Next /\ UNCHANGED <<part, vars>>
    \/ part = "serial" /\ Next /\ UNCHANGED <<part, parallel>>

MCSpec == MCInit /\ [][MCNext]_<<part, vars, parallel>>

MCFairSpec == MCSpec /\ Fairness /\ Pi!Fairness
=============================================================================
