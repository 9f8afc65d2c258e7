------------------------------ MODULE DmaService ------------------------------
(***************************************************************************)
(* What src/main/dmamgr.c promises to a caller of DmaMgr_RequestSync, free  *)
(* of queues, phases and chunks: the buffer holds the data of the file by   *)
(* the time the call returns.                                               *)
(***************************************************************************)
CONSTANT Clients

VARIABLES
    state,   \* state[c]: "idle", "asked" or "answered"
    buffer   \* buffer[c]: "old" until the data of the request are in it

vars == <<state, buffer>>

Init ==
    /\ state = [c \in Clients |-> "idle"]
    /\ buffer = [c \in Clients |-> "old"]

Ask(c) ==
    /\ state[c] = "idle"
    /\ state' = [state EXCEPT ![c] = "asked"]
    /\ buffer' = [buffer EXCEPT ![c] = "old"]

Serve(c) ==
    /\ state[c] = "asked"
    /\ state' = [state EXCEPT ![c] = "answered"]
    /\ buffer' = [buffer EXCEPT ![c] = "data"]

Return(c) ==
    /\ state[c] = "answered"
    /\ state' = [state EXCEPT ![c] = "idle"]
    /\ UNCHANGED buffer

Next == \E c \in Clients : Ask(c) \/ Serve(c) \/ Return(c)

Spec == Init /\ [][Next]_vars

=============================================================================
