---------------------------- MODULE BoundedQueues ----------------------------
(***************************************************************************)
(* What the components of the game take libultra's message queues for: a     *)
(* sequence of at most Count messages, to which messages are added at the    *)
(* end (osSendMesg, events) or in front (osJamMesg), and from which the      *)
(* first is taken (osRecvMesg).                                              *)
(***************************************************************************)
EXTENDS Integers, Sequences

CONSTANTS Queues, Count, Msgs

VARIABLE contents

Init == contents = [q \in Queues |-> <<>>]

Add(q, s) ==
    /\ Len(contents[q]) < Count[q]
    /\ contents' = [contents EXCEPT ![q] = s]

Next == \E q \in Queues :
    \/ \E m \in Msgs : Add(q, Append(contents[q], m)) \/ Add(q, <<m>> \o contents[q])
    \/ contents[q] # <<>> /\ contents' = [contents EXCEPT ![q] = Tail(@)]

Spec == Init /\ [][Next]_contents

=============================================================================
