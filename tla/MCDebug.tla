------------------------------- MODULE MCDebug -------------------------------
(* A behaviour is one of the printer, one of the stacks and their checker whose
   threads run while the list is right, or one of the list alone with calls in
   every order, while the other parts stay as they began.                    *)
EXTENDS Debug, Sequences, TLC

CONSTANTS boot, first, second

VARIABLE part    \* "printer", "stacks" or "list"

(* The boot stack is not painted, of the others one never warns and one warns
   at less than two words.                                                   *)
Spaces == (boot :> -1) @@ (first :> 0) @@ (second :> 2)

(* Two of whole glyphs, and two between. *)
Places == {0, 24, 1, -1}

MCInit ==
    /\ part \in {"printer", "stacks", "list"}
    /\ Init /\ Stack!Init
    /\ part # "printer" => rdp = [mode |-> "other", prim |-> Black]

(* The calls that keep the list right, and at most two stacks of the three in it,
   which are in use while listed; the one not painted is in use all the time. *)
TidyNext ==
    /\ \/ \E e \in Entries : Stack!Register(e) \/ (Stack!IsRegistered(e) /\ Stack!Cleanup(e))
       \/ \E e \in Entries, w \in Stack!Words, paint \in BOOLEAN :
            (~Stack!Painted(e) \/ Stack!IsRegistered(e)) /\ Stack!Use(e, w, paint)
       \/ \E e \in Entries \cup {NULL} : Stack!Check(e)
       \/ Stack!ReadWord \/ Stack!Judge
    /\ Stack!ListIsRegistered' /\ Len(registered') <= 2

MCNext ==
    \/ part = "printer" /\ Next /\ UNCHANGED <<part, stacks>>
    \/ part = "stacks" /\ TidyNext /\ UNCHANGED <<part, vars>>
    \/ part = "list" /\ Stack!Next /\ stored' = stored /\ UNCHANGED <<part, vars>>

(* The loop of a tab is left to itself, as in Spec. *)
MCSpec == MCInit /\ [][MCNext]_<<part, vars, stacks>> /\ WF_vars(inTab /\ PutTab)
=============================================================================
