------------------------------ MODULE MCEepMgr ------------------------------
(* An instance of EepMgr for TLC. *)
EXTENDS EepMgr

CONSTANTS torn, none

(* Copies of three blocks: two of data, and one with the checksum, which is as
   good as the data themselves.  The values share blocks, so that a save
   rewrites only some of them.                                               *)
TwoValues == {<<"a", "a">>, <<"a", "b">>}

Copies(values) == [d \in values |-> [b \in 0 .. 2 |-> IF b = 2 THEN d ELSE <<d[b + 1]>>]]
TwoContents == Copies(TwoValues)
=============================================================================
