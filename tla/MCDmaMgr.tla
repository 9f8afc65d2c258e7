------------------------------ MODULE MCDmaMgr ------------------------------
(* Instances of DmaMgr for TLC: one client, as in the game, and threads that
   load at the same time.                                                    *)
EXTENDS DmaShared

CONSTANTS c1, c2

(* Everything DmaMgr_SendRequest takes: up to three chunks, packed or not, with
   and without a work buffer and an answer queue.                            *)
AllKinds == {k \in [parts : 0 .. 3, packed : BOOLEAN, work : BOOLEAN,
                    reply : BOOLEAN] : k.packed => k.parts > 0}

(* What DmaMgr_RequestSync passes on, for files of at most two chunks. *)
SyncKinds == {k \in AllKinds : k.reply /\ ~k.work /\ k.parts <= 2}

-----------------------------------------------------------------------------
MCSpec == SharedSpec /\ Fairness
=============================================================================
