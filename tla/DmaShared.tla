------------------------------ MODULE DmaShared ------------------------------
(***************************************************************************)
(* DmaMgr with several clients at the same time: the code was written for    *)
(* one, and pairs tokens of finished commands with requests by their order   *)
(* alone.  How well that works depends on the longest of the files.          *)
(***************************************************************************)
EXTENDS DmaMgr

CONSTANT Lengths      \* the lengths of the longest file, in chunks

VARIABLE longest      \* the most chunks any of the files has

SharedInit ==
    /\ Init
    /\ longest \in Lengths
    /\ \A c \in Clients : req[c].kind.parts <= longest

(* A size that is read before the header arrived is that of an older file: it
   is bounded like the others.                                               *)
SharedNext ==
    /\ Next
    /\ \A c \in Clients : req'[c].kind.parts <= longest /\ req'[c].parts <= longest
    /\ UNCHANGED longest

SharedSpec == SharedInit /\ [][SharedNext]_<<vars, longest>>

-----------------------------------------------------------------------------
(* dmamgr.c:94-97, 133-137: the manager pairs tokens of finished commands with
   requests by their order alone.  With files of one chunk at most, several
   threads can share it: tokens and requests stay in step, and the queues that
   just fit the threads lose no command.  Longer files can be taken for one
   another, and even then every work buffer is freed.                        *)
QueuesInStep ==
    /\ TypeOK /\ WorkBufferFreed
    /\ longest = 1 => OneTokenPerRequest /\ CommandFits

(* dmamgr.c:108-110, 140-148: with files of one chunk at most the call of every
   thread that asks returns, whatever the others ask for.                    *)
SharedAnswered == longest = 1 => EveryRequestAnswered
=============================================================================
