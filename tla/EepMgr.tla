------------------------------- MODULE EepMgr -------------------------------
(***************************************************************************)
(* Saving and loading: the main thread in func_80069A80 (save) and          *)
(* func_80069B34 (load) of src/main/O2/65520.c, and the EEPROM manager      *)
(* thread of src/main/eepmgr.c that serves it from a cache.  The save file  *)
(* is kept twice, one copy behind the other; each copy ends in a block with *)
(* a checksum and a magic number.  The power may fail at any time: then     *)
(* only the EEPROM keeps its contents, and the block being written may hold *)
(* anything.                                                                *)
(*                                                                         *)
(* The type given to eepmgr_Create is always EEPROM_TYPE_16K, so the        *)
(* branches for type 0 of the two handlers are left out.                    *)
(***************************************************************************)
EXTENDS Integers, Sequences

CONSTANTS
    Data,        \* the values that are saved
    NumBlocks,   \* blocks in one copy, 128 in the code
    Contents,    \* Contents[d]: the blocks of a copy that holds d
    Torn,        \* a block whose write was interrupted
    NoData,      \* no valid copy, or no result
    Faults       \* what may go wrong: "read", "write", "probe", "power"

Copy == 0 .. NumBlocks - 1
Blocks == 0 .. 2 * NumBlocks - 1
BlockValues == {Torn} \cup UNION {{Contents[d][b] : b \in Copy} : d \in Data}

(* The last block of a copy holds the checksum: it tells any two values apart,
   which takes the checksum of func_800699BC for one without collisions.     *)
ASSUME EepAssumption ==
    /\ NumBlocks \in Nat \ {0}
    /\ DOMAIN Contents = Data
    /\ \A d \in Data : DOMAIN Contents[d] = Copy
    /\ \A d, e \in Data : Contents[d][NumBlocks - 1] = Contents[e][NumBlocks - 1]
                             => d = e
    /\ \A d \in Data, b \in Copy : Contents[d][b] # Torn
    /\ NoData \notin Data
    /\ Faults \subseteq {"read", "write", "probe", "power"}

READ == 8
WRITE == 9

VARIABLES
    eeprom,    \* the device
    cache,     \* sEepCache
    cached,    \* eepmgr->cached
    buff,      \* sEepBuff, both copies
    slot,      \* type of the only request, eepmgr->unk048: 0 when it is free
    cmdq,      \* eepmgr->unk014, capacity 4
    replyq,    \* eepmgr->unk02C, capacity 1
    epc,       \* where the EEPROM thread is
    blk,       \* the block its loop has come to, 0 outside of a loop
    status,    \* the status it is about to return
    mpc,       \* where the main thread is
    result,    \* what the last call returned to the main thread
    committed, \* history: the last value that was written completely
    attempt,   \* history: the value of the last write command
    refused,   \* history: the value of the last save that was answered with an error
    doubtful,  \* history: the blocks whose last write was answered with an error
    cuts       \* history: saves cut short since one left nothing in doubt, 2 for more

vars == <<eeprom, cache, cached, buff, slot, cmdq, replyq, epc, blk, status, mpc,
          result, committed, attempt, refused, doubtful, cuts>>

history == <<committed, attempt, refused, doubtful, cuts>>
queues == <<slot, cmdq, replyq>>
device == <<eeprom, cache, cached>>

(* sEepBuff[0] filled from d, and sEepBuff[1] = sEepBuff[0]. *)
TwoCopies(d) ==
    [b \in Blocks |-> Contents[d][IF b < NumBlocks THEN b ELSE b - NumBlocks]]

FirstCopyHolds(e, d) == \A b \in Copy : e[b] = Contents[d][b]
SecondCopyHolds(e, d) == \A b \in Copy : e[NumBlocks + b] = Contents[d][b]

(* What func_80069B34 makes of two copies: the first one with a good checksum
   and magic number, else the second, else nothing.                          *)
Decode(e) ==
    IF \E d \in Data : FirstCopyHolds(e, d)
    THEN CHOOSE d \in Data : FirstCopyHolds(e, d)
    ELSE IF \E d \in Data : SecondCopyHolds(e, d)
    THEN CHOOSE d \in Data : SecondCopyHolds(e, d)
    ELSE NoData

Lost == [b \in Blocks |-> Torn]

Init ==
    /\ committed \in Data
    /\ eeprom = TwoCopies(committed)
    /\ cache = Lost /\ cached = FALSE /\ buff = Lost
    /\ slot = 0 /\ cmdq = <<>> /\ replyq = <<>>
    /\ epc = "off" /\ blk = 0 /\ status = 0
    /\ mpc = "off" /\ result = NoData
    /\ attempt = committed /\ refused = committed /\ doubtful = {} /\ cuts = 0

-----------------------------------------------------------------------------
(* The main thread. *)

(* func_80069C10: eepmgr_Create clears the manager and starts its thread. *)
Create ==
    /\ mpc = "off"
    /\ mpc' = "boot"
    /\ epc' = "probe"
    /\ cached' = FALSE
    /\ slot' = 0 /\ cmdq' = <<>> /\ replyq' = <<>>
    /\ UNCHANGED <<eeprom, cache, buff, blk, status, result, history>>

(* eepmgr_SendRead and eepmgr_SendWrite: the caller that finds the one request
   in use loops for ever.                                                    *)
Send(type, call) ==
    /\ Len(cmdq) < 4
    /\ IF slot = 0
       THEN /\ slot' = type
            /\ cmdq' = Append(cmdq, type)
            /\ mpc' = call
       ELSE /\ mpc' = "spinning"
            /\ UNCHANGED <<slot, cmdq>>
    /\ UNCHANGED replyq

(* The first thing func_80069964 does after creating the manager is to load. *)
Load ==
    /\ mpc \in {"boot", "idle"}
    /\ Send(READ, "loading")
    /\ UNCHANGED <<device, buff, epc, blk, status, result, history>>

Save(d) ==
    /\ mpc = "idle"
    /\ buff' = TwoCopies(d)
    /\ Send(WRITE, "saving")
    /\ UNCHANGED <<device, epc, blk, status, result, history>>

(* func_8007D508, and what func_80069A80 and func_80069B34 do with the status.
   Nobody can tell a read error from an EEPROM without a valid copy.         *)
RecvReply ==
    /\ mpc \in {"loading", "saving"}
    /\ replyq # <<>>
    /\ replyq' = Tail(replyq)
    /\ slot' = 0
    /\ result' = IF mpc = "loading"
                 THEN IF Head(replyq) = 0 THEN Decode(buff) ELSE NoData
                 ELSE result
    /\ mpc' = "idle"
    /\ UNCHANGED <<device, buff, cmdq, epc, blk, status, history>>

-----------------------------------------------------------------------------
(* The EEPROM manager thread. *)

(* eepmgr_Probe: it loops for ever if the EEPROM is not of the type it was told. *)
Probe ==
    /\ epc = "probe"
    /\ epc' \in {"receive"} \cup (IF "probe" \in Faults THEN {"spinning"} ELSE {})
    /\ UNCHANGED <<device, buff, queues, blk, status, mpc, result, history>>

(* A read command: eepmgr_HandleRead, from the cache if it is filled. *)
TakeRead ==
    /\ epc = "receive"
    /\ cmdq # <<>>
    /\ slot = READ
    /\ cmdq' = Tail(cmdq)
    /\ blk' = 0
    /\ status' = 0
    /\ IF cached THEN buff' = cache /\ epc' = "reply"
                 ELSE epc' = "reading" /\ UNCHANGED buff
    /\ UNCHANGED <<device, slot, replyq, mpc, result, history>>

(* Variant: a refused write is not answered. *)
TakeWriteSilent ==
    /\ epc = "receive"
    /\ cmdq # <<>>
    /\ slot = WRITE
    /\ cmdq' = Tail(cmdq)
    /\ blk' = 0
    /\ status' = 0
    /\ IF cached THEN epc' = "writing" /\ attempt' = Decode(buff)
                 ELSE epc' = "loop" /\ UNCHANGED attempt
    /\ UNCHANGED <<device, buff, slot, replyq, mpc, result, committed, refused, doubtful,
                   cuts>>

(* A write command: eepmgr_HandleWrite refuses it if there is no cache to
   compare with.                                                             *)
TakeWrite ==
    /\ epc = "receive"
    /\ cmdq # <<>>
    /\ slot = WRITE
    /\ cmdq' = Tail(cmdq)
    /\ blk' = 0
    /\ IF cached THEN /\ epc' = "writing"
                      /\ status' = 0
                      /\ attempt' = Decode(buff)
                 ELSE /\ epc' = "reply"
                      /\ status' = -1
                      /\ UNCHANGED attempt
    /\ UNCHANGED <<device, buff, slot, replyq, mpc, result, committed, refused, doubtful,
                   cuts>>

ReadBlock ==
    /\ epc = "reading"
    /\ blk \in Blocks
    /\ cache' = [cache EXCEPT ![blk] = eeprom[blk]]
    /\ blk' = blk + 1
    /\ UNCHANGED <<eeprom, cached, buff, queues, epc, status, mpc, result, history>>

ReadFails ==
    /\ "read" \in Faults
    /\ epc = "reading"
    /\ blk \in Blocks
    /\ status' = -1
    /\ epc' = "reply"
    /\ blk' = 0
    /\ UNCHANGED <<device, buff, queues, mpc, result, history>>

(* The loop of eepmgr_HandleRead is over. *)
ReadAll ==
    /\ epc = "reading"
    /\ blk \notin Blocks
    /\ cached' = TRUE
    /\ buff' = cache
    /\ epc' = "reply"
    /\ blk' = 0
    /\ UNCHANGED <<eeprom, cache, queues, status, mpc, result, history>>

SkipBlock ==
    /\ epc = "writing"
    /\ blk \in Blocks
    /\ buff[blk] = cache[blk]
    /\ blk' = blk + 1
    /\ UNCHANGED <<device, buff, queues, epc, status, mpc, result, history>>

(* Variant: the cache is not kept up to date. *)
WriteBlockUncached ==
    /\ epc = "writing"
    /\ blk \in Blocks
    /\ buff[blk] # cache[blk]
    /\ eeprom' = [eeprom EXCEPT ![blk] = buff[blk]]
    /\ blk' = blk + 1
    /\ UNCHANGED <<cache, cached, buff, queues, epc, status, mpc, result, history>>

(* Variant: both copies are written side by side. *)
WriteBlockPaired ==
    /\ epc = "writing"
    /\ blk \in Blocks
    /\ buff[blk] # cache[blk]
    /\ LET pair == {b \in Blocks : b % NumBlocks = blk % NumBlocks}
       IN  /\ eeprom' = [b \in Blocks |-> IF b \in pair THEN buff[b] ELSE eeprom[b]]
           /\ cache' = [b \in Blocks |-> IF b \in pair THEN buff[b] ELSE cache[b]]
    /\ blk' = blk + 1
    /\ UNCHANGED <<cached, buff, queues, epc, status, mpc, result, history>>

(* eepmgr_Write succeeds, and only then the cache is updated. *)
WriteBlock ==
    /\ epc = "writing"
    /\ blk \in Blocks
    /\ buff[blk] # cache[blk]
    /\ eeprom' = [eeprom EXCEPT ![blk] = buff[blk]]
    /\ cache' = [cache EXCEPT ![blk] = buff[blk]]
    /\ doubtful' = doubtful \ {blk}
    /\ blk' = blk + 1
    /\ UNCHANGED <<cached, buff, queues, epc, status, mpc, result, committed, attempt,
                   refused, cuts>>

OneMore(n) == IF n = 2 THEN 2 ELSE n + 1

(* Variant: a block that could not be written is passed over. *)
WriteFailsOn ==
    /\ "write" \in Faults
    /\ epc = "writing"
    /\ blk \in Blocks
    /\ buff[blk] # cache[blk]
    /\ blk' = blk + 1
    /\ UNCHANGED <<device, buff, queues, epc, status, mpc, result, history>>

(* A write is answered with an error: the rest of the blocks are not tried.  The
   answer is read after the command was sent (conteepwrite.c:94-109), so the
   block holds what it held, what it should, or neither; the cache is neither
   updated nor dropped.                                                      *)
WriteFails ==
    /\ "write" \in Faults
    /\ epc = "writing"
    /\ blk \in Blocks
    /\ buff[blk] # cache[blk]
    /\ \E v \in {eeprom[blk], buff[blk], Torn} : eeprom' = [eeprom EXCEPT ![blk] = v]
    /\ status' = -1
    /\ epc' = "reply"
    /\ blk' = 0
    /\ refused' = attempt
    /\ doubtful' = doubtful \cup {blk}
    /\ cuts' = OneMore(cuts)
    /\ UNCHANGED <<cache, cached, buff, queues, mpc, result, committed, attempt>>

(* The loop of eepmgr_HandleWrite is over.  A block in doubt that agreed with the
   cache was skipped: it is in doubt still.                                  *)
WriteAll ==
    /\ epc = "writing"
    /\ blk \notin Blocks
    /\ epc' = "reply"
    /\ blk' = 0
    /\ committed' = attempt
    /\ IF doubtful = {} THEN cuts' = 0 /\ refused' = attempt
                       ELSE UNCHANGED <<cuts, refused>>
    /\ UNCHANGED <<device, buff, queues, status, mpc, result, attempt, doubtful>>

(* osSendMesg(&eepmgr->unk02C, status, OS_MESG_BLOCK) *)
Reply ==
    /\ epc = "reply"
    /\ Len(replyq) < 1
    /\ replyq' = Append(replyq, status)
    /\ epc' = "loop"
    /\ UNCHANGED <<device, buff, slot, cmdq, blk, status, mpc, result, history>>

(* while (req->type != 4): the request may by now be free, or the next one.
   Nothing in the code sends a request of type 4.                            *)
LoopAgain ==
    /\ epc = "loop"
    /\ slot # 4
    /\ epc' = "receive"
    /\ UNCHANGED <<device, buff, queues, blk, status, mpc, result, history>>

-----------------------------------------------------------------------------
(* The power fails, or the reset button is held: RAM is lost, and the block that
   was being written holds what it held, what it should, or neither.         *)
PowerFails ==
    /\ "power" \in Faults
    /\ mpc # "off"
    /\ IF epc = "writing"
       THEN /\ \/ UNCHANGED eeprom
               \/ /\ blk \in Blocks
                  /\ buff[blk] # cache[blk]
                  /\ \E v \in {buff[blk], Torn} : eeprom' = [eeprom EXCEPT ![blk] = v]
            /\ cuts' = OneMore(cuts)
       ELSE UNCHANGED <<eeprom, cuts>>
    /\ cache' = Lost /\ cached' = FALSE /\ buff' = Lost
    /\ slot' = 0 /\ cmdq' = <<>> /\ replyq' = <<>>
    /\ epc' = "off" /\ blk' = 0 /\ status' = 0
    /\ mpc' = "off" /\ result' = NoData
    /\ doubtful' = {}
    /\ UNCHANGED <<committed, attempt, refused>>

MainThread == Create \/ Load \/ (\E d \in Data : Save(d)) \/ RecvReply

EepThread ==
    \/ Probe \/ TakeRead \/ TakeWrite \/ ReadBlock \/ ReadFails \/ ReadAll
    \/ SkipBlock \/ WriteBlock \/ WriteFails \/ WriteAll \/ Reply \/ LoopAgain

Next == MainThread \/ EepThread \/ PowerFails

Spec == Init /\ [][Next]_vars

(* The EEPROM thread has a higher priority than the main thread and leaves the
   processor only to wait for a message, for the serial interface or for the
   15 ms of a write; the main thread then gets to take the answer.           *)
Fairness == WF_vars(EepThread) /\ WF_vars(RecvReply)

FairSpec == Spec /\ Fairness
-----------------------------------------------------------------------------
TypeOK ==
    /\ eeprom \in [Blocks -> BlockValues]
    /\ cache \in [Blocks -> BlockValues]
    /\ cached \in BOOLEAN
    /\ buff \in [Blocks -> BlockValues]
    /\ slot \in {0, READ, WRITE}
    /\ cmdq \in Seq({READ, WRITE}) /\ Len(cmdq) <= 1
    /\ replyq \in Seq({0, -1}) /\ Len(replyq) <= 1
    /\ epc \in {"off", "probe", "spinning", "receive", "reading", "writing", "reply",
                "loop"}
    /\ blk \in 0 .. 2 * NumBlocks
    /\ status \in {0, -1}
    /\ mpc \in {"off", "boot", "idle", "loading", "saving", "spinning"}
    /\ result \in Data \cup {NoData}
    /\ committed \in Data
    /\ attempt \in Data
    /\ refused \in Data
    /\ doubtful \in SUBSET Blocks
    /\ cuts \in 0 .. 2

(* A filled cache agrees with the device, except for a block whose write was
   answered with an error: loads are answered from it, and a block that differs
   from what the cache says would never be written again.                    *)
CacheCoherent == cached => \A b \in Blocks \ doubtful : cache[b] = eeprom[b]

(* Once a save has completed that left no block in doubt, and until the next one
   begins, both copies on the device hold it.                                *)
BothCopies == cuts = 0 /\ epc # "writing" => eeprom = TwoCopies(committed)

(* The two copies are there so that one survives: at any moment, with the power
   cut now, what can be loaded is the last complete save, the one under way, or
   one that was refused and has left its mark on the device, unless two saves
   were cut short.                                                           *)
Survives == cuts + (IF epc = "writing" THEN 1 ELSE 0) <= 1
               => Decode(eeprom) \in {committed, attempt, refused}

(* The main thread never finds its one request in use. *)
NeverSpins == mpc # "spinning"

(* A call that was made returns, with an error or without (eepmgr.c:267-273),
   unless the power fails or the EEPROM is not the one the code expects.      *)
CallsReturn ==
    mpc \in {"loading", "saving"} ~> mpc \in {"idle", "off"} \/ epc = "spinning"

-----------------------------------------------------------------------------
(* An inductive invariant for Survives. *)

(* The main thread and the EEPROM thread take turns: the request is free, or a
   command is queued, or being served, or its answer is queued.              *)
Turns ==
    /\ mpc = "off" <=> epc = "off"
    /\ mpc \in {"off", "boot", "idle"} =>
         /\ slot = 0 /\ cmdq = <<>> /\ replyq = <<>>
         /\ epc \in {"off", "probe", "spinning", "receive", "loop"}
    /\ mpc \in {"loading", "saving"} =>
         /\ slot = IF mpc = "loading" THEN READ ELSE WRITE
         /\ \/ cmdq = <<slot>> /\ replyq = <<>>
               /\ epc \in {"probe", "spinning", "receive", "loop"}
            \/ /\ cmdq = <<>> /\ replyq = <<>>
               /\ epc \in {IF mpc = "loading" THEN "reading" ELSE "writing", "reply"}
            \/ cmdq = <<>> /\ replyq = <<status>> /\ epc \in {"receive", "loop"}

(* While it writes, the blocks behind the thread's place are as they should be;
   while it reads, they are in the cache.                                    *)
Progress ==
    /\ mpc = "saving" => \E d \in Data : buff = TwoCopies(d)
    /\ epc = "writing" =>
         /\ cached
         /\ buff = TwoCopies(attempt)
         /\ \A b \in Blocks : b < blk => cache[b] = buff[b]
    /\ epc = "reading" => \A b \in Blocks : b < blk => cache[b] = eeprom[b]

(* The device changes from the last complete save to the attempted one block by
   block; a save that is cut short leaves it somewhere on that way.          *)
OnTheWay(k) ==
    /\ \A b \in Blocks : b < k => eeprom[b] = TwoCopies(attempt)[b]
    /\ \A b \in Blocks : b > k => eeprom[b] = TwoCopies(committed)[b]

Device ==
    /\ epc # "writing" /\ cuts = 0 => eeprom = TwoCopies(committed)
    /\ epc # "writing" /\ cuts = 1 => \E k \in Blocks :
         /\ OnTheWay(k)
         /\ eeprom[k] \in {TwoCopies(d)[k] : d \in {committed, attempt, refused}} \cup {Torn}
    /\ epc = "writing" /\ cuts = 0 =>
         /\ OnTheWay(blk)
         /\ blk \in Blocks => eeprom[blk] = TwoCopies(committed)[blk]

(* Blocks are in doubt only while the cache is filled.  As long as one save was cut
   short, at most one is: it holds what the cache says, what it should have held,
   or neither.                                                               *)
InDoubt ==
    /\ doubtful # {} => cached /\ cuts > 0
    /\ cached => mpc # "off" /\ epc # "reading"
    /\ cuts = 0 => refused = committed
    /\ cuts = 1 => \A k \in doubtful :
         /\ doubtful = {k}
         /\ eeprom[k] \in {cache[k], TwoCopies(refused)[k], Torn}

EepInv == TypeOK /\ CacheCoherent /\ NeverSpins /\ Turns /\ Progress /\ Device /\ InDoubt

-----------------------------------------------------------------------------
(* Main thread, EEPROM thread, cache and both copies are a SaveStore.  While a
   write is under way the store still counts as holding the former value.     *)
Saving == epc = "writing"
Former == IF cuts = 0 THEN committed ELSE NoData

Store == INSTANCE SaveStore WITH
    found <- IF Saving THEN Former ELSE Decode(IF cached THEN cache ELSE eeprom),
    kept <- IF Saving THEN Former ELSE Decode(eeprom),
    saving <- IF Saving THEN attempt ELSE NoData,
    doubt <- doubtful # {}

StoreSpec == Store!Spec
=============================================================================
