------------------------------ MODULE EepromChip ------------------------------
(***************************************************************************)
(* What osEepromRead, osEepromWrite and osEepromProbe promise the EEPROM      *)
(* manager: a block that was read is the one asked for, one that was written  *)
(* is on the chip when the call returns, and a call may fail, a write also    *)
(* after the block was stored.  EepMgr takes the chip for no better.          *)
(***************************************************************************)
CONSTANTS Blocks, Data, Probe, None, Ok, Failed

Tasks == {Probe} \cup [op : {"get"}, block : Blocks]
                 \cup [op : {"put"}, block : Blocks, data : Data]

VARIABLES chip, task, answer

Init == chip \in [Blocks -> Data] /\ task = None /\ answer = None

Ask(t) ==
    /\ task = None
    /\ task' = t
    /\ UNCHANGED <<chip, answer>>

Store ==
    /\ task \in Tasks \ {Probe} /\ task.op = "put" /\ answer = None
    /\ chip' = [chip EXCEPT ![task.block] = task.data]
    /\ UNCHANGED <<task, answer>>

IsAnswer(a) ==
    \/ a = Failed
    \/ task = Probe /\ a = Ok
    \/ task # Probe /\ task.op = "get" /\ a = chip[task.block]
    \/ task # Probe /\ task.op = "put" /\ a = Ok /\ chip[task.block] = task.data

Answer ==
    /\ task # None /\ answer = None
    /\ answer' \in Data \cup {Ok, Failed} /\ IsAnswer(answer')
    /\ UNCHANGED <<chip, task>>

Return ==
    /\ answer # None
    /\ task' = None /\ answer' = None
    /\ UNCHANGED chip

Next == Store \/ Answer \/ Return \/ \E t \in Tasks : Ask(t)

Spec == Init /\ [][Next]_<<chip, task, answer>>

===============================================================================
