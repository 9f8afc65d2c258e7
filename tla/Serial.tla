-------------------------------- MODULE Serial --------------------------------
(***************************************************************************)
(* The serial interface of libultra between the controllers and the EEPROM:   *)
(* the access token (io/siacs.c), the DMAs to and from the PIF, the last      *)
(* command, which saves osContStartReadData and osContStartQuery from sending *)
(* the PIF what it already has, and the calls of the two threads that share   *)
(* all this.  Both wait for the end of a DMA on one queue, of one message,    *)
(* which the pad manager lends out (src/main/7D140.c).                       *)
(*                                                                         *)
(* Each DMA moves the whole RAM of the PIF.  What is read is the result of    *)
(* the command there, which is executed at that time.                        *)
(***************************************************************************)
EXTENDS Integers

CONSTANTS
    Blocks, Data,       \* of the EEPROM
    None, Ok, Failed, Junk,
    Probe,              \* the call of osEepromProbe
    MayFail             \* the EEPROM may fail to answer

Threads == {"pad", "eep"}
Get == [op : {"get"}, block : Blocks]
Put == [op : {"put"}, block : Blocks, data : Data]
Buttons == [op |-> "buttons"]
Query == [op |-> "query"]
Status == [op |-> "status"]
Commands == Get \cup Put \cup {Buttons, Query, Status}

ASSUME SerialAssumption ==
    /\ {None, Ok, Failed, Junk, Probe} \cap (Data \cup Commands) = {}
    /\ Ok # Failed /\ None \notin {Ok, Failed, Junk, Probe} /\ Junk \notin {Ok, Failed}
    /\ Probe \notin Get \cup Put /\ None \notin Threads
    /\ MayFail \in BOOLEAN

VARIABLES
    lock,       \* who has the queue of the pad manager
    token,      \* messages in __osSiAccessQueue, which holds one
    event,      \* the queue: None, or whose DMA the message there is of
    si,         \* the DMA under way: by whom and which way
    pif,        \* the command in the RAM of the PIF
    ram,        \* __osContPifRam and __osEepPifRam: a command, later its result
    lastCmd,    \* __osContLastCmd: the op of a command
    chip,       \* the blocks of the EEPROM
    busy,       \* it is still writing
    pc,         \* pc[t]: where thread t is
    task,       \* task[t]: its call
    phase,      \* of the EEPROM thread: "status", "again", "poll" or "command"
    answer,     \* what the call of the EEPROM thread returns
    clash       \* history: a DMA was not started, or a message not of the waiter's

vars == <<lock, token, event, si, pif, ram, lastCmd, chip, busy, pc, task, phase,
          answer, clash>>

hardware == <<pif, chip, busy>>
call == <<task, phase, answer>>

Result(cmd, val) == [cmd |-> cmd, val |-> val]
Packed(cmd) == Result(cmd, None)

\* After osContInit.
Init ==
    /\ lock = None /\ token = 1 /\ event = None /\ si = None
    /\ pif = Query /\ lastCmd = "query"
    /\ ram = [t \in Threads |-> Packed(Query)]
    /\ chip \in [Blocks -> Data] /\ busy = FALSE
    /\ pc = [t \in Threads |-> "idle"] /\ task = [t \in Threads |-> None]
    /\ phase = "status" /\ answer = None
    /\ clash = FALSE

Goto(t, l) == pc' = [pc EXCEPT ![t] = l]

-----------------------------------------------------------------------------
(* The PIF. *)

\* The results a command may have.  An EEPROM that is busy takes no command; if none
\* answers, the status that was packed is still there, and has the bit for busy set.
Results(c) ==
    LET answered == CASE c = Status -> IF busy THEN Junk ELSE Ok
                      [] c \in Get -> IF busy THEN Junk ELSE chip[c.block]
                      [] OTHER -> Ok
    IN  {Result(c, answered)}
          \cup IF MayFail /\ c \in {Status} \cup Get \cup Put THEN {Result(c, Failed)} ELSE {}

\* A DMA ends.  A message that finds the queue full is lost.  A chip whose answer is
\* lost may have stored the block.
DmaEnds ==
    /\ si # None
    /\ IF si.dir = "write"
       THEN pif' = ram[si.by].cmd /\ UNCHANGED <<ram, chip, busy>>
       ELSE \E r \in Results(pif) :
              /\ ram' = [ram EXCEPT ![si.by] = r]
              /\ \/ /\ pif \in Put /\ ~busy
                    /\ chip' = [chip EXCEPT ![pif.block] = pif.data] /\ busy' = TRUE
                 \/ /\ ~(pif \in Put /\ r.val = Ok /\ ~busy)
                    /\ UNCHANGED <<chip, busy>>
              /\ UNCHANGED pif
    /\ event' = IF event = None THEN si.by ELSE event
    /\ si' = None
    /\ UNCHANGED <<lock, token, lastCmd, pc, call, clash>>

ChipDone ==
    /\ busy
    /\ busy' = FALSE
    /\ UNCHANGED <<lock, token, event, si, pif, ram, lastCmd, chip, pc, call, clash>>

\* __osSiRawStartDma: whoever finds the interface busy gets -1 and goes on.
StartDma(t, dir) ==
    /\ si' = IF si = None THEN [by |-> t, dir |-> dir] ELSE si
    /\ clash' = (clash \/ si # None)

\* osRecvMesg
TakeEvent(t) ==
    /\ event # None
    /\ event' = None
    /\ clash' = (clash \/ event # t)

-----------------------------------------------------------------------------
(* What both threads do. *)

\* Variant: nobody asks the pad manager.
TakeNoLock(t) ==
    /\ pc[t] = "lock"
    /\ Goto(t, "access")
    /\ UNCHANGED <<lock, token, event, si, hardware, ram, lastCmd, call, clash>>

\* func_800744B0, func_8007451C
TakeLock(t) ==
    /\ pc[t] = "lock" /\ lock = None
    /\ lock' = t
    /\ Goto(t, "access")
    /\ UNCHANGED <<token, event, si, hardware, ram, lastCmd, call, clash>>

Unlock(t) ==
    /\ pc[t] = "unlock"
    /\ lock' = None
    /\ Goto(t, "idle")
    /\ task' = [task EXCEPT ![t] = None]
    /\ answer' = IF t = "eep" THEN None ELSE answer
    /\ UNCHANGED <<token, event, si, hardware, ram, lastCmd, phase, clash>>

\* __osSiGetAccess, __osSiRelAccess.  osContStartReadData and osContStartQuery send
\* their command unless it was the last one, as far as they know.
GetAccess(t) ==
    /\ pc[t] = "access" /\ token = 1
    /\ token' = 0
    /\ Goto(t, IF t = "pad" /\ lastCmd = task[t].op THEN "fetch" ELSE "send")
    /\ UNCHANGED <<lock, event, si, hardware, ram, lastCmd, call, clash>>

RelAccess(t) ==
    /\ pc[t] = "release"
    /\ token' = 1
    /\ Goto(t, IF t = "pad" THEN "fetched" ELSE "unlock")
    /\ UNCHANGED <<lock, event, si, hardware, ram, lastCmd, call, clash>>

\* The command of the DMAs that t is about to start.
Command(t) == IF t = "pad" \/ phase = "command" THEN task[t] ELSE Status

\* The command is packed and sent to the PIF.
Send(t) ==
    /\ pc[t] = "send"
    /\ ram' = [ram EXCEPT ![t] = Packed(Command(t))]
    /\ StartDma(t, "write")
    /\ Goto(t, "sent")
    /\ UNCHANGED <<lock, token, event, hardware, lastCmd, call>>

\* __osEepStatus is the one that notes its command before its result.
Sent(t) ==
    /\ pc[t] = "sent"
    /\ TakeEvent(t)
    /\ lastCmd' = IF Command(t) = Status THEN "query" ELSE lastCmd
    /\ Goto(t, "fetch")
    /\ UNCHANGED <<lock, token, si, hardware, ram, call>>

\* Its result is read; osContStartReadData leaves it at that and returns.
Fetch(t) ==
    /\ pc[t] = "fetch"
    /\ StartDma(t, "read")
    /\ lastCmd' = IF Command(t) = Status THEN lastCmd ELSE Command(t).op
    /\ Goto(t, IF t = "pad" THEN "release" ELSE "fetched")
    /\ UNCHANGED <<lock, token, event, hardware, ram, call>>

-----------------------------------------------------------------------------
(* The pad manager: at each retrace it reads the buttons, and PadSetup_Init asks
   what the controllers are when osContInit was called before.               *)

PadCall(c) ==
    /\ pc["pad"] = "idle"
    /\ task' = [task EXCEPT !["pad"] = c]
    /\ ram' = [ram EXCEPT !["pad"].val = None]
    /\ Goto("pad", "lock")
    /\ UNCHANGED <<lock, token, event, si, hardware, lastCmd, phase, answer, clash>>

\* osRecvMesg, then osContGetReadData or osContGetQuery.
PadFetched ==
    /\ pc["pad"] = "fetched"
    /\ TakeEvent("pad")
    /\ Goto("pad", "unlock")
    /\ UNCHANGED <<lock, token, si, hardware, ram, lastCmd, call>>

-----------------------------------------------------------------------------
(* The EEPROM manager. *)

EepCall(c) ==
    /\ pc["eep"] = "idle"
    /\ task' = [task EXCEPT !["eep"] = c]
    /\ phase' = "status"
    /\ Goto("eep", "lock")
    /\ UNCHANGED <<lock, token, event, si, hardware, ram, lastCmd, answer, clash>>

Fetched ==
    /\ pc["eep"] = "fetched"
    /\ TakeEvent("eep")
    /\ UNCHANGED <<lock, token, si, hardware, ram, lastCmd, task>>

Got == ram["eep"].val

\* The status once more: osEepromWrite of this version asks twice, whatever comes.
StatusAgain ==
    /\ Fetched /\ phase = "status" /\ task["eep"] \in Put
    /\ phase' = "again"
    /\ Goto("eep", "send")
    /\ UNCHANGED answer

Checking == phase = "again" \/ (phase = "status" /\ task["eep"] \notin Put)

\* Variant: the token is kept.
RefusedAtOnce ==
    /\ Fetched /\ Checking /\ Got = Failed
    /\ answer' = Failed
    /\ Goto("eep", "unlock")
    /\ UNCHANGED phase

Refused ==
    /\ Fetched /\ Checking /\ Got = Failed
    /\ answer' = Failed
    /\ Goto("eep", "release")
    /\ UNCHANGED phase

Probed ==
    /\ Fetched /\ Checking /\ Got # Failed /\ task["eep"] = Probe
    /\ answer' = Ok
    /\ Goto("eep", "release")
    /\ UNCHANGED phase

\* while (sdata.status & CONT_EEPROM_BUSY): a status that failed looks busy.
StillBusy ==
    /\ Fetched /\ task["eep"] # Probe
    /\ \/ Checking /\ Got = Junk
       \/ phase = "poll" /\ Got \in {Junk, Failed}
    /\ phase' = "poll"
    /\ Goto("eep", "send")
    /\ UNCHANGED answer

\* Variant: the status is not looked at.
ReadyOrNot ==
    /\ Fetched /\ task["eep"] # Probe
    /\ (Checking /\ Got # Failed) \/ phase = "poll"
    /\ phase' = "command"
    /\ Goto("eep", "send")
    /\ UNCHANGED answer

Ready ==
    /\ Fetched /\ task["eep"] # Probe
    /\ Checking \/ phase = "poll"
    /\ Got = Ok
    /\ phase' = "command"
    /\ Goto("eep", "send")
    /\ UNCHANGED answer

Executed ==
    /\ Fetched /\ phase = "command"
    /\ answer' = Got
    /\ Goto("eep", "release")
    /\ UNCHANGED phase

Step(t) ==
    \/ TakeLock(t) \/ GetAccess(t) \/ Send(t) \/ Sent(t) \/ Fetch(t) \/ RelAccess(t)
    \/ Unlock(t)
    \/ t = "pad" /\ PadFetched
    \/ t = "eep" /\ (\/ StatusAgain \/ Refused \/ Probed \/ StillBusy \/ Ready
                     \/ Executed)

Next ==
    \/ \E c \in {Buttons, Query} : PadCall(c)
    \/ \E c \in {Probe} \cup Get \cup Put : EepCall(c)
    \/ \E t \in Threads : Step(t)
    \/ DmaEnds \/ ChipDone

Spec == Init /\ [][Next]_vars

EepromAnswers ==
    DmaEnds /\ si = [by |-> "eep", dir |-> "read"] /\ ram'["eep"].val # Failed

\* Threads run, DMAs and writes of the chip end, a chip that is asked again and again
\* answers at last, and the pad manager, which is idle until the next retrace, lets
\* the other thread have its queue in between.
Fairness ==
    /\ WF_vars(DmaEnds) /\ SF_vars(EepromAnswers) /\ WF_vars(ChipDone)
    /\ \A t \in Threads : SF_vars(Step(t))

-----------------------------------------------------------------------------
Places == {"idle", "lock", "access", "send", "sent", "fetch", "fetched", "release", "unlock"}

TypeOK ==
    /\ lock \in Threads \cup {None} /\ token \in 0 .. 1
    /\ event \in Threads \cup {None}
    /\ si \in {None} \cup [by : Threads, dir : {"read", "write"}]
    /\ pif \in Commands
    /\ ram \in [Threads -> [cmd : Commands, val : Data \cup {None, Ok, Failed, Junk}]]
    /\ lastCmd \in {"query", "buttons", "get", "put"}
    /\ chip \in [Blocks -> Data] /\ busy \in BOOLEAN
    /\ pc \in [Threads -> Places]
    /\ task \in [Threads -> {None, Probe, Buttons, Query} \cup Get \cup Put]
    /\ phase \in {"status", "again", "poll", "command"}
    /\ answer \in Data \cup {None, Ok, Failed, Junk}
    /\ clash \in BOOLEAN

\* sirawdma.c:63-65, contreaddata.c:17-21: no DMA is refused, which nobody would
\* notice, and nobody takes the message for a DMA of the other thread for his own;
\* although the token is given back while the last DMA of the pad is under way.
NoClash == TypeOK /\ ~clash

\* contreaddata.c:13-19: the PIF is not told to read the buttons if that was its last
\* command; it is, then, whatever the EEPROM was used for, and what the pad manager
\* looks at are buttons of this call.
ButtonsAreButtons ==
    /\ lastCmd = "buttons" /\ token = 1 => pif = Buttons
    /\ pc["pad"] = "unlock" /\ task["pad"] = Buttons
         => ram["pad"] = Result(Buttons, Ok)

Eeprom == INSTANCE EepromChip WITH
    task <- task["eep"],
    answer <- IF pc["eep"] \in {"release", "unlock"} THEN answer ELSE None

SerialInv == NoClash /\ ButtonsAreButtons

\* conteepread.c:12-106, conteepwrite.c:8-113: whatever the pad manager does
\* meanwhile, and however long the chip takes, a block is read and written as asked.
EepromSpec == Eeprom!Spec

\* conteepwrite.c:87-89: the loop that waits for the chip is left, and neither thread
\* keeps the other from the interface: whoever calls returns.
SerialReturns == \A t \in Threads : pc[t] # "idle" ~> pc[t] = "idle"

\* contquery.c:5-8: "Starts to read the values for SI device status and type which are
\* connected to the controller port".  Not after osEepromProbe: conteepwrite.c:179.
QueryIsOfControllers ==
    pc["pad"] = "unlock" /\ task["pad"] = Query => ram["pad"].cmd = Query

===============================================================================
