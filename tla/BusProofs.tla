------------------------------ MODULE BusProofs ------------------------------
(***************************************************************************)
(* The two buses of libultra, for any users, blocks, data and length of the   *)
(* command queue, and an EEPROM that may fail.                                 *)
(*                                                                         *)
(* Serial keeps the EEPROM and the pad manager apart and implements           *)
(* EepromChip.  The invariant, IInv, follows the one queue both wait on: who   *)
(* has it, whose DMA is under way, and which command the PIF has by then.      *)
(*                                                                         *)
(* The PI manager executes and answers each command in its turn, and so       *)
(* implements PiService.  PiInv is inductive as it stands: it follows the      *)
(* token through the manager and the threads that use the bus themselves, and *)
(* each command through its phases.                                            *)
(***************************************************************************)
EXTENDS Bus, SequenceTheorems, TLAPS

Pad == pc["pad"]
Eep == pc["eep"]

(* One thread at a time has the queue of the pad manager, and with it all else. *)
LockInv ==
    /\ lock = "pad" <=> Pad \notin {"idle", "lock"}
    /\ lock = "eep" <=> Eep \notin {"idle", "lock"}

(* The token is out while a command is under way, but for the last DMA of the pad. *)
TokenInv ==
    token = 0 <=> \/ Pad \in {"send", "sent", "fetch", "release"}
                  \/ Eep \in {"send", "sent", "fetch", "fetched", "release"}

(* The DMA of t is under way, or its message waits. *)
InFlight(t, dir) ==
    \/ si = [by |-> t, dir |-> dir] /\ event = None
    \/ si = None /\ event = t

BusInv ==
    /\ Pad = "sent" => InFlight("pad", "write")
    /\ Pad \in {"release", "fetched"} => InFlight("pad", "read")
    /\ Eep = "sent" => InFlight("eep", "write")
    /\ Eep = "fetched" => InFlight("eep", "read")
    /\ Pad \notin {"sent", "release", "fetched"} /\ Eep \notin {"sent", "fetched"}
         => si = None /\ event = None

TaskInv ==
    /\ Pad # "idle" => task["pad"] \in {Buttons, Query}
    /\ Eep = "idle" => task["eep"] = None
    /\ Eep # "idle" => task["eep"] \in {Probe} \cup Get \cup Put
    /\ Eep # "idle" /\ task["eep"] = Probe => phase = "status"
    /\ Eep \in {"lock", "access"} => phase = "status"

(* The command that the PIF has is the one that lastCmd says. *)
LastInv ==
    /\ token = 1 => /\ lastCmd = "buttons" => pif = Buttons
                    /\ lastCmd = "query" => pif \in {Query, Status}
    /\ Pad = "release" => lastCmd = task["pad"].op
    /\ phase # "command" /\ Eep \in {"fetch", "fetched", "release"}
         => lastCmd = "query" /\ pif = Status
    /\ phase = "command" /\ Eep \in {"fetched", "release"} => lastCmd \in {"get", "put"}

(* What the pad manager fetches is what it asks for. *)
PadInv ==
    /\ Pad = "sent" => ram["pad"].cmd = task["pad"] /\ (event = "pad" => pif = task["pad"])
    /\ Pad \in {"fetch", "release", "fetched"} =>
         \/ task["pad"] = Buttons /\ pif = Buttons
         \/ task["pad"] = Query /\ pif \in {Query, Status}
    /\ Pad = "unlock" \/ (Pad \in {"release", "fetched"} /\ event = "pad")
         => (task["pad"] = Buttons => ram["pad"] = Result(Buttons, Ok))

(* What the EEPROM manager fetches: a chip that says it is ready stays so until it
   is written.                                                               *)
EepInv ==
    /\ Eep = "sent" => /\ ram["eep"].cmd = Command("eep")
                       /\ event = "eep" => pif = Command("eep")
    /\ Eep \in {"fetch", "fetched"} => pif = Command("eep")
    /\ phase = "command" /\ Eep \in {"send", "sent", "fetch"} => ~busy
    /\ phase = "command" /\ Eep = "fetched" /\ si # None => ~busy
    /\ Eep = "fetched" /\ event = "eep" /\ phase # "command"
         => Got \in {Ok, Junk, Failed} /\ (Got = Ok => ~busy)
    /\ Eep = "fetched" /\ event = "eep" /\ phase = "command"
         => \/ Got = Failed
            \/ task["eep"] \in Get /\ Got = chip[task["eep"].block]
            \/ /\ task["eep"] \in Put /\ Got = Ok
               /\ chip[task["eep"].block] = task["eep"].data
    /\ Eep \in {"release", "unlock"} => answer \in Data \cup {Ok, Failed}

IInv ==
    /\ TypeOK /\ ~clash
    /\ LockInv /\ TokenInv /\ BusInv /\ TaskInv /\ LastInv /\ PadInv /\ EepInv


Answers == Data \cup {None, Ok, Failed, Junk}

-----------------------------------------------------------------------------
LEMMA CommandFacts ==
    /\ Buttons \notin Get \cup Put /\ Query \notin Get \cup Put
    /\ Status \notin Get \cup Put /\ Get \cap Put = {}
    /\ Buttons # Query /\ Buttons # Status /\ Query # Status
    /\ \A c \in Get : c.op = "get" /\ c.block \in Blocks
    /\ \A c \in Put : c.op = "put" /\ c.block \in Blocks /\ c.data \in Data
    /\ Ok \notin Data /\ Failed \notin Data /\ Junk \notin Data /\ None \notin Data
    /\ None \notin {Ok, Failed, Junk, Probe} \cup Commands
    /\ Ok # Failed /\ Junk \notin {Ok, Failed}
    /\ Buttons.op = "buttons" /\ Query.op = "query"
    /\ Probe \notin Commands /\ None \notin Threads
  BY SerialAssumption DEF Get, Put, Buttons, Query, Status

LEMMA InitInv == ASSUME Init PROVE IInv
<1>1. TypeOK
  <2>1. Query \in Commands /\ Packed(Query) \in [cmd : Commands, val : Answers]
    BY DEF Commands, Packed, Result, Answers
  <2>2. ram \in [Threads -> [cmd : Commands, val : Answers]]
    BY <2>1 DEF Init
  <2>3. /\ pc \in [Threads -> Places]
        /\ task \in [Threads -> {None, Probe, Buttons, Query} \cup Get \cup Put]
    BY DEF Init, Places
  <2>4. /\ lock = None /\ token = 1 /\ event = None /\ si = None /\ pif = Query
        /\ lastCmd = "query" /\ chip \in [Blocks -> Data] /\ busy = FALSE
        /\ phase = "status" /\ answer = None /\ clash = FALSE
    BY DEF Init
  <2>5. token \in 0 .. 1 /\ Query \in Commands
    BY <2>1, <2>4
  <2>6. clash \in BOOLEAN /\ busy \in BOOLEAN
    BY <2>4, Zenon
  <2> QED
    BY <2>1, <2>2, <2>3, <2>4, <2>5, <2>6, Zenon DEF TypeOK, Answers
<1>2. /\ \A t \in Threads : pc[t] = "idle" /\ task[t] = None
      /\ lock = None /\ token = 1 /\ event = None /\ si = None /\ phase = "status"
      /\ pif = Query /\ lastCmd = "query" /\ ~clash
  BY DEF Init
<1>3. Pad = "idle" /\ Eep = "idle" /\ task["pad"] = None /\ task["eep"] = None
  BY <1>2 DEF Pad, Eep, Threads
<1>4. LockInv /\ TokenInv /\ BusInv
  BY <1>2, <1>3, CommandFacts DEF Threads, LockInv, TokenInv, BusInv
<1>5. TaskInv /\ LastInv
  BY <1>2, <1>3 DEF TaskInv, LastInv
<1>6. PadInv /\ EepInv
  BY <1>3 DEF PadInv, EepInv
<1> QED
  BY <1>1, <1>2, <1>4, <1>5, <1>6 DEF IInv

(* A step of one thread leaves the other where it is. *)
LEMMA Moves ==
    ASSUME TypeOK, NEW t \in Threads, NEW l \in Places, Goto(t, l)
    PROVE  /\ pc' \in [Threads -> Places]
           /\ t = "pad" => Pad' = l /\ Eep' = Eep
           /\ t = "eep" => Eep' = l /\ Pad' = Pad
  BY DEF TypeOK, Goto, Pad, Eep

-----------------------------------------------------------------------------
(* What both threads do: first each step of the pad manager, then the same one of
   the EEPROM manager.                                                       *)
LEMMA PadTakeLockKeeps ==
    ASSUME IInv, TakeLock("pad")
    PROVE  IInv'
<1> USE CommandFacts DEF IInv, TakeLock, hardware, call
<1>1. pc' \in [Threads -> Places] /\ Pad = "lock" /\ Pad' = "access" /\ Eep' = Eep
  BY Moves DEF Threads, Places, Pad
<1>2. TypeOK' /\ ~clash'
  BY <1>1 DEF TypeOK, Threads
<1>3. LockInv' /\ TokenInv'
  BY <1>1 DEF LockInv, TokenInv, Threads
<1>4. EepInv'
  BY <1>1 DEF EepInv, LockInv, Threads
<1>5. BusInv' /\ TaskInv' /\ LastInv' /\ PadInv'
  BY <1>1 DEF BusInv, InFlight, TaskInv, LastInv, PadInv
<1> QED
  BY <1>1, <1>2, <1>3, <1>4, <1>5

LEMMA EepTakeLockKeeps ==
    ASSUME IInv, TakeLock("eep")
    PROVE  IInv'
<1> USE CommandFacts DEF IInv, TakeLock, hardware, call
<1>1. pc' \in [Threads -> Places] /\ Eep = "lock" /\ Eep' = "access" /\ Pad' = Pad
  BY Moves DEF Threads, Places, Eep
<1>2. TypeOK' /\ ~clash'
  BY <1>1 DEF TypeOK, Threads
<1>3. LockInv' /\ TokenInv'
  BY <1>1 DEF LockInv, TokenInv, Threads
<1>4. BusInv' /\ TaskInv' /\ LastInv' /\ PadInv' /\ EepInv'
  BY <1>1 DEF BusInv, InFlight, TaskInv, LastInv, PadInv, EepInv
<1> QED
  BY <1>1, <1>2, <1>3, <1>4

LEMMA PadGetAccessKeeps ==
    ASSUME IInv, GetAccess("pad")
    PROVE  IInv'
<1> USE CommandFacts DEF IInv, GetAccess, hardware, call
<1>1. /\ pc' \in [Threads -> Places] /\ Pad = "access" /\ Eep' = Eep
      /\ Pad' = IF lastCmd = task["pad"].op THEN "fetch" ELSE "send"
  BY Moves DEF Threads, Places, Pad
<1>2. TypeOK' /\ ~clash'
  BY <1>1 DEF TypeOK
<1>3. PadInv'
  BY <1>1 DEF PadInv, TaskInv, LastInv
<1>4. EepInv'
  BY <1>1 DEF EepInv, LockInv
<1>5. LockInv' /\ TokenInv' /\ BusInv' /\ TaskInv' /\ LastInv'
  BY <1>1 DEF LockInv, TokenInv, BusInv, InFlight, TaskInv, LastInv
<1> QED
  BY <1>1, <1>2, <1>3, <1>4, <1>5

LEMMA EepGetAccessKeeps ==
    ASSUME IInv, GetAccess("eep")
    PROVE  IInv'
<1> USE CommandFacts DEF IInv, GetAccess, hardware, call
<1>1. pc' \in [Threads -> Places] /\ Eep = "access" /\ Eep' = "send" /\ Pad' = Pad
  BY Moves DEF Threads, Places, Eep
<1>2. TypeOK' /\ ~clash'
  BY <1>1 DEF TypeOK
<1>3. EepInv'
  BY <1>1 DEF EepInv, TaskInv
<1>4. LockInv' /\ TokenInv' /\ BusInv' /\ TaskInv' /\ LastInv' /\ PadInv'
  BY <1>1 DEF LockInv, TokenInv, BusInv, InFlight, TaskInv, LastInv, PadInv
<1> QED
  BY <1>1, <1>2, <1>3, <1>4

LEMMA PadSendKeeps ==
    ASSUME IInv, Send("pad")
    PROVE  IInv'
<1> USE CommandFacts DEF IInv, Send, hardware, call
<1>1. pc' \in [Threads -> Places] /\ Pad = "send" /\ Pad' = "sent" /\ Eep' = Eep
  BY Moves DEF Threads, Places, Pad
<1>2. si = None /\ si' = [by |-> "pad", dir |-> "write"] /\ clash' = FALSE
  BY <1>1 DEF StartDma, BusInv, LockInv
<1>3. si' \in [by : Threads, dir : {"read", "write"}]
  BY <1>2 DEF Threads
<1>4. ram' \in [Threads -> [cmd : Commands, val : Answers]]
  BY <1>1 DEF Command, TaskInv, TypeOK, Packed, Result, Commands, Answers
<1>5. TypeOK' /\ ~clash'
  BY <1>1, <1>2, <1>3, <1>4 DEF TypeOK, Answers
<1>6. BusInv'
  BY <1>1, <1>2, <1>3, <1>4 DEF BusInv, InFlight, LockInv
<1>7. PadInv'
  BY <1>1, <1>2, <1>3, <1>4 DEF PadInv, LockInv, BusInv, Command, Packed, Result
<1>8. EepInv'
  BY <1>1, <1>2, <1>3, <1>4 DEF EepInv, LockInv
<1>9. LockInv' /\ TokenInv' /\ TaskInv' /\ LastInv'
  BY <1>1, <1>2, <1>3, <1>4 DEF LockInv, TokenInv, TaskInv, LastInv
<1> QED
  BY <1>1, <1>2, <1>3, <1>4, <1>5, <1>6, <1>7, <1>8, <1>9

LEMMA EepSendKeeps ==
    ASSUME IInv, Send("eep")
    PROVE  IInv'
<1> USE CommandFacts DEF IInv, Send, hardware, call
<1>1. pc' \in [Threads -> Places] /\ Eep = "send" /\ Eep' = "sent" /\ Pad' = Pad
  BY Moves DEF Threads, Places, Eep
<1>2. si = None /\ si' = [by |-> "eep", dir |-> "write"] /\ clash' = FALSE
  BY <1>1 DEF StartDma, BusInv, LockInv
<1>3. si' \in [by : Threads, dir : {"read", "write"}]
  BY <1>2 DEF Threads
<1>4. ram' \in [Threads -> [cmd : Commands, val : Answers]]
  BY <1>1 DEF Command, TaskInv, TypeOK, Packed, Result, Commands, Answers
<1>5. TypeOK' /\ ~clash'
  BY <1>1, <1>2, <1>3, <1>4 DEF TypeOK, Answers
<1>6. BusInv'
  BY <1>1, <1>2, <1>3, <1>4 DEF BusInv, InFlight, LockInv
<1>7. EepInv'
  BY <1>1, <1>2, <1>3, <1>4 DEF EepInv, LockInv, BusInv, Command, Packed, Result
<1>8. LockInv' /\ TokenInv' /\ TaskInv' /\ LastInv' /\ PadInv'
  BY <1>1, <1>2, <1>3, <1>4 DEF LockInv, TokenInv, TaskInv, LastInv, PadInv
<1> QED
  BY <1>1, <1>2, <1>3, <1>4, <1>5, <1>6, <1>7, <1>8

LEMMA PadSentKeeps ==
    ASSUME IInv, Sent("pad")
    PROVE  IInv'
<1> USE CommandFacts DEF IInv, Sent, hardware, call
<1>1. pc' \in [Threads -> Places] /\ Pad = "sent" /\ Pad' = "fetch" /\ Eep' = Eep
  BY Moves DEF Threads, Places, Pad
<1>2. TypeOK' /\ ~clash'
  BY <1>1 DEF TypeOK, TakeEvent, BusInv, InFlight
<1>3. BusInv'
  BY <1>1 DEF BusInv, InFlight, TakeEvent
<1>4. LastInv'
  BY <1>1 DEF LastInv, LockInv, TokenInv
<1>5. PadInv'
  BY <1>1 DEF PadInv, TaskInv, BusInv, InFlight, TakeEvent
<1>6. EepInv'
  BY <1>1 DEF EepInv, LockInv
<1>7. LockInv' /\ TokenInv' /\ TaskInv'
  BY <1>1 DEF LockInv, TokenInv, TaskInv
<1> QED
  BY <1>1, <1>2, <1>3, <1>4, <1>5, <1>6, <1>7

LEMMA EepSentKeeps ==
    ASSUME IInv, Sent("eep")
    PROVE  IInv'
<1> USE CommandFacts DEF IInv, Sent, hardware, call
<1>1. pc' \in [Threads -> Places] /\ Eep = "sent" /\ Eep' = "fetch" /\ Pad' = Pad
  BY Moves DEF Threads, Places, Eep
<1>2. TypeOK' /\ ~clash'
  BY <1>1 DEF TypeOK, TakeEvent, BusInv, InFlight
<1>3. BusInv'
  BY <1>1 DEF BusInv, InFlight, TakeEvent
<1>4. LastInv'
  BY <1>1 DEF LastInv, BusInv, InFlight, TakeEvent, Command, EepInv
<1>5. PadInv'
  BY <1>1 DEF PadInv, LockInv
<1>6. EepInv'
  BY <1>1 DEF EepInv, BusInv, InFlight, Command, TakeEvent
<1>7. LockInv' /\ TokenInv' /\ TaskInv'
  BY <1>1 DEF LockInv, TokenInv, TaskInv
<1> QED
  BY <1>1, <1>2, <1>3, <1>4, <1>5, <1>6, <1>7

LEMMA PadFetchKeeps ==
    ASSUME IInv, Fetch("pad")
    PROVE  IInv'
<1> USE CommandFacts DEF IInv, Fetch, hardware, call
<1>1. pc' \in [Threads -> Places] /\ Pad = "fetch" /\ Pad' = "release" /\ Eep' = Eep
  BY Moves DEF Threads, Places, Pad
<1>2. si = None /\ si' = [by |-> "pad", dir |-> "read"] /\ clash' = FALSE
  BY <1>1 DEF StartDma, BusInv, LockInv
<1>3. si' \in [by : Threads, dir : {"read", "write"}]
  BY <1>2 DEF Threads
<1>4. lastCmd' \in {"query", "buttons", "get", "put"}
  BY <1>1 DEF Command, TaskInv
<1>5. TypeOK' /\ ~clash'
  BY <1>1, <1>2, <1>3, <1>4 DEF TypeOK
<1>6. BusInv'
  BY <1>1, <1>2, <1>3, <1>4 DEF BusInv, InFlight, LockInv
<1>7. LastInv'
  BY <1>1, <1>2, <1>3, <1>4 DEF LastInv, TaskInv, LockInv, TokenInv, Command
<1>8. PadInv'
  BY <1>1, <1>2, <1>3, <1>4 DEF PadInv, LockInv, BusInv
<1>9. EepInv'
  BY <1>1, <1>2, <1>3, <1>4 DEF EepInv, LockInv
<1>10. LockInv' /\ TokenInv' /\ TaskInv'
  BY <1>1, <1>2, <1>3, <1>4 DEF LockInv, TokenInv, TaskInv
<1> QED
  BY <1>1, <1>2, <1>3, <1>4, <1>5, <1>6, <1>7, <1>8, <1>9, <1>10

LEMMA EepFetchKeeps ==
    ASSUME IInv, Fetch("eep")
    PROVE  IInv'
<1> USE CommandFacts DEF IInv, Fetch, hardware, call
<1>1. pc' \in [Threads -> Places] /\ Eep = "fetch" /\ Eep' = "fetched" /\ Pad' = Pad
  BY Moves DEF Threads, Places, Eep
<1>2. si = None /\ si' = [by |-> "eep", dir |-> "read"] /\ clash' = FALSE
  BY <1>1 DEF StartDma, BusInv, LockInv
<1>3. si' \in [by : Threads, dir : {"read", "write"}]
  BY <1>2 DEF Threads
<1>4. lastCmd' \in {"query", "buttons", "get", "put"}
  BY <1>1 DEF Command, TaskInv, TypeOK
<1>5. TypeOK' /\ ~clash'
  BY <1>1, <1>2, <1>3, <1>4 DEF TypeOK
<1>6. BusInv'
  BY <1>1, <1>2, <1>3, <1>4 DEF BusInv, InFlight, LockInv
<1>7. LastInv'
  BY <1>1, <1>2, <1>3, <1>4 DEF LastInv, TaskInv, LockInv, Command
<1>8. EepInv'
  BY <1>1, <1>2, <1>3, <1>4 DEF EepInv, LockInv, BusInv, Command
<1>9. LockInv' /\ TokenInv' /\ TaskInv' /\ PadInv'
  BY <1>1, <1>2, <1>3, <1>4 DEF LockInv, TokenInv, TaskInv, PadInv
<1> QED
  BY <1>1, <1>2, <1>3, <1>4, <1>5, <1>6, <1>7, <1>8, <1>9

LEMMA PadRelAccessKeeps ==
    ASSUME IInv, RelAccess("pad")
    PROVE  IInv'
<1> USE CommandFacts DEF IInv, RelAccess, hardware, call
<1>1. pc' \in [Threads -> Places] /\ Pad = "release" /\ Pad' = "fetched" /\ Eep' = Eep
  BY Moves DEF Threads, Places, Pad
<1>2. TypeOK' /\ ~clash'
  BY <1>1 DEF TypeOK
<1>3. LastInv'
  BY <1>1 DEF LastInv, PadInv
<1>4. EepInv'
  BY <1>1 DEF EepInv, LockInv
<1>5. LockInv' /\ TokenInv' /\ BusInv' /\ TaskInv' /\ PadInv'
  BY <1>1 DEF LockInv, TokenInv, BusInv, InFlight, TaskInv, PadInv
<1> QED
  BY <1>1, <1>2, <1>3, <1>4, <1>5

LEMMA EepRelAccessKeeps ==
    ASSUME IInv, RelAccess("eep")
    PROVE  IInv'
<1> USE CommandFacts DEF IInv, RelAccess, hardware, call
<1>1. pc' \in [Threads -> Places] /\ Eep = "release" /\ Eep' = "unlock" /\ Pad' = Pad
  BY Moves DEF Threads, Places, Eep
<1>2. TypeOK' /\ ~clash'
  BY <1>1 DEF TypeOK
<1>3. LockInv' /\ TokenInv' /\ BusInv' /\ TaskInv' /\ LastInv' /\ PadInv' /\ EepInv'
  BY <1>1 DEF LockInv, TokenInv, BusInv, InFlight, TaskInv, LastInv, PadInv, EepInv
<1> QED
  BY <1>1, <1>2, <1>3

LEMMA PadUnlockKeeps ==
    ASSUME IInv, Unlock("pad")
    PROVE  IInv'
<1> USE CommandFacts DEF IInv, Unlock, hardware, call
<1>1. pc' \in [Threads -> Places] /\ Pad = "unlock" /\ Pad' = "idle" /\ Eep' = Eep
  BY Moves DEF Threads, Places, Pad
<1>2. TypeOK' /\ ~clash'
  BY <1>1 DEF TypeOK
<1>3. LockInv' /\ TokenInv'
  BY <1>1 DEF LockInv, TokenInv, Threads
<1>4. EepInv'
  BY <1>1 DEF EepInv, LockInv
<1>5. BusInv' /\ TaskInv' /\ LastInv' /\ PadInv'
  BY <1>1 DEF BusInv, InFlight, TaskInv, LastInv, PadInv
<1> QED
  BY <1>1, <1>2, <1>3, <1>4, <1>5

LEMMA EepUnlockKeeps ==
    ASSUME IInv, Unlock("eep")
    PROVE  IInv'
<1> USE CommandFacts DEF IInv, Unlock, hardware, call
<1>1. pc' \in [Threads -> Places] /\ Eep = "unlock" /\ Eep' = "idle" /\ Pad' = Pad
  BY Moves DEF Threads, Places, Eep
<1>2. TypeOK' /\ ~clash'
  BY <1>1 DEF TypeOK
<1>3. LockInv' /\ TokenInv'
  BY <1>1 DEF LockInv, TokenInv, Threads
<1>4. TaskInv'
  BY <1>1 DEF TaskInv, TypeOK, Threads
<1>5. BusInv' /\ LastInv' /\ PadInv' /\ EepInv'
  BY <1>1 DEF BusInv, InFlight, LastInv, PadInv, EepInv
<1> QED
  BY <1>1, <1>2, <1>3, <1>4, <1>5

-----------------------------------------------------------------------------
(* The calls, and what either thread makes of a result. *)
LEMMA PadCallKeeps ==
    ASSUME IInv, NEW c \in {Buttons, Query}, PadCall(c)
    PROVE  IInv'
<1> USE CommandFacts DEF IInv, PadCall, hardware, call
<1>1. pc' \in [Threads -> Places] /\ Pad = "idle" /\ Pad' = "lock" /\ Eep' = Eep
  BY Moves DEF Threads, Places, Pad
<1>2. TypeOK' /\ ~clash'
  BY <1>1 DEF TypeOK, Threads
<1>3. TaskInv'
  BY <1>1 DEF TaskInv, TypeOK, Threads
<1>4. EepInv'
  BY <1>1 DEF EepInv, Command, Got
<1>5. LockInv' /\ TokenInv' /\ BusInv' /\ LastInv' /\ PadInv'
  BY <1>1 DEF LockInv, TokenInv, BusInv, InFlight, LastInv, PadInv
<1> QED
  BY <1>1, <1>2, <1>3, <1>4, <1>5

LEMMA PadFetchedKeeps ==
    ASSUME IInv, PadFetched
    PROVE  IInv'
<1> USE CommandFacts DEF IInv, PadFetched, hardware, call
<1>1. pc' \in [Threads -> Places] /\ Pad = "fetched" /\ Pad' = "unlock" /\ Eep' = Eep
  BY Moves DEF Threads, Places, Pad
<1>2. TypeOK' /\ ~clash'
  BY <1>1 DEF TypeOK, TakeEvent, BusInv, InFlight
<1>3. BusInv'
  BY <1>1 DEF BusInv, InFlight, TakeEvent
<1>4. PadInv'
  BY <1>1 DEF PadInv, BusInv, InFlight, TakeEvent
<1>5. EepInv'
  BY <1>1 DEF EepInv, LockInv
<1>6. LockInv' /\ TokenInv' /\ TaskInv' /\ LastInv'
  BY <1>1 DEF LockInv, TokenInv, TaskInv, LastInv
<1> QED
  BY <1>1, <1>2, <1>3, <1>4, <1>5, <1>6

LEMMA EepCallKeeps ==
    ASSUME IInv, NEW c \in {Probe} \cup Get \cup Put, EepCall(c)
    PROVE  IInv'
<1> USE CommandFacts DEF IInv, EepCall, hardware, call
<1>1. pc' \in [Threads -> Places] /\ Eep = "idle" /\ Eep' = "lock" /\ Pad' = Pad
  BY Moves DEF Threads, Places, Eep
<1>2. TypeOK' /\ ~clash'
  BY <1>1 DEF TypeOK, Threads
<1>3. TaskInv'
  BY <1>1 DEF TaskInv, TypeOK, Threads
<1>4. LockInv' /\ TokenInv' /\ BusInv' /\ LastInv' /\ PadInv' /\ EepInv'
  BY <1>1 DEF LockInv, TokenInv, BusInv, InFlight, LastInv, PadInv, EepInv
<1> QED
  BY <1>1, <1>2, <1>3, <1>4

LEMMA StatusAgainKeeps ==
    ASSUME IInv, StatusAgain
    PROVE  IInv'
<1> USE CommandFacts DEF IInv, StatusAgain, hardware, call, Fetched
<1>1. pc' \in [Threads -> Places] /\ Eep = "fetched" /\ Eep' = "send" /\ Pad' = Pad
  BY Moves DEF Threads, Places, Eep
<1>2. TypeOK' /\ ~clash'
  BY <1>1 DEF TypeOK, TakeEvent, BusInv, InFlight
<1>3. BusInv'
  BY <1>1 DEF BusInv, InFlight, TakeEvent
<1>4. TaskInv'
  BY <1>1 DEF TaskInv, Commands
<1>5. PadInv'
  BY <1>1 DEF PadInv, LockInv
<1>6. LockInv' /\ TokenInv' /\ LastInv' /\ EepInv'
  BY <1>1 DEF LockInv, TokenInv, LastInv, EepInv
<1> QED
  BY <1>1, <1>2, <1>3, <1>4, <1>5, <1>6

LEMMA RefusedKeeps ==
    ASSUME IInv, Refused
    PROVE  IInv'
<1> USE CommandFacts DEF IInv, Refused, hardware, call, Fetched
<1>1. pc' \in [Threads -> Places] /\ Eep = "fetched" /\ Eep' = "release" /\ Pad' = Pad
  BY Moves DEF Threads, Places, Eep
<1>2. TypeOK' /\ ~clash'
  BY <1>1 DEF TypeOK, TakeEvent, BusInv, InFlight
<1>3. BusInv'
  BY <1>1 DEF BusInv, InFlight, TakeEvent
<1>4. PadInv'
  BY <1>1 DEF PadInv, LockInv
<1>5. LockInv' /\ TokenInv' /\ TaskInv' /\ LastInv' /\ EepInv'
  BY <1>1 DEF LockInv, TokenInv, TaskInv, LastInv, EepInv
<1> QED
  BY <1>1, <1>2, <1>3, <1>4, <1>5

LEMMA ProbedKeeps ==
    ASSUME IInv, Probed
    PROVE  IInv'
<1> USE CommandFacts DEF IInv, Probed, hardware, call, Fetched
<1>1. pc' \in [Threads -> Places] /\ Eep = "fetched" /\ Eep' = "release" /\ Pad' = Pad
  BY Moves DEF Threads, Places, Eep
<1>2. TypeOK' /\ ~clash'
  BY <1>1 DEF TypeOK, TakeEvent, BusInv, InFlight
<1>3. BusInv'
  BY <1>1 DEF BusInv, InFlight, TakeEvent
<1>4. PadInv'
  BY <1>1 DEF PadInv, LockInv
<1>5. LockInv' /\ TokenInv' /\ TaskInv' /\ LastInv' /\ EepInv'
  BY <1>1 DEF LockInv, TokenInv, TaskInv, LastInv, EepInv
<1> QED
  BY <1>1, <1>2, <1>3, <1>4, <1>5

LEMMA StillBusyKeeps ==
    ASSUME IInv, StillBusy
    PROVE  IInv'
<1> USE CommandFacts DEF IInv, StillBusy, hardware, call, Fetched
<1>1. pc' \in [Threads -> Places] /\ Eep = "fetched" /\ Eep' = "send" /\ Pad' = Pad
  BY Moves DEF Threads, Places, Eep
<1>2. TypeOK' /\ ~clash'
  BY <1>1 DEF TypeOK, TakeEvent, BusInv, InFlight
<1>3. BusInv'
  BY <1>1 DEF BusInv, InFlight, TakeEvent
<1>4. PadInv'
  BY <1>1 DEF PadInv, LockInv
<1>5. LockInv' /\ TokenInv' /\ TaskInv' /\ LastInv' /\ EepInv'
  BY <1>1 DEF LockInv, TokenInv, TaskInv, LastInv, EepInv
<1> QED
  BY <1>1, <1>2, <1>3, <1>4, <1>5

LEMMA ReadyKeeps ==
    ASSUME IInv, Ready
    PROVE  IInv'
<1> USE CommandFacts DEF IInv, Ready, hardware, call, Fetched
<1>1. pc' \in [Threads -> Places] /\ Eep = "fetched" /\ Eep' = "send" /\ Pad' = Pad
  BY Moves DEF Threads, Places, Eep
<1>2. TypeOK' /\ ~clash'
  BY <1>1 DEF TypeOK, TakeEvent, BusInv, InFlight
<1>3. BusInv'
  BY <1>1 DEF BusInv, InFlight, TakeEvent
<1>4. PadInv'
  BY <1>1 DEF PadInv, LockInv
<1>5. EepInv'
  BY <1>1 DEF EepInv, BusInv, Checking, InFlight, TakeEvent
<1>6. LockInv' /\ TokenInv' /\ TaskInv' /\ LastInv'
  BY <1>1 DEF LockInv, TokenInv, TaskInv, LastInv
<1> QED
  BY <1>1, <1>2, <1>3, <1>4, <1>5, <1>6

LEMMA ExecutedKeeps ==
    ASSUME IInv, Executed
    PROVE  IInv'
<1> USE CommandFacts DEF IInv, Executed, hardware, call, Fetched
<1>1. pc' \in [Threads -> Places] /\ Eep = "fetched" /\ Eep' = "release" /\ Pad' = Pad
  BY Moves DEF Threads, Places, Eep
<1>2. TypeOK' /\ ~clash'
  BY <1>1 DEF TypeOK, TakeEvent, BusInv, InFlight, Got
<1>3. BusInv'
  BY <1>1 DEF BusInv, InFlight, TakeEvent
<1>4. PadInv'
  BY <1>1 DEF PadInv, LockInv
<1>5. EepInv'
  BY <1>1 DEF EepInv, BusInv, InFlight, TypeOK, TakeEvent
<1>6. LockInv' /\ TokenInv' /\ TaskInv' /\ LastInv'
  BY <1>1 DEF LockInv, TokenInv, TaskInv, LastInv
<1> QED
  BY <1>1, <1>2, <1>3, <1>4, <1>5, <1>6

LEMMA ChipType ==
    ASSUME TypeOK, busy' \in BOOLEAN,
           UNCHANGED <<lock, token, event, si, pif, ram, lastCmd, chip, pc, task, phase, answer,
                       clash>>
    PROVE  TypeOK'
  BY DEF TypeOK

LEMMA ChipDoneKeeps ==
    ASSUME IInv, ChipDone
    PROVE  IInv'
<1> USE CommandFacts DEF IInv, ChipDone, hardware, call
<1>1. TypeOK' /\ ~clash'
  <2>1. busy' \in BOOLEAN
    BY Zenon
  <2> QED
    BY <2>1, ChipType, Zenon
<1>2. LockInv' /\ TokenInv'
  BY DEF Pad, Eep, LockInv, TokenInv
<1>3. BusInv'
  BY DEF Pad, Eep, BusInv, InFlight
<1>4. TaskInv'
  BY DEF Pad, Eep, TaskInv
<1>5. LastInv'
  BY DEF Pad, Eep, LastInv
<1>6. PadInv'
  BY DEF Pad, PadInv
<1>7. EepInv'
  BY DEF Eep, EepInv, Command, Got
<1> QED
  BY <1>1, <1>2, <1>3, <1>4, <1>5, <1>6, <1>7

-----------------------------------------------------------------------------
(* The end of a DMA. *)
LEMMA ResultFacts ==
    ASSUME TypeOK, NEW c \in Commands, NEW r \in Results(c)
    PROVE  /\ r \in [cmd : Commands, val : Answers] /\ r.cmd = c
           /\ c = Buttons => r = Result(Buttons, Ok)
           /\ c = Query => r.val = Ok
           /\ c = Status => r.val \in {Ok, Junk, Failed} /\ (r.val = Ok => ~busy)
           /\ c \in Get => \/ r.val = Failed
                           \/ busy /\ r.val = Junk
                           \/ ~busy /\ r.val = chip[c.block]
           /\ c \in Put => r.val \in {Ok, Failed}
<1> USE CommandFacts
<1>1. CASE c \in {Buttons, Query}
  <2>1. Results(c) = {Result(c, Ok)}
    BY <1>1 DEF Results
  <2>2. r = Result(c, Ok)
    BY <2>1
  <2> QED
    BY <1>1, <2>2 DEF Result, Answers
<1>2. CASE c = Status
  <2>1. Results(c) \subseteq {Result(c, IF busy THEN Junk ELSE Ok), Result(c, Failed)}
    BY <1>2 DEF Results
  <2>2. r = Result(c, IF busy THEN Junk ELSE Ok) \/ r = Result(c, Failed)
    BY <2>1
  <2> QED
    BY <1>2, <2>2 DEF Result, Answers
<1>3. CASE c \in Get
  <2>1. Results(c) \subseteq
          {Result(c, IF busy THEN Junk ELSE chip[c.block]), Result(c, Failed)}
    BY <1>3 DEF Results
  <2>2. r = Result(c, IF busy THEN Junk ELSE chip[c.block]) \/ r = Result(c, Failed)
    BY <2>1
  <2>3. chip[c.block] \in Data
    BY <1>3 DEF TypeOK
  <2> QED
    BY <1>3, <2>2, <2>3 DEF Result, Answers
<1>4. CASE c \in Put
  <2>1. Results(c) \subseteq {Result(c, Ok), Result(c, Failed)}
    BY <1>4 DEF Results
  <2>2. r = Result(c, Ok) \/ r = Result(c, Failed)
    BY <2>1
  <2> QED
    BY <1>4, <2>2 DEF Result, Answers
<1> QED
  BY <1>1, <1>2, <1>3, <1>4 DEF Commands

(* Whose DMA it is says where its thread waits. *)
LEMMA WhoWaits ==
    ASSUME IInv, si # None
    PROVE  /\ event = None /\ si.by \in Threads /\ si.dir \in {"read", "write"}
           /\ si = [by |-> si.by, dir |-> si.dir]
           /\ si.by = "pad" /\ si.dir = "write" => Pad = "sent" /\ Eep \in {"idle", "lock"}
           /\ si.by = "pad" /\ si.dir = "read"
                => Pad \in {"release", "fetched"} /\ Eep \in {"idle", "lock"}
           /\ si.by = "eep" /\ si.dir = "write" => Eep = "sent" /\ Pad \in {"idle", "lock"}
           /\ si.by = "eep" /\ si.dir = "read" => Eep = "fetched" /\ Pad \in {"idle", "lock"}
<1>1. LockInv /\ BusInv
  BY DEF IInv
<1> QED
  BY <1>1, CommandFacts DEF LockInv, BusInv, InFlight, Threads

LEMMA WriteEndsKeeps ==
    ASSUME IInv, DmaEnds, si.dir = "write"
    PROVE  IInv'
<1> USE CommandFacts DEF IInv, call
<1>1. /\ si # None /\ pif' = ram[si.by].cmd /\ event' = si.by /\ si' = None
      /\ UNCHANGED <<ram, chip, busy, lock, token, lastCmd, pc, call, clash>>
      /\ Pad' = Pad /\ Eep' = Eep
  BY WhoWaits DEF DmaEnds, Pad, Eep
<1>2. TypeOK' /\ ~clash'
  BY <1>1, WhoWaits DEF TypeOK
<1>3. LockInv' /\ TokenInv' /\ BusInv' /\ TaskInv'
  BY <1>1, WhoWaits DEF LockInv, TokenInv, BusInv, InFlight, TaskInv
<1>4. LastInv'
  BY <1>1, WhoWaits DEF LastInv, TokenInv, Threads
<1>5. PadInv'
  BY <1>1, WhoWaits DEF PadInv, Threads
<1>6. EepInv'
  BY <1>1, WhoWaits DEF EepInv, Command, Threads
<1> QED
  BY <1>2, <1>3, <1>4, <1>5, <1>6

LEMMA ReadEndsKeeps ==
    ASSUME IInv, DmaEnds, si.dir = "read"
    PROVE  IInv'
<1> USE CommandFacts DEF IInv, call
<1>1. /\ si # None /\ event' = si.by /\ si' = None
      /\ UNCHANGED <<pif, lock, token, lastCmd, pc, call, clash>>
      /\ Pad' = Pad /\ Eep' = Eep
  BY WhoWaits DEF DmaEnds, Pad, Eep
<1>2. PICK r \in Results(pif) :
         /\ ram' = [ram EXCEPT ![si.by] = r]
         /\ \/ /\ pif \in Put /\ ~busy
               /\ chip' = [chip EXCEPT ![pif.block] = pif.data] /\ busy' = TRUE
            \/ /\ ~(pif \in Put /\ r.val = Ok /\ ~busy)
               /\ UNCHANGED <<chip, busy>>
  BY DEF DmaEnds
<1>3. /\ r \in [cmd : Commands, val : Answers] /\ r.cmd = pif
      /\ pif = Buttons => r = Result(Buttons, Ok)
      /\ pif = Status => r.val \in {Ok, Junk, Failed} /\ (r.val = Ok => ~busy)
      /\ pif \in Get => \/ r.val = Failed
                        \/ busy /\ r.val = Junk
                        \/ ~busy /\ r.val = chip[pif.block]
      /\ pif \in Put => r.val \in {Ok, Failed}
  BY <1>2, ResultFacts DEF TypeOK
<1>4. /\ ram' \in [Threads -> [cmd : Commands, val : Answers]]
      /\ ram'[si.by] = r /\ \A t \in Threads \ {si.by} : ram'[t] = ram[t]
  BY <1>1, <1>2, <1>3, WhoWaits DEF TypeOK, Answers
<1>5. chip' \in [Blocks -> Data] /\ busy' \in BOOLEAN
  BY <1>2 DEF TypeOK
<1>6. TypeOK' /\ ~clash'
  BY <1>1, <1>4, <1>5, WhoWaits DEF TypeOK, Answers
<1>7. LockInv' /\ TokenInv' /\ BusInv' /\ TaskInv'
  BY <1>1, WhoWaits DEF LockInv, TokenInv, BusInv, InFlight, TaskInv
<1>8. LastInv'
  BY <1>1 DEF LastInv
<1>9. PadInv'
  BY <1>1, <1>3, <1>4, WhoWaits DEF PadInv, Threads
<1>10. EepInv'
  <2>1. CASE si.by = "pad"
    BY <1>1, <1>2, <1>3, <1>4, <2>1, WhoWaits DEF EepInv
  <2>2. CASE si.by = "eep"
    <3>1. Eep = "fetched" /\ Eep' = "fetched" /\ Got' = r.val /\ pif = Command("eep")
      BY <1>1, <1>4, <2>2, WhoWaits DEF EepInv, Got
    <3>2. CASE phase # "command"
      BY <1>1, <1>2, <1>3, <2>2, <3>1, <3>2, WhoWaits DEF EepInv, Command
    <3>3. CASE phase = "command"
      <4>1. pif = task["eep"] /\ task["eep"] \in Get \cup Put /\ ~busy
        BY <1>1, <2>2, <3>1, <3>3 DEF Command, TaskInv, EepInv
      <4>2. CASE task["eep"] \in Get
        BY <1>1, <1>2, <1>3, <2>2, <3>1, <3>3, <4>1, <4>2 DEF EepInv, Command
      <4>3. CASE task["eep"] \in Put
        BY <1>1, <1>2, <1>3, <2>2, <3>1, <3>3, <4>1, <4>3 DEF EepInv, Command, TypeOK
      <4> QED
        BY <4>1, <4>2, <4>3
    <3> QED
      BY <3>2, <3>3
  <2> QED
    BY <1>1, <2>1, <2>2, WhoWaits DEF Threads
<1> QED
  BY <1>6, <1>7, <1>8, <1>9, <1>10

LEMMA NextKeeps == ASSUME IInv, [Next]_vars PROVE IInv'
<1>1. CASE \E c \in {Buttons, Query} : PadCall(c)
  BY <1>1, PadCallKeeps
<1>2. CASE \E c \in {Probe} \cup Get \cup Put : EepCall(c)
  BY <1>2, EepCallKeeps
<1>3. CASE Step("pad")
  BY <1>3, PadTakeLockKeeps, PadGetAccessKeeps, PadSendKeeps, PadSentKeeps, PadFetchKeeps,
     PadRelAccessKeeps, PadUnlockKeeps, PadFetchedKeeps DEF Step
<1>4. CASE Step("eep")
  BY <1>4, EepTakeLockKeeps, EepGetAccessKeeps, EepSendKeeps, EepSentKeeps, EepFetchKeeps,
     EepRelAccessKeeps, EepUnlockKeeps, StatusAgainKeeps, RefusedKeeps, ProbedKeeps,
     StillBusyKeeps, ReadyKeeps, ExecutedKeeps DEF Step
<1>5. CASE DmaEnds
  <2>1. si.dir \in {"read", "write"}
    BY <1>5, WhoWaits DEF DmaEnds
  <2> QED
    BY <1>5, <2>1, WriteEndsKeeps, ReadEndsKeeps
<1>6. CASE ChipDone
  BY <1>6, ChipDoneKeeps
<1>7. CASE UNCHANGED vars
  <2> USE <1>7 DEF vars, hardware, call
  <2>1. TypeOK' /\ ~clash'
    BY DEF IInv, TypeOK
  <2>2. Pad' = Pad /\ Eep' = Eep /\ Got' = Got /\ Command("eep")' = Command("eep")
    BY DEF Pad, Eep, Got, Command
  <2>3. LockInv' /\ TokenInv' /\ BusInv' /\ TaskInv' /\ LastInv' /\ PadInv' /\ EepInv'
    BY <2>2 DEF IInv, LockInv, TokenInv, BusInv, InFlight, TaskInv, LastInv, PadInv, EepInv
  <2> QED
    BY <2>1, <2>3 DEF IInv
<1> QED
  BY <1>1, <1>2, <1>3, <1>4, <1>5, <1>6, <1>7 DEF Next, Threads

LEMMA InvHolds == Spec => []IInv
<1>1. Init => IInv
  BY InitInv
<1>2. IInv /\ [Next]_vars => IInv'
  BY NextKeeps
<1> QED
  BY <1>1, <1>2, PTL DEF Spec

-----------------------------------------------------------------------------
(* sirawdma.c:63-65, contreaddata.c:13-21, 7D140.c:507-541: for any blocks and data
   of the EEPROM, no DMA is refused, no thread takes the end of the other's DMA
   for its own, and the pad manager gets the buttons when it asks for them.   *)
THEOREM SerialSafe == Spec => []SerialInv
<1>1. ASSUME IInv PROVE SerialInv
  <2>1. NoClash
    BY <1>1 DEF IInv, NoClash
  <2>2. lastCmd = "buttons" /\ token = 1 => pif = Buttons
    BY <1>1 DEF IInv, LastInv
  <2>3. ASSUME Pad = "unlock", task["pad"] = Buttons
        PROVE  ram["pad"] = Result(Buttons, Ok)
    BY <1>1, <2>3 DEF IInv, PadInv
  <2> QED
    BY <2>1, <2>2, <2>3 DEF SerialInv, ButtonsAreButtons, Pad
<1> QED
  BY <1>1, InvHolds, PTL

-----------------------------------------------------------------------------
(* The refinement.  The chip is asked when the call begins; a write is stored
   when its DMA ends; the answer is there when the token is given back.       *)
Told == IF Eep \in {"release", "unlock"} THEN answer ELSE None

LEMMA BarInit == ASSUME Init PROVE Eeprom!Init
<1>1. Eep = "idle" /\ task["eep"] = None /\ chip \in [Blocks -> Data]
  BY DEF Init, Eep, Threads
<1> QED
  BY <1>1 DEF Eeprom!Init, Eep

(* A step that answers tells what is true of the chip. *)
LEMMA AnswersBar ==
    ASSUME IInv, Refused \/ Probed \/ Executed
    PROVE  Eeprom!Answer
<1> USE CommandFacts DEF IInv
<1>1. /\ Eep = "fetched" /\ event = "eep" /\ Eep' = "release" /\ answer' \in {Ok, Failed, Got}
      /\ task' = task /\ chip' = chip
  BY Moves DEF Refused, Probed, Executed, Fetched, TakeEvent, Eep, Threads, Places, BusInv,
     InFlight, hardware
<1>2. task["eep"] \in {Probe} \cup Get \cup Put
  BY <1>1 DEF TaskInv
<1>3. answer' \in Data \cup {Ok, Failed} /\ Eeprom!IsAnswer(answer')
  <2>1. CASE Refused
    BY <2>1 DEF Refused, Eeprom!IsAnswer
  <2>2. CASE Probed
    BY <2>2 DEF Probed, Eeprom!IsAnswer
  <2>3. CASE Executed
    <3>1. phase = "command" /\ answer' = Got
      BY <2>3 DEF Executed
    <3>2. \/ Got = Failed
          \/ task["eep"] \in Get /\ Got = chip[task["eep"].block]
          \/ /\ task["eep"] \in Put /\ Got = Ok
             /\ chip[task["eep"].block] = task["eep"].data
      BY <1>1, <3>1 DEF EepInv
    <3> QED
      BY <1>2, <3>1, <3>2 DEF TypeOK, Eeprom!IsAnswer, Commands
  <2> QED
    BY <2>1, <2>2, <2>3
<1> QED
  BY <1>1, <1>2, <1>3 DEF Eeprom!Answer, Eep, Commands

(* A step that does not, and does not call, store or return, is none of the chip's. *)
Quiet == UNCHANGED <<chip, task["eep"], Told>>

LEMMA QuietBar ==
    ASSUME task'["eep"] = task["eep"], chip' = chip, answer' = answer,
           Eep' \in {"release", "unlock"} <=> Eep \in {"release", "unlock"}
    PROVE  Quiet
  BY DEF Quiet, Told

LEMMA PadQuiet ==
    ASSUME IInv,
           Step("pad") \/ \E c \in {Buttons, Query} : PadCall(c)
    PROVE  Quiet
<1> USE DEF hardware, call
<1>1. TypeOK
  BY DEF IInv
<1>2. ASSUME NEW l, Goto("pad", l) PROVE Eep' = Eep
  BY <1>1, <1>2 DEF Goto, Eep
<1>3. CASE \E c \in {Buttons, Query} : PadCall(c)
  BY <1>1, <1>2, <1>3, QuietBar DEF PadCall
<1>4. CASE TakeLock("pad") \/ GetAccess("pad") \/ Send("pad") \/ Sent("pad") \/ Fetch("pad")
           \/ RelAccess("pad") \/ PadFetched
  BY <1>2, <1>4, QuietBar
     DEF TakeLock, GetAccess, Send, Sent, Fetch, RelAccess, PadFetched
<1>5. CASE Unlock("pad")
  BY <1>1, <1>2, <1>5, QuietBar DEF Unlock
<1> QED
  BY <1>3, <1>4, <1>5 DEF Step

LEMMA EepQuiet ==
    ASSUME IInv,
           \/ TakeLock("eep") \/ GetAccess("eep") \/ Send("eep") \/ Sent("eep") \/ Fetch("eep")
           \/ RelAccess("eep") \/ StatusAgain \/ StillBusy \/ Ready
    PROVE  Quiet
<1> USE DEF hardware, call
<1>1. TypeOK
  BY DEF IInv
<1>2. ASSUME NEW l, Goto("eep", l) PROVE Eep' = l
  BY <1>1, <1>2 DEF TypeOK, Goto, Eep, Threads
<1>3. CASE TakeLock("eep") \/ GetAccess("eep") \/ Send("eep") \/ Sent("eep") \/ Fetch("eep")
           \/ RelAccess("eep")
  BY <1>2, <1>3, QuietBar DEF TakeLock, GetAccess, Send, Sent, Fetch, RelAccess, Eep
<1>4. CASE StatusAgain \/ StillBusy \/ Ready
  BY <1>2, <1>4, QuietBar DEF StatusAgain, StillBusy, Ready, Fetched, Eep
<1> QED
  BY <1>3, <1>4

LEMMA CallBar ==
    ASSUME IInv, NEW c \in {Probe} \cup Get \cup Put, EepCall(c)
    PROVE  Eeprom!Ask(c)
<1>1. Eep = "idle" /\ Eep' = "lock" /\ task["eep"] = None /\ task'["eep"] = c /\ chip' = chip
  BY Moves DEF EepCall, hardware, Eep, Threads, Places, IInv, TypeOK, TaskInv
<1> QED
  BY <1>1 DEF Eeprom!Ask, Eep

LEMMA ReturnBar == ASSUME IInv, Unlock("eep") PROVE Eeprom!Return
<1>1. Eep = "unlock" /\ Eep' = "idle" /\ task'["eep"] = None /\ chip' = chip
  BY Moves DEF Unlock, hardware, Eep, Threads, Places, IInv, TypeOK
<1>2. answer # None
  BY <1>1, CommandFacts DEF IInv, EepInv
<1> QED
  BY <1>1, <1>2 DEF Eeprom!Return, Eep

LEMMA DmaBar == ASSUME IInv, DmaEnds PROVE Eeprom!Store \/ Quiet
<1> USE CommandFacts DEF IInv, call
<1>1. /\ si # None /\ pc' = pc /\ Eep' = Eep /\ task' = task /\ answer' = answer
      /\ si.by \in {"pad", "eep"}
  BY WhoWaits DEF DmaEnds, Eep, Threads
<1>2. CASE chip' = chip
  BY <1>1, <1>2, QuietBar
<1>3. CASE chip' # chip
  <2>1. si.dir = "read" /\ pif \in Put /\ chip' = [chip EXCEPT ![pif.block] = pif.data]
    BY <1>1, <1>3, WhoWaits DEF DmaEnds
  <2>2. si.by = "eep"
    BY <1>1, <2>1, WhoWaits DEF PadInv
  <2>3. Eep = "fetched" /\ pif = Command("eep")
    BY <1>1, <2>1, <2>2, WhoWaits DEF EepInv
  <2>4. pif = task["eep"]
    BY <2>1, <2>3 DEF Command
  <2>5. task["eep"] # Probe /\ task["eep"].op = "put"
    BY <2>1, <2>4 DEF Commands
  <2> QED
    BY <1>1, <2>1, <2>3, <2>4, <2>5 DEF Eeprom!Store, Eeprom!Tasks, Put, Eep
<1> QED
  BY <1>2, <1>3

LEMMA NextBar == ASSUME IInv, [Next]_vars PROVE Eeprom!Next \/ Quiet
<1>1. CASE \E c \in {Buttons, Query} : PadCall(c)
  BY <1>1, PadQuiet
<1>2. CASE \E c \in {Probe} \cup Get \cup Put : EepCall(c)
  <2>1. PICK c \in {Probe} \cup Get \cup Put : EepCall(c)
    BY <1>2
  <2>2. c \in Eeprom!Tasks
    BY <2>1 DEF Eeprom!Tasks, Get, Put
  <2> QED
    BY <2>1, <2>2, CallBar DEF Eeprom!Next
<1>3. CASE Step("pad")
  BY <1>3, PadQuiet
<1>4. CASE Step("eep")
  <2>1. CASE Unlock("eep")
    BY <2>1, ReturnBar DEF Eeprom!Next
  <2>2. CASE Refused \/ Probed \/ Executed
    BY <2>2, AnswersBar DEF Eeprom!Next
  <2> QED
    BY <1>4, <2>1, <2>2, EepQuiet DEF Step
<1>5. CASE DmaEnds
  BY <1>5, DmaBar DEF Eeprom!Next
<1>6. CASE ChipDone
  BY <1>6, QuietBar DEF ChipDone, call, Eep
<1>7. CASE UNCHANGED vars
  BY <1>7, QuietBar DEF vars, Eep
<1> QED
  BY <1>1, <1>2, <1>3, <1>4, <1>5, <1>6, <1>7 DEF Next, Threads

(* conteepread.c:12-106, conteepwrite.c:8-113: for any blocks and data, whatever the
   pad manager does meanwhile, a block is read and written as asked: Serial
   implements EepromChip.                                                    *)
THEOREM SerialImplementsEeprom == Spec => EepromSpec
<1>1. Init => Eeprom!Init
  BY BarInit
<1>2. IInv /\ [Next]_vars =>
        [Eeprom!Next]_<<chip, task["eep"],
                        IF pc["eep"] \in {"release", "unlock"} THEN answer ELSE None>>
  BY NextBar DEF Quiet, Told, Eep
<1> QED
  BY <1>1, <1>2, InvHolds, PTL DEF Spec, EepromSpec, Eeprom!Spec

-----------------------------------------------------------------------------
(* What the queue holds before and after a command is put in or taken out. *)
LEMMA QueueAppend ==
    ASSUME cmdq \in Seq(Users), NEW u \in Users, cmdq' = Append(cmdq, u)
    PROVE  /\ cmdq' \in Seq(Users)
           /\ \A v : Pi!InQueue(v)' <=> Pi!InQueue(v) \/ v = u
           /\ (\A i, j \in 1 .. Len(cmdq) : cmdq[i] = cmdq[j] => i = j) /\ ~Pi!InQueue(u)
                => \A i, j \in 1 .. Len(cmdq') : cmdq'[i] = cmdq'[j] => i = j
<1>1. cmdq' \in Seq(Users) /\ Len(cmdq') = Len(cmdq) + 1 /\ Len(cmdq) \in Nat
  BY AppendProperties
<1>2. /\ \A i \in 1 .. Len(cmdq) : cmdq'[i] = cmdq[i]
      /\ cmdq'[Len(cmdq) + 1] = u
  BY AppendProperties
<1>3. \A v : Pi!InQueue(v)' <=> Pi!InQueue(v) \/ v = u
  BY <1>1, <1>2 DEF Pi!InQueue
<1> QED
  BY <1>1, <1>2, <1>3 DEF Pi!InQueue

LEMMA QueuePrepend ==
    ASSUME cmdq \in Seq(Users), NEW u \in Users, cmdq' = <<u>> \o cmdq
    PROVE  /\ cmdq' \in Seq(Users)
           /\ \A v : Pi!InQueue(v)' <=> Pi!InQueue(v) \/ v = u
           /\ (\A i, j \in 1 .. Len(cmdq) : cmdq[i] = cmdq[j] => i = j) /\ ~Pi!InQueue(u)
                => \A i, j \in 1 .. Len(cmdq') : cmdq'[i] = cmdq'[j] => i = j
<1>0. <<u>> \in Seq(Users) /\ Len(<<u>>) = 1 /\ <<u>>[1] = u
  OBVIOUS
<1>1. cmdq' \in Seq(Users) /\ Len(cmdq') = Len(cmdq) + 1 /\ Len(cmdq) \in Nat
  BY <1>0, ConcatProperties
<1>2. cmdq'[1] = u /\ \A i \in 2 .. Len(cmdq) + 1 : cmdq'[i] = cmdq[i - 1]
  BY <1>0, <1>1, ConcatProperties
<1>3. \A v : Pi!InQueue(v)' <=> Pi!InQueue(v) \/ v = u
  <2> SUFFICES ASSUME NEW v PROVE Pi!InQueue(v)' <=> Pi!InQueue(v) \/ v = u
    OBVIOUS
  <2>1. Pi!InQueue(v)' => Pi!InQueue(v) \/ v = u
    BY <1>1, <1>2 DEF Pi!InQueue
  <2>2. ASSUME Pi!InQueue(v) PROVE Pi!InQueue(v)'
    <3>1. PICK i \in 1 .. Len(cmdq) : cmdq[i] = v
      BY <2>2 DEF Pi!InQueue
    <3>2. i + 1 \in 2 .. Len(cmdq) + 1 /\ (i + 1) - 1 = i
      BY <1>1
    <3>3. cmdq'[i + 1] = v
      BY <1>2, <3>1, <3>2
    <3> QED
      BY <1>1, <3>2, <3>3 DEF Pi!InQueue
  <2>3. v = u => Pi!InQueue(v)'
    BY <1>1, <1>2 DEF Pi!InQueue
  <2> QED
    BY <2>1, <2>2, <2>3
<1>4. ASSUME \A i, j \in 1 .. Len(cmdq) : cmdq[i] = cmdq[j] => i = j, ~Pi!InQueue(u),
             NEW i \in 1 .. Len(cmdq'), NEW j \in 1 .. Len(cmdq'), cmdq'[i] = cmdq'[j]
      PROVE  i = j
  <2>1. \A k \in 2 .. Len(cmdq') : k - 1 \in 1 .. Len(cmdq) /\ cmdq'[k] # u
    BY <1>1, <1>2, <1>4 DEF Pi!InQueue
  <2>2. CASE i = 1 \/ j = 1
    BY <1>1, <1>2, <1>4, <2>1, <2>2
  <2>3. CASE i # 1 /\ j # 1
    <3>1. i \in 2 .. Len(cmdq') /\ j \in 2 .. Len(cmdq')
      BY <1>1, <2>3
    <3>2. cmdq[i - 1] = cmdq[j - 1]
      BY <1>1, <1>2, <1>4, <3>1
    <3>3. i - 1 = j - 1
      BY <1>4, <2>1, <3>1, <3>2
    <3> QED
      BY <1>1, <3>1, <3>3
  <2> QED
    BY <2>2, <2>3
<1> QED
  BY <1>1, <1>3, <1>4

LEMMA QueueTail ==
    ASSUME cmdq \in Seq(Users), cmdq # <<>>, cmdq' = Tail(cmdq),
           \A i, j \in 1 .. Len(cmdq) : cmdq[i] = cmdq[j] => i = j
    PROVE  /\ cmdq' \in Seq(Users)
           /\ Head(cmdq) \in Users /\ Pi!InQueue(Head(cmdq))
           /\ \A v : Pi!InQueue(v)' <=> Pi!InQueue(v) /\ v # Head(cmdq)
           /\ \A i, j \in 1 .. Len(cmdq') : cmdq'[i] = cmdq'[j] => i = j
<1>1. /\ cmdq' \in Seq(Users) /\ Head(cmdq) \in Users /\ Head(cmdq) = cmdq[1]
      /\ Len(cmdq) \in Nat \ {0} /\ Len(cmdq') = Len(cmdq) - 1
      /\ \A i \in 1 .. Len(cmdq') : cmdq'[i] = cmdq[i + 1]
  BY EmptySeq, HeadTailProperties
<1>2. \A i \in 1 .. Len(cmdq') : i + 1 \in 1 .. Len(cmdq) /\ i + 1 # 1
  BY <1>1
<1>3. Pi!InQueue(Head(cmdq))
  BY <1>1 DEF Pi!InQueue
<1>4. ASSUME NEW v PROVE Pi!InQueue(v)' <=> Pi!InQueue(v) /\ v # Head(cmdq)
  <2>1. Pi!InQueue(v)' => Pi!InQueue(v) /\ v # Head(cmdq)
    BY <1>1, <1>2 DEF Pi!InQueue
  <2>2. ASSUME Pi!InQueue(v), v # Head(cmdq) PROVE Pi!InQueue(v)'
    <3>1. PICK i \in 1 .. Len(cmdq) : cmdq[i] = v
      BY <2>2 DEF Pi!InQueue
    <3>2. i - 1 \in 1 .. Len(cmdq') /\ (i - 1) + 1 = i
      BY <1>1, <2>2, <3>1
    <3> QED
      BY <1>1, <3>1, <3>2 DEF Pi!InQueue
  <2> QED
    BY <2>1, <2>2
<1>5. ASSUME NEW i \in 1 .. Len(cmdq'), NEW j \in 1 .. Len(cmdq'), cmdq'[i] = cmdq'[j]
      PROVE  i = j
  <2>1. i + 1 = j + 1
    BY <1>1, <1>2, <1>5
  <2> QED
    BY <1>1, <2>1
<1> QED
  BY <1>1, <1>3, <1>4, <1>5

-----------------------------------------------------------------------------
LEMMA PiInitInv == Pi!Init => Pi!PiInv
<1> SUFFICES ASSUME Pi!Init PROVE Pi!PiInv
  OBVIOUS
<1>1. cmdq \in Seq(Users) /\ Len(cmdq) = 0
  BY DEF Pi!Init
<1>2. \A u : ~Pi!InQueue(u) /\ ~Pi!InHand(u)
  <2>1. 1 .. Len(cmdq) = {}
    BY <1>1
  <2>2. \A u : ~Pi!InQueue(u)
    BY <2>1 DEF Pi!InQueue
  <2>3. \A u : ~Pi!InHand(u)
    BY DEF Pi!Init, Pi!InHand
  <2> QED
    BY <2>2, <2>3
<1>3. Pi!TypeOK
  BY <1>1 DEF Pi!Init, Pi!TypeOK, Pi!Phases
<1>4. Pi!OneHasBus /\ Pi!EventIsOurs
  BY DEF Pi!Init, Pi!OneHasBus, Pi!EventIsOurs, Pi!HasBus
<1>5. Pi!OnePhase
  BY <1>1, <1>2 DEF Pi!Init, Pi!OnePhase
<1> QED
  BY <1>3, <1>4, <1>5 DEF Pi!PiInv

LEMMA StartDmaInv ==
    ASSUME Pi!PiInv, NEW u \in Users, Pi!Send(u) \/ Pi!Jam(u)
    PROVE  Pi!PiInv'
<1>1. /\ upc[u] = "idle" /\ upc' = [upc EXCEPT ![u] = "wait"] /\ landed' = landed \ {u}
      /\ UNCHANGED <<ipc, acs, evt, mgr, mb, pi, reply>>
      /\ cmdq' = Append(cmdq, u) \/ cmdq' = <<u>> \o cmdq
  BY DEF Pi!Send, Pi!Jam, Pi!StartDma
<1>2. ~Pi!InQueue(u) /\ ~Pi!InHand(u) /\ reply[u] = 0
  BY <1>1 DEF Pi!PiInv, Pi!OnePhase, Pi!TypeOK
<1>3. /\ cmdq' \in Seq(Users)
      /\ \A v : Pi!InQueue(v)' <=> Pi!InQueue(v) \/ v = u
      /\ \A i, j \in 1 .. Len(cmdq') : cmdq'[i] = cmdq'[j] => i = j
  BY <1>1, <1>2, QueueAppend, QueuePrepend DEF Pi!PiInv, Pi!OnePhase, Pi!TypeOK
<1>4. Pi!TypeOK'
  BY <1>1, <1>3 DEF Pi!PiInv, Pi!TypeOK
<1>5. Pi!OneHasBus'
  BY <1>1 DEF Pi!PiInv, Pi!OneHasBus, Pi!HasBus
<1>6. Pi!EventIsOurs'
  BY <1>1, <1>2 DEF Pi!PiInv, Pi!EventIsOurs, Pi!TypeOK, Pi!InHand
<1>7. Pi!OnePhase'
  <2>1. \A v : Pi!InHand(v)' <=> Pi!InHand(v)
    BY <1>1 DEF Pi!InHand
  <2> QED
    BY <1>1, <1>2, <1>3, <2>1 DEF Pi!PiInv, Pi!OnePhase, Pi!TypeOK
<1> QED
  BY <1>4, <1>5, <1>6, <1>7 DEF Pi!PiInv

(* Every step that leaves the queue alone. *)
LEMMA QueueSame ==
    ASSUME UNCHANGED cmdq
    PROVE  \A v : Pi!InQueue(v)' <=> Pi!InQueue(v)
  BY DEF Pi!InQueue

LEMMA UserInv ==
    ASSUME Pi!PiInv, NEW u \in Users, Pi!Receive(u)
    PROVE  Pi!PiInv'
<1>1. Pi!TypeOK'
  BY DEF Pi!PiInv, Pi!TypeOK, Pi!Receive
<1>2. Pi!OneHasBus' /\ Pi!EventIsOurs'
  BY DEF Pi!PiInv, Pi!OneHasBus, Pi!EventIsOurs, Pi!HasBus, Pi!Receive
<1>3. Pi!OnePhase'
  <2>1. \A v : Pi!InHand(v)' <=> Pi!InHand(v)
    BY DEF Pi!InHand, Pi!Receive
  <2>2. \A v : Pi!InQueue(v)' <=> Pi!InQueue(v)
    BY QueueSame DEF Pi!Receive
  <2>3. reply[u] = 1 /\ reply' = [reply EXCEPT ![u] = 0]
    <3>1. reply[u] \in 0 .. 1 /\ reply[u] > 0
      BY DEF Pi!PiInv, Pi!TypeOK, Pi!Receive
    <3>2. reply[u] = 1
      BY <3>1
    <3> QED
      BY <3>2 DEF Pi!Receive
  <2>4. ~Pi!InQueue(u) /\ ~Pi!InHand(u)
    BY <2>3 DEF Pi!PiInv, Pi!OnePhase
  <2> QED
    BY <2>1, <2>2, <2>3, <2>4 DEF Pi!PiInv, Pi!OnePhase, Pi!TypeOK, Pi!Receive
<1> QED
  BY <1>1, <1>2, <1>3 DEF Pi!PiInv

LEMMA IoInv ==
    ASSUME Pi!PiInv, NEW x \in IoUsers, Pi!GetAccess(x) \/ Pi!RelAccess(x)
    PROVE  Pi!PiInv'
<1>1. UNCHANGED <<upc, cmdq, evt, mgr, mb, pi, landed, reply>>
  BY DEF Pi!GetAccess, Pi!RelAccess
<1>2. Pi!TypeOK'
  BY DEF Pi!PiInv, Pi!TypeOK, Pi!GetAccess, Pi!RelAccess, Pi!Token
<1>3. Pi!OneHasBus'
  <2>1. CASE Pi!GetAccess(x)
    BY <2>1 DEF Pi!PiInv, Pi!OneHasBus, Pi!HasBus, Pi!TypeOK, Pi!GetAccess
  <2>2. CASE Pi!RelAccess(x)
    BY <2>2 DEF Pi!PiInv, Pi!OneHasBus, Pi!HasBus, Pi!TypeOK, Pi!RelAccess, Pi!Token
  <2> QED
    BY <2>1, <2>2
<1>4. Pi!EventIsOurs'
  BY <1>1 DEF Pi!PiInv, Pi!EventIsOurs
<1>5. Pi!OnePhase'
  <2>1. \A v : Pi!InHand(v)' <=> Pi!InHand(v)
    BY <1>1 DEF Pi!InHand
  <2>2. \A v : Pi!InQueue(v)' <=> Pi!InQueue(v)
    BY <1>1, QueueSame
  <2> QED
    BY <1>1, <2>1, <2>2 DEF Pi!PiInv, Pi!OnePhase
<1> QED
  BY <1>2, <1>3, <1>4, <1>5 DEF Pi!PiInv

LEMMA TakeInv ==
    ASSUME Pi!PiInv, Pi!TakeCommand
    PROVE  Pi!PiInv'
<1> DEFINE h == Head(cmdq)
<1>1. /\ mgr = "command" /\ mgr' = "access" /\ mb' = h
      /\ UNCHANGED <<upc, ipc, acs, evt, pi, landed, reply>>
  BY DEF Pi!TakeCommand
<1>2. /\ cmdq' \in Seq(Users)
      /\ h \in Users /\ Pi!InQueue(h)
      /\ \A v : Pi!InQueue(v)' <=> Pi!InQueue(v) /\ v # h
      /\ \A i, j \in 1 .. Len(cmdq') : cmdq'[i] = cmdq'[j] => i = j
  BY QueueTail DEF Pi!TakeCommand, Pi!PiInv, Pi!TypeOK, Pi!OnePhase
<1> HIDE DEF h
<1>3. Pi!TypeOK'
  BY <1>1, <1>2 DEF Pi!PiInv, Pi!TypeOK, Pi!Phases
<1>4. Pi!OneHasBus' /\ Pi!EventIsOurs'
  BY <1>1 DEF Pi!PiInv, Pi!OneHasBus, Pi!EventIsOurs, Pi!HasBus
<1>5. Pi!OnePhase'
  <2>1. \A v : ~Pi!InHand(v) /\ (Pi!InHand(v)' <=> v = h)
    BY <1>1 DEF Pi!InHand
  <2> QED
    BY <1>1, <1>2, <2>1 DEF Pi!PiInv, Pi!OnePhase
<1> QED
  BY <1>3, <1>4, <1>5 DEF Pi!PiInv

(* The steps of the manager, and of the hardware, that leave its command in hand. *)
LEMMA InHandInv ==
    ASSUME Pi!PiInv, Pi!TakeAccess \/ Pi!StartTransfer \/ Pi!TakeEvent \/ Pi!TransferEnds
    PROVE  Pi!PiInv'
<1>1. /\ UNCHANGED <<upc, ipc, cmdq, mb, reply>>
      /\ mgr' = mgr \/ {mgr, mgr'} \subseteq {"access", "start", "event", "reply"}
      /\ landed \subseteq landed'
  BY DEF Pi!TakeAccess, Pi!StartTransfer, Pi!TakeEvent,
         Pi!TransferEnds
<1>2. Pi!TypeOK'
  BY DEF Pi!PiInv, Pi!TypeOK, Pi!Phases, Pi!TakeAccess, Pi!StartTransfer, Pi!TakeEvent,
         Pi!TransferEnds
<1>3. Pi!OneHasBus' /\ Pi!EventIsOurs'
  <2>1. CASE Pi!TakeAccess
    BY <2>1 DEF Pi!PiInv, Pi!OneHasBus, Pi!EventIsOurs, Pi!HasBus, Pi!TypeOK, Pi!TakeAccess
  <2>2. CASE Pi!StartTransfer
    BY <2>2 DEF Pi!PiInv, Pi!OneHasBus, Pi!EventIsOurs, Pi!HasBus, Pi!TypeOK, Pi!StartTransfer
  <2>3. CASE Pi!TakeEvent
    BY <2>3 DEF Pi!PiInv, Pi!OneHasBus, Pi!EventIsOurs, Pi!HasBus, Pi!TypeOK, Pi!TakeEvent
  <2>4. CASE Pi!TransferEnds
    BY <2>4 DEF Pi!PiInv, Pi!OneHasBus, Pi!EventIsOurs, Pi!HasBus, Pi!TypeOK, Pi!TransferEnds
  <2> QED
    BY <2>1, <2>2, <2>3, <2>4
<1>4. Pi!OnePhase'
  <2>1. \A v : Pi!InHand(v)' <=> Pi!InHand(v)
    BY <1>1 DEF Pi!InHand
  <2>2. \A v : Pi!InQueue(v)' <=> Pi!InQueue(v)
    BY <1>1, QueueSame
  <2> QED
    BY <1>1, <2>1, <2>2 DEF Pi!PiInv, Pi!OnePhase
<1> QED
  BY <1>2, <1>3, <1>4 DEF Pi!PiInv

LEMMA AnswerInv ==
    ASSUME Pi!PiInv, Pi!Reply \/ Pi!Release
    PROVE  Pi!PiInv'
<1>1. UNCHANGED <<upc, ipc, cmdq, evt, mb, pi, landed>>
  BY DEF Pi!Reply, Pi!Release
<1>2. Pi!TypeOK'
  BY DEF Pi!PiInv, Pi!TypeOK, Pi!Phases, Pi!Reply, Pi!Release, Pi!Token
<1>3. Pi!OneHasBus' /\ Pi!EventIsOurs'
  <2>1. CASE Pi!Reply
    BY <2>1 DEF Pi!PiInv, Pi!OneHasBus, Pi!EventIsOurs, Pi!HasBus, Pi!TypeOK, Pi!Reply
  <2>2. CASE Pi!Release
    BY <2>2 DEF Pi!PiInv, Pi!OneHasBus, Pi!EventIsOurs, Pi!HasBus, Pi!TypeOK, Pi!Release, Pi!Token
  <2> QED
    BY <2>1, <2>2
<1>4. \A v : Pi!InQueue(v)' <=> Pi!InQueue(v)
  BY <1>1, QueueSame
<1>5. Pi!OnePhase'
  <2>1. CASE Pi!Reply
    <3>1. /\ mb \in Users /\ mb \in landed /\ reply' = [reply EXCEPT ![mb] = 1]
          /\ \A v : Pi!InHand(v) <=> v = mb
          /\ \A v : ~Pi!InHand(v)'
      BY <2>1 DEF Pi!PiInv, Pi!TypeOK, Pi!EventIsOurs, Pi!InHand, Pi!Reply
    <3>2. \A v \in Users : reply'[v] = IF v = mb THEN 1 ELSE reply[v]
      BY <3>1 DEF Pi!PiInv, Pi!TypeOK
    <3> QED
      BY <1>1, <1>4, <3>1, <3>2 DEF Pi!PiInv, Pi!OnePhase
  <2>2. CASE Pi!Release
    <3>1. \A v : ~Pi!InHand(v)' /\ ~Pi!InHand(v)
      BY <2>2 DEF Pi!InHand, Pi!Release
    <3> QED
      BY <1>1, <1>4, <2>2, <3>1 DEF Pi!PiInv, Pi!OnePhase, Pi!Release
  <2> QED
    BY <2>1, <2>2
<1> QED
  BY <1>2, <1>3, <1>5 DEF Pi!PiInv

LEMMA PiNextInv == Pi!PiInv /\ [Pi!Next]_(Pi!vars) => Pi!PiInv'
<1> SUFFICES ASSUME Pi!PiInv, [Pi!Next]_(Pi!vars) PROVE Pi!PiInv'
  OBVIOUS
<1>1. CASE UNCHANGED Pi!vars
  BY <1>1 DEF Pi!vars, Pi!PiInv, Pi!TypeOK, Pi!OneHasBus, Pi!EventIsOurs, Pi!OnePhase,
              Pi!HasBus, Pi!InQueue, Pi!InHand
<1>2. CASE Pi!Manager \/ Pi!TransferEnds
  BY <1>2, TakeInv, InHandInv, AnswerInv DEF Pi!Manager
<1>3. CASE \E u \in Users : Pi!Send(u) \/ Pi!Jam(u) \/ Pi!Receive(u)
  BY <1>3, StartDmaInv, UserInv
<1>4. CASE \E x \in IoUsers : Pi!GetAccess(x) \/ Pi!RelAccess(x)
  BY <1>4, IoInv
<1> QED
  BY <1>1, <1>2, <1>3, <1>4 DEF Pi!Next

(* devmgr.c:17-107, piacs.c:15-25: the bus has one user at any time, the event the
   manager waits for is that of its transfer, and each command is in exactly one
   phase while its user waits: an answer means that the data are there.       *)
THEOREM PiSafe == Pi!Spec => []PiInv
  BY PiInitInv, PiNextInv, PTL DEF Pi!Spec, PiInv

-----------------------------------------------------------------------------
(* What PiService calls serving and answered. *)
InService == IF mgr \in {"access", "start", "event", "reply"} THEN mb ELSE None
Answered == {u \in Users : reply[u] = 1}

LEMMA ServiceInit == Pi!Init => Pi!Service!Init
<1> SUFFICES ASSUME Pi!Init PROVE Pi!Service!Init
  OBVIOUS
<1>1. cmdq = <<>> /\ InService = None /\ Answered = {}
  BY DEF Pi!Init, InService, Answered
<1> QED
  BY <1>1 DEF Pi!Service!Init, InService, Answered

LEMMA ServiceStep ==
    ASSUME Pi!PiInv, [Pi!Next]_(Pi!vars)
    PROVE  [Pi!Service!Next]_<<cmdq, InService, Answered>>
<1>1. CASE UNCHANGED Pi!vars
  BY <1>1 DEF Pi!vars, InService, Answered
<1>2. ASSUME NEW u \in Users, Pi!Send(u) \/ Pi!Jam(u) PROVE Pi!Service!Ask(u)
  <2>1. Len(cmdq) < CmdCap /\ cmdq' \in {Append(cmdq, u), <<u>> \o cmdq}
    BY <1>2 DEF Pi!Send, Pi!Jam, Pi!StartDma
  <2>2. UNCHANGED <<InService, Answered>>
    BY <1>2 DEF Pi!Send, Pi!Jam, Pi!StartDma, InService, Answered
  <2> QED
    BY <2>1, <2>2 DEF Pi!Service!Ask, InService, Answered
<1>3. ASSUME NEW u \in Users, Pi!Receive(u) PROVE Pi!Service!Take(u)
  <2>1. UNCHANGED <<cmdq, InService>>
    BY <1>3 DEF Pi!Receive, InService
  <2>2. reply[u] = 1 /\ reply' = [reply EXCEPT ![u] = 0]
    <3>1. reply[u] \in 0 .. 1 /\ reply[u] > 0
      BY <1>3 DEF Pi!PiInv, Pi!TypeOK, Pi!Receive
    <3>2. reply[u] = 1
      BY <3>1
    <3> QED
      BY <1>3, <3>2 DEF Pi!Receive
  <2>3. u \in Answered /\ Answered' = Answered \ {u}
    BY <2>2 DEF Answered, Pi!PiInv, Pi!TypeOK
  <2> QED
    BY <2>1, <2>3 DEF Pi!Service!Take, InService, Answered
<1>4. ASSUME NEW x \in IoUsers, Pi!GetAccess(x) \/ Pi!RelAccess(x)
      PROVE  UNCHANGED <<cmdq, InService, Answered>>
  BY <1>4 DEF Pi!GetAccess, Pi!RelAccess, InService, Answered
<1>5. ASSUME Pi!TakeCommand PROVE Pi!Service!Serve
  <2>1. /\ InService = None /\ InService' = Head(cmdq)
        /\ cmdq # <<>> /\ cmdq' = Tail(cmdq)
        /\ UNCHANGED Answered
    BY <1>5 DEF Pi!TakeCommand, InService, Answered
  <2> QED
    BY <2>1 DEF Pi!Service!Serve, InService, Answered
<1>6. ASSUME Pi!TakeAccess \/ Pi!StartTransfer \/ Pi!TakeEvent \/ Pi!TransferEnds \/ Pi!Release
      PROVE  UNCHANGED <<cmdq, InService, Answered>>
  BY <1>6 DEF Pi!TakeAccess, Pi!StartTransfer, Pi!TakeEvent, Pi!TransferEnds,
              Pi!Release, InService, Answered
<1>7. ASSUME Pi!Reply PROVE Pi!Service!Answer
  <2>1. mb \in Users /\ InService = mb /\ InService' = None /\ UNCHANGED cmdq
    BY <1>7 DEF Pi!Reply, InService, Pi!PiInv, Pi!TypeOK
  <2>2. Answered' = Answered \cup {mb}
    BY <1>7, <2>1 DEF Pi!Reply, Answered, Pi!PiInv, Pi!TypeOK
  <2> QED
    BY <2>1, <2>2 DEF Pi!Service!Answer, InService, Answered
<1> QED
  BY <1>1, <1>2, <1>3, <1>4, <1>5, <1>6, <1>7 DEF Pi!Next, Pi!Manager, Pi!Service!Next

(* devmgr.c:17-107: whoever starts DMAs sees one service that executes the commands
   one at a time in the order of the queue, and answers each when it is done.  *)
THEOREM PiImplementsService == Pi!Spec => PiServiceSpec
<1>1. Pi!Init => Pi!Service!Init
  BY ServiceInit
<1>2. Pi!PiInv /\ [Pi!Next]_(Pi!vars) => [Pi!Service!Next]_<<cmdq, InService, Answered>>
  BY ServiceStep
<1>3. Pi!Spec => []Pi!PiInv
  BY PiSafe DEF PiInv
<1> QED
  BY <1>1, <1>2, <1>3, PTL
     DEF Pi!Spec, PiServiceSpec, Pi!PiServiceSpec, Pi!Service!Spec, InService, Answered
=============================================================================
