-------------------------------- MODULE PiMgr --------------------------------
(***************************************************************************)
(* The PI manager of libultra, which owns the bus of the cartridge: the       *)
(* thread __osDevMgrMain (io/devmgr.c) between the threads that queue         *)
(* commands, the interrupt at the end of a transfer, and the threads that     *)
(* use the bus themselves while they hold the access token (io/piacs.c).      *)
(*                                                                         *)
(* The state begins after osCreatePiManager.  Commands are DMAs, by           *)
(* osPiStartDma or osEPiStartDma, of a device other than the disk drive.      *)
(***************************************************************************)
EXTENDS Integers, Sequences

CONSTANTS
    Users,      \* threads that start DMAs, each with an OSIoMesg and a queue
    IoUsers,    \* threads that read or write the bus directly
    None,
    CmdCap      \* messages sPiMgrCmdQueue has room for

PiAssumption ==
    /\ None \notin Users
    /\ CmdCap \in Nat \ {0}

VARIABLES
    upc,        \* upc[u]: "idle", or "wait" for the answer
    ipc,        \* ipc[x]: "idle", or "io" while x has the bus
    cmdq,       \* the command queue
    acs,        \* messages in __osPiAccessQueue, which holds one: the token
    evt,        \* messages in piEventQueue, which holds one
    mgr,        \* where the manager is
    mb,         \* its command
    pi,         \* the transfer the hardware is executing
    landed,     \* the users whose data have arrived
    reply       \* reply[u]: messages in the queue of u, which holds one

vars == <<upc, ipc, cmdq, acs, evt, mgr, mb, pi, landed, reply>>

Init ==
    /\ upc = [u \in Users |-> "idle"]
    /\ ipc = [x \in IoUsers |-> "idle"]
    /\ cmdq = <<>> /\ acs = 1 /\ evt = 0
    /\ mgr = "command" /\ mb = None /\ pi = None
    /\ landed = {}
    /\ reply = [u \in Users |-> 0]

-----------------------------------------------------------------------------
\* osPiStartDma: with OS_MESG_PRI_HIGH in front of the others.  A full queue is
\* reported and nothing is started.
StartDma(u, q) ==
    /\ upc[u] = "idle" /\ Len(cmdq) < CmdCap
    /\ cmdq' = q
    /\ upc' = [upc EXCEPT ![u] = "wait"]
    /\ landed' = landed \ {u}
    /\ UNCHANGED <<ipc, acs, evt, mgr, mb, pi, reply>>

Send(u) == StartDma(u, Append(cmdq, u))
Jam(u) == StartDma(u, <<u>> \o cmdq)

\* The user's osRecvMesg.
Receive(u) ==
    /\ upc[u] = "wait" /\ reply[u] > 0
    /\ reply' = [reply EXCEPT ![u] = @ - 1]
    /\ upc' = [upc EXCEPT ![u] = "idle"]
    /\ UNCHANGED <<ipc, cmdq, acs, evt, mgr, mb, pi, landed>>

\* __osPiGetAccess and __osPiRelAccess around registers of the bus.
GetAccess(x) ==
    /\ ipc[x] = "idle" /\ acs > 0
    /\ acs' = acs - 1
    /\ ipc' = [ipc EXCEPT ![x] = "io"]
    /\ UNCHANGED <<upc, cmdq, evt, mgr, mb, pi, landed, reply>>

\* OS_MESG_NOBLOCK: a second token would be dropped.
Token == acs' = IF acs = 0 THEN 1 ELSE acs

RelAccess(x) ==
    /\ ipc[x] = "io"
    /\ Token
    /\ ipc' = [ipc EXCEPT ![x] = "idle"]
    /\ UNCHANGED <<upc, cmdq, evt, mgr, mb, pi, landed, reply>>

-----------------------------------------------------------------------------
(* __osDevMgrMain. *)

\* Variant: the last command is taken first.
TakeLast ==
    /\ mgr = "command" /\ cmdq # <<>>
    /\ mb' = cmdq[Len(cmdq)] /\ cmdq' = SubSeq(cmdq, 1, Len(cmdq) - 1)
    /\ mgr' = "access"
    /\ UNCHANGED <<upc, ipc, acs, evt, pi, landed, reply>>

TakeCommand ==
    /\ mgr = "command" /\ cmdq # <<>>
    /\ mb' = Head(cmdq) /\ cmdq' = Tail(cmdq)
    /\ mgr' = "access"
    /\ UNCHANGED <<upc, ipc, acs, evt, pi, landed, reply>>

\* Variant: the bus is not asked for.
TakeNoAccess ==
    /\ mgr = "access"
    /\ mgr' = "start"
    /\ UNCHANGED <<upc, ipc, cmdq, acs, evt, mb, pi, landed, reply>>

TakeAccess ==
    /\ mgr = "access" /\ acs > 0
    /\ acs' = acs - 1
    /\ mgr' = "start"
    /\ UNCHANGED <<upc, ipc, cmdq, evt, mb, pi, landed, reply>>

\* dm->dma: the transfer starts once the bus is idle.
StartTransfer ==
    /\ mgr = "start" /\ pi = None
    /\ pi' = mb
    /\ mgr' = "event"
    /\ UNCHANGED <<upc, ipc, cmdq, acs, evt, mb, landed, reply>>

TakeEvent ==
    /\ mgr = "event" /\ evt > 0
    /\ evt' = evt - 1
    /\ mgr' = "reply"
    /\ UNCHANGED <<upc, ipc, cmdq, acs, mb, pi, landed, reply>>

Reply ==
    /\ mgr = "reply"
    /\ reply' = [reply EXCEPT ![mb] = 1]
    /\ mgr' = "release"
    /\ UNCHANGED <<upc, ipc, cmdq, acs, evt, mb, pi, landed>>

\* Variant: the token is kept.
ReleaseNothing ==
    /\ mgr = "release"
    /\ mgr' = "command"
    /\ UNCHANGED <<upc, ipc, cmdq, acs, evt, mb, pi, landed, reply>>

Release ==
    /\ mgr = "release"
    /\ Token
    /\ mgr' = "command"
    /\ UNCHANGED <<upc, ipc, cmdq, evt, mb, pi, landed, reply>>

\* The hardware is done and interrupts: send_mesg.
TransferEnds ==
    /\ pi # None
    /\ landed' = landed \cup {pi}
    /\ pi' = None
    /\ evt' = 1
    /\ UNCHANGED <<upc, ipc, cmdq, acs, mgr, mb, reply>>

Manager == TakeCommand \/ TakeAccess \/ StartTransfer \/ TakeEvent \/ Reply \/ Release

Next == \/ Manager \/ TransferEnds
        \/ \E u \in Users : Send(u) \/ Jam(u) \/ Receive(u)
        \/ \E x \in IoUsers : GetAccess(x) \/ RelAccess(x)

Spec == Init /\ [][Next]_vars

\* The manager is the thread of the highest priority but one, and threads with the
\* bus let go of it; it gets the token in its turn, since waiting threads do.
Fairness ==
    /\ SF_vars(Manager) /\ WF_vars(TransferEnds)
    /\ \A x \in IoUsers : WF_vars(RelAccess(x))

-----------------------------------------------------------------------------
Phases == {"command", "access", "start", "event", "reply", "release"}

TypeOK ==
    /\ upc \in [Users -> {"idle", "wait"}]
    /\ ipc \in [IoUsers -> {"idle", "io"}]
    /\ cmdq \in Seq(Users)
    /\ acs \in 0 .. 1 /\ evt \in 0 .. 1
    /\ mgr \in Phases
    /\ mb \in Users \cup {None} /\ (mgr # "command" => mb \in Users)
    /\ pi \in Users \cup {None}
    /\ landed \subseteq Users
    /\ reply \in [Users -> 0 .. 1]

HasBus == mgr \in {"start", "event", "reply", "release"}

\* piacs.c:15-25, devmgr.c:77-104: the manager, or one of the other threads, or the
\* queue has the token; and while a transfer is under way it is the manager.
OneHasBus ==
    /\ acs = 1 => ~HasBus /\ \A x \in IoUsers : ipc[x] = "idle"
    /\ HasBus => \A x \in IoUsers : ipc[x] = "idle"
    /\ \A x, y \in IoUsers : ipc[x] = "io" /\ ipc[y] = "io" => x = y
    /\ acs = 0 => HasBus \/ \E x \in IoUsers : ipc[x] = "io"
    /\ pi # None => mgr = "event"

\* devmgr.c:102: the event the manager waits for is that of its own transfer.
EventIsOurs ==
    /\ mgr = "event" => (pi = mb /\ evt = 0) \/ (pi = None /\ evt = 1 /\ mb \in landed)
    /\ mgr # "event" => pi = None /\ evt = 0
    /\ mgr = "reply" => mb \in landed

InQueue(u) == \E i \in 1 .. Len(cmdq) : cmdq[i] = u
InHand(u) == mb = u /\ mgr \in {"access", "start", "event", "reply"}

\* devmgr.c:18-104: a command is queued once, then executed, then answered, and it
\* is in one of these phases exactly while its user waits.
OnePhase ==
    /\ \A i, j \in 1 .. Len(cmdq) : cmdq[i] = cmdq[j] => i = j
    /\ \A u \in Users :
         /\ ~(InQueue(u) /\ InHand(u))
         /\ reply[u] = 1 => ~InQueue(u) /\ ~InHand(u) /\ u \in landed
         /\ upc[u] = "wait" <=> InQueue(u) \/ InHand(u) \/ reply[u] = 1

\* Together these say that an answer means that the data are there.
PiInv == TypeOK /\ OneHasBus /\ EventIsOurs /\ OnePhase

Service == INSTANCE PiService WITH
    waiting  <- cmdq,
    serving  <- IF mgr \in {"access", "start", "event", "reply"} THEN mb ELSE None,
    answered <- {u \in Users : reply[u] = 1}

\* devmgr.c:17-107: what users see of the manager is one service, in the order of
\* the queue, whoever uses the bus besides.
PiServiceSpec == Service!Spec

\* devmgr.c:77, 102: no command is stuck behind a token or an event that never
\* comes: whoever started a DMA is answered, unless others go on jamming theirs.
DmaAnswered ==
    <>[][\A u \in Users : ~Jam(u)]_vars =>
        \A u \in Users : upc[u] = "wait" ~> reply[u] = 1

=============================================================================
