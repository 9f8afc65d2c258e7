------------------------------- MODULE DmaMgr -------------------------------
(***************************************************************************)
(* The DMA manager of src/main/dmamgr.c: the threads that call             *)
(* DmaMgr_RequestSync or DmaMgr_SendRequest (Clients), the DMA manager      *)
(* thread, and the PI manager thread of libultra that owns the cartridge    *)
(* bus.  They communicate through bounded OSMesgQueues only.                *)
(*                                                                         *)
(* A request of 0x10 bytes or more is served in two phases.  The client     *)
(* has the first 0x10 bytes read into its buffer; the DMA thread looks at   *)
(* them for the magic number of a packed file, and has the data read, in    *)
(* chunks of 0x1000 bytes, either over that header (plain file) or into a   *)
(* work buffer that is unpacked into the client's buffer afterwards.        *)
(*                                                                         *)
(* Every osSendMesg, osJamMesg, osRecvMesg and osPiStartDma is one step:    *)
(* libultra runs them with interrupts disabled.  Thread priorities are not  *)
(* used: every interleaving of the steps is allowed.                        *)
(***************************************************************************)
EXTENDS Integers, Sequences, FiniteSets

CONSTANTS
    Clients,       \* the threads that request transfers
    Kinds,         \* the requests they may make, see KindType
    ReqCap,        \* capacity of D_8010ED50, 10 in the code
    DoneCap,       \* capacity of D_8010ED10, 10 in the code
    PiCap,         \* capacity of the PI command queue, 8 in the code
    HeapMayFail,   \* TRUE when func_80064D1C may return NULL
    None           \* no client

(* The data of a request take "parts" chunks of at most 0x1000 bytes, and
   0 stands for a request below 0x10 bytes, which has no header phase.
   "packed": the file starts with the CMPR magic.  "work": the caller gave a
   work buffer (arg4).  "reply": the caller gave a queue for the answer.     *)
KindType == [parts : Nat, packed : BOOLEAN, work : BOOLEAN, reply : BOOLEAN]

ASSUME DmaAssumption ==
    /\ None \notin Clients
    /\ IsFiniteSet(Clients)
    /\ Kinds \subseteq KindType
    /\ \A k \in Kinds : k.parts = 0 => ~k.packed
    /\ {ReqCap, DoneCap, PiCap} \subseteq Nat \ {0}
    /\ HeapMayFail \in BOOLEAN

VARIABLES
    pc,      \* pc[c]: where client c is in DmaMgr_SendRequest / RequestSync
    req,     \* req[c]: the DmaRequest of client c
    io,      \* io[c]: the OSIoMesg inside req[c]
    reply,   \* reply[c]: number of messages in the answer queue, capacity 1
    reqq,    \* D_8010ED50, the requests in flight, oldest first
    doneq,   \* D_8010ED10, one token per finished PI command
    startq,  \* messages in the local startQueue of DmaMgr_Read, capacity 1
    dpc,     \* where the DMA thread is
    cur,     \* the request the DMA thread works on
    chunk,   \* the chunk DmaMgr_Read starts next
    piq,     \* the PI command queue
    pi,      \* the PI command being executed
    landed,  \* landed[c]: the parts that have arrived in memory
    dest,    \* dest[c]: what the client's buffer holds
    heap     \* the clients whose request owns an allocated work buffer

vars == <<pc, req, io, reply, reqq, doneq, startq, dpc, cur, chunk, piq, pi,
          landed, dest, heap>>

clientVars == <<pc, reply>>
dmaVars == <<dpc, cur, chunk>>
memory == <<landed, dest, heap>>

(* The fields of a DmaRequest that change while it is served, and "kind": its
   size, file and caller.  "header": unk10, the header is still to be looked
   at; "unpack": unk11, the file is packed; "parts": unk1C, in chunks.        *)
RequestType == [header : BOOLEAN, unpack : BOOLEAN, parts : Nat, kind : Kinds]

NoTransfer == [for |-> None, part |-> 0]

Init ==
    /\ pc = [c \in Clients |-> "idle"]
    /\ req \in [Clients -> {[header |-> FALSE, unpack |-> FALSE, parts |-> 0,
                             kind |-> k] : k \in Kinds}]
    /\ io = [c \in Clients |-> [part |-> 0, ret |-> "done"]]
    /\ reply = [c \in Clients |-> 0]
    /\ reqq = <<>> /\ doneq = <<>> /\ startq = 0 /\ piq = <<>>
    /\ dpc = "done?" /\ cur = None /\ chunk = 1
    /\ pi = NoTransfer
    /\ landed = [c \in Clients |-> {}]
    /\ dest = [c \in Clients |-> "old"]
    /\ heap = {}

-----------------------------------------------------------------------------
(* The client threads. *)

(* The first half of DmaMgr_SendRequest: the fields of the request. *)
FillRequest(c) ==
    /\ pc[c] = "idle"
    /\ \E k \in Kinds :
         req' = [req EXCEPT ![c] = [header |-> k.parts > 0, unpack |-> FALSE,
                                    parts |-> 0, kind |-> k]]
    /\ pc' = [pc EXCEPT ![c] = "push"]
    /\ reply' = [reply EXCEPT ![c] = 0]
    /\ landed' = [landed EXCEPT ![c] = {}]
    /\ dest' = [dest EXCEPT ![c] = "old"]
    /\ UNCHANGED <<io, reqq, doneq, startq, dmaVars, piq, pi, heap>>

(* osSendMesg(&D_8010ED50, req, OS_MESG_BLOCK) *)
PushRequest(c) ==
    /\ pc[c] = "push"
    /\ Len(reqq) < ReqCap
    /\ reqq' = Append(reqq, c)
    /\ pc' = [pc EXCEPT ![c] = "start"]
    /\ UNCHANGED <<req, io, reply, doneq, startq, dmaVars, piq, pi, memory>>

(* osPiStartDma fills the OSIoMesg and queues it, at the front for high
   priority.  It does not block, and DmaMgr_Read drops its result: a command
   that finds the queue full is lost.                                        *)
StartDma(c, part, ret, high) ==
    /\ io' = [io EXCEPT ![c] = [part |-> part, ret |-> ret]]
    /\ piq' = IF Len(piq) = PiCap THEN piq
              ELSE IF high THEN <<c>> \o piq ELSE Append(piq, c)

(* DmaMgr_Read for the header, or for all of a small request.  A caller that
   gave no answer queue goes its own way.                                    *)
StartHeader(c) ==
    /\ pc[c] = "start"
    /\ StartDma(c, 0, "done", TRUE)
    /\ pc' = [pc EXCEPT ![c] = IF req[c].kind.reply THEN "wait" ELSE "sent"]
    /\ UNCHANGED <<req, reply, reqq, doneq, startq, dmaVars, pi, memory>>

(* osRecvMesg(&queue, NULL, OS_MESG_BLOCK) of DmaMgr_RequestSync. *)
RecvReply(c) ==
    /\ pc[c] = "wait"
    /\ reply[c] > 0
    /\ reply' = [reply EXCEPT ![c] = 0]
    /\ pc' = [pc EXCEPT ![c] = "idle"]
    /\ UNCHANGED <<req, io, reqq, doneq, startq, dmaVars, piq, pi, memory>>

-----------------------------------------------------------------------------
(* The DMA manager thread. *)

(* Variant: the thread does not wait for the PI. *)
TakeDoneNoWait ==
    /\ dpc = "done?"
    /\ doneq' = IF doneq = <<>> THEN doneq ELSE Tail(doneq)
    /\ dpc' = "request?"
    /\ UNCHANGED <<clientVars, req, io, reqq, startq, cur, chunk, piq, pi, memory>>

(* osRecvMesg(&D_8010ED10, &msg, OS_MESG_BLOCK).  The token is not looked at:
   it says that some command is over, not which.                             *)
TakeDone ==
    /\ dpc = "done?"
    /\ doneq # <<>>
    /\ doneq' = Tail(doneq)
    /\ dpc' = "request?"
    /\ UNCHANGED <<clientVars, req, io, reqq, startq, cur, chunk, piq, pi, memory>>

(* Variant: the request is looked at and left in the queue. *)
TakeRequestPeek ==
    /\ dpc = "request?"
    /\ reqq # <<>>
    /\ cur' = Head(reqq)
    /\ dpc' = "inspect"
    /\ UNCHANGED <<clientVars, req, io, reqq, doneq, startq, chunk, piq, pi, memory>>

(* osRecvMesg(&D_8010ED50, &msg, OS_MESG_BLOCK): the oldest request. *)
TakeRequest ==
    /\ dpc = "request?"
    /\ reqq # <<>>
    /\ cur' = Head(reqq)
    /\ reqq' = Tail(reqq)
    /\ dpc' = "inspect"
    /\ UNCHANGED <<clientVars, req, io, doneq, startq, chunk, piq, pi, memory>>

(* Variant: the header phase is taken for the last one. *)
NoHeaderLeftUnguarded ==
    /\ dpc = "inspect"
    /\ dpc' = "finish"
    /\ UNCHANGED <<clientVars, req, io, reqq, doneq, startq, cur, chunk, piq, pi,
                   memory>>

(* func_8007DC5C returns 0: the last phase of this request is over. *)
NoHeaderLeft ==
    /\ dpc = "inspect"
    /\ ~req[cur].header
    /\ dpc' = "finish"
    /\ UNCHANGED <<clientVars, req, io, reqq, doneq, startq, cur, chunk, piq, pi,
                   memory>>

(* What the DMA thread can see in the first word of the buffer: the file's own
   header if it has arrived, anything if it has not.                         *)
HeaderViews(c) ==
    IF 0 \in landed[c] THEN {req[c].kind.packed} ELSE BOOLEAN

(* The size in the second word of a packed file's header, in chunks. *)
PackedSizes(c) ==
    IF 0 \in landed[c] THEN {req[c].kind.parts} ELSE {k.parts : k \in Kinds}

(* func_8007DC5C up to the second osSendMesg: a plain file. *)
PlainHeader ==
    /\ dpc = "inspect"
    /\ req[cur].header
    /\ FALSE \in HeaderViews(cur)
    /\ req' = [req EXCEPT ![cur] = [@ EXCEPT !.header = FALSE, !.parts = req[cur].kind.parts]]
    /\ dpc' = "requeue"
    /\ UNCHANGED <<clientVars, io, reqq, doneq, startq, cur, chunk, piq, pi, memory>>

(* The same for a packed file, which needs a work buffer. *)
PackedHeader ==
    /\ dpc = "inspect"
    /\ req[cur].header
    /\ TRUE \in HeaderViews(cur)
    /\ \E n \in PackedSizes(cur) :
         req' = [req EXCEPT ![cur] = [@ EXCEPT !.header = FALSE, !.unpack = TRUE,
                                               !.parts = n]]
    /\ heap' = IF req[cur].kind.work THEN heap ELSE heap \cup {cur}
    /\ dpc' = "requeue"
    /\ UNCHANGED <<clientVars, io, reqq, doneq, startq, cur, chunk, piq, pi, landed,
                   dest>>

(* func_80064D1C returned NULL: func_8007DC5C returns -1 and the thread goes
   on with the next request.  Nothing is sent to the client.                 *)
NoWorkBuffer ==
    /\ dpc = "inspect"
    /\ HeapMayFail
    /\ req[cur].header
    /\ TRUE \in HeaderViews(cur)
    /\ ~req[cur].kind.work
    /\ \E n \in PackedSizes(cur) :
         req' = [req EXCEPT ![cur] = [@ EXCEPT !.header = FALSE, !.unpack = TRUE,
                                               !.parts = n]]
    /\ dpc' = "done?"
    /\ cur' = None
    /\ UNCHANGED <<clientVars, io, reqq, doneq, startq, chunk, piq, pi, memory>>

(* Variant: the request is not put back for its second phase. *)
RequeueForgotten ==
    /\ dpc = "requeue"
    /\ chunk' = 1
    /\ dpc' = "chunk"
    /\ UNCHANGED <<clientVars, req, io, reqq, doneq, startq, cur, piq, pi, memory>>

(* osSendMesg(&D_8010ED50, req, OS_MESG_BLOCK) by the queue's only reader. *)
Requeue ==
    /\ dpc = "requeue"
    /\ Len(reqq) < ReqCap
    /\ reqq' = Append(reqq, cur)
    /\ chunk' = 1
    /\ dpc' = "chunk"
    /\ UNCHANGED <<clientVars, req, io, doneq, startq, cur, piq, pi, memory>>

(* One turn of the loop of DmaMgr_Read, which has the chunk reported to a queue
   of its own, or the osPiStartDma behind the loop, reported to endQueue.     *)
ChunkTo(endQueue) ==
    /\ dpc = "chunk"
    /\ IF chunk < req[cur].parts
       THEN /\ StartDma(cur, chunk, "start", FALSE)
            /\ dpc' = "chunk?"
            /\ UNCHANGED cur
       ELSE /\ StartDma(cur, chunk, endQueue, FALSE)
            /\ dpc' = "done?"
            /\ cur' = None
    /\ UNCHANGED <<clientVars, req, reqq, doneq, startq, chunk, pi, memory>>

StartChunk == ChunkTo("done")

TakeChunk ==
    /\ dpc = "chunk?"
    /\ startq > 0
    /\ startq' = startq - 1
    /\ chunk' = chunk + 1
    /\ dpc' = "chunk"
    /\ UNCHANGED <<clientVars, req, io, reqq, doneq, cur, piq, pi, memory>>

(* All the data of the request are in memory, and it was known for what it is.
   Part 0 is the header, or all of a request that has no header phase.       *)
Arrived(c) ==
    /\ req[c].unpack = req[c].kind.packed
    /\ IF req[c].kind.parts = 0 THEN 0 \in landed[c]
       ELSE 1 .. req[c].kind.parts \subseteq landed[c]

(* Variant: osSendMesg is forgotten. *)
FinishSilently(freed) ==
    /\ dpc = "finish"
    /\ dest' = [dest EXCEPT ![cur] = IF Arrived(cur) THEN "data" ELSE "partial"]
    /\ heap' = heap \ freed
    /\ dpc' = "done?"
    /\ cur' = None
    /\ UNCHANGED <<clientVars, req, io, reqq, doneq, startq, chunk, piq, pi, landed>>

(* The rest of the loop of DmaMgr_ThreadEntry: unpack, free, answer.  The
   answer is not waited for: a full answer queue drops it.                   *)
FinishFreeing(freed) ==
    /\ dpc = "finish"
    /\ dest' = [dest EXCEPT ![cur] = IF Arrived(cur) THEN "data" ELSE "partial"]
    /\ heap' = heap \ freed
    /\ reply' = [reply EXCEPT ![cur] = IF req[cur].kind.reply THEN 1 ELSE @]
    /\ dpc' = "done?"
    /\ cur' = None
    /\ UNCHANGED <<pc, req, io, reqq, doneq, startq, chunk, piq, pi, landed>>

(* Variant: the work buffer is not freed. *)
FinishLeaky == FinishFreeing({})

Finish == FinishFreeing(IF req[cur].unpack /\ ~req[cur].kind.work
                        THEN {cur} ELSE {})

-----------------------------------------------------------------------------
(* The PI manager of libultra, __osDevMgrMain. *)

PiStart ==
    /\ pi = NoTransfer
    /\ piq # <<>>
    /\ pi' = [for |-> Head(piq), part |-> io[Head(piq)].part]
    /\ piq' = Tail(piq)
    /\ UNCHANGED <<clientVars, req, io, reqq, doneq, startq, dmaVars, memory>>

(* The PI interrupt: the data are in memory, and the queue that the OSIoMesg
   names now gets a message, if it has room.                                 *)
PiDone ==
    /\ pi # NoTransfer
    /\ landed' = [landed EXCEPT ![pi.for] = @ \cup {pi.part}]
    /\ IF io[pi.for].ret = "done"
       THEN /\ doneq' = IF Len(doneq) < DoneCap THEN Append(doneq, pi.for) ELSE doneq
            /\ UNCHANGED startq
       ELSE /\ startq' = 1
            /\ UNCHANGED doneq
    /\ pi' = NoTransfer
    /\ UNCHANGED <<clientVars, req, io, reqq, dmaVars, piq, dest, heap>>

-----------------------------------------------------------------------------
Client(c) == FillRequest(c) \/ PushRequest(c) \/ StartHeader(c) \/ RecvReply(c)

DmaThread ==
    \/ TakeDone \/ TakeRequest \/ NoHeaderLeft \/ PlainHeader \/ PackedHeader
    \/ NoWorkBuffer \/ Requeue \/ StartChunk \/ TakeChunk \/ Finish

PiManager == PiStart \/ PiDone

Next == (\E c \in Clients : Client(c)) \/ DmaThread \/ PiManager

Spec == Init /\ [][Next]_vars

(* No thread of a higher priority than these ever polls: each of them runs
   until it waits for a message, so a step that stays possible is taken.  A
   client is never forced to make a request.                                 *)
Fairness ==
    /\ \A c \in Clients : WF_vars(PushRequest(c) \/ StartHeader(c) \/ RecvReply(c))
    /\ WF_vars(DmaThread)
    /\ WF_vars(PiManager)

FairSpec == Spec /\ Fairness

-----------------------------------------------------------------------------
TypeOK ==
    /\ pc \in [Clients -> {"idle", "push", "start", "wait", "sent"}]
    /\ req \in [Clients -> RequestType]
    /\ io \in [Clients -> [part : Nat, ret : {"start", "done"}]]
    /\ reply \in [Clients -> {0, 1}]
    /\ reqq \in Seq(Clients) /\ Len(reqq) <= ReqCap
    /\ doneq \in Seq(Clients) /\ Len(doneq) <= DoneCap
    /\ piq \in Seq(Clients) /\ Len(piq) <= PiCap
    /\ startq \in {0, 1}
    /\ dpc \in {"done?", "request?", "inspect", "requeue", "chunk", "chunk?", "finish"}
    /\ cur \in Clients \cup {None}
    /\ cur = None <=> dpc \in {"done?", "request?"}
    /\ chunk \in Nat
    /\ pi \in [for : Clients, part : Nat] \cup {NoTransfer}
    /\ landed \in [Clients -> SUBSET Nat]
    /\ dest \in [Clients -> {"old", "partial", "data"}]
    /\ heap \subseteq Clients

(* A client is answered only when all its data are in its buffer, and unpacked
   if they were packed.  The DMA thread pairs tokens with requests by their
   order alone, so this rests on the order in which the PI works.            *)
AnswerMeansData == \A c \in Clients : dest[c] # "partial"

(* The DMA thread looks for the magic number only after the header arrived in
   the buffer: before that it would act on whatever the buffer held.         *)
HeaderArrived == dpc = "inspect" => 0 \in landed[cur]

(* DmaMgr_RequestSync keeps the request, its OSIoMesg and the answer queue on
   the stack of the caller: once it has returned no queue, and neither the DMA
   nor the PI thread, may hold a pointer to them.                            *)
RequestOutlivesUse ==
    \A c \in Clients : pc[c] = "idle" =>
        /\ \A i \in 1 .. Len(reqq) : reqq[i] # c
        /\ \A i \in 1 .. Len(piq) : piq[i] # c
        /\ cur # c
        /\ pi.for # c

(* Every work buffer that the DMA thread allocated is freed by the time the
   client returns.                                                           *)
WorkBufferFreed == \A c \in Clients : pc[c] = "idle" => c \notin heap

(* The DMA thread is the only reader of D_8010ED50 and writes to it with
   OS_MESG_BLOCK: if it ever found the queue full it would wait for itself.   *)
RequeueNeverBlocks == dpc = "requeue" => Len(reqq) < ReqCap

(* A request is in D_8010ED50 at most once, and not while the DMA thread has it
   in hand; and a client that is not in its call, or that has its answer, has no
   request there or in hand.                                                 *)
Queued(c) == \E i \in 1 .. Len(reqq) : reqq[i] = c

QueueInv ==
    /\ \A i, j \in 1 .. Len(reqq) : reqq[i] = reqq[j] => i = j
    /\ dpc \in {"inspect", "requeue", "finish"} => ~Queued(cur)
    /\ \A c \in Clients :
         pc[c] \in {"idle", "push"} \/ reply[c] > 0 => ~Queued(c) /\ cur # c
    /\ \A c \in Clients : pc[c] = "push" => reply[c] = 0

(* No PI command is lost although DmaMgr_Read ignores the result of
   osPiStartDma.                                                             *)
CommandFits ==
    dpc = "chunk" \/ (\E c \in Clients : pc[c] = "start") => Len(piq) < PiCap

(* The PI commands that will put a token into D_8010ED10. *)
FinalCommands ==
    Cardinality({i \in 1 .. Len(piq) : io[piq[i]].ret = "done"})
    + Cardinality({t \in {pi} \ {NoTransfer} : io[t.for].ret = "done"})

(* Tokens and requests stay in step: for every request in D_8010ED50 one token
   is in D_8010ED10, or is still to come.  A token too few, and somebody waits
   for ever; one too many, and the thread takes a request that is not there.  *)
OneTokenPerRequest ==
    Len(reqq) = Len(doneq) + FinalCommands
                + Cardinality({c \in Clients : pc[c] = "start"})
                + (IF dpc \in {"request?", "chunk", "chunk?"} THEN 1 ELSE 0)

(* A packed request for which there was no work buffer: its header was looked
   at, nobody has it any more, and its buffer was left alone.                *)
GivenUp(c) ==
    /\ HeapMayFail
    /\ req[c].unpack /\ ~req[c].kind.work /\ ~req[c].header
    /\ ~Queued(c) /\ cur # c /\ dest[c] = "old"

(* dmamgr.c:69, 108-110, 133-148: DmaMgr_RequestSync returns, because its answer
   has come, and the buffer of a client that wanted no answer is filled, whatever
   else is going on; except that a request without a work buffer is given up and
   its client waits for ever.                                                *)
EveryRequestAnswered ==
    \A c \in Clients : pc[c] = "push" ~>
        \/ pc[c] = "idle"
        \/ pc[c] = "sent" /\ dest[c] = "data"
        \/ GivenUp(c)

-----------------------------------------------------------------------------
(* Where the one request of a single client can be: an invariant strong enough
   to be inductive.  At any time there is at most one message in the queues of
   the PI, so the oldest request is the one the next token belongs to.        *)

NoCommand == piq = <<>> /\ pi = NoTransfer /\ doneq = <<>> /\ startq = 0

(* The one command there is: queued, being executed, or over. *)
OneCommand(c, part, ret) ==
    /\ io[c] = [part |-> part, ret |-> ret]
    /\ \/ piq = <<c>> /\ pi = NoTransfer /\ doneq = <<>> /\ startq = 0
       \/ piq = <<>> /\ pi = [for |-> c, part |-> part] /\ doneq = <<>> /\ startq = 0
       \/ /\ piq = <<>> /\ pi = NoTransfer /\ part \in landed[c]
          /\ IF ret = "done" THEN doneq = <<c>> /\ startq = 0
             ELSE doneq = <<>> /\ startq = 1

(* The request has its header still to be looked at, or is too small for one;
   its header has been looked at.                                            *)
FirstPhase(c) ==
    /\ req[c].header <=> req[c].kind.parts > 0
    /\ ~req[c].unpack
    /\ heap = {}

SecondPhase(c) ==
    /\ ~req[c].header
    /\ req[c].kind.parts > 0
    /\ req[c].unpack = req[c].kind.packed
    /\ req[c].parts = req[c].kind.parts
    /\ 0 \in landed[c]
    /\ heap \subseteq IF req[c].unpack /\ ~req[c].kind.work THEN {c} ELSE {}

AtRest(c) ==
    /\ dpc = "done?" /\ NoCommand /\ reqq = <<>> /\ heap = {}
    /\ \/ pc[c] \in {"idle", "wait", "sent"} /\ (reply[c] = 0 \/ dest[c] = "data")
       \/ pc[c] = "push" /\ reply[c] = 0 /\ dest[c] = "old" /\ FirstPhase(c)

Pushed(c) ==
    /\ dpc = "done?" /\ pc[c] = "start" /\ NoCommand /\ reqq = <<c>> /\ FirstPhase(c)

HeaderUnderWay(c) ==
    /\ dpc = "done?" /\ reqq = <<c>> /\ FirstPhase(c) /\ OneCommand(c, 0, "done")

HeaderThere(c) ==
    /\ NoCommand /\ FirstPhase(c) /\ 0 \in landed[c]
    /\ \/ dpc = "request?" /\ reqq = <<c>>
       \/ dpc = "inspect" /\ cur = c /\ reqq = <<>>

Requeueing(c) ==
    /\ dpc = "requeue" /\ cur = c /\ NoCommand /\ reqq = <<>> /\ SecondPhase(c)

Chunking(c) ==
    /\ cur = c /\ reqq = <<c>> /\ SecondPhase(c)
    /\ chunk \in 1 .. req[c].parts
    /\ 1 .. chunk - 1 \subseteq landed[c]
    /\ \/ dpc = "chunk" /\ NoCommand
       \/ dpc = "chunk?" /\ chunk < req[c].parts /\ OneCommand(c, chunk, "start")

LastChunkUnderWay(c) ==
    /\ dpc = "done?" /\ reqq = <<c>> /\ SecondPhase(c)
    /\ 1 .. req[c].parts - 1 \subseteq landed[c]
    /\ OneCommand(c, req[c].parts, "done")

AllThere(c) ==
    /\ NoCommand /\ SecondPhase(c) /\ 1 .. req[c].parts \subseteq landed[c]
    /\ \/ dpc = "request?" /\ reqq = <<c>>
       \/ dpc = "inspect" /\ cur = c /\ reqq = <<>>

Finishing(c) ==
    /\ dpc = "finish" /\ cur = c /\ NoCommand /\ reqq = <<>> /\ Arrived(c)
    /\ heap \subseteq IF req[c].unpack /\ ~req[c].kind.work THEN {c} ELSE {}

(* In every phase but the first the client is in its call, not yet answered. *)
InCall(c) ==
    /\ pc[c] \in {"start", "wait", "sent"}
    /\ pc[c] = "start" => Pushed(c)
    /\ reply[c] = 0
    /\ dest[c] = "old"

Solo(c) ==
    \/ AtRest(c)
    \/ InCall(c) /\ \/ Pushed(c) \/ HeaderUnderWay(c) \/ HeaderThere(c)
                    \/ Requeueing(c) \/ Chunking(c) \/ LastChunkUnderWay(c)
                    \/ AllThere(c) \/ Finishing(c)

(* One of the phases at any time, and the buffer of an answered request holds
   the data of its file.                                                     *)
SoloInv ==
    /\ TypeOK
    /\ AnswerMeansData
    /\ \A c \in Clients : Solo(c)

-----------------------------------------------------------------------------
(* The promise behind the queues: see DmaService. *)
serviceState == [c \in Clients |-> IF pc[c] = "idle" THEN "idle"
                                   ELSE IF dest[c] = "old" THEN "asked"
                                   ELSE "answered"]

Service == INSTANCE DmaService WITH buffer <- dest, state <- serviceState

(* The requests, the queues and the two threads together are one service that
   fills the buffer of a request with its data and then answers it.           *)
ServiceSafe == Service!Spec
=============================================================================
