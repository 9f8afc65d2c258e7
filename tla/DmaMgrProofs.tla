---------------------------- MODULE DmaMgrProofs ----------------------------
(***************************************************************************)
(* Proofs about DmaMgr, and about DmaShared at the end.                     *)
(***************************************************************************)
EXTENDS DmaShared, SequenceTheorems, FiniteSetTheorems, TLAPS

(* Jamming or sending a command, or losing it, keeps the queue of PI commands
   well formed.                                                              *)
LEMMA StartDmaType ==
    ASSUME TypeOK, NEW c \in Clients, NEW part \in Nat,
           NEW ret \in {"start", "done"}, NEW high \in BOOLEAN,
           StartDma(c, part, ret, high)
    PROVE  /\ io' \in [Clients -> [part : Nat, ret : {"start", "done"}]]
           /\ piq' \in Seq(Clients) /\ Len(piq') <= PiCap
<1>1. io' \in [Clients -> [part : Nat, ret : {"start", "done"}]]
  BY DEF StartDma, TypeOK
<1>2. piq \in Seq(Clients) /\ Len(piq) <= PiCap /\ Len(piq) \in Nat /\ PiCap \in Nat
  BY DmaAssumption DEF TypeOK
<1>3. CASE Len(piq) = PiCap
  BY <1>1, <1>2, <1>3 DEF StartDma
<1>4. CASE Len(piq) # PiCap /\ high
  <2>1. <<c>> \in Seq(Clients) /\ Len(<<c>>) = 1
    OBVIOUS
  <2>2. <<c>> \o piq \in Seq(Clients) /\ Len(<<c>> \o piq) = 1 + Len(piq)
    BY <1>2, <2>1, ConcatProperties
  <2> QED
    BY <1>1, <1>2, <1>4, <2>2 DEF StartDma
<1>5. CASE Len(piq) # PiCap /\ ~high
  <2>1. Append(piq, c) \in Seq(Clients) /\ Len(Append(piq, c)) = Len(piq) + 1
    BY <1>2, AppendProperties
  <2> QED
    BY <1>1, <1>2, <1>5, <2>1 DEF StartDma
<1> QED
  BY <1>3, <1>4, <1>5

LEMMA TypeInit ==
    ASSUME Init
    PROVE  TypeOK
<1> USE DmaAssumption
<1>1. \A k \in Kinds : [header |-> FALSE, unpack |-> FALSE, parts |-> 0,
                          kind |-> k] \in RequestType
  BY DEF RequestType
<1>2. req \in [Clients -> RequestType]
  BY <1>1 DEF Init
<1> QED
  BY <1>2 DEF Init, TypeOK, NoTransfer

LEMMA TypeStep ==
    ASSUME TypeOK, [Next]_vars
    PROVE  TypeOK'
<1> USE DmaAssumption
<1>1. CASE UNCHANGED vars
  BY <1>1 DEF TypeOK, vars
<1>2. ASSUME NEW c \in Clients, FillRequest(c) PROVE TypeOK'
  <2>1. PICK k \in Kinds : req' = [req EXCEPT ![c] =
            [header |-> k.parts > 0, unpack |-> FALSE, parts |-> 0, kind |-> k]]
    BY <1>2 DEF FillRequest
  <2>2. [header |-> k.parts > 0, unpack |-> FALSE, parts |-> 0, kind |-> k]
           \in RequestType
    BY DEF RequestType
  <2>3. req' \in [Clients -> RequestType]
    BY <2>1, <2>2 DEF TypeOK
  <2> QED
    BY <1>2, <2>3 DEF FillRequest, TypeOK, dmaVars
<1>3. ASSUME NEW c \in Clients, PushRequest(c) PROVE TypeOK'
  <2>1. Append(reqq, c) \in Seq(Clients) /\ Len(Append(reqq, c)) = Len(reqq) + 1
    BY AppendProperties DEF TypeOK
  <2>2. Len(reqq') <= ReqCap
    BY <1>3, <2>1 DEF PushRequest, TypeOK
  <2> QED
    BY <1>3, <2>1, <2>2 DEF PushRequest, TypeOK, dmaVars, memory
<1>4. ASSUME NEW c \in Clients, StartHeader(c) PROVE TypeOK'
  <2>1. /\ io' \in [Clients -> [part : Nat, ret : {"start", "done"}]]
        /\ piq' \in Seq(Clients) /\ Len(piq') <= PiCap
    BY <1>4, StartDmaType DEF StartHeader
  <2> QED
    BY <1>4, <2>1 DEF StartHeader, TypeOK, dmaVars, memory
<1>5. ASSUME NEW c \in Clients, RecvReply(c) PROVE TypeOK'
  BY <1>5 DEF RecvReply, TypeOK, dmaVars, memory
<1>6. CASE TakeDone
  <2>1. Tail(doneq) \in Seq(Clients) /\ Len(Tail(doneq)) = Len(doneq) - 1
    BY <1>6, HeadTailProperties DEF TakeDone, TypeOK
  <2>2. Len(doneq') <= DoneCap
    BY <1>6, <2>1 DEF TakeDone, TypeOK
  <2> QED
    BY <1>6, <2>1, <2>2 DEF TakeDone, TypeOK, clientVars, memory
<1>7. CASE TakeRequest
  <2>1. /\ Tail(reqq) \in Seq(Clients) /\ Len(Tail(reqq)) = Len(reqq) - 1
        /\ Head(reqq) \in Clients
    BY <1>7, HeadTailProperties DEF TakeRequest, TypeOK
  <2>2. Len(reqq') <= ReqCap
    BY <1>7, <2>1 DEF TakeRequest, TypeOK
  <2> QED
    BY <1>7, <2>1, <2>2 DEF TakeRequest, TypeOK, clientVars, memory
<1>8. CASE NoHeaderLeft
  BY <1>8 DEF NoHeaderLeft, TypeOK, clientVars, memory
<1>9. CASE PlainHeader
  <2>1. cur \in Clients /\ req[cur].kind \in Kinds
    BY <1>9 DEF PlainHeader, TypeOK, RequestType
  <2>2. req[cur].kind.parts \in Nat
    BY <2>1 DEF KindType
  <2>3. req' \in [Clients -> RequestType]
    <3>1. req[cur] \in RequestType
      BY <2>1 DEF TypeOK
    <3>2. [req[cur] EXCEPT !.header = FALSE, !.parts = req[cur].kind.parts]
            \in RequestType
      BY <2>2, <3>1 DEF RequestType
    <3> QED
      BY <1>9, <2>1, <3>2 DEF PlainHeader, TypeOK
  <2> QED
    BY <1>9, <2>3 DEF PlainHeader, TypeOK, clientVars, memory
<1>10. ASSUME cur \in Clients,
              NEW n \in PackedSizes(cur),
              req' = [req EXCEPT ![cur] = [@ EXCEPT !.header = FALSE,
                                           !.unpack = TRUE, !.parts = n]]
       PROVE  req' \in [Clients -> RequestType]
  <2>1. req[cur].kind \in Kinds
    BY <1>10 DEF TypeOK, RequestType
  <2>2. PackedSizes(cur) \subseteq Nat
    BY <2>1 DEF PackedSizes, KindType
  <2> QED
    <3>1. req[cur] \in RequestType
      BY <1>10 DEF TypeOK
    <3>2. [req[cur] EXCEPT !.header = FALSE, !.unpack = TRUE, !.parts = n]
            \in RequestType
      BY <2>2, <3>1 DEF RequestType
    <3> QED
      BY <1>10, <3>2 DEF TypeOK
<1>11. CASE PackedHeader
  <2>1. cur \in Clients
    BY <1>11 DEF PackedHeader, TypeOK
  <2>2. req' \in [Clients -> RequestType]
    BY <1>10, <1>11, <2>1 DEF PackedHeader
  <2> QED
    BY <1>11, <2>1, <2>2 DEF PackedHeader, TypeOK, clientVars
<1>12. CASE NoWorkBuffer
  <2>1. cur \in Clients
    BY <1>12 DEF NoWorkBuffer, TypeOK
  <2>2. req' \in [Clients -> RequestType]
    BY <1>10, <1>12, <2>1 DEF NoWorkBuffer
  <2> QED
    BY <1>12, <2>2 DEF NoWorkBuffer, TypeOK, clientVars, memory
<1>13. CASE Requeue
  <2>1. cur \in Clients
    BY <1>13 DEF Requeue, TypeOK
  <2>2. Append(reqq, cur) \in Seq(Clients) /\ Len(Append(reqq, cur)) = Len(reqq) + 1
    BY <2>1, AppendProperties DEF TypeOK
  <2>3. Len(reqq') <= ReqCap
    BY <1>13, <2>2 DEF Requeue, TypeOK
  <2> QED
    BY <1>13, <2>2, <2>3 DEF Requeue, TypeOK, clientVars, memory
<1>14. CASE StartChunk
  <2>1. cur \in Clients /\ chunk \in Nat
    BY <1>14 DEF StartChunk, ChunkTo, TypeOK
  <2>2. \E ret \in {"start", "done"} : StartDma(cur, chunk, ret, FALSE)
    BY <1>14 DEF StartChunk, ChunkTo
  <2>3. /\ io' \in [Clients -> [part : Nat, ret : {"start", "done"}]]
        /\ piq' \in Seq(Clients) /\ Len(piq') <= PiCap
    BY <2>1, <2>2, StartDmaType
  <2>4. /\ dpc' \in {"chunk?", "done?"} /\ cur' \in Clients \cup {None}
        /\ cur' = None <=> dpc' \in {"done?", "request?"}
    BY <1>14, <2>1 DEF StartChunk, ChunkTo
  <2> QED
    BY <1>14, <2>3, <2>4 DEF StartChunk, ChunkTo, TypeOK, clientVars, memory
<1>15. CASE TakeChunk
  BY <1>15 DEF TakeChunk, TypeOK, clientVars, memory
<1>16. CASE Finish
  BY <1>16 DEF Finish, FinishFreeing, TypeOK
<1>17. CASE PiStart
  <2>1. /\ Tail(piq) \in Seq(Clients) /\ Len(Tail(piq)) = Len(piq) - 1
        /\ Head(piq) \in Clients
    BY <1>17, HeadTailProperties DEF PiStart, TypeOK
  <2>2. io[Head(piq)].part \in Nat
    BY <2>1 DEF TypeOK
  <2>3. Len(piq') <= PiCap
    BY <1>17, <2>1 DEF PiStart, TypeOK
  <2> QED
    BY <1>17, <2>1, <2>2, <2>3 DEF PiStart, TypeOK, clientVars, dmaVars, memory
<1>18. CASE PiDone
  <2>1. pi.for \in Clients /\ pi.part \in Nat
    BY <1>18 DEF PiDone, TypeOK
  <2>2. landed' \in [Clients -> SUBSET Nat]
    BY <1>18, <2>1 DEF PiDone, TypeOK
  <2>3. doneq' \in Seq(Clients) /\ Len(doneq') <= DoneCap
    <3>1. /\ Append(doneq, pi.for) \in Seq(Clients)
          /\ Len(Append(doneq, pi.for)) = Len(doneq) + 1
      BY <2>1, AppendProperties DEF TypeOK
    <3>2. CASE io[pi.for].ret = "done" /\ Len(doneq) < DoneCap
      <4>1. Len(doneq) \in Nat /\ DoneCap \in Nat /\ Len(doneq) + 1 <= DoneCap
        BY <3>2 DEF TypeOK
      <4>2. doneq' = Append(doneq, pi.for)
        BY <1>18, <3>2 DEF PiDone
      <4> QED
        BY <3>1, <4>1, <4>2
    <3>3. CASE ~(io[pi.for].ret = "done" /\ Len(doneq) < DoneCap)
      BY <1>18, <3>3 DEF PiDone, TypeOK
    <3> QED
      BY <3>2, <3>3
  <2> QED
    BY <1>18, <2>2, <2>3 DEF PiDone, TypeOK, clientVars, dmaVars
<1> QED
  BY <1>1, <1>2, <1>3, <1>4, <1>5, <1>6, <1>7, <1>8, <1>9, <1>11, <1>12, <1>13,
     <1>14, <1>15, <1>16, <1>17, <1>18
     DEF Next, Client, DmaThread, PiManager

(* Every variable keeps its type, whatever the number of clients and the
   capacities of the queues.                                                 *)
THEOREM TypeCorrect == Spec => []TypeOK
<1>1. Init => TypeOK
  BY TypeInit
<1>2. TypeOK /\ [Next]_vars => TypeOK'
  BY TypeStep
<1> QED
  BY <1>1, <1>2, PTL DEF Spec

-----------------------------------------------------------------------------
(* Any number of clients, and any interleaving: the queue of requests. *)

LEMMA QueueStep ==
    ASSUME TypeOK, TypeOK', QueueInv, [Next]_vars
    PROVE  QueueInv'
<1> USE DmaAssumption
<1>1. reqq \in Seq(Clients) /\ Len(reqq) \in Nat
  BY DEF TypeOK
<1>2. ASSUME NEW c \in Clients, reqq' = Append(reqq, c)
      PROVE  /\ Len(reqq') = Len(reqq) + 1
             /\ \A i \in 1 .. Len(reqq) : reqq'[i] = reqq[i]
             /\ reqq'[Len(reqq) + 1] = c
             /\ \A d : Queued(d)' <=> Queued(d) \/ d = c
  <2>1. /\ Len(reqq') = Len(reqq) + 1
        /\ \A i \in 1 .. Len(reqq) : reqq'[i] = reqq[i]
        /\ reqq'[Len(reqq) + 1] = c
    BY <1>1, <1>2, AppendProperties
  <2> QED
    BY <1>1, <2>1 DEF Queued
<1>3. CASE UNCHANGED vars
  BY <1>3 DEF vars, QueueInv, Queued
<1>4. ASSUME UNCHANGED <<pc, reply, reqq, cur>>,
             dpc' \in {"inspect", "requeue", "finish"} =>
                dpc \in {"inspect", "requeue", "finish"}
      PROVE  QueueInv'
  BY <1>4 DEF QueueInv, Queued
<1>5. ASSUME NEW c \in Clients, FillRequest(c) PROVE QueueInv'
  BY <1>5 DEF FillRequest, QueueInv, Queued, TypeOK, dmaVars
<1>6. ASSUME NEW c \in Clients, PushRequest(c) PROVE QueueInv'
  <2>1. reqq' = Append(reqq, c) /\ pc' = [pc EXCEPT ![c] = "start"]
        /\ UNCHANGED <<reply, dpc, cur>>
    BY <1>6 DEF PushRequest, dmaVars
  <2>2. ~Queued(c) /\ cur # c /\ reply[c] = 0
    BY <1>6 DEF PushRequest, QueueInv
  <2>3. \A i, j \in 1 .. Len(reqq') : reqq'[i] = reqq'[j] => i = j
    BY <1>1, <1>2, <2>1, <2>2 DEF QueueInv, Queued
  <2>4. \A d \in Clients : d # c => (Queued(d)' <=> Queued(d)) /\ pc'[d] = pc[d]
    BY <1>2, <2>1 DEF TypeOK
  <2>5. pc'[c] = "start" /\ reply'[c] = 0
    BY <2>1, <2>2 DEF TypeOK
  <2>6. dpc' \in {"inspect", "requeue", "finish"} => ~Queued(cur)'
    BY <1>2, <2>1, <2>2 DEF QueueInv
  <2> QED
    BY <2>1, <2>3, <2>4, <2>5, <2>6 DEF QueueInv
<1>7. ASSUME NEW c \in Clients, StartHeader(c) PROVE QueueInv'
  BY <1>7 DEF StartHeader, QueueInv, Queued, TypeOK, dmaVars, memory
<1>8. ASSUME NEW c \in Clients, RecvReply(c) PROVE QueueInv'
  BY <1>8 DEF RecvReply, QueueInv, Queued, TypeOK, dmaVars, memory
<1>9. CASE TakeRequest
  <2>1. /\ Len(reqq) > 0 /\ Len(reqq') = Len(reqq) - 1 /\ cur' = reqq[1]
        /\ \A i \in 1 .. Len(reqq') : reqq'[i] = reqq[i + 1]
        /\ UNCHANGED <<pc, reply>>
    BY <1>1, <1>9, HeadTailProperties DEF TakeRequest, clientVars
  <2>2. \A i, j \in 1 .. Len(reqq') : reqq'[i] = reqq'[j] => i = j
    BY <1>1, <2>1 DEF QueueInv
  <2>3. \A d : Queued(d)' => Queued(d)
    BY <1>1, <2>1 DEF Queued
  <2>4. Queued(cur')
    BY <1>1, <2>1 DEF Queued
  <2>5. ~(\E i \in 1 .. Len(reqq') : reqq'[i] = cur')
    BY <1>1, <2>1 DEF QueueInv
  <2>6. \A c \in Clients : pc'[c] \in {"idle", "push"} \/ reply'[c] > 0
                              => ~Queued(c)' /\ cur' # c
    BY <2>1, <2>3, <2>4 DEF QueueInv
  <2> QED
    BY <2>1, <2>2, <2>5, <2>6 DEF QueueInv, Queued
<1>10. CASE NoWorkBuffer
  BY <1>10 DEF NoWorkBuffer, QueueInv, Queued, TypeOK, clientVars
<1>11. CASE Requeue
  <2>1. /\ reqq' = Append(reqq, cur) /\ UNCHANGED <<pc, reply, cur>>
        /\ dpc = "requeue" /\ dpc' = "chunk" /\ cur \in Clients
    BY <1>11 DEF Requeue, clientVars, TypeOK
  <2>2. ~Queued(cur)
    BY <2>1 DEF QueueInv
  <2>3. \A i, j \in 1 .. Len(reqq') : reqq'[i] = reqq'[j] => i = j
    BY <1>1, <1>2, <2>1, <2>2 DEF QueueInv, Queued
  <2>4. \A d \in Clients : d # cur => (Queued(d)' <=> Queued(d))
    BY <1>2, <2>1
  <2> QED
    BY <2>1, <2>3, <2>4 DEF QueueInv
<1>12. CASE StartChunk
  <2>1. /\ UNCHANGED <<pc, reply, reqq>> /\ dpc' \in {"chunk?", "done?"}
        /\ cur' \in {cur, None}
    BY <1>12 DEF StartChunk, ChunkTo, clientVars
  <2> QED
    BY <2>1 DEF QueueInv, Queued
<1>13. CASE Finish
  BY <1>13 DEF Finish, FinishFreeing, QueueInv, Queued, TypeOK
<1> QED
  BY <1>3, <1>4, <1>5, <1>6, <1>7, <1>8, <1>9, <1>10, <1>11, <1>12, <1>13
     DEF Next, Client, DmaThread, PiManager, TakeDone, NoHeaderLeft, PlainHeader,
         PackedHeader, TakeChunk, PiStart, PiDone, clientVars, dmaVars

(* A queue that holds some of the other clients, each once, has room. *)
LEMMA RoomForAll ==
    ASSUME TypeOK, QueueInv, Cardinality(Clients) <= ReqCap
    PROVE  RequeueNeverBlocks
<1> SUFFICES ASSUME dpc = "requeue" PROVE Len(reqq) < ReqCap
  BY DEF RequeueNeverBlocks
<1> DEFINE others == Clients \ {cur}
<1>1. cur \in Clients
  BY DEF TypeOK
<1>2. IsFiniteSet(others) /\ Cardinality(others) = Cardinality(Clients) - 1
  BY <1>1, DmaAssumption, FS_RemoveElement
<1>3. Cardinality(Clients) \in Nat
  BY DmaAssumption, FS_CardinalityType
<1>4. reqq \in [1 .. Len(reqq) -> Clients] /\ Len(reqq) \in Nat
  BY DEF TypeOK
<1>5. \A i \in 1 .. Len(reqq) : reqq[i] \in others
  BY <1>4 DEF QueueInv, Queued
<1>6. reqq \in Injection(1 .. Len(reqq), others)
  BY <1>4, <1>5 DEF QueueInv, Injection, IsInjective
<1>7. Cardinality(1 .. Len(reqq)) <= Cardinality(others)
  BY <1>2, <1>6, FS_Injection
<1>8. Cardinality(1 .. Len(reqq)) = Len(reqq)
  <2>1. Cardinality(1 .. Len(reqq)) = IF 1 > Len(reqq) THEN 0 ELSE Len(reqq) - 1 + 1
    BY <1>4, FS_Interval
  <2> QED
    BY <1>4, <2>1
<1> QED
  BY <1>2, <1>3, <1>4, <1>7, <1>8, DmaAssumption

(* The DMA thread, the only reader of D_8010ED50, never waits for room in it as
   long as no more threads make requests than the queue has places, in any
   interleaving and whatever becomes of the requests otherwise.              *)
THEOREM RequeueSafe ==
    ASSUME Cardinality(Clients) <= ReqCap
    PROVE  Spec => []RequeueNeverBlocks
<1>1. Init => TypeOK /\ QueueInv
  BY TypeInit, DmaAssumption DEF Init, QueueInv, Queued
<1>2. TypeOK /\ QueueInv /\ [Next]_vars => (TypeOK /\ QueueInv)'
  BY TypeStep, QueueStep
<1>3. TypeOK /\ QueueInv => RequeueNeverBlocks
  BY RoomForAll
<1> QED
  BY <1>1, <1>2, <1>3, PTL DEF Spec

-----------------------------------------------------------------------------
(* One client.  The phases of its request follow each other in a circle, and
   the lemma has one step per action: from which phase it can be taken, and to
   which phase it leads.                                                     *)

LEMMA SoloStep ==
    ASSUME NEW c \in Clients, Clients = {c}, TypeOK, Solo(c), Next
    PROVE  Solo(c)'
<1> USE DmaAssumption
<1>1. /\ req[c] \in RequestType /\ req[c].kind \in KindType
      /\ req[c].kind.parts = 0 => ~req[c].kind.packed
      /\ c # None
  BY DEF TypeOK, RequestType
<1>2. CASE FillRequest(c)
  <2>1. AtRest(c)
    BY <1>2 DEF FillRequest, Solo, InCall
  <2>2. PICK k \in Kinds : req' = [req EXCEPT ![c] =
            [header |-> k.parts > 0, unpack |-> FALSE, parts |-> 0, kind |-> k]]
    BY <1>2 DEF FillRequest
  <2>3. FirstPhase(c)'
    BY <1>2, <2>1, <2>2 DEF FillRequest, FirstPhase, AtRest, TypeOK
  <2> QED
    BY <1>2, <2>1, <2>3 DEF FillRequest, Solo, AtRest, NoCommand, TypeOK, dmaVars
<1>3. CASE PushRequest(c)
  <2>1. AtRest(c) /\ FirstPhase(c) /\ reply[c] = 0 /\ dest[c] = "old"
    BY <1>3 DEF PushRequest, Solo, InCall, AtRest
  <2>2. Pushed(c)'
    BY <1>3, <2>1 DEF PushRequest, AtRest, Pushed, FirstPhase, NoCommand, TypeOK,
                      dmaVars, memory
  <2> QED
    BY <1>3, <2>1, <2>2 DEF PushRequest, Solo, InCall, TypeOK, memory
<1>4. CASE StartHeader(c)
  <2>1. Pushed(c) /\ InCall(c)
    BY <1>4 DEF StartHeader, Solo, InCall, AtRest
  <2>2. Len(piq) # PiCap /\ piq = <<>>
    BY <2>1 DEF Pushed, NoCommand
  <2>3. /\ piq' = <<c>>
        /\ io'[c] = [part |-> 0, ret |-> "done"]
    BY <1>4, <2>2 DEF StartHeader, StartDma, TypeOK
  <2>4. HeaderUnderWay(c)'
    BY <1>4, <2>1, <2>3 DEF StartHeader, HeaderUnderWay, Pushed, FirstPhase,
                            OneCommand, NoCommand, dmaVars, memory
  <2>5. InCall(c)'
    BY <1>4, <2>1 DEF StartHeader, InCall, TypeOK, memory
  <2> QED
    BY <2>4, <2>5 DEF Solo
<1>5. CASE RecvReply(c)
  <2>1. AtRest(c)
    BY <1>5 DEF RecvReply, Solo, InCall
  <2> QED
    BY <1>5, <2>1 DEF RecvReply, Solo, AtRest, NoCommand, TypeOK, dmaVars, memory
<1>6. CASE TakeDone
  <2>1. InCall(c) /\ (HeaderUnderWay(c) \/ LastChunkUnderWay(c))
    BY <1>6 DEF TakeDone, Solo, AtRest, Pushed, HeaderThere, Requeueing, Chunking,
                AllThere, Finishing, NoCommand
  <2>2. doneq = <<c>> /\ piq = <<>> /\ pi = NoTransfer /\ startq = 0
    BY <1>6, <2>1 DEF TakeDone, HeaderUnderWay, LastChunkUnderWay, OneCommand
  <2>3. doneq' = <<>>
    BY <1>6, <2>2 DEF TakeDone
  <2>4. InCall(c)'
    BY <1>6, <2>1 DEF TakeDone, InCall, HeaderUnderWay, LastChunkUnderWay, Pushed,
                      OneCommand, NoCommand, clientVars, memory
  <2>5. CASE HeaderUnderWay(c)
    <3>1. 0 \in landed[c]
      BY <2>2, <2>5 DEF HeaderUnderWay, OneCommand
    <3>2. HeaderThere(c)'
      BY <1>6, <2>2, <2>3, <2>5, <3>1 DEF TakeDone, HeaderUnderWay, HeaderThere,
         FirstPhase, NoCommand, clientVars, memory
    <3> QED
      BY <2>4, <3>2 DEF Solo
  <2>6. CASE LastChunkUnderWay(c)
    <3>1. req[c].parts \in landed[c] /\ req[c].parts \in Nat
      BY <1>1, <2>2, <2>6 DEF LastChunkUnderWay, OneCommand, RequestType
    <3>2. 1 .. req[c].parts \subseteq landed[c]
      BY <2>6, <3>1 DEF LastChunkUnderWay
    <3>3. AllThere(c)'
      BY <1>6, <2>2, <2>3, <2>6, <3>2 DEF TakeDone, LastChunkUnderWay, AllThere,
         SecondPhase, NoCommand, clientVars, memory
    <3> QED
      BY <2>4, <3>3 DEF Solo
  <2> QED
    BY <2>1, <2>5, <2>6
<1>7. CASE TakeRequest
  <2>1. InCall(c) /\ (HeaderThere(c) \/ AllThere(c))
    BY <1>7 DEF TakeRequest, Solo, AtRest, Pushed, HeaderUnderWay, Requeueing,
                Chunking, LastChunkUnderWay, Finishing
  <2>2. reqq = <<c>>
    BY <1>7, <2>1 DEF TakeRequest, HeaderThere, AllThere
  <2>3. reqq' = <<>> /\ cur' = c
    BY <1>7, <2>2 DEF TakeRequest
  <2>4. InCall(c)'
    BY <1>7, <2>1 DEF TakeRequest, InCall, Pushed, clientVars, memory
  <2>5. HeaderThere(c)' \/ AllThere(c)'
    BY <1>7, <2>1, <2>3 DEF TakeRequest, HeaderThere, AllThere, FirstPhase,
       SecondPhase, NoCommand, clientVars, memory
  <2> QED
    BY <2>4, <2>5 DEF Solo
<1>8. CASE NoHeaderLeft
  <2>1. InCall(c) /\ cur = c /\ (HeaderThere(c) \/ AllThere(c))
    BY <1>8 DEF NoHeaderLeft, Solo, AtRest, Pushed, HeaderUnderWay, Requeueing,
                Chunking, LastChunkUnderWay, Finishing, HeaderThere, AllThere
  <2>2. reqq = <<>> /\ NoCommand
    BY <1>8, <2>1 DEF NoHeaderLeft, HeaderThere, AllThere
  <2>3. /\ Arrived(c)
        /\ heap \subseteq IF req[c].unpack /\ ~req[c].kind.work THEN {c} ELSE {}
    <3>1. CASE HeaderThere(c)
      <4>1. req[c].kind.parts = 0
        <5>1. req[c].kind.parts \in Nat /\ ~req[c].header
          BY <1>1, <1>8, <2>1 DEF NoHeaderLeft, KindType
        <5> QED
          BY <3>1, <5>1 DEF HeaderThere, FirstPhase
      <4>2. req[c].kind.packed = FALSE
        BY <1>1, <4>1 DEF KindType
      <4> QED
        BY <1>1, <3>1, <4>1, <4>2 DEF HeaderThere, FirstPhase, Arrived, RequestType
    <3>2. CASE AllThere(c)
      BY <3>2 DEF AllThere, SecondPhase, Arrived
    <3> QED
      BY <2>1, <3>1, <3>2
  <2>4. Finishing(c)'
    BY <1>8, <2>1, <2>2, <2>3 DEF NoHeaderLeft, Finishing, NoCommand, Arrived,
       clientVars, memory
  <2>5. InCall(c)'
    BY <1>8, <2>1 DEF NoHeaderLeft, InCall, Pushed, clientVars, memory
  <2> QED
    BY <2>4, <2>5 DEF Solo
<1>9. ASSUME dpc = "inspect", req[cur].header
      PROVE  /\ InCall(c) /\ cur = c /\ HeaderThere(c) /\ reqq = <<>>
             /\ HeaderViews(c) = {req[c].kind.packed}
             /\ PackedSizes(c) = {req[c].kind.parts}
             /\ req[c].kind.parts > 0
  <2>1. InCall(c) /\ cur = c /\ HeaderThere(c)
    BY <1>9 DEF Solo, AtRest, Pushed, HeaderUnderWay, Requeueing, Chunking,
       LastChunkUnderWay, Finishing, HeaderThere, AllThere, SecondPhase
  <2> QED
    BY <1>9, <2>1 DEF HeaderThere, FirstPhase, HeaderViews, PackedSizes
<1>10. ASSUME cur = c, dpc' = "requeue", InCall(c), HeaderThere(c), reqq = <<>>,
              req[c].kind.parts > 0, cur' = c,
              UNCHANGED <<clientVars, io, reqq, doneq, startq, piq, pi, landed, dest>>,
              ~req'[c].header, req'[c].unpack = req[c].kind.packed,
              req'[c].kind = req[c].kind, req'[c].parts = req[c].kind.parts,
              heap' \subseteq IF req'[c].unpack /\ ~req'[c].kind.work THEN {c} ELSE {},
              dpc = "inspect"
       PROVE  Solo(c)'
  <2>1. Requeueing(c)'
    BY <1>10 DEF Requeueing, SecondPhase, HeaderThere, NoCommand, clientVars
  <2>2. InCall(c)'
    BY <1>10 DEF InCall, Pushed, clientVars
  <2> QED
    BY <2>1, <2>2 DEF Solo
<1>11. CASE PlainHeader
  <2>1. /\ InCall(c) /\ cur = c /\ HeaderThere(c) /\ reqq = <<>>
        /\ req[c].kind.packed = FALSE /\ req[c].kind.parts > 0
    BY <1>9, <1>11 DEF PlainHeader
  <2>2. req'[c] = [req[c] EXCEPT !.header = FALSE, !.parts = req[c].kind.parts]
    BY <1>11, <2>1 DEF PlainHeader, TypeOK
  <2>3. /\ req'[c].header = FALSE /\ req'[c].unpack = req[c].unpack
        /\ req'[c].parts = req[c].kind.parts /\ req'[c].kind = req[c].kind
    BY <1>1, <2>2 DEF RequestType
  <2>4. req[c].unpack = FALSE /\ heap = {}
    BY <1>1, <2>1 DEF HeaderThere, FirstPhase, RequestType
  <2>5. heap' = {}
    BY <1>11, <2>4 DEF PlainHeader, memory
  <2>6. ~req'[c].header /\ req'[c].unpack = req[c].kind.packed
    BY <2>1, <2>3, <2>4
  <2>7. /\ dpc = "inspect" /\ dpc' = "requeue" /\ cur' = c
        /\ UNCHANGED <<clientVars, io, reqq, doneq, startq, piq, pi, landed, dest>>
    BY <1>11, <2>1 DEF PlainHeader, memory
  <2> QED
    BY <1>10, <2>1, <2>3, <2>5, <2>6, <2>7
<1>12. CASE PackedHeader
  <2>1. /\ InCall(c) /\ cur = c /\ HeaderThere(c) /\ reqq = <<>>
        /\ req[c].kind.packed = TRUE /\ req[c].kind.parts > 0
    BY <1>9, <1>12 DEF PackedHeader
  <2>2. req'[c] = [req[c] EXCEPT !.header = FALSE, !.unpack = TRUE,
                                 !.parts = req[c].kind.parts]
    <3>1. PICK n \in PackedSizes(c) :
              req' = [req EXCEPT ![c] = [req[c] EXCEPT !.header = FALSE, !.unpack = TRUE,
                                                       !.parts = n]]
      BY <1>12, <2>1 DEF PackedHeader
    <3>2. n = req[c].kind.parts
      BY <1>9, <1>12, <2>1 DEF PackedHeader
    <3>3. c \in DOMAIN req
      BY DEF TypeOK
    <3> QED
      BY <3>1, <3>2, <3>3
  <2>3. /\ req'[c].header = FALSE /\ req'[c].unpack = TRUE
        /\ req'[c].parts = req[c].kind.parts /\ req'[c].kind = req[c].kind
    BY <1>1, <2>2 DEF RequestType
  <2>4. heap' \subseteq IF req'[c].unpack /\ ~req'[c].kind.work THEN {c} ELSE {}
    BY <1>12, <2>1, <2>3 DEF PackedHeader, HeaderThere, FirstPhase
  <2> QED
    BY <1>10, <1>12, <2>1, <2>3, <2>4 DEF PackedHeader
<1>13. CASE NoWorkBuffer
  <2>1. InCall(c) /\ HeaderThere(c) /\ reqq = <<>>
    BY <1>9, <1>13 DEF NoWorkBuffer
  <2> QED
    BY <1>13, <2>1 DEF NoWorkBuffer, Solo, InCall, Pushed, HeaderThere, FirstPhase,
       AtRest, NoCommand, clientVars, memory
<1>14. CASE Requeue
  <2>1. InCall(c) /\ Requeueing(c)
    BY <1>14 DEF Requeue, Solo, AtRest, Pushed, HeaderUnderWay, HeaderThere,
       Chunking, LastChunkUnderWay, AllThere, Finishing
  <2>2. reqq' = <<c>>
    BY <1>14, <2>1 DEF Requeue, Requeueing
  <2>3. req[c].parts \in Nat /\ req[c].parts > 0
    BY <1>1, <2>1 DEF Requeueing, SecondPhase, RequestType, KindType
  <2>4. Chunking(c)'
    BY <1>14, <2>1, <2>2, <2>3 DEF Requeue, Requeueing, Chunking, SecondPhase,
       NoCommand, clientVars, memory
  <2>5. InCall(c)'
    BY <1>14, <2>1 DEF Requeue, Requeueing, InCall, Pushed, clientVars, memory
  <2> QED
    BY <2>4, <2>5 DEF Solo
<1>15. CASE StartChunk
  <2>1. InCall(c) /\ Chunking(c) /\ NoCommand /\ cur = c /\ dpc = "chunk"
    BY <1>15 DEF StartChunk, ChunkTo, Solo, AtRest, Pushed, HeaderUnderWay,
       HeaderThere, Requeueing, LastChunkUnderWay, AllThere, Finishing, Chunking
  <2>2. Len(piq) # PiCap /\ piq = <<>>
    BY <2>1 DEF NoCommand
  <2>3. \A ret : StartDma(c, chunk, ret, FALSE) =>
            piq' = <<c>> /\ io'[c] = [part |-> chunk, ret |-> ret]
    BY <2>2 DEF StartDma, TypeOK
  <2>4. InCall(c)'
    BY <1>15, <2>1 DEF StartChunk, ChunkTo, InCall, Pushed, clientVars, memory
  <2>5. CASE chunk < req[c].parts
    <3>1. Chunking(c)'
      BY <1>15, <2>1, <2>3, <2>5 DEF StartChunk, ChunkTo, Chunking, SecondPhase,
         OneCommand, NoCommand, clientVars, memory
    <3> QED
      BY <2>4, <3>1 DEF Solo
  <2>6. CASE ~(chunk < req[c].parts)
    <3>1. chunk = req[c].parts
      BY <1>1, <2>1, <2>6 DEF Chunking, RequestType
    <3>2. LastChunkUnderWay(c)'
      BY <1>15, <2>1, <2>3, <2>6, <3>1 DEF StartChunk, ChunkTo, Chunking,
         LastChunkUnderWay, SecondPhase, OneCommand, NoCommand, clientVars, memory
    <3> QED
      BY <2>4, <3>2 DEF Solo
  <2> QED
    BY <2>5, <2>6
<1>16. CASE TakeChunk
  <2>1. InCall(c) /\ Chunking(c) /\ OneCommand(c, chunk, "start") /\ chunk < req[c].parts
    BY <1>16 DEF TakeChunk, Solo, AtRest, Pushed, HeaderUnderWay, HeaderThere,
       Requeueing, LastChunkUnderWay, AllThere, Finishing, Chunking
  <2>2. /\ piq = <<>> /\ pi = NoTransfer /\ doneq = <<>> /\ startq = 1
        /\ chunk \in landed[c]
    BY <1>16, <2>1 DEF TakeChunk, OneCommand
  <2>3. 1 .. chunk \subseteq landed[c] /\ chunk + 1 \in 1 .. req[c].parts
    BY <1>1, <2>1, <2>2 DEF Chunking, RequestType
  <2>4. Chunking(c)'
    BY <1>1, <1>16, <2>1, <2>2, <2>3 DEF TakeChunk, Chunking, SecondPhase, NoCommand,
       clientVars, memory, RequestType
  <2>5. InCall(c)'
    BY <1>16, <2>1 DEF TakeChunk, InCall, Pushed, clientVars, memory
  <2> QED
    BY <2>4, <2>5 DEF Solo
<1>17. CASE Finish
  <2>1. InCall(c) /\ Finishing(c)
    BY <1>17 DEF Finish, FinishFreeing, Solo, AtRest, Pushed, HeaderUnderWay,
       HeaderThere, Requeueing, Chunking, LastChunkUnderWay, AllThere
  <2>2. dest'[c] = "data" /\ heap' = {}
    BY <1>17, <2>1 DEF Finish, FinishFreeing, Finishing, TypeOK
  <2>3. pc'[c] \in {"wait", "sent"}
    BY <1>17, <2>1 DEF Finish, FinishFreeing, Finishing, InCall, Pushed
  <2> QED
    BY <1>17, <2>1, <2>2, <2>3 DEF Finish, FinishFreeing, Finishing, Solo, AtRest,
       NoCommand
<1>18. ASSUME pi # NoTransfer \/ piq # <<>>
       PROVE  /\ InCall(c)
              /\ HeaderUnderWay(c) \/ LastChunkUnderWay(c)
                 \/ (Chunking(c) /\ dpc = "chunk?")
  BY <1>18 DEF Solo, AtRest, Pushed, HeaderThere, Requeueing, Chunking, AllThere,
     Finishing, NoCommand
<1>19. ASSUME UNCHANGED <<clientVars, req, io, reqq, dmaVars, dest, heap>>,
              InCall(c), pc[c] # "start", landed[c] \subseteq landed'[c],
              HeaderUnderWay(c) \/ LastChunkUnderWay(c)
                 \/ (Chunking(c) /\ dpc = "chunk?"),
              \A part, ret : OneCommand(c, part, ret) => OneCommand(c, part, ret)'
       PROVE  Solo(c)'
  <2>1. InCall(c)'
    BY <1>19 DEF InCall, clientVars
  <2>2. HeaderUnderWay(c) => HeaderUnderWay(c)'
    BY <1>19 DEF HeaderUnderWay, FirstPhase, dmaVars
  <2>3. LastChunkUnderWay(c) => LastChunkUnderWay(c)'
    BY <1>19 DEF LastChunkUnderWay, SecondPhase, dmaVars
  <2>4. Chunking(c) /\ dpc = "chunk?" => Chunking(c)'
    BY <1>19 DEF Chunking, SecondPhase, dmaVars
  <2> QED
    BY <1>19, <2>1, <2>2, <2>3, <2>4 DEF Solo
<1>20. pi # NoTransfer \/ piq # <<>> => pc[c] # "start"
  BY DEF Solo, AtRest, InCall, Pushed, NoCommand
<1>21. CASE PiStart
  <2>1. \A part, ret : OneCommand(c, part, ret) => OneCommand(c, part, ret)'
    BY <1>21 DEF PiStart, OneCommand, memory
  <2> QED
    BY <1>18, <1>19, <1>20, <1>21, <2>1 DEF PiStart, memory
<1>22. CASE PiDone
  <2>1. pi.for = c
    BY <1>22 DEF PiDone, TypeOK
  <2>2. landed'[c] = landed[c] \cup {pi.part}
    BY <1>22, <2>1 DEF PiDone, TypeOK
  <2>3. \A part, ret : OneCommand(c, part, ret) => OneCommand(c, part, ret)'
    <3> SUFFICES ASSUME NEW part, NEW ret, OneCommand(c, part, ret)
                 PROVE  OneCommand(c, part, ret)'
      OBVIOUS
    <3>1. /\ io[c] = [part |-> part, ret |-> ret] /\ piq = <<>>
          /\ pi = [for |-> c, part |-> part] /\ doneq = <<>> /\ startq = 0
      BY <1>22 DEF PiDone, OneCommand
    <3>2. pi.part = part /\ io[c].ret = ret
      BY <3>1
    <3>3. Len(doneq) < DoneCap /\ Append(doneq, c) = <<c>>
      BY <3>1
    <3> QED
      BY <1>22, <2>1, <2>2, <3>1, <3>2, <3>3 DEF PiDone, OneCommand
  <2> QED
    BY <1>18, <1>19, <1>20, <1>22, <2>2, <2>3 DEF PiDone
<1> QED
  BY <1>2, <1>3, <1>4, <1>5, <1>6, <1>7, <1>8, <1>11, <1>12, <1>13, <1>14, <1>15,
     <1>16, <1>17, <1>21, <1>22 DEF Next, Client, DmaThread, PiManager

LEMMA SoloInvInductive ==
    ASSUME NEW c \in Clients, Clients = {c}
    PROVE  /\ Init => SoloInv
           /\ SoloInv /\ [Next]_vars => SoloInv'
<1>1. ASSUME Init PROVE SoloInv
  <2>1. AnswerMeansData
    BY <1>1 DEF Init, AnswerMeansData
  <2>2. ASSUME NEW d \in Clients PROVE Solo(d)
    BY <1>1 DEF Init, Solo, AtRest, NoCommand
  <2> QED
    BY <1>1, <2>1, <2>2, TypeInit DEF SoloInv
<1>2. ASSUME SoloInv, [Next]_vars PROVE SoloInv'
  <2>1. TypeOK /\ AnswerMeansData /\ Solo(c)
    BY <1>2 DEF SoloInv
  <2>2. TypeOK'
    BY <1>2, <2>1, TypeStep
  <2>3. Solo(c)'
    <3>1. CASE Next
      BY <2>1, <3>1, SoloStep
    <3>2. CASE UNCHANGED vars
      <4>1. /\ pc' = pc /\ req' = req /\ io' = io /\ reply' = reply /\ reqq' = reqq
            /\ doneq' = doneq /\ startq' = startq /\ dpc' = dpc /\ cur' = cur
            /\ chunk' = chunk /\ piq' = piq /\ pi' = pi /\ landed' = landed
            /\ dest' = dest /\ heap' = heap
        BY <3>2 DEF vars
      <4>2. /\ NoCommand' = NoCommand /\ FirstPhase(c)' = FirstPhase(c)
            /\ SecondPhase(c)' = SecondPhase(c) /\ Arrived(c)' = Arrived(c)
        BY <4>1 DEF NoCommand, FirstPhase, SecondPhase, Arrived
      <4>3. AtRest(c)' = AtRest(c)
        BY <4>1, <4>2 DEF AtRest
      <4>4. Pushed(c)' = Pushed(c)
        BY <4>1, <4>2 DEF Pushed
      <4>5. HeaderUnderWay(c)' = HeaderUnderWay(c)
        BY <4>1, <4>2 DEF HeaderUnderWay, OneCommand
      <4>6. HeaderThere(c)' = HeaderThere(c) /\ Requeueing(c)' = Requeueing(c)
        BY <4>1, <4>2 DEF HeaderThere, Requeueing
      <4>7. Chunking(c)' = Chunking(c)
        BY <4>1, <4>2 DEF Chunking, OneCommand
      <4>8. LastChunkUnderWay(c)' = LastChunkUnderWay(c)
        BY <4>1, <4>2 DEF LastChunkUnderWay, OneCommand
      <4>9. AllThere(c)' = AllThere(c) /\ Finishing(c)' = Finishing(c)
        BY <4>1, <4>2 DEF AllThere, Finishing
      <4>10. InCall(c)' = InCall(c)
        BY <4>1, <4>4 DEF InCall
      <4> QED
        BY <2>1, <4>3, <4>4, <4>5, <4>6, <4>7, <4>8, <4>9, <4>10 DEF Solo
    <3> QED
      BY <1>2, <3>1, <3>2
  <2>4. AnswerMeansData'
    <3>1. CASE Finish
      <4>1. Arrived(cur)
        BY <2>1, <3>1 DEF Finish, FinishFreeing, Solo, AtRest, Pushed,
           HeaderUnderWay, HeaderThere, Requeueing, Chunking, LastChunkUnderWay,
           AllThere, Finishing
      <4> QED
        BY <2>1, <3>1, <4>1 DEF Finish, FinishFreeing, AnswerMeansData, TypeOK
    <3>2. CASE \E d \in Clients : FillRequest(d)
      BY <2>1, <3>2 DEF FillRequest, AnswerMeansData, TypeOK
    <3>3. CASE UNCHANGED dest
      BY <2>1, <3>3 DEF AnswerMeansData
    <3> QED
      BY <1>2, <3>1, <3>2, <3>3 DEF Next, Client, DmaThread, PiManager, vars, memory,
         PushRequest, StartHeader, RecvReply, TakeDone, TakeRequest, NoHeaderLeft,
         PlainHeader, PackedHeader, NoWorkBuffer, Requeue, StartChunk, ChunkTo,
         TakeChunk, PiStart, PiDone
  <2> QED
    BY <2>1, <2>2, <2>3, <2>4 DEF SoloInv
<1> QED
  BY <1>1, <1>2

(* With one client, however many requests of whatever kind it makes and however
   large the queues are: the data are there when it is answered, the DMA thread
   never looks at a header that has not arrived, nothing points into the stack
   of a call that has returned, and no work buffer is leaked.                *)
THEOREM SoloSafe ==
    ASSUME NEW c \in Clients, Clients = {c}
    PROVE  Spec => [](/\ SoloInv /\ HeaderArrived
                      /\ RequestOutlivesUse /\ WorkBufferFreed)
<1>1. Init => SoloInv
  BY SoloInvInductive
<1>2. SoloInv /\ [Next]_vars => SoloInv'
  BY SoloInvInductive
<1>3. SoloInv => /\ HeaderArrived /\ RequestOutlivesUse /\ WorkBufferFreed
  <2> SUFFICES ASSUME SoloInv
               PROVE  HeaderArrived /\ RequestOutlivesUse /\ WorkBufferFreed
    OBVIOUS
  <2>1. TypeOK /\ Solo(c)
    BY DEF SoloInv
  <2>2. HeaderArrived
    BY <2>1 DEF HeaderArrived, Solo, AtRest, Pushed, HeaderUnderWay, HeaderThere,
       Requeueing, Chunking, LastChunkUnderWay, AllThere, SecondPhase, Finishing
  <2>3. pc[c] = "idle" => AtRest(c)
    BY <2>1 DEF Solo, InCall
  <2>4. AtRest(c) => cur = None /\ pi = NoTransfer /\ piq = <<>> /\ reqq = <<>>
                     /\ heap = {}
    BY <2>1 DEF AtRest, NoCommand, TypeOK
  <2>5. RequestOutlivesUse
    BY <2>3, <2>4, DmaAssumption DEF RequestOutlivesUse, NoTransfer
  <2>6. WorkBufferFreed
    BY <2>3, <2>4 DEF WorkBufferFreed
  <2> QED
    BY <2>2, <2>5, <2>6
<1> QED
  BY <1>1, <1>2, <1>3, PTL DEF Spec

-----------------------------------------------------------------------------
(* With one client the queues, phases and chunks implement DmaService: filling
   a request asks, the last phase serves, receiving the answer returns, and
   every other step is invisible.                                            *)

LEMMA ServiceStep ==
    ASSUME NEW c \in Clients, Clients = {c}, SoloInv, [Next]_vars
    PROVE  [Service!Next]_(Service!vars)
<1>1. TypeOK /\ Solo(c)
  BY DEF SoloInv
<1>2. CASE FillRequest(c)
  <2>1. pc[c] = "idle" /\ pc'[c] = "push" /\ dest'[c] = "old"
    BY <1>1, <1>2 DEF FillRequest, TypeOK
  <2>2. serviceState[c] = "idle"
    BY <2>1 DEF serviceState
  <2>3. serviceState' = [serviceState EXCEPT ![c] = "asked"]
    BY <2>1 DEF serviceState
  <2> QED
    BY <1>2, <2>2, <2>3 DEF FillRequest, Service!Next, Service!Ask
<1>3. CASE RecvReply(c)
  <2>1. AtRest(c) /\ reply[c] # 0 /\ dest[c] = "data"
    BY <1>1, <1>3 DEF RecvReply, Solo, InCall, AtRest, TypeOK
  <2>2. pc[c] = "wait" /\ pc'[c] = "idle" /\ UNCHANGED dest
    BY <1>1, <1>3 DEF RecvReply, TypeOK, memory
  <2>3. serviceState[c] = "answered"
    BY <2>1, <2>2 DEF serviceState
  <2>4. serviceState' = [serviceState EXCEPT ![c] = "idle"]
    BY <2>2 DEF serviceState
  <2> QED
    BY <2>2, <2>3, <2>4 DEF Service!Next, Service!Return
<1>4. CASE Finish
  <2>1. InCall(c) /\ Arrived(c) /\ cur = c
    BY <1>1, <1>4 DEF Finish, FinishFreeing, Solo, AtRest, Pushed, HeaderUnderWay,
       HeaderThere, Requeueing, Chunking, LastChunkUnderWay, AllThere, Finishing
  <2>2. /\ pc[c] # "idle" /\ pc' = pc /\ dest[c] = "old"
        /\ dest' = [dest EXCEPT ![c] = "data"] /\ dest'[c] = "data"
    BY <1>1, <1>4, <2>1 DEF Finish, FinishFreeing, InCall, TypeOK
  <2>3. serviceState[c] = "asked"
    BY <2>2 DEF serviceState
  <2>4. serviceState' = [serviceState EXCEPT ![c] = "answered"]
    BY <2>2 DEF serviceState
  <2> QED
    BY <2>2, <2>3, <2>4 DEF Service!Next, Service!Serve
<1>5. ASSUME UNCHANGED dest, (pc'[c] = "idle") <=> (pc[c] = "idle")
      PROVE  UNCHANGED Service!vars
  BY <1>5 DEF Service!vars, serviceState
<1>6. CASE PushRequest(c) \/ StartHeader(c)
  BY <1>1, <1>5, <1>6 DEF PushRequest, StartHeader, memory, TypeOK
<1>7. CASE UNCHANGED <<pc, dest>>
  BY <1>5, <1>7
<1> QED
  BY <1>2, <1>3, <1>4, <1>6, <1>7 DEF Next, Client, DmaThread, PiManager, vars,
     memory, clientVars, TakeDone, TakeRequest, NoHeaderLeft, PlainHeader,
     PackedHeader, NoWorkBuffer, Requeue, StartChunk, ChunkTo, TakeChunk, PiStart,
     PiDone

THEOREM SoloImplementsService ==
    ASSUME NEW c \in Clients, Clients = {c}
    PROVE  Spec => ServiceSafe
<1>1. Init => Service!Init
  BY DEF Init, Service!Init, serviceState
<1>2. Init => SoloInv
  BY SoloInvInductive
<1>3. SoloInv /\ [Next]_vars => SoloInv'
  BY SoloInvInductive
<1>4. SoloInv /\ [Next]_vars => [Service!Next]_(Service!vars)
  BY ServiceStep
<1> QED
  BY <1>1, <1>2, <1>3, <1>4, PTL DEF Spec, ServiceSafe, Service!Spec

-----------------------------------------------------------------------------
(* Any number of clients: the work buffers.  A request that has one was looked at and
   is in the queue or in hand. *)
HeapInv ==
    \A c \in heap : /\ req[c].unpack /\ ~req[c].kind.work /\ ~req[c].header
                    /\ Queued(c) \/ (cur = c /\ dpc \notin {"chunk", "chunk?"})

LEMMA HeapStep ==
    ASSUME TypeOK, TypeOK', QueueInv, HeapInv, [Next]_vars
    PROVE  HeapInv'
<1>1. /\ heap \subseteq Clients /\ req \in [Clients -> RequestType] /\ reqq \in Seq(Clients)
      /\ Len(reqq) \in Nat
      /\ \A c \in heap : /\ req[c].unpack /\ ~req[c].kind.work /\ ~req[c].header
                         /\ Queued(c) \/ (cur = c /\ dpc \notin {"chunk", "chunk?"})
  BY DEF TypeOK, HeapInv
<1>2. ASSUME NEW c, c \in Clients, reqq' = Append(reqq, c)
      PROVE  \A d : Queued(d)' <=> Queued(d) \/ d = c
  <2>1. /\ Len(reqq') = Len(reqq) + 1
        /\ \A i \in 1 .. Len(reqq) : reqq'[i] = reqq[i]
        /\ reqq'[Len(reqq) + 1] = c
    BY <1>1, <1>2, AppendProperties
  <2> QED
    BY <1>1, <2>1 DEF Queued
<1>3. ASSUME UNCHANGED <<req, reqq, cur, heap>>,
             dpc' \in {"chunk", "chunk?"} => dpc \in {"chunk", "chunk?"}
      PROVE  HeapInv'
  BY <1>3 DEF HeapInv, Queued
<1>4. ASSUME NEW c \in Clients, FillRequest(c) PROVE HeapInv'
  <2>1. /\ c \notin heap /\ UNCHANGED <<reqq, dpc, cur, heap>>
        /\ \A d \in Clients : d # c => req'[d] = req[d]
    BY <1>1, <1>4 DEF FillRequest, QueueInv, dmaVars
  <2> QED
    BY <1>1, <2>1 DEF HeapInv, Queued
<1>5. ASSUME NEW c \in Clients, PushRequest(c) PROVE HeapInv'
  <2>1. reqq' = Append(reqq, c) /\ UNCHANGED <<req, dpc, cur, heap>>
    BY <1>5 DEF PushRequest, dmaVars, memory
  <2> QED
    BY <1>1, <1>2, <2>1 DEF HeapInv
<1>6. CASE TakeRequest
  <2>1. /\ Len(reqq) > 0 /\ Len(reqq') = Len(reqq) - 1 /\ cur' = reqq[1]
        /\ \A i \in 1 .. Len(reqq') : reqq'[i] = reqq[i + 1]
        /\ UNCHANGED <<req, heap>>
    BY <1>1, <1>6, HeadTailProperties DEF TakeRequest, memory
  <2>2. dpc = "request?" /\ cur = None /\ dpc' = "inspect"
    BY <1>6 DEF TakeRequest, TypeOK
  <2>3. ASSUME NEW c \in heap
        PROVE  Queued(c)' \/ cur' = c
    <3>1. PICK i \in 1 .. Len(reqq) : reqq[i] = c
      BY <1>1, <2>2, DmaAssumption DEF Queued
    <3>2. CASE i = 1
      BY <2>1, <3>1, <3>2
    <3>3. CASE i # 1
      <4>1. i - 1 \in 1 .. Len(reqq') /\ (i - 1) + 1 = i
        BY <1>1, <2>1, <3>3
      <4>2. reqq'[i - 1] = c
        BY <2>1, <3>1, <4>1
      <4> QED
        BY <4>1, <4>2 DEF Queued
    <3> QED
      BY <3>2, <3>3
  <2> QED
    BY <1>1, <2>1, <2>2, <2>3 DEF HeapInv
<1>7. ASSUME dpc = "inspect", req[cur].header
      PROVE  cur \in Clients /\ cur \notin heap
  BY <1>1, <1>7 DEF TypeOK
<1>8. CASE PlainHeader
  <2>1. /\ UNCHANGED <<reqq, cur, heap>> /\ cur \notin heap /\ dpc' = "requeue"
        /\ \A d \in Clients : d # cur => req'[d] = req[d]
    BY <1>1, <1>7, <1>8 DEF PlainHeader, memory
  <2> QED
    BY <1>1, <2>1 DEF HeapInv, Queued
<1>9. CASE PackedHeader
  <2>1. PICK n \in PackedSizes(cur) :
          req' = [req EXCEPT ![cur] = [@ EXCEPT !.header = FALSE, !.unpack = TRUE, !.parts = n]]
    BY <1>9 DEF PackedHeader
  <2>2. /\ UNCHANGED <<reqq, cur>> /\ cur \in Clients
        /\ heap' = IF req[cur].kind.work THEN heap ELSE heap \cup {cur}
        /\ cur \notin heap /\ dpc' = "requeue"
    BY <1>1, <1>7, <1>9 DEF PackedHeader
  <2>3. /\ \A d \in Clients : d # cur => req'[d] = req[d]
        /\ req'[cur].unpack /\ ~req'[cur].header /\ req'[cur].kind = req[cur].kind
    <3>1. req[cur] \in RequestType
      BY <1>1, <2>2
    <3>2. req'[cur] = [req[cur] EXCEPT !.header = FALSE, !.unpack = TRUE, !.parts = n]
      BY <1>1, <2>1, <2>2
    <3> QED
      BY <1>1, <2>1, <3>1, <3>2 DEF RequestType
  <2>4. \A d : Queued(d)' <=> Queued(d)
    BY <2>2 DEF Queued
  <2> QED
    BY <1>1, <2>2, <2>3, <2>4 DEF HeapInv
<1>10. CASE NoWorkBuffer
  <2>1. PICK n \in PackedSizes(cur) :
          req' = [req EXCEPT ![cur] = [@ EXCEPT !.header = FALSE, !.unpack = TRUE, !.parts = n]]
    BY <1>10 DEF NoWorkBuffer
  <2>2. UNCHANGED <<reqq, heap>> /\ cur \notin heap /\ dpc = "inspect"
    BY <1>1, <1>7, <1>10 DEF NoWorkBuffer, memory
  <2>3. \A d \in Clients : d # cur => req'[d] = req[d]
    BY <1>1, <2>1
  <2>4. \A d : Queued(d)' <=> Queued(d)
    BY <2>2 DEF Queued
  <2> QED
    BY <1>1, <2>2, <2>3, <2>4 DEF HeapInv
<1>11. CASE Requeue
  <2>1. reqq' = Append(reqq, cur) /\ cur \in Clients /\ UNCHANGED <<req, cur, heap>>
    BY <1>11 DEF Requeue, memory, TypeOK
  <2> QED
    BY <1>1, <1>2, <2>1 DEF HeapInv
<1>12. CASE StartChunk
  <2>1. dpc = "chunk" /\ cur' \in {cur, None} /\ UNCHANGED <<req, reqq, heap>>
    BY <1>12 DEF StartChunk, ChunkTo, memory
  <2>2. \A d : Queued(d)' <=> Queued(d)
    BY <2>1 DEF Queued
  <2> QED
    BY <1>1, <2>1, <2>2 DEF HeapInv
<1>13. CASE Finish
  <2>1. /\ dpc = "finish" /\ UNCHANGED <<req, reqq>>
        /\ heap' = heap \ (IF req[cur].unpack /\ ~req[cur].kind.work THEN {cur} ELSE {})
    BY <1>13 DEF Finish, FinishFreeing
  <2>2. cur \notin heap' /\ heap' \subseteq heap
    BY <1>1, <2>1
  <2>3. \A d : Queued(d)' <=> Queued(d)
    BY <2>1 DEF Queued
  <2> QED
    BY <1>1, <2>1, <2>2, <2>3 DEF HeapInv
<1>14. CASE UNCHANGED vars
  BY <1>3, <1>14 DEF vars, memory
<1> QED
  BY <1>3, <1>4, <1>5, <1>6, <1>8, <1>9, <1>10, <1>11, <1>12, <1>13, <1>14
     DEF Next, Client, DmaThread, PiManager, StartHeader, RecvReply, TakeDone, NoHeaderLeft,
         TakeChunk, PiStart, PiDone, dmaVars, memory

LEMMA NoneIdleHasBuffer ==
    ASSUME TypeOK, QueueInv, HeapInv
    PROVE  WorkBufferFreed
BY DEF TypeOK, QueueInv, HeapInv, WorkBufferFreed

(* Files of one chunk at most, and queues with a place for each client.  Every command
   then says that it is the last of its request. *)
Enough == Cardinality(Clients) <= DoneCap /\ Cardinality(Clients) <= PiCap

Asking == {c \in Clients : pc[c] = "start"}

UnderWay == Len(doneq) + Len(piq) + (IF pi = NoTransfer THEN 0 ELSE 1)
            + Cardinality(Asking) + (IF dpc \in {"request?", "chunk"} THEN 1 ELSE 0)

ShortInv ==
    /\ \A c \in Clients : io[c].ret = "done" /\ req[c].parts <= 1
    /\ dpc # "chunk?" /\ chunk >= 1
    /\ Len(reqq) = UnderWay

(* A queue that holds some of the clients, each once. *)
LEMMA AtMostAll ==
    ASSUME TypeOK, QueueInv
    PROVE  Len(reqq) <= Cardinality(Clients) /\ Cardinality(Clients) \in Nat /\ Len(reqq) \in Nat
<1>1. IsFiniteSet(Clients) /\ Cardinality(Clients) \in Nat
  BY DmaAssumption, FS_CardinalityType
<1>2. reqq \in [1 .. Len(reqq) -> Clients] /\ Len(reqq) \in Nat
  BY DEF TypeOK
<1>3. reqq \in Injection(1 .. Len(reqq), Clients)
  BY <1>2 DEF QueueInv, Injection, IsInjective
<1>4. Cardinality(1 .. Len(reqq)) <= Cardinality(Clients)
  BY <1>1, <1>3, FS_Injection
<1>5. Cardinality(1 .. Len(reqq)) = Len(reqq)
  <2>1. Cardinality(1 .. Len(reqq)) = IF 1 > Len(reqq) THEN 0 ELSE Len(reqq) - 1 + 1
    BY <1>2, FS_Interval
  <2> QED
    BY <1>2, <2>1
<1> QED
  BY <1>1, <1>2, <1>4, <1>5

LEMMA AskingIs ==
    /\ IsFiniteSet(Asking) /\ Cardinality(Asking) \in Nat
    /\ Asking # {} => Cardinality(Asking) >= 1
<1>1. IsFiniteSet(Asking)
  BY DmaAssumption, FS_Subset DEF Asking
<1>2. Cardinality(Asking) \in Nat /\ (Cardinality(Asking) = 0 <=> Asking = {})
  BY <1>1, FS_CardinalityType, FS_EmptySet
<1> QED
  BY <1>1, <1>2

(* The queues have room for one more. *)
LEMMA RoomForCommand ==
    ASSUME Enough, TypeOK, QueueInv, ShortInv
    PROVE  /\ dpc = "chunk" \/ Asking # {} => Len(piq) < PiCap
           /\ pi # NoTransfer => Len(doneq) < DoneCap
<1>1. /\ Len(reqq) <= Cardinality(Clients) /\ Cardinality(Clients) \in Nat
      /\ Len(reqq) \in Nat
  BY AtMostAll
<1>2. Len(doneq) \in Nat /\ Len(piq) \in Nat
  BY DEF TypeOK
<1>3. Cardinality(Asking) \in Nat /\ (Asking # {} => Cardinality(Asking) >= 1)
  BY AskingIs
<1>4. Len(reqq) = Len(doneq) + Len(piq) + (IF pi = NoTransfer THEN 0 ELSE 1)
                  + Cardinality(Asking) + (IF dpc \in {"request?", "chunk"} THEN 1 ELSE 0)
  BY DEF ShortInv, UnderWay
<1>5. DoneCap \in Nat /\ PiCap \in Nat
      /\ Cardinality(Clients) <= DoneCap /\ Cardinality(Clients) <= PiCap
  BY DmaAssumption DEF Enough
<1>6. dpc = "chunk" => Len(piq) < PiCap
  BY <1>1, <1>2, <1>3, <1>4, <1>5
<1>7. Asking # {} => Len(piq) < PiCap
  <2>1. CASE dpc \in {"request?", "chunk"}
    BY <1>1, <1>2, <1>3, <1>4, <1>5, <2>1
  <2>2. CASE dpc \notin {"request?", "chunk"}
    BY <1>1, <1>2, <1>3, <1>4, <1>5, <2>2
  <2> QED
    BY <2>1, <2>2
<1>8. pi # NoTransfer => Len(doneq) < DoneCap
  <2>1. CASE dpc \in {"request?", "chunk"}
    BY <1>1, <1>2, <1>3, <1>4, <1>5, <2>1
  <2>2. CASE dpc \notin {"request?", "chunk"}
    BY <1>1, <1>2, <1>3, <1>4, <1>5, <2>2
  <2> QED
    BY <2>1, <2>2
<1> QED
  BY <1>6, <1>7, <1>8

LEMMA ShortShows ==
    ASSUME Enough, TypeOK, QueueInv, ShortInv
    PROVE  OneTokenPerRequest /\ CommandFits
<1>1. /\ piq \in Seq(Clients) /\ Len(piq) \in Nat /\ Len(doneq) \in Nat
      /\ pi \in [for : Clients, part : Nat] \cup {NoTransfer}
      /\ \A c \in Clients : io[c].ret = "done"
  BY DEF TypeOK, ShortInv
<1> DEFINE n == Len(piq)
           q == {i \in 1 .. n : io[piq[i]].ret = "done"}
           t == {x \in {pi} \ {NoTransfer} : io[x.for].ret = "done"}
<1>2. q = 1 .. n
  <2>1. \A i \in 1 .. n : piq[i] \in Clients
    BY <1>1, ElementOfSeq
  <2>2. \A i \in 1 .. n : io[piq[i]].ret = "done"
    BY <1>1, <2>1
  <2> HIDE DEF n
  <2>3. q \subseteq 1 .. n
    OBVIOUS
  <2>4. 1 .. n \subseteq q
    BY <2>2
  <2> QED
    BY <2>3, <2>4
<1>3. Cardinality(1 .. n) = n
  <2>0. 1 \in Int /\ n \in Int /\ n \in Nat
    BY <1>1
  <2> HIDE DEF n
  <2>1. Cardinality(1 .. n) = IF 1 > n THEN 0 ELSE n - 1 + 1
    BY <2>0, FS_Interval
  <2> QED
    BY <2>0, <2>1
<1>4. t = {pi} \ {NoTransfer}
  BY <1>1
<1>5. Cardinality({pi} \ {NoTransfer}) = IF pi = NoTransfer THEN 0 ELSE 1
  <2>1. CASE pi = NoTransfer
    BY <2>1, FS_EmptySet
  <2>2. CASE pi # NoTransfer
    <3>1. {pi} \ {NoTransfer} = {pi}
      BY <2>2
    <3> QED
      BY <2>2, <3>1, FS_Singleton
  <2> QED
    BY <2>1, <2>2
<1>6. FinalCommands = n + IF pi = NoTransfer THEN 0 ELSE 1
  <2>1. FinalCommands = Cardinality(q) + Cardinality(t)
    BY DEF FinalCommands
  <2> QED
    BY <1>2, <1>3, <1>4, <1>5, <2>1
<1>7. Cardinality(Asking) \in Nat
  BY AskingIs
<1>8. OneTokenPerRequest
  <2>1. Len(reqq) = Len(doneq) + n + (IF pi = NoTransfer THEN 0 ELSE 1)
                    + Cardinality(Asking) + (IF dpc \in {"request?", "chunk"} THEN 1 ELSE 0)
    BY DEF ShortInv, UnderWay
  <2>2. (IF dpc \in {"request?", "chunk"} THEN 1 ELSE 0)
        = IF dpc \in {"request?", "chunk", "chunk?"} THEN 1 ELSE 0
    BY DEF ShortInv
  <2> DEFINE f == FinalCommands
             a == Cardinality(Asking)
             d == Len(doneq)
  <2>3. f = n + (IF pi = NoTransfer THEN 0 ELSE 1) /\ a \in Nat /\ d \in Nat /\ n \in Nat
    BY <1>1, <1>6, <1>7
  <2>4. OneTokenPerRequest <=>
          Len(reqq) = d + f + a + (IF dpc \in {"request?", "chunk", "chunk?"} THEN 1 ELSE 0)
    BY DEF OneTokenPerRequest, Asking
  <2> HIDE DEF f, a, d, n
  <2>5. d + f + a = d + n + (IF pi = NoTransfer THEN 0 ELSE 1) + a
    BY <2>3
  <2> QED
    BY <2>1, <2>2, <2>4, <2>5 DEF a, d
<1>9. CommandFits
  BY RoomForCommand DEF CommandFits, Asking
<1> QED
  BY <1>8, <1>9

(* The commands there are, one more or one less. *)
LEMMA OneAsks ==
    ASSUME TypeOK, NEW c \in Clients, pc[c] # "start", pc' = [pc EXCEPT ![c] = "start"]
    PROVE  Cardinality(Asking)' = Cardinality(Asking) + 1 /\ Cardinality(Asking) \in Nat
<1>1. Asking' = Asking \cup {c} /\ c \notin Asking
  BY DEF Asking, TypeOK
<1> QED
  BY <1>1, AskingIs, FS_AddElement

LEMMA OneAsked ==
    ASSUME TypeOK, NEW c \in Clients, pc[c] = "start", NEW p, p # "start",
           pc' = [pc EXCEPT ![c] = p]
    PROVE  Cardinality(Asking)' = Cardinality(Asking) - 1 /\ Cardinality(Asking) \in Nat
<1>1. Asking' = Asking \ {c} /\ c \in Asking
  BY DEF Asking, TypeOK
<1> QED
  BY <1>1, AskingIs, FS_RemoveElement

(* A command sent: io and piq are what they were, and one more. *)
LEMMA Sends ==
    ASSUME TypeOK, NEW c \in Clients, NEW part, NEW high \in BOOLEAN,
           \A d \in Clients : io[d].ret = "done",
           StartDma(c, part, "done", high), Len(piq) < PiCap
    PROVE  Len(piq') = Len(piq) + 1 /\ \A d \in Clients : io'[d].ret = "done"
<1>1. piq \in Seq(Clients) /\ Len(piq) \in Nat /\ PiCap \in Nat
  BY DmaAssumption DEF TypeOK
<1>2. \A d \in Clients : io'[d].ret = "done"
  BY DEF StartDma, TypeOK
<1>3. CASE high
  <2>1. <<c>> \in Seq(Clients) /\ Len(<<c>>) = 1
    OBVIOUS
  <2>2. Len(<<c>> \o piq) = 1 + Len(piq)
    BY <1>1, <2>1, ConcatProperties
  <2> QED
    BY <1>1, <1>2, <1>3, <2>2 DEF StartDma
<1>4. CASE ~high
  <2>1. Len(Append(piq, c)) = Len(piq) + 1
    BY <1>1, AppendProperties
  <2> QED
    BY <1>1, <1>2, <1>4, <2>1 DEF StartDma
<1> QED
  BY <1>3, <1>4

(* What counts of the state, as numbers. *)
Weight(r, d, q, p, a, w) == r = d + q + (IF p = NoTransfer THEN 0 ELSE 1) + a
                                + (IF w \in {"request?", "chunk"} THEN 1 ELSE 0)

LEMMA ShortStep ==
    ASSUME Enough, TypeOK, TypeOK', QueueInv, ShortInv, Next,
           \A c \in Clients : req'[c].parts <= 1
    PROVE  ShortInv'
<1> DEFINE r == Len(reqq)
           d == Len(doneq)
           q == Len(piq)
           a == Cardinality(Asking)
<1>1. /\ \A c \in Clients : io[c].ret = "done" /\ req[c].parts <= 1
      /\ dpc # "chunk?" /\ chunk >= 1
      /\ Weight(r, d, q, pi, a, dpc)
  BY DEF ShortInv, UnderWay, Weight
<1>2. r \in Nat /\ d \in Nat /\ q \in Nat /\ a \in Nat
  BY AskingIs DEF TypeOK
<1>3. SUFFICES /\ \A c \in Clients : io'[c].ret = "done"
               /\ dpc' # "chunk?" /\ chunk' >= 1
               /\ Weight(r', d', q', pi', a', dpc')
  BY DEF ShortInv, UnderWay, Weight
<1>4. pc' = pc => a' = a
  BY DEF Asking
<1>5. reqq \in Seq(Clients) /\ doneq \in Seq(Clients) /\ piq \in Seq(Clients)
  BY DEF TypeOK
<1>6. /\ dpc = "chunk" => q < PiCap
      /\ pi # NoTransfer => d < DoneCap
      /\ \A c \in Clients : pc[c] = "start" => q < PiCap
  BY RoomForCommand DEF Asking
<1>7. ASSUME NEW c \in Clients, FillRequest(c)
      PROVE  /\ \A e \in Clients : io'[e].ret = "done"
             /\ dpc' # "chunk?" /\ chunk' >= 1
             /\ Weight(r', d', q', pi', a', dpc')
  <2>1. pc[c] = "idle" /\ pc' = [pc EXCEPT ![c] = "push"]
        /\ UNCHANGED <<io, reqq, doneq, dpc, chunk, piq, pi>>
    BY <1>7 DEF FillRequest, dmaVars
  <2>2. Asking' = Asking
    BY <2>1 DEF Asking, TypeOK
  <2> QED
    BY <1>1, <2>1, <2>2
<1>8. ASSUME NEW c \in Clients, PushRequest(c)
      PROVE  /\ \A e \in Clients : io'[e].ret = "done"
             /\ dpc' # "chunk?" /\ chunk' >= 1
             /\ Weight(r', d', q', pi', a', dpc')
  <2>1. /\ pc[c] = "push" /\ pc' = [pc EXCEPT ![c] = "start"] /\ reqq' = Append(reqq, c)
        /\ UNCHANGED <<io, doneq, dpc, chunk, piq, pi>>
    BY <1>8 DEF PushRequest, dmaVars
  <2>2. r' = r + 1
    BY <1>5, <2>1, AppendProperties
  <2>3. a' = a + 1
    BY <2>1, OneAsks
  <2>4. d' = d /\ q' = q
    BY <2>1
  <2> HIDE DEF r, d, q, a
  <2>5. Weight(r', d', q', pi', a', dpc')
    BY <1>1, <1>2, <2>1, <2>2, <2>3, <2>4 DEF Weight
  <2> QED
    BY <1>1, <2>1, <2>5
<1>9. ASSUME NEW c \in Clients, StartHeader(c)
      PROVE  /\ \A e \in Clients : io'[e].ret = "done"
             /\ dpc' # "chunk?" /\ chunk' >= 1
             /\ Weight(r', d', q', pi', a', dpc')
  <2> DEFINE p == IF req[c].kind.reply THEN "wait" ELSE "sent"
  <2>1. /\ pc[c] = "start" /\ pc' = [pc EXCEPT ![c] = p]
        /\ StartDma(c, 0, "done", TRUE)
        /\ UNCHANGED <<reqq, doneq, dpc, chunk, pi>>
    BY <1>9 DEF StartHeader, dmaVars
  <2>2. p # "start"
    OBVIOUS
  <2> HIDE DEF p
  <2>3. a' = a - 1
    BY <2>1, <2>2, OneAsked
  <2>4. q < PiCap
    BY <1>6, <2>1
  <2>5. q' = q + 1 /\ \A e \in Clients : io'[e].ret = "done"
    BY <1>1, <2>1, <2>4, Sends
  <2> HIDE DEF r, d, q, a
  <2>6. d' = d /\ r' = r
    BY <2>1 DEF d, r
  <2> QED
    BY <1>1, <1>2, <2>1, <2>3, <2>5, <2>6 DEF Weight
<1>10. ASSUME NEW c \in Clients, RecvReply(c)
       PROVE  /\ \A e \in Clients : io'[e].ret = "done"
              /\ dpc' # "chunk?" /\ chunk' >= 1
              /\ Weight(r', d', q', pi', a', dpc')
  <2>1. pc[c] = "wait" /\ pc' = [pc EXCEPT ![c] = "idle"]
        /\ UNCHANGED <<io, reqq, doneq, dpc, chunk, piq, pi>>
    BY <1>10 DEF RecvReply, dmaVars
  <2>2. Asking' = Asking
    BY <2>1 DEF Asking, TypeOK
  <2> QED
    BY <1>1, <2>1, <2>2
<1>11. CASE TakeDone
  <2>1. /\ dpc = "done?" /\ dpc' = "request?" /\ doneq # <<>> /\ doneq' = Tail(doneq)
        /\ UNCHANGED <<pc, io, reqq, chunk, piq, pi>>
    BY <1>11 DEF TakeDone, clientVars
  <2>2. d' = d - 1
    BY <1>5, <2>1, HeadTailProperties
  <2>3. a' = a /\ q' = q /\ r' = r
    BY <1>4, <2>1
  <2> HIDE DEF r, d, q, a
  <2> QED
    BY <1>1, <1>2, <2>1, <2>2, <2>3 DEF Weight
<1>12. CASE TakeRequest
  <2>1. /\ dpc = "request?" /\ dpc' = "inspect" /\ reqq # <<>> /\ reqq' = Tail(reqq)
        /\ UNCHANGED <<pc, io, doneq, chunk, piq, pi>>
    BY <1>12 DEF TakeRequest, clientVars
  <2>2. r' = r - 1
    BY <1>5, <2>1, HeadTailProperties
  <2>3. a' = a /\ q' = q /\ d' = d
    BY <1>4, <2>1
  <2> HIDE DEF r, d, q, a
  <2> QED
    BY <1>1, <1>2, <2>1, <2>2, <2>3 DEF Weight
<1>13. ASSUME UNCHANGED <<pc, io, reqq, doneq, chunk, piq, pi>>,
              dpc \notin {"request?", "chunk"}, dpc' \notin {"request?", "chunk", "chunk?"}
       PROVE  /\ \A e \in Clients : io'[e].ret = "done"
              /\ dpc' # "chunk?" /\ chunk' >= 1
              /\ Weight(r', d', q', pi', a', dpc')
  <2>1. a' = a /\ q' = q /\ d' = d /\ r' = r
    BY <1>4, <1>13
  <2> HIDE DEF r, d, q, a
  <2> QED
    BY <1>1, <1>2, <1>13, <2>1 DEF Weight
<1>14. CASE NoHeaderLeft \/ PlainHeader \/ PackedHeader \/ NoWorkBuffer \/ Finish
  <2>1. UNCHANGED <<pc, io, reqq, doneq, chunk, piq, pi>>
        /\ dpc \in {"inspect", "finish"} /\ dpc' \in {"finish", "requeue", "done?"}
    BY <1>14 DEF NoHeaderLeft, PlainHeader, PackedHeader, NoWorkBuffer, Finish, FinishFreeing,
                 clientVars, memory
  <2> QED
    BY <1>13, <2>1
<1>15. CASE Requeue
  <2>1. /\ dpc = "requeue" /\ dpc' = "chunk" /\ reqq' = Append(reqq, cur) /\ chunk' = 1
        /\ cur \in Clients /\ UNCHANGED <<pc, io, doneq, piq, pi>>
    BY <1>15 DEF Requeue, clientVars, TypeOK
  <2>2. r' = r + 1
    BY <1>5, <2>1, AppendProperties
  <2>3. a' = a /\ q' = q /\ d' = d
    BY <1>4, <2>1
  <2> HIDE DEF r, d, q, a
  <2> QED
    BY <1>1, <1>2, <2>1, <2>2, <2>3 DEF Weight
<1>16. CASE StartChunk
  <2>1. dpc = "chunk" /\ cur \in Clients /\ chunk \in Nat /\ UNCHANGED <<pc, reqq, doneq, chunk, pi>>
    BY <1>16 DEF StartChunk, ChunkTo, clientVars, TypeOK
  <2>2. req[cur].parts \in Nat /\ ~(chunk < req[cur].parts)
    BY <1>1, <2>1 DEF TypeOK, RequestType
  <2>3. StartDma(cur, chunk, "done", FALSE) /\ dpc' = "done?"
    BY <1>16, <2>2 DEF StartChunk, ChunkTo
  <2>4. q < PiCap
    BY <1>6, <2>1
  <2>5. q' = q + 1 /\ \A e \in Clients : io'[e].ret = "done"
    BY <1>1, <2>1, <2>3, <2>4, Sends
  <2>6. a' = a /\ d' = d /\ r' = r
    BY <1>4, <2>1
  <2> HIDE DEF r, d, q, a
  <2> QED
    BY <1>1, <1>2, <2>1, <2>3, <2>5, <2>6 DEF Weight
<1>17. CASE TakeChunk
  BY <1>1, <1>17 DEF TakeChunk
<1>18. CASE PiStart
  <2>1. /\ pi = NoTransfer /\ piq # <<>> /\ piq' = Tail(piq)
        /\ pi' = [for |-> Head(piq), part |-> io[Head(piq)].part]
        /\ UNCHANGED <<pc, io, reqq, doneq, dpc, chunk>>
    BY <1>18 DEF PiStart, clientVars, dmaVars
  <2>2. q' = q - 1 /\ Head(piq) \in Clients
    BY <1>5, <2>1, HeadTailProperties
  <2>3. pi' # NoTransfer
    BY <2>1, <2>2, DmaAssumption DEF NoTransfer
  <2>4. a' = a /\ d' = d /\ r' = r
    BY <1>4, <2>1
  <2> HIDE DEF r, d, q, a
  <2> QED
    BY <1>1, <1>2, <2>1, <2>2, <2>3, <2>4 DEF Weight
<1>19. CASE PiDone
  <2>1. /\ pi # NoTransfer /\ pi' = NoTransfer /\ pi.for \in Clients
        /\ UNCHANGED <<pc, io, reqq, dpc, chunk, piq>>
    BY <1>19 DEF PiDone, clientVars, dmaVars, TypeOK
  <2>2. doneq' = IF Len(doneq) < DoneCap THEN Append(doneq, pi.for) ELSE doneq
    BY <1>1, <1>19, <2>1 DEF PiDone
  <2>3. d' = d + 1
    BY <1>5, <1>6, <2>1, <2>2, AppendProperties
  <2>4. a' = a /\ q' = q /\ r' = r
    BY <1>4, <2>1
  <2> HIDE DEF r, d, q, a
  <2> QED
    BY <1>1, <1>2, <2>1, <2>3, <2>4 DEF Weight
<1> QED
  BY <1>7, <1>8, <1>9, <1>10, <1>11, <1>12, <1>14, <1>15, <1>16, <1>17, <1>18, <1>19
     DEF Next, Client, DmaThread, PiManager

(* dmamgr.c:94-97, 133-137: several threads share the manager.  As long as no queue is
   shorter than there are threads, and no file longer than a chunk, tokens and requests
   stay in step and no command is lost, in any interleaving; and whatever the files, every
   work buffer is freed. *)
THEOREM SharedInStep ==
    ASSUME Enough
    PROVE  SharedSpec => []QueuesInStep
<1> DEFINE J == /\ TypeOK /\ QueueInv /\ HeapInv
                /\ longest = 1 => ShortInv
<1>1. SharedInit => J
  <2> SUFFICES ASSUME SharedInit
               PROVE  J
    OBVIOUS
  <2>1. Init
    BY DEF SharedInit
  <2>2. TypeOK /\ QueueInv /\ HeapInv
    BY <2>1, TypeInit, DmaAssumption DEF Init, QueueInv, Queued, HeapInv
  <2>3. Asking = {}
    BY <2>1 DEF Asking, Init
  <2>4. Cardinality(Asking) = 0
    BY <2>3, FS_EmptySet
  <2>5. ShortInv
    BY <2>1, <2>4 DEF ShortInv, UnderWay, Init
  <2> QED
    BY <2>2, <2>5
<1>2. J /\ [SharedNext]_<<vars, longest>> => J'
  <2> SUFFICES ASSUME J, [SharedNext]_<<vars, longest>>
               PROVE  J'
    OBVIOUS
  <2>1. [Next]_vars /\ longest' = longest
    BY DEF SharedNext
  <2>2. TypeOK' /\ QueueInv' /\ HeapInv'
    BY <2>1, TypeStep, QueueStep, HeapStep
  <2>3. ASSUME longest = 1
        PROVE  ShortInv'
    <3>1. CASE UNCHANGED vars
      <4>1. ShortInv /\ UNCHANGED <<io, req, dpc, chunk, reqq, doneq, piq, pi, pc>>
        BY <2>3, <3>1 DEF vars
      <4>2. Asking' = Asking
        BY <4>1 DEF Asking
      <4> QED
        BY <4>1, <4>2 DEF ShortInv, UnderWay
    <3>2. CASE SharedNext
      <4>1. Next /\ \A c \in Clients : req'[c].parts <= 1
        BY <2>3, <3>2 DEF SharedNext
      <4> QED
        BY <2>2, <2>3, <4>1, ShortStep
    <3> QED
      BY <3>1, <3>2
  <2> QED
    BY <2>1, <2>2, <2>3
<1>3. J => QueuesInStep
  BY NoneIdleHasBuffer, ShortShows DEF QueuesInStep
<1> QED
  BY <1>1, <1>2, <1>3, PTL DEF SharedSpec
=============================================================================
