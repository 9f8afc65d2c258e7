---------------------------- MODULE EepMgrProofs ----------------------------
(***************************************************************************)
(* Proofs about EepMgr: whatever is saved, however many blocks a copy has,  *)
(* and whatever goes wrong at any step, one save cut short never loses both  *)
(* copies.                                                                  *)
(***************************************************************************)
EXTENDS EepMgr, TLAPS

LEMMA BlockFacts ==
    /\ NumBlocks \in Nat /\ NumBlocks > 0
    /\ \A b \in Copy : b \in Blocks /\ NumBlocks + b \in Blocks
    /\ \A d \in Data : TwoCopies(d) \in [Blocks -> BlockValues]
    /\ \A d \in Data, b \in Copy : /\ TwoCopies(d)[b] = Contents[d][b]
                                   /\ TwoCopies(d)[NumBlocks + b] = Contents[d][b]
    /\ \A d \in Data, b \in Blocks : TwoCopies(d)[b] # Torn
    /\ \A d, e \in Data : TwoCopies(d)[NumBlocks - 1] = TwoCopies(e)[NumBlocks - 1]
                            => d = e
    /\ Lost \in [Blocks -> BlockValues]
<1> USE EepAssumption
<1>1. NumBlocks \in Nat /\ NumBlocks > 0
  OBVIOUS
<1>2. \A b \in Copy : b \in Blocks /\ NumBlocks + b \in Blocks
  BY <1>1 DEF Copy, Blocks
<1>3. \A b \in Blocks : (IF b < NumBlocks THEN b ELSE b - NumBlocks) \in Copy
  BY <1>1 DEF Copy, Blocks
<1>4. \A d \in Data, b \in Copy : Contents[d][b] \in BlockValues
  BY DEF BlockValues
<1>5. \A d \in Data : TwoCopies(d) \in [Blocks -> BlockValues]
  BY <1>3, <1>4 DEF TwoCopies
<1>6. \A d \in Data, b \in Copy : /\ TwoCopies(d)[b] = Contents[d][b]
                                  /\ TwoCopies(d)[NumBlocks + b] = Contents[d][b]
  BY <1>1, <1>2 DEF TwoCopies, Copy
<1>7. \A d \in Data, b \in Blocks : TwoCopies(d)[b] # Torn
  BY <1>3 DEF TwoCopies
<1>8. NumBlocks - 1 \in Copy
  BY <1>1 DEF Copy
<1>9. \A d, e \in Data : TwoCopies(d)[NumBlocks - 1] = TwoCopies(e)[NumBlocks - 1]
                            => d = e
  BY <1>6, <1>8
<1>10. Lost \in [Blocks -> BlockValues]
  BY DEF Lost, BlockValues
<1> QED
  BY <1>1, <1>2, <1>5, <1>6, <1>7, <1>9, <1>10

(* A copy holds one value at most. *)
LEMMA OneValue ==
    ASSUME NEW e, NEW c \in Data, NEW d \in Data
    PROVE  /\ FirstCopyHolds(e, c) /\ FirstCopyHolds(e, d) => c = d
           /\ SecondCopyHolds(e, c) /\ SecondCopyHolds(e, d) => c = d
<1>1. NumBlocks - 1 \in Copy
  BY BlockFacts DEF Copy
<1> QED
  BY <1>1, EepAssumption DEF FirstCopyHolds, SecondCopyHolds

(* What is loaded from two copies that hold d, and from a good first copy. *)
LEMMA DecodeFirst ==
    ASSUME NEW e, NEW d \in Data, FirstCopyHolds(e, d)
    PROVE  Decode(e) = d
<1>1. (CHOOSE x \in Data : FirstCopyHolds(e, x)) = d
  BY OneValue
<1> QED
  BY <1>1 DEF Decode

LEMMA DecodeBoth ==
    ASSUME NEW d \in Data
    PROVE  Decode(TwoCopies(d)) = d
<1>1. FirstCopyHolds(TwoCopies(d), d)
  BY BlockFacts DEF FirstCopyHolds
<1> QED
  BY <1>1, DecodeFirst

(* A good second copy is loaded, unless the first holds a value as well. *)
LEMMA DecodeSecond ==
    ASSUME NEW e, NEW d \in Data, SecondCopyHolds(e, d)
    PROVE  Decode(e) = d \/ \E x \in Data : FirstCopyHolds(e, x) /\ Decode(e) = x
<1>1. (CHOOSE x \in Data : SecondCopyHolds(e, x)) = d
  BY OneValue
<1>2. CASE \E x \in Data : FirstCopyHolds(e, x)
  BY <1>2, DecodeFirst
<1>3. CASE ~(\E x \in Data : FirstCopyHolds(e, x))
  BY <1>1, <1>3 DEF Decode
<1> QED
  BY <1>2, <1>3

LEMMA DecodeType == \A e : Decode(e) \in Data \cup {NoData}
BY DEF Decode

(* Two copies on the way from one value to another: those before place k hold
   the new blocks, those behind it the old, and block k one of these, a block of
   a third value, or neither.                                                *)
LEMMA DecodeOnTheWay ==
    ASSUME NEW e, NEW old \in Data, NEW new \in Data, NEW third \in Data,
           NEW k \in 0 .. 2 * NumBlocks,
           \A b \in Blocks : b < k => e[b] = TwoCopies(new)[b],
           \A b \in Blocks : b > k => e[b] = TwoCopies(old)[b],
           k \in Blocks => e[k] \in {TwoCopies(old)[k], TwoCopies(new)[k],
                                   TwoCopies(third)[k], Torn}
    PROVE  Decode(e) \in {old, new, third}
<1>1. NumBlocks \in Nat /\ NumBlocks > 0 /\ k \in Nat
  BY BlockFacts
<1>2. CASE k >= NumBlocks
  <2>1. \A b \in Copy : b < k /\ b \in Blocks
    BY <1>1, <1>2 DEF Copy, Blocks
  <2>2. FirstCopyHolds(e, new)
    BY <2>1, BlockFacts DEF FirstCopyHolds
  <2> QED
    BY <2>2, DecodeFirst
<1>3. CASE k < NumBlocks
  <2>1. \A b \in Copy : NumBlocks + b > k /\ NumBlocks + b \in Blocks
    BY <1>1, <1>3 DEF Copy, Blocks
  <2>2. SecondCopyHolds(e, old)
    BY <2>1, BlockFacts DEF SecondCopyHolds
  <2>3. NumBlocks - 1 \in Copy /\ NumBlocks - 1 \in Blocks /\ k \in Blocks
    BY <1>1, <1>3 DEF Copy, Blocks
  <2>4. e[NumBlocks - 1] \in {TwoCopies(old)[NumBlocks - 1], TwoCopies(new)[NumBlocks - 1],
                              TwoCopies(third)[NumBlocks - 1], Torn}
    BY <1>1, <1>3, <2>3
  <2>5. ASSUME NEW x \in Data, FirstCopyHolds(e, x) PROVE x \in {old, new, third}
    <3>1. e[NumBlocks - 1] = TwoCopies(x)[NumBlocks - 1]
      BY <2>3, <2>5, BlockFacts DEF FirstCopyHolds
    <3> QED
      BY <2>3, <2>4, <3>1, BlockFacts
  <2> QED
    BY <2>2, <2>5, DecodeSecond
<1> QED
  BY <1>1, <1>2, <1>3

(* Blocks that agree everywhere are the same. *)
LEMMA SameBlocks ==
    ASSUME NEW e \in [Blocks -> BlockValues], NEW f \in [Blocks -> BlockValues],
           \A b \in Blocks : e[b] = f[b]
    PROVE  e = f
OBVIOUS

(* Without a cut nothing is in doubt, and a filled cache is the device. *)
LEMMA NoDoubt ==
    ASSUME EepInv, cuts = 0
    PROVE  /\ doubtful = {}
           /\ cached => cache = eeprom
           /\ refused = committed
<1>1. doubtful = {} /\ refused = committed
  BY DEF EepInv, InDoubt
<1>2. cached => \A b \in Blocks : cache[b] = eeprom[b]
  BY <1>1 DEF EepInv, CacheCoherent
<1>3. cached => cache = eeprom
  BY <1>2, SameBlocks DEF EepInv, TypeOK
<1> QED
  BY <1>1, <1>3

(* The invariant says what Survives says. *)
LEMMA InvSurvives ==
    ASSUME EepInv
    PROVE  Survives
<1>1. /\ committed \in Data /\ attempt \in Data /\ refused \in Data /\ cuts \in 0 .. 2
      /\ blk \in 0 .. 2 * NumBlocks
  BY DEF EepInv, TypeOK
<1>2. CASE epc # "writing" /\ cuts = 0
  BY <1>1, <1>2, DecodeBoth DEF EepInv, Device, Survives
<1>3. CASE epc # "writing" /\ cuts = 1
  <2>1. PICK k \in Blocks :
          /\ OnTheWay(k)
          /\ eeprom[k] \in {TwoCopies(committed)[k], TwoCopies(attempt)[k],
                            TwoCopies(refused)[k], Torn}
    BY <1>3 DEF EepInv, Device
  <2>2. k \in 0 .. 2 * NumBlocks
    BY BlockFacts DEF Blocks
  <2>3. Decode(eeprom) \in {committed, attempt, refused}
    BY <1>1, <2>1, <2>2, DecodeOnTheWay DEF OnTheWay
  <2> QED
    BY <2>3 DEF Survives
<1>4. CASE epc = "writing" /\ cuts = 0
  <2>1. OnTheWay(blk) /\ (blk \in Blocks => eeprom[blk] = TwoCopies(committed)[blk])
    BY <1>4 DEF EepInv, Device
  <2>2. Decode(eeprom) \in {committed, attempt, refused}
    BY <1>1, <2>1, DecodeOnTheWay DEF OnTheWay
  <2> QED
    BY <2>2 DEF Survives
<1>5. CASE cuts = 2 \/ (epc = "writing" /\ cuts = 1)
  BY <1>5 DEF Survives
<1> QED
  BY <1>1, <1>2, <1>3, <1>4, <1>5

-----------------------------------------------------------------------------
LEMMA EmptyFacts ==
    /\ <<>> \in Seq({READ, WRITE}) /\ <<>> \in Seq({0, -1}) /\ Len(<<>>) <= 1
    /\ 0 \in 0 .. 2 * NumBlocks
    /\ \A t \in {READ, WRITE} : /\ Append(<<>>, t) = <<t>> /\ Len(<<t>>) = 1
                               /\ <<t>> \in Seq({READ, WRITE})
<1>1. 0 \in 0 .. 2 * NumBlocks
  BY BlockFacts
<1>2. <<>> \in Seq({READ, WRITE}) /\ <<>> \in Seq({0, -1}) /\ Len(<<>>) <= 1
  OBVIOUS
<1>3. \A t \in {READ, WRITE} : /\ Append(<<>>, t) = <<t>> /\ Len(<<t>>) = 1
                               /\ <<t>> \in Seq({READ, WRITE})
  OBVIOUS
<1> QED
  BY <1>1, <1>2, <1>3

(* The initial states satisfy the invariant. *)
LEMMA InitInv ==
    Init => EepInv
<1> SUFFICES ASSUME Init PROVE EepInv
  OBVIOUS
<1>1. TypeOK
  <2>1. /\ eeprom \in [Blocks -> BlockValues] /\ cache \in [Blocks -> BlockValues]
        /\ buff \in [Blocks -> BlockValues]
    BY BlockFacts DEF Init
  <2>2. /\ cmdq \in Seq({READ, WRITE}) /\ Len(cmdq) <= 1
        /\ replyq \in Seq({0, -1}) /\ Len(replyq) <= 1 /\ blk \in 0 .. 2 * NumBlocks
    BY EmptyFacts DEF Init
  <2>3. cached \in BOOLEAN
    BY Zenon DEF Init
  <2>4. /\ slot \in {0, READ, WRITE} /\ status \in {0, -1}
        /\ epc = "off" /\ mpc = "off" /\ result \in Data \cup {NoData}
        /\ committed \in Data /\ attempt \in Data /\ refused \in Data
        /\ doubtful \in SUBSET Blocks /\ cuts \in 0 .. 2
    BY DEF Init
  <2> QED
    BY <2>1, <2>2, <2>3, <2>4 DEF TypeOK
<1>2. CacheCoherent /\ NeverSpins /\ Turns /\ Progress
  BY DEF Init, CacheCoherent, NeverSpins, Turns, Progress
<1>3. Device /\ InDoubt
  BY DEF Init, Device, InDoubt
<1> QED
  BY <1>1, <1>2, <1>3 DEF EepInv

(* Who is doing what while the EEPROM thread serves a request. *)
LEMMA TurnFacts ==
    ASSUME EepInv
    PROVE  /\ epc = "writing" => mpc = "saving" /\ slot = WRITE
           /\ epc = "reading" => mpc = "loading" /\ slot = READ
           /\ epc = "reply" => mpc \in {"loading", "saving"}
           /\ epc \in {"writing", "reading", "reply"} => cmdq = <<>> /\ replyq = <<>>
           /\ cmdq # <<>> /\ slot = READ => mpc = "loading"
           /\ cmdq # <<>> /\ slot = WRITE => mpc = "saving"
           /\ cmdq # <<>> => cmdq = <<slot>> /\ replyq = <<>>
           /\ replyq # <<>> => /\ cmdq = <<>> /\ replyq = <<status>>
                               /\ epc \in {"receive", "loop"}
           /\ mpc \in {"boot", "idle"} => slot = 0
BY DEF EepInv, TypeOK, NeverSpins, Turns, READ, WRITE

LEMMA TypeNext ==
    ASSUME EepInv, Next
    PROVE  TypeOK'
<1> USE DEF EepInv
<1>1. CASE Create
  BY <1>1, EmptyFacts DEF TypeOK, Create, history
<1>2. CASE Load
  BY <1>2, TurnFacts DEF TypeOK, Turns, Load, Send, device, history, READ, WRITE
<1>3. ASSUME NEW d \in Data, Save(d) PROVE TypeOK'
  <2>1. buff' \in [Blocks -> BlockValues]
    BY <1>3, BlockFacts DEF Save
  <2>2. slot = 0 /\ cmdq = <<>>
    BY <1>3 DEF Turns, Save
  <2>3. slot' = WRITE /\ cmdq' = <<WRITE>> /\ mpc' = "saving" /\ replyq' = replyq
    BY <1>3, <2>2, EmptyFacts DEF Save, Send
  <2>4. WRITE \in {READ, WRITE} /\ <<WRITE>> \in Seq({READ, WRITE}) /\ Len(<<WRITE>>) <= 1
    BY EmptyFacts
  <2> QED
    BY <1>3, <2>1, <2>3, <2>4 DEF TypeOK, Save, device, history
<1>4. CASE RecvReply
  BY <1>4, TurnFacts, DecodeType DEF TypeOK, RecvReply, device, history
<1>5. CASE Probe
  BY <1>5 DEF TypeOK, Probe, device, queues, history
<1>6. CASE TakeRead
  BY <1>6, TurnFacts, BlockFacts DEF TypeOK, TakeRead, device, history
<1>7. CASE TakeWrite
  <2>1. PICK d \in Data : buff = TwoCopies(d)
    BY <1>7, TurnFacts DEF TakeWrite, Progress
  <2>2. Decode(buff) \in Data
    BY <2>1, DecodeBoth
  <2> QED
    BY <1>7, <2>2, TurnFacts, DecodeType, BlockFacts DEF TypeOK, TakeWrite, device
<1>8. CASE ReadBlock
  BY <1>8, BlockFacts DEF TypeOK, ReadBlock, Blocks, queues, history
<1>9. CASE ReadFails
  BY <1>9, EmptyFacts DEF TypeOK, ReadFails, device, queues, history
<1>10. CASE ReadAll
  BY <1>10, EmptyFacts DEF TypeOK, ReadAll, queues, history
<1>11. CASE SkipBlock
  BY <1>11, BlockFacts DEF TypeOK, SkipBlock, Blocks, device, queues, history
<1>12. CASE WriteBlock
  BY <1>12, BlockFacts DEF TypeOK, WriteBlock, Blocks, queues, history
<1>13. CASE WriteFails
  <2>1. \A v \in {eeprom[blk], buff[blk], Torn} : blk \in Blocks =>
            [eeprom EXCEPT ![blk] = v] \in [Blocks -> BlockValues]
    BY DEF TypeOK, BlockValues
  <2>2. eeprom' \in [Blocks -> BlockValues] /\ doubtful' \in SUBSET Blocks
    BY <1>13, <2>1 DEF TypeOK, WriteFails
  <2> QED
    BY <1>13, <2>2, EmptyFacts DEF TypeOK, WriteFails, OneMore, queues
<1>14. CASE WriteAll
  BY <1>14, EmptyFacts DEF TypeOK, WriteAll, device, queues
<1>15. CASE Reply
  BY <1>15, TurnFacts DEF TypeOK, Reply, device, history
<1>16. CASE LoopAgain
  BY <1>16 DEF TypeOK, LoopAgain, device, queues, history
<1>17. CASE PowerFails
  <2>1. \A v \in {buff[blk], Torn} : blk \in Blocks =>
            [eeprom EXCEPT ![blk] = v] \in [Blocks -> BlockValues]
    BY DEF TypeOK, BlockValues
  <2>2. eeprom' \in [Blocks -> BlockValues] /\ cuts' \in 0 .. 2
    BY <1>17, <2>1 DEF TypeOK, PowerFails, OneMore
  <2>3. Lost \in [Blocks -> BlockValues]
    BY BlockFacts
  <2> QED
    BY <1>17, <2>2, <2>3, EmptyFacts DEF TypeOK, PowerFails
<1> QED
  BY <1>1, <1>2, <1>3, <1>4, <1>5, <1>6, <1>7, <1>8, <1>9, <1>10, <1>11, <1>12,
     <1>13, <1>14, <1>15, <1>16, <1>17 DEF Next, MainThread, EepThread

(* The two threads keep taking turns, and the main thread never finds its one
   request in use.                                                           *)
LEMMA TurnsNext ==
    ASSUME EepInv, Next
    PROVE  Turns' /\ NeverSpins'
<1> USE DEF EepInv, Turns, NeverSpins, READ, WRITE
<1>1. CASE Create
  BY <1>1 DEF Create
<1>2. CASE Load
  <2>1. slot = 0 /\ cmdq = <<>> /\ replyq = <<>>
    BY <1>2 DEF Load
  <2>2. slot' = READ /\ cmdq' = <<READ>> /\ mpc' = "loading" /\ replyq' = <<>>
    BY <1>2, <2>1, EmptyFacts DEF Load, Send
  <2> QED
    BY <1>2, <2>2 DEF Load
<1>3. ASSUME NEW d \in Data, Save(d) PROVE Turns' /\ NeverSpins'
  <2>1. slot = 0 /\ cmdq = <<>> /\ replyq = <<>>
    BY <1>3 DEF Save
  <2>2. slot' = WRITE /\ cmdq' = <<WRITE>> /\ mpc' = "saving" /\ replyq' = <<>>
    BY <1>3, <2>1, EmptyFacts DEF Save, Send
  <2> QED
    BY <1>3, <2>2 DEF Save
<1>4. CASE RecvReply
  <2>1. cmdq = <<>> /\ replyq = <<status>> /\ epc \in {"receive", "loop"}
    BY <1>4, TurnFacts DEF RecvReply
  <2> QED
    BY <1>4, <2>1 DEF RecvReply
<1>5. CASE Probe \/ LoopAgain
  BY <1>5 DEF Probe, LoopAgain, queues
<1>6. CASE TakeRead
  <2>1. mpc = "loading" /\ cmdq = <<slot>> /\ replyq = <<>>
    BY <1>6, TurnFacts DEF TakeRead
  <2> QED
    BY <1>6, <2>1 DEF TakeRead
<1>7. CASE TakeWrite
  <2>1. mpc = "saving" /\ cmdq = <<slot>> /\ replyq = <<>>
    BY <1>7, TurnFacts DEF TakeWrite
  <2> QED
    BY <1>7, <2>1 DEF TakeWrite
<1>8. CASE ReadBlock \/ ReadFails \/ ReadAll
  <2>1. mpc = "loading" /\ slot = READ /\ cmdq = <<>> /\ replyq = <<>>
    BY <1>8, TurnFacts DEF ReadBlock, ReadFails, ReadAll
  <2> QED
    BY <1>8, <2>1 DEF ReadBlock, ReadFails, ReadAll, queues
<1>9. CASE SkipBlock \/ WriteBlock \/ WriteFails \/ WriteAll
  <2>1. mpc = "saving" /\ slot = WRITE /\ cmdq = <<>> /\ replyq = <<>>
    BY <1>9, TurnFacts DEF SkipBlock, WriteBlock, WriteFails, WriteAll
  <2> QED
    BY <1>9, <2>1 DEF SkipBlock, WriteBlock, WriteFails, WriteAll, queues
<1>10. CASE Reply
  <2>1. mpc \in {"loading", "saving"} /\ cmdq = <<>> /\ replyq = <<>>
    BY <1>10, TurnFacts DEF Reply
  <2>2. replyq' = <<status>>
    BY <1>10, <2>1 DEF Reply
  <2> QED
    BY <1>10, <2>1, <2>2 DEF Reply
<1>11. CASE PowerFails
  BY <1>11 DEF PowerFails
<1> QED
  BY <1>1, <1>2, <1>3, <1>4, <1>5, <1>6, <1>7, <1>8, <1>9, <1>10, <1>11
     DEF Next, MainThread, EepThread

(* The cache is filled with what was read, and changes with the device. *)
LEMMA CoherentNext ==
    ASSUME EepInv, Next
    PROVE  CacheCoherent'
<1> USE DEF EepInv, CacheCoherent
<1>1. CASE ReadBlock
  BY <1>1 DEF ReadBlock, history, TypeOK
<1>2. CASE ReadAll
  <2>1. \A b \in Blocks : b < blk
    BY <1>2, BlockFacts DEF ReadAll, TypeOK, Blocks
  <2>2. \A b \in Blocks : cache[b] = eeprom[b]
    BY <1>2, <2>1 DEF ReadAll, Progress
  <2> QED
    BY <1>2, <2>2 DEF ReadAll
<1>3. CASE WriteBlock
  BY <1>3 DEF WriteBlock, TypeOK
<1>4. CASE PowerFails \/ Create
  BY <1>4 DEF PowerFails, Create
<1>5. CASE WriteFails
  BY <1>5 DEF WriteFails, TypeOK
<1>6. CASE device' = device /\ doubtful' = doubtful
  BY <1>6 DEF device
<1> QED
  BY <1>1, <1>2, <1>3, <1>4, <1>5, <1>6
     DEF Next, MainThread, EepThread, Load, Save, RecvReply, Probe, TakeRead, TakeWrite,
         ReadFails, SkipBlock, WriteAll, Reply, LoopAgain, history

(* A block is in doubt from the refused write until it is written, or the power goes. *)
LEMMA InDoubtNext ==
    ASSUME EepInv, Next
    PROVE  InDoubt'
<1> USE DEF EepInv
<1>0. cached' => mpc' # "off" /\ epc' # "reading"
  <2>1. CASE Create \/ PowerFails
    BY <2>1 DEF Create, PowerFails, InDoubt
  <2>2. CASE Load \/ (\E d \in Data : Save(d)) \/ RecvReply
    BY <2>2 DEF Load, Save, Send, RecvReply, device, InDoubt
  <2>3. CASE Probe \/ Reply \/ LoopAgain
    BY <2>3 DEF Probe, Reply, LoopAgain, device, InDoubt
  <2>4. CASE TakeRead \/ TakeWrite
    BY <2>4 DEF TakeRead, TakeWrite, device, InDoubt
  <2>5. CASE ReadBlock \/ ReadFails \/ ReadAll
    <3>1. mpc' # "off"
      BY <2>5, TurnFacts DEF ReadBlock, ReadFails, ReadAll
    <3> QED
      BY <2>5, <3>1 DEF ReadBlock, ReadFails, ReadAll, device, InDoubt
  <2>6. CASE SkipBlock \/ WriteBlock \/ WriteFails \/ WriteAll
    <3>1. mpc' # "off"
      BY <2>6, TurnFacts DEF SkipBlock, WriteBlock, WriteFails, WriteAll
    <3> QED
      BY <2>6, <3>1 DEF SkipBlock, WriteBlock, WriteFails, WriteAll, device, InDoubt
  <2> QED
    BY <2>1, <2>2, <2>3, <2>4, <2>5, <2>6 DEF Next, MainThread, EepThread
<1>1. CASE UNCHANGED <<doubtful, cuts, refused, committed, eeprom, cache, cached>>
  BY <1>0, <1>1 DEF InDoubt
<1>2. CASE Create \/ ReadBlock \/ ReadAll
  <2>1. ~cached
    BY <1>2 DEF Create, ReadBlock, ReadAll, Turns, InDoubt
  <2>2. UNCHANGED <<doubtful, cuts, refused, committed>> /\ doubtful = {}
    BY <1>2, <2>1 DEF Create, ReadBlock, ReadAll, history, InDoubt
  <2> QED
    BY <1>0, <2>2 DEF InDoubt
<1>3. CASE WriteBlock
  <2>1. /\ UNCHANGED <<cuts, refused, committed, cached>>
        /\ doubtful' = doubtful \ {blk}
    BY <1>3 DEF WriteBlock
  <2>2. \A k \in Blocks : k # blk => eeprom'[k] = eeprom[k] /\ cache'[k] = cache[k]
    BY <1>3 DEF WriteBlock, TypeOK
  <2>3. doubtful \subseteq Blocks
    BY DEF TypeOK
  <2> QED
    BY <1>0, <2>1, <2>2, <2>3 DEF InDoubt
<1>4. CASE WriteFails
  <2>1. /\ epc = "writing" /\ blk \in Blocks /\ cuts' = OneMore(cuts)
        /\ refused' = attempt /\ doubtful' = doubtful \cup {blk}
        /\ cache' = cache /\ cached' = cached
    BY <1>4 DEF WriteFails
  <2>2. cached /\ buff[blk] = TwoCopies(attempt)[blk]
    BY <2>1, TurnFacts DEF Progress
  <2>3. cuts' # 0 /\ cuts' > 0 /\ (cuts' = 1 => cuts = 0)
    BY <2>1 DEF TypeOK, OneMore
  <2>4. eeprom'[blk] \in {eeprom[blk], buff[blk], Torn}
    BY <1>4 DEF WriteFails, TypeOK
  <2>5. cuts = 0 => doubtful' = {blk} /\ eeprom[blk] = cache[blk]
    BY <2>1, <2>2, NoDoubt
  <2> QED
    BY <1>0, <2>1, <2>2, <2>3, <2>4, <2>5 DEF InDoubt
<1>5. CASE WriteAll
  <2>1. /\ UNCHANGED <<doubtful, eeprom, cache, cached>> /\ committed' = attempt
        /\ IF doubtful = {} THEN cuts' = 0 /\ refused' = attempt
                           ELSE cuts' = cuts /\ refused' = refused
    BY <1>5 DEF WriteAll, device
  <2> QED
    BY <1>0, <2>1 DEF InDoubt, TypeOK
<1>6. CASE PowerFails
  <2>1. doubtful' = {} /\ refused' = refused /\ committed' = committed
    BY <1>6 DEF PowerFails
  <2>2. cuts' = 0 => cuts = 0
    BY <1>6 DEF PowerFails, OneMore, TypeOK
  <2> QED
    BY <1>0, <2>1, <2>2 DEF InDoubt
<1> QED
  BY <1>1, <1>2, <1>3, <1>4, <1>5, <1>6
     DEF Next, MainThread, EepThread, Load, Save, RecvReply, Probe, TakeRead, TakeWrite,
         ReadFails, SkipBlock, Reply, LoopAgain, device, history

(* The loops of the EEPROM thread leave nothing behind their place undone. *)
LEMMA ProgressNext ==
    ASSUME EepInv, Next
    PROVE  Progress'
<1> USE DEF EepInv, Progress
<1>1. CASE Create \/ Load \/ RecvReply
  <2>1. epc' \notin {"writing", "reading"} /\ mpc' # "saving"
    BY <1>1, TurnFacts DEF Create, Load, RecvReply, Send, Turns, NeverSpins
  <2> QED
    BY <2>1
<1>2. ASSUME NEW d \in Data, Save(d) PROVE Progress'
  <2>1. epc' \notin {"writing", "reading"} /\ buff' = TwoCopies(d)
    BY <1>2 DEF Save, Turns
  <2> QED
    BY <2>1
<1>3. CASE Probe \/ LoopAgain \/ Reply \/ ReadFails
  BY <1>3 DEF Probe, LoopAgain, Reply, ReadFails, device
<1>4. CASE TakeRead
  <2>1. mpc = "loading"
    BY <1>4, TurnFacts DEF TakeRead
  <2> QED
    BY <1>4, <2>1 DEF TakeRead, device, Blocks
<1>5. CASE TakeWrite
  <2>1. PICK d \in Data : buff = TwoCopies(d)
    BY <1>5, TurnFacts DEF TakeWrite
  <2>2. epc' = "writing" => attempt' = d
    BY <1>5, <2>1, DecodeBoth DEF TakeWrite
  <2>3. epc' = "writing" => cached' /\ blk' = 0 /\ buff' = TwoCopies(attempt')
    BY <1>5, <2>1, <2>2 DEF TakeWrite, device
  <2>4. epc' # "reading" /\ buff' = buff
    BY <1>5 DEF TakeWrite
  <2> QED
    BY <2>1, <2>3, <2>4 DEF Blocks
<1>6. CASE ReadBlock
  <2>1. mpc = "loading"
    BY <1>6, TurnFacts DEF ReadBlock
  <2>2. \A b \in Blocks : b < blk + 1 => b < blk \/ b = blk
    BY <1>6 DEF ReadBlock, Blocks
  <2>3. \A b \in Blocks : b < blk + 1 => cache'[b] = eeprom[b]
    BY <1>6, <2>2 DEF ReadBlock, TypeOK
  <2> QED
    BY <1>6, <2>1, <2>3 DEF ReadBlock
<1>7. CASE ReadAll
  <2>1. mpc = "loading"
    BY <1>7, TurnFacts DEF ReadAll
  <2> QED
    BY <1>7, <2>1 DEF ReadAll
<1>8. CASE SkipBlock
  <2>1. \A b \in Blocks : b < blk + 1 => b < blk \/ b = blk
    BY <1>8 DEF SkipBlock, Blocks
  <2> QED
    BY <1>8, <2>1 DEF SkipBlock, device, history
<1>9. CASE WriteBlock
  <2>1. \A b \in Blocks : b < blk + 1 => b < blk \/ b = blk
    BY <1>9 DEF WriteBlock, Blocks
  <2>2. \A b \in Blocks : b < blk + 1 => cache'[b] = buff[b]
    BY <1>9, <2>1 DEF WriteBlock, TypeOK
  <2> QED
    BY <1>9, <2>2 DEF WriteBlock, history
<1>10. CASE WriteFails \/ WriteAll
  BY <1>10 DEF WriteFails, WriteAll
<1>11. CASE PowerFails
  BY <1>11 DEF PowerFails
<1> QED
  BY <1>1, <1>2, <1>3, <1>4, <1>5, <1>6, <1>7, <1>8, <1>9, <1>10, <1>11
     DEF Next, MainThread, EepThread

(* A block of the device changes only while a save is under way, at the thread's
   place; a save that is cut short leaves the device on the way.             *)
LEMMA DeviceNext ==
    ASSUME EepInv, Next
    PROVE  Device'
<1> USE DEF EepInv
<1>1. CASE /\ epc # "writing" /\ epc' # "writing"
           /\ UNCHANGED <<eeprom, committed, attempt, refused, cuts>>
  BY <1>1 DEF Device, OnTheWay
<1>2. CASE TakeWrite
  <2>1. CASE epc' = "writing"
    <3>1. cuts' = cuts /\ blk' = 0 /\ eeprom' = eeprom /\ committed' = committed
      BY <1>2 DEF TakeWrite, device
    <3>2. cuts = 0 => eeprom = TwoCopies(committed)
      BY <1>2 DEF TakeWrite, Device
    <3>3. ~(\E b \in Blocks : b < 0)
      BY DEF Blocks
    <3> QED
      BY <2>1, <3>1, <3>2, <3>3 DEF Device, OnTheWay
  <2>2. CASE epc' # "writing"
    BY <1>1, <1>2, <2>2 DEF TakeWrite, device
  <2> QED
    BY <2>1, <2>2
<1>3. CASE SkipBlock \/ WriteBlock
  <2>1. /\ epc = "writing" /\ epc' = "writing" /\ blk \in Blocks /\ blk' = blk + 1
        /\ attempt' = attempt /\ committed' = committed /\ cuts' = cuts
    BY <1>3 DEF SkipBlock, WriteBlock, history
  <2>2. \A b \in Blocks : b # blk => eeprom'[b] = eeprom[b]
    BY <1>3 DEF SkipBlock, WriteBlock, device, TypeOK
  <2>3. cuts = 0 => eeprom'[blk] = buff[blk]
    BY <1>3, <2>1, NoDoubt DEF SkipBlock, WriteBlock, device, TypeOK, Progress
  <2>4. buff[blk] = TwoCopies(attempt)[blk]
    BY <2>1 DEF Progress
  <2>5. cuts = 0 => OnTheWay(blk)
    BY <2>1 DEF Device
  <2>6. cuts = 0 => /\ \A b \in Blocks : b < blk + 1 => eeprom'[b] = TwoCopies(attempt)[b]
                    /\ \A b \in Blocks : b > blk + 1 => eeprom'[b] = TwoCopies(committed)[b]
                    /\ \A b \in Blocks : b = blk + 1 => eeprom'[b] = TwoCopies(committed)[b]
    <3>1. ASSUME cuts = 0, NEW b \in Blocks, b < blk + 1
          PROVE  eeprom'[b] = TwoCopies(attempt)[b]
      <4>1. b = blk \/ (b < blk /\ b # blk)
        BY <2>1, <3>1 DEF Blocks
      <4>2. CASE b = blk
        BY <2>3, <2>4, <3>1, <4>2
      <4>3. CASE b < blk /\ b # blk
        <5>1. eeprom'[b] = eeprom[b]
          BY <2>2, <4>3
        <5>2. eeprom[b] = TwoCopies(attempt)[b]
          BY <2>5, <3>1, <4>3 DEF OnTheWay
        <5> QED
          BY <5>1, <5>2
      <4> QED
        BY <4>1, <4>2, <4>3
    <3>2. ASSUME cuts = 0, NEW b \in Blocks, b > blk + 1 \/ b = blk + 1
          PROVE  eeprom'[b] = TwoCopies(committed)[b]
      <4>1. b > blk /\ b # blk
        BY <2>1, <3>2 DEF Blocks
      <4>2. eeprom'[b] = eeprom[b]
        BY <2>2, <4>1
      <4>3. eeprom[b] = TwoCopies(committed)[b]
        BY <2>5, <3>2, <4>1 DEF OnTheWay
      <4> QED
        BY <4>2, <4>3
    <3> QED
      BY <3>1, <3>2
  <2> QED
    BY <2>1, <2>6 DEF Device, OnTheWay
<1>4. CASE WriteFails
  <2>1. /\ epc = "writing" /\ epc' # "writing" /\ blk \in Blocks /\ cuts' = OneMore(cuts)
        /\ committed' = committed /\ attempt' = attempt
    BY <1>4 DEF WriteFails
  <2>2. cuts' # 0 /\ (cuts' = 1 => cuts = 0)
    BY <2>1 DEF TypeOK, OneMore
  <2>3. /\ \A b \in Blocks : b # blk => eeprom'[b] = eeprom[b]
        /\ eeprom'[blk] \in {eeprom[blk], TwoCopies(attempt)[blk], Torn}
    BY <1>4, <2>1 DEF WriteFails, TypeOK, Progress
  <2>4. ASSUME cuts = 0
        PROVE  \E k \in Blocks : /\ OnTheWay(k)'
                                 /\ eeprom'[k] \in {TwoCopies(committed)[k],
                                                   TwoCopies(attempt)[k], Torn}
    <3>1. /\ OnTheWay(blk)
          /\ eeprom[blk] = TwoCopies(committed)[blk]
      BY <2>1, <2>4 DEF Device
    <3>2. \A b \in Blocks : b < blk \/ b > blk => b # blk
      BY <2>1 DEF Blocks
    <3> QED
      BY <2>1, <2>3, <3>1, <3>2 DEF OnTheWay
  <2> QED
    BY <2>1, <2>2, <2>4 DEF Device
<1>5. CASE WriteAll
  <2>1. \A b \in Blocks : b < blk
    BY <1>5, BlockFacts DEF WriteAll, TypeOK, Blocks
  <2>2. /\ epc' # "writing" /\ eeprom' = eeprom /\ committed' = attempt /\ attempt' = attempt
        /\ IF doubtful = {} THEN cuts' = 0 ELSE cuts' = cuts /\ refused' = refused
    BY <1>5 DEF WriteAll, device
  <2>3. cached /\ \A b \in Blocks : cache[b] = TwoCopies(attempt)[b]
    BY <1>5, <2>1 DEF WriteAll, Progress
  <2>4. \A b \in Blocks \ doubtful : eeprom[b] = TwoCopies(attempt)[b]
    BY <2>3 DEF CacheCoherent
  <2>5. CASE doubtful = {}
    <3>1. attempt \in Data /\ eeprom \in [Blocks -> BlockValues]
      BY DEF TypeOK
    <3>2. eeprom = TwoCopies(attempt)
      BY <2>4, <2>5, <3>1, SameBlocks, BlockFacts
    <3> QED
      BY <2>2, <2>5, <3>2 DEF Device
  <2>6. CASE doubtful # {}
    <3>1. cuts' = cuts /\ cuts > 0 /\ refused' = refused
      BY <2>2, <2>6 DEF InDoubt
    <3>2. PICK k \in doubtful : TRUE
      BY <2>6
    <3>3. k \in Blocks
      BY DEF TypeOK
    <3>4. cuts = 1 => /\ doubtful = {k}
                      /\ eeprom[k] \in {cache[k], TwoCopies(refused)[k], Torn}
      BY DEF InDoubt
    <3>5. \A b \in Blocks : b < k \/ b > k => b # k
      BY <3>3 DEF Blocks
    <3>6. cuts = 1 => /\ OnTheWay(k)'
                      /\ eeprom'[k] \in {TwoCopies(attempt)[k], TwoCopies(refused)[k], Torn}
      BY <2>2, <2>3, <2>4, <3>3, <3>4, <3>5 DEF OnTheWay
    <3> QED
      BY <2>2, <3>1, <3>3, <3>6 DEF Device, TypeOK
  <2> QED
    BY <2>5, <2>6
<1>6. CASE PowerFails
  <2>1. epc' = "off" /\ committed' = committed /\ attempt' = attempt /\ refused' = refused
    BY <1>6 DEF PowerFails
  <2>2. CASE epc # "writing"
    BY <1>1, <1>6, <2>1, <2>2 DEF PowerFails
  <2>3. CASE epc = "writing"
    <3>1. cuts' # 0 /\ (cuts' = 1 => cuts = 0)
      BY <1>6, <2>3 DEF PowerFails, TypeOK, OneMore
    <3>2. ASSUME cuts = 0
          PROVE  \E k \in Blocks : /\ OnTheWay(k)'
                                   /\ eeprom'[k] \in {TwoCopies(committed)[k],
                                                     TwoCopies(attempt)[k], Torn}
      <4>1. /\ OnTheWay(blk)
            /\ blk \in Blocks => eeprom[blk] = TwoCopies(committed)[blk]
        BY <2>3, <3>2 DEF Device
      <4>2. CASE blk \in Blocks
        <5>1. \A b \in Blocks : b # blk => eeprom'[b] = eeprom[b]
          BY <1>6, <2>3 DEF PowerFails, TypeOK
        <5>2. eeprom'[blk] \in {eeprom[blk], TwoCopies(attempt)[blk], Torn}
          BY <1>6, <2>3, <4>2 DEF PowerFails, TypeOK, Progress
        <5>3. \A b \in Blocks : b < blk \/ b > blk => b # blk
          BY <4>2 DEF Blocks
        <5> QED
          BY <2>1, <4>1, <4>2, <5>1, <5>2, <5>3 DEF OnTheWay
      <4>3. CASE blk \notin Blocks
        <5>1. 2 * NumBlocks - 1 \in Blocks /\ \A b \in Blocks : ~(b > 2 * NumBlocks - 1)
          BY BlockFacts DEF Blocks
        <5>2. \A b \in Blocks : b < blk
          BY <4>3, BlockFacts DEF TypeOK, Blocks
        <5>3. eeprom' = eeprom
          BY <1>6, <2>3, <4>3 DEF PowerFails
        <5>4. \A b \in Blocks : eeprom'[b] = TwoCopies(attempt)[b]
          BY <4>1, <5>2, <5>3 DEF OnTheWay
        <5> QED
          BY <2>1, <5>1, <5>4 DEF OnTheWay
      <4> QED
        BY <4>2, <4>3
    <3> QED
      BY <2>1, <3>1, <3>2 DEF Device
  <2> QED
    BY <2>2, <2>3
<1>7. CASE Create \/ Load \/ RecvReply \/ Probe \/ TakeRead \/ LoopAgain \/ Reply
  <2>1. epc # "writing"
    BY <1>7, TurnFacts DEF Create, Load, RecvReply, Probe, TakeRead, LoopAgain, Reply,
                           Turns
  <2> QED
    BY <1>1, <1>7, <2>1 DEF Create, Load, RecvReply, Probe, TakeRead, LoopAgain, Reply,
                            device, history
<1>8. CASE ReadBlock \/ ReadFails \/ ReadAll
  BY <1>1, <1>8 DEF ReadBlock, ReadFails, ReadAll, device, history
<1>9. ASSUME NEW d \in Data, Save(d) PROVE Device'
  <2>1. epc # "writing"
    BY <1>9 DEF Save, Turns
  <2> QED
    BY <1>1, <1>9, <2>1 DEF Save, device, history
<1> QED
  BY <1>2, <1>3, <1>4, <1>5, <1>6, <1>7, <1>8, <1>9 DEF Next, MainThread, EepThread

LEMMA StutterInv ==
    ASSUME EepInv, UNCHANGED vars
    PROVE  EepInv'
BY DEF EepInv, vars, TypeOK, CacheCoherent, NeverSpins, Turns, Progress, Device, OnTheWay,
       InDoubt

-----------------------------------------------------------------------------
(* EepInv is inductive. *)
THEOREM InvHolds == Spec => []EepInv
<1>1. Init => EepInv
  BY InitInv
<1>2. EepInv /\ [Next]_vars => EepInv'
  <2>1. ASSUME EepInv, Next PROVE EepInv'
    BY <2>1, TypeNext, TurnsNext, CoherentNext, ProgressNext, DeviceNext,
       InDoubtNext DEF EepInv
  <2> QED
    BY <2>1, StutterInv
<1> QED
  BY <1>1, <1>2, PTL DEF Spec

(* For any data, any number of blocks and any faults, a write that was stored and
   yet answered with an error included: if no more than one save was cut short,
   what can be loaded after a power cut is the last complete one, the one that was
   attempted, or the one that was refused (eepmgr_HandleWrite, func_80069B34). *)
THEOREM SaveSurvives == Spec => []Survives
<1>1. EepInv => Survives
  BY InvSurvives
<1> QED
  BY <1>1, InvHolds, PTL

(* A load from the cache returns what is on the device, but for the blocks whose
   write was answered with an error (eepmgr_HandleRead, eepmgr.c:175-179).   *)
THEOREM CacheIsCoherent == Spec => []CacheCoherent
<1>1. EepInv => CacheCoherent
  BY DEF EepInv
<1> QED
  BY <1>1, InvHolds, PTL

(* Between saves none of which was cut short, and again once a save has written
   over all that was in doubt, both copies hold the last one.                *)
THEOREM BothCopiesHold == Spec => []BothCopies
<1>1. EepInv => BothCopies
  BY DEF EepInv, Device, BothCopies
<1> QED
  BY <1>1, InvHolds, PTL

(* The main thread never waits for a request that nobody will free
   (eepmgr_SendRead, eepmgr_SendWrite).                                      *)
THEOREM MainNeverSpins == Spec => []NeverSpins
<1>1. EepInv => NeverSpins
  BY DEF EepInv
<1> QED
  BY <1>1, InvHolds, PTL

-----------------------------------------------------------------------------
(* The refinement of SaveStore needs one more fact: an answer to a load that reports
   no error comes with the cache's contents in the buffer.                   *)
Loaded ==
    mpc = "loading" /\ cmdq = <<>> /\ epc # "reading" /\ status = 0 => cached /\ buff = cache

LEMMA LoadedNext ==
    ASSUME EepInv, Loaded, Next
    PROVE  Loaded'
<1>1. CASE Load
  <2>1. slot = 0 /\ cmdq = <<>>
    BY <1>1, TurnFacts DEF Load, EepInv, Turns
  <2>2. cmdq' = <<READ>> /\ <<READ>> # <<>>
    BY <1>1, <2>1, EmptyFacts DEF Load, Send
  <2> QED
    BY <2>2 DEF Loaded
<1>2. ASSUME mpc' # "loading"
      PROVE  Loaded'
  BY <1>2 DEF Loaded
<1>3. CASE Create \/ (\E d \in Data : Save(d)) \/ RecvReply \/ PowerFails
  <2>1. mpc' # "loading"
    BY <1>3 DEF Create, Save, Send, RecvReply, PowerFails
  <2> QED
    BY <1>2, <2>1
<1>4. CASE TakeRead
  BY <1>4 DEF TakeRead, device, Loaded
<1>5. CASE TakeWrite \/ SkipBlock \/ WriteBlock \/ WriteFails \/ WriteAll
  <2>1. mpc = "saving"
    BY <1>5, TurnFacts DEF TakeWrite, SkipBlock, WriteBlock, WriteFails, WriteAll
  <2>2. mpc' = mpc
    BY <1>5 DEF TakeWrite, SkipBlock, WriteBlock, WriteFails, WriteAll
  <2> QED
    BY <2>1, <2>2, <1>2
<1>6. CASE ReadBlock
  BY <1>6 DEF ReadBlock, Loaded
<1>7. CASE ReadFails
  BY <1>7 DEF ReadFails, Loaded
<1>8. CASE ReadAll
  BY <1>8 DEF ReadAll, Loaded
<1>9. CASE Probe \/ Reply \/ LoopAgain
  <2>1. /\ UNCHANGED <<mpc, cmdq, status, buff, cache, cached>>
        /\ epc # "reading"
    BY <1>9 DEF Probe, Reply, LoopAgain, device, queues
  <2> QED
    BY <2>1 DEF Loaded
<1> QED
  BY <1>1, <1>3, <1>4, <1>5, <1>6, <1>7, <1>8, <1>9 DEF Next, MainThread, EepThread

-----------------------------------------------------------------------------
(* What each step is to the store: one that leaves the thread outside of a save loads,
   forgets or changes nothing; a save begins, goes on, completes or is cut short. *)
Found == Decode(IF cached THEN cache ELSE eeprom)

LEMMA StoreLoads ==
    ASSUME ~Saving, ~Saving', UNCHANGED <<eeprom, Found, doubtful, refused, cuts>>,
           result' \in {result, Found, NoData}
    PROVE  [Store!Next]_(Store!vars)
<1>1. CASE result' = result
  BY <1>1 DEF Store!vars, Found
<1>2. CASE result' \in {Found, NoData}
  BY <1>2 DEF Store!Next, Store!Load, Found
<1> QED
  BY <1>1, <1>2

LEMMA StoreGoesOn ==
    ASSUME Saving, Saving', UNCHANGED <<committed, attempt, refused, cuts, result>>,
           attempt \in Data, doubtful' \subseteq doubtful
    PROVE  [Store!Next]_(Store!vars)
<1>1. UNCHANGED Former
  BY DEF Former
<1>2. CASE (doubtful' # {}) = (doubtful # {})
  BY <1>1, <1>2 DEF Store!vars
<1>3. CASE doubtful' = {}
  <2>1. Store!Mend
    BY <1>1, <1>3, EepAssumption DEF Store!Mend
  <2> QED
    BY <2>1 DEF Store!Next
<1> QED
  BY <1>2, <1>3

LEMMA StoreBegins ==
    ASSUME ~Saving, Saving', attempt' \in Data,
           cuts = 0 => Found = committed /\ Decode(eeprom) = committed,
           UNCHANGED <<committed, refused, doubtful, cuts, result>>
    PROVE  [Store!Next]_(Store!vars)
<1>1. Store!Begin(attempt')
  BY DEF Store!Begin, Found, Former
<1> QED
  BY <1>1 DEF Store!Next

LEMMA StoreCompletes ==
    ASSUME Saving, ~Saving', attempt \in Data, cached', Decode(cache') = attempt,
           IF doubtful = {}
           THEN Decode(eeprom') = attempt /\ refused' = attempt /\ cuts' = 0
           ELSE /\ UNCHANGED <<refused, cuts>>
                /\ cuts = 1 => Decode(eeprom') \in {attempt, refused},
           UNCHANGED <<doubtful, result>>
    PROVE  [Store!Next]_(Store!vars)
<1>1. attempt # NoData /\ Decode(eeprom') \in Data \cup {NoData}
  BY EepAssumption, DecodeType
<1>2. Store!Complete
  BY <1>1 DEF Store!Complete, Store!Anything
<1> QED
  BY <1>2 DEF Store!Next

LEMMA StoreIsCut ==
    ASSUME Saving, ~Saving', attempt \in Data, cuts' = IF cuts = 0 THEN 1 ELSE 2,
           cuts = 0 => Decode(eeprom') \in {committed, attempt}
    PROVE  Store!CutShort
<1>1. attempt # NoData /\ Decode(eeprom') \in Data \cup {NoData}
  BY EepAssumption, DecodeType
<1> QED
  BY <1>1 DEF Store!CutShort, Store!Anything, Former

LEMMA StoreRefuses ==
    ASSUME Saving, ~Saving', Store!CutShort, cached',
           cuts = 0 => Decode(cache') \in {committed, attempt},
           refused' = attempt, doubtful' # {}, result' = result
    PROVE  [Store!Next]_(Store!vars)
<1>1. Decode(cache') \in Data \cup {NoData}
  BY DecodeType
<1>2. Store!Refuse
  BY <1>1 DEF Store!Refuse, Store!Anything, Former
<1> QED
  BY <1>2 DEF Store!Next

LEMMA StoreIsOff ==
    ASSUME ~Saving', ~cached', doubtful' = {}, refused' = refused, result' = NoData,
           IF Saving THEN Store!CutShort ELSE UNCHANGED <<eeprom, cuts>>
    PROVE  [Store!Next]_(Store!vars)
<1>1. Store!PowerOff
  BY DEF Store!PowerOff
<1> QED
  BY <1>1 DEF Store!Next

LEMMA SurvivesAfter ==
    EepInv' => Survives'
<1>1. EepInv => Survives
  BY InvSurvives
<1> QED
  BY <1>1, PTL

LEMMA FoundUncut ==
    ASSUME EepInv, ~Saving, cuts = 0
    PROVE  Found = committed /\ Decode(eeprom) = committed
<1>1. eeprom = TwoCopies(committed) /\ committed \in Data
  BY DEF EepInv, Device, TypeOK, Saving
<1>2. (IF cached THEN cache ELSE eeprom) = eeprom
  BY NoDoubt
<1> QED
  BY <1>1, <1>2, DecodeBoth DEF Found

LEMMA StoreStep ==
    ASSUME EepInv, Loaded, Next, EepInv'
    PROVE  [Store!Next]_(Store!vars)
<1>1. /\ attempt \in Data /\ attempt' \in Data /\ cuts \in 0 .. 2 /\ cuts' \in 0 .. 2
      /\ committed \in Data
  BY DEF EepInv, TypeOK
<1>2. Survives'
  BY SurvivesAfter
<1>3. CASE Create \/ Load \/ (\E d \in Data : Save(d)) \/ Probe \/ LoopAgain \/ Reply
           \/ TakeRead \/ ReadBlock \/ ReadFails \/ ReadAll
  <2>1. /\ ~Saving /\ ~Saving' /\ UNCHANGED <<eeprom, doubtful, refused, cuts, result>>
    BY <1>3, TurnFacts DEF Create, Load, Save, Probe, LoopAgain, Reply, TakeRead, ReadBlock,
       ReadFails, ReadAll, device, history, EepInv, Turns, Saving
  <2>2. CASE UNCHANGED device
    BY <2>1, <2>2, StoreLoads DEF device, Found
  <2>3. CASE Create
    <3>1. ~cached /\ ~cached'
      BY <2>3 DEF Create, EepInv, InDoubt
    <3> QED
      BY <2>1, <3>1, StoreLoads DEF Found
  <2>4. CASE ReadBlock
    <3>1. ~cached /\ cached' = cached
      BY <2>4 DEF ReadBlock, EepInv, InDoubt
    <3> QED
      BY <2>1, <3>1, StoreLoads DEF Found
  <2>5. CASE ReadAll
    <3>1. ~cached /\ cached' /\ cache' = cache
      BY <2>5 DEF ReadAll, EepInv, InDoubt
    <3>2. \A b \in Blocks : b < blk
      BY <2>5, BlockFacts DEF ReadAll, EepInv, TypeOK, Blocks
    <3>3. \A b \in Blocks : cache[b] = eeprom[b]
      BY <2>5, <3>2 DEF ReadAll, EepInv, Progress
    <3>4. cache = eeprom
      BY <3>3, SameBlocks DEF EepInv, TypeOK
    <3> QED
      BY <2>1, <3>1, <3>4, StoreLoads DEF Found
  <2> QED
    BY <1>3, <2>2, <2>3, <2>4, <2>5 DEF Load, Save, Probe, LoopAgain, Reply, TakeRead,
       ReadFails
<1>4. CASE RecvReply
  <2>1. cmdq = <<>> /\ replyq = <<status>> /\ epc \in {"receive", "loop"}
    BY <1>4, TurnFacts DEF RecvReply
  <2>2. Head(replyq) = status
    BY <2>1
  <2>3. /\ epc' = epc /\ UNCHANGED <<eeprom, cache, cached, doubtful, refused, cuts>>
        /\ result' = IF mpc = "loading"
                     THEN IF Head(replyq) = 0 THEN Decode(buff) ELSE NoData
                     ELSE result
    BY <1>4 DEF RecvReply, device, history
  <2>4. mpc = "loading" /\ status = 0 => Decode(buff) = Found
    BY <2>1 DEF Loaded, Found
  <2>5. result' \in {result, Found, NoData}
    BY <2>2, <2>3, <2>4
  <2>6. UNCHANGED Found
    BY <2>3 DEF Found
  <2> QED
    BY <2>1, <2>3, <2>5, <2>6, StoreLoads DEF Saving
<1>5. CASE TakeWrite
  <2>1. /\ ~Saving /\ UNCHANGED <<eeprom, Found, committed, doubtful, refused, cuts, result>>
    BY <1>5 DEF TakeWrite, Saving, device, Found
  <2>2. CASE cached
    <3>1. Saving'
      BY <1>5, <2>2 DEF TakeWrite, Saving
    <3> QED
      BY <1>1, <2>1, <3>1, FoundUncut, StoreBegins
  <2>3. CASE ~cached
    <3>1. ~Saving'
      BY <1>5, <2>3 DEF TakeWrite, Saving
    <3> QED
      BY <2>1, <3>1, StoreLoads
  <2> QED
    BY <2>2, <2>3
<1>6. CASE SkipBlock \/ WriteBlock
  <2>1. /\ Saving /\ Saving' /\ UNCHANGED <<committed, attempt, refused, cuts, result>>
        /\ doubtful' \subseteq doubtful
    BY <1>6 DEF SkipBlock, WriteBlock, history, Saving
  <2> QED
    BY <1>1, <2>1, StoreGoesOn
<1>7. CASE WriteFails
  <2>1. /\ Saving /\ ~Saving' /\ result' = result /\ cuts' = OneMore(cuts)
        /\ attempt' = attempt /\ committed' = committed /\ refused' = attempt
        /\ cache' = cache /\ cached' = cached /\ doubtful' = doubtful \cup {blk}
    BY <1>7 DEF WriteFails, Saving
  <2>2. cuts' = IF cuts = 0 THEN 1 ELSE 2
    BY <1>1, <2>1 DEF OneMore
  <2>3. cuts = 0 => Decode(eeprom') \in {committed, attempt}
    BY <1>2, <2>1, <2>2 DEF Survives, Saving
  <2>4. cached
    BY <2>1 DEF EepInv, Progress, Saving
  <2>5. cuts = 0 => Decode(cache) \in {committed, attempt}
    <3> SUFFICES ASSUME cuts = 0 PROVE Decode(cache) \in {committed, attempt}
      OBVIOUS
    <3>1. cache = eeprom /\ refused = committed
      BY <2>4, NoDoubt
    <3>2. Survives
      BY InvSurvives
    <3> QED
      BY <2>1, <3>1, <3>2 DEF Survives, Saving
  <2>6. Store!CutShort
    BY <1>1, <2>1, <2>2, <2>3, StoreIsCut
  <2> QED
    BY <2>1, <2>4, <2>5, <2>6, StoreRefuses
<1>8. CASE WriteAll
  <2>1. /\ Saving /\ ~Saving' /\ committed' = attempt /\ attempt' = attempt
        /\ UNCHANGED <<eeprom, cache, cached, doubtful, result>>
        /\ IF doubtful = {} THEN cuts' = 0 /\ refused' = attempt
                           ELSE cuts' = cuts /\ refused' = refused
    BY <1>8 DEF WriteAll, device, Saving
  <2>2. doubtful = {} => Decode(eeprom') = attempt
    <3>1. doubtful = {} => eeprom' = TwoCopies(attempt)
      BY <2>1 DEF EepInv, Device, Saving
    <3> QED
      BY <1>1, <3>1, DecodeBoth
  <2>3. cuts = 1 /\ doubtful # {} => Decode(eeprom') \in {attempt, refused}
    BY <1>2, <2>1 DEF Survives, Saving
  <2>4. cached /\ cache = TwoCopies(attempt)
    <3>1. \A b \in Blocks : b < blk
      BY <1>8, BlockFacts DEF WriteAll, EepInv, TypeOK, Blocks
    <3>2. cached /\ buff = TwoCopies(attempt) /\ \A b \in Blocks : cache[b] = buff[b]
      BY <2>1, <3>1 DEF EepInv, Progress, Saving
    <3>3. cache = buff
      BY <3>2, SameBlocks DEF EepInv, TypeOK
    <3> QED
      BY <3>2, <3>3
  <2>5. Decode(cache') = attempt
    BY <1>1, <2>1, <2>4, DecodeBoth
  <2> QED
    BY <1>1, <2>1, <2>2, <2>3, <2>4, <2>5, StoreCompletes
<1>9. CASE PowerFails
  <2>1. /\ ~Saving' /\ ~cached' /\ doubtful' = {} /\ result' = NoData
        /\ committed' = committed /\ attempt' = attempt /\ refused' = refused
    BY <1>9 DEF PowerFails, Saving
  <2>2. CASE ~Saving
    <3>1. UNCHANGED <<eeprom, cuts>>
      BY <1>9, <2>2 DEF PowerFails, Saving
    <3> QED
      BY <2>1, <2>2, <3>1, StoreIsOff
  <2>3. CASE Saving
    <3>1. cuts' = IF cuts = 0 THEN 1 ELSE 2
      BY <1>1, <1>9, <2>3 DEF PowerFails, OneMore, Saving
    <3>2. cuts = 0 => Decode(eeprom') \in {committed, attempt}
      BY <1>2, <2>1, <2>3, <3>1, NoDoubt DEF Survives, Saving
    <3>3. Store!CutShort
      BY <1>1, <2>1, <2>3, <3>1, <3>2, StoreIsCut
    <3> QED
      BY <2>1, <2>3, <3>3, StoreIsOff
  <2> QED
    BY <2>2, <2>3
<1> QED
  BY <1>3, <1>4, <1>5, <1>6, <1>7, <1>8, <1>9 DEF Next, MainThread, EepThread

(* Saving and loading are a SaveStore: for any data, blocks and faults, a save replaces
   the one value as a whole, and one that is cut short leaves the old or the new; what
   a refused one left behind the cache is replaced by a save that writes over it. *)
THEOREM SavesImplementStore == Spec => StoreSpec
<1> DEFINE J == EepInv /\ Loaded
<1>1. Init => J
  BY InitInv DEF Init, Loaded
<1>2. J /\ [Next]_vars => J'
  <2>1. ASSUME J, Next PROVE J'
    BY <2>1, TypeNext, TurnsNext, CoherentNext, ProgressNext, DeviceNext, InDoubtNext,
       LoadedNext DEF EepInv
  <2>2. ASSUME J, UNCHANGED vars PROVE J'
    BY <2>2, StutterInv DEF vars, Loaded
  <2> QED
    BY <2>1, <2>2
<1>3. Init => Store!Init
  BY DecodeBoth DEF Init, Store!Init, Saving
<1>4. J /\ J' /\ [Next]_vars => [Store!Next]_(Store!vars)
  <2>1. ASSUME J, J', Next PROVE [Store!Next]_(Store!vars)
    BY <2>1, StoreStep
  <2>2. ASSUME UNCHANGED vars PROVE UNCHANGED Store!vars
    BY <2>2 DEF vars, Store!vars, Saving, Former
  <2> QED
    BY <2>1, <2>2
<1> QED
  BY <1>1, <1>2, <1>3, <1>4, PTL DEF Spec, StoreSpec, Store!Spec
=============================================================================
