-------------------------------- MODULE Kernel --------------------------------
(***************************************************************************)
(* The threads and message queues of libultra (src/lib/ultralib/src/os),     *)
(* under every manager of the game: one processor, threads with priorities,  *)
(* queues of messages in a ring with the threads that wait on either end,    *)
(* and exceptions that post events or stop a thread.                         *)
(*                                                                         *)
(* Every call runs with interrupts disabled, so it is one step, up to where  *)
(* it yields.  A thread that blocked is resumed inside the call, interrupts  *)
(* still disabled, and tries again: call[t] is the call it is in.            *)
(***************************************************************************)
EXTENDS Integers, Sequences, FiniteSets, SequencesExt

CONSTANTS
    Threads,    \* OSThread structures
    Idle,       \* the thread that never waits
    NoThread,
    Queues,     \* OSMesgQueue structures
    NoQueue,
    Count,      \* Count[q]: msgCount
    Msgs,       \* messages threads send
    EventMsg,   \* the message registered with osSetEventMesg
    Pris,       \* priorities threads are given, above that of the idle thread
    IdlePri     \* the idle thread's, once it is done with the managers

ASSUME KernelAssumption ==
    /\ Idle \in Threads /\ NoThread \notin Threads
    /\ NoQueue \notin Queues
    /\ Count \in [Queues -> Nat \ {0}]
    /\ Pris \subseteq Nat /\ IdlePri \in Nat
    /\ \A p \in Pris : IdlePri < p
    /\ IsFiniteSet(Threads)

VARIABLES
    os,         \* the scheduler, see Scheduler
    call,       \* call[t]: the call t is blocked in
    slot,       \* slot[q]: the ring, a function from 0 .. Count[q] - 1
    first,      \* first[q]
    valid,      \* valid[q]: validCount
    event       \* the queue an event is posted to, __osEventStateTab

vars == <<os, call, slot, first, valid, event>>
mesgs == <<slot, first, valid>>

\* The queues of threads: __osRunQueue, and the two of each message queue.
RunQueue == <<NoQueue, "run">>
MtQueue(q) == <<q, "mt">>
FullQueue(q) == <<q, "full">>
NoList == <<NoQueue, "none">>
Lists == {RunQueue} \cup {MtQueue(q) : q \in Queues} \cup {FullQueue(q) : q \in Queues}

States == {"none", "stopped", "runnable", "running", "waiting"}

Scheduler == [running : Threads \cup {NoThread},  \* __osRunningThread
              state   : [Threads -> States],
              pri     : [Threads -> Pris \cup {IdlePri}],
              onq     : [Threads -> Lists \cup {NoList}],   \* thread->queue
              list    : [Lists -> Seq(Threads)]]

NoCall == [op |-> "none"]
Calls == [op : {"send", "jam"}, q : Queues, msg : Msgs] \cup [op : {"recv"}, q : Queues]

Init ==
    /\ \E p \in Pris :
         os = [running |-> NoThread,
               state   |-> [t \in Threads |-> IF t = Idle THEN "stopped" ELSE "none"],
               pri     |-> [t \in Threads |-> IF t = Idle THEN p ELSE IdlePri],
               onq     |-> [t \in Threads |-> NoList],
               list    |-> [l \in Lists |-> <<>>]]
    /\ call = [t \in Threads |-> NoCall]
    /\ \E m \in Msgs : slot = [q \in Queues |-> [i \in 0 .. Count[q] - 1 |-> m]]
    /\ first = [q \in Queues |-> 0]
    /\ valid = [q \in Queues |-> 0]
    /\ event = NoQueue

-----------------------------------------------------------------------------
(* Queues of threads, as functions of the scheduler's state. *)

\* Where t goes: before the first thread of lower priority.
Place(pri, s, t) ==
    CHOOSE i \in 1 .. Len(s) + 1 :
        /\ i <= Len(s) => pri[s[i]] < pri[t]
        /\ \A j \in 1 .. i - 1 : pri[s[j]] >= pri[t]

EnqueueThread(k, l, t) ==
    [k EXCEPT !.list[l] = InsertAt(@, Place(k.pri, @, t), t), !.onq[t] = l]

\* Variant: it stays where it is.
StaysQueued(k, l, t) == k

\* __osDequeueThread: the thread keeps its queue pointer.
DequeueThread(k, l, t) == [k EXCEPT !.list[l] = RemoveFirst(@, t)]

\* __osPopThread, without the thread it returns, which is Top.
PopThread(k, l) == [k EXCEPT !.list[l] = Tail(@)]
Top(k, l) == Head(k.list[l])
Waiting(k, l) == k.list[l] # <<>>

DispatchThread(k) ==
    LET t == Top(k, RunQueue)
    IN  [PopThread(k, RunQueue) EXCEPT !.running = t, !.state[t] = "running"]

\* __osEnqueueAndYield of the running thread, which is in state s.
EnqueueAndYield(k, s, l) ==
    DispatchThread(EnqueueThread([k EXCEPT !.state[k.running] = s], l, k.running))

\* The running thread gives way to one of higher priority.
Preempt(k) ==
    IF Waiting(k, RunQueue) /\ k.pri[k.running] < k.pri[Top(k, RunQueue)]
    THEN EnqueueAndYield(k, "runnable", RunQueue)
    ELSE k

MakeRunnable(k, t) == EnqueueThread([k EXCEPT !.state[t] = "runnable"], RunQueue, t)

\* Variant: it goes to its queue and nobody looks again.
WaitQuietly(k, t) == EnqueueThread([k EXCEPT !.state[t] = "waiting"], k.onq[t], t)

\* A thread that was stopped while it waited goes back to its queue, and the
\* first one there, left in state WAITING, is made to look again.
WaitAgain(k, t) ==
    LET l == k.onq[t]
        w == EnqueueThread([k EXCEPT !.state[t] = "waiting"], l, t)
    IN  EnqueueThread(PopThread(w, l), RunQueue, Top(w, l))

\* osStartThread.
StartThread(k, t) ==
    LET s == CASE k.state[t] = "waiting" -> MakeRunnable(k, t)
               [] k.state[t] = "stopped" ->
                    IF k.onq[t] \in {NoList, RunQueue} THEN MakeRunnable(k, t)
                                                       ELSE WaitAgain(k, t)
               [] OTHER -> k
    IN  IF k.running = NoThread THEN DispatchThread(s) ELSE Preempt(s)

\* The first thread that waits in l, if any, is started.
WakeFirst(k, l) == IF Waiting(k, l) THEN StartThread(PopThread(k, l), Top(k, l)) ELSE k

-----------------------------------------------------------------------------
(* Calls of the running thread. *)

r == os.running
Enabled == r # NoThread /\ call[r] = NoCall
InCall(c) == r # NoThread /\ call[r] \in {NoCall, c}

IsEmpty(q) == valid[q] = 0
IsFull(q) == valid[q] >= Count[q]

\* The running thread waits in l until it is started, and then tries c again.
Block(c, l) ==
    /\ r # Idle
    /\ os' = EnqueueAndYield(os, "waiting", l)
    /\ call' = [call EXCEPT ![r] = c]
    /\ UNCHANGED <<mesgs, event>>

\* The call is over, and the first thread of l is woken.
Done(l) ==
    /\ os' = WakeFirst(os, l)
    /\ call' = [call EXCEPT ![r] = NoCall]
    /\ UNCHANGED event

\* Variant: the ring is taken to begin at its first place.
RearFromZero(q) == valid[q] % Count[q]

\* The place behind the last message.
Rear(q) == (first[q] + valid[q]) % Count[q]

\* osSendMesg with OS_MESG_BLOCK.
SendMesg(q, m) ==
    LET c == [op |-> "send", q |-> q, msg |-> m]
    IN  /\ InCall(c)
        /\ \/ IsFull(q) /\ Block(c, FullQueue(q))
           \/ /\ ~IsFull(q)
              /\ slot' = [slot EXCEPT ![q][Rear(q)] = m]
              /\ valid' = [valid EXCEPT ![q] = @ + 1]
              /\ Done(MtQueue(q))
              /\ UNCHANGED first

\* osJamMesg with OS_MESG_BLOCK: in front of the others.
JamMesg(q, m) ==
    LET c == [op |-> "jam", q |-> q, msg |-> m]
    IN  /\ InCall(c)
        /\ \/ IsFull(q) /\ Block(c, FullQueue(q))
           \/ /\ ~IsFull(q)
              /\ first' = [first EXCEPT ![q] = (@ + Count[q] - 1) % Count[q]]
              /\ slot' = [slot EXCEPT ![q][first'[q]] = m]
              /\ valid' = [valid EXCEPT ![q] = @ + 1]
              /\ Done(MtQueue(q))

\* osRecvMesg with OS_MESG_BLOCK.
RecvMesg(q) ==
    LET c == [op |-> "recv", q |-> q]
    IN  /\ InCall(c)
        /\ \/ IsEmpty(q) /\ Block(c, MtQueue(q))
           \/ /\ ~IsEmpty(q)
              /\ first' = [first EXCEPT ![q] = (@ + 1) % Count[q]]
              /\ valid' = [valid EXCEPT ![q] = @ - 1]
              /\ Done(FullQueue(q))
              /\ UNCHANGED slot

\* With OS_MESG_NOBLOCK the three calls return where they would block, and are
\* as above otherwise; what they do to the queues is therefore above already.

\* Calls that only concern threads.
Control(k) ==
    /\ Enabled
    /\ os' = k
    /\ UNCHANGED <<call, mesgs, event>>

\* osCreateThread.
CreateThread(t, p) ==
    /\ os.state[t] = "none"
    /\ Control([os EXCEPT !.state[t] = "stopped", !.pri[t] = p, !.onq[t] = NoList])

\* osStartThread by a thread.  What callers keep to: a thread that waits is not
\* started from outside.
StartStopped(t) ==
    /\ os.state[t] = "stopped"
    /\ Control(StartThread(os, t))

\* The first osStartThread, by bootproc, which is no thread.
Boot ==
    /\ r = NoThread
    /\ os' = StartThread(os, Idle)
    /\ UNCHANGED <<call, mesgs, event>>

\* osStopThread: of the running thread, or of another.
StopThread(t) ==
    /\ t # Idle
    /\ \/ /\ t = r
          /\ Control(DispatchThread([os EXCEPT !.state[t] = "stopped"]))
       \/ /\ os.state[t] \in {"runnable", "waiting"}
          /\ Control(DequeueThread([os EXCEPT !.state[t] = "stopped"], os.onq[t], t))

\* The structure of a destroyed thread is its owner's again.
Release(k, t) == [k EXCEPT !.state[t] = "none", !.pri[t] = IdlePri, !.onq[t] = NoList]

\* osDestroyThread of the running thread, where its entry function returns.
DestroySelf ==
    /\ r # Idle
    /\ Control(DispatchThread(Release(os, r)))

\* osDestroyThread of another.  What callers keep to: it is in no call.
DestroyThread(t) ==
    /\ t \notin {r, Idle} /\ os.state[t] # "none" /\ call[t] = NoCall
    /\ Control(Release(IF os.state[t] = "stopped" THEN os
                                                  ELSE DequeueThread(os, os.onq[t], t), t))

\* Variant: only the running thread's priority may move it.
Reordered(k, t) == k

\* A thread in a queue moves to the place of its priority.
Reorder(k, t) == EnqueueThread(DequeueThread(k, k.onq[t], t), k.onq[t], t)

\* osSetThreadPri.
SetThreadPri(t, p) ==
    /\ os.state[t] # "none" /\ os.pri[t] # p
    /\ t # Idle => p # IdlePri
    /\ LET k == [os EXCEPT !.pri[t] = p]
       IN  Control(Preempt(IF t # r /\ os.state[t] # "stopped" THEN Reorder(k, t) ELSE k))

\* osYieldThread.
YieldThread == Control(EnqueueAndYield(os, "runnable", RunQueue))

\* osSetEventMesg.
SetEventMesg(q) ==
    /\ Enabled
    /\ event' = q
    /\ UNCHANGED <<os, call, mesgs>>

-----------------------------------------------------------------------------
(* Exceptions, of the running thread or under it. *)

\* send_mesg: the event is lost if nobody asked for it or the queue is full.
Taken == event # NoQueue /\ ~IsFull(event)

\* What it does to the queue.
SendEvent ==
    /\ slot' = IF Taken THEN [slot EXCEPT ![event][Rear(event)] = EventMsg] ELSE slot
    /\ valid' = IF Taken THEN [valid EXCEPT ![event] = @ + 1] ELSE valid
    /\ UNCHANGED first

\* What it does to the scheduler, in state k without the running thread.  A
\* thread it wakes stays in state WAITING.
Posted(k) ==
    IF Taken /\ Waiting(k, MtQueue(event))
    THEN EnqueueThread(PopThread(k, MtQueue(event)), RunQueue, Top(k, MtQueue(event)))
    ELSE k

\* redispatch: the thread that was interrupted goes on unless one of higher
\* priority was woken.
Redispatch(k) ==
    LET t == k.running
    IN  IF Waiting(k, RunQueue) /\ k.pri[t] < k.pri[Top(k, RunQueue)]
        THEN DispatchThread(EnqueueThread(k, RunQueue, t))
        ELSE DispatchThread([k EXCEPT !.list[RunQueue] = <<t>> \o @])

\* handle_interrupt of an interrupt with an event.
Interrupt ==
    /\ Enabled
    /\ SendEvent
    /\ os' = Redispatch(Posted([os EXCEPT !.state[r] = "runnable"]))
    /\ UNCHANGED <<call, event>>

\* panic: the running thread is stopped for good, or until a debugger starts it.
Panic ==
    /\ Enabled /\ r # Idle
    /\ SendEvent
    /\ os' = DispatchThread(Posted([os EXCEPT !.state[r] = "stopped"]))
    /\ UNCHANGED <<call, event>>

-----------------------------------------------------------------------------
Next ==
    \/ Boot
    \/ \E q \in Queues, m \in Msgs : SendMesg(q, m) \/ JamMesg(q, m)
    \/ \E q \in Queues : RecvMesg(q) \/ SetEventMesg(q)
    \/ \E t \in Threads : StartStopped(t) \/ StopThread(t) \/ DestroyThread(t)
    \/ \E t \in Threads, p \in Pris \cup {IdlePri} : SetThreadPri(t, p)
    \/ \E t \in Threads, p \in Pris : CreateThread(t, p)
    \/ DestroySelf \/ YieldThread
    \/ Interrupt \/ Panic

Spec == Init /\ [][Next]_vars

-----------------------------------------------------------------------------
TypeOK ==
    /\ os \in Scheduler
    /\ call \in [Threads -> Calls \cup {NoCall}]
    /\ \A q \in Queues :
         /\ slot[q] \in [0 .. Count[q] - 1 -> Msgs \cup {EventMsg}]
         /\ first[q] \in 0 .. Count[q] - 1
         /\ valid[q] \in 0 .. Count[q]
    /\ event \in Queues \cup {NoQueue}

\* The list a thread in the given state must be in; <<>> for none.
Member(t, l) == \E i \in 1 .. Len(os.list[l]) : os.list[l][i] = t
WaitsIn(c) == IF c.op = "recv" THEN MtQueue(c.q) ELSE FullQueue(c.q)

\* thread.c, exceptasm.s:1146-1220, startthread.c, stopthread.c: a thread is in
\* at most one queue, once, the one its queue pointer names; it is there exactly
\* when it is ready or waits, and a message queue only holds threads that are in
\* a call that waits on that end of it.
ThreadsQueued ==
    /\ TypeOK
    /\ \A l \in Lists : IsInjective(os.list[l])
    /\ \A t \in Threads, l \in Lists :
         Member(t, l) => /\ os.onq[t] = l
                         /\ os.state[t] \in {"runnable", "waiting"}
                         /\ l # RunQueue => os.state[t] = "waiting" /\ l = WaitsIn(call[t])
    /\ \A t \in Threads :
         os.state[t] \in {"runnable", "waiting"} => Member(t, os.onq[t])
    /\ r # NoThread => os.state[r] = "running" /\ os.onq[r] = RunQueue

\* setthreadpri.c:24-32, startthread.c:31-36, exceptasm.s:919-948: queues are in
\* the order of priorities, and nobody who is ready has a higher priority than
\* the thread that runs.
HighestRuns ==
    /\ \A l \in Lists : \A i \in 1 .. Len(os.list[l]) - 1 :
         os.pri[os.list[l][i]] >= os.pri[os.list[l][i + 1]]
    /\ r # NoThread => \A t \in Threads : Member(t, RunQueue) => os.pri[t] <= os.pri[r]

\* Those that were woken from l and have yet to try again.
Woken(l) == {t \in Threads : call[t] # NoCall /\ WaitsIn(call[t]) = l /\ os.onq[t] = RunQueue}

\* recvmesg.c:17-36, sendmesg.c:18-34, exceptasm.s:978-1030: while a thread waits
\* for a message, each message there is has woken a thread that has yet to look;
\* and while one waits for room, so has each place.
NoLostWakeup ==
    \A q \in Queues :
        /\ Waiting(os, MtQueue(q)) => valid[q] <= Cardinality(Woken(MtQueue(q)))
        /\ Waiting(os, FullQueue(q)) =>
               Count[q] - valid[q] <= Cardinality(Woken(FullQueue(q)))

\* What a ring holds, oldest first.
Contents == [q \in Queues |->
    [i \in 1 .. valid[q] |-> slot[q][(first[q] + i - 1) % Count[q]]]]

Bounded == INSTANCE BoundedQueues WITH contents <- Contents, Msgs <- Msgs \cup {EventMsg}

\* sendmesg.c, recvmesg.c, jammesg.c, send_mesg of exceptasm.s: the ring is a
\* queue of at most msgCount messages, whoever uses it and whatever is preempted.
QueueSpec == Bounded!Spec

=============================================================================
