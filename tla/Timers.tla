-------------------------------- MODULE Timers --------------------------------
(***************************************************************************)
(* Timers of libultra and the sleep the game makes of them: osSetTimer,       *)
(* __osInsertTimer, __osSetTimerIntr and __osTimerInterrupt, and csleep.      *)
(*                                                                         *)
(* The timers are in a list, the value of each counted from the one before   *)
(* it, that of the first from __osTimerCounter.  The processor's counter      *)
(* wraps; where it meets its compare register an interrupt is raised, which   *)
(* becomes an event for the VI manager, the thread of the highest priority.   *)
(* Time passes between any two steps, and within __osSetTimerIntr.            *)
(***************************************************************************)
EXTENDS Integers, Sequences, SequencesExt

CONSTANTS
    Timers,     \* OSTimer structures, each of a thread that sleeps on it
    Wrap,       \* 2^32: the number of values of the counter
    Durations,  \* what the threads ask for, in ticks of the counter
    Intervals,  \* after which a timer goes off again; 0 for never
    EventCap,   \* messages viEventQueue has room for
    Latency     \* ticks that pass at most from when somebody has something to do
                \* until nobody has

TimersAssumption ==
    /\ Wrap \in Nat \ {0} /\ EventCap \in Nat \ {0} /\ Latency \in Nat
    /\ Durations \subseteq 1 .. Wrap - Latency - 1
    /\ Intervals \subseteq 0 .. Wrap - 1

VARIABLES
    count,      \* C0_COUNT
    compare,    \* C0_COMPARE
    irq,        \* they met: the interrupt is pending
    events,     \* COUNTER messages in viEventQueue
    counter,    \* __osTimerCounter
    list,       \* __osTimerList
    value,      \* value[t], see Head
    interval,   \* interval[t]
    mesg,       \* mesg[t]: messages in the queue of t, which holds one
    pc,         \* pc[t]: where its thread is
    tim,        \* tim[t]: "time" of osSetTimer
    mgr,        \* where the VI manager is
    newTime,    \* "NewTime" of __osSetTimerIntr, while that runs
    lag,        \* ticks since somebody has something to do
    owed,       \* history: owed[t], ticks until t may go off
    stale       \* history: stale[t], how much of Elapsed had passed before t was set

clock == <<count, compare, irq, newTime>>
vars == <<clock, events, counter, list, value, interval, mesg, pc, tim, mgr, lag, owed,
          stale>>

None == -1

Init ==
    /\ count \in 0 .. Wrap - 1 /\ compare = 0 /\ irq = FALSE /\ events = 0
    /\ counter = 0 /\ list = <<>>
    /\ value = [t \in Timers |-> 0] /\ interval = [t \in Timers |-> 0]
    /\ mesg = [t \in Timers |-> 0]
    /\ pc = [t \in Timers |-> "idle"] /\ tim = [t \in Timers |-> 0]
    /\ mgr = "idle" /\ newTime = None /\ lag = 0
    /\ owed = [t \in Timers |-> 0] /\ stale = [t \in Timers |-> 0]

Elapsed == (count - counter) % Wrap

\* What is owed when Elapsed is counted, of which a part is older than the timer.
Charged == [t \in Timers |-> IF owed[t] > stale[t] THEN owed[t] - stale[t] ELSE 0]
Fresh == stale' = [t \in Timers |-> 0]

-----------------------------------------------------------------------------
(* __osInsertTimer, as a function of the list and the values. *)

\* What the first i timers have to go together.
Sums(l, v) == LET sum[i \in 0 .. Len(l)] == IF i = 0 THEN 0 ELSE sum[i - 1] + v[l[i]]
              IN  sum

\* How many of the timers go off before one that has x to go.
Before(l, sum, x) ==
    CHOOSE n \in 0 .. Len(l) : /\ \A i \in 1 .. n : x > sum[i]
                               /\ n < Len(l) => x <= sum[n + 1]

\* The list, the values, and how long t waits after the timer before it.
Insert(l, v, t, x) ==
    LET sum == Sums(l, v)
        n == Before(l, sum, x)
        d == x - sum[n]
        w == [v EXCEPT ![t] = d]
    IN  [list  |-> InsertAt(l, n + 1, t),
         value |-> IF n < Len(l) THEN [w EXCEPT ![l[n + 1]] = @ - d] ELSE w,
         tim   |-> d]

-----------------------------------------------------------------------------
(* The clock, and the exception handler. *)

Enabled == newTime = None
ManagerBusy == mgr # "idle" \/ events > 0 \/ irq
ThreadBusy(t) == pc[t] \in {"check", "set"} \/ mesg[t] > 0
Busy == newTime # None \/ ManagerBusy \/ \E t \in Timers : ThreadBusy(t)

\* The end of a step other than a tick.
Rested == lag' = IF Busy' THEN lag ELSE 0

Tick ==
    /\ Busy => lag < Latency
    /\ lag' = IF Busy THEN lag + 1 ELSE 0
    /\ count' = (count + 1) % Wrap
    /\ irq' = (irq \/ count' = compare)
    /\ owed' = [t \in Timers |-> IF owed[t] > 0 THEN owed[t] - 1 ELSE 0]
    /\ UNCHANGED <<compare, newTime, events, counter, list, value, interval, mesg, pc, tim, mgr>>
    /\ IF Elapsed' = 0 THEN Fresh ELSE UNCHANGED stale

\* The handler writes the compare register back, which ends the interrupt.
Interrupt ==
    /\ Enabled /\ irq
    /\ irq' = FALSE
    /\ events' = IF events < EventCap THEN events + 1 ELSE events
    /\ UNCHANGED <<count, compare, newTime, counter, list, value, interval, mesg, pc, tim,
                   mgr, owed, stale>>
    /\ Rested

\* The counter is not written: what SetTimerIntr could be.
SetCompareOnly(x) ==
    /\ counter' = counter
    /\ newTime' = (count + x) % Wrap

\* __osSetTimerIntr, up to where NewTime is known, and from there.
SetTimerIntr(x) ==
    /\ counter' = count
    /\ newTime' = (count + x) % Wrap

WriteCompare ==
    /\ newTime # None
    /\ compare' = newTime /\ irq' = FALSE
    /\ newTime' = None
    /\ UNCHANGED <<count, events, counter, list, value, interval, mesg, pc, tim, mgr, owed,
                   stale>>
    /\ Rested

-----------------------------------------------------------------------------
(* The VI manager, at a COUNTER message: __osTimerInterrupt. *)

Manager == Enabled /\ ~irq /\ UNCHANGED <<count, interval, pc, tim>>

TakeEvent ==
    /\ Manager /\ mgr = "idle" /\ events > 0
    /\ events' = events - 1
    /\ mgr' = IF list = <<>> THEN "idle" ELSE "loop"
    /\ UNCHANGED <<compare, irq, newTime, counter, list, value, mesg, owed,
                   stale>>

NoneLeft ==
    /\ Manager /\ mgr = "loop" /\ list = <<>>
    /\ compare' = 0 /\ irq' = FALSE
    /\ counter' = 0
    /\ mgr' = "idle"
    /\ UNCHANGED <<newTime, events, list, value, mesg, owed, stale>>

NotYet ==
    LET t == Head(list)
    IN  /\ Manager /\ mgr = "loop" /\ list # <<>>
        /\ Elapsed < value[t]
        /\ value' = [value EXCEPT ![t] = @ - Elapsed]
        /\ counter' = count
        /\ owed' = Charged /\ Fresh
        /\ mgr' = "arm"
        /\ UNCHANGED <<compare, irq, newTime, events, list, mesg>>

Arm ==
    /\ Manager /\ mgr = "arm"
    /\ SetTimerIntr(value[Head(list)]) /\ Fresh
    /\ mgr' = "idle"
    /\ UNCHANGED <<compare, irq, events, list, value, mesg, owed>>

\* Variant: the timer stays in the list.
ExpireListed ==
    LET t == Head(list)
    IN  /\ Manager /\ mgr = "loop" /\ list # <<>>
        /\ Elapsed >= value[t]
        /\ counter' = count
        /\ owed' = Charged /\ Fresh
        /\ mesg' = [mesg EXCEPT ![t] = 1]
        /\ UNCHANGED <<compare, irq, newTime, events, list, value, mgr>>

\* Variant: nobody is told.
ExpireSilently ==
    LET t == Head(list)
    IN  /\ Manager /\ mgr = "loop" /\ list # <<>>
        /\ Elapsed >= value[t]
        /\ list' = Tail(list)
        /\ counter' = count
        /\ owed' = Charged /\ Fresh
        /\ UNCHANGED <<compare, irq, newTime, events, mesg, value, mgr>>

\* A timer goes off: it leaves the list, its queue gets a message unless it is
\* full, and it enters the list again if it has an interval.
Expire ==
    LET t == Head(list)
        again == Insert(Tail(list), value, t, interval[t])
    IN  /\ Manager /\ mgr = "loop" /\ list # <<>>
        /\ Elapsed >= value[t]
        /\ counter' = count /\ Fresh
        /\ mesg' = [mesg EXCEPT ![t] = 1]
        /\ IF interval[t] = 0
           THEN list' = Tail(list) /\ UNCHANGED value /\ owed' = Charged
           ELSE /\ list' = again.list /\ value' = again.value
                /\ owed' = [Charged EXCEPT ![t] = interval[t]]
        /\ UNCHANGED <<compare, irq, newTime, events, mgr>>

-----------------------------------------------------------------------------
(* The thread of timer t, which runs when the VI manager has nothing to do. *)

Thread == Enabled /\ ~ManagerBusy /\ UNCHANGED <<count, compare, irq, events, mgr>>

\* osSetTimer up to __osInsertTimer; csleep gives an empty queue.  What had elapsed
\* since __osTimerCounter was last written will be taken off the new timer too, if
\* the VI manager is the next to write it.
SetTimer(t) ==
    /\ Thread /\ pc[t] = "idle"
    /\ \E x \in Durations, i \in Intervals :
         LET in == Insert(list, value, t, x)
         IN  /\ list' = in.list /\ value' = in.value
             /\ tim' = [tim EXCEPT ![t] = in.tim]
             /\ interval' = [interval EXCEPT ![t] = i]
             /\ owed' = [owed EXCEPT ![t] = x] /\ stale' = [stale EXCEPT ![t] = Elapsed]
    /\ mesg' = [mesg EXCEPT ![t] = 0]
    /\ pc' = [pc EXCEPT ![t] = "check"]
    /\ UNCHANGED <<newTime, counter>>

\* if (__osTimerList->next == t)
CheckFirst(t) ==
    /\ Thread /\ pc[t] = "check"
    /\ pc' = [pc EXCEPT ![t] = IF list # <<>> /\ Head(list) = t THEN "set" ELSE "wait"]
    /\ UNCHANGED <<newTime, counter, list, value, interval, mesg, tim, owed, stale>>

ArmFirst(t) ==
    /\ Thread /\ pc[t] = "set"
    /\ SetTimerIntr(tim[t]) /\ Fresh
    /\ pc' = [pc EXCEPT ![t] = "wait"]
    /\ UNCHANGED <<list, value, interval, mesg, tim, owed>>

\* osRecvMesg; csleep is over unless the timer goes on.
Wake(t) ==
    /\ Thread /\ pc[t] = "wait" /\ mesg[t] > 0
    /\ mesg' = [mesg EXCEPT ![t] = 0]
    /\ pc' = [pc EXCEPT ![t] = IF interval[t] = 0 THEN "idle" ELSE "wait"]
    /\ UNCHANGED <<newTime, counter, list, value, interval, tim, owed, stale>>

Step(t) == (CheckFirst(t) \/ ArmFirst(t) \/ Wake(t)) /\ Rested
Manage == (TakeEvent \/ NoneLeft \/ NotYet \/ Arm \/ Expire) /\ Rested

Next == \/ Tick \/ Interrupt \/ WriteCompare \/ Manage
        \/ \E t \in Timers : (SetTimer(t) /\ Rested) \/ Step(t)

Spec == Init /\ [][Next]_vars

\* The clock ticks, exceptions are taken, and a ready thread runs if the VI manager
\* leaves the processor alone again and again.
Fairness == /\ WF_vars(Tick) /\ WF_vars(Interrupt) /\ WF_vars(WriteCompare)
            /\ WF_vars(Manage) /\ \A t \in Timers : SF_vars(Step(t))

-----------------------------------------------------------------------------
TypeOK ==
    /\ {count, compare, counter} \subseteq 0 .. Wrap - 1
    /\ newTime \in {None} \cup 0 .. Wrap - 1
    /\ irq \in BOOLEAN /\ events \in 0 .. EventCap /\ lag \in 0 .. Latency
    /\ list \in Seq(Timers)
    /\ \A t \in Timers : /\ value[t] \in Nat /\ tim[t] \in Nat
                         /\ owed[t] \in Nat /\ stale[t] \in Nat
                         /\ interval[t] \in Intervals \cup {0}
                         /\ mesg[t] \in 0 .. 1
                         /\ pc[t] \in {"idle", "check", "set", "wait"}
    /\ mgr \in {"idle", "loop", "arm"}

Listed(t) == \E i \in 1 .. Len(list) : list[i] = t

\* sleep.c:4-11, timerintr.c:62-65: the timer is on the stack of csleep, so it is
\* out of the list before its message is there and csleep returns; it is in the
\* list once, and no sleeper is left with neither.
ListedWhileAsleep ==
    /\ TypeOK
    /\ IsInjective(list)
    /\ \A t \in Timers :
         IF interval[t] = 0 THEN Listed(t) <=> pc[t] # "idle" /\ mesg[t] = 0
                            ELSE Listed(t)
    /\ mgr = "arm" => list # <<>>

\* timerintr.c:52-65, :112, settimer.c:48-52: a sleep is whole but for what had
\* passed, when it was set, since __osTimerCounter was written, and that only counts
\* if the VI manager counts it before a thread that sets the first timer writes
\* __osTimerCounter again.  A thread that sleeps alone writes it itself (:51), so its
\* sleep is whole unless an interrupt of the counter comes just before.
NotEarly == \A t \in Timers : owed[t] > 0 /\ interval[t] = 0 => mesg[t] = 0

\* A sleep ends: whatever interrupt is missed because compare was written late, or
\* overwritten by another sleeper, the next one makes up for it.  Timers that go off
\* at intervals, which the game does not use, may take all the time there is.
SleepEnds ==
    [](\A t \in Timers : interval[t] = 0) =>
        \A t \in Timers : pc[t] = "wait" ~> pc[t] = "idle"

=============================================================================
