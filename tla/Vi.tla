---------------------------------- MODULE Vi ----------------------------------
(***************************************************************************)
(* The video: ViMgr, where a mode has two halves and a window is a name, and   *)
(* ViMode, where a mode is its registers and func_8007EE28 one step.  And the  *)
(* timers, which are the other thing the thread of the VI manager looks after: *)
(* its messages are retraces and interrupts of the counter.                    *)
(***************************************************************************)
EXTENDS ViMgr

CONSTANTS
    TvTypes, Settings, Edges,                                       \* of ViMode
    Timers, CounterWrap, Durations, Intervals, EventCap, Latency    \* of Timers

VARIABLES
    tvType, viMode, regs, setMode, applied,
    count, compare, irq, events, counter, list, value, interval, mesg, place, tim, mgr,
    newTime, lag, owed, stale

editor == <<tvType, viMode, regs, setMode, applied>>
timers == <<count, compare, irq, events, counter, list, value, interval, mesg, place, tim,
            mgr, newTime, lag, owed, stale>>

Editor == INSTANCE ViMode WITH Windows <- Edges, next <- setMode
Clock == INSTANCE Timers WITH Wrap <- CounterWrap, pc <- place

ASSUME ViModeAssumption == Editor!ViModeAssumption
ASSUME TimersAssumption == Clock!TimersAssumption

(* vimode.c:305-315: see ViMode. *)
ModeShown == Editor!ModeShown

(* timerintr.c:52-65, sleep.c:4-11: see Timers. *)
ListedWhileAsleep == Clock!ListedWhileAsleep
NotEarly == Clock!NotEarly
SleepEnds == Clock!SleepEnds
=============================================================================
