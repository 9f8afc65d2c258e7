\* Two sleepers, and a counter that wraps after a few ticks: late compares, missed
\* interrupts and both orders in the list all happen.  One may use an interval.
SPECIFICATION MCSpec
CONSTANTS
    Windows = {}
    Frames = {"low", "last"}
    High = {"last"}
    FaultFrame = "last"
    Counts = {1}
    Wrap = 2
    TvTypes = {"NTSC"}
    Settings = {}
    Edges = {}
    Timers = {a, b}
    CounterWrap = 6
    Durations = {1, 3}
    Intervals = {0, 4}
    EventCap = 2
    Latency = 1
INVARIANTS ListedWhileAsleep NotEarly
PROPERTY SleepEnds
