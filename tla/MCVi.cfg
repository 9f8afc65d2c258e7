\* Calls and retraces in any order, counts shorter than the wrap of the counter.
\* Or windows asked for one after the other, in every mode of libultra.
SPECIFICATION MCSpec
CONSTANTS
    Windows = {"w1", "w2"}
    Frames = {"low", "f1", "last"}
    High = {"f1", "last"}
    FaultFrame = "last"
    Counts = {1, 2}
    Wrap = 4
    TvTypes = {"NTSC", "PAL", "MPAL"}
    Settings <- AllSettings
    Edges <- SomeWindows
    Timers = {}
    CounterWrap = 1
    Durations = {}
    Intervals = {}
    EventCap = 1
    Latency = 0
INVARIANTS ModeShown WholeMode ToldInTime CrashIsSeen
PROPERTY ViServiceSpec
