SPECIFICATION Spec
CONSTANTS
    t1 = t1
    t2 = t2
    t3 = t3
    idle = idle
    long = long
    Threads = {idle, t1, t2, t3}
    Idle = idle
    NoThread = NoThread
    Queues = {long}
    NoQueue = NoQueue
    Count <- MCCount
    Msgs = {1}
    EventMsg = 2
    Pris = {1,2}
    IdlePri = 0
INVARIANTS ThreadsQueued HighestRuns NoLostWakeup
PROPERTY QueueSpec
SYMMETRY Interchangeable
