\* Two threads that load files of one or two chunks at the same time, with
\* queues of two places.  With two chunks requests can be taken for one another
\* and the threads may wait for ever, so the system may stop.
SPECIFICATION MCSpec
CONSTANTS
    c1 = c1
    c2 = c2
    None = None
    Clients = {c1, c2}
    Kinds <- SyncKinds
    Lengths = {1, 2}
    ReqCap = 2
    DoneCap = 2
    PiCap = 2
    HeapMayFail = FALSE
INVARIANTS
    RequeueNeverBlocks
    QueuesInStep
PROPERTY
    SharedAnswered
CHECK_DEADLOCK FALSE
