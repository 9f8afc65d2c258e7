\* One thread, as in the game: every kind of request, a heap that may run out.
\* A request without answer queue, and one whose work buffer cannot be had,
\* leaves its client stopped, so the system may stop.
SPECIFICATION MCSpec
CONSTANTS
    c1 = c1
    c2 = c2
    None = None
    Clients = {c1}
    Kinds <- AllKinds
    Lengths = {3}
    ReqCap = 10
    DoneCap = 10
    PiCap = 8
    HeapMayFail = TRUE
INVARIANT
    SoloInv
PROPERTIES
    ServiceSafe
    EveryRequestAnswered
CHECK_DEADLOCK FALSE
