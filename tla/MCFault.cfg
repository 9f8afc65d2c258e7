\* Three threads crash, hit breaks and load overlays in every interleaving; three
\* overlays on pages of two.  Or every way to press up to two buttons from poll
\* to poll, in any order.  The sequence once typed, and a pad left alone, stop.
SPECIFICATION MCSpec
CONSTANTS
    main = main
    pad = pad
    idle = idle
    None = None
    Active <- ThreeThreads
    Eligible <- TwoEligible
    Count = 3
    PageSize = 2
    Holds <- SomeHolds
    Limit = 1
INVARIANTS
    FaultInv
    PagesCover
    ComboInv
PROPERTIES
    CrashIsShown
CHECK_DEADLOCK FALSE
