\* Everything may go wrong, at any step.  A probe that finds another EEPROM
\* stops the system.
SPECIFICATION FairSpec
CONSTANTS
    torn = torn
    none = none
    Torn = torn
    NoData = none
    Data <- TwoValues
    NumBlocks = 3
    Contents <- TwoContents
    Faults = {"read", "write", "probe", "power"}
INVARIANTS
    EepInv
    Survives
PROPERTIES
    StoreSpec
    CallsReturn
CHECK_DEADLOCK FALSE
