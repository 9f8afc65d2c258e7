\* Three users of the cartridge bus and a command queue too short for them, two
\* threads that use it themselves.  Or the pad manager and the EEPROM manager on
\* the serial bus, two blocks, and an EEPROM that may fail to answer.
SPECIFICATION MCFairSpec
CONSTANTS
    a = a
    b = b
    c = c
    x = x
    y = y
    Users = {a, b, c}
    IoUsers = {x, y}
    None = None
    CmdCap = 2
    Blocks = {1, 2}
    Data = {old, new}
    old = old
    new = new
    Ok = Ok
    Failed = Failed
    Junk = Junk
    Probe = Probe
    MayFail = TRUE
INVARIANTS PiInv SerialInv
PROPERTIES PiServiceSpec DmaAnswered EepromSpec SerialReturns
