\* A query of the controllers after osEepromProbe.
SPECIFICATION MCSpec
CONSTANTS
    a = a
    b = b
    c = c
    x = x
    y = y
    Users = {a, b, c}
    IoUsers = {x, y}
    None = None
    CmdCap = 2
    Blocks = {1, 2}
    Data = {old, new}
    old = old
    new = new
    Ok = Ok
    Failed = Failed
    Junk = Junk
    Probe = Probe
    MayFail = TRUE
INVARIANT QueryIsOfControllers
