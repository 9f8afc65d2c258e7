\* Two colours, columns of whole glyphs and others; three stacks that come and go and
\* are read while their threads run.
SPECIFICATION MCSpec
CONSTANTS
    Columns <- Places
    Colours = {1, 2}
    boot = boot
    first = first
    second = second
    Entries = {boot, first, second}
    Size = 2
    MinSpace <- Spaces
    NULL = NULL
INVARIANTS
    PrinterInv
    StackInv
PROPERTIES
    TabEnds
    
    AnswerIsTrue
