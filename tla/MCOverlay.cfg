\* Overlays loaded one after the other to two overlapping places.
SPECIFICATION Spec
CONSTANTS
    Half = 4
    Segment = 32
    Registers = {0, 1, 2}
    Ram <- SmallRam
    Allocs <- TwoAllocs
    Images <- ThreeImages
    Garbage <- TheGarbage
    Stale <- TheStale
    None = None
    NoRef = NoRef
    Absent = Absent
INVARIANTS
    RelocInv
    RunsLinkedCode
PROPERTIES
    StartsWithLinkedData
