SPECIFICATION Spec
CONSTANTS
    ObjectSize = 3
    StackSize = 5
    RegionSize = 3
    Span = 256
    HeaderBytes = 2
    Clients = {c1, c2}
    Sizes = {0, 1, 3}
    Aligns = {0, 4, 8}
    Offsets = {0, 252, 254}
    Regions = {8, 10}
    RegionLengths <- MCLengths
    Pages = {1, 2, 4}
    UnitSizes = {1, 2, 4}
    ObjectAligns = {1, 2, 4, 8}
    Additions <- MCAdditions
    Exercised = {12}
SYMMETRY MCSymmetry
INVARIANTS
    TypeOK
    BuffersExact
    HeapExact
    LayoutFits
    LayoutBest
PROPERTIES
    VirtualAllocatorContract
CHECK_DEADLOCK FALSE
