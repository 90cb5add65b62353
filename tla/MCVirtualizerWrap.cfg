SPECIFICATION Spec
CONSTANTS
    ObjectSize = 3
    StackSize = 5
    RegionSize = 3
    Span = 256
    HeaderBytes = 2
    Clients = {c1}
    Sizes = {1, 255}
    Aligns = {0}
    Offsets = {0}
    Regions = {8}
    RegionLengths <- MCLengths
    Pages = {1, 2, 4}
    UnitSizes = {1}
    ObjectAligns = {4}
    Additions = {}
    Exercised = {12}
INVARIANTS
    AllocGivesSize
CHECK_DEADLOCK FALSE
