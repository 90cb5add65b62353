SPECIFICATION Spec
CONSTANTS
    AddressSpan = 16
    SizeMax = 15
    StackSize = 3
    Starts = {8}
    MaxChunks = 8
    AllocSizes = {0, 1, 2}
    Aligns = {4}
    AlignOffsets = {0, 1}
INVARIANTS
    TypeOK
    NoFault
    BufferReady
    RegionsOrdered
    OneOwner
PROPERTIES
    PlacedFreeListContract
    ApplyBufferReturns
CHECK_DEADLOCK TRUE
