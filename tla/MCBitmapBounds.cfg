SPECIFICATION Spec
CONSTANTS
    AddressSpan = 32
    SizeMax = 15
    BitCount = 10
    UnitBitCount = 4
    AllocSizes = {0, 1, 4, 11}
    AlignSizes = {1, 3, 11}
    Aligns = {16}
    AlignOffsets = {5, 23}
INVARIANT AssertionsHold
CHECK_DEADLOCK FALSE
