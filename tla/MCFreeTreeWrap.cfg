SPECIFICATION Spec
CONSTANTS
    AddressSpan = 8
    SizeMax = 7
    Donated = {2, 3, 4, 5, 6}
    AllocSizes = {0, 1, 3}
    AlignSizes = {7}
    Aligns = {4}
    AlignOffsets = {1}
INVARIANT GrantedIsFree
CHECK_DEADLOCK FALSE
