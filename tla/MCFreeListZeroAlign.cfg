SPECIFICATION Spec
CONSTANTS
    AddressSpan = 8
    SizeMax = 7
    n1 = n1
    n2 = n2
    n3 = n3
    Nodes <- MCNodes
    AllocSizes = {1}
    Aligns = {0, 4}
    AlignOffsets = {0}
SYMMETRY NodeSymmetry
INVARIANT ZeroAlignIsOne
CHECK_DEADLOCK FALSE
