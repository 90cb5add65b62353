SPECIFICATION Spec
CONSTANTS
    AddressSpan = 8
    SizeMax = 7
    n1 = n1
    n2 = n2
    n3 = n3
    Nodes <- MCNodes
    AllocSizes = {0, 1, 3}
    Aligns = {4}
    AlignOffsets = {0, 1}
SYMMETRY NodeSymmetry
INVARIANTS
    TypeOK
    RegionsOrdered
    UnitsConserved
    NodesConserved
PROPERTIES
    SeamOnlyByEmptyAlign
    SearchExact
    FreeListContract
CHECK_DEADLOCK FALSE
