SPECIFICATION Spec
CONSTANTS
    AddressSpan = 8
    SizeMax = 7
    Donated = {0, 4, 5, 6, 7}
    AllocSizes = {0, 1, 3}
    AlignSizes = {0, 2}
    Aligns = {0, 4}
    AlignOffsets = {3}
INVARIANTS
    TypeOK
    TreesAgree
    UnitsConserved
PROPERTIES
    SearchExact
    SeamOnlyByEmpty
    FreeTreeContract
CHECK_DEADLOCK FALSE
