SPECIFICATION Spec
CONSTANTS
    AddressSpan = 16
    Units = 4
    Scales = {1, 2, 3}
    Offsets = {0, 1, 4}
    Sizes = {0, 1, 2, 3, 4, 6}
    Aligns = {0, 2, 4, 8}
    AlignOffsets = {0, 1, 2, 14}
INVARIANTS
    TypeOK
    HeldIsGranted
PROPERTIES
    TransformerContract
