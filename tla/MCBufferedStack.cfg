SPECIFICATION StackSpec
CONSTANTS
    o1 = o1
    o2 = o2
    o3 = o3
    o4 = o4
    o5 = o5
    o6 = o6
    Objects <- MCObjects
    Capacity = 4
    SoftMinimum = 1
    SoftMaximum = 2
    MaxReentries = 1
SYMMETRY ObjectSymmetry
INVARIANTS
    StackTypeOK
    OneOwner
PROPERTIES
    SoftBounds
CHECK_DEADLOCK FALSE
