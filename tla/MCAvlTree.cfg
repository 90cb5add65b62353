SPECIFICATION Spec
CONSTANTS
    Nodes <- MCNodes
    ValueOf <- MCValueOf
    Probes = {3, 8}
INVARIANTS
    TypeOK
    Balanced
    SearchExact
PROPERTIES
    DynamicTreeContract
