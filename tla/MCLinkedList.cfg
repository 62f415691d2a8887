CONSTANTS
    Lists = {a, b}
    Nodes = {n1, n2, n3, n4, n5, n6}
    Null = null
    Values = {1, 2}
    MaxPos = 3
SPECIFICATION Spec
SYMMETRY Symmetry
INVARIANTS HeapOK
PROPERTIES ImplementsLists
CHECK_DEADLOCK FALSE
