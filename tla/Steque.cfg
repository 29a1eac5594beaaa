SPECIFICATION Spec
CONSTANTS
    Node = {n1, n2, n3, n4}
    Item = {a, b}
    NULL = NULL
    Nothing = Nothing
INVARIANTS WellLinked DestroyIsSafe
PROPERTIES ImplementsDeque
