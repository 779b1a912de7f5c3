\* More originators than slots: records are overwritten.
CONSTANTS
    Node = {n1, n2, n3}
    MAX_VECTOR_SIZE = 2
    MaxCounter = 2
SPECIFICATION Spec
SYMMETRY Symmetry
INVARIANTS
    TypeOK
    CompareIsPointwise
    TableShape
    MergeIsJoin
PROPERTY LearnsOnly
