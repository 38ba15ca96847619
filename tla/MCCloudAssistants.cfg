SPECIFICATION Spec
CONSTANTS
    Clients = {c1, c2}
    Lines = {l1, l2}
    MaxUid = 2
    Free = Free
    Null = Null
    Error = Error
    Garbage = Garbage
SYMMETRY Symmetric
INVARIANTS
    TypeOK
    OkMeansDone
    SilentMeansNot
