SPECIFICATION Spec
CONSTANTS
    Editors = {e1, e2}
    Deployers = {d1}
    Values = {one, two}
    Starts <- MCStarts
    Skeleton <- MCSkeleton
    Absent = Absent
    Idle = Idle
    MaxLines = 2
SYMMETRY Symmetry
INVARIANTS
    TypeOK
    PairsMatch
PROPERTIES
    CopiesOthers
    WrittenStays
