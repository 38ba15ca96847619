SPECIFICATION Spec
CONSTANTS
    Names = {a, b}
    Contents = {"x", "y"}
    Channels = {c1, c2}
    Blank = Blank
    Spaces = Spaces
    HomeRef = HomeRef
    Rows <- MCRows
    NoRow = NoRow
    JobIds = {j1, j2, j3}
    NoJob = NoJob
SYMMETRY Symmetry
INVARIANTS
    TypeOK
    GreenMeansConverged
    NoSilentDrop
    PlanInv
PROPERTIES
    NoDuplicates
