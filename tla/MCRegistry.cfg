SPECIFICATION Spec
CONSTANTS
    Names = {"a", "b", "c"}
    Repos = {"plain", "taken"}
    NoRepo = NoRepo
    Dirs = {"a", "b", "c"}
    HomeDir <- MCHomeDir
    Writers = {w1}
    Procs = {p1, p2}
    NoEdit = NoEdit
    NoCommand = NoCommand
INVARIANTS
    Exclusive
    RowsStay
PROPERTIES
    RowsChangeSingly
    NewIsNew
