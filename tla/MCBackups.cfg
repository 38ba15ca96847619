SPECIFICATION Spec
CONSTANTS
    Procs = {p1, p2}
    Homes <- MCHomes
    Credentials = "credentials"
    Reachable = {"home", "credentials"}
    Detachable = {"home"}
    RunsInit = {"none", "foreign", "symlink"}
    Days = 2
    MaxDay = 3
    MaxRuns = 2
    NoRun = NoRun
    Idle = Idle
SYMMETRY Pids
INVARIANTS
    FirstRunsAgree
    Honest
    GreenWhole
    SomethingKept
