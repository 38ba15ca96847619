SPECIFICATION Spec
CONSTANTS
    Trees = {t1, t2, t3}
    Absent = Absent
    Partial = Partial
INVARIANTS
    TypeOK
    PreviousUnchanged
    SwapInv
PROPERTIES
    AtomicSwap
