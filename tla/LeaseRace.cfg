SPECIFICATION LeaseSpec
CONSTANTS
    Procs = {proc1, proc2, proc3}
    Attempts = 2
INVARIANTS
    LeaseIsExclusive
CHECK_DEADLOCK FALSE
