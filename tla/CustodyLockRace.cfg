SPECIFICATION Spec
CONSTANTS
    Procs = {p1, p2}
    Uids = {1}
    MaxOps = 4
    MaxEdits = 0
    AtomicLock = FALSE
INVARIANT MutationSerialised
CHECK_DEADLOCK FALSE
