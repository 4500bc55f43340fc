SPECIFICATION ProbeSpec
CONSTANTS
    Procs = {p1, p2}
    Uids = {1, 2}
    MaxOps = 4
    MaxEdits = 1
    AtomicLock = TRUE
    MaxUnits = 2
    Probers = {p1}
    Kinds = {"h2b", "h2d"}
INVARIANT VerifiedWasInstalled
INVARIANT RemainsAreRecoverable
INVARIANT ProbesAreSound
PROPERTY ForeignUntouched
PROPERTY ProcessesEnd
CHECK_DEADLOCK FALSE
