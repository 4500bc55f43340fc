SPECIFICATION PrepSpec
CONSTANTS
    Cars = {c1, c2, c3, c4}
    ListedStart = 2
    Boundaries <- MCBoundaries
    Attested <- MCAttested
    MaxTime = 3
    N = 1
    RetrySafe = {}
    MaxAttempts <- MCMaxAttempts
    HasVerifier = {1}
    Unregistered <- MCUnregistered
    NoVerifier = {}
    Processes = {p1, p2}
    Nobody = Nobody
    Specs = {}
    NoSpec = NoSpec
    MaxDecisions = 0
    Split <- MCSplit
    MaxEdits = 1
SYMMETRY Sym
INVARIANT PreparedOnce
INVARIANT RecordedIsExact
INVARIANT PartitionedIsTrue
PROPERTY TiedOutcomesExact
CHECK_DEADLOCK FALSE
