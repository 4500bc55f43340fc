SPECIFICATION CredentialSpec
CONSTANTS
    Requests = {r1, r2, r3}
    MinimumTtl = 2
    GrantTtls = {1, 3}
    MaxTime = 4
SYMMETRY RequestSymmetry
INVARIANT RefreshesOnce
INVARIANT SnapshotsSound
PROPERTY RevokeWins
CHECK_DEADLOCK FALSE
