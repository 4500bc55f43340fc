SPECIFICATION FairRunnerSpec
CONSTANTS
    p1 = p1
    p2 = p2
    specA = specA
    specB = specB
    N = 3
    RetrySafe = {2}
    MaxAttempts <- MCMaxAttempts
    HasVerifier = {1, 2}
    Unregistered <- MCUnregistered
    NoVerifier = {}
    Processes = {p1, p2}
    Nobody = Nobody
    Specs = {specA, specB}
    NoSpec = NoSpec
    MaxDecisions = 2
INVARIANT EffectsBounded
INVARIANT CompletedIsReal
PROPERTY RunEnds
CHECK_DEADLOCK FALSE
