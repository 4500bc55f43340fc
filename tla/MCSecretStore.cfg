SPECIFICATION SecretSpec
CONSTANTS
    a1 = a1
    a2 = a2
    a3 = a3
    o1 = o1
    o2 = o2
    NoAttempt = NoAttempt
    Attempts = {a1, a2, a3}
    Operators = {o1, o2}
SYMMETRY MCSymmetry
INVARIANT ExchangesOnce
INVARIANT GrantsAreCurrent
PROPERTY RevokedIsFinal
CHECK_DEADLOCK FALSE
