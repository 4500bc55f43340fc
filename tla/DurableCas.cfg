SPECIFICATION DurableFairSpec
CONSTANTS
    Calls = {c1, c2}
    Hosts = {h1, h2}
INVARIANT DurableInv
PROPERTY ImplementsCas
PROPERTY RevocationFinal
PROPERTY TransactionsEnd
CHECK_DEADLOCK FALSE
