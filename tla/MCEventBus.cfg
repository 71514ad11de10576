CONSTANTS
    t1 = t1
    t2 = t2
    k1 = k1
    k2 = k2
    c1 = c1
    Threads = {t1, t2}
    Keys = {k1, k2}
    Hash <- MCHash
    NumPartitions = 2
    Consumers = {c1}
    MaxEntries = 1
    MaxSeq = 1
    MaxCalls = 5
SPECIFICATION Spec
SYMMETRY Symmetry
INVARIANTS ExactlyOnce TransactionsWhole NothingSkipped HandledOnce
CHECK_DEADLOCK FALSE
