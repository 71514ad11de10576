\* A leg that fails after another one was applied.
CONSTANTS
    a = a
    b = b
    ghost = ghost
    t1 = t1
    t2 = t2
    x1 = x1
    x2 = x2
    NoTxn = NoTxn
    Ids = {a, b, ghost}
    Threads = {t1, t2}
    Txns = {x1, x2}
    I64Max = 3
    MaxSequence = 3
    Opening <- OpeningBalances
    LegLists <- SomeLegLists
SPECIFICATION Spec
SYMMETRY Symmetry
INVARIANT EntriesAtomic
\* The bound on the journal ends every behaviour.
CHECK_DEADLOCK FALSE
