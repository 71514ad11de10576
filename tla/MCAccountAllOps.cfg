\* Two threads, all four operations: available funds, holds and draining.
CONSTANTS
    t1 = t1
    t2 = t2
    Threads = {t1, t2}
    Amounts <- SomeAmounts
    Ops <- Operations
    InitialBalance = 2
    I64Max = 3
SPECIFICATION FairSpec
INVARIANTS NeverOverdrawn HeldNonNegative
PROPERTY ClosedDrains
CHECK_DEADLOCK FALSE
