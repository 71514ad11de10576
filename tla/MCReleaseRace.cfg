\* Two threads: a release_hold while a debit or a credit is half done.
CONSTANTS
    t1 = t1
    t2 = t2
    Threads = {t1, t2}
    Amounts <- SomeAmounts
    Ops <- Operations
    InitialBalance = 2
    I64Max = 3
SPECIFICATION Spec
SYMMETRY ThreadSymmetry
INVARIANT AvailableWithinBalance
CHECK_DEADLOCK FALSE
