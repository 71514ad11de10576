\* Three threads, everything but release_hold: the CAS loops are atomic.
CONSTANTS
    t1 = t1
    t2 = t2
    t3 = t3
    Threads = {t1, t2, t3}
    Amounts <- SomeAmounts
    Ops <- WithoutRelease
    InitialBalance = 2
    I64Max = 3
SPECIFICATION Spec
SYMMETRY ThreadSymmetry
INVARIANT NoHalfDoneOperation
PROPERTY ImplementsAtomicAccount
\* A closed account refuses every call.
CHECK_DEADLOCK FALSE
