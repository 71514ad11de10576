\* Two worker threads, two accounts, transfers and reversals.
CONSTANTS
    a = a
    b = b
    t1 = t1
    t2 = t2
    NoEntry = NoEntry
    Ids = {a, b}
    Threads = {t1, t2}
    I64Max = 2
    Amounts <- TwoAmounts
    InitialBalances <- Openings
    MaxRequests = 3
SPECIFICATION Spec
SYMMETRY Symmetry
INVARIANTS MoneyConserved AuditTrailComplete
\* The bound on requests ends every behaviour once the accounts are closed.
CHECK_DEADLOCK FALSE
