CONSTANTS
    t1 = t1
    t2 = t2
    a1 = a1
    a2 = a2
    open = open
    trade = trade
    big = big
    b1 = b1
    b2 = b2
    Threads = {t1, t2}
    Ids = {a1, a2}
    Initial = 1
    SaveLast = 1
    MaxRequests = 3
    MaxStarts = 2
    GenesisData = GenesisData
    Redacted = Redacted
    Note = Note
    NoThread = NoThread
    Commands = {open, trade, big}
    Produces <- MCProduces
    Accounts = {b1, b2}
    MaxCents = 5
    MaxRuns = 4
    MaxBoots = 3
SPECIFICATION StorageSpec
SYMMETRY Symmetry
INVARIANTS StoreCatchesUp StoredPrefix AlarmsExplained TamperingDetected
           LossBounded OneRunPerCommand ModelAddsUp
CHECK_DEADLOCK FALSE
