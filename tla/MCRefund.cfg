\* One thread: the event is only delivered twice.
CONSTANTS
    t1 = t1
    x1 = x1
    alice = alice
    nobody = nobody
    Handlers = {t1}
    Transfers = {x1}
    From <- MCFrom
    To <- MCTo
    Amount <- MCAmount
    Seeds <- MCSeeds
    MaxDeliveries = 3
SPECIFICATION ChoreoSpec
INVARIANT RefundedOnce
CHECK_DEADLOCK FALSE
