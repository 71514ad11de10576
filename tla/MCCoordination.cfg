\* Two failures trip the circuit; a refused message is offered twice.
CONSTANTS
    s1 = s1
    t1 = t1
    t2 = t2
    t3 = t3
    x1 = x1
    x2 = x2
    alice = alice
    bob = bob
    nobody = nobody
    Sagas = {s1}
    Steps <- MCSteps
    MaxRetries = 2
    MaxCrashes = 2
    Handlers = {t1, t2}
    Transfers = {x1, x2}
    From <- MCFrom
    To <- MCTo
    Amount <- MCAmount
    Seeds <- MCSeeds
    MaxDeliveries = 4
    Threads = {t1, t2, t3}
    Threshold = 2
SPECIFICATION FairSpec
INVARIANTS StepsInOrder AllOrNothing OpenHasCause
           MoneyConserved CompletedMeansCredited ViewIsNewest
PROPERTIES SagaEnds OpenRecovers
\* A saga that has ended, and a service without events, does nothing more.
CHECK_DEADLOCK FALSE
