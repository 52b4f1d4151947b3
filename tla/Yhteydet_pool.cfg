\* Three transactions over two connections, a queue of two, one retry.
CONSTANTS
    toteutus = toteutus
    koulutus = koulutus
    haku = haku
    Transactions = {toteutus, koulutus, haku}
    Inner <- MCInner
    Connections = 2
    QueueSize = 2
    Retries = 1
SPECIFICATION Spec
INVARIANTS TypeOK StuckOnlyWhenNested
PROPERTIES EveryTransactionEnds LeftoversGo
CHECK_DEADLOCK FALSE
