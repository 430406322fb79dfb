CONSTANTS
    r1 = r1
    r2 = r2
    r3 = r3
    t1 = t1
    t2 = t2
    None = None
    Routers = {r1, r2, r3}
    Transfers = {t1}
SPECIFICATION FairSpec
PROPERTIES
    EveryTransferFulfilled
