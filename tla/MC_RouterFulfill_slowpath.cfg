CONSTANTS
    r1 = r1
    r2 = r2
    r3 = r3
    t1 = t1
    t2 = t2
    None = None
    Routers <- MCRouters
    Transfers <- MCTransfers
SPECIFICATION Spec
SYMMETRY MCSymmetry
PROPERTIES
    PassOnlyIfUnrouted
