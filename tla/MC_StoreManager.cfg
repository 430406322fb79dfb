CONSTANTS
    p1 = p1
    p2 = p2
    c1 = c1
    c2 = c2
    c3 = c3
    u1 = u1
    u2 = u2
    NoUrl = NoUrl
    None = None
    Processes <- MCProcesses
    Callers <- MCCallers
    Urls <- MCUrls
SPECIFICATION Spec
SYMMETRY MCSymmetry
INVARIANTS
    OneStorePerProcess
