CONSTANTS
    w1 = w1
    w2 = w2
    ta = ta
    tb = tb
    Writers <- MCWriters
    Txs <- MCTxs
SPECIFICATION Spec
SYMMETRY MCSymmetry
PROPERTIES
    StatusMonotonic
