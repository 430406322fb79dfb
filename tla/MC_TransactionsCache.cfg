CONSTANTS
    w1 = w1
    w2 = w2
    d1 = d1
    d2 = d2
    ta = ta
    tb = tb
    tc = tc
    Writers <- MCWriters
    Domains <- MCDomains
    Txs <- MCTxs
    Origin <- MCOrigin
    NonceOf <- MCNonceOf
SPECIFICATION Spec
SYMMETRY MCSymmetry
INVARIANTS
    NonceBacked
    
