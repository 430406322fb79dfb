----------------------- MODULE MC_TransactionsCache -----------------------
(* Two routers share the cache; domain d1 sees three transfers whose      *)
(* nonces can be written in any order, each by either router and more     *)
(* than once; d2 is never written (its counter stays 0).                   *)
EXTENDS TransactionsCache, TLC

CONSTANTS w1, w2, d1, d2, ta, tb, tc

MCWriters == {w1, w2}
MCDomains == {d1, d2}
MCTxs == {ta, tb, tc}
MCOrigin == (ta :> d1 @@ tb :> d1 @@ tc :> d1)
MCNonceOf == (ta :> 1 @@ tb :> 2 @@ tc :> 3)
MCSymmetry == Permutations(MCWriters)
=============================================================================
