-------------------------- MODULE MC_StatusCache --------------------------
(* Two routers record the lifecycle of two transfers.                      *)
EXTENDS StatusCache, TLC

CONSTANTS w1, w2, ta, tb

MCWriters == {w1, w2}
MCTxs == {ta, tb}
MCSymmetry == Permutations(MCWriters) \cup Permutations(MCTxs)
=============================================================================
