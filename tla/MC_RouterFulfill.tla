------------------------- MODULE MC_RouterFulfill -------------------------
(* Small instance of RouterFulfill for TLC.                                *)
EXTENDS RouterFulfill, TLC

CONSTANTS r1, r2, r3, t1, t2

MCRouters == {r1, r2, r3}
MCTransfers == {t1, t2}
MCSymmetry == Permutations(MCRouters) \cup Permutations(MCTransfers)
=============================================================================
