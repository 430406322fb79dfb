------------------------- MODULE MC_StoreManager -------------------------
(* Two processes, three callers each, two configured urls.                 *)
EXTENDS StoreManager, TLC

CONSTANTS p1, p2, c1, c2, c3, u1, u2

MCProcesses == {p1, p2}
MCCallers == {c1, c2, c3}
MCUrls == {u1, u2}
MCSymmetry == Permutations(MCProcesses) \cup Permutations(MCCallers)
=============================================================================
