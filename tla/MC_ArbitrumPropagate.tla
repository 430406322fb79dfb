----------------------- MODULE MC_ArbitrumPropagate -----------------------
(* Every configuration, a few answers for each RPC estimate, a zero gas price included.                *)
EXTENDS ArbitrumPropagate, TLC

MCGasPrices == {0, 1, 2, 3}
MCGasLimits == {1, 2, 3}
MCSubmissionFees == {1, 2}
=============================================================================
