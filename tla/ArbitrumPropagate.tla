------------------------- MODULE ArbitrumPropagate -------------------------
(***************************************************************************)
(* getPropagateParams (lighthouse/src/tasks/propagate/helpers/arbitrum.ts):*)
(* the parameters of the L1->L2 retryable message that carries a propagated*)
(* root to Arbitrum.  One call is modelled, step by step, from its         *)
(* configuration lookups (which throw) through the try block whose awaited *)
(* RPC calls may reject (the catch zeroes every parameter) to the encoded  *)
(* result.                                                                 *)
(*                                                                         *)
(* The environment (which providers and connectors are configured, and the *)
(* RPC answers) is chosen nondeterministically from small sets.            *)
(***************************************************************************)
EXTENDS Naturals

CONSTANTS
    GasPrices,       \* answers of chainreader.getGasPrice (wei)
    GasLimits,       \* gasLimit estimates of estimateAll
    SubmissionFees,  \* maxSubmissionFee estimates of estimateAll
    Undef            \* a `let` variable never assigned

ASSUME ArbitrumAssumption ==
    /\ GasPrices \subseteq Nat
    /\ GasLimits \subseteq Nat \ {0}        \* estimates for a non-empty call
    /\ SubmissionFees \subseteq Nat \ {0}
    /\ Undef \notin Nat

(* Multipliers of the code: gasLimit * 15 for auto-redeem, fee * 10.       *)
AutoRedeemFactor == 15
SubmissionFactor == 10

VARIABLES
    config,             \* which providers/connectors are configured
    pc,                 \* next step of the call
    submissionPriceWei,
    maxGas,
    gasPriceBid,
    callValue,
    result              \* running, thrown (with the error) or returned (the params)

vars == <<config, pc, submissionPriceWei, maxGas, gasPriceBid, callValue, result>>

Config == [l2Rpc : BOOLEAN, l1Rpc : BOOLEAN, spoke : BOOLEAN, hub : BOOLEAN]

Errors == {"NoProviderForDomain", "NoSpokeConnector", "NoHubConnector"}

Params == [kind : {"returned"}, fee : Nat, data : Nat \X Nat \X Nat]

TypeOK ==
    /\ config \in Config
    /\ pc \in {"l2Rpc", "l1Rpc", "spoke", "hub", "gasPrice", "baseFee",
               "estimate", "encode", "end"}
    /\ {submissionPriceWei, maxGas, gasPriceBid, callValue} \subseteq Nat \cup {Undef}
    /\ result \in {[kind |-> "running"]} \cup [kind : {"thrown"}, err : Errors]
                   \cup Params

Init ==
    /\ config \in Config
    /\ pc = "l2Rpc"
    /\ submissionPriceWei = Undef /\ maxGas = Undef
    /\ gasPriceBid = Undef /\ callValue = Undef
    /\ result = [kind |-> "running"]

Goto(from, to) ==
    /\ pc = from
    /\ pc' = to

Throw(err) ==
    /\ pc' = "end"
    /\ result' = [kind |-> "thrown", err |-> err]

(* A configuration lookup: continue when it is configured, else throw.     *)
Lookup(from, to, present, err) ==
    /\ pc = from
    /\ IF present THEN pc' = to /\ UNCHANGED result ELSE Throw(err)
    /\ UNCHANGED <<config, submissionPriceWei, maxGas, gasPriceBid, callValue>>

(* getBestProvider for the L2 domain, then for the hub (L1) domain.        *)
L2Provider == Lookup("l2Rpc", "l1Rpc", config.l2Rpc, "NoProviderForDomain")
L1Provider == Lookup("l1Rpc", "spoke", config.l1Rpc, "NoProviderForDomain")
(* deployments.spokeConnector / hubConnector for "Arbitrum".               *)
SpokeConnector == Lookup("spoke", "hub", config.spoke, "NoSpokeConnector")
HubConnector == Lookup("hub", "gasPrice", config.hub, "NoHubConnector")

(* Inside try: providers, estimator, then chainreader.getGasPrice.         *)
GetGasPrice ==
    /\ Goto("gasPrice", "baseFee")
    /\ gasPriceBid' \in GasPrices
    /\ UNCHANGED <<config, submissionPriceWei, maxGas, callValue, result>>

(* Inside try: getBaseFee(l1Provider), interface, calldata encoding.       *)
GetBaseFee ==
    /\ Goto("baseFee", "estimate")
    /\ UNCHANGED <<config, submissionPriceWei, maxGas, gasPriceBid, callValue, result>>

(* Mutant: callValue computed from the raw gasLimit, not the x15 one.     *)
EstimateAllRawGasLimit ==
    /\ Goto("estimate", "encode")
    /\ \E gasLimit \in GasLimits, maxSubmissionFee \in SubmissionFees :
          /\ submissionPriceWei' = maxSubmissionFee * SubmissionFactor
          /\ maxGas' = gasLimit * AutoRedeemFactor
          /\ callValue' = maxSubmissionFee * SubmissionFactor + gasPriceBid * gasLimit
    /\ UNCHANGED <<config, gasPriceBid, result>>

(* Inside try: estimateAll, then the three derived parameters.             *)
EstimateAll ==
    /\ Goto("estimate", "encode")
    /\ \E gasLimit \in GasLimits, maxSubmissionFee \in SubmissionFees :
          LET gasLimitForAutoRedeem == gasLimit * AutoRedeemFactor
              submission == maxSubmissionFee * SubmissionFactor
          IN /\ submissionPriceWei' = submission
             /\ maxGas' = gasLimitForAutoRedeem
             /\ callValue' = submission + gasPriceBid * gasLimitForAutoRedeem
    /\ UNCHANGED <<config, gasPriceBid, result>>

(* Mutant: the catch keeps a gas price already fetched (gasPriceBid ?? 0). *)
CatchKeepsGasPrice ==
    /\ pc \in {"gasPrice", "baseFee", "estimate"}
    /\ pc' = "encode"
    /\ submissionPriceWei' = 0 /\ maxGas' = 0 /\ callValue' = 0
    /\ gasPriceBid' = IF gasPriceBid = Undef THEN 0 ELSE gasPriceBid
    /\ UNCHANGED <<config, result>>

(* Mutant: the catch block forgets to reset callValue.                     *)
CatchKeepsCallValue ==
    /\ pc \in {"gasPrice", "baseFee", "estimate"}
    /\ pc' = "encode"
    /\ submissionPriceWei' = 0 /\ maxGas' = 0 /\ gasPriceBid' = 0
    /\ UNCHANGED <<config, result, callValue>>

(* An awaited call in the try block rejects: catch sets all four to "0".   *)
Catch ==
    /\ pc \in {"gasPrice", "baseFee", "estimate"}
    /\ pc' = "encode"
    /\ submissionPriceWei' = 0 /\ maxGas' = 0
    /\ gasPriceBid' = 0 /\ callValue' = 0
    /\ UNCHANGED <<config, result>>

(* defaultAbiCoder.encode(uint256 x3) and the returned object.             *)
Encode ==
    /\ Goto("encode", "end")
    /\ result' = [kind |-> "returned", fee |-> callValue,
                  data |-> <<submissionPriceWei, maxGas, gasPriceBid>>]
    /\ UNCHANGED <<config, submissionPriceWei, maxGas, gasPriceBid, callValue>>

(* The call has returned or thrown.                                        *)
Done ==
    /\ pc = "end"
    /\ UNCHANGED vars

Next ==
    \/ L2Provider \/ L1Provider \/ SpokeConnector \/ HubConnector
    \/ GetGasPrice \/ GetBaseFee \/ EstimateAll \/ Catch
    \/ Encode \/ Done

Spec == Init /\ [][Next]_vars

-----------------------------------------------------------------------------
(* Properties.                                                             *)

Returned == result.kind = "returned"

(* The returned _fee is what the encoded parameters pay for:               *)
(* submission price + gas price bid * max gas.                             *)
FeeMatchesEncoding ==
    Returned =>
        result.fee = result.data[1] + result.data[3] * result.data[2]

(* Whatever step of the try block fails, the returned parameters are a     *)
(* complete estimate or all zero, never a mix of both.                     *)
AllOrNothing ==
    Returned =>
        \/ \A i \in 1..3 : result.data[i] = 0
        \/ result.data[1] > 0 /\ result.data[2] > 0

(* The spec (section 7): transient RPC failures are retryable errors for   *)
(* the caller.  Stated as: when the call returns, it returns a funded      *)
(* message (a positive submission price and gas).                          *)
ReturnsFundedMessage ==
    Returned => result.data[1] > 0 /\ result.data[2] > 0

=============================================================================
