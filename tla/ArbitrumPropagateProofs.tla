--------------------- MODULE ArbitrumPropagateProofs ---------------------
(***************************************************************************)
(* Proofs about ArbitrumPropagate, for every set of gas prices, gas limit  *)
(* estimates and submission fee estimates the assumption allows.          *)
(*                                                                         *)
(* The properties speak of the returned result only; they hold because the *)
(* four `let` variables are consistent whenever the call reaches the       *)
(* encoding, by the try block or by the catch.  EncodeReady states that,   *)
(* and BidFetched that the gas price is a number once it was fetched.      *)
(***************************************************************************)
EXTENDS ArbitrumPropagate, TLAPS

(* After getGasPrice, the bid is a number.                                 *)
BidFetched ==
    pc \in {"baseFee", "estimate"} => gasPriceBid \in Nat

(* About to encode: the four values are numbers, the fee pays for the gas  *)
(* and submission they encode, and they are a full estimate or all zero.   *)
EncodeReady ==
    pc = "encode" =>
        /\ {submissionPriceWei, maxGas, gasPriceBid, callValue} \subseteq Nat
        /\ callValue = submissionPriceWei + gasPriceBid * maxGas
        /\ \/ submissionPriceWei = 0 /\ maxGas = 0 /\ gasPriceBid = 0
           \/ submissionPriceWei > 0 /\ maxGas > 0

IInv ==
    /\ TypeOK /\ BidFetched /\ EncodeReady
    /\ FeeMatchesEncoding /\ AllOrNothing

-----------------------------------------------------------------------------
(* A configuration lookup moves the pc or throws, and touches nothing else. *)
LEMMA LookupStep ==
  ASSUME IInv, NEW from, NEW to, NEW present, NEW err \in Errors,
         from \notin {"encode", "end"},
         to \in {"l1Rpc", "spoke", "hub", "gasPrice"},
         Lookup(from, to, present, err)
  PROVE  IInv'
<1>1. UNCHANGED <<config, submissionPriceWei, maxGas, gasPriceBid, callValue>>
  BY DEF Lookup
<1>2. CASE present
  <2>1. pc = from /\ pc' = to /\ result' = result
    BY <1>2 DEF Lookup
  <2>2. QED
    BY <1>1, <2>1 DEF IInv, TypeOK, BidFetched, EncodeReady, FeeMatchesEncoding, AllOrNothing, Returned
<1>3. CASE ~present
  <2>1. pc' = "end" /\ result' = [kind |-> "thrown", err |-> err]
    BY <1>3 DEF Lookup, Throw
  <2>2. QED
    BY <1>1, <2>1 DEF IInv, TypeOK, BidFetched, EncodeReady, FeeMatchesEncoding, AllOrNothing, Returned
<1>4. QED
  BY <1>2, <1>3

(* IInv holds in every reachable state.                                     *)
THEOREM InvariantHolds == Spec => []IInv
<1>1. Init => IInv
  BY DEF Init, IInv, TypeOK, BidFetched, EncodeReady,
     FeeMatchesEncoding,
     AllOrNothing, Returned
<1>2. IInv /\ [Next]_vars => IInv'
  <2> SUFFICES ASSUME IInv, [Next]_vars PROVE IInv'
    OBVIOUS
  <2> USE ArbitrumAssumption
  <2>1. CASE L2Provider \/ L1Provider \/ SpokeConnector \/ HubConnector
    BY <2>1, LookupStep DEF L2Provider, L1Provider, SpokeConnector,
       HubConnector, Errors
  <2>2. CASE GetGasPrice
    BY <2>2 DEF GetGasPrice, Goto, IInv, TypeOK, BidFetched, EncodeReady,
       FeeMatchesEncoding, AllOrNothing, Returned
  <2>3. CASE GetBaseFee
    BY <2>3 DEF GetBaseFee, Goto, IInv, TypeOK, BidFetched, EncodeReady,
       FeeMatchesEncoding, AllOrNothing, Returned
  <2>4. CASE EstimateAll
    <3>1. PICK gasLimit \in GasLimits, maxSubmissionFee \in SubmissionFees :
            /\ submissionPriceWei' = maxSubmissionFee * SubmissionFactor
            /\ maxGas' = gasLimit * AutoRedeemFactor
            /\ callValue' = maxSubmissionFee * SubmissionFactor
                            + gasPriceBid * (gasLimit * AutoRedeemFactor)
      BY <2>4 DEF EstimateAll
    <3>2. /\ pc = "estimate" /\ pc' = "encode"
          /\ UNCHANGED <<config, gasPriceBid, result>>
      BY <2>4 DEF EstimateAll, Goto
    <3>3. gasPriceBid \in Nat
      BY <3>2 DEF IInv, BidFetched
    <3>4. gasLimit \in Nat \ {0} /\ maxSubmissionFee \in Nat \ {0}
      OBVIOUS
    <3>5. EncodeReady'
      BY <3>1, <3>2, <3>3, <3>4 DEF EncodeReady, SubmissionFactor,
         AutoRedeemFactor
    <3>6. QED
      BY <3>1, <3>2, <3>3, <3>4, <3>5 DEF IInv, TypeOK, BidFetched,
                  FeeMatchesEncoding, AllOrNothing, Returned, SubmissionFactor,
         AutoRedeemFactor
  <2>5. CASE Catch
    BY <2>5 DEF Catch, IInv, TypeOK, BidFetched, EncodeReady,
       FeeMatchesEncoding, AllOrNothing, Returned
  <2>6. CASE Encode
    <3>1. /\ pc = "encode" /\ pc' = "end"
          /\ result' = [kind |-> "returned", fee |-> callValue,
                        data |-> <<submissionPriceWei, maxGas, gasPriceBid>>]
          /\ UNCHANGED <<config, submissionPriceWei, maxGas, gasPriceBid,
                         callValue>>
      BY <2>6 DEF Encode, Goto
    <3>2. /\ {submissionPriceWei, maxGas, gasPriceBid, callValue} \subseteq Nat
          /\ callValue = submissionPriceWei + gasPriceBid * maxGas
          /\ \/ submissionPriceWei = 0 /\ maxGas = 0 /\ gasPriceBid = 0
             \/ submissionPriceWei > 0 /\ maxGas > 0
      BY <3>1 DEF IInv, EncodeReady
    <3>3. TypeOK'
      BY <3>1, <3>2 DEF IInv, TypeOK, Params
    <3>4. FeeMatchesEncoding' /\ AllOrNothing'
      BY <3>1, <3>2 DEF FeeMatchesEncoding, AllOrNothing, Returned
    <3>5. QED
      BY <3>1, <3>3, <3>4 DEF IInv, BidFetched, EncodeReady
  <2>7. CASE Done \/ UNCHANGED vars
    BY <2>7 DEF Done, vars, IInv, TypeOK, BidFetched, EncodeReady,
       FeeMatchesEncoding, AllOrNothing, Returned
  <2>8. QED
    BY <2>1, <2>2, <2>3, <2>4, <2>5, <2>6, <2>7 DEF Next
<1>3. QED
  BY <1>1, <1>2, PTL DEF Spec

(* Every variable keeps its type, whichever lookup throws and whichever   *)
(* awaited call rejects: in particular no returned parameter is undefined. *)
THEOREM TypeCorrect == Spec => []TypeOK
<1>1. IInv => TypeOK
  BY DEF IInv
<1>2. QED
  BY <1>1, InvariantHolds, PTL

(* The returned fee always pays for the submission price and the gas the  *)
(* returned data encodes, estimate or catch alike.                         *)
THEOREM FeeMatchesEncodingHolds == Spec => []FeeMatchesEncoding
<1>1. IInv => FeeMatchesEncoding
  BY DEF IInv
<1>2. QED
  BY <1>1, InvariantHolds, PTL

(* The returned parameters are a full estimate or all zero, never a mix,   *)
(* whichever awaited call of the try block fails.                          *)
THEOREM AllOrNothingHolds == Spec => []AllOrNothing
<1>1. IInv => AllOrNothing
  BY DEF IInv
<1>2. QED
  BY <1>1, InvariantHolds, PTL

=============================================================================
