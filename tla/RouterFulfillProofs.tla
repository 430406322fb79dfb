------------------------ MODULE RouterFulfillProofs ------------------------
(***************************************************************************)
(* Proofs about RouterFulfill, for every set of routers and transfers.     *)
(*                                                                         *)
(* ConflictIsGenuine is not inductive on its own: a step of router r on   *)
(* transfer t must know that routedTransactions names a router only once   *)
(* that router's execute has succeeded, and that an attempt holding "done" *)
(* is the one recorded.  IInv adds exactly those facts; the refinement    *)
(* proof rests on them too.                                                *)
(***************************************************************************)
EXTENDS RouterFulfill, TLAPS

(* A successful execute is recorded on chain under its router.            *)
DoneRecorded ==
    \A r \in Routers, t \in Transfers :
        pc[<<r, t>>] = "done" => routed[t] = r

(* The chain names a router only once that router's execute succeeded.     *)
RoutedByDone ==
    \A t \in Transfers :
        routed[t] # None => pc[<<routed[t], t>>] = "done"

(* A conflict was raised from a non-empty routedTransactions entry, which  *)
(* the contract never clears.                                              *)
ConflictSeenRouted ==
    \A r \in Routers, t \in Transfers :
        pc[<<r, t>>] = "conflict" => routed[t] # None

IInv == TypeOK /\ DoneRecorded /\ RoutedByDone /\ ConflictSeenRouted

-----------------------------------------------------------------------------
(* Every step keeps the variables in their types.                          *)
LEMMA TypeStep == TypeOK /\ [Next]_vars => TypeOK'
<1> SUFFICES ASSUME TypeOK, [Next]_vars PROVE TypeOK'
  OBVIOUS
<1>1. ASSUME NEW r \in Routers, NEW t \in Transfers, RouterStep(r, t)
      PROVE  TypeOK'
  BY <1>1 DEF RouterStep, Start, ReadReconciled, ReadRouted, ReadFailed,
              Retry, Submit, Move, TypeOK, Attempts, PcStates
<1>2. ASSUME NEW t \in Transfers, Reconcile(t) PROVE TypeOK'
  BY <1>2 DEF Reconcile, TypeOK
<1>3. CASE Terminated \/ UNCHANGED vars
  BY <1>3 DEF Terminated, vars, TypeOK
<1>4. QED
  BY <1>1, <1>2, <1>3 DEF Next

LEMMA TypeCorrect == Spec => []TypeOK
<1>1. Init => TypeOK
  BY DEF Init, TypeOK, Attempts, PcStates
<1>2. QED
  BY <1>1, TypeStep, PTL DEF Spec

(* A router step that moves only its own pc, away from and not into        *)
(* "done", and into "conflict" only when a router is recorded, keeps IInv. *)
(* Start, ReadReconciled, ReadRouted, ReadFailed and Retry are such steps. *)
LEMMA PcOnlyStep ==
  ASSUME IInv, TypeOK',
         NEW r \in Routers, NEW t \in Transfers, NEW to \in PcStates,
         pc[<<r, t>>] # "done", to # "done",
         to = "conflict" => routed[t] # None,
         pc' = [pc EXCEPT ![<<r, t>>] = to],
         routed' = routed
  PROVE  IInv'
<1> USE DEF IInv, TypeOK, Attempts
<1>1. DoneRecorded'
  BY DEF DoneRecorded
<1>2. RoutedByDone'
  <2> SUFFICES ASSUME NEW u \in Transfers, routed[u] # None
               PROVE  pc'[<<routed[u], u>>] = "done"
    BY DEF RoutedByDone
  <2>1. pc[<<routed[u], u>>] = "done"
    BY DEF RoutedByDone
  <2>2. <<routed[u], u>> # <<r, t>>
    BY <2>1
  <2>3. QED
    BY <2>1, <2>2
<1>3. ConflictSeenRouted'
  BY DEF ConflictSeenRouted
<1>4. QED
  BY <1>1, <1>2, <1>3

(* IInv holds in every reachable state: the core of the two theorems.      *)
THEOREM InvariantHolds == Spec => []IInv
<1>1. Init => IInv
  BY RoutersAssumption
     DEF Init, IInv, TypeOK, Attempts, PcStates, DoneRecorded, RoutedByDone,
         ConflictSeenRouted
<1>2. IInv /\ [Next]_vars => IInv'
  <2> SUFFICES ASSUME IInv, [Next]_vars PROVE IInv'
    OBVIOUS
  <2>0. TypeOK'
    BY TypeStep DEF IInv
  <2>1. ASSUME NEW r \in Routers, NEW t \in Transfers, Start(r, t)
        PROVE  IInv'
    BY <2>0, <2>1, PcOnlyStep DEF Start, Move, PcStates
  <2>2. ASSUME NEW r \in Routers, NEW t \in Transfers, ReadReconciled(r, t)
        PROVE  IInv'
    BY <2>0, <2>2, PcOnlyStep DEF ReadReconciled, Move, PcStates
  <2>3. ASSUME NEW r \in Routers, NEW t \in Transfers, ReadRouted(r, t)
        PROVE  IInv'
    BY <2>0, <2>3, PcOnlyStep DEF ReadRouted, Move, PcStates
  <2>4. ASSUME NEW r \in Routers, NEW t \in Transfers, ReadFailed(r, t)
        PROVE  IInv'
    BY <2>0, <2>4, PcOnlyStep DEF ReadFailed, PcStates
  <2>5. ASSUME NEW r \in Routers, NEW t \in Transfers, Retry(r, t)
        PROVE  IInv'
    BY <2>0, <2>5, PcOnlyStep DEF Retry, Move, PcStates
  <2>6. ASSUME NEW r \in Routers, NEW t \in Transfers, Submit(r, t)
        PROVE  IInv'
    <3> USE DEF IInv, TypeOK, Attempts
    <3>1. CASE routed[t] = None
      <4>1. /\ routed' = [routed EXCEPT ![t] = r]
            /\ pc' = [pc EXCEPT ![<<r, t>>] = "done"]
        BY <2>6, <3>1 DEF Submit
      <4>2. \A q \in Routers : pc[<<q, t>>] # "done"
        BY <3>1, RoutersAssumption DEF DoneRecorded
      <4>3. DoneRecorded'
        BY <4>1, <4>2 DEF DoneRecorded
      <4>4. RoutedByDone'
        BY <4>1, <3>1 DEF RoutedByDone
      <4>5. ConflictSeenRouted'
        BY <4>1, RoutersAssumption DEF ConflictSeenRouted
      <4>6. QED
        BY <2>0, <4>3, <4>4, <4>5
    <3>2. CASE routed[t] # None
      <4>1. /\ routed' = routed
            /\ pc' = [pc EXCEPT ![<<r, t>>] = "reverted"]
            /\ pc[<<r, t>>] = "passed"
        BY <2>6, <3>2 DEF Submit
      <4>2. QED
        BY <2>0, <4>1, PcOnlyStep DEF PcStates
    <3>3. QED
      BY <3>1, <3>2
  <2>7. ASSUME NEW t \in Transfers, Reconcile(t) PROVE IInv'
    BY <2>0, <2>7 DEF Reconcile, IInv, DoneRecorded, RoutedByDone,
       ConflictSeenRouted
  <2>8. CASE Terminated \/ UNCHANGED vars
    BY <2>0, <2>8 DEF Terminated, vars, IInv, DoneRecorded, RoutedByDone,
       ConflictSeenRouted
  <2>9. QED
    BY <2>1, <2>2, <2>3, <2>4, <2>5, <2>6, <2>7, <2>8 DEF Next, RouterStep
<1>3. QED
  BY <1>1, <1>2, PTL DEF Spec

(* sanitationCheck's conflict always names another router's fulfilment.    *)
THEOREM ConflictIsGenuineHolds == Spec => []ConflictIsGenuine
<1>1. IInv => ConflictIsGenuine
  BY DEF IInv, TypeOK, Attempts, RoutedByDone, ConflictSeenRouted,
         ConflictIsGenuine
<1>2. QED
  BY <1>1, InvariantHolds, PTL


-----------------------------------------------------------------------------
(* Refinement of FulfilOnce.                                               *)

(* Moving one attempt's pc changes the mapped outcome of that attempt only. *)
LEMMA OutcomeStep ==
  ASSUME NEW a \in Attempts, NEW to,
         pc \in [Attempts -> PcStates],
         pc' = [pc EXCEPT ![a] = to]
  PROVE  Outcome' = [Outcome EXCEPT ![a] = OutcomeOf(to)]
  BY DEF Outcome

(* A step that moves one pc within the same outcome and leaves             *)
(* routedTransactions alone is a stutter of FulfilOnce.                    *)
LEMMA SilentStep ==
  ASSUME TypeOK,
         NEW r \in Routers, NEW t \in Transfers, NEW to,
         pc' = [pc EXCEPT ![<<r, t>>] = to],
         OutcomeOf(to) = OutcomeOf(pc[<<r, t>>]),
         routed' = routed
  PROVE  UNCHANGED Abs!vars
<1>1. <<r, t>> \in Attempts
  BY DEF Attempts
<1>2. Outcome' = [Outcome EXCEPT ![<<r, t>>] = OutcomeOf(pc[<<r, t>>])]
  BY <1>1, OutcomeStep DEF TypeOK
<1>3. Outcome' = Outcome
  BY <1>1, <1>2 DEF Outcome
<1>4. QED
  BY <1>3 DEF Abs!vars

(* Attempt <<r, t>> has not yet ended, its pc is pending, and another      *)
(* router is recorded: FulfilOnce's Reject step.                           *)
LEMMA RejectStep ==
  ASSUME IInv,
         NEW r \in Routers, NEW t \in Transfers,
         pc[<<r, t>>] \in {"fastRead", "passed"},
         routed[t] # None,
         pc' = [pc EXCEPT ![<<r, t>>] = IF pc[<<r, t>>] = "fastRead"
                                          THEN "conflict" ELSE "reverted"],
         routed' = routed
  PROVE  Abs!Reject(r, t)
<1>1. <<r, t>> \in Attempts
  BY DEF Attempts
<1>2. Outcome[<<r, t>>] = "pending"
  BY <1>1 DEF Outcome, OutcomeOf
<1>3. routed[t] # r
  BY DEF IInv, RoutedByDone
<1>4. Outcome' = [Outcome EXCEPT ![<<r, t>>] = "rejected"]
  BY <1>1, OutcomeStep DEF IInv, TypeOK, OutcomeOf
<1>5. QED
  BY <1>2, <1>3, <1>4 DEF Abs!Reject

(* The router steps and the bridge map to Pay, Reject or a stutter.        *)
THEOREM Refinement == Spec => ImplementsFulfilOnce
<1>1. Init => Abs!Init
  BY DEF Init, Abs!Init, Outcome, OutcomeOf, Attempts
<1>2. IInv /\ [Next]_vars => [Abs!Next]_Abs!vars
  <2> SUFFICES ASSUME IInv, [Next]_vars PROVE [Abs!Next]_Abs!vars
    OBVIOUS
  <2>0. TypeOK
    BY DEF IInv
  <2>1. ASSUME NEW r \in Routers, NEW t \in Transfers, Start(r, t)
        PROVE  [Abs!Next]_Abs!vars
    BY <2>0, <2>1, SilentStep DEF Start, Move, OutcomeOf
  <2>2. ASSUME NEW r \in Routers, NEW t \in Transfers, ReadReconciled(r, t)
        PROVE  [Abs!Next]_Abs!vars
    BY <2>0, <2>2, SilentStep DEF ReadReconciled, Move, OutcomeOf
  <2>3. ASSUME NEW r \in Routers, NEW t \in Transfers, ReadRouted(r, t)
        PROVE  [Abs!Next]_Abs!vars
    <3>1. CASE routed[t] # None
      <4>1. Abs!Reject(r, t)
        BY <2>3, <3>1, RejectStep DEF ReadRouted, Move
      <4>2. QED
        BY <4>1 DEF Abs!Next
    <3>2. CASE routed[t] = None
      BY <2>0, <2>3, <3>2, SilentStep DEF ReadRouted, Move, OutcomeOf
    <3>3. QED
      BY <3>1, <3>2
  <2>4. ASSUME NEW r \in Routers, NEW t \in Transfers, ReadFailed(r, t)
        PROVE  [Abs!Next]_Abs!vars
    BY <2>0, <2>4, SilentStep DEF ReadFailed, OutcomeOf
  <2>5. ASSUME NEW r \in Routers, NEW t \in Transfers, Retry(r, t)
        PROVE  [Abs!Next]_Abs!vars
    BY <2>0, <2>5, SilentStep DEF Retry, Move, OutcomeOf
  <2>6. ASSUME NEW r \in Routers, NEW t \in Transfers, Submit(r, t)
        PROVE  [Abs!Next]_Abs!vars
    <3>1. CASE routed[t] = None
      <4>1. /\ routed' = [routed EXCEPT ![t] = r]
            /\ pc' = [pc EXCEPT ![<<r, t>>] = "done"]
            /\ pc[<<r, t>>] = "passed"
        BY <2>6, <3>1 DEF Submit
      <4>2. <<r, t>> \in Attempts
        BY DEF Attempts
      <4>3. Outcome[<<r, t>>] = "pending"
        BY <4>1, <4>2 DEF Outcome, OutcomeOf
      <4>4. Outcome' = [Outcome EXCEPT ![<<r, t>>] = "paid"]
        BY <2>0, <4>1, <4>2, OutcomeStep DEF TypeOK, OutcomeOf
      <4>5. Abs!Pay(r, t)
        BY <3>1, <4>1, <4>3, <4>4 DEF Abs!Pay
      <4>6. QED
        BY <4>5 DEF Abs!Next
    <3>2. CASE routed[t] # None
      <4>1. Abs!Reject(r, t)
        BY <2>6, <3>2, RejectStep DEF Submit
      <4>2. QED
        BY <4>1 DEF Abs!Next
    <3>3. QED
      BY <3>1, <3>2
  <2>7. ASSUME NEW t \in Transfers, Reconcile(t) PROVE [Abs!Next]_Abs!vars
    BY <2>7 DEF Reconcile, Abs!vars, Outcome
  <2>8. CASE Terminated \/ UNCHANGED vars
    BY <2>8 DEF Terminated, vars, Abs!vars, Outcome
  <2>9. QED
    BY <2>1, <2>2, <2>3, <2>4, <2>5, <2>6, <2>7, <2>8 DEF Next, RouterStep
<1>3. QED
  BY <1>1, <1>2, InvariantHolds, PTL DEF Spec, ImplementsFulfilOnce, Abs!Spec

=============================================================================
