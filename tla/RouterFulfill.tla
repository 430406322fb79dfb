--------------------------- MODULE RouterFulfill ---------------------------
(***************************************************************************)
(* Routers racing to fulfil the same cross-chain transfers on the          *)
(* destination domain.                                                     *)
(*                                                                         *)
(* Each router, before it submits `execute` for a transfer, runs           *)
(* sanitationCheck(tx, "fulfill") (router/src/lib/helpers/shared.ts).      *)
(* The check makes two separate chain reads through txservice.readTx:      *)
(* reconciledTransactions[id] and, on the fast path only,                  *)
(* routedTransactions[id].router.  Nothing is locked between the reads     *)
(* and the submission, so other routers and the bridge act in between.     *)
(*                                                                         *)
(* The destination contract (Connext.sol, not part of this repository) is  *)
(* modelled from the spec: reconciledTransactions is set when the bridge   *)
(* message arrives, and `execute` is the serialization point: it records   *)
(* the router in routedTransactions and reverts if one is recorded.        *)
(***************************************************************************)
EXTENDS Naturals

CONSTANTS
    Routers,    \* router processes (independent, no shared lock)
    Transfers,  \* transfer ids prepared on the origin domain
    None        \* constants.AddressZero: no router recorded

ASSUME RoutersAssumption == Routers # {} /\ None \notin Routers

VARIABLES
    reconciled, \* chain: reconciledTransactions[id] # HashZero
    routed,     \* chain: routedTransactions[id].router
    pc          \* pc[<<r, t>>]: where router r is in fulfilling t

vars == <<reconciled, routed, pc>>

Attempts == Routers \X Transfers

(* Where a router's fulfil attempt can be.                                 *)
(*  "idle"      not started                                                *)
(*  "check"     sanitationCheck: about to read reconciledTransactions      *)
(*  "fastRead"  isFast held: about to read routedTransactions              *)
(*  "passed"    sanitationCheck resolved: execute is submitted next        *)
(*  "conflict"  sanitationCheck threw SanitationCheckFailed (final)        *)
(*  "failed"    a read or getChainIdFromDomain rejected (retryable)        *)
(*  "done"      execute succeeded on chain (final)                         *)
(*  "reverted"  execute reverted on chain (final)                          *)
PcStates == {"idle", "check", "fastRead", "passed", "conflict",
             "failed", "done", "reverted"}

Final == {"conflict", "done", "reverted"}

TypeOK ==
    /\ reconciled \in [Transfers -> BOOLEAN]
    /\ routed \in [Transfers -> Routers \cup {None}]
    /\ pc \in [Attempts -> PcStates]

Init ==
    /\ reconciled = [t \in Transfers |-> FALSE]
    /\ routed = [t \in Transfers |-> None]
    /\ pc = [a \in Attempts |-> "idle"]

Move(r, t, from, to) ==
    /\ pc[<<r, t>>] = from
    /\ pc' = [pc EXCEPT ![<<r, t>>] = to]

-----------------------------------------------------------------------------
(* Router side.                                                            *)

(* The router decides to fulfil t and calls sanitationCheck(tx, "fulfill").*)
Start(r, t) ==
    /\ Move(r, t, "idle", "check")
    /\ UNCHANGED <<reconciled, routed>>

(* getChainIdFromDomain, then readTx(reconciledTransactions(id)).          *)
(* isFast = (result == HashZero).  On the slow path the else-branch is     *)
(* empty, so the check returns without reading routedTransactions.         *)
ReadReconciled(r, t) ==
    /\ Move(r, t, "check", IF reconciled[t] THEN "passed" ELSE "fastRead")
    /\ UNCHANGED <<reconciled, routed>>

(* Mutant: the comparison with AddressZero inverted (== for !=).          *)
ReadRoutedInverted(r, t) ==
    /\ Move(r, t, "fastRead",
            IF routed[t] = None THEN "conflict" ELSE "passed")
    /\ UNCHANGED <<reconciled, routed>>

(* readTx(routedTransactions(id)), decoded; throws SanitationCheckFailed   *)
(* when the recorded router is not AddressZero.                            *)
ReadRouted(r, t) ==
    /\ Move(r, t, "fastRead",
            IF routed[t] # None THEN "conflict" ELSE "passed")
    /\ UNCHANGED <<reconciled, routed>>

(* Mutant: a rejected read reported as SanitationCheckFailed, as if the   *)
(* chain had shown the transfer fulfilled.                                *)
ReadFailedAsConflict(r, t) ==
    /\ pc[<<r, t>>] \in {"check", "fastRead"}
    /\ pc' = [pc EXCEPT ![<<r, t>>] = "conflict"]
    /\ UNCHANGED <<reconciled, routed>>

(* Either awaited read (or the domain lookup) rejects: the error leaves    *)
(* sanitationCheck uncaught.                                               *)
ReadFailed(r, t) ==
    /\ pc[<<r, t>>] \in {"check", "fastRead"}
    /\ pc' = [pc EXCEPT ![<<r, t>>] = "failed"]
    /\ UNCHANGED <<reconciled, routed>>

(* The caller treats the rejection as transient and calls the check again. *)
Retry(r, t) ==
    /\ Move(r, t, "failed", "check")
    /\ UNCHANGED <<reconciled, routed>>

(* The router submits execute; the contract accepts it only while no       *)
(* router is recorded for the transfer.                                    *)
Submit(r, t) ==
    /\ pc[<<r, t>>] = "passed"
    /\ IF routed[t] = None
          THEN /\ routed' = [routed EXCEPT ![t] = r]
               /\ pc' = [pc EXCEPT ![<<r, t>>] = "done"]
          ELSE /\ pc' = [pc EXCEPT ![<<r, t>>] = "reverted"]
               /\ UNCHANGED routed
    /\ UNCHANGED reconciled

-----------------------------------------------------------------------------
(* Chain side: the bridge message for t is handled on the destination,     *)
(* which records the reconciliation.                                       *)
Reconcile(t) ==
    /\ ~reconciled[t]
    /\ reconciled' = [reconciled EXCEPT ![t] = TRUE]
    /\ UNCHANGED <<routed, pc>>

RouterStep(r, t) ==
    \/ Start(r, t)
    \/ ReadReconciled(r, t)
    \/ ReadRouted(r, t)
    \/ ReadFailed(r, t)
    \/ Retry(r, t)
    \/ Submit(r, t)

(* Every attempt that is not final can still move, and the bridge may      *)
(* never deliver: runs end when all attempts are final.                    *)
Terminated ==
    /\ \A a \in Attempts : pc[a] \in Final
    /\ UNCHANGED vars

Next ==
    \/ \E r \in Routers, t \in Transfers : RouterStep(r, t)
    \/ \E t \in Transfers : Reconcile(t)
    \/ Terminated

(* Routers keep working on what they started (weak fairness); an RPC read  *)
(* that is retried forever eventually succeeds (strong fairness on the     *)
(* successful reads).  The bridge gets no fairness: fast liquidity must    *)
(* not depend on reconciliation.                                           *)
Fairness ==
    \A r \in Routers, t \in Transfers :
        /\ WF_vars(Start(r, t))
        /\ WF_vars(Retry(r, t))
        /\ WF_vars(Submit(r, t))
        /\ SF_vars(ReadReconciled(r, t))
        /\ SF_vars(ReadRouted(r, t))

Spec == Init /\ [][Next]_vars
FairSpec == Spec /\ Fairness

-----------------------------------------------------------------------------
(* Properties.                                                             *)

(* sanitationCheck raises a conflict only when another router really has   *)
(* fulfilled the transfer on chain (never a spurious conflict that would   *)
(* make a router drop a transfer nobody serves).                           *)
ConflictIsGenuine ==
    \A r \in Routers, t \in Transfers :
        pc[<<r, t>>] = "conflict" => routed[t] \notin {None, r}

(* Every transfer is eventually fulfilled by some router even if the       *)
(* bridge never reconciles it (the fast-liquidity path).                   *)
EveryTransferFulfilled ==
    \A t \in Transfers : <>(routed[t] # None)

(* The spec (section 7): a conflict is raised whenever the chain shows the *)
(* action already satisfied by another actor.  Stated as a step property: *)
(* sanitationCheck lets a fulfil through only while routedTransactions     *)
(* records no router.  The code's slow-path branch is empty, so it lets a  *)
(* fulfil through once the transfer is reconciled, even when another      *)
(* router has already executed it.                                         *)
PassOnlyIfUnrouted ==
    [][\A r \in Routers, t \in Transfers :
          (pc[<<r, t>>] \in {"check", "fastRead"} /\ pc'[<<r, t>>] = "passed")
              => routed[t] = None]_vars

-----------------------------------------------------------------------------
(* Refinement.  An attempt is paid once its execute succeeded, rejected    *)
(* once the check threw a conflict or execute reverted, pending otherwise; *)
(* routedTransactions is who was paid.                                     *)
OutcomeOf(s) ==
    CASE s = "done" -> "paid"
      [] s \in {"conflict", "reverted"} -> "rejected"
      [] OTHER -> "pending"

Outcome == [a \in Attempts |-> OutcomeOf(pc[a])]

Abs == INSTANCE FulfilOnce WITH paidBy <- routed, outcome <- Outcome

(* The check, its RPC failures and retries, and execute together implement *)
(* FulfilOnce: a transfer is paid at most once, every attempt ends once,   *)
(* and an attempt is given up (conflict or revert) only after another      *)
(* router was paid, never because a chain read failed.                     *)
ImplementsFulfilOnce == Abs!Spec

=============================================================================
