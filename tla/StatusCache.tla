---------------------------- MODULE StatusCache ----------------------------
(***************************************************************************)
(* TransactionsCache.storeStatus (adapters/cache), as several independent  *)
(* router processes use it.  The implementation is not part of this        *)
(* repository: it is modelled from the spec (sections 3, 4.1, 5) and the   *)
(* contract its test (cache/test/lib/caches/transactions.spec.ts) fixes:   *)
(* storeStatus(id, s) writes s iff it differs from the stored status and   *)
(* reports whether it wrote; there is no regression check.                 *)
(*                                                                         *)
(* Writers learn lifecycle events (Prepared < Fulfilled < Reconciled) from *)
(* the chain, each in order but each at its own pace.                      *)
(***************************************************************************)
EXTENDS Naturals

CONSTANTS
    Writers,    \* router processes writing to the shared cache
    Txs         \* transfer ids

(* CrossChainTxStatus, ordered by the lifecycle; 0 is "absent".            *)
Absent == 0
Prepared == 1
Fulfilled == 2
Reconciled == 3
Statuses == Prepared..Reconciled

VARIABLES
    chainStatus,  \* lifecycle event the chain has reached for each transfer
    seen,         \* seen[w][t]: last event writer w has acted on
    status        \* cache: transfer status (Absent if never stored)

vars == <<chainStatus, seen, status>>

TypeOK ==
    /\ chainStatus \in [Txs -> Statuses]
    /\ seen \in [Writers -> [Txs -> Absent..Reconciled]]
    /\ status \in [Txs -> Absent..Reconciled]

Init ==
    /\ chainStatus = [t \in Txs |-> Prepared]
    /\ seen = [w \in Writers |-> [t \in Txs |-> Absent]]
    /\ status = [t \in Txs |-> Absent]

(* The chain moves a transfer to its next lifecycle event.                 *)
ChainAdvance(t) ==
    /\ chainStatus[t] < Reconciled
    /\ chainStatus' = [chainStatus EXCEPT ![t] = @ + 1]
    /\ UNCHANGED <<seen, status>>

(* Writer w acts on a later event s of t (forward-moving for w, as the     *)
(* spec asks of callers) with storeStatus(t, s): written iff it differs.   *)
StoreStatus(w, t) ==
    \E s \in (seen[w][t] + 1)..chainStatus[t] :
        /\ seen' = [seen EXCEPT ![w][t] = s]
        /\ status' = [status EXCEPT ![t] = s]
        /\ UNCHANGED chainStatus

(* Every event is eventually reached and acted on by every writer: runs    *)
(* end when all have acted on Reconciled.                                  *)
Settled ==
    /\ \A w \in Writers, t \in Txs : seen[w][t] = Reconciled
    /\ UNCHANGED vars

Next ==
    \/ \E t \in Txs : ChainAdvance(t)
    \/ \E w \in Writers, t \in Txs : StoreStatus(w, t)
    \/ Settled

Spec == Init /\ [][Next]_vars

-----------------------------------------------------------------------------
(* I1: the cached status of a transfer only moves forward, although each   *)
(* writer calls storeStatus with statuses that move forward for it.        *)
StatusMonotonic ==
    [][\A t \in Txs : status'[t] >= status[t]]_vars

=============================================================================
