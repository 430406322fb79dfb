------------------------- MODULE TransactionsCache -------------------------
(***************************************************************************)
(* TransactionsCache.storeTxData (adapters/cache), as several independent *)
(* router processes write the shared store.  The implementation is not    *)
(* part of this repository: it is modelled from the spec (sections 3, 4.1, *)
(* 5) and the contract its test (cache/test/lib/caches/transactions.spec.ts)*)
(* fixes.  storeStatus is in StatusCache: it shares no key with this.      *)
(*                                                                         *)
(*  - storeTxData([tx]) handles each transfer on its own: upsert the       *)
(*    payload (and the (domain, nonce) index); then, in one atomic         *)
(*    read-modify-write of the domain's key (section 5), raise its nonce   *)
(*    counter if tx.nonce is larger; after a raise, publish               *)
(*    NewHighestNonce.  Each is one store command and may fail             *)
(*    (TransientIOError): the transfer is reported failed and the writer   *)
(*    goes on with the next one.  A transfer that passes every step is     *)
(*    acknowledged.  The order payload-then-counter is not fixed by the    *)
(*    spec; it is the order NonceBacked needs, and this model assumes it.  *)
(*  - The NewPreparedTx and NewHighestNonce subscribers are not part of    *)
(*    this repository; the publishes are modelled only as store commands  *)
(*    that may fail, and the NewPreparedTx one as part of the upsert.      *)
(*  - getLatestNonce(d) is 0 for a domain never seen.                      *)
(***************************************************************************)
EXTENDS Naturals

CONSTANTS
    Writers,      \* router processes writing to the shared cache
    Domains,      \* origin domains
    Txs,          \* transfer ids
    Origin,       \* Origin[t]: origin domain of transfer t
    NonceOf       \* NonceOf[t]: nonce assigned to t by its origin domain

(* Nonces are positive and unique per origin domain.                       *)
ASSUME CacheAssumption ==
    /\ Writers # {}
    /\ Origin \in [Txs -> Domains]
    /\ NonceOf \in [Txs -> Nat \ {0}]
    /\ \A t1, t2 \in Txs :
          Origin[t1] = Origin[t2] /\ NonceOf[t1] = NonceOf[t2] => t1 = t2

VARIABLES
    stored,       \* cache: transfers whose payload is stored
    latestNonce,  \* cache: per-domain highest nonce
    wpc,          \* wpc[w]: idle, or the step of storeTxData w is in
    acked         \* transfers some storeTxData call reported written

vars == <<stored, latestNonce, wpc, acked>>

Idle == [step |-> "idle", tx |-> CHOOSE t \in Txs : TRUE]
WriterPcs == {Idle} \cup [step : {"payload", "nonce", "publish"}, tx : Txs]

TypeOK ==
    /\ stored \subseteq Txs
    /\ latestNonce \in [Domains -> Nat]
    /\ wpc \in [Writers -> WriterPcs]
    /\ acked \subseteq Txs

Init ==
    /\ stored = {}
    /\ latestNonce = [d \in Domains |-> 0]
    /\ wpc = [w \in Writers |-> Idle]
    /\ acked = {}

(* The writer's call for its transfer ends and is reported written.        *)
Ack(w) ==
    /\ wpc' = [wpc EXCEPT ![w] = Idle]
    /\ acked' = acked \cup {wpc[w].tx}

-----------------------------------------------------------------------------
(* Mutant: storeTxData goes straight to the counter, the payload upsert    *)
(* left out.                                                               *)
BeginTxDataSkipPayload(w, t) ==
    /\ wpc[w] = Idle
    /\ wpc' = [wpc EXCEPT ![w] = [step |-> "nonce", tx |-> t]]
    /\ UNCHANGED <<stored, latestNonce, acked>>

(* storeTxData([t]) begins for transfer t.                                 *)
BeginTxData(w, t) ==
    /\ wpc[w] = Idle
    /\ wpc' = [wpc EXCEPT ![w] = [step |-> "payload", tx |-> t]]
    /\ UNCHANGED <<stored, latestNonce, acked>>

(* Upsert the payload and the (domain, nonce) index.                       *)
WritePayload(w) ==
    LET t == wpc[w].tx IN
    /\ wpc[w].step = "payload"
    /\ stored' = stored \cup {t}
    /\ wpc' = [wpc EXCEPT ![w] = [step |-> "nonce", tx |-> t]]
    /\ UNCHANGED <<latestNonce, acked>>

(* Mutant: the counter set to tx.nonce without comparing (a blind SET).   *)
BumpNonceUnguarded(w) ==
    LET t == wpc[w].tx IN
    /\ wpc[w].step = "nonce"
    /\ latestNonce' = [latestNonce EXCEPT ![Origin[t]] = NonceOf[t]]
    /\ wpc' = [wpc EXCEPT ![w] = [step |-> "publish", tx |-> t]]
    /\ UNCHANGED <<stored, acked>>

(* Raise the origin domain's counter if tx.nonce exceeds it, and go on to  *)
(* publish; otherwise the call for this transfer is done.                  *)
BumpNonce(w) ==
    LET t == wpc[w].tx
        d == Origin[t]
    IN
    /\ wpc[w].step = "nonce"
    /\ IF NonceOf[t] > latestNonce[d]
          THEN /\ latestNonce' = [latestNonce EXCEPT ![d] = NonceOf[t]]
               /\ wpc' = [wpc EXCEPT ![w] = [step |-> "publish", tx |-> t]]
               /\ UNCHANGED acked
          ELSE /\ Ack(w)
               /\ UNCHANGED latestNonce
    /\ UNCHANGED stored

(* publish(NewHighestNonce, {domain, nonce}); the call is done.            *)
Publish(w) ==
    /\ wpc[w].step = "publish"
    /\ Ack(w)
    /\ UNCHANGED <<stored, latestNonce>>

(* A store command of the current step fails: the transfer is reported as  *)
(* failed and the writer goes on with the rest of its batch.               *)
StepFails(w) ==
    /\ wpc[w] # Idle
    /\ wpc' = [wpc EXCEPT ![w] = Idle]
    /\ UNCHANGED <<stored, latestNonce, acked>>

Next ==
    \/ \E w \in Writers, t \in Txs : BeginTxData(w, t)
    \/ \E w \in Writers :
          WritePayload(w) \/ BumpNonce(w) \/ Publish(w) \/ StepFails(w)

Spec == Init /\ [][Next]_vars

-----------------------------------------------------------------------------
(* Properties.                                                             *)

(* Nonce counter is backed by data: a domain's counter is 0 or the nonce   *)
(* of a transfer of that domain whose payload is stored, so               *)
(* getTxDataByDomainAndNonce(d, getLatestNonce(d)) never comes back absent *)
(* after a partial failure of storeTxData.                                 *)
NonceBacked ==
    \A d \in Domains :
        latestNonce[d] = 0
        \/ \E t \in stored : Origin[t] = d /\ NonceOf[t] = latestNonce[d]

(* The spec's storeTxData test (section 6), under concurrency: once a      *)
(* storeTxData call has reported transfer t written, getLatestNonce of its *)
(* origin is at least t's nonce, whatever other routers wrote before or    *)
(* after, in whatever order their counter updates landed.                  *)
AckedCovered ==
    \A t \in acked : latestNonce[Origin[t]] >= NonceOf[t]

=============================================================================
