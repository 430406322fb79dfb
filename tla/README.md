# Formal models of the nxtp router, cache and lighthouse

TLA+ models of the parts of this repository (`src/packages`) that have state
and concurrency. They come with TLC runs on small instances, a refinement of
the router's check to an abstract "paid at most once" specification, and
TLAPS proofs of every safety property and the refinement the passing runs
check. `PROJECT.json` lists the components,
the runs, the map from every definition to the source lines it translates,
the findings and the hazards.

## The system and its parts

* **Router sanitation check** (`agents/router/src/lib/helpers/shared.ts`,
  `sanitationCheck`). Before a router submits `execute` (fulfil) on the
  destination domain, it reads two values from the chain in separate RPC calls:
  - `reconciledTransactions[id]` (slow path, set when the bridge message
    lands);
  - on the fast path only, `routedTransactions[id].router`.

  It throws `SanitationCheckFailed` when a router is already recorded.
  Nothing is locked between the reads and the submission, and many routers
  run the check at the same time. The destination contract's `execute` is the
  real serialisation point. That contract is not in this repository; it is
  modelled from the spec.
* **Store manager** (`adapters/cache/src/index.ts`). This is the per-process
  singleton that builds the transactions, auctions and consumers caches from
  the first caller's params.
* **Transactions cache** (implementation not in this repository; modelled
  from spec §3-§5 and `adapters/cache/test/lib/caches/transactions.spec.ts`):
  - `storeStatus`;
  - `storeTxData`, which upserts the payload, raises the per-domain nonce
    counter in one atomic read-modify-write of the domain's key (spec §5),
    and publishes `NewHighestNonce` after a raise.

  Several router processes write it at once. The subscribers of the
  notification channels are not in this repository (the test's handler only
  logs), so the publishes are modelled only as store commands that may fail.
* **Lighthouse Arbitrum propagate** (`agents/lighthouse/.../arbitrum.ts`,
  `getPropagateParams`). It builds the L1→L2 retryable message parameters:
  - four configuration lookups that throw;
  - a try block of awaited RPC calls, whose catch zeroes every parameter;
  - the fee arithmetic and the ABI-encoded result.

How they interact: routers read the chain through `txservice` and write
what they learn to the shared cache. Their fulfilments race on the
destination contract. The lighthouse is independent of routers; it sends
roots from spoke to hub.

## Modules

| module | models | state ↔ code |
|---|---|---|
| `RouterFulfill` | sanitationCheck("fulfill") of every (router, transfer) attempt and the contract around it | `reconciled`, `routed` = the contract's mappings. `pc[<<r,t>>]` = where attempt r,t is: idle, check, fastRead, passed, conflict, failed, done, reverted. `ReadReconciled`, `ReadRouted` and `ReadFailed` are the two `readTx` awaits and their rejection. `Submit` is `execute` with its guard (spec-modelled). `Reconcile` is the bridge (spec-modelled). |
| `FulfilOnce` | the abstract promise of the check and the contract | `paidBy[t]` is the one router that paid t. `outcome[<<r,t>>]` is pending, paid or rejected. `Pay` needs an unpaid transfer; `Reject` needs another router to have paid. |
| `RouterFulfillProofs` | TLAPS proofs about `RouterFulfill`, the refinement included | |
| `StatusCache` | storeStatus under concurrent writers | `chainStatus[t]` is the lifecycle on chain. `seen[w][t]` is what writer w has learned of it. `status[t]` is the cache. All definitions are spec-modelled. |
| `TransactionsCache` | storeTxData under concurrent writers | `stored` and `latestNonce` are the cache. `wpc[w]` is the step of writer w's storeTxData: payload, nonce, then publish (after a raise). `StepFails` is a store command rejecting at any step: the transfer is reported failed. `acked` holds the transfers a call reported written (`Ack`). The `NewPreparedTx` publish is part of the upsert. All definitions are spec-modelled; the payload-before-counter order is the model's choice, since the spec does not fix it. |
| `TransactionsCacheProofs` | TLAPS proofs about `TransactionsCache` | |
| `StoreManager` | getInstance and the private constructor | `instance[p]` is the static of process p. `got[p][c]` is what caller c received. |
| `StoreManagerProofs` | TLAPS proof of `OneStorePerProcess` | |
| `ArbitrumPropagate` | one call of getPropagateParams | `pc` is the statement reached. The four `let` variables start `Undef`. `result` is running, thrown or returned. `Catch` is the catch block, reachable from each awaited call. |
| `ArbitrumPropagateProofs` | TLAPS proofs about `ArbitrumPropagate` | |
| `MC_*` | model values and symmetry for TLC | |

## Runs and what they show

| run | instance | result |
|---|---|---|
| `fulfill_safety` (`MC_RouterFulfill.cfg`) | 3 routers, 2 transfers, RPC failures and retries, reconcile at any time, router and transfer symmetry | `ConflictIsGenuine` holds (25,885 states) |
| `fulfill_liveness` (`MC_RouterFulfill_live.cfg`) | 3 routers, 1 transfer, `FairSpec` | `EveryTransferFulfilled` holds |
| `fulfill_refinement` (`MC_RouterFulfill_refines.cfg`) | as safety, without symmetry (the mapping names routers) | `ImplementsFulfilOnce` holds (295,936 states) |
| `fulfill_slowpath_unchecked` (`MC_RouterFulfill_slowpath.cfg`) | as safety | `PassOnlyIfUnrouted` **violated**: finding 1 |
| `cache_nonce` (`MC_TransactionsCache.cfg`) | 2 writers, 3 transfers of one domain with nonces 1, 2 and 3, each written any number of times, a second domain never written, writer symmetry | `NonceBacked`, `AckedCovered` hold (1,470 states) |
| `cache_status_regression` (`MC_StatusCache.cfg`) | 2 writers, 2 transfers | `StatusMonotonic` **violated**: finding 2 |
| `arbitrum_params` (`MC_ArbitrumPropagate.cfg`) | every configuration, gas prices {0..3}, limits {1,2,3}, fees {1,2} | `TypeOK`, `FeeMatchesEncoding`, `AllOrNothing` hold |
| `arbitrum_zero_fee` (`MC_ArbitrumPropagate_zerofee.cfg`) | same | `ReturnsFundedMessage` **violated**: finding 3 |
| `store_singleton` (`MC_StoreManager.cfg`) | 2 processes, 3 callers, 2 urls plus none, 3 mock flags | `OneStorePerProcess` holds |

Why these bounds are enough:
* Routers:
  - Three routers allow two to pass the check in the same window while a
    third reads after one of them executed.
  - Two transfers show that attempts on different transfers do not interfere.
* Cache:
  - Two writers and three nonces of one domain give every order of the
    storeTxData calls, with a failure at any step. A writer of a lower
    nonce can reach its counter step after the other writer's higher nonce
    was acknowledged, which is what `AckedCovered` is about; the third nonce
    lets a bump be skipped while the other writer is between its raise and
    its publish.
  - The second domain checks that an untouched counter stays 0.
* Arbitrum: the gas price 0 gives the zero-bid edge.
* Every property has a mutant of the code, listed in `PROJECT.json`, that
  TLC finds violating it under the same configuration.

### Findings

1. **Slow path skips the conflict check** (`shared.ts:55`).
   - With `reconciledTransactions` set, the else branch is empty. The check
     therefore passes a fulfil for a transfer another router has already
     executed.
   - Trace: r1 and r2 take up t1, the bridge reconciles t1, r1's check
     passes on the slow path and its `execute` succeeds; then r2's check
     also passes, although `routedTransactions` names r1.
   - Spec §7 says a conflict is raised whenever the chain shows the action
     already done. Here the router instead submits an `execute` that reverts
     and pays for the gas.
2. **Cached status can regress**.
   - `storeStatus` writes any status that differs from the stored one.
   - Each router moves forward, but a router that lags overwrites
     `Fulfilled` with `Prepared`. Invariant I1 breaks under the concurrency
     of spec §5.
3. **RPC failure returned as a zero-fee message** (`arbitrum.ts:109`).
   - The catch turns any failure into a successful result with every
     parameter 0.
   - Spec §7 asks for a retryable error instead. A message with no
     submission fee and no gas is not auto-redeemed on L2.

## Fairness

`FairSpec` is used only by the liveness run:
* weak fairness on `Start`, `Retry` and `Submit`: a router process keeps
  working on a transfer it took up, and the caller retries transient errors;
* strong fairness on the two successful reads: an RPC endpoint that is
  retried forever eventually answers.

`Reconcile` has no fairness. Fast liquidity must not depend on the bridge,
so the property must hold even if reconciliation never happens.

The other models are checked for safety only and carry no fairness.

## Proofs (TLAPS)

Each proof module EXTENDS its model and TLAPS. The constants' assumptions
are those of the model (`RoutersAssumption`, `CacheAssumption`,
`ArbitrumAssumption`, `StoreAssumption`), and TLC evaluates each of them.
Every invariant was first checked by TLC as an invariant of the run.

`RouterFulfillProofs`:
* `TypeCorrect`: `Spec => []TypeOK`.
* `InvariantHolds`: `Spec => []IInv`, where
  `IInv == TypeOK /\ DoneRecorded /\ RoutedByDone /\ ConflictSeenRouted`:
  - `DoneRecorded`: a done attempt's router is the one recorded on chain;
  - `RoutedByDone`: a recorded router's attempt is done;
  - `ConflictSeenRouted`: a conflict attempt saw a recorded router.

  `ConflictIsGenuine` alone is not inductive: a conflict keeps naming a
  router other than r only if `routed[t]`, once set, belongs to a done
  attempt and is never overwritten; `RoutedByDone`, `DoneRecorded` and
  `ConflictSeenRouted` say that. The proof has one
  step per action, and `Submit` is split on the contract's guard. The lemma
  `PcOnlyStep` covers every action that only moves a pc and does not touch
  "done".
* `ConflictIsGenuineHolds` follows from it. That at most one router is
  paid per transfer is part of the refinement below; it is not stated on
  its own, since it holds by the contract's guard, which is spec-modelled.
* `Refinement`: `Spec => ImplementsFulfilOnce`. The initial states map to
  `FulfilOnce!Init`. Every step maps to a step of `FulfilOnce` or a stutter:
  - `Submit` that succeeds is `Pay`;
  - `ReadRouted` that sees another router, and `Submit` that reverts, are
    `Reject` (lemma `RejectStep`, from `ConflictSeenRouted` and the guard);
  - every other step leaves `routed` and the outcome of each attempt alone
    (lemma `SilentStep`; `OutcomeStep` computes the mapped outcome after a
    pc update).

`TransactionsCacheProofs`:
* `IInv` adds to `TypeOK`, `NonceBacked` and `AckedCovered`:
  - `PayloadFirst`: a writer past the payload step has stored its transfer;
  - `PublishReached`: a writer about to publish has brought the counter to
    its nonce.

  `NonceBacked` needs `PayloadFirst` (the bump raises the counter to the
  writer's own nonce, whose payload must be stored). `AckedCovered` needs
  `PublishReached`, because `Publish` acknowledges its transfer. Both are
  kept under other writers' steps by the lemma `CounterStep` (no step
  lowers a counter: the bump compares before it writes) and `ReachedKept`.
* `NonceBackedHolds` and `AckedCoveredHolds` follow from `IInv`.

`ArbitrumPropagateProofs`:
* `InvariantHolds`: `Spec => []IInv`. Besides the three properties, `IInv`
  has two more conjuncts:
  - `EncodeReady`: at the encode step the four values are numbers,
    `callValue` pays for them, and they are a full estimate or all zero
    (either `EstimateAll` or `Catch` put them there);
  - `BidFetched`: the gas price is a number by the time `EstimateAll`
    runs.
* `TypeCorrect`, `FeeMatchesEncodingHolds` and `AllOrNothingHolds` follow
  from it.

`StoreManagerProofs`:
* `OneStorePerProcessHolds`, from `InstanceUniform`: a set instance has its
  three caches configured alike. A caller served from the cache inherits
  them.

Only model-checked:
* the liveness properties (TLAPS does not reason about fairness and ENABLED
  here);
* the violated properties, which are findings.

## Not modelled

* The asset/amount translation stubs in `shared.ts` return their argument
  unchanged.
* The error classes carry no state.
* The e2e test has an empty body.
* The auctions and consumers caches appear in this repository only through
  their construction, which `StoreManager` models.
* The subscribers of `NewStatus`, `NewPreparedTx` and `NewHighestNonce`.
  No subscriber logic is in this repository: the test's handler only logs.
* The `getTxData*`, `getStatus` and `getLatestNonce` lookups. They are
  reads with no state change.
* The contract's liquidity, fees, batching and swaps. They do not bear on
  who is paid.

## Plan for the next sittings

1. Compose `TransactionsCache` with `RouterFulfill`: routers record the
   statuses they observe, and act on the nonces they learn.
2. Model the auctions and consumers caches from the spec, including the
   claim leases and their expiry.
3. Model `getTxDataByDomainAndNonce` as a reader of the cache, and prove
   that the nonce `getLatestNonce` returns always resolves to stored data
   (this follows from `NonceBacked`).
