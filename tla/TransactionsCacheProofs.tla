---------------------- MODULE TransactionsCacheProofs ----------------------
(***************************************************************************)
(* Proofs about TransactionsCache, for every set of writers, domains and   *)
(* transfers, and every nonce assignment.                                  *)
(*                                                                         *)
(* NonceBacked is not inductive: the bump step must know that the payload  *)
(* of the transfer it raises the counter to is already stored, which holds *)
(* because storeTxData writes the payload first and stored only grows     *)
(* (PayloadFirst).  AckedCovered is not inductive either: a publish step   *)
(* acknowledges its transfer, so a writer about to publish must already    *)
(* have brought the counter to its nonce (PublishReached).  Both facts     *)
(* survive other writers' steps because no step lowers a counter.          *)
(***************************************************************************)
EXTENDS TransactionsCache, TLAPS

(* Past the payload step, the transfer's payload is stored.                *)
PayloadFirst ==
    \A w \in Writers :
        wpc[w].step \in {"nonce", "publish"} => wpc[w].tx \in stored

(* A writer about to publish has brought the counter to its nonce.         *)
PublishReached ==
    \A w \in Writers :
        wpc[w].step = "publish" =>
            NonceOf[wpc[w].tx] <= latestNonce[Origin[wpc[w].tx]]

IInv ==
    /\ TypeOK
    /\ PayloadFirst
    /\ NonceBacked
    /\ PublishReached
    /\ AckedCovered

-----------------------------------------------------------------------------
(* The idle program counter is a writer program counter.                   *)
LEMMA IdlePc == Idle \in WriterPcs
  BY DEF Idle, WriterPcs

(* A writer that is not idle works on a transfer of Txs.                   *)
LEMMA BusyPc ==
  ASSUME TypeOK, NEW w \in Writers, wpc[w].step # "idle"
  PROVE  /\ wpc[w].tx \in Txs
         /\ wpc[w].step \in {"payload", "nonce", "publish"}
  BY DEF TypeOK, WriterPcs, Idle

(* The initial state is typed.                                             *)
LEMMA InitType == Init => TypeOK
  BY IdlePc, CacheAssumption DEF Init, TypeOK

(* Every step keeps the variables in their types.                          *)
LEMMA TypeStep == TypeOK /\ [Next]_vars => TypeOK'
<1> SUFFICES ASSUME TypeOK, [Next]_vars PROVE TypeOK'
  OBVIOUS
<1> USE CacheAssumption, IdlePc DEF TypeOK, WriterPcs
<1>1. ASSUME NEW w \in Writers, NEW t \in Txs, BeginTxData(w, t) PROVE TypeOK'
  BY <1>1 DEF BeginTxData
<1>2. ASSUME NEW w \in Writers, WritePayload(w) PROVE TypeOK'
  <2>1. wpc[w].tx \in Txs
    BY <1>2, BusyPc DEF WritePayload
  <2>2. QED
    BY <1>2, <2>1 DEF WritePayload
<1>3. ASSUME NEW w \in Writers, BumpNonce(w) PROVE TypeOK'
  <2> DEFINE t == wpc[w].tx
  <2>1. t \in Txs /\ Origin[t] \in Domains /\ NonceOf[t] \in Nat
    BY <1>3, BusyPc DEF BumpNonce
  <2>2. CASE NonceOf[t] > latestNonce[Origin[t]]
    BY <1>3, <2>1, <2>2 DEF BumpNonce
  <2>3. CASE ~(NonceOf[t] > latestNonce[Origin[t]])
    BY <1>3, <2>1, <2>3 DEF BumpNonce, Ack
  <2>4. QED
    BY <2>2, <2>3
<1>4. ASSUME NEW w \in Writers, Publish(w) PROVE TypeOK'
  <2>1. wpc[w].tx \in Txs
    BY <1>4, BusyPc DEF Publish
  <2>2. QED
    BY <1>4, <2>1 DEF Publish, Ack
<1>5. ASSUME NEW w \in Writers, StepFails(w) PROVE TypeOK'
  BY <1>5 DEF StepFails
<1>6. CASE UNCHANGED vars
  BY <1>6 DEF vars
<1>7. QED
  BY <1>1, <1>2, <1>3, <1>4, <1>5, <1>6 DEF Next

(* No step lowers a domain's counter: the bump compares before it writes. *)
LEMMA CounterStep ==
  ASSUME TypeOK, [Next]_vars
  PROVE  \A d \in Domains : latestNonce'[d] >= latestNonce[d]
<1>1. CASE \E w \in Writers : BumpNonce(w)
  <2>1. PICK w \in Writers : BumpNonce(w)
    BY <1>1
  <2>2. wpc[w].tx \in Txs
    BY <2>1, BusyPc DEF BumpNonce
  <2>3. QED
    BY <2>1, <2>2, CacheAssumption DEF BumpNonce, TypeOK
<1>2. CASE UNCHANGED latestNonce
  BY <1>2 DEF TypeOK
<1>3. CASE \E w \in Writers, t \in Txs : BeginTxData(w, t)
  BY <1>3, <1>2 DEF BeginTxData
<1>4. CASE \E w \in Writers :
             WritePayload(w) \/ Publish(w) \/ StepFails(w)
  BY <1>4, <1>2 DEF WritePayload, Publish, StepFails
<1>5. CASE UNCHANGED vars
  BY <1>5, <1>2 DEF vars
<1>6. QED
  BY <1>1, <1>3, <1>4, <1>5 DEF Next

(* A transfer whose nonce its counter has reached stays reached.           *)
LEMMA ReachedKept ==
  ASSUME TypeOK, TypeOK',
         \A d \in Domains : latestNonce'[d] >= latestNonce[d],
         NEW t \in Txs, NonceOf[t] <= latestNonce[Origin[t]]
  PROVE  NonceOf[t] <= latestNonce'[Origin[t]]
<1>1. Origin[t] \in Domains /\ NonceOf[t] \in Nat
  BY CacheAssumption
<1>2. latestNonce[Origin[t]] \in Nat /\ latestNonce'[Origin[t]] \in Nat
  BY <1>1 DEF TypeOK
<1>3. QED
  BY <1>1, <1>2

-----------------------------------------------------------------------------
(* IInv holds in every reachable state.                                     *)
THEOREM InvariantHolds == Spec => []IInv
<1>1. Init => IInv
  BY InitType DEF Init, IInv, PayloadFirst, NonceBacked, PublishReached,
     AckedCovered, Idle
<1>2. IInv /\ [Next]_vars => IInv'
  <2> SUFFICES ASSUME IInv, [Next]_vars PROVE IInv'
    OBVIOUS
  <2> USE CacheAssumption DEF IInv, TypeOK
  <2>1. TypeOK'
    BY TypeStep
  <2>2. \A x \in Domains : latestNonce'[x] >= latestNonce[x]
    BY CounterStep
  (* Whatever the step, a writer that was about to publish still is, or   *)
  (* is the writer that moved, and the acknowledged stay covered.          *)
  <2>3. ASSUME NEW v \in Writers, wpc'[v] = wpc[v], wpc[v].step = "publish"
        PROVE  NonceOf[wpc[v].tx] <= latestNonce'[Origin[wpc[v].tx]]
    <3>1. wpc[v].tx \in Txs
      BY <2>3, BusyPc
    <3>2. QED
      BY <2>1, <2>2, <2>3, <3>1, ReachedKept DEF PublishReached
  <2>4. ASSUME NEW t \in acked PROVE NonceOf[t] <= latestNonce'[Origin[t]]
    BY <2>1, <2>2, ReachedKept DEF AckedCovered
  <2>5. ASSUME NEW w \in Writers, NEW t \in Txs, BeginTxData(w, t)
        PROVE  IInv'
    BY <2>1, <2>5 DEF BeginTxData, PayloadFirst, NonceBacked,
       PublishReached, AckedCovered
  <2>6. ASSUME NEW w \in Writers, WritePayload(w) PROVE IInv'
    <3> DEFINE t == wpc[w].tx
    <3>1. /\ wpc[w].step = "payload"
          /\ stored' = stored \cup {t}
          /\ wpc' = [wpc EXCEPT ![w] = [step |-> "nonce", tx |-> t]]
          /\ UNCHANGED <<latestNonce, acked>>
      BY <2>6 DEF WritePayload
    <3>2. t \in Txs
      BY <3>1 DEF WriterPcs, Idle
    <3>3. PayloadFirst'
      BY <3>1, <3>2 DEF PayloadFirst
    <3>4. NonceBacked' /\ AckedCovered'
      BY <3>1 DEF NonceBacked, AckedCovered
    <3>5. PublishReached'
      BY <3>1 DEF PublishReached
    <3>6. QED
      BY <2>1, <3>3, <3>4, <3>5
  <2>7. ASSUME NEW w \in Writers, BumpNonce(w) PROVE IInv'
    <3> DEFINE t == wpc[w].tx
               d == Origin[t]
    <3>1. wpc[w].step = "nonce" /\ t \in Txs /\ t \in stored
      BY <2>7 DEF BumpNonce, PayloadFirst, WriterPcs, Idle
    <3>2. UNCHANGED stored
      BY <2>7 DEF BumpNonce
    <3>3. CASE NonceOf[t] > latestNonce[d]
      <4>1. /\ latestNonce' = [latestNonce EXCEPT ![d] = NonceOf[t]]
            /\ wpc' = [wpc EXCEPT ![w] = [step |-> "publish", tx |-> t]]
            /\ UNCHANGED acked
        BY <2>7, <3>3 DEF BumpNonce
      <4>2. PayloadFirst'
        BY <3>1, <3>2, <4>1 DEF PayloadFirst
      <4>3. NonceBacked'
        BY <3>1, <3>2, <4>1 DEF NonceBacked
      <4>4. PublishReached'
        <5> SUFFICES ASSUME NEW v \in Writers, wpc'[v].step = "publish"
                     PROVE  NonceOf[wpc'[v].tx] <= latestNonce'[Origin[wpc'[v].tx]]
          BY DEF PublishReached
        <5>1. CASE v = w
          BY <3>1, <4>1, <5>1
        <5>2. CASE v # w
          BY <4>1, <5>2, <2>3
        <5>3. QED
          BY <5>1, <5>2
      <4>5. AckedCovered'
        BY <4>1, <2>4 DEF AckedCovered
      <4>6. QED
        BY <2>1, <4>2, <4>3, <4>4, <4>5
    <3>4. CASE ~(NonceOf[t] > latestNonce[d])
      <4>1. /\ latestNonce' = latestNonce
            /\ wpc' = [wpc EXCEPT ![w] = Idle]
            /\ acked' = acked \cup {t}
        BY <2>7, <3>4 DEF BumpNonce, Ack
      <4>2. NonceOf[t] <= latestNonce[d]
        BY <3>1, <3>4
      <4>3. AckedCovered'
        BY <4>1, <4>2 DEF AckedCovered
      <4>4. QED
        BY <2>1, <3>2, <4>1, <4>3 DEF PayloadFirst, NonceBacked,
           PublishReached, Idle
    <3>5. QED
      BY <3>3, <3>4
  <2>8. ASSUME NEW w \in Writers, Publish(w) PROVE IInv'
    <3> DEFINE t == wpc[w].tx
    <3>1. /\ wpc[w].step = "publish"
          /\ wpc' = [wpc EXCEPT ![w] = Idle]
          /\ acked' = acked \cup {t}
          /\ UNCHANGED <<stored, latestNonce>>
      BY <2>8 DEF Publish, Ack
    <3>2. NonceOf[t] <= latestNonce[Origin[t]]
      BY <3>1 DEF PublishReached
    <3>3. AckedCovered'
      BY <3>1, <3>2 DEF AckedCovered
    <3>4. QED
      BY <2>1, <3>1, <3>3 DEF PayloadFirst, NonceBacked, PublishReached,
         Idle
  <2>9. ASSUME NEW w \in Writers, StepFails(w) PROVE IInv'
    BY <2>1, <2>9 DEF StepFails, PayloadFirst, NonceBacked,
       PublishReached, AckedCovered, Idle
  <2>10. CASE UNCHANGED vars
    BY <2>10 DEF vars, PayloadFirst, NonceBacked, PublishReached,
       AckedCovered
  <2>11. QED
    BY <2>5, <2>6, <2>7, <2>8, <2>9, <2>10 DEF Next
<1>3. QED
  BY <1>1, <1>2, PTL DEF Spec

(* The domain counter always names a stored transfer of that domain.        *)
THEOREM NonceBackedHolds == Spec => []NonceBacked
  BY InvariantHolds, PTL DEF IInv

(* A transfer storeTxData reported written is covered by its domain's      *)
(* counter from then on, whichever writers raced on that domain.           *)
THEOREM AckedCoveredHolds == Spec => []AckedCovered
  BY InvariantHolds, PTL DEF IInv

=============================================================================
