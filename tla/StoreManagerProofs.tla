------------------------ MODULE StoreManagerProofs ------------------------
(***************************************************************************)
(* Proof that OneStorePerProcess holds for any sets of processes, callers *)
(* and urls.  It is not inductive alone: a caller served from the cached   *)
(* instance inherits its caches, so the instance itself must have its     *)
(* three caches configured alike (InstanceUniform).                        *)
(***************************************************************************)
EXTENDS StoreManager, TLAPS

(* The three caches of a store share one set of options.                   *)
Uniform(s) == s.auctions = s.transactions /\ s.consumers = s.transactions

(* A process's instance, once set, is a store with uniform caches.         *)
InstanceUniform ==
    \A p \in Processes : instance[p] # None => Uniform(instance[p])

IInv == TypeOK /\ InstanceUniform /\ OneStorePerProcess

-----------------------------------------------------------------------------
(* The constructor gives each cache the same options, of the right type.   *)
LEMMA NewStoreUniform ==
  ASSUME NEW params \in Params
  PROVE  NewStore(params) \in Stores /\ Uniform(NewStore(params))
BY DEF NewStore, ToBool, Stores, CacheOptions, Params, Uniform

(* IInv holds in every reachable state.                                     *)
THEOREM InvariantHolds == Spec => []IInv
<1>1. Init => IInv
  BY StoreAssumption DEF Init, IInv, TypeOK, InstanceUniform,
     OneStorePerProcess
<1>2. IInv /\ [Next]_vars => IInv'
  <2> SUFFICES ASSUME IInv, [Next]_vars PROVE IInv'
    OBVIOUS
  <2>1. ASSUME NEW p \in Processes, NEW c \in Callers, NEW params \in Params,
               got[p][c] = None, GetInstance(p, c, params)
        PROVE  IInv'
    <3>1. CASE instance[p] # None
      <4>1. got' = [got EXCEPT ![p][c] = instance[p]] /\ instance' = instance
        BY <2>1, <3>1 DEF GetInstance
      <4>2. Uniform(instance[p]) /\ instance[p] \in Stores
        BY <3>1 DEF IInv, InstanceUniform, TypeOK
      <4>3. QED
        BY <4>1, <4>2 DEF IInv, TypeOK, InstanceUniform, OneStorePerProcess,
           Uniform
    <3>2. CASE instance[p] = None
      <4> DEFINE store == NewStore(params)
      <4>1. instance' = [instance EXCEPT ![p] = store]
            /\ got' = [got EXCEPT ![p][c] = store]
        BY <2>1, <3>2 DEF GetInstance
      <4>2. store \in Stores /\ Uniform(store)
        BY NewStoreUniform
      <4>3. TypeOK'
        BY <4>1, <4>2 DEF IInv, TypeOK
      <4>4. InstanceUniform'
        BY <4>1, <4>2 DEF IInv, InstanceUniform, TypeOK
      (* Other callers of p had nothing: the instance of p was unset.       *)
      <4>5. \A d \in Callers : got[p][d] = None
        BY <3>2, StoreAssumption DEF IInv, OneStorePerProcess
      <4>6. OneStorePerProcess'
        BY <4>1, <4>2, <4>5 DEF IInv, TypeOK, OneStorePerProcess, Uniform
      <4>7. QED
        BY <4>3, <4>4, <4>6 DEF IInv
    <3>3. QED
      BY <3>1, <3>2
  <2>2. CASE AllServed \/ UNCHANGED vars
    BY <2>2 DEF AllServed, vars, IInv, TypeOK, InstanceUniform,
       OneStorePerProcess
  <2>3. QED
    BY <2>1, <2>2 DEF Next
<1>3. QED
  BY <1>1, <1>2, PTL DEF Spec

(* Every component of a process works on the process's one store, its     *)
(* caches configured alike, whatever params the callers pass.              *)
THEOREM OneStorePerProcessHolds == Spec => []OneStorePerProcess
<1>1. IInv => OneStorePerProcess
  BY DEF IInv
<1>2. QED
  BY <1>1, InvariantHolds, PTL

=============================================================================
