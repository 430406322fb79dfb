--------------------------- MODULE StoreManager ---------------------------
(***************************************************************************)
(* StoreManager.getInstance (adapters/cache/src/index.ts): the per-process *)
(* access point that constructs the three caches (transactions, auctions,  *)
(* consumers) on first use and returns the same instance afterwards.       *)
(* Several components of each router process call getInstance, each with   *)
(* the configuration it was given; processes do not share the static.      *)
(***************************************************************************)
EXTENDS Naturals

CONSTANTS
    Processes,  \* router processes (each has its own static `instance`)
    Callers,    \* components of a process that call getInstance
    Urls,       \* redis.url values a caller may pass (or none)
    NoUrl,      \* `redis` omitted: url is undefined
    None        \* StoreManager.instance not yet set / nothing returned

ASSUME StoreAssumption == None \notin Urls /\ NoUrl \notin Urls

(* StoreManagerParams as the constructor reads it: { redis?.url, mock? }.  *)
(* `mock` may be omitted (undefined) and is read as !!mock.                *)
MockFlags == {"true", "false", "undefined"}
Params == [url : Urls \cup {NoUrl}, mock : MockFlags]

ToBool(m) == m = "true"

(* The options one cache is constructed with.                             *)
CacheOptions == [url : Urls \cup {NoUrl}, mock : BOOLEAN]
Stores == [transactions : CacheOptions, auctions : CacheOptions,
           consumers : CacheOptions]

VARIABLES
    instance,   \* instance[p]: StoreManager.instance of process p
    got         \* got[p][c]: what getInstance returned to caller c of p

vars == <<instance, got>>

TypeOK ==
    /\ instance \in [Processes -> Stores \cup {None}]
    /\ got \in [Processes -> [Callers -> Stores \cup {None}]]

Init ==
    /\ instance = [p \in Processes |-> None]
    /\ got = [p \in Processes |-> [c \in Callers |-> None]]

(* private constructor: each cache gets { url, mock: !!mock }.            *)
NewStore(params) ==
    LET opts == [url |-> params.url, mock |-> ToBool(params.mock)]
    IN [transactions |-> opts, auctions |-> opts, consumers |-> opts]

(* Mutant: the `if (StoreManager.instance)` check dropped.                *)
GetInstanceAlwaysNew(p, c, params) ==
    LET store == NewStore(params) IN
    /\ instance' = [instance EXCEPT ![p] = store]
    /\ got' = [got EXCEPT ![p][c] = store]

(* getInstance(params): the cached instance if set, else a new one that    *)
(* becomes the instance.                                                   *)
GetInstance(p, c, params) ==
    IF instance[p] # None
       THEN /\ got' = [got EXCEPT ![p][c] = instance[p]]
            /\ UNCHANGED instance
       ELSE LET store == NewStore(params) IN
            /\ instance' = [instance EXCEPT ![p] = store]
            /\ got' = [got EXCEPT ![p][c] = store]

(* Once every caller has its store, nothing is left to do.                 *)
AllServed ==
    /\ \A p \in Processes, c \in Callers : got[p][c] # None
    /\ UNCHANGED vars

Next ==
    \/ \E p \in Processes, c \in Callers, params \in Params :
          /\ got[p][c] = None
          /\ GetInstance(p, c, params)
    \/ AllServed

Spec == Init /\ [][Next]_vars

-----------------------------------------------------------------------------
(* Every component of a process works on one store: the caches it was      *)
(* handed are those of the process's instance, configured alike.           *)
OneStorePerProcess ==
    \A p \in Processes, c \in Callers :
        got[p][c] # None =>
            /\ got[p][c] = instance[p]
            /\ got[p][c].auctions = got[p][c].transactions
            /\ got[p][c].consumers = got[p][c].transactions

=============================================================================
