---------------------------- MODULE FulfilOnce ----------------------------
(***************************************************************************)
(* What the router's fulfil path promises, seen from outside: the          *)
(* sanitation check (agents/router/src/lib/helpers/shared.ts) together     *)
(* with the destination contract's execute.                                *)
(*                                                                         *)
(* Every attempt of a router to fulfil a transfer ends either paid or      *)
(* rejected.  A transfer is paid at most once, by one router, and an       *)
(* attempt is rejected only when some other router has been paid for the  *)
(* transfer: a router never gives up on a transfer nobody has served.      *)
(* Each outcome is taken in one atomic step; RouterFulfill refines it with *)
(* the separate chain reads and the submission.                            *)
(***************************************************************************)
CONSTANTS
    Routers,    \* router processes
    Transfers,  \* transfer ids
    None        \* no router paid

VARIABLES
    paidBy,     \* paidBy[t]: the router paid for t, or None
    outcome     \* outcome[<<r, t>>]: "pending", "paid" or "rejected"

vars == <<paidBy, outcome>>

Outcomes == {"pending", "paid", "rejected"}

TypeOK ==
    /\ paidBy \in [Transfers -> Routers \cup {None}]
    /\ outcome \in [Routers \X Transfers -> Outcomes]

Init ==
    /\ paidBy = [t \in Transfers |-> None]
    /\ outcome = [a \in Routers \X Transfers |-> "pending"]

(* Router r is paid for t: nobody was before.                             *)
Pay(r, t) ==
    /\ outcome[<<r, t>>] = "pending"
    /\ paidBy[t] = None
    /\ paidBy' = [paidBy EXCEPT ![t] = r]
    /\ outcome' = [outcome EXCEPT ![<<r, t>>] = "paid"]

(* Router r gives t up: another router has been paid for it.              *)
Reject(r, t) ==
    /\ outcome[<<r, t>>] = "pending"
    /\ paidBy[t] \notin {None, r}
    /\ outcome' = [outcome EXCEPT ![<<r, t>>] = "rejected"]
    /\ UNCHANGED paidBy

Next == \E r \in Routers, t \in Transfers : Pay(r, t) \/ Reject(r, t)

Spec == Init /\ [][Next]_vars

=============================================================================
