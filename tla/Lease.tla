--------------------------------- MODULE Lease ---------------------------------
(***************************************************************************)
(* What a claim promises to an annotator: an item is lent to one user at a *)
(* time, until the lease lapses; whoever finishes it on a lease has        *)
(* finished it for good, and it is lent to nobody any more.                *)
(* AnnotationQueue implements it for clients that do not release locks and *)
(* queues whose timeout does not change.                                   *)
(***************************************************************************)
CONSTANTS Users, Items

VARIABLES
    tenants,   \* users an item is lent to
    finishers  \* users who finished an item on a lease

Init ==
    /\ tenants = [i \in Items |-> {}]
    /\ finishers = [i \in Items |-> {}]

\* A user is lent a free item, or has the lease renewed.
Lend(u, i) ==
    /\ finishers[i] = {}
    /\ tenants[i] \subseteq {u}
    /\ tenants' = [tenants EXCEPT ![i] = {u}]
    /\ UNCHANGED finishers

\* The tenant finishes; a tenant whom no answer reached may go on trying.
Finish(u, i) ==
    /\ tenants[i] = {u}
    /\ finishers[i] \subseteq {u}
    /\ finishers' = [finishers EXCEPT ![i] = {u}]
    /\ tenants' \in {tenants, [tenants EXCEPT ![i] = {}]}

\* Time passes, or a tenant gave the item up.
Lapse ==
    /\ \E S \in SUBSET Items :
         tenants' = [i \in Items |-> IF i \in S THEN {} ELSE tenants[i]]
    /\ UNCHANGED finishers

Next == Lapse \/ \E u \in Users, i \in Items : Lend(u, i) \/ Finish(u, i)

Spec == Init /\ [][Next]_<<tenants, finishers>>
=============================================================================
