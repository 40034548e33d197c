---------------------------- MODULE DeliveryQueue ----------------------------
(***************************************************************************)
(* What the webhook queue promises to whoever enqueues a delivery: it is   *)
(* tried a bounded number of times and ends delivered or failed, for good. *)
(* Claims, leases, workers and time do not show at this level.             *)
(***************************************************************************)
EXTENDS Naturals

CONSTANTS Delivery, MaxAttempts

VARIABLES
    state,      \* "absent", "queued", "delivered" or "failed"
    tries       \* attempts recorded so far

qvars == <<state, tries>>

QInit ==
    /\ state = [d \in Delivery |-> "absent"]
    /\ tries = [d \in Delivery |-> 0]

Enqueue(d) ==
    /\ state[d] = "absent"
    /\ state' = [state EXCEPT ![d] = "queued"]
    /\ UNCHANGED tries

\* An attempt is recorded; the last one allowed settles the delivery.
Attempt(d) ==
    /\ state[d] = "queued"
    /\ tries[d] < MaxAttempts
    /\ tries' = [tries EXCEPT ![d] = @ + 1]
    /\ \E s \in {"queued", "delivered", "failed"} :
         /\ s = "queued" => tries[d] + 1 < MaxAttempts
         /\ state' = [state EXCEPT ![d] = s]

QNext == \E d \in Delivery : Enqueue(d) \/ Attempt(d)

QSpec == QInit /\ [][QNext]_qvars

\* Attempts of a queued delivery keep being made.
QFairSpec == QSpec /\ \A d \in Delivery : WF_qvars(Attempt(d))
=============================================================================
