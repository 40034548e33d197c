--------------------------- MODULE WebhookDelivery ---------------------------
(***************************************************************************)
(* The outbound webhook queue of pkgly/src/app/webhooks/mod.rs.            *)
(*                                                                         *)
(* Several server processes share one Postgres table, webhook_deliveries.  *)
(* A process enqueues one row per matching webhook for every package       *)
(* event, one INSERT after the other and not in a transaction, and runs    *)
(* one delivery loop that claims a due row under a lease, POSTs it and     *)
(* records the outcome, guarded by the claim's token.                      *)
(*                                                                         *)
(* Times are minutes relative to NOW(): next_attempt_at and                *)
(* claim_expires_at are countdowns, zero or negative when reached.  How    *)
(* late a row can be is bounded by MaxLate.  Everything that is not        *)
(* supposed to happen (a crash, a shutdown, a failed database call, a      *)
(* worker that outlives its lease) is paid for from the budget MaxFaults.  *)
(***************************************************************************)
EXTENDS Integers, FiniteSets

CONSTANTS
    Server,         \* server processes; each runs one delivery loop
    Delivery,       \* ids of webhook_deliveries, a BIGSERIAL column
    Webhook,        \* webhook definitions
    Token,          \* claim tokens (Uuid::new_v4)
    None,           \* SQL NULL
    MaxAttempts,    \* MAX_DELIVERY_ATTEMPTS
    ClaimTTL,       \* DELIVERY_CLAIM_TTL, in minutes
    MaxLate,        \* bound: minutes a due row is remembered to be late
    MaxFaults       \* bound: faults in a behaviour

ASSUME ServerAssumption == IsFiniteSet(Server)
ASSUME DeliveryAssumption == Delivery \subseteq Nat
ASSUME NoneAssumption ==
    /\ None \notin Token
    /\ None \notin Delivery
    /\ None \notin {"delivered", "retryable", "failed"}
ASSUME AttemptsAssumption == MaxAttempts \in 1..5
ASSUME TimeAssumption == ClaimTTL \in Nat \ {0} /\ MaxLate \in Nat
ASSUME FaultsAssumption == MaxFaults \in Nat

VARIABLES
    row,        \* webhook_deliveries
    enabled,    \* the webhooks with enabled = TRUE and a matching event
    worker,     \* the delivery loop of every server
    wake,       \* the permit held by every server's notify_new_work
    todo,       \* per server, webhooks an enqueue in progress has yet to insert
    faults,     \* faults so far
    posts,      \* history: POSTs sent for a row
    lost,       \* history: POSTs whose outcome was never recorded
    acked,      \* history: rows some endpoint answered 2xx
    refused     \* history: rows answered with a permanent refusal

dbVars == <<row, enabled>>
histVars == <<posts, lost, acked, refused>>
vars == <<row, enabled, worker, wake, todo, faults, posts, lost, acked, refused>>

-----------------------------------------------------------------------------
(* State *)

Status == {"absent", "pending", "processing", "delivered", "failed"}
Terminal == {"delivered", "failed"}

RowType ==
    [status : Status, hook : Webhook \cup {None}, attempts : Nat,
     nextIn : Int, token : Token \cup {None}, expIn : Int]

NoRow == [status |-> "absent", hook |-> None, attempts |-> 0,
          nextIn |-> 0, token |-> None, expIn |-> 0]

\* "down" a stopped process, "waiting" in select!, "claiming" at the head of
\* process_due_deliveries, "posting" and "finalizing" inside its body.
Phase == {"down", "waiting", "claiming", "posting", "finalizing"}
Outcome == {"delivered", "retryable", "failed"}

WorkerType ==
    [phase : Phase, delivery : Delivery \cup {None}, token : Token \cup {None},
     attempts : Nat, outcome : Outcome \cup {None}, retryIn : Int]

\* A loop that holds no ClaimedDelivery.
Free(phase) == [phase |-> phase, delivery |-> None, token |-> None,
                attempts |-> 0, outcome |-> None, retryIn |-> 0]

Holding(w) == worker[w].phase \in {"posting", "finalizing"}

\* The token the row carries is the one this worker claimed it with.
Current(w) == row[worker[w].delivery].token = worker[w].token

Inserted(d) == row[d].status # "absent"

TypeOK ==
    /\ row \in [Delivery -> RowType]
    /\ enabled \subseteq Webhook
    /\ worker \in [Server -> WorkerType]
    /\ wake \in [Server -> BOOLEAN]
    /\ todo \in [Server -> SUBSET Webhook]
    /\ faults \in Nat
    /\ posts \in [Delivery -> Nat]
    /\ lost \in [Delivery -> Nat]
    /\ acked \subseteq Delivery
    /\ refused \subseteq Delivery

Init ==
    /\ row = [d \in Delivery |-> NoRow]
    /\ enabled \in SUBSET Webhook
    /\ worker = [w \in Server |-> Free("waiting")]
    /\ wake = [w \in Server |-> FALSE]
    /\ todo = [w \in Server |-> {}]
    /\ faults = 0
    /\ posts = [d \in Delivery |-> 0]
    /\ lost = [d \in Delivery |-> 0]
    /\ acked = {}
    /\ refused = {}

Fault == faults < MaxFaults /\ faults' = faults + 1

Up(w) == worker[w].phase # "down"

-----------------------------------------------------------------------------
(* Producing deliveries *)

\* create_webhook, update_webhook and delete_webhook decide which webhooks the
\* next enqueue selects; no row of webhook_deliveries is touched by them.
EditWebhooks ==
    /\ \E h \in Webhook : enabled' = (enabled \ {h}) \cup ({h} \ enabled)
    /\ UNCHANGED <<row, worker, wake, todo, faults, histVars>>

\* enqueue_snapshot: the SELECT of the matching webhooks.  No match, no work.
EnqueueSelect(s) ==
    /\ Up(s) /\ todo[s] = {}
    /\ enabled # {}
    /\ todo' = [todo EXCEPT ![s] = enabled]
    /\ UNCHANGED <<dbVars, worker, wake, faults, histVars>>

\* The id the BIGSERIAL sequence hands out next.
NextId(d) == ~Inserted(d) /\ \A e \in Delivery : e < d => Inserted(e)

NewRow(h) == [status |-> "pending", hook |-> h, attempts |-> 0,
              nextIn |-> 0, token |-> None, expIn |-> 0]

\* One INSERT of the loop; the last one is followed by notify_webhook_worker.
EnqueueInsert(s) ==
    /\ Up(s)
    /\ \E h \in todo[s], d \in Delivery :
         /\ NextId(d)
         /\ row' = [row EXCEPT ![d] = NewRow(h)]
         /\ todo' = [todo EXCEPT ![s] = @ \ {h}]
    /\ wake' = [wake EXCEPT ![s] = @ \/ todo'[s] = {}]
    /\ UNCHANGED <<enabled, worker, faults, histVars>>

\* An INSERT returns an error: the loop stops, rows inserted so far stay, the
\* rest of the webhooks get none and nobody is notified.  The INSERT itself may
\* have been applied before the connection failed.
EnqueueError(s) ==
    /\ Fault
    /\ Up(s)
    /\ \E h \in todo[s] :
         \/ UNCHANGED row
         \/ \E d \in Delivery : NextId(d) /\ row' = [row EXCEPT ![d] = NewRow(h)]
    /\ todo' = [todo EXCEPT ![s] = {}]
    /\ UNCHANGED <<enabled, worker, wake, histVars>>

-----------------------------------------------------------------------------
(* run_delivery_loop *)

\* notify_new_work.notified(): consumes the stored permit.
Woken(w) ==
    /\ worker[w].phase = "waiting" /\ wake[w]
    /\ wake' = [wake EXCEPT ![w] = FALSE]
    /\ worker' = [worker EXCEPT ![w] = Free("claiming")]
    /\ UNCHANGED <<dbVars, todo, faults, histVars>>

\* interval.tick(), every DELIVERY_POLL_INTERVAL.
Poll(w) ==
    /\ worker[w].phase = "waiting"
    /\ worker' = [worker EXCEPT ![w] = Free("claiming")]
    /\ UNCHANGED <<dbVars, wake, todo, faults, histVars>>

-----------------------------------------------------------------------------
(* claim_next_delivery *)

\* Mutant: the lease's expiry is not looked at.
ClaimableIgnoringLease(d) ==
    /\ row[d].status \in {"pending", "processing"}
    /\ row[d].nextIn <= 0

\* Mutant: a row left in processing by a dead worker is never taken over.
ClaimableOnlyPending(d) == row[d].status = "pending" /\ row[d].nextIn <= 0

Claimable(d) ==
    /\ row[d].status \in {"pending", "processing"}
    /\ row[d].nextIn <= 0
    /\ row[d].status = "processing" => row[d].expIn <= 0

\* ORDER BY next_attempt_at ASC, id ASC LIMIT 1
Before(d, e) ==
    \/ row[d].nextIn < row[e].nextIn
    \/ row[d].nextIn = row[e].nextIn /\ d <= e

Candidate(d) == Claimable(d) /\ \A e \in Delivery : Claimable(e) => Before(d, e)

\* A random UUID is one that no row and no running worker refers to.
Fresh(t) ==
    /\ \A d \in Delivery : row[d].token # t
    /\ \A w \in Server : worker[w].token # t

\* Mutant: the claim does not move the row out of pending.
LeasedStillPending(d, t) == [row[d] EXCEPT !.token = t, !.expIn = ClaimTTL]

Leased(d, t) ==
    [status |-> "processing", hook |-> row[d].hook, attempts |-> row[d].attempts,
     nextIn |-> row[d].nextIn, token |-> t, expIn |-> ClaimTTL]

\* The ClaimedDelivery the UPDATE returns.
Claimed(d, t) ==
    [phase |-> "posting", delivery |-> d, token |-> t,
     attempts |-> row[d].attempts, outcome |-> None, retryIn |-> 0]

Claim(w) ==
    /\ worker[w].phase = "claiming"
    /\ \E d \in Delivery, t \in Token :
         /\ Candidate(d) /\ Fresh(t)
         /\ row' = [row EXCEPT ![d] = Leased(d, t)]
         /\ worker' = [worker EXCEPT ![w] = Claimed(d, t)]
    /\ UNCHANGED <<enabled, wake, todo, faults, histVars>>

\* No due row: process_due_deliveries returns to the select!.
NothingDue(w) ==
    /\ worker[w].phase = "claiming"
    /\ \A d \in Delivery : ~Claimable(d)
    /\ worker' = [worker EXCEPT ![w] = Free("waiting")]
    /\ UNCHANGED <<dbVars, wake, todo, faults, histVars>>

\* The claim returns an error, before or after the UPDATE took effect; the
\* latter leaves a lease that nobody holds.
ClaimError(w) ==
    /\ Fault
    /\ worker[w].phase = "claiming"
    /\ \/ UNCHANGED row
       \/ \E d \in Delivery, t \in Token :
            /\ Candidate(d) /\ Fresh(t)
            /\ row' = [row EXCEPT ![d] = Leased(d, t)]
    /\ worker' = [worker EXCEPT ![w] = Free("waiting")]
    /\ UNCHANGED <<enabled, wake, todo, histVars>>

-----------------------------------------------------------------------------
(* deliver_once *)

\* next_retry_at: 1 << (attempt_number - 1) minutes, None once the attempts
\* are exhausted.
BackoffMinutes == <<1, 2, 4, 8>>
\* Mutants: the exhausted-attempts test off by one, either way.
HasRetryTooFew(n) == n < MaxAttempts - 1
HasRetryTooMany(n) == n <= MaxAttempts
HasRetry(n) == n < MaxAttempts

\* What the endpoint answers: 2xx, 5xx or no answer, or anything else (a 3xx or
\* 4xx, a target blocked by the egress policy).
Answer == {"success", "unavailable", "refusal"}

\* classify_http_response and classify_transport_error.
Classify(answer, n) ==
    IF answer = "success" THEN "delivered"
    ELSE IF answer = "unavailable" /\ HasRetry(n) THEN "retryable"
    ELSE "failed"

\* next_attempt_at is computed here, before the outcome is recorded.
Answered(w, o) ==
    [phase |-> "finalizing", delivery |-> worker[w].delivery,
     token |-> worker[w].token, attempts |-> worker[w].attempts, outcome |-> o,
     retryIn |-> IF o = "retryable" THEN BackoffMinutes[worker[w].attempts + 1] ELSE 0]

Post(w) ==
    /\ worker[w].phase = "posting"
    /\ \E answer \in Answer :
         LET d == worker[w].delivery
             o == Classify(answer, worker[w].attempts + 1)
         IN  /\ worker' = [worker EXCEPT ![w] = Answered(w, o)]
             /\ posts' = [posts EXCEPT ![d] = @ + 1]
             /\ acked' = IF answer = "success" THEN acked \cup {d} ELSE acked
             /\ refused' = IF answer = "refusal" THEN refused \cup {d} ELSE refused
    /\ UNCHANGED <<dbVars, wake, todo, faults, lost>>

-----------------------------------------------------------------------------
(* finalize_delivery_attempt *)

\* Mutant: the outcome's name is stored as the row's status.
RecordedRawStatus(r, wk) ==
    [r EXCEPT !.status = wk.outcome, !.attempts = @ + 1, !.token = None, !.expIn = 0]

\* Mutant: the attempt is not counted.
RecordedUncounted(r, wk) ==
    [r EXCEPT !.status = IF wk.outcome = "retryable" THEN "pending" ELSE wk.outcome,
              !.nextIn = IF wk.outcome = "retryable" THEN wk.retryIn ELSE @,
              !.token = None,
              !.expIn = 0]

\* The three UPDATEs: attempts + 1, the claim cleared, and per outcome the
\* status and, for a retry, next_attempt_at.
Recorded(r, wk) ==
    [status |-> IF wk.outcome = "retryable" THEN "pending" ELSE wk.outcome,
     hook |-> r.hook,
     attempts |-> r.attempts + 1,
     nextIn |-> IF wk.outcome = "retryable" THEN wk.retryIn ELSE r.nextIn,
     token |-> None,
     expIn |-> 0]

\* Mutant: WHERE id = $1
UpdateMatchesId(w) == Inserted(worker[w].delivery)

\* WHERE id = $1 AND claim_token = $2
UpdateMatches(w) == row[worker[w].delivery].token = worker[w].token

\* The UPDATE affects one row, or none when the claim was taken over; the loop
\* goes on either way.
Finalize(w) ==
    LET d == worker[w].delivery
    IN  /\ worker[w].phase = "finalizing"
        /\ IF UpdateMatches(w)
             THEN row' = [row EXCEPT ![d] = Recorded(row[d], worker[w])] /\ UNCHANGED lost
             ELSE lost' = [lost EXCEPT ![d] = @ + 1] /\ UNCHANGED row
        /\ worker' = [worker EXCEPT ![w] = Free("claiming")]
        /\ UNCHANGED <<enabled, wake, todo, faults, posts, acked, refused>>

\* The UPDATE returns an error and ends the batch; it may have been applied.
FinalizeError(w) ==
    LET d == worker[w].delivery
    IN  /\ Fault
        /\ worker[w].phase = "finalizing"
        /\ \/ lost' = [lost EXCEPT ![d] = @ + 1] /\ UNCHANGED row
           \/ /\ UpdateMatches(w)
              /\ row' = [row EXCEPT ![d] = Recorded(row[d], worker[w])]
              /\ UNCHANGED lost
        /\ worker' = [worker EXCEPT ![w] = Free("waiting")]
        /\ UNCHANGED <<enabled, wake, todo, posts, acked, refused>>

-----------------------------------------------------------------------------
(* Processes and time *)

\* The process dies, or is shut down (notify_shutdown wakes a waiting loop,
\* abort cancels any other): its loop, its permit and its enqueues are gone.
Stop(w) ==
    /\ Fault
    /\ Up(w)
    /\ worker' = [worker EXCEPT ![w] = Free("down")]
    /\ wake' = [wake EXCEPT ![w] = FALSE]
    /\ todo' = [todo EXCEPT ![w] = {}]
    /\ lost' = IF worker[w].phase = "finalizing"
                 THEN [lost EXCEPT ![worker[w].delivery] = @ + 1] ELSE lost
    /\ UNCHANGED <<dbVars, posts, acked, refused>>

\* WebhookService::start; the first tick of the interval is consumed.
Start(w) ==
    /\ worker[w].phase = "down"
    /\ worker' = [worker EXCEPT ![w] = Free("waiting")]
    /\ UNCHANGED <<dbVars, wake, todo, faults, histVars>>

\* Leases that a running worker still relies on and that this minute ends.
Outlived == {w \in Server : /\ Holding(w) /\ Current(w)
                            /\ row[worker[w].delivery].expIn = 1}

Down1(n) == IF n > -MaxLate THEN n - 1 ELSE n

Aged(r) ==
    [status |-> r.status, hook |-> r.hook, attempts |-> r.attempts,
     nextIn |-> Down1(r.nextIn), token |-> r.token,
     expIn |-> IF r.expIn > 0 THEN r.expIn - 1 ELSE r.expIn]

\* A minute passes.  A POST is cut off after DELIVERY_TIMEOUT (10 s) while the
\* lease lasts 5 minutes, so that a worker outlives its lease is a fault.
Tick ==
    /\ faults' = faults + Cardinality(Outlived)
    /\ faults' <= MaxFaults
    /\ row' = [d \in Delivery |-> IF row[d].status \in {"pending", "processing"}
                                    THEN Aged(row[d]) ELSE row[d]]
    /\ worker' = [w \in Server |-> IF worker[w].outcome = "retryable"
                                     THEN [worker[w] EXCEPT !.retryIn = Down1(@)]
                                     ELSE worker[w]]
    /\ UNCHANGED <<enabled, wake, todo, histVars>>

-----------------------------------------------------------------------------

Produce(s) == EnqueueSelect(s) \/ EnqueueInsert(s) \/ EnqueueError(s)

Deliver(w) ==
    \/ Woken(w) \/ Poll(w)
    \/ Claim(w) \/ NothingDue(w) \/ ClaimError(w)
    \/ Post(w) \/ Finalize(w) \/ FinalizeError(w)

Next ==
    \/ EditWebhooks
    \/ Tick
    \/ \E s \in Server : Produce(s) \/ Deliver(s) \/ Stop(s) \/ Start(s)

Spec == Init /\ [][Next]_vars

\* What the loop does by itself, when nothing fails.
LoopStep(w) == Poll(w) \/ Claim(w) \/ NothingDue(w) \/ Post(w) \/ Finalize(w)

\* tokio keeps polling the loop of a running process, a stopped process is
\* started again, and time passes.
Fairness ==
    /\ WF_vars(Tick)
    /\ \A w \in Server : WF_vars(Start(w)) /\ WF_vars(LoopStep(w))

FairSpec == Spec /\ Fairness

-----------------------------------------------------------------------------
(* Properties *)

\* A row is recorded by at most one of the workers that POSTed it: of all the
\* workers that hold a row, at most one carries the row's current token, and
\* that one read the attempt count the row still has.  The claim_token guard of
\* finalize_delivery_attempt relies on it when a lease was taken over.
ClaimExclusive ==
    \A w \in Server : Holding(w) /\ Current(w) =>
        /\ row[worker[w].delivery].status = "processing"
        /\ row[worker[w].delivery].attempts = worker[w].attempts
        /\ \A v \in Server : Holding(v) /\ v # w => worker[v].token # worker[w].token

Finalizing(d) == {w \in Server : worker[w].phase = "finalizing" /\ worker[w].delivery = d}

\* Workers that hold the row without a valid lease on it.
Overdue(d) == {w \in Server : /\ Holding(w) /\ worker[w].delivery = d
                              /\ ~Current(w) \/ row[d].expIn <= 0}

\* Every POST is accounted for: it is counted in attempts, or its outcome is
\* about to be recorded, or the outcome was lost to a crash, a failed UPDATE or
\* a takeover.  No outcome is counted twice.
PostsAccounted ==
    \A d \in Delivery :
        posts[d] = row[d].attempts + lost[d] + Cardinality(Finalizing(d))

\* The endpoint is called at most MAX_DELIVERY_ATTEMPTS times, plus once for
\* every fault: without a crash, a database error or a worker stalled past its
\* lease there is no duplicate delivery.
DuplicatesNeedFaults ==
    \A d \in Delivery :
        /\ row[d].attempts <= MaxAttempts
        /\ lost[d] + Cardinality(Overdue(d)) <= faults

\* A row is marked delivered only when an endpoint answered 2xx, and failed only
\* when one refused it for good or the attempts are used up.
OutcomeJustified ==
    \A d \in Delivery :
        /\ row[d].status = "delivered" => d \in acked
        /\ row[d].status = "failed" => d \in refused \/ row[d].attempts = MaxAttempts

\* A row that is delivered or failed is final: no late worker, takeover or
\* retry reopens or rewrites it.
TerminalStable ==
    [][\A d \in Delivery : row[d].status \in Terminal => row'[d] = row[d]]_vars

\* Every row that was inserted is delivered or given up eventually, whichever
\* worker dies while holding it.
EventuallySettled ==
    \A d \in Delivery : Inserted(d) ~> row[d].status \in Terminal

-----------------------------------------------------------------------------
(* Refinement *)

QueueState(r) == IF r.status \in {"pending", "processing"} THEN "queued" ELSE r.status

Queue == INSTANCE DeliveryQueue
    WITH state <- [d \in Delivery |-> QueueState(row[d])],
         tries <- [d \in Delivery |-> row[d].attempts]

\* The table with its leases, workers and takeovers is the queue that
\* DeliveryQueue promises: an attempt is recorded once, at most MaxAttempts are,
\* and a settled delivery stays settled.
ImplementsQueue == Queue!QSpec

\* With the delivery loops running it also keeps attempting what is queued.
ImplementsFairQueue == Queue!QFairSpec
=============================================================================
