--------------------------- MODULE ActuationOutbox ---------------------------
(***************************************************************************)
(* The transactional outbox of simulated actuation: the rows of            *)
(* control_actuation_outbox, and the publisher processes that claim them   *)
(* under a lease, hand them to RabbitMQ and record the outcome.            *)
(*                                                                         *)
(* Every database statement is one step; between two steps of a publisher  *)
(* the others run, time passes, or the process dies and is restarted.      *)
(*                                                                         *)
(* Abstractions: time is counted down in each row (ticks until the row     *)
(* may be claimed) and not up in a clock; the backoff formula is any delay *)
(* of RetryDelays; which of the claimable rows a claim takes is left open, *)
(* but for the batch limit.                                                *)
(***************************************************************************)
EXTENDS Integers, FiniteSets

CONSTANTS
    Events,         \* the outbox events, one per command
    Publishers,     \* publisher processes
    NoEvent,        \* a value that is no event
    MaxAttempts,    \* ACTUATION_OUTBOX_MAX_ATTEMPTS
    BatchLimit,     \* claim(limit)
    LeaseTime,      \* claim(lease_seconds), in ticks
    RetryDelays,    \* the delays retry_or_fail may choose, in ticks
    MaxCrashes      \* bound on the process deaths of a behaviour

ASSUME OutboxAssumption ==
    /\ NoEvent \notin Events
    /\ IsFiniteSet(Publishers)
    /\ MaxAttempts \in Nat \ {0}
    /\ BatchLimit \in Nat \ {0}
    /\ LeaseTime \in Nat \ {0}
    /\ RetryDelays \subseteq Nat /\ RetryDelays # {}
    /\ MaxCrashes \in Nat

VARIABLES
    status,     \* status[e]: the row's status column
    attempts,   \* attempts[e]: the row's attempt_count column
    timer,      \* timer[e]: ticks until available_at (pending) or lease_until (publishing)
    stage,      \* stage[p]: where publish_once is in its loop
    batch,      \* batch[p]: the claimed events not yet tried
    current,    \* current[p]: the event being tried
    lease,      \* lease[p]: what is left of the lease p took with its claim
    sent,       \* sent[e]: copies of e the broker accepted (history)
    crashes     \* process deaths so far

rowVars == <<status, attempts, timer>>
publisherVars == <<stage, batch, current, lease>>
outboxVars == <<status, attempts, timer, stage, batch, current, lease, sent, crashes>>

RowStatuses == {"absent", "pending", "publishing", "published", "failed"}
Stages == {"idle", "publish", "mark", "settle"}

\* Every variable keeps its type: rows have a status of the table's CHECK
\* constraint and non-negative counters, publishers a stage of publish_once.
OutboxTypeOK ==
    /\ status \in [Events -> RowStatuses]
    /\ attempts \in [Events -> Nat]
    /\ timer \in [Events -> Nat]
    /\ stage \in [Publishers -> Stages]
    /\ batch \in [Publishers -> SUBSET Events]
    /\ current \in [Publishers -> Events \cup {NoEvent}]
    /\ lease \in [Publishers -> Nat]
    /\ sent \in [Events -> Nat]
    /\ crashes \in Nat

OutboxInit ==
    /\ status = [e \in Events |-> "absent"]
    /\ attempts = [e \in Events |-> 0]
    /\ timer = [e \in Events |-> 0]
    /\ stage = [p \in Publishers |-> "idle"]
    /\ batch = [p \in Publishers |-> {}]
    /\ current = [p \in Publishers |-> NoEvent]
    /\ lease = [p \in Publishers |-> 0]
    /\ sent = [e \in Events |-> 0]
    /\ crashes = 0

-----------------------------------------------------------------------------
(***************************************************************************)
(* Rows.                                                                   *)
(***************************************************************************)

\* insert_for_request, in the transaction that prepares the intent: due at
\* once, never tried.  ON CONFLICT DO NOTHING: an existing row stays.
Insert(e) ==
    /\ status[e] = "absent"
    /\ status' = [status EXCEPT ![e] = "pending"]
    /\ UNCHANGED <<attempts, timer, publisherVars, sent, crashes>>

\* Deviation: only pending rows are picked, so a lease that ran out is final.
Claimable_NoLeaseExpiry == {e \in Events : status[e] = "pending" /\ timer[e] = 0}

\* The rows a claim may pick: due, or held by a lease that ran out.
Claimable == {e \in Events : status[e] \in {"pending", "publishing"} /\ timer[e] = 0}

\* A batch is some of the claimable rows, as many as the limit allows: the
\* statement skips the rows that another transaction holds locked.
ClaimableBatches == {S \in SUBSET Claimable : S # {} /\ Cardinality(S) <= BatchLimit}

\* Deviation: the claim takes the lease but does not count the attempt.
Claim_Uncounted(p) ==
    /\ stage[p] = "idle"
    /\ \E S \in ClaimableBatches :
        /\ status' = [e \in Events |-> IF e \in S THEN "publishing" ELSE status[e]]
        /\ timer' = [e \in Events |-> IF e \in S THEN LeaseTime ELSE timer[e]]
        /\ batch' = [batch EXCEPT ![p] = S]
    /\ lease' = [lease EXCEPT ![p] = LeaseTime]
    /\ stage' = [stage EXCEPT ![p] = "publish"]
    /\ UNCHANGED <<attempts, current, sent, crashes>>

\* claim: one statement marks the picked rows, counts the attempt and starts
\* the lease.  An empty pick changes nothing and is not a step.
Claim(p) ==
    /\ stage[p] = "idle"
    /\ \E S \in ClaimableBatches :
        /\ status' = [e \in Events |-> IF e \in S THEN "publishing" ELSE status[e]]
        /\ attempts' = [e \in Events |-> IF e \in S THEN attempts[e] + 1 ELSE attempts[e]]
        /\ timer' = [e \in Events |-> IF e \in S THEN LeaseTime ELSE timer[e]]
        /\ batch' = [batch EXCEPT ![p] = S]
    /\ lease' = [lease EXCEPT ![p] = LeaseTime]
    /\ stage' = [stage EXCEPT ![p] = "publish"]
    /\ UNCHANGED <<current, sent, crashes>>

-----------------------------------------------------------------------------
(***************************************************************************)
(* publish_once: for each event of the batch, publish, then record it.     *)
(***************************************************************************)

\* The loop takes the next event of the batch and leaves for stage s with it.
TakeEvent(p, e, s) ==
    /\ stage[p] = "publish"
    /\ e \in batch[p]
    /\ current' = [current EXCEPT ![p] = e]
    /\ batch' = [batch EXCEPT ![p] = @ \ {e}]
    /\ stage' = [stage EXCEPT ![p] = s]

\* The loop is done with its event: the next one, or the end of publish_once.
NextEvent(p) ==
    /\ current' = [current EXCEPT ![p] = NoEvent]
    /\ stage' = [stage EXCEPT ![p] = IF batch[p] = {} THEN "idle" ELSE "publish"]

\* publish_json returned True: the broker has the event and confirmed it.
PublishConfirmed(p, e) ==
    /\ TakeEvent(p, e, "mark")
    /\ sent' = [sent EXCEPT ![e] = @ + 1]
    /\ UNCHANGED <<rowVars, lease, crashes>>

\* publish_json returned False after the broker took the event: the confirm
\* was lost with the connection.
ConfirmLost(p, e) ==
    /\ TakeEvent(p, e, "settle")
    /\ sent' = [sent EXCEPT ![e] = @ + 1]
    /\ UNCHANGED <<rowVars, lease, crashes>>

\* Deviation: the False that publish_json returned is ignored.
PublishRefused_Ignored(p, e) ==
    /\ TakeEvent(p, e, "mark")
    /\ UNCHANGED <<rowVars, lease, sent, crashes>>

\* publish_json returned False and the broker has nothing.
PublishRefused(p, e) ==
    /\ TakeEvent(p, e, "settle")
    /\ UNCHANGED <<rowVars, lease, sent, crashes>>

\* The row update of mark_published: only a publishing row changes, whoever
\* claimed it, and no row changing is not an error.
RecordPublished(e) ==
    IF status[e] = "publishing"
    THEN /\ status' = [status EXCEPT ![e] = "published"]
         /\ timer' = [timer EXCEPT ![e] = 0]
    ELSE UNCHANGED <<status, timer>>

\* Deviation: mark_published updates the row whatever its status.
MarkPublished_AnyStatus(p) ==
    /\ stage[p] = "mark"
    /\ status' = [status EXCEPT ![current[p]] = "published"]
    /\ timer' = [timer EXCEPT ![current[p]] = 0]
    /\ NextEvent(p)
    /\ UNCHANGED <<attempts, batch, lease, sent, crashes>>

MarkPublished(p) ==
    /\ stage[p] = "mark"
    /\ RecordPublished(current[p])
    /\ NextEvent(p)
    /\ UNCHANGED <<attempts, batch, lease, sent, crashes>>

\* mark_published raised, its update committed or not: the same handler as
\* for a failed publication takes over.
MarkPublishedErrs(p) ==
    /\ stage[p] = "mark"
    /\ RecordPublished(current[p]) \/ UNCHANGED <<status, timer>>
    /\ stage' = [stage EXCEPT ![p] = "settle"]
    /\ UNCHANGED <<attempts, batch, current, lease, sent, crashes>>

\* Deviation: the retry is written with the status an intent would get.
RetryOrFail_IntentStatus(p) ==
    /\ stage[p] = "settle"
    /\ LET e == current[p] IN
        /\ status[e] = "publishing"
        /\ status' = [status EXCEPT ![e] = IF attempts[e] >= MaxAttempts THEN "failed" ELSE "retry_pending"]
        /\ \E d \in RetryDelays : timer' = [timer EXCEPT ![e] = d]
    /\ NextEvent(p)
    /\ UNCHANGED <<attempts, batch, lease, sent, crashes>>

\* Deviation: one attempt more than the limit.
RetryOrFail_OffByOne(p) ==
    /\ stage[p] = "settle"
    /\ LET e == current[p] IN
        /\ status[e] = "publishing"
        /\ status' = [status EXCEPT ![e] = IF attempts[e] > MaxAttempts THEN "failed" ELSE "pending"]
        /\ \E d \in RetryDelays : timer' = [timer EXCEPT ![e] = d]
    /\ NextEvent(p)
    /\ UNCHANGED <<attempts, batch, lease, sent, crashes>>

\* retry_or_fail on a publishing row, whoever claimed it: failed when the row
\* has used its attempts (it is then never due), pending after a delay if not.
RetryOrFail(p) ==
    /\ stage[p] = "settle"
    /\ LET e == current[p]
           exhausted == attempts[e] >= MaxAttempts
       IN
        /\ status[e] = "publishing"
        /\ status' = [status EXCEPT ![e] = IF exhausted THEN "failed" ELSE "pending"]
        /\ \E d \in (IF exhausted THEN {0} ELSE RetryDelays) : timer' = [timer EXCEPT ![e] = d]
    /\ NextEvent(p)
    /\ UNCHANGED <<attempts, batch, lease, sent, crashes>>

\* The process is gone, its batch with it; the container starts it afresh.
Restart(p) ==
    /\ stage' = [stage EXCEPT ![p] = "idle"]
    /\ batch' = [batch EXCEPT ![p] = {}]
    /\ current' = [current EXCEPT ![p] = NoEvent]
    /\ lease' = [lease EXCEPT ![p] = 0]

\* retry_or_fail found no publishing row: .one() raises NoResultFound, which
\* nothing between publish_once and main catches.
RowNotPublishing(p) ==
    /\ stage[p] = "settle"
    /\ status[current[p]] # "publishing"
    /\ Restart(p)
    /\ UNCHANGED <<rowVars, sent, crashes>>

\* The publisher dies in the middle of its batch, killed or by a database
\* error in retry_or_fail.
Crash(p) ==
    /\ stage[p] # "idle"
    /\ crashes < MaxCrashes
    /\ crashes' = crashes + 1
    /\ Restart(p)
    /\ UNCHANGED <<rowVars, sent>>

-----------------------------------------------------------------------------
Elapsed(t) == IF t > 0 THEN t - 1 ELSE 0

\* NOW() advances under every available_at, lease_until and publisher.
Tick ==
    /\ (\E e \in Events : timer[e] > 0) \/ (\E p \in Publishers : lease[p] > 0)
    /\ timer' = [e \in Events |-> Elapsed(timer[e])]
    /\ lease' = [p \in Publishers |-> Elapsed(lease[p])]
    /\ UNCHANGED <<status, attempts, stage, batch, current, sent, crashes>>

\* One iteration step of main's loop.
PublisherStep(p) ==
    \/ Claim(p)
    \/ \E e \in Events : PublishConfirmed(p, e) \/ ConfirmLost(p, e) \/ PublishRefused(p, e)
    \/ MarkPublished(p)
    \/ MarkPublishedErrs(p)
    \/ RetryOrFail(p)
    \/ RowNotPublishing(p)

OutboxNext ==
    \/ \E e \in Events : Insert(e)
    \/ \E p \in Publishers : PublisherStep(p) \/ Crash(p)
    \/ Tick

\* Publishers keep polling (restart: unless-stopped) and time passes; that
\* events are inserted, or that processes die, is not assumed.
OutboxFairness ==
    /\ \A p \in Publishers : WF_outboxVars(PublisherStep(p))
    /\ WF_outboxVars(Tick)

OutboxSpec == OutboxInit /\ [][OutboxNext]_outboxVars /\ OutboxFairness

-----------------------------------------------------------------------------
(***************************************************************************)
(* What the outbox promises.                                               *)
(***************************************************************************)

\* A row is marked published only if the broker accepted the event, however
\* crashes, lost confirms and expired leases interleave.
PublishedWasSent == \A e \in Events : status[e] = "published" => sent[e] > 0

\* A row waits for another attempt only while it has one left, and fails
\* only when it has none: a stale publisher cannot give a row up early.
RetryBudget ==
    \A e \in Events :
        /\ status[e] = "pending" => attempts[e] < MaxAttempts
        /\ status[e] = "failed" => attempts[e] >= MaxAttempts

\* Each claim is a persisted publish attempt: the broker never holds more
\* copies of an event than its row has counted attempts.
CopiesAccounted == \A e \in Events : sent[e] <= attempts[e]

\* No write of a publisher that lost its lease moves a row that is already
\* published or failed.
TerminalRowsFinal ==
    [][\A e \in Events :
        status[e] \in {"published", "failed"} =>
            /\ status'[e] = status[e]
            /\ attempts'[e] = attempts[e]]_outboxVars

\* Every event is published or failed in the end: a claim that died is taken
\* over when its lease ends, and failing publications exhaust the attempts.
EventSettles ==
    \A e \in Events : status[e] = "pending" ~> status[e] \in {"published", "failed"}

\* p is responsible for e: in its batch, or being tried.
Holds(p, e) == e \in batch[p] \/ e = current[p]

\* The operations manual: concurrent publishers can claim different rows but
\* not the same row during a lease.
LeaseExclusive ==
    \A p, q \in Publishers : \A e \in Events :
        Holds(p, e) /\ Holds(q, e) /\ lease[p] > 0 /\ lease[q] > 0 => p = q

\* The operations manual: outbox failure means the event was not delivered
\* to the broker.
FailedWasNotSent == \A e \in Events : status[e] = "failed" => sent[e] = 0

=============================================================================
