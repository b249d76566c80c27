-------------------------- MODULE ActuationDelivery --------------------------
(***************************************************************************)
(* Simulated actuation from a recommendation message to a settled intent:  *)
(* the recommendation consumers (which also sweep due retries), the        *)
(* dispatch consumers, the intents they share in PostgreSQL, the two       *)
(* RabbitMQ queues they read and the dead-letter queue.                    *)
(*                                                                         *)
(* A step is one database statement, one broker operation, one call of     *)
(* the adapter or one read of the clock; everything else may happen        *)
(* between two steps of a worker.  A statement may fail, whether or not it *)
(* committed; a channel may be lost, so that the broker delivers the       *)
(* message again while the worker is still busy with it; a worker may die. *)
(*                                                                         *)
(* The outbox is its promise: a prepared event reaches the dispatch queue  *)
(* one or more times (ActuationOutbox is the publisher in detail).         *)
(***************************************************************************)
EXTENDS Integers, FiniteSets

CONSTANTS
    Recommendations,    \* recommendation ids; intent, command and event are one per id
    NoRec,              \* a value that is no recommendation
    Consumers,          \* simulated_actuation_consumer processes
    Dispatchers,        \* simulated_dispatch_consumer processes
    Deadlines,          \* values of expires_at
    Horizon,            \* the last tick: by then every deadline has passed
    RetryDelays,        \* delays _retry_at may choose
    MaxRetryAttempts,   \* SIMULATED_ACTUATION_MAX_RETRY_ATTEMPTS
    MaxPublications,    \* bound on recommendation messages
    MaxCopies,          \* bound on the copies of one dispatch event
    MaxLosses,          \* bound on lost channels
    MaxCrashes,         \* bound on worker deaths
    MaxDbFailures       \* bound on failing statements

Workers == Consumers \cup Dispatchers

Bounds == {"publications", "losses", "crashes", "dbFailures"}

ASSUME DeliveryAssumption ==
    /\ NoRec \notin Recommendations
    /\ Recommendations \cap Bounds = {}
    /\ Consumers \cap Dispatchers = {}
    /\ Horizon \in Nat
    /\ Deadlines \subseteq 1 .. Horizon
    /\ RetryDelays \subseteq Nat \ {0} /\ RetryDelays # {}
    /\ MaxRetryAttempts \in Nat \ {0}
    /\ {MaxPublications, MaxCopies, MaxLosses, MaxCrashes, MaxDbFailures} \subseteq Nat

VARIABLES
    now,            \* the clock
    intent,         \* intent[r]: the row of control_actuation_delivery_intents
    prepared,       \* the recommendations with an outbox event
    recQueue,       \* recQueue[<<r, d>>]: recommendation messages waiting
    dispatchQueue,  \* dispatchQueue[r]: dispatch events waiting
    deadLetters,    \* what the dead-letter queue has received
    worker,         \* worker[w]: what w is doing
    effects,        \* effects[r]: attempts in which the adapter took effect (history)
    used            \* what is used of each bound

deliveryVars ==
    <<now, intent, prepared, recQueue, dispatchQueue, deadLetters, worker, effects, used>>
queueVars == <<recQueue, dispatchQueue>>

Statuses ==
    {"absent", "received", "ready_to_dispatch", "dispatched", "retry_pending",
     "acknowledged", "rejected", "expired", "failed_final"}

Terminal == {"acknowledged", "rejected", "expired", "failed_final"}

Row == [status : Statuses, retries : Nat, expires : Nat, retryAt : Nat]

NoRow == [status |-> "absent", retries |-> 0, expires |-> 0, retryAt |-> 0]

Steps ==
    {"idle", "sweep", "lookup", "check", "expire", "prepare", "claim", "deliver",
     "acknowledge", "failure", "deadletter", "ack", "nack"}

\* Why a worker runs _dispatch: a message whose intent it has just created, a
\* duplicate of a message whose retry is due, a due retry, a dispatch event.
Tasks == {"none", "fresh", "duplicate", "retry", "dispatch"}

\* step: where the worker is; rec, deadline, task: the request at hand;
\* attempt, retryable: the dispatch attempt and how it failed; due: what is
\* left of the sweep; failed: its outcomes that want a dead letter; inflight:
\* the broker still awaits an ACK for its message.
WorkerState ==
    [step : Steps, rec : Recommendations \cup {NoRec}, deadline : Nat, task : Tasks,
     attempt : Nat, retryable : BOOLEAN, due : SUBSET Recommendations,
     failed : SUBSET Recommendations, inflight : BOOLEAN]

Idle ==
    [step |-> "idle", rec |-> NoRec, deadline |-> 0, task |-> "none",
     attempt |-> 0, retryable |-> FALSE, due |-> {}, failed |-> {}, inflight |-> FALSE]

DeadLetters == [rec : Recommendations, from : {"recommendation", "retry", "dispatch"}]

\* Rows, messages and workers keep the shape their tables and handlers give them.
DeliveryTypeOK ==
    /\ now \in 0 .. Horizon
    /\ intent \in [Recommendations -> Row]
    /\ prepared \subseteq Recommendations
    /\ recQueue \in [Recommendations \X Deadlines -> Nat]
    /\ dispatchQueue \in [Recommendations -> Nat]
    /\ deadLetters \subseteq DeadLetters
    /\ worker \in [Workers -> WorkerState]
    /\ effects \in [Recommendations -> SUBSET Nat]
    /\ used \in [Bounds \cup Recommendations -> Nat]

DeliveryInit ==
    /\ now = 0
    /\ intent = [r \in Recommendations |-> NoRow]
    /\ prepared = {}
    /\ recQueue = [m \in Recommendations \X Deadlines |-> 0]
    /\ dispatchQueue = [r \in Recommendations |-> 0]
    /\ deadLetters = {}
    /\ worker = [w \in Workers |-> Idle]
    /\ effects = [r \in Recommendations |-> {}]
    /\ used = [b \in Bounds \cup Recommendations |-> 0]

\* One more of bound b, while it allows.
Use(b, limit) == used[b] < limit /\ used' = [used EXCEPT ![b] = @ + 1]

-----------------------------------------------------------------------------
(***************************************************************************)
(* The environment: the control worker publishes a recommendation, again   *)
(* with a later deadline when its telemetry is delivered again; the outbox *)
(* delivers a prepared event; time passes.                                 *)
(***************************************************************************)

PublishRecommendation(r, d) ==
    /\ d > now
    /\ Use("publications", MaxPublications)
    /\ recQueue' = [recQueue EXCEPT ![<<r, d>>] = @ + 1]
    /\ UNCHANGED <<now, intent, prepared, dispatchQueue, deadLetters, worker, effects>>

OutboxDelivers(r) ==
    /\ r \in prepared
    /\ Use(r, MaxCopies)
    /\ dispatchQueue' = [dispatchQueue EXCEPT ![r] = @ + 1]
    /\ UNCHANGED <<now, intent, prepared, recQueue, deadLetters, worker, effects>>

Tick ==
    /\ now < Horizon
    /\ now' = now + 1
    /\ UNCHANGED <<intent, prepared, queueVars, deadLetters, worker, effects, used>>

-----------------------------------------------------------------------------
(***************************************************************************)
(* The statements workers execute, as changes of the row.  Each requires   *)
(* the status it moves from: transition() is a compare-and-set.            *)
(***************************************************************************)

At(w, s) == worker[w].step = s

\* The row of the request w works on.
RowOf(w) == intent[worker[w].rec]

\* transition(): status and next_retry_at are overwritten, retry_count on request.
Becomes(w, to, increment, retryAt) ==
    intent' = [intent EXCEPT ![worker[w].rec] =
        [RowOf(w) EXCEPT !.status = to, !.retries = @ + increment, !.retryAt = retryAt]]

\* from_statuses of a request that has not been claimed.
Unclaimed(w) ==
    CASE worker[w].task = "fresh" -> "received"
      [] worker[w].task = "dispatch" -> "ready_to_dispatch"
      [] OTHER -> "retry_pending"

\* create_or_get: the unique idempotency key lets one insertion through.
CommitCreate(w) ==
    /\ At(w, "lookup")
    /\ RowOf(w).status = "absent"
    /\ intent' = [intent EXCEPT ![worker[w].rec] =
                     [NoRow EXCEPT !.status = "received", !.expires = worker[w].deadline]]
    /\ UNCHANGED prepared

CommitExpire(w) ==
    /\ At(w, "expire")
    /\ RowOf(w).status = Unclaimed(w)
    /\ Becomes(w, "expired", 0, 0)
    /\ UNCHANGED prepared

\* Deviation: the outbox event is not part of the transaction.
CommitPrepare_NoEvent(w) ==
    /\ At(w, "prepare")
    /\ RowOf(w).status = "received"
    /\ Becomes(w, "ready_to_dispatch", 0, 0)
    /\ UNCHANGED prepared

\* prepare_dispatch_with_outbox: received -> validated -> ready_to_dispatch
\* and the outbox event, one transaction.
CommitPrepare(w) ==
    /\ At(w, "prepare")
    /\ RowOf(w).status = "received"
    /\ Becomes(w, "ready_to_dispatch", 0, 0)
    /\ prepared' = prepared \cup {worker[w].rec}

CommitReject(w) ==
    /\ At(w, "prepare")
    /\ RowOf(w).status = "received"
    /\ Becomes(w, "rejected", 0, 0)
    /\ UNCHANGED prepared

\* Deviation: the claim trusts the status read before it.
CommitClaim_Unguarded(w) ==
    /\ At(w, "claim")
    /\ Becomes(w, "dispatched", 1, 0)
    /\ UNCHANGED prepared

\* Deviation: a dispatched intent may be claimed again.
CommitClaim_Reclaims(w) ==
    /\ At(w, "claim")
    /\ RowOf(w).status \in {Unclaimed(w), "dispatched"}
    /\ Becomes(w, "dispatched", 1, 0)
    /\ UNCHANGED prepared

CommitClaim(w) ==
    /\ At(w, "claim")
    /\ RowOf(w).status = Unclaimed(w)
    /\ Becomes(w, "dispatched", 1, 0)
    /\ UNCHANGED prepared

CommitAcknowledge(w) ==
    /\ At(w, "acknowledge")
    /\ RowOf(w).status = "dispatched"
    /\ Becomes(w, "acknowledged", 0, 0)
    /\ UNCHANGED prepared

\* Deviation: the last attempt is retried too.
CanRetry_OffByOne(w) == worker[w].retryable /\ worker[w].attempt <= MaxRetryAttempts

\* The limit is compared with the attempt the claim returned, not with the row.
CanRetry(w) == worker[w].retryable /\ worker[w].attempt < MaxRetryAttempts

\* Past the horizon nothing changes any more: a later time counts as the horizon.
Capped(t) == IF t < Horizon THEN t ELSE Horizon

CommitRetry(w) ==
    /\ At(w, "failure") /\ CanRetry(w)
    /\ RowOf(w).status = "dispatched"
    /\ \E d \in RetryDelays : Becomes(w, "retry_pending", 0, Capped(now + d))
    /\ UNCHANGED prepared

CommitFailed(w) ==
    /\ At(w, "failure") /\ ~CanRetry(w)
    /\ RowOf(w).status = "dispatched"
    /\ Becomes(w, "failed_final", 0, 0)
    /\ UNCHANGED prepared

\* The statement that w's step executes.
Commit(w) ==
    \/ CommitCreate(w) \/ CommitExpire(w) \/ CommitPrepare(w) \/ CommitReject(w)
    \/ CommitClaim(w) \/ CommitAcknowledge(w) \/ CommitRetry(w) \/ CommitFailed(w)

-----------------------------------------------------------------------------
(***************************************************************************)
(* A worker's control.                                                     *)
(***************************************************************************)

Goto(w, s) == worker' = [worker EXCEPT ![w].step = s]

\* w goes on with its sweep, where due is left to do and failed to quarantine.
Sweeping(due, failed) ==
    IF due \cup failed = {} THEN Idle
    ELSE [Idle EXCEPT !.step = "sweep", !.due = due, !.failed = failed]

\* Deviation: the outcomes of a sweep are lost with its last request.
Finish_DropsOutcomes(w) == worker' = [worker EXCEPT ![w] = Sweeping(@.due, {})]

\* w is done with a request: the rest of its sweep, or its next message.
Finish(w) == worker' = [worker EXCEPT ![w] = Sweeping(@.due, @.failed)]

\* process() or _dispatch() returned an outcome that needs no dead letter.
Decided(w) == IF worker[w].task = "retry" THEN Finish(w) ELSE Goto(w, "ack")

\* The broker takes w's message back, if it still waits for the ACK.
Requeued(w) ==
    LET r == worker[w].rec IN
    IF ~worker[w].inflight THEN UNCHANGED queueVars
    ELSE IF w \in Dispatchers
         THEN /\ dispatchQueue' = [dispatchQueue EXCEPT ![r] = @ + 1]
              /\ UNCHANGED recQueue
         ELSE /\ recQueue' = [recQueue EXCEPT ![<<r, worker[w].deadline>>] = @ + 1]
              /\ UNCHANGED dispatchQueue

Origin(w) ==
    IF w \in Dispatchers THEN "dispatch"
    ELSE IF worker[w].task = "retry" THEN "retry" ELSE "recommendation"

DeadLettered(w) == deadLetters' = deadLetters \cup {[rec |-> worker[w].rec, from |-> Origin(w)]}

\* What a step of w alone leaves as it is.
LocalStep == UNCHANGED <<now, queueVars, deadLetters, effects, used>>

\* Deviation: a retry is due only strictly after next_retry_at.
IsDue_Strict(r) == intent[r].status = "retry_pending" /\ intent[r].retryAt < now

IsDue(r) == intent[r].status = "retry_pending" /\ intent[r].retryAt <= now

\* process_due_retries reads the due intents once, before the next message.
Sweep(c) ==
    /\ At(c, "idle")
    /\ LET due == {r \in Recommendations : IsDue(r)} IN
        /\ due # {}
        /\ worker' = [worker EXCEPT ![c] = Sweeping(due, {})]
    /\ LocalStep /\ UNCHANGED <<intent, prepared>>

\* The next intent of the sweep, as it was read: its own deadline.
SweepNext(c) ==
    /\ At(c, "sweep")
    /\ \E r \in worker[c].due :
        worker' = [worker EXCEPT ![c] =
            [worker[c] EXCEPT !.step = "check", !.task = "retry", !.rec = r,
                              !.deadline = intent[r].expires, !.due = @ \ {r}]]
    /\ LocalStep /\ UNCHANGED <<intent, prepared>>

\* process_due_retries returned: its failed outcomes are quarantined in turn.
SweepFailed(c) ==
    /\ At(c, "sweep")
    /\ worker[c].due = {}
    /\ \E r \in worker[c].failed :
        worker' = [worker EXCEPT ![c] =
            [worker[c] EXCEPT !.step = "deadletter", !.task = "retry", !.rec = r,
                              !.failed = @ \ {r}]]
    /\ LocalStep /\ UNCHANGED <<intent, prepared>>

ReceiveRecommendation(c, r, d) ==
    /\ At(c, "idle")
    /\ recQueue[<<r, d>>] > 0
    /\ recQueue' = [recQueue EXCEPT ![<<r, d>>] = @ - 1]
    /\ worker' = [worker EXCEPT ![c] =
            [Idle EXCEPT !.step = "lookup", !.rec = r, !.deadline = d, !.inflight = TRUE]]
    /\ UNCHANGED <<now, intent, prepared, dispatchQueue, deadLetters, effects, used>>

\* Deviation: the empty answer of basic_get is taken for a message.
ReceiveDispatch_Unchecked(w, r) ==
    /\ At(w, "idle")
    /\ r \in prepared
    /\ dispatchQueue' = [dispatchQueue EXCEPT ![r] = @ - 1]
    /\ worker' = [worker EXCEPT ![w] =
            [Idle EXCEPT !.step = "check", !.rec = r, !.deadline = intent[r].expires,
                         !.task = "dispatch", !.inflight = TRUE]]
    /\ UNCHANGED <<now, intent, prepared, recQueue, deadLetters, effects, used>>

\* A dispatch event carries the request that was prepared, with its deadline.
ReceiveDispatch(w, r) ==
    /\ At(w, "idle")
    /\ dispatchQueue[r] > 0
    /\ dispatchQueue' = [dispatchQueue EXCEPT ![r] = @ - 1]
    /\ worker' = [worker EXCEPT ![w] =
            [Idle EXCEPT !.step = "check", !.rec = r, !.deadline = intent[r].expires,
                         !.task = "dispatch", !.inflight = TRUE]]
    /\ UNCHANGED <<now, intent, prepared, recQueue, deadLetters, effects, used>>

\* _validate_target_binding: the active binding is no longer the message's.
StaleBinding(w) ==
    /\ At(w, "lookup")
    /\ Goto(w, "deadletter")
    /\ LocalStep /\ UNCHANGED <<intent, prepared>>

\* Deviation: the outcome of a fresh intent is returned before it is prepared.
CreateIntent_NotPrepared(w) ==
    /\ CommitCreate(w)
    /\ Goto(w, "ack")
    /\ LocalStep

CreateIntent(w) ==
    /\ CommitCreate(w)
    /\ worker' = [worker EXCEPT ![w].step = "check", ![w].task = "fresh"]
    /\ LocalStep

\* create_or_get found the row: dispatch it if it is due for a retry, with the
\* deadline of this message, and otherwise leave it to whoever has it.
ReuseIntent(w) ==
    /\ At(w, "lookup")
    /\ RowOf(w).status # "absent"
    /\ IF IsDue(worker[w].rec)
       THEN worker' = [worker EXCEPT ![w].step = "check", ![w].task = "duplicate"]
       ELSE Goto(w, "ack")
    /\ LocalStep /\ UNCHANGED <<intent, prepared>>

\* The clock is read before the transition that depends on it.
CheckExpiry(w) ==
    /\ At(w, "check")
    /\ Goto(w, CASE worker[w].deadline <= now -> "expire"
                 [] worker[w].task = "fresh" -> "prepare"
                 [] OTHER -> "claim")
    /\ LocalStep /\ UNCHANGED <<intent, prepared>>

Expire(w) == CommitExpire(w) /\ Decided(w) /\ LocalStep

Prepare(w) == CommitPrepare(w) /\ Goto(w, "ack") /\ LocalStep

\* The adapter does not accept the target.
Reject(w) == CommitReject(w) /\ Goto(w, "deadletter") /\ LocalStep

\* The claim: one of the workers that want the intent counts an attempt.
Claim(w) ==
    /\ CommitClaim(w)
    /\ worker' = [worker EXCEPT ![w].step = "deliver", ![w].attempt = RowOf(w).retries + 1]
    /\ LocalStep

\* adapter.dispatch takes effect and returns.
AdapterAccepts(w) ==
    /\ At(w, "deliver")
    /\ effects' = [effects EXCEPT ![worker[w].rec] = @ \cup {worker[w].attempt}]
    /\ Goto(w, "acknowledge")
    /\ UNCHANGED <<now, intent, prepared, queueVars, deadLetters, used>>

\* adapter.dispatch raises: a timeout or connection error may be retried.
AdapterFails(w) ==
    /\ At(w, "deliver")
    /\ \E retryable \in BOOLEAN :
        worker' = [worker EXCEPT ![w].step = "failure", ![w].retryable = retryable]
    /\ LocalStep /\ UNCHANGED <<intent, prepared>>

Acknowledge(w) == CommitAcknowledge(w) /\ Decided(w) /\ LocalStep

ScheduleRetry(w) == CommitRetry(w) /\ Decided(w) /\ LocalStep

\* Deviation: a permanent failure is reported like a success.
FailFinally_NoDeadLetter(w) == CommitFailed(w) /\ Decided(w) /\ LocalStep

\* A message is quarantined at once, the outcomes of a sweep after the sweep.
FailFinally(w) ==
    /\ CommitFailed(w)
    /\ IF worker[w].task = "retry"
       THEN worker' = [worker EXCEPT ![w] = Sweeping(@.due, @.failed \cup {@.rec})]
       ELSE Goto(w, "deadletter")
    /\ LocalStep

\* The compare-and-set of w's step finds another status: a lost claim is a
\* duplicate; a lost acknowledgement is a permanent failure; the others raise
\* out of _dispatch, to the NACK of a message, or from a sweep, where nothing
\* catches it, to the end of the process (and its restart, the outcomes lost).
LostTransition(w) ==
    /\ \/ At(w, "claim") \/ At(w, "expire")
       \/ At(w, "acknowledge") \/ At(w, "failure") \/ At(w, "prepare")
    /\ RowOf(w).status #
         (IF At(w, "acknowledge") \/ At(w, "failure") THEN "dispatched" ELSE Unclaimed(w))
    /\ CASE At(w, "claim") -> Decided(w)
         [] At(w, "acknowledge") ->
              worker' = [worker EXCEPT ![w].step = "failure", ![w].retryable = FALSE]
         [] OTHER ->
              IF worker[w].task = "retry"
              THEN worker' = [worker EXCEPT ![w] = Idle]
              ELSE Goto(w, "nack")
    /\ LocalStep /\ UNCHANGED <<intent, prepared>>

\* A statement of w raises, committed or not; a dispatcher's first one only
\* reads the row.  In _dispatch a failed
\* acknowledgement is one more retryable failure; anything else is a
\* persistence failure: NACK the message, or go on with the sweep.
StatementFails(w) ==
    /\ \/ worker[w].step \in {"lookup", "expire", "prepare", "claim", "acknowledge", "failure"}
       \/ At(w, "check") /\ worker[w].task = "dispatch"
    /\ Use("dbFailures", MaxDbFailures)
    /\ Commit(w) \/ UNCHANGED <<intent, prepared>>
    /\ IF At(w, "acknowledge")
       THEN worker' = [worker EXCEPT ![w].step = "failure", ![w].retryable = TRUE]
       ELSE IF worker[w].task = "retry" THEN Finish(w) ELSE Goto(w, "nack")
    /\ UNCHANGED <<now, queueVars, deadLetters, effects>>

-----------------------------------------------------------------------------
(***************************************************************************)
(* Settling a message with the broker.                                     *)
(***************************************************************************)

\* The dead-letter envelope is published; the message is acknowledged next.
PublishDeadLetter(w) ==
    /\ At(w, "deadletter")
    /\ DeadLettered(w)
    /\ Decided(w)
    /\ UNCHANGED <<now, intent, prepared, queueVars, effects, used>>

\* publish_json failed and dropped its connection.  The NACK that follows goes
\* to a new channel that never delivered the message: the broker takes the
\* message back.  After a sweep the failure is only logged.  The envelope may
\* have reached the broker all the same, its confirm lost.
DeadLetterFails(w) ==
    /\ At(w, "deadletter")
    /\ Use("losses", MaxLosses)
    /\ DeadLettered(w) \/ UNCHANGED deadLetters
    /\ Requeued(w)
    /\ Finish(w)
    /\ UNCHANGED <<now, intent, prepared, effects>>

Ack(w) ==
    /\ At(w, "ack")
    /\ Finish(w)
    /\ LocalStep /\ UNCHANGED <<intent, prepared>>

\* NACK without requeue: the queue's dead-letter exchange takes the message,
\* unless its channel is gone.
Nack(w) ==
    /\ At(w, "nack")
    /\ IF worker[w].inflight THEN DeadLettered(w) ELSE UNCHANGED deadLetters
    /\ Finish(w)
    /\ UNCHANGED <<now, intent, prepared, queueVars, effects, used>>

\* The connection drops while w works: the broker delivers the message again
\* and w goes on.
ChannelLost(w) ==
    /\ worker[w].inflight
    /\ Use("losses", MaxLosses)
    /\ Requeued(w)
    /\ worker' = [worker EXCEPT ![w].inflight = FALSE]
    /\ UNCHANGED <<now, intent, prepared, deadLetters, effects>>

\* The process dies and is started afresh.
Crash(w) ==
    /\ ~At(w, "idle")
    /\ Use("crashes", MaxCrashes)
    /\ Requeued(w)
    /\ worker' = [worker EXCEPT ![w] = Idle]
    /\ UNCHANGED <<now, intent, prepared, deadLetters, effects>>

-----------------------------------------------------------------------------
\* What w does of its own accord, besides reading the next message.
WorkerStep(w) ==
    \/ StaleBinding(w) \/ CreateIntent(w) \/ ReuseIntent(w)
    \/ CheckExpiry(w) \/ Expire(w) \/ Prepare(w) \/ Reject(w)
    \/ Claim(w) \/ AdapterAccepts(w) \/ AdapterFails(w)
    \/ Acknowledge(w) \/ ScheduleRetry(w) \/ FailFinally(w) \/ LostTransition(w)
    \/ PublishDeadLetter(w) \/ Ack(w) \/ Nack(w)

ConsumerStep(c) ==
    \/ Sweep(c) \/ SweepNext(c) \/ SweepFailed(c)
    \/ \E r \in Recommendations, d \in Deadlines : ReceiveRecommendation(c, r, d)
    \/ WorkerStep(c)

DispatcherStep(w) == WorkerStep(w) \/ \E r \in Recommendations : ReceiveDispatch(w, r)

Fault(w) == StatementFails(w) \/ DeadLetterFails(w) \/ ChannelLost(w) \/ Crash(w)

DeliveryNext ==
    \/ \E r \in Recommendations, d \in Deadlines : PublishRecommendation(r, d)
    \/ \E r \in Recommendations : OutboxDelivers(r)
    \/ \E c \in Consumers : ConsumerStep(c)
    \/ \E w \in Dispatchers : DispatcherStep(w)
    \/ \E w \in Workers : Fault(w)
    \/ Tick

\* Workers poll for ever, the outbox delivers at least once and time passes.
DeliveryFairness ==
    /\ \A c \in Consumers : WF_deliveryVars(ConsumerStep(c))
    /\ \A w \in Dispatchers : WF_deliveryVars(DispatcherStep(w))
    /\ \A r \in Recommendations : WF_deliveryVars(OutboxDelivers(r))
    /\ WF_deliveryVars(Tick)

DeliverySpec == DeliveryInit /\ [][DeliveryNext]_deliveryVars

FairDeliverySpec == DeliverySpec /\ DeliveryFairness

-----------------------------------------------------------------------------
(***************************************************************************)
(* What delivery promises.                                                 *)
(***************************************************************************)

\* The rows, whatever workers, duplicates and failures do to them, go through
\* the life cycle of an intent: the abstract specification.
Lifecycle == INSTANCE DeliveryIntent WITH
    status <- [r \in Recommendations |-> intent[r].status],
    tries <- [r \in Recommendations |-> intent[r].retries],
    effects <- effects

ImplementsIntent == Lifecycle!IntentSpec

\* However duplicates, retries and sweeps share an intent, its attempts stay
\* within the limit, a retry waits only while one is left, and an acknowledged
\* intent took effect in its last attempt: the bound the life cycle promises,
\* of the rows as transition() and its callers write them.
AttemptsWithinLimit == Lifecycle!AttemptsBounded

\* The transaction of prepare_dispatch_with_outbox: an intent past received
\* has its outbox event, one that never got there has none.
PreparedExactly ==
    \A r \in Recommendations :
        /\ intent[r].status \in {"ready_to_dispatch", "dispatched", "retry_pending",
                                 "acknowledged", "failed_final"} => r \in prepared
        /\ intent[r].status \in {"absent", "received", "rejected"} => r \notin prepared

\* w holds the dispatch attempt of its intent.
Owns(w) == worker[w].step \in {"deliver", "acknowledge", "failure"}

\* One worker at a time dispatches an intent, in the row's current attempt:
\* duplicates, retries and sweeps that race for it lose the claim.
OneOwner ==
    \A w \in Workers : Owns(w) =>
        /\ worker[w].attempt = RowOf(w).retries
        /\ \A v \in Workers : Owns(v) /\ worker[v].rec = worker[w].rec => v = w

\* The adapter takes effect at most once for an intent, whatever is delivered
\* twice or dies, except for each statement that failed after an effect.
EffectsBounded ==
    \A r \in Recommendations : Cardinality(effects[r]) <= 1 + used["dbFailures"]

\* An intent that was created and not prepared is in the hands of the worker
\* that created it; only a death or a failed statement can leave it alone.
ReceivedHasOwner ==
    \A r \in Recommendations :
        /\ intent[r].status = "received"
        /\ used["crashes"] + used["dbFailures"] = 0
        => \E w \in Workers : worker[w].rec = r /\ worker[w].task = "fresh"

\* Nothing in a queue or a worker concerns r any more.
Quiet(r) ==
    /\ dispatchQueue[r] = 0
    /\ \A d \in Deadlines : recQueue[<<r, d>>] = 0
    /\ \A w \in Workers : worker[w].rec # r /\ r \notin worker[w].due \cup worker[w].failed

\* An intent that failed for good is in quarantine once its messages are gone.
FailureIsDeadLettered ==
    \A r \in Recommendations :
        intent[r].status = "failed_final" /\ Quiet(r) => \E l \in deadLetters : l.rec = r

\* It is lost only to a lost connection, a death or a failed statement.
FailureIsDeadLetteredUnlessFault ==
    used["losses"] + used["crashes"] + used["dbFailures"] = 0 => FailureIsDeadLettered

\* The operations manual: a dispatch dead letter means that downstream
\* processing failed terminally.
DispatchDeadLetterIsFailure ==
    \A l \in deadLetters : l.from = "dispatch" => intent[l.rec].status = "failed_final"

\* An intent, once created, is acknowledged, rejected, expired or failed in
\* the end: claims, retries and their deadlines leave none behind.
EveryIntentSettles ==
    \A r \in Recommendations :
        intent[r].status = "received" ~> intent[r].status \in Terminal

=============================================================================
