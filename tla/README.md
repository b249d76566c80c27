# Midd IOT: specifications, model checking and proofs

This directory holds TLA+ specifications of the parts of Midd IOT that must stay correct under
concurrency, lost connections and process deaths: the path of a sensor reading to a control
recommendation, the path of a recommendation to a settled delivery intent, and two parts of
topology-next whose requests race in the database, the assets of a project and the predictive
claims of decision support. It says what is modelled and how it corresponds to the code, what each
TLC run shows, what TLAPS proves, and what is left out.

## The system

Telemetry comes in over MQTT, the ingestor stores it and publishes it to RabbitMQ, the control
engine's worker evaluates the project's policy and publishes a recommendation, and the simulated
actuation services turn the recommendation into one persisted *delivery intent*:

```
MQTT -> ingestor -> telemetry.events -> control worker -> control.recommendations.simulated
     -> simulated_actuation_consumer -> intents + outbox (PostgreSQL)
     -> actuation_outbox_publisher   -> control.actuation.simulated.dispatch
     -> simulated_dispatch_consumer  -> simulated adapter
                                     \-> dead-letter exchange and queue (quarantine)
```

Each service is a container (`infra/containers/docker-compose.yaml`); all but the ingestor have
`restart: unless-stopped`. They share nothing but PostgreSQL rows and RabbitMQ messages; every interaction below is a
database statement or a broker operation, and everything else can happen between two of them.

topology-next (`src/apps/topology-next`) is a web application over the same PostgreSQL. A request is a
sequence of statements, some of them in a transaction at READ COMMITTED; requests meet only in the
rows, which triggers of the database guard as well.

### Components

| component | state | operations | what is hard | what makes it correct |
|---|---|---|---|---|
| outbox (`storage/actuation_outbox_repository.py`, `services/actuation_outbox_publisher.py`) | rows: status, attempt_count, available_at, lease_until; a publisher's claimed batch | insert, claim, publish, mark_published, retry_or_fail | leases that run out under a live publisher, lost confirms, deaths between publication and record | published means sent; retries are bounded; final rows stay final; every event settles |
| delivery intents (`storage/actuation_delivery_intent_repository.py`) | rows: status, retry_count, next_retry_at, expires_at | create_or_get, prepare_dispatch_with_outbox, transition, get_due_retries | compare-and-set between workers that read the row earlier | the life cycle of `VALID_TRANSITIONS`; attempts bounded |
| simulated actuation consumer (`services/simulated_actuation_consumer.py`) | the message or the sweep it works on | process, _dispatch, process_due_retries, ACK/NACK/dead letter | duplicates against due retries; a failure of one step of several | one worker per attempt; one effect; failures quarantined; intents settle |
| dispatch consumer and adapter (`services/simulated_dispatch_consumer.py`, `simulated_actuation_adapter.py`) | the message it works on | process_dispatch_message, dispatch | duplicate and late dispatch events | as above |
| RabbitMQ client (`messaging/rabbitmq_client.py`) | connection, channel | connect, publish_json, basic_get, ACK, NACK | delivery tags after a reconnection, unroutable publications | no message settled twice or by the wrong tag |
| telemetry ingestor (`services/ingestor.py`, `mqtt/`, `storage/db_handler.py`) | queue, batches, counters | MQTT callback, collect, store, publish, stop | threads that share counters; stored and not published; readings in memory at the end | no event without a stored reading; every reading accounted for |
| control worker (`services/control_engine_worker.py`, `postgresql_policy_source.py`) | the event at hand | consume, evaluate, publish, audit, ACK | ACK in `finally`, a publish that drops the channel of the delivery, repeated publications | nothing leaves the queue without a record; events drain |
| predictive claims (topology-next `services/gdss-capability-claims.service.ts` and its repository, `gdss/validation/capability-engine.ts`) | assessments, claim versions, reviews, authorizations, revocations, triggers | draft, submit, review, authorize, revoke, supersede, revalidate | what is read before the authorizing transaction; several people | what is authorized was approved and is within the evidence |
| topology and assets (topology-next `services/asset.service.ts`, `sector`, `project`, `topology`, `provisioning`) | assets with parent and sector, links | create, update, cascades of deletion, sector and project | reads before writes, triggers that see committed rows only, a schema the code is ahead of | no cycle, misfit or left-over but by the races that are known |
| parametric control engine (`apps/parametric-control-engine`) | none | select, evaluate | precedence and boundaries | the policy's definition |
| simulation replay (`services/simulation_replay_runner.py`, `storage/simulation_run_repository.py`) | run rows | start, record, complete, fail | deaths and ambiguous commits | runs end once |
| digital-twin engine, promotion and deployment chain, APIs | see `PROJECT.json` | | | |

`PROJECT.json` lists every component with its sources and status, and under `hazards` what can go
wrong in this code at which line, with the properties that watch it.

## The modules

| module | models |
|---|---|
| `ActuationOutbox` | the rows of `control_actuation_outbox` and the publisher processes, one step per statement |
| `DeliveryIntent` | the abstract life cycle of an intent: attempts bounded, one effect per attempt (no run of its own: `ActuationDelivery` is checked against it) |
| `ActuationDelivery` | both consumers, the intents, the two queues and the dead-letter queue; implements `DeliveryIntent` |
| `TelemetryBroker` | the queue `telemetry.events`: deliveries, channels that are forgotten with their delivery, acknowledgements |
| `TelemetryIngest` | the MQTT callback, the workers of `MessageProcessor`, their counters, the life of the service |
| `ControlWorker` | the control engine worker, from the delivery of an event to its acknowledgement |
| `TelemetryPipeline` | the composition of the two over the queue, its fairness and its properties |
| `PredictiveClaims` | capability assessments, claim versions and their authorization |
| `AssetHierarchy` | the assets of a project: requests in several statements, triggers, cascades |
| `ActuationOutboxProofs`, `DeliveryIntentProofs`, `TelemetryPipelineProofs`, `PredictiveClaimsProofs`, `AssetHierarchyProofs` | the theorems about each |
| `ActuationDeliveryProofs`, `ActuationDeliveryFaultProofs` | the theorems about delivery, and those on what faults can cost it |
| `ActuationDeliveryRefinement` | the proof that `ActuationDelivery` implements `DeliveryIntent` |
| `MC...` | the sets of the TLC instances, one module per specification that is run |

### ActuationOutbox

`status`, `attempts` and `timer` are the row's columns. `timer` counts down what is left until
`available_at` (pending) or `lease_until` (publishing), so that no clock grows: `Tick` is `NOW()`.
`Claim` is the statement of `claim` with `FOR UPDATE SKIP LOCKED`: it marks rows, counts the attempt
and starts the lease at once. `stage`, `batch` and `current` are the local state of `publish_once`.
`publish_json` has three outcomes: confirmed, refused, and *taken by the broker with the confirm
lost*, which the publisher cannot tell from refused. `mark_published` and `retry_or_fail` guard on
the status `publishing` only, as the code does, not on the owner of the lease. When
`retry_or_fail` meets a row that is no longer publishing, `.one()` raises and the process ends
(`RowNotPublishing`). `sent` is a history variable: the copies the broker accepted.

Which claimable rows a claim takes is left open but for the limit, and the exponential delay is any member
of `RetryDelays`: the properties hold for every order and delay.

### ActuationDelivery

A worker (a recommendation consumer or a dispatch consumer) has a `step`; the actions are the steps
of `process`, `_dispatch`, `process_due_retries` and the consume loops between two database or
broker operations. `Commit...` are the statements with their compare-and-set guards; a worker
action is a statement together with where the handler goes next. Three things can happen to a
statement: it commits; its compare-and-set finds another status (`LostTransition`: a lost claim is a
duplicate, a lost acknowledgement a permanent failure, anything else a NACK, or the end of the process
in a sweep); it raises, committed or not (`StatementFails`). The expiry check reads the clock in a
step of its own (`CheckExpiry`), before the transition that relies on it.

The adapter takes effect when it returns (`AdapterAccepts`), recorded in the history variable `effects` by
attempt number. The simulated adapter raises before it does anything, so a failing adapter has no
effect.

A channel can be lost while a worker is busy (`ChannelLost`): the broker delivers the message again and
the worker's ACK or NACK then reaches a channel that does not know its tag. When the publication of a
dead-letter envelope fails, `publish_json` drops the connection itself (`DeadLetterFails`). A sweep
dispatches all due intents first and quarantines their failures afterwards (`SweepFailed`).

The outbox appears as its promise: a prepared event is delivered one or more times. The control
worker appears as the source of recommendations, repeated with a later deadline.
`validated`, written and overwritten within one transaction, is not visible to others and not a
status of the models. Audit records and metrics decide nothing and are left out, and so are malformed
messages, which are quarantined without touching an intent, and the limit of 20 intents per sweep.

### TelemetryPipeline

`TelemetryIngest` and `ControlWorker` both extend `TelemetryBroker` and share nothing else; the
composition interleaves their actions.

In the ingestor each access to something threads share is a step. `Receive`, `CountDrop` and
`CountFailedUnlocked` are the MQTT thread in `_on_mqtt_message`: the increment of `messages_failed` outside
the lock is a read (kept in `callback.read`) and a later write. The workers' increments of that counter are a
read and a write too (`TallyRead`, `TallyWrite`), with the lock in between, so that the callback's write can fall
inside one. The other counters are touched by one thread or under the lock only, and an addition is one step.
`Take` is one `get` of the collecting
loop, so that two workers can share out what arrives; `Store`, `StoreOnly`, `StoreFails` and
`RejectUnreadable` are the outcomes of `_process_single_message` up to the insertion; `PublishConfirmed` and
`PublishFails` are attempts of `publish_sensor_record`, whose answer decides nothing. What a payload is
(unreadable, stored but invalid or no number, valid) is chosen where the code first looks at it.

`validation` is `ingesta.validation_enabled`, either value. When it is off, `validate_payload`
(`ingestor.py` 406-407) answers without `alarms`, line 670 raises `KeyError` after the reading has been counted, and
the handler counts it as failed as well: `Finish` leaves that second failure to count, and `CountersAccount` says
*once with validation, twice without*.

`service` goes from running to stopping (a signal) to stopped (five seconds' `join`, then the end of the process,
whatever its daemon threads hold). Its memory is lost when it ends (`FreshMemory`); the ingestor has no restart
policy in the compose file, and may be started again or not. MQTT loses a reading that is dropped or in memory then.

The worker's `step` is where `consume_rabbitmq_events` and `handle_event` are. Every publication has
`MaxPublishAttempts` attempts, each confirmed, refused, or in the broker with the confirmation
lost; a failed attempt drops the transport, and with it the channel that holds the event's delivery
tag (`ForgetChannel`), unless only its declarations failed. `Ack` on a channel that is gone removes nothing and
the broker delivers the event again (`Requeue`), possibly when another policy version is in force
(`resolved`). An event whose fields the normalisation or `validate_telemetry_event` refuses takes the outer `except`
(`Refuse`, `Report`): a failure record on the audit queue, no audit row, and the ACK. The insertion of an audit row may
fail with the row committed, when it is the answer to the commit that is lost. A recommendation is its event and that version, as in `stable_recommendation_id`.

`deliveries`, `acked`, `recommended`, `givenUp`, `auditFailed`, `rejected` and `unpublished` are history
variables, `stored` stands for InfluxDB. One budget, `MaxFaults`, pays for failures, lost connections, stops and deaths.

### PredictiveClaims

The versions of one claim identity, by number. Every operation is the transaction of the repository
that locks the claim's row, with its guards, the event it appends and what the triggers of migration
0049 refuse. The exception is an authorization: `ReadForAuthorization` is what the service reads and
compares, `Authorize` or `AuthorizationChangesNothing` the transaction that follows, and everything else
can happen in between. The code compares the content hash its caller expects; of the
content, scopes are all that anything is compared with, so `known` (the contents the caller may have
seen) and `seen` (those the draft has had) are sets of scopes. `readInDraft` remembers in what
state the service read the claim.

A scope is a numeric range with open or closed ends, `ScopeSubset` is `constraintSubset`, and the property
that uses it is stated over the values in the range. A trigger's state is what the code looks at:
whether it waits. Five of the code's behaviours a reader might not expect are in the model: the reviewer may
be the author; an approval does not keep another reviewer from rejecting; an invalidated
assessment leaves claims that rest on the earlier row as they are; a trigger that is reported again in the
same words after it was settled changes nothing; and a trigger or a resolution under an idempotency key that was used
before is answered with the earlier row, whatever it says (`DetectCauseWithUsedKey`, `ReportOrSettle`). Of the last,
`docs/architecture/GDSS-006G-CLOSURE-EVIDENCE.md:190-191` says that "Conflicting reuse of an idempotency key fails
closed"; the repository (`gdss-capability-claims.repository.ts` 960-966) does not compare the contents.

The authorized scope can exceed the claim's: the service compares the two before the transaction, and the
transaction compares the hash of the content the caller expects. A draft that was wide when the service read it, is
narrowed again, submitted and approved, has that hash. `AuthorizedScopeWithinClaim` is the documents' claim
and violated (`claims_scope`); `ScopeBeyondClaimTakesEdits` says that nothing less than such edits gives it.

### AssetHierarchy

The triggers are those of the Alembic chain, and the table of assets has a column `is_active` or, as in that chain, has not.

- The only trigger on the tree is `trg_assets_validate` of migration 0004: a parent must exist, be of the same
  project and sector and of a type that contains, and its child of a type that can be contained. Nothing knows a
  cycle: `topology-next/migrations/006_prevent_assets_parent_cycles.sql` (and 005) are proposals
  (`topology-next/docs/backend-integrity-review.md` 79-84, 131-134) and not in the model.
- No migration gives `assets` a column `is_active` (0006 adds it to sectors and locations). The repositories write
  it and fall back to a statement without it when PostgreSQL answers 42703. Within a transaction that is of no
  use, since the error has aborted it: a deletion, a sector's deactivation with a listed asset and a project's
  archiving then roll back. `activeColumn` is either value from the start, so that what is said of cascades is said of
  the code on both schemas, and `CanUpdate` says which cascades can commit. The same document (70-75) lists
  `SectorService.softDelete`, `AssetService.deleteSafe` and `ProjectService.update` under "Transacciones
  implementadas"; on the schema of the Alembic chain none of the three commits with an asset in its scope.

An update is a step per statement: `StartUpdate` reads the row, `ReadChildren` the children,
`ReadLinks` the links when the sector changes, `ReadParent` the parent, `ReadTree` the tree under the asset, and then
the statement fires its triggers (`FireTriggers`) and commits (`CommitWrite`). A create starts at `ReadParent`. A payload may
leave things out (`Keep`), which the row keeps as it is *at the write*. The triggers see what other transactions have
committed. Queries over a parent cycle do not end: `ReadTree` and `StartDelete` do not complete when the tree
has one.

An asset has one link with a sector at a time; links are created, deleted, and updated to another status, sector
or asset (`UpdateLink`). The cascades
(`deleteSafe`, `SectorService.softDelete`, the archiving of a project) read first and write in one
transaction, which a single row that does not fit its parent makes fail as a whole. `End` is any
error or death at any point.

A request remembers what it cannot know: `missed` (rows written since it began), `linked` (a link of its asset
was), `moved` (rows that are new or have a new parent since it read the tree) and `late` (a row was written between a
statement's triggers and its commit). `crossed` and `skewed` are history variables. Cycles, and children
that do not fit, *are* reachable in the code; the properties say that nothing less than these races gives them.

### DeliveryIntent

One action per edge of `VALID_TRANSITIONS` that the services use, plus the adapter's effect.
`ImplementsIntent` maps the rows of `ActuationDelivery` (status, retry_count, effects) onto it: whatever
workers, duplicates, deaths and failed statements do, rows move along the life cycle, an attempt
is claimed once, takes effect at most once, and an acknowledged intent took effect in its last
attempt.

## The runs

| run | instance | shows |
|---|---|---|
| `outbox` | 2 events, 2 publishers, 2 attempts, lease of 1 tick, delay 0 or 1, 1 death | `PublishedWasSent`, `RetryBudget`, `CopiesAccounted`, `TerminalRowsFinal`, and `EventSettles` under fairness |
| `delivery_faults` | 1 recommendation sent twice with deadlines 1 or 2, its event twice, 1 consumer, 1 dispatcher, 2 attempts, 1 lost channel, 1 death, 1 failed statement | `PreparedExactly`, `OneOwner`, `EffectsBounded`, `ReceivedHasOwner`, `FailureIsDeadLetteredUnlessFault`, `AttemptsWithinLimit`, and the refinement `ImplementsIntent` |
| `delivery_sweep` | 2 recommendations, 3 messages, no faults | sweeps over several intents: `FailureIsDeadLettered` |
| `delivery_liveness` | as `delivery_faults`, no deaths or failed statements | `EveryIntentSettles` under fairness |
| `telemetry` | 2 readings, 2 ingestor threads, queue of 1, batches of 2, 2 attempts each, 2 policy versions, 2 faults, validation on and off | `RecommendedIsStoredAndValid`, `IdentitiesPerDelivery`, `AckedIsAudited`, `AuditRowsPerDelivery`, `GivingUpTakesEveryAttempt`, `CountersAccount`, and `EventsDrain` and `QueuedIsFinished` under fairness |
| `claims` | 2 versions, 1 assessment, 2 scopes that differ in an end point, 1 cause | `AuthorizedContentWasApproved`, `AuthorizedScopeIsCapable`, `ScopeBeyondClaimTakesEdits`, `EventsTellTheStatus`, `StandingIsBacked`, `FrozenAfterSubmission` |
| `hierarchy` | 3 assets, 2 sectors, 2 requests at a time, 4 requests in all, with `is_active` and without | `MisfitTakesRace`, `CycleTakesRace`, `CascadeReachesAll`, `SectorMoveIsClean` |
| `outbox_lease` | 1 event, 2 publishers, 3 attempts, lease of 2 ticks | the lease is not exclusive |
| `outbox_failed` | 1 event, 1 publisher | a failed row may have been delivered |
| `dispatch_dead_letter` | no faults | a duplicate dispatch event after expiry is dead-lettered |
| `dead_letter_fallback` | 1 lost channel | a failure without a dead letter |
| `claims_scope` | 1 version, 1 assessment, 2 scopes | a scope is authorized that the claim does not have |

The last five are disagreements between the documents and the code (`findings` in `PROJECT.json`
quotes both sides). None breaks what the passing runs state.

**Bounds.** Two publishers and a lease shorter than their work give every take-over: a stale
publisher can act after the next claim, after the next release, and after the final record. Two attempts
are the first, the retry and exhaustion. In delivery, one intent is enough for every race, as
statements touch one row; a duplicate message, a duplicate event and a sweep are
the three ways to reach it, each present. Two deadlines make the duplicate's deadline
differ from the intent's. `Horizon` is the last deadline: after it, time changes nothing, since
every deadline and retry time has passed. One fault of each kind in the same behaviour covers a death
after a failed statement after a lost channel. Two intents are needed for a sweep's list of outcomes
(`delivery_sweep`). `MaxPublications`, `MaxCopies`, `MaxLosses`, `MaxCrashes`, `MaxDbFailures` and the
outbox's `MaxCrashes` are the only bounds on the environment.

In `telemetry`, a queue of one drops the second reading while the first waits; two
threads with a reading each, and one with both, are all the ways to share two; two faults are all the attempts
of one publication, or a lost acknowledgement and another failure at its redelivery, and two policy
versions give that redelivery another identity. In `claims`, two versions are a claim
and its successor, and two scopes let a draft be edited and edited back, one of them exceeding the other by
an end point. In `hierarchy`, two requests are every race of two, a cycle needs two assets and
a child under a third shows what hangs under it, and four requests are two creations and two updates, or a
creation, an update, a cascade and a link. A created asset is listed, and a relay or a
device with a parent, nodes being created by `Bootstrap`; an update says one thing, a sector, a parent, the type device or that it is listed again.

`EventsDrain` and `QueuedIsFinished` follow the reading r1 (`Followed`): no definition tells one reading from another, so
what holds of the one in every behaviour holds of the other.

**Deadlock.** The checks allow states without successors: when every row is final, every queue
empty and every bound used, the modelled system has nothing left to do. Likewise when every reading has arrived and
been handled, every claim version is rejected, revoked or superseded, or `MaxOperations` requests were made.

**Fairness.** Workers and publishers poll in endless loops and are restarted by the container
runtime, so each process takes steps as long as it has one (weak fairness of its own steps, not of any
particular outcome); time passes; in `ActuationDelivery` the outbox delivers a prepared event. Nothing is
assumed about outcomes: an adapter may fail every time, a broker may lose every confirm. Faults are
never fair. In `TelemetryPipeline` fairness is assumed of the ingestor's workers and cleanup together, and of the
control worker (restarted by compose) and the broker's requeueing together, which is less than the scheduling of
threads and processes gives: some worker that can go on does, and not each of them. Arrivals, operators, failures and a
second start of the ingestor are not. The specifications of topology-next have no liveness: a
request may end with an error at any point, and users need not send another. `EventSettles` includes a publisher's death; `EveryIntentSettles` is checked without
deaths and failed statements because the code does not promise it then: an intent whose worker dies between
creation and preparation stays `received`, and one whose worker dies while dispatching stays
`dispatched` (see the hazards at lines 388 and 436 of the consumer).

## The proofs

`ActuationOutboxProofs` proves, for any sets of events and publishers (finitely many publishers), any
limits, leases and delays:

- `OutboxTypeCorrect`, the type invariant.
- `PublishedWasSentHolds` and `RetryBudgetHolds`, from the inductive invariant `OutboxInv`. Neither is
  inductive by itself: a row is marked by a publisher that saw the confirm steps earlier, so
  `TakenEvents` ties the publisher's stage to the copies sent; and a new row has all its
  attempts, so `AbsentUntried` is needed for insertion. `RowStep` says what one step can do to one row;
  the three row invariants follow from it without looking at actions again.
- `TerminalRowsFinalHolds`, the action property, from `RowStep`.
- `CopiesAccountedHolds`, from `AttemptsPaid`: copies plus the publishers that still hold the event
  untried never exceed the attempts. The bare bound is not inductive, since a publication adds a
  copy without an attempt: it was paid for at the claim.

`DeliveryIntentProofs` proves `AttemptsBoundedHolds` (with the type invariant, and `DispatchedTried`: a
dispatched intent is in an attempt) for any number of recommendations and any limit.

`ActuationDeliveryProofs` and `ActuationDeliveryRefinement` prove, for any sets of recommendations,
consumers and dispatchers, any deadlines and delays and any number of faults:

- `DeliveryTypeCorrect`. The types alone are not inductive: a worker that is neither idle nor
  between two requests of a sweep must have a recommendation at hand (`TypedWorker`).
- `PreparedExactlyHolds`. It rests on `FreshIsPrepared`: the worker that created an intent
  prepares it and never claims it, so no intent goes from received to dispatched.
- `OneOwnerHolds`, from `OwnerInv`: while a worker owns an attempt the row is `dispatched` (or
  acknowledged, when the answer to the acknowledgement was lost), so every other claim finds the wrong
  status. Without the status the bare exclusion says nothing of the row a claimant reads.
- `DeliveryImplementsIntent`, the refinement of `DeliveryIntent`: every committed statement is one
  operation of the life cycle, the adapter's effect is `TakeEffect`, every other step stutters. That a
  claim finds an attempt left needs `AttemptsInv` (a retry is pending only while one is); that an
  effect is new and an acknowledgement has one needs `EffectInv`, which in turn needs the exclusion.
- `AttemptsWithinLimitHolds`: no intent is dispatched more often than the limit, from the same `AttemptsInv`. The code compares the
  limit with the number the claim returned, after the attempt, and not at the claim.

The steps are first sorted into five kinds (`StepKinds`): nobody moves; a worker moves; a worker's
statement commits and it leaves its step; a worker claims; the adapter accepts. `CommitRow` says what
one statement does to one row (`Transition`). Each invariant is then proved once per kind.

`PredictiveClaimsProofs` proves, for any set of scopes, any number of assessments, versions and causes:

- `ClaimsTypeCorrect`; then `AuthorizedContentWasApprovedHolds`, `AuthorizedScopeIsCapableHolds`,
  `ScopeBeyondClaimTakesEditsHolds` and `StandingIsBackedHolds` from one inductive invariant,
  `ClaimsInv`. None is inductive alone: the authorizing transaction trusts what the service read earlier, so
  `RequestIsGood` says what a read scope is worth *now* (covered by the assessment; within the claim, or the
  claim was a draft that was edited since), `ApprovalIsOfContent` that an approval stays one of the content (a
  version under review is not edited), and `SupersededHasSuccessor` that the version that replaced
  another was authorized. `VersionStep` sorts the transactions by what they do to one version.
- `FrozenAfterSubmissionHolds`, the action property, from `VersionStep`; `EventsTellTheStatusHolds`, whose lemma
  is that appending a legal move to a path of the life cycle is one.

`TelemetryPipelineProofs` proves, for any readings, threads, queue and batch sizes, attempts, policy versions
and faults:

- `PipelineTypeCorrect`. The worker has an event at hand in every step but `poll` (`EventAtHand`), and a
  thread that stores or publishes has a reading (`WorkersHaveReadings`).
- `RecommendedIsStoredAndValidHolds`, from `GoodInv`: each reading is in one place of the ingestor at most
  (`PlacedOnce`), and every event the broker or the worker has is of a stored reading that no thread will look
  at again. Without `PlacedOnce` a second copy of a published reading could still be rejected.
- `AckedIsAuditedHolds` and `AuditRowsPerDeliveryHolds`, from `AuditInv`: the worker reaches its ACK only
  past the insertion, and a delivery that has not inserted yet has its row to spare (`AuditsPaid`).
- `IdentitiesPerDeliveryHolds`, from `IdentitiesPaid`: a delivery that has not recommended yet has its
  identity to spare, and the second publication of one repeats the first's.
- `GivingUpTakesEveryAttemptHolds`, from `FaultsPaid`: the attempts in progress (`Spent`, `tries`) are paid for
  too, so that the last failed one completes the price.
- `CountersAccountHolds`, from `ReadingsAccounted`: the balance (`Balance`) holds for the counter as it is *and* for the value that the
  worker with the lock has read, one worker at most has it, and the value the callback read without the lock is never
  more than either may become. The reading in the callback and the failures still to be counted are in the balance.

The steps are sorted twice, by what they do to readings (`ReadingsStep`) and to the event being handled
(`HandlingStep`).

`ActuationDeliveryFaultProofs` proves what faults can cost, for any sets of recommendations and
dispatchers:

- `EffectsBoundedHolds`, from `EffectsPaid`: once the row leaves `dispatched`, or its failure is about to be
  written, every effect so far is paid for by a failed statement. The bare bound would let a retry add a second one.
- `ReceivedHasOwnerHolds`, from `ReceivedIsHeld`, which says where its worker is: before the preparation.
- `FailureIsDeadLetteredUnlessFaultHolds` and `FailureIsDeadLetteredHolds`, under the hypothesis that there is one
  consumer, which is how `infra/containers/docker-compose.yaml` deploys it. The hypothesis is needed: with
  two, the second consumer can expire a retry on the first one's list, whose sweep then ends with
  an unhandled error before it quarantines the failures it has collected (the hazard at line 489 of the consumer).
  `FailuresPending` says that a final failure is in quarantine or on a worker's list, `DueWaits` that what a
  sweep has read as due still waits, `FailingIsDispatched` that an attempt whose failure is being written is
  still the row's.

`AssetHierarchyProofs` proves, for any assets, sectors, payloads and number of requests in flight:

- `HierarchyTypeCorrect`, with what kinds of request there are (`FlightsFit`), that two creates in flight are of
  two assets, and that a parent exists, since no row is ever taken away, and is not the asset itself (`ParentsExist`).
- `MisfitTakesRaceHolds`, from `RaceInv`: a write whose triggers ran, and after which nothing was written, would be
  accepted still (`InTimeIsAccepted`); an update whose asset has a child it has not missed keeps the sector and a
  type for it (`SeenChildrenKeep`).
- `SectorMoveIsCleanHolds`, the action property, from `MoveHasSeenAll`: an update that moves its asset had found neither
  children nor links but those it has missed.
- `CycleTakesRaceHolds`, the action property. Its invariant, `NotSeenUnder`, says of an update that has read the tree that the
  new parent is not under its asset *when the parents of the rows moved since are forgotten* (`Kept`): the tree it read, as far as
  it is still there. To forget parents only takes away from what is below an asset (`KeptBelow`), and what the write finds below
  it all the same is below a row that was moved (`BelowThroughForgotten`), which is thus on the cycle. `ClosedByMoved` puts them together.
- `CascadeReachesAllHolds`, the action property, for assets and links, from `SweepHasRead`: what a sweep has read, with all that
  is under what it has missed, is its whole scope.

`FlightStep` says what a step does to one request in flight, `RowsStep` what it does to the rows; the
invariants are proved from these. `Tree` is the least set with the asset and the children of its members, defined
as such and not by recursion, so that it can be reasoned about without induction.

The assumptions are those named in the modules: `OutboxAssumption`, `IntentAssumption`, `DeliveryAssumption`,
`ClaimsAssumption`, `HierarchyAssumption` and those of the telemetry modules; they give the constants their types and
say that the values that stand for nothing (`None`, `Keep`, `NoReading`, ...) are no others.

Only model-checked: liveness under fairness (`EventSettles`, `EveryIntentSettles`, `EventsDrain`,
`QueuedIsFinished`), which is out of the prover's reach. Every invariant and action property that a passing run checks, and the
refinement, is a theorem; those on dead letters with the hypothesis of one consumer, which the runs have
too.

## Not modelled

`PROJECT.json` gives the reason per component. In short: services that compute over numbers (solvers,
metrics, rankings, the closed-loop benchmark) and services that only read or render (monitoring, dashboards,
views, layouts) have no protocol to check; CRUD handlers of the core backend and the
legacy API rely on single statements. The following have one and are not modelled yet: the
simulation replay, the promotion and deployment chain of topology-next, the experiment
batches and the workers of decision support with claims and leases, and the scheduler of the
digital-twin engine. Of modelled parts, what is left out is said in their sections and in the
notes of the components.

## Plan

1. `ActuationPipeline`: the outbox in detail composed with delivery, in place of `OutboxDelivers`.
2. `SimulationRun`: the life cycle of runs under deaths and ambiguous commits.
3. Policy selection and evaluation as operators against a reference definition; the scheduler of the
   digital-twin engine; the promotion and deployment chain.

Abstract specifications worth stating next: the outbox as an at-least-once channel, implemented by
`ActuationOutbox`; a simulation run that ends exactly once.
