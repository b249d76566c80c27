-------------------------- MODULE TelemetryPipeline --------------------------
(***************************************************************************)
(* From an MQTT reading to a control recommendation: the ingestor and the  *)
(* control engine worker, which share only the telemetry.events queue.     *)
(*                                                                         *)
(* Nothing of the chain is transactional: a reading is stored, then its    *)
(* event published, then the event evaluated, its recommendation published *)
(* and its audit record stored, then the event acknowledged, and each step *)
(* may fail, or its process die, after the one before it took effect.      *)
(***************************************************************************)
EXTENDS TelemetryIngest, ControlWorker

CONSTANT Followed       \* the readings the liveness properties are about

ASSUME FollowedAssumption == Followed \subseteq Readings

pipelineVars == <<ingestVars, controlVars, brokerVars, faults>>

PipelineInit == BrokerInit /\ IngestInit /\ ControlInit

PipelineNext ==
    \/ IngestNext /\ UNCHANGED controlVars
    \/ ControlNext /\ UNCHANGED ingestVars

\* The ingestor goes on while some worker thread can, and a stop ends with the
\* process; the control engine goes on, compose having restarted its worker,
\* and the broker notices a dead channel.  Nothing is assumed of which thread
\* runs, of what arrives, of failures, of operators, nor that a stopped
\* ingestor is started again.
PipelineFairness ==
    /\ WF_pipelineVars(((\E w \in Workers : WorkerStep(w)) \/ CleanupEnds) /\ UNCHANGED controlVars)
    /\ WF_pipelineVars((HandleStep \/ BrokerRequeues) /\ UNCHANGED ingestVars)

PipelineSpec == PipelineInit /\ [][PipelineNext]_pipelineVars
FairPipelineSpec == PipelineSpec /\ PipelineFairness

PipelineTypeOK == BrokerTypeOK /\ IngestTypeOK /\ ControlTypeOK

-----------------------------------------------------------------------------
(***************************************************************************)
(* Properties.  Nothing tells one reading from another, so that to follow  *)
(* one of them is to follow any.                                           *)
(***************************************************************************)

\* A recommendation, on either queue, is about a reading that the telemetry
\* store holds and that the validator accepted, however the insertion, the
\* publications and the processes failed: _insert_registro publishes only
\* after the insertion, and the worker invents no event.
RecommendedIsStoredAndValid ==
    \A rec \in recommended :
        /\ rec[1] \in stored
        /\ rec[1] \notin rejected

Identities(r) == {rec \in recommended : rec[1] = r}

\* An event that is delivered once yields one recommendation identity, for
\* both queues and for every publish attempt: only a second delivery, after a
\* lost acknowledgement, can find another policy version in force and give the
\* consumer's idempotency key (create_or_get) a second value for one reading.
IdentitiesPerDelivery ==
    \A r \in Readings : Cardinality(Identities(r)) <= deliveries[r]

\* The acknowledgement is in a finally block.  What it removes from the queue
\* has left an audit row, or the insertion of one failed, or it was refused for
\* its fields and reported on the audit queue, which alone leaves no row.
AckedIsAudited ==
    \A r \in acked : auditRows[r] > 0 \/ r \in auditFailed

\* Handling an event again inserts another row: there are as many rows as
\* deliveries at most, one for each handling that reached the insertion.
AuditRowsPerDelivery == \A r \in Readings : auditRows[r] <= deliveries[r]

\* A lost recommendation takes every attempt of one delivery: the worker gives
\* one up, and acknowledges its event, only after MaxPublishAttempts failures
\* of the transport; likewise the ingestor for the event of a stored reading.
GivingUpTakesEveryAttempt ==
    PublishAttempts * Cardinality(unpublished)
        + MaxPublishAttempts * Cardinality(givenUp) <= faults

\* The places of the workers' batches that hold a reading.
InHand == UNION {{w} \X DOMAIN batch[w] : w \in Workers}

\* The counts a reading gets: one, or, when the missing 'alarms' of a service
\* without validation raise KeyError after the first, a second one as failed.
Times == IF validation THEN 1 ELSE 2

\* The failures the workers have still to count.
Uncounted == UNION {{w} \X (1..failures[w]) : w \in Workers}

\* The counts still to come.
Owed == Times * (Len(queue) + Cardinality(InHand)) + Cardinality(Uncounted)

\* The ingestor's counters account for every reading: none is counted more
\* than once (twice, without validation), in spite of the callback's unlocked
\* increment of messages_failed, and as long as no reading was dropped none is
\* missing: each is counted, queued, or in the hands of a worker.
CountersAccount ==
    LET known == counters["processed"] + counters["failed"] + Owed
    IN  /\ known <= Times * counters["received"]
        /\ counters["dropped"] = 0 /\ callback.doing = "wait"
              => known = Times * counters["received"]

Elements(s) == {s[i] : i \in DOMAIN s}

\* The copies of r's event that the broker still has.
AtBroker(r) == r = held \/ r \in Elements(ready) \cup Elements(orphans)

\* An event the broker has is handled to the end: its last copy leaves, however
\* often a lost channel brings one back, once transport failures are over.
EventsDrain == \A r \in Followed : AtBroker(r) ~> ~AtBroker(r)

\* A queued reading is taken and finished with by a worker, whatever fails on
\* the way: only the end of the service loses it, since the workers of a
\* stopping service leave what is queued and are waited for five seconds.
QueuedIsFinished ==
    \A r \in Followed :
        r \in Elements(queue) ~>
            \/ service = "stopped"
            \/ r \notin Elements(queue) \cup UNION {Elements(batch[w]) : w \in Workers}
=============================================================================
