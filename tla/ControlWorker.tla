---------------------------- MODULE ControlWorker ----------------------------
(***************************************************************************)
(* The control engine worker: one process that polls telemetry.events,     *)
(* evaluates each event under the policy in force, publishes the           *)
(* recommendation (and, when simulated actuation is on and the policy has  *)
(* a binding, the same envelope to the simulated queue), publishes and     *)
(* stores an audit record, and acknowledges the event whatever happened.   *)
(*                                                                         *)
(* The worker has one RabbitMQ client for everything: a publish that fails *)
(* drops the channel that holds the event's delivery tag.                  *)
(*                                                                         *)
(* An event refused before any of this, by the normalisation or validation *)
(* of its fields, is only reported on the audit queue.                     *)
(*                                                                         *)
(* A recommendation is identified as stable_recommendation_id does it: by  *)
(* the event and by the policy version that was resolved for it.           *)
(***************************************************************************)
EXTENDS TelemetryBroker

CONSTANTS
    MaxPublishAttempts, \* CONTROL_WORKER_PUBLISH_MAX_ATTEMPTS
    PolicyVersions      \* the versions of the policy

ASSUME ControlWorkerAssumption ==
    /\ MaxPublishAttempts \in Nat \ {0}
    /\ PolicyVersions # {} /\ 0 \notin PolicyVersions

VARIABLES
    step,           \* where consume_rabbitmq_events and handle_event are
    event,          \* the event being handled, or NoReading
    tries,          \* publish attempts made in this step
    resolved,       \* the policy version resolved for the event, 0 before
    recommended,    \* recommendations in either queue (history)
    givenUp,        \* recommendations whose publication was given up (history)
    auditRows,      \* auditRows[r]: rows of iot_schema.auditoria for r's event
    auditFailed     \* events handled without a row: refused, or the INSERT failed (history)

controlVars == <<step, event, tries, resolved, recommended, givenUp, auditRows,
                 auditFailed>>
outputVars == <<recommended, givenUp>>
auditVars == <<auditRows, auditFailed>>

Steps == {"poll", "flag", "evaluate", "recommend", "simulate", "audit", "persist",
          "report", "ack"}
Recommendations == Readings \X PolicyVersions

ControlTypeOK ==
    /\ step \in Steps
    /\ event \in Readings \cup {NoReading}
    /\ tries \in 0..MaxPublishAttempts - 1
    /\ resolved \in PolicyVersions \cup {0}
    /\ recommended \subseteq Recommendations
    /\ givenUp \subseteq Recommendations
    /\ auditRows \in [Readings -> Nat]
    /\ auditFailed \subseteq Readings

ControlInit ==
    /\ step = "poll"
    /\ event = NoReading
    /\ tries = 0
    /\ resolved = 0
    /\ recommended = {}
    /\ givenUp = {}
    /\ auditRows = [r \in Readings |-> 0]
    /\ auditFailed = {}

-----------------------------------------------------------------------------
(***************************************************************************)
(* consume_rabbitmq_events and handle_event.                               *)
(***************************************************************************)

GoTo(s) == step' = s /\ tries' = 0 /\ UNCHANGED event

Poll ==
    /\ step = "poll"
    /\ Deliver
    /\ event' = Head(ready)
    /\ step' = "flag"
    /\ UNCHANGED <<tries, resolved, outputVars, auditVars, faults>>

\* The normalisation or validate_telemetry_event raises: a fault of the
\* message, since build_event fills every field that they look for.
Refuse ==
    /\ step = "flag"
    /\ Fault
    /\ GoTo("report")
    /\ UNCHANGED <<resolved, outputVars, auditVars, brokerVars>>

\* Deviation: a skipped event leaves no record.
ReadFlag_SkippingQuietly ==
    /\ step = "flag"
    /\ GoTo("evaluate") \/ GoTo("ack")
    /\ UNCHANGED <<resolved, outputVars, auditVars, brokerVars, faults>>

\* is_parametric_control_enabled: off, or not to be read, and the event is
\* skipped; operators set it as they please.
ReadFlag ==
    /\ step = "flag"
    /\ GoTo("evaluate") \/ GoTo("audit")
    /\ UNCHANGED <<resolved, outputVars, auditVars, brokerVars, faults>>

\* The policy in force is resolved and the event evaluated; an error leads to
\* the failure audit.
Evaluate ==
    /\ step = "evaluate"
    /\ \/ GoTo("recommend") /\ resolved' \in PolicyVersions
       \/ GoTo("audit") /\ UNCHANGED resolved
    /\ UNCHANGED <<outputVars, auditVars, brokerVars, faults>>

\* Deviation: the loop over the attempts runs once more.
LastAttempt_TooLate == tries = MaxPublishAttempts

LastAttempt == tries = MaxPublishAttempts - 1

\* An attempt of publish_event fails.  publish_json drops the transport, and
\* with it the channel of the delivery, unless only its declarations failed.
AttemptFails ==
    /\ Fault
    /\ ForgetChannel \/ UNCHANGED brokerVars
    /\ ~LastAttempt => tries' = tries + 1 /\ UNCHANGED <<step, event>>

Recommendation == <<event, resolved>>

\* Deviation: each attempt resolves the policy again.
Recommend_Resolving ==
    /\ step = "recommend"
    /\ \E v \in PolicyVersions : recommended' = recommended \cup {<<event, v>>}
    /\ GoTo("simulate") \/ GoTo("audit")
    /\ UNCHANGED <<resolved, givenUp, auditVars, brokerVars, faults>>

\* publish_event(RECOMMENDATION_QUEUE), an attempt that is confirmed.
Recommend ==
    /\ step = "recommend"
    /\ recommended' = recommended \cup {Recommendation}
    /\ GoTo("simulate") \/ GoTo("audit")
    /\ UNCHANGED <<resolved, givenUp, auditVars, brokerVars, faults>>

\* An attempt that fails, with or without the message in the broker; after the
\* last one the worker goes on without the recommendation.
RecommendFails ==
    /\ step = "recommend"
    /\ AttemptFails
    /\ recommended' \in {recommended, recommended \cup {Recommendation}}
    /\ IF LastAttempt
       THEN /\ GoTo("simulate") \/ GoTo("audit")
            /\ givenUp' = givenUp \cup {Recommendation}
       ELSE UNCHANGED givenUp
    /\ UNCHANGED <<resolved, auditVars>>

\* publish_event(SIMULATED_RECOMMENDATION_QUEUE): its outcome changes nothing
\* but the metadata of the audit record.
Simulate ==
    /\ step = "simulate"
    /\ \/ /\ recommended' = recommended \cup {Recommendation}
          /\ GoTo("audit")
          /\ UNCHANGED <<brokerVars, faults>>
       \/ /\ AttemptFails
          /\ recommended' \in {recommended, recommended \cup {Recommendation}}
          /\ LastAttempt => GoTo("audit")
    /\ UNCHANGED <<resolved, givenUp, auditVars>>

\* publish_event(AUDIT_QUEUE): likewise.
PublishAudit ==
    /\ step = "audit"
    /\ \/ GoTo("persist") /\ UNCHANGED <<brokerVars, faults>>
       \/ AttemptFails /\ (LastAttempt => GoTo("persist"))
    /\ UNCHANGED <<resolved, outputVars, auditVars>>

\* Deviation: an insertion whose answer is lost is tried again.
PersistAudit_Retrying ==
    /\ step = "persist"
    /\ auditRows' = [auditRows EXCEPT ![event] = @ + 1]
    /\ \/ GoTo("ack") /\ UNCHANGED faults
       \/ Fault /\ UNCHANGED <<step, event, tries>>
    /\ UNCHANGED <<resolved, outputVars, auditFailed, brokerVars>>

\* _persist_audit_envelope: always an INSERT, and errors are swallowed, with
\* the row committed (when it was the commit whose answer got lost) or not.
PersistAudit ==
    /\ step = "persist"
    /\ GoTo("ack")
    /\ \/ /\ auditRows' = [auditRows EXCEPT ![event] = @ + 1]
          /\ UNCHANGED auditFailed
          /\ Fault \/ UNCHANGED faults
       \/ /\ Fault
          /\ auditFailed' = auditFailed \cup {event}
          /\ UNCHANGED auditRows
    /\ UNCHANGED <<resolved, outputVars, brokerVars>>

\* The outer except: the failure goes to AUDIT_QUEUE, in as many attempts as
\* it takes or there are, and no row is stored for it.
Report ==
    /\ step = "report"
    /\ \/ GoTo("ack") /\ UNCHANGED <<brokerVars, faults>>
       \/ AttemptFails /\ (LastAttempt => GoTo("ack"))
    /\ auditFailed' = IF step' = "ack" THEN auditFailed \cup {event} ELSE auditFailed
    /\ UNCHANGED <<resolved, outputVars, auditRows>>

\* Deviation: the worker insists on an acknowledgement that takes effect.
Ack_Insisting ==
    /\ step = "ack"
    /\ Settle
    /\ step' = "poll"
    /\ event' = NoReading
    /\ resolved' = 0
    /\ UNCHANGED <<tries, outputVars, auditVars, faults>>

\* The finally block.  A tag of a channel that is gone acknowledges nothing.
Ack ==
    /\ step = "ack"
    /\ Settle \/ (held = NoReading /\ UNCHANGED brokerVars)
    /\ step' = "poll"
    /\ event' = NoReading
    /\ resolved' = 0
    /\ UNCHANGED <<tries, outputVars, auditVars, faults>>

-----------------------------------------------------------------------------
(***************************************************************************)
(* Around the worker.                                                      *)
(***************************************************************************)

\* The connection is lost under the worker.
ConnectionLost ==
    /\ held # NoReading
    /\ Fault
    /\ ForgetChannel
    /\ UNCHANGED controlVars

\* The broker notices, and delivers the event again.
BrokerRequeues == Requeue /\ UNCHANGED controlVars

\* The worker dies in the middle of an event and compose restarts it.
WorkerCrash ==
    /\ step # "poll"
    /\ Fault
    /\ step' = "poll"
    /\ event' = NoReading
    /\ tries' = 0
    /\ resolved' = 0
    /\ ForgetChannel
    /\ UNCHANGED <<outputVars, auditVars>>

HandleStep ==
    \/ Poll \/ Refuse \/ ReadFlag \/ Evaluate \/ Recommend \/ RecommendFails
    \/ Simulate \/ PublishAudit \/ PersistAudit \/ Report \/ Ack

ControlNext ==
    \/ HandleStep
    \/ ConnectionLost \/ BrokerRequeues \/ WorkerCrash
=============================================================================
