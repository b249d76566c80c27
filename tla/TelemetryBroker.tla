--------------------------- MODULE TelemetryBroker ---------------------------
(***************************************************************************)
(* The telemetry.events queue of RabbitMQ, between the ingestor and the    *)
(* control engine worker, as RabbitMQClient.publish_json, get_json_message *)
(* and ack_message use it.                                                 *)
(*                                                                         *)
(* A publish is confirmed, refused, or unconfirmed: the broker has the     *)
(* message and the client is told that it has not.  The last two, every    *)
(* other failure of a transport or a store, and the end of a process spend *)
(* one of MaxFaults.                                                       *)
(*                                                                         *)
(* An event carries the event_id that build_event gives to one reading, so *)
(* an event is named by its reading and two copies are the same element.   *)
(***************************************************************************)
EXTENDS Naturals, Sequences, FiniteSets

CONSTANTS
    Readings,       \* the MQTT messages, each of one sensor reading
    NoReading,      \* a value that is no reading
    MaxFaults       \* bound on the failures and the stops of a behaviour

ASSUME BrokerAssumption ==
    /\ NoReading \notin Readings
    /\ IsFiniteSet(Readings)
    /\ MaxFaults \in Nat

VARIABLES
    ready,      \* telemetry.events: the events that wait to be delivered
    held,       \* the event delivered on the worker's channel, or NoReading
    orphans,    \* events delivered on channels the worker has forgotten
    deliveries, \* deliveries[r]: times r's event was delivered (history)
    acked,      \* events the broker has removed on an acknowledgement (history)
    faults      \* failures and stops so far

brokerVars == <<ready, held, orphans, deliveries, acked>>

BrokerTypeOK ==
    /\ ready \in Seq(Readings)
    /\ held \in Readings \cup {NoReading}
    /\ orphans \in Seq(Readings)
    /\ deliveries \in [Readings -> Nat]
    /\ acked \subseteq Readings
    /\ faults \in 0..MaxFaults

BrokerInit ==
    /\ ready = <<>>
    /\ held = NoReading
    /\ orphans = <<>>
    /\ deliveries = [r \in Readings |-> 0]
    /\ acked = {}
    /\ faults = 0

Fault == faults < MaxFaults /\ faults' = faults + 1

\* basic_publish on a queue that publish_json has just declared: the event is
\* there, whether or not the confirmation reaches the client.
Enqueue(r) == ready' = Append(ready, r)

\* get_json_message with auto_ack=False: the event leaves the queue and stays
\* with the channel.  The worker polls again only after it tried to
\* acknowledge, so a channel holds one delivery at most.
Deliver ==
    /\ ready # <<>>
    /\ held = NoReading
    /\ held' = Head(ready)
    /\ ready' = Tail(ready)
    /\ deliveries' = [deliveries EXCEPT ![Head(ready)] = @ + 1]
    /\ UNCHANGED <<orphans, acked>>

\* ack_message on the channel that delivered the event.
Settle ==
    /\ held # NoReading
    /\ acked' = acked \cup {held}
    /\ held' = NoReading
    /\ UNCHANGED <<ready, orphans, deliveries>>

\* _invalidate_transport, or a lost connection: the channel is forgotten with
\* its delivery, and the delivery tag means nothing to the next channel.
ForgetChannel ==
    /\ held' = NoReading
    /\ orphans' = IF held = NoReading THEN orphans ELSE Append(orphans, held)
    /\ UNCHANGED <<ready, deliveries, acked>>

\* The broker closes a forgotten channel and puts its delivery back in front.
Requeue ==
    /\ orphans # <<>>
    /\ ready' = <<Head(orphans)>> \o ready
    /\ orphans' = Tail(orphans)
    /\ UNCHANGED <<held, deliveries, acked, faults>>
=============================================================================
