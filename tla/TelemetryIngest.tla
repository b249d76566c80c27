--------------------------- MODULE TelemetryIngest ---------------------------
(***************************************************************************)
(* The MQTT ingestor: the callback thread of paho that puts readings in a  *)
(* bounded queue, the worker threads of MessageProcessor that take them in *)
(* batches, store them and publish an event for the control engine, the    *)
(* counters they share, and the shutdown of the service.                   *)
(*                                                                         *)
(* The lock of the counters keeps the workers apart, and the callback adds *)
(* to messages_failed without it: each read and each write of that counter *)
(* is a step.  The other counters are touched by one thread or under the   *)
(* lock only, and an addition to one of them is a single step.             *)
(*                                                                         *)
(* What a payload contains is chosen when the validator looks at it: the   *)
(* validator and the scalar extraction are the only code that tells        *)
(* payloads apart.                                                         *)
(*                                                                         *)
(* MQTT has acknowledged a reading before the callback queues it, so a     *)
(* dropped reading, or one in memory when the process ends, is lost.       *)
(***************************************************************************)
EXTENDS TelemetryBroker

CONSTANTS
    Workers,            \* MessageProcessor threads
    QueueSize,          \* ingesta.max_queue_size
    BatchSize,          \* ingesta.batch_size
    PublishAttempts     \* the attempts of publish_sensor_record

ASSUME IngestAssumption ==
    /\ IsFiniteSet(Workers)
    /\ QueueSize \in Nat \ {0}
    /\ BatchSize \in Nat \ {0}
    /\ PublishAttempts \in Nat \ {0}

VARIABLES
    arrived,    \* readings that reached the callback
    callback,   \* the callback thread: what it is doing, what it read
    queue,      \* MessageProcessor.message_queue
    stage,      \* stage[w]: where the worker loop is
    batch,      \* batch[w]: the readings it took and has not finished
    attempt,    \* attempt[w]: publications tried for the first of them
    failures,   \* failures[w]: failures it has still to count for its last reading
    read,       \* read[w]: messages_failed as _inc_metric read it, under the lock
    counters,   \* IngestaMetrics
    validation, \* ingesta.validation_enabled: either, and no step changes it
    stored,     \* readings InfluxDB holds
    rejected,   \* readings found invalid, unreadable or not numeric (history)
    unpublished,\* stored readings whose event was given up (history)
    service     \* the service: running, stopping, or stopped

workVars == <<stage, batch, attempt, failures, read>>
ingestVars == <<arrived, callback, queue, workVars, counters, validation,
                stored, rejected, unpublished, service>>

Stages == {"collect", "store", "publish", "tally", "count", "exited"}
Counters == {"received", "processed", "failed", "dropped"}
NothingRead == [doing |-> "wait", read |-> 0]

IngestTypeOK ==
    /\ arrived \subseteq Readings
    /\ callback \in [doing : {"wait", "drop", "count"}, read : Nat]
    /\ queue \in Seq(Readings)
    /\ stage \in [Workers -> Stages]
    /\ batch \in [Workers -> Seq(Readings)]
    /\ attempt \in [Workers -> 0..PublishAttempts - 1]
    /\ failures \in [Workers -> 0..2]
    /\ read \in [Workers -> Nat]
    /\ counters \in [Counters -> Nat]
    /\ validation \in BOOLEAN
    /\ stored \subseteq Readings
    /\ rejected \subseteq Readings
    /\ unpublished \subseteq Readings
    /\ service \in {"running", "stopping", "stopped"}

\* The memory of a fresh process: an empty queue, workers at the top of their
\* loop, counters at 0.  It is lost when the process ends.
FreshMemory(queue_, callback_, stage_, batch_, attempt_, failures_, read_, counters_) ==
    /\ queue_ = <<>>
    /\ callback_ = NothingRead
    /\ stage_ = [w \in Workers |-> "collect"]
    /\ batch_ = [w \in Workers |-> <<>>]
    /\ attempt_ = [w \in Workers |-> 0]
    /\ failures_ = [w \in Workers |-> 0]
    /\ read_ = [w \in Workers |-> 0]
    /\ counters_ = [c \in Counters |-> 0]

IngestInit ==
    /\ FreshMemory(queue, callback, stage, batch, attempt, failures, read, counters)
    /\ validation \in BOOLEAN
    /\ service = "running"
    /\ arrived = {}
    /\ stored = {}
    /\ rejected = {}
    /\ unpublished = {}

-----------------------------------------------------------------------------
(***************************************************************************)
(* _on_mqtt_message, on paho's thread.                                     *)
(***************************************************************************)

\* messages_received is this thread's alone; put_nowait then queues the
\* reading or raises Full.  The client disconnects only at the end of the
\* cleanup: readings still arrive while the service stops.
Receive(r) ==
    /\ service # "stopped"
    /\ callback.doing = "wait"
    /\ r \notin arrived
    /\ arrived' = arrived \cup {r}
    /\ counters' = [counters EXCEPT !["received"] = @ + 1]
    /\ IF Len(queue) < QueueSize
       THEN queue' = Append(queue, r) /\ UNCHANGED callback
       ELSE callback' = [callback EXCEPT !.doing = "drop"] /\ UNCHANGED queue
    /\ UNCHANGED <<workVars, validation, stored, rejected, unpublished, service,
                   brokerVars, faults>>

\* No worker is adding to messages_failed.
MetricsUnlocked == \A w \in Workers : stage[w] # "count"

\* add_message counts the drop under the lock; the callback then reads
\* messages_failed, for an increment that takes no lock.  No other thread looks
\* at messages_dropped, and to read inside a worker's increment is to read
\* before it: the two are one step.
CountDrop ==
    /\ callback.doing = "drop"
    /\ MetricsUnlocked
    /\ counters' = [counters EXCEPT !["dropped"] = @ + 1]
    /\ callback' = [doing |-> "count", read |-> counters["failed"]]
    /\ UNCHANGED <<arrived, queue, workVars, validation, stored, rejected, unpublished, service, brokerVars, faults>>

\* The second half of messages_failed += 1: it writes over what a worker
\* counted since the first half, or between a worker's read and its write.
CountFailedUnlocked ==
    /\ callback.doing = "count"
    /\ counters' = [counters EXCEPT !["failed"] = callback.read + 1]
    /\ callback' = NothingRead
    /\ UNCHANGED <<arrived, queue, workVars, validation, stored, rejected,
                   unpublished, service, brokerVars, faults>>

-----------------------------------------------------------------------------
(***************************************************************************)
(* _worker_loop, on each worker thread.                                    *)
(***************************************************************************)

\* One get of the collecting loop: another worker may take the next reading.
Take(w) ==
    /\ stage[w] = "collect"
    /\ queue # <<>>
    /\ Len(batch[w]) < BatchSize
    /\ batch' = [batch EXCEPT ![w] = Append(@, Head(queue))]
    /\ queue' = Tail(queue)
    /\ UNCHANGED <<arrived, callback, stage, attempt, failures, read, counters,
                   validation, stored, rejected, unpublished, service, brokerVars,
                   faults>>

\* The batch is full, the queue was empty for a moment, or batch_timeout passed.
StartBatch(w) ==
    /\ stage[w] = "collect"
    /\ batch[w] # <<>>
    /\ stage' = [stage EXCEPT ![w] = "store"]
    /\ UNCHANGED <<arrived, callback, queue, batch, attempt, failures, read, counters,
                   validation, stored, rejected, unpublished, service, brokerVars,
                   faults>>

\* _process_single_message counts what became of the reading.  Then, without
\* validation, validate_payload's answer has no 'alarms', the line that looks
\* for them raises KeyError, and the handler counts a failure (once more).
Finish(w, ok) ==
    LET failing == (IF ok THEN 0 ELSE 1) + (IF validation THEN 0 ELSE 1)
    IN  /\ batch' = [batch EXCEPT ![w] = Tail(@)]
        /\ attempt' = [attempt EXCEPT ![w] = 0]
        /\ counters' = IF ok THEN [counters EXCEPT !["processed"] = @ + 1] ELSE counters
        /\ failures' = [failures EXCEPT ![w] = failing]
        /\ stage' = [stage EXCEPT ![w] = IF failing > 0 THEN "tally"
                                        ELSE IF Len(batch[w]) = 1 THEN "collect" ELSE "store"]
        /\ UNCHANGED read

\* Deviation: the event is published although the insertion failed.
StoreFails_Ignored(w) ==
    /\ stage[w] = "store"
    /\ Fault
    /\ stage' = [stage EXCEPT ![w] = "publish"]
    /\ UNCHANGED <<arrived, callback, queue, batch, attempt, failures, read, counters,
                   validation, stored, rejected, unpublished, service, brokerVars>>

\* No scalar can be extracted: nothing is stored, the reading failed.
RejectUnreadable(w) ==
    /\ stage[w] = "store"
    /\ rejected' = rejected \cup {Head(batch[w])}
    /\ Finish(w, FALSE)
    /\ UNCHANGED <<arrived, callback, queue, validation, stored, unpublished, service,
                   brokerVars, faults>>

\* Deviation: nothing catches the failure, and the thread dies of it.
StoreFails_KillingTheWorker(w) ==
    /\ stage[w] = "store"
    /\ Fault
    /\ stored' \in {stored, stored \cup {Head(batch[w])}}
    /\ stage' = [stage EXCEPT ![w] = "exited"]
    /\ UNCHANGED <<arrived, callback, queue, batch, attempt, failures, read, counters,
                   validation, rejected, unpublished, service, brokerVars>>

\* insert_influxdb answers False; the point may have been written all the same.
StoreFails(w) ==
    /\ stage[w] = "store"
    /\ Fault
    /\ stored' \in {stored, stored \cup {Head(batch[w])}}
    /\ Finish(w, FALSE)
    /\ UNCHANGED <<arrived, callback, queue, validation, rejected, unpublished,
                   service, brokerVars>>

\* Stored, but out of range or type for the validator, or no number for
\* build_event: processed, and no event.
StoreOnly(w) ==
    /\ stage[w] = "store"
    /\ stored' = stored \cup {Head(batch[w])}
    /\ rejected' = rejected \cup {Head(batch[w])}
    /\ Finish(w, TRUE)
    /\ UNCHANGED <<arrived, callback, queue, validation, unpublished, service,
                   brokerVars, faults>>

\* Stored and valid: publish_sensor_record is next.
Store(w) ==
    /\ stage[w] = "store"
    /\ stored' = stored \cup {Head(batch[w])}
    /\ stage' = [stage EXCEPT ![w] = "publish"]
    /\ UNCHANGED <<arrived, callback, queue, batch, attempt, failures, read, counters,
                   validation, rejected, unpublished, service, brokerVars, faults>>

PublishConfirmed(w) ==
    /\ stage[w] = "publish"
    /\ Enqueue(Head(batch[w]))
    /\ Finish(w, TRUE)
    /\ UNCHANGED <<arrived, callback, queue, validation, stored, rejected,
                   unpublished, service, held, orphans, deliveries, acked, faults>>

\* Deviation: the event is given up when the first attempt fails.
PublishFails_Once(w) ==
    /\ stage[w] = "publish"
    /\ Fault
    /\ Enqueue(Head(batch[w])) \/ UNCHANGED ready
    /\ unpublished' = unpublished \cup {Head(batch[w])}
    /\ Finish(w, TRUE)
    /\ UNCHANGED <<arrived, callback, queue, validation, stored, rejected, service,
                   held, orphans, deliveries, acked>>

\* An attempt fails, with or without the event in the broker; the client is
\* dropped and the next attempt opens another.  After the last the answer is
\* False, and _insert_registro does not look at it.
PublishFails(w) ==
    /\ stage[w] = "publish"
    /\ Fault
    /\ Enqueue(Head(batch[w])) \/ UNCHANGED ready
    /\ IF attempt[w] < PublishAttempts - 1
       THEN /\ attempt' = [attempt EXCEPT ![w] = @ + 1]
            /\ UNCHANGED <<stage, batch, failures, read, counters, unpublished>>
       ELSE /\ unpublished' = unpublished \cup {Head(batch[w])}
            /\ Finish(w, TRUE)
    /\ UNCHANGED <<arrived, callback, queue, validation, stored, rejected, service,
                   held, orphans, deliveries, acked>>

\* Deviation: the workers count without the lock.
TallyRead_Unlocked(w) ==
    /\ stage[w] = "tally"
    /\ read' = [read EXCEPT ![w] = counters["failed"]]
    /\ stage' = [stage EXCEPT ![w] = "count"]
    /\ UNCHANGED <<arrived, callback, queue, batch, attempt, failures, counters, validation,
                   stored, rejected, unpublished, service, brokerVars, faults>>

\* _inc_metric takes the lock and reads messages_failed.
TallyRead(w) ==
    /\ stage[w] = "tally"
    /\ MetricsUnlocked
    /\ read' = [read EXCEPT ![w] = counters["failed"]]
    /\ stage' = [stage EXCEPT ![w] = "count"]
    /\ UNCHANGED <<arrived, callback, queue, batch, attempt, failures, counters, validation,
                   stored, rejected, unpublished, service, brokerVars, faults>>

\* It writes the counter and releases the lock; a second failure is counted
\* likewise, and then the worker goes on with its batch, or collects again.
TallyWrite(w) ==
    /\ stage[w] = "count"
    /\ counters' = [counters EXCEPT !["failed"] = read[w] + 1]
    /\ read' = [read EXCEPT ![w] = 0]
    /\ failures' = [failures EXCEPT ![w] = @ - 1]
    /\ stage' = [stage EXCEPT ![w] = IF failures[w] > 1 THEN "tally"
                                    ELSE IF batch[w] = <<>> THEN "collect" ELSE "store"]
    /\ UNCHANGED <<arrived, callback, queue, batch, attempt, validation,
                   stored, rejected, unpublished, service, brokerVars, faults>>

\* The loop condition sees stop_workers; a batch in hand is finished first.
WorkerExits(w) ==
    /\ stage[w] = "collect"
    /\ batch[w] = <<>>
    /\ service = "stopping"
    /\ stage' = [stage EXCEPT ![w] = "exited"]
    /\ UNCHANGED <<arrived, callback, queue, batch, attempt, failures, read, counters,
                   validation, stored, rejected, unpublished, service, brokerVars,
                   faults>>

-----------------------------------------------------------------------------
(***************************************************************************)
(* The service.                                                            *)
(***************************************************************************)

\* A signal: the main loop leaves and _cleanup sets stop_workers.
Stop ==
    /\ service = "running"
    /\ Fault
    /\ service' = "stopping"
    /\ UNCHANGED <<arrived, callback, queue, workVars, counters, validation, stored,
                   rejected, unpublished, brokerVars>>

ProcessEnds ==
    /\ service' = "stopped"
    /\ FreshMemory(queue', callback', stage', batch', attempt', failures', read', counters')
    /\ UNCHANGED <<arrived, validation, stored, rejected, unpublished, brokerVars>>

\* join waits at most five seconds for each worker: the client disconnects
\* and the process ends, whatever the daemon threads and the queue still hold.
CleanupEnds ==
    /\ service = "stopping"
    /\ ProcessEnds
    /\ UNCHANGED faults

\* The process is killed: compose has no restart policy for the ingestor.
Killed ==
    /\ service \in {"running", "stopping"}
    /\ Fault
    /\ ProcessEnds

\* Somebody starts the container again.
StartAgain ==
    /\ service = "stopped"
    /\ service' = "running"
    /\ UNCHANGED <<arrived, callback, queue, workVars, counters, validation, stored,
                   rejected, unpublished, brokerVars, faults>>

WorkerStep(w) ==
    /\ service # "stopped"
    /\ \/ Take(w) \/ StartBatch(w) \/ WorkerExits(w)
       \/ RejectUnreadable(w) \/ StoreFails(w) \/ StoreOnly(w) \/ Store(w)
       \/ PublishConfirmed(w) \/ PublishFails(w)
       \/ TallyRead(w) \/ TallyWrite(w)

IngestNext ==
    \/ \E r \in Readings : Receive(r)
    \/ service # "stopped" /\ (CountDrop \/ CountFailedUnlocked)
    \/ \E w \in Workers : WorkerStep(w)
    \/ Stop \/ CleanupEnds \/ Killed \/ StartAgain
=============================================================================
