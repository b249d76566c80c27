------------------------ MODULE TelemetryPipelineProofs ------------------------
(***************************************************************************)
(* Proofs about the telemetry pipeline, for any readings, workers, queue   *)
(* and batch sizes, numbers of attempts and faults: what a recommendation  *)
(* and an acknowledgement rest on, and the accounts of identities, audit   *)
(* rows, lost publications and the ingestor's counters.                    *)
(***************************************************************************)
EXTENDS TelemetryPipeline, FiniteSetTheorems, SequenceTheorems, TLAPS

\* The worker has an event in every step but the first, its delivery is of
\* that event if it still has one, and a version from the evaluation on.
EventAtHand ==
    /\ step = "poll" => event = NoReading /\ held = NoReading
    /\ step # "poll" => event \in Readings /\ held \in {event, NoReading}
    /\ step \in {"recommend", "simulate"} => resolved \in PolicyVersions

\* Workers that store or publish have a reading to, and those that count a
\* failure have one to count.
WorkersHaveReadings ==
    \A w \in Workers :
        /\ stage[w] \in {"store", "publish"} => batch[w] # <<>>
        /\ failures[w] # 0 <=> stage[w] \in {"tally", "count"}

TypeInv == PipelineTypeOK /\ EventAtHand /\ WorkersHaveReadings

-----------------------------------------------------------------------------
\* An element occurs at one place of a sequence.
Distinct(s) == \A i, j \in DOMAIN s : s[i] = s[j] => i = j

\* A reading has arrived and is at one place of the ingestor at most.
PlacedOnce ==
    /\ Distinct(queue)
    /\ Elements(queue) \subseteq arrived
    /\ \A w \in Workers :
          /\ Distinct(batch[w])
          /\ Elements(batch[w]) \subseteq arrived
          /\ Elements(batch[w]) \cap Elements(queue) = {}
          /\ \A v \in Workers \ {w} : Elements(batch[w]) \cap Elements(batch[v]) = {}

\* A rejected reading is at no place any more.
RejectedIsOver ==
    \A r \in rejected :
        /\ r \in arrived
        /\ r \notin Elements(queue)
        /\ \A w \in Workers : r \notin Elements(batch[w])

\* The readings whose events the control engine may see: they have left the
\* ingestor, or are being published.
Published(r) ==
    /\ r \in arrived
    /\ r \notin Elements(queue)
    /\ \A w \in Workers : r \in Elements(batch[w]) => stage[w] = "publish" /\ r = Head(batch[w])

Good(r) == r \in stored /\ r \notin rejected /\ Published(r)

\* What is published, wherever it is, is of good readings.
EventsAreGood ==
    /\ \A r \in Elements(ready) \cup Elements(orphans) : Good(r)
    /\ held # NoReading => Good(held)
    /\ event # NoReading => Good(event)
    /\ \A rec \in recommended : Good(rec[1])
    /\ \A w \in Workers : stage[w] = "publish" => Good(Head(batch[w]))

-----------------------------------------------------------------------------
\* The event at hand has its audit row, or none to be had, before it is settled.
AuditPrecedesAck ==
    /\ step = "ack" => auditRows[event] > 0 \/ event \in auditFailed
    /\ AckedIsAudited

\* The delivery at hand has not had its audit row yet.
AuditDue(r) == event = r /\ step \notin {"poll", "ack"}

AuditsPaid ==
    \A r \in Readings : auditRows[r] + (IF AuditDue(r) THEN 1 ELSE 0) <= deliveries[r]

\* The delivery at hand may still give its reading an identity.
IdentityDue(r) ==
    /\ event = r
    /\ \/ step \in {"flag", "evaluate"}
       \/ step \in {"recommend", "simulate"} /\ Recommendation \notin recommended

IdentitiesPaid ==
    /\ IsFiniteSet(recommended)
    /\ \A r \in Readings :
          Cardinality(Identities(r)) + (IF IdentityDue(r) THEN 1 ELSE 0) <= deliveries[r]

\* The attempts that workers have spent on the readings at their hands.
Spent == UNION {{w} \X (1..attempt[w]) : w \in Workers}

\* Faults have paid for every publication given up and for every attempt since.
FaultsPaid ==
    /\ IsFiniteSet(unpublished) /\ IsFiniteSet(givenUp) /\ IsFiniteSet(Spent)
    /\ PublishAttempts * Cardinality(unpublished) + MaxPublishAttempts * Cardinality(givenUp)
          + Cardinality(Spent) + tries <= faults

\* Times * n, without the product.
Scaled(n) == IF validation THEN n ELSE n + n

\* What the accounts hold besides messages_failed, and what only the callback
\* thread knows of.
Settled == counters["processed"] + Cardinality(Uncounted) + Scaled(Len(queue) + Cardinality(InHand))
AtCallback == IF callback.doing = "wait" THEN 0 ELSE 1

\* The accounts are right if messages_failed is f.
Balance(f) ==
    /\ Settled + f + Scaled(AtCallback) <= Scaled(counters["received"])
    /\ counters["dropped"] = 0 =>
          Settled + f + Scaled(AtCallback) = Scaled(counters["received"])

\* They are right with the counter as it is, and with what the thread that has
\* the lock read; what the callback read is less than either may become.
ReadingsAccounted ==
    /\ IsFiniteSet(InHand) /\ IsFiniteSet(Uncounted)
    /\ Balance(counters["failed"])
    /\ \A w \in Workers : stage[w] = "count" =>
          /\ Balance(read[w])
          /\ callback.doing = "count" => callback.read <= read[w] + 1
          /\ \A v \in Workers : stage[v] = "count" => v = w
    /\ callback.doing = "count" =>
          callback.read <= counters["failed"] /\ counters["dropped"] > 0

-----------------------------------------------------------------------------
(***************************************************************************)
(* Sequences and their elements.                                           *)
(***************************************************************************)

LEMMA EmptyHasNone == Elements(<<>>) = {} /\ Distinct(<<>>)
  BY DEF Elements, Distinct

LEMMA AppendElements ==
    ASSUME NEW S, NEW s \in Seq(S), NEW x \in S
    PROVE  /\ Append(s, x) \in Seq(S)
           /\ Elements(Append(s, x)) = Elements(s) \cup {x}
           /\ Distinct(s) /\ x \notin Elements(s) => Distinct(Append(s, x))
<1>1. /\ Append(s, x) \in Seq(S)
      /\ Len(s) \in Nat
      /\ DOMAIN s = 1..Len(s)
      /\ DOMAIN Append(s, x) = 1..Len(s) + 1
      /\ \A i \in 1..Len(s) : Append(s, x)[i] = s[i]
      /\ Append(s, x)[Len(s) + 1] = x
  BY AppendProperties, LenProperties
<1>2. Elements(Append(s, x)) = Elements(s) \cup {x}
  BY <1>1 DEF Elements
<1>3. ASSUME Distinct(s), x \notin Elements(s) PROVE Distinct(Append(s, x))
  BY <1>1, <1>3 DEF Elements, Distinct
<1> QED
  BY <1>1, <1>2, <1>3

LEMMA HeadAndTail ==
    ASSUME NEW S, NEW s \in Seq(S), s # <<>>
    PROVE  /\ Head(s) \in S
           /\ Tail(s) \in Seq(S)
           /\ Head(s) \in Elements(s)
           /\ Elements(Tail(s)) \subseteq Elements(s)
           /\ Distinct(s) => Distinct(Tail(s)) /\ Head(s) \notin Elements(Tail(s))
           /\ Len(s) = 1 <=> Tail(s) = <<>>
<1>1. /\ Head(s) \in S /\ Head(s) = s[1]
      /\ Tail(s) \in Seq(S)
      /\ Len(s) \in Nat \ {0}
      /\ DOMAIN s = 1..Len(s)
      /\ Len(Tail(s)) = Len(s) - 1
      /\ DOMAIN Tail(s) = 1..Len(s) - 1
      /\ \A i \in 1..Len(s) - 1 : Tail(s)[i] = s[i + 1]
  BY HeadTailProperties, LenProperties, EmptySeq
<1>2. Head(s) \in Elements(s)
  BY <1>1 DEF Elements
<1>3. Elements(Tail(s)) \subseteq Elements(s)
  <2> SUFFICES ASSUME NEW i \in DOMAIN Tail(s) PROVE \E j \in DOMAIN s : s[j] = Tail(s)[i]
    BY DEF Elements
  <2>1. i + 1 \in DOMAIN s /\ s[i + 1] = Tail(s)[i]
    BY <1>1
  <2> QED
    BY <2>1
<1>4. ASSUME Distinct(s) PROVE Distinct(Tail(s)) /\ Head(s) \notin Elements(Tail(s))
  <2>1. ASSUME NEW i \in DOMAIN Tail(s), NEW j \in DOMAIN Tail(s), Tail(s)[i] = Tail(s)[j]
        PROVE  i = j
    <3>1. i + 1 \in DOMAIN s /\ j + 1 \in DOMAIN s /\ s[i + 1] = s[j + 1]
      BY <1>1, <2>1
    <3> QED
      BY <1>1, <1>4, <3>1 DEF Distinct
  <2>2. ASSUME NEW i \in DOMAIN Tail(s) PROVE Tail(s)[i] # Head(s)
    <3>1. i + 1 \in DOMAIN s /\ 1 \in DOMAIN s /\ i + 1 # 1 /\ Tail(s)[i] = s[i + 1]
      BY <1>1
    <3> QED
      BY <1>1, <1>4, <3>1 DEF Distinct
  <2> QED
    BY <2>1, <2>2 DEF Distinct, Elements
<1>5. Len(s) = 1 <=> Tail(s) = <<>>
  BY <1>1, EmptySeq
<1> QED
  BY <1>1, <1>2, <1>3, <1>4, <1>5

LEMMA InFront ==
    ASSUME NEW S, NEW s \in Seq(S), NEW x \in S
    PROVE  /\ <<x>> \o s \in Seq(S)
           /\ Elements(<<x>> \o s) = Elements(s) \cup {x}
<1>1. <<x>> \in Seq(S) /\ Len(<<x>>) = 1 /\ <<x>>[1] = x /\ Len(s) \in Nat
  BY LenProperties
<1>2. /\ <<x>> \o s \in Seq(S)
      /\ DOMAIN (<<x>> \o s) = 1..Len(s) + 1
      /\ \A i \in 1..Len(s) + 1 : (<<x>> \o s)[i] = IF i <= 1 THEN <<x>>[i] ELSE s[i - 1]
  <2>1. /\ <<x>> \o s \in Seq(S)
        /\ Len(<<x>> \o s) = 1 + Len(s)
        /\ \A i \in 1..1 + Len(s) : (<<x>> \o s)[i] = IF i <= 1 THEN <<x>>[i] ELSE s[i - 1]
    BY <1>1, ConcatProperties
  <2> QED
    BY <1>1, <2>1, LenProperties
<1>3. DOMAIN s = 1..Len(s)
  BY LenProperties
<1>4. ASSUME NEW e \in Elements(<<x>> \o s) PROVE e \in Elements(s) \cup {x}
  BY <1>1, <1>2, <1>3 DEF Elements
<1>5. ASSUME NEW e \in Elements(s) PROVE e \in Elements(<<x>> \o s)
  <2>1. PICK i \in 1..Len(s) : e = s[i]
    BY <1>3 DEF Elements
  <2>2. i + 1 \in 1..Len(s) + 1 /\ (<<x>> \o s)[i + 1] = s[i]
    BY <1>1, <1>2
  <2> QED
    BY <1>2, <2>1, <2>2 DEF Elements
<1>6. x \in Elements(<<x>> \o s)
  BY <1>1, <1>2 DEF Elements
<1> QED
  BY <1>2, <1>4, <1>5, <1>6

-----------------------------------------------------------------------------
(***************************************************************************)
(* Type correctness.                                                       *)
(***************************************************************************)

LEMMA TypeInit == PipelineInit => TypeInv
<1> SUFFICES ASSUME PipelineInit PROVE TypeInv
  OBVIOUS
<1>1. BrokerTypeOK
  BY BrokerAssumption DEF PipelineInit, BrokerInit, BrokerTypeOK
<1>2. IngestTypeOK /\ WorkersHaveReadings
  BY IngestAssumption
     DEF PipelineInit, IngestInit, FreshMemory, NothingRead, IngestTypeOK, Stages, Counters,
         WorkersHaveReadings
<1>3. ControlTypeOK /\ EventAtHand
  BY ControlWorkerAssumption
     DEF PipelineInit, BrokerInit, ControlInit, ControlTypeOK, EventAtHand, Steps
<1> QED
  BY <1>1, <1>2, <1>3 DEF TypeInv, PipelineTypeOK

LEMMA FaultIsBounded ==
    ASSUME TypeInv, Fault
    PROVE  faults' \in 0..MaxFaults /\ faults' = faults + 1
  BY BrokerAssumption DEF TypeInv, PipelineTypeOK, BrokerTypeOK, Fault

\* The types after a reading is finished with.
LEMMA FinishTypes ==
    ASSUME TypeInv, NEW w \in Workers, stage[w] \in {"store", "publish"},
           NEW ok \in BOOLEAN, Finish(w, ok)
    PROVE  /\ failures' \in [Workers -> 0..2] /\ read' \in [Workers -> Nat]
           /\ counters' \in [Counters -> Nat]
           /\ batch' \in [Workers -> Seq(Readings)]
           /\ attempt' \in [Workers -> 0..PublishAttempts - 1]
           /\ stage' \in [Workers -> Stages]
           /\ WorkersHaveReadings'
<1> DEFINE failing == (IF ok THEN 0 ELSE 1) + (IF validation THEN 0 ELSE 1)
<1>1. /\ batch[w] \in Seq(Readings) /\ batch[w] # <<>>
      /\ batch \in [Workers -> Seq(Readings)] /\ stage \in [Workers -> Stages]
      /\ counters \in [Counters -> Nat] /\ attempt \in [Workers -> 0..PublishAttempts - 1]
      /\ failures \in [Workers -> 0..2] /\ read \in [Workers -> Nat] /\ validation \in BOOLEAN
  BY DEF TypeInv, PipelineTypeOK, IngestTypeOK, WorkersHaveReadings
<1>2. Tail(batch[w]) \in Seq(Readings) /\ (Len(batch[w]) = 1 <=> Tail(batch[w]) = <<>>)
  BY <1>1, HeadAndTail
<1>3. counters' \in [Counters -> Nat]
  BY <1>1 DEF Finish, Counters
<1>4. batch' \in [Workers -> Seq(Readings)] /\ stage' \in [Workers -> Stages]
  BY <1>1, <1>2 DEF Finish, Stages
<1>5. attempt' \in [Workers -> 0..PublishAttempts - 1]
  BY <1>1, IngestAssumption DEF Finish
<1>6. failing \in 0..2
  OBVIOUS
<1>7. /\ batch'[w] = Tail(batch[w]) /\ failures'[w] = failing
      /\ stage'[w] = IF failing > 0 THEN "tally" ELSE IF Len(batch[w]) = 1 THEN "collect" ELSE "store"
      /\ \A v \in Workers \ {w} :
            batch'[v] = batch[v] /\ failures'[v] = failures[v] /\ stage'[v] = stage[v]
      /\ failures' = [failures EXCEPT ![w] = failing] /\ read' = read
  BY <1>1 DEF Finish
<1>8. WorkersHaveReadings'
  <2> HIDE DEF failing
  <2>1. ASSUME NEW v \in Workers
        PROVE  stage'[v] \in {"store", "publish"} => batch'[v] # <<>>
    <3>1. CASE v = w
      BY <1>1, <1>2, <1>6, <1>7, <3>1
    <3>2. CASE v # w
      BY <1>7, <3>2 DEF TypeInv, WorkersHaveReadings
    <3> QED
      BY <3>1, <3>2
  <2>2. ASSUME NEW v \in Workers
        PROVE  failures'[v] # 0 <=> stage'[v] \in {"tally", "count"}
    <3>1. CASE v = w
      <4>1. failing > 0 <=> failing # 0
        BY <1>6
      <4> QED
        BY <1>7, <3>1, <4>1
    <3>2. CASE v # w
      BY <1>7, <3>2 DEF TypeInv, WorkersHaveReadings
    <3> QED
      BY <3>1, <3>2
  <2> QED
    BY <2>1, <2>2 DEF WorkersHaveReadings
<1>9. failures' \in [Workers -> 0..2] /\ read' \in [Workers -> Nat]
  <2> HIDE DEF failing
  <2> QED
    BY <1>1, <1>6, <1>7
<1> QED
  BY <1>3, <1>4, <1>5, <1>8, <1>9

LEMMA IngestTypeStep ==
    ASSUME TypeInv, IngestNext
    PROVE  BrokerTypeOK' /\ IngestTypeOK' /\ WorkersHaveReadings' /\ UNCHANGED held
<1>0. Fault => faults' \in 0..MaxFaults
  BY FaultIsBounded
<1>1. BrokerTypeOK /\ IngestTypeOK /\ WorkersHaveReadings
  BY DEF TypeInv, PipelineTypeOK
<1> DEFINE Goal == BrokerTypeOK' /\ IngestTypeOK' /\ WorkersHaveReadings' /\ UNCHANGED held
<1> USE DEF BrokerTypeOK, IngestTypeOK, WorkersHaveReadings, brokerVars, workVars
<1>2. ASSUME NEW r \in Readings, Receive(r) PROVE Goal
  <2>1. queue' \in Seq(Readings)
    <3>1. Append(queue, r) \in Seq(Readings)
      BY <1>1, AppendProperties
    <3> QED
      BY <1>1, <1>2, <3>1 DEF Receive
  <2>2. counters' \in [Counters -> Nat]
    BY <1>1, <1>2 DEF Receive, Counters
  <2> QED
    BY <1>1, <1>2, <2>1, <2>2 DEF Receive
<1>3. CASE CountDrop
  BY <1>1, <1>3 DEF CountDrop, Counters
<1>4. CASE CountFailedUnlocked
  BY <1>1, <1>4 DEF CountFailedUnlocked, NothingRead, Counters
<1>5. ASSUME NEW w \in Workers, WorkerStep(w) PROVE Goal
  <2>1. /\ batch[w] \in Seq(Readings)
        /\ stage[w] \in {"store", "publish"} => Head(batch[w]) \in Readings
    BY <1>1, HeadAndTail
  <2>2. CASE Take(w)
    <3>1. Head(queue) \in Readings /\ Tail(queue) \in Seq(Readings)
      BY <1>1, <2>2, HeadAndTail DEF Take
    <3>2. Append(batch[w], Head(queue)) \in Seq(Readings)
      BY <2>1, <3>1, AppendProperties
    <3> QED
      BY <1>1, <2>2, <3>1, <3>2 DEF Take
  <2>3. CASE StartBatch(w) \/ WorkerExits(w)
    BY <1>1, <2>3 DEF StartBatch, WorkerExits, Stages
  <2>4. CASE RejectUnreadable(w) \/ StoreOnly(w)
    BY <1>1, <2>1, <2>4, FinishTypes DEF RejectUnreadable, StoreOnly
  <2>5. CASE StoreFails(w)
    BY <1>0, <1>1, <2>1, <2>5, FinishTypes DEF StoreFails
  <2>6. CASE Store(w)
    BY <1>1, <2>1, <2>6 DEF Store, Stages
  <2>7. ASSUME stage[w] = "publish", Enqueue(Head(batch[w])) \/ UNCHANGED ready
        PROVE  ready' \in Seq(Readings)
    <3>1. Append(ready, Head(batch[w])) \in Seq(Readings)
      BY <1>1, <2>1, <2>7, AppendProperties
    <3> QED
      BY <1>1, <2>7, <3>1 DEF Enqueue
  <2>8. CASE PublishConfirmed(w)
    BY <1>1, <2>1, <2>7, <2>8, FinishTypes DEF PublishConfirmed
  <2>9. CASE PublishFails(w)
    <3>1. CASE attempt[w] < PublishAttempts - 1
      <4>1. attempt[w] + 1 \in 0..PublishAttempts - 1
        BY <1>1, <3>1, IngestAssumption
      <4> QED
        BY <1>0, <1>1, <2>7, <2>9, <3>1, <4>1 DEF PublishFails
    <3>2. CASE ~(attempt[w] < PublishAttempts - 1)
      BY <1>0, <1>1, <2>1, <2>7, <2>9, <3>2, FinishTypes DEF PublishFails
    <3> QED
      BY <3>1, <3>2
  <2>10. CASE TallyRead(w)
    <3>1. counters["failed"] \in Nat
      BY <1>1 DEF Counters
    <3> QED
      BY <1>1, <2>10, <3>1 DEF TallyRead, Stages
  <2>11. CASE TallyWrite(w)
    <3>1. failures[w] \in 1..2 /\ read[w] \in Nat
      BY <1>1, <2>11 DEF TallyWrite
    <3>2. counters' \in [Counters -> Nat] /\ failures' \in [Workers -> 0..2]
          /\ read' \in [Workers -> Nat] /\ stage' \in [Workers -> Stages]
      BY <1>1, <2>11, <3>1 DEF TallyWrite, Counters, Stages
    <3>3. /\ failures'[w] = failures[w] - 1 /\ batch' = batch
          /\ stage'[w] = IF failures[w] > 1 THEN "tally"
                         ELSE IF batch[w] = <<>> THEN "collect" ELSE "store"
          /\ \A v \in Workers \ {w} : failures'[v] = failures[v] /\ stage'[v] = stage[v]
      BY <1>1, <2>11 DEF TallyWrite
    <3>4. ASSUME NEW v \in Workers
          PROVE  /\ stage'[v] \in {"store", "publish"} => batch'[v] # <<>>
                 /\ failures'[v] # 0 <=> stage'[v] \in {"tally", "count"}
      <4>1. CASE v = w
        <5>1. CASE failures[w] > 1
          BY <3>1, <3>3, <4>1, <5>1
        <5>2. CASE ~(failures[w] > 1)
          <6>1. failures'[w] = 0
            BY <3>1, <3>3, <5>2
          <6> QED
            BY <3>3, <4>1, <5>2, <6>1
        <5> QED
          BY <5>1, <5>2
      <4>2. CASE v # w
        <5>1. /\ stage'[v] = stage[v] /\ failures'[v] = failures[v] /\ batch'[v] = batch[v]
          BY <3>3, <4>2
        <5> QED
          BY <1>1, <5>1
      <4> QED
        BY <4>1, <4>2
    <3> QED
      BY <1>1, <2>11, <3>2, <3>4 DEF TallyWrite
  <2> QED
    BY <1>5, <2>2, <2>3, <2>4, <2>5, <2>6, <2>8, <2>9, <2>10, <2>11 DEF WorkerStep
<1>6. CASE Stop \/ StartAgain
  BY <1>0, <1>1, <1>6 DEF Stop, StartAgain
<1>7. CASE CleanupEnds \/ Killed
  <2>1. /\ ProcessEnds
        /\ faults' = faults \/ Fault
    BY <1>7 DEF CleanupEnds, Killed
  <2>2. BrokerTypeOK' /\ UNCHANGED held
    BY <1>0, <1>1, <2>1 DEF ProcessEnds
  <2>3. /\ queue' = <<>> /\ callback' = NothingRead
        /\ batch' = [w \in Workers |-> <<>>] /\ counters' = [c \in Counters |-> 0]
        /\ attempt' = [w \in Workers |-> 0] /\ read' = [w \in Workers |-> 0]
        /\ failures' = [w \in Workers |-> 0] /\ stage' = [w \in Workers |-> "collect"]
        /\ service' = "stopped"
        /\ UNCHANGED <<arrived, validation, stored, rejected, unpublished>>
    BY <2>1 DEF ProcessEnds, FreshMemory
  <2>4. IngestTypeOK'
    BY <1>1, <2>3, IngestAssumption DEF NothingRead, Stages
  <2>5. WorkersHaveReadings'
    BY <2>3
  <2> QED
    BY <2>2, <2>4, <2>5
<1> QED
  BY <1>2, <1>3, <1>4, <1>5, <1>6, <1>7 DEF IngestNext

LEMMA ControlTypeStep ==
    ASSUME TypeInv, ControlNext
    PROVE  BrokerTypeOK' /\ ControlTypeOK' /\ EventAtHand'
<1> DEFINE Goal == BrokerTypeOK' /\ ControlTypeOK' /\ EventAtHand'
<1>0. Fault => faults' \in 0..MaxFaults
  BY FaultIsBounded
<1>1. BrokerTypeOK /\ ControlTypeOK /\ EventAtHand
  BY DEF TypeInv, PipelineTypeOK
<1>2. 0 \in 0..MaxPublishAttempts - 1
      /\ (tries \in 0..MaxPublishAttempts - 1 /\ ~LastAttempt => tries + 1 \in 0..MaxPublishAttempts - 1)
  BY ControlWorkerAssumption DEF LastAttempt
<1>3. BrokerTypeOK /\ ForgetChannel /\ faults' \in 0..MaxFaults => BrokerTypeOK'
  BY AppendProperties DEF ForgetChannel, BrokerTypeOK
<1>4. step \in {"recommend", "simulate"} => Recommendation \in Recommendations
  BY <1>1 DEF EventAtHand, Recommendation, Recommendations
<1>5. ASSUME AttemptFails
      PROVE  /\ BrokerTypeOK' /\ held' \in {held, NoReading}
             /\ ~LastAttempt => tries' \in 0..MaxPublishAttempts - 1 /\ UNCHANGED <<step, event>>
  <2>1. BrokerTypeOK'
    BY <1>0, <1>1, <1>3, <1>5 DEF AttemptFails, BrokerTypeOK, brokerVars
  <2>2. held' \in {held, NoReading}
    BY <1>5 DEF AttemptFails, ForgetChannel, brokerVars
  <2>3. ~LastAttempt => tries' \in 0..MaxPublishAttempts - 1 /\ UNCHANGED <<step, event>>
    BY <1>1, <1>2, <1>5 DEF AttemptFails, ControlTypeOK
  <2> QED
    BY <2>1, <2>2, <2>3
<1>6. CASE Poll
  <2>1. Head(ready) \in Readings /\ Tail(ready) \in Seq(Readings)
    BY <1>1, <1>6, HeadAndTail DEF Poll, Deliver, BrokerTypeOK
  <2>2. deliveries' \in [Readings -> Nat]
    BY <1>1, <1>6, <2>1 DEF Poll, Deliver, BrokerTypeOK
  <2> QED
    BY <1>1, <1>6, <2>1, <2>2 DEF Poll, Deliver, BrokerTypeOK, ControlTypeOK, EventAtHand,
       Steps, outputVars, auditVars
<1>7. CASE ReadFlag \/ Evaluate
  BY <1>1, <1>2, <1>7 DEF ReadFlag, Evaluate, GoTo, BrokerTypeOK, ControlTypeOK, EventAtHand,
     Steps, outputVars, auditVars, brokerVars
<1>17. CASE Refuse
  BY <1>0, <1>1, <1>2, <1>17 DEF Refuse, GoTo, BrokerTypeOK, ControlTypeOK, EventAtHand,
     Steps, outputVars, auditVars, brokerVars
<1>8. CASE Recommend
  BY <1>1, <1>2, <1>4, <1>8 DEF Recommend, GoTo, BrokerTypeOK, ControlTypeOK, EventAtHand,
     Steps, auditVars, brokerVars
<1>9. CASE RecommendFails
  BY <1>1, <1>2, <1>4, <1>5, <1>9 DEF RecommendFails, GoTo, ControlTypeOK, EventAtHand,
     Steps, auditVars
<1>10. CASE Simulate
  <2>1. CASE AttemptFails
    BY <1>1, <1>2, <1>4, <1>5, <1>10, <2>1 DEF Simulate, GoTo, ControlTypeOK, EventAtHand,
       Steps, auditVars
  <2>2. CASE ~AttemptFails
    BY <1>1, <1>2, <1>4, <1>10, <2>2 DEF Simulate, GoTo, BrokerTypeOK, ControlTypeOK, EventAtHand,
       Steps, auditVars, brokerVars
  <2> QED
    BY <2>1, <2>2
<1>11. CASE PublishAudit
  <2>1. CASE AttemptFails
    BY <1>1, <1>2, <1>5, <1>11, <2>1 DEF PublishAudit, GoTo, ControlTypeOK, EventAtHand,
       Steps, outputVars, auditVars
  <2>2. CASE ~AttemptFails
    BY <1>1, <1>2, <1>11, <2>2 DEF PublishAudit, GoTo, BrokerTypeOK, ControlTypeOK, EventAtHand,
       Steps, outputVars, auditVars, brokerVars
  <2> QED
    BY <2>1, <2>2
<1>12. CASE PersistAudit
  <2>1. event \in Readings
    BY <1>1, <1>12 DEF PersistAudit, EventAtHand
  <2>2. auditRows' \in [Readings -> Nat] /\ auditFailed' \subseteq Readings
    BY <1>1, <1>12, <2>1 DEF PersistAudit, ControlTypeOK
  <2>3. faults' \in 0..MaxFaults
    BY <1>0, <1>1, <1>12 DEF PersistAudit, BrokerTypeOK
  <2> QED
    BY <1>1, <1>2, <1>12, <2>1, <2>2, <2>3 DEF PersistAudit, GoTo, BrokerTypeOK, ControlTypeOK,
       EventAtHand, Steps, outputVars, brokerVars
<1>18. CASE Report
  <2>1. event \in Readings /\ auditFailed' \subseteq Readings
    BY <1>1, <1>18 DEF Report, EventAtHand, ControlTypeOK
  <2>2. CASE AttemptFails
    BY <1>1, <1>2, <1>5, <1>18, <2>1, <2>2 DEF Report, GoTo, ControlTypeOK, EventAtHand,
       Steps, outputVars
  <2>3. CASE ~AttemptFails
    BY <1>1, <1>2, <1>18, <2>1, <2>3 DEF Report, GoTo, BrokerTypeOK, ControlTypeOK, EventAtHand,
       Steps, outputVars, brokerVars
  <2> QED
    BY <2>2, <2>3
<1>13. CASE Ack
  BY <1>1, <1>13 DEF Ack, Settle, BrokerTypeOK, ControlTypeOK, EventAtHand, Steps, outputVars,
     auditVars, brokerVars
<1>14. CASE ConnectionLost
  <2>1. BrokerTypeOK' /\ held' = NoReading
    BY <1>0, <1>1, <1>3, <1>14 DEF ConnectionLost, ForgetChannel
  <2> QED
    BY <1>1, <1>14, <2>1 DEF ConnectionLost, ControlTypeOK, EventAtHand, controlVars
<1>15. CASE BrokerRequeues
  <2>1. Head(orphans) \in Readings /\ Tail(orphans) \in Seq(Readings)
    BY <1>1, <1>15, HeadAndTail DEF BrokerRequeues, Requeue, BrokerTypeOK
  <2>2. <<Head(orphans)>> \o ready \in Seq(Readings)
    BY <1>1, <2>1, InFront DEF BrokerTypeOK
  <2> QED
    BY <1>1, <1>15, <2>1, <2>2 DEF BrokerRequeues, Requeue, BrokerTypeOK, ControlTypeOK,
       EventAtHand, controlVars
<1>16. CASE WorkerCrash
  <2>1. BrokerTypeOK' /\ held' = NoReading
    BY <1>0, <1>1, <1>3, <1>16 DEF WorkerCrash, ForgetChannel
  <2> QED
    BY <1>1, <1>2, <1>16, <2>1 DEF WorkerCrash, ControlTypeOK, EventAtHand, Steps, outputVars,
       auditVars
<1> QED
  BY <1>6, <1>7, <1>8, <1>9, <1>10, <1>11, <1>12, <1>13, <1>14, <1>15, <1>16, <1>17, <1>18
     DEF ControlNext, HandleStep

LEMMA TypeStep == TypeInv /\ [PipelineNext]_pipelineVars => TypeInv'
<1> SUFFICES ASSUME TypeInv, [PipelineNext]_pipelineVars PROVE TypeInv'
  OBVIOUS
<1>1. CASE IngestNext /\ UNCHANGED controlVars
  <2>1. BrokerTypeOK' /\ IngestTypeOK' /\ WorkersHaveReadings' /\ UNCHANGED held
    BY <1>1, IngestTypeStep
  <2>2. ControlTypeOK' /\ EventAtHand'
    BY <1>1, <2>1 DEF TypeInv, PipelineTypeOK, ControlTypeOK, EventAtHand, controlVars
  <2> QED
    BY <2>1, <2>2 DEF TypeInv, PipelineTypeOK
<1>2. CASE ControlNext /\ UNCHANGED ingestVars
  <2>1. BrokerTypeOK' /\ ControlTypeOK' /\ EventAtHand'
    BY <1>2, ControlTypeStep
  <2>2. IngestTypeOK' /\ WorkersHaveReadings'
    BY <1>2 DEF TypeInv, PipelineTypeOK, IngestTypeOK, WorkersHaveReadings, ingestVars, workVars
  <2> QED
    BY <2>1, <2>2 DEF TypeInv, PipelineTypeOK
<1>3. CASE UNCHANGED pipelineVars
  BY <1>3 DEF pipelineVars, ingestVars, workVars, controlVars, brokerVars, TypeInv, PipelineTypeOK,
     BrokerTypeOK, IngestTypeOK, ControlTypeOK, EventAtHand, WorkersHaveReadings
<1> QED
  BY <1>1, <1>2, <1>3 DEF PipelineNext

\* The ingestor, the broker and the control engine worker keep their types,
\* and the worker its event for as long as it handles it.
THEOREM PipelineTypeCorrect == PipelineSpec => []PipelineTypeOK
<1>1. TypeInv => PipelineTypeOK
  BY DEF TypeInv
<1> QED
  BY <1>1, TypeInit, TypeStep, PTL DEF PipelineSpec

-----------------------------------------------------------------------------
(***************************************************************************)
(* What a step of the ingestor does to the readings at hand.               *)
(***************************************************************************)

Arrives(r) ==
    /\ r \notin arrived
    /\ arrived' = arrived \cup {r}
    /\ queue' \in {queue, Append(queue, r)}
    /\ UNCHANGED <<stage, batch, stored, rejected, ready>>

Takes(w) ==
    /\ stage[w] = "collect"
    /\ queue # <<>>
    /\ batch' = [batch EXCEPT ![w] = Append(@, Head(queue))]
    /\ queue' = Tail(queue)
    /\ UNCHANGED <<arrived, stage, stored, rejected, ready>>

GoesOn(w) ==
    /\ \/ /\ stage[w] = "collect"
          /\ stage' \in {[stage EXCEPT ![w] = "store"], [stage EXCEPT ![w] = "exited"]}
          /\ UNCHANGED stored
       \/ /\ stage[w] = "store"
          /\ stage' = [stage EXCEPT ![w] = "publish"]
          /\ stored' = stored \cup {Head(batch[w])}
       \/ /\ stage[w] \in {"tally", "count"}
          /\ \E s \in {"tally", "count", "collect", "store"} : stage' = [stage EXCEPT ![w] = s]
          /\ UNCHANGED stored
    /\ UNCHANGED <<arrived, queue, batch, rejected, ready>>

\* A publication leaves the broker with the event or without it.
Publishes(w) == stage[w] = "publish" /\ ready' \in {ready, Append(ready, Head(batch[w]))}

Leaves(w) ==
    /\ \/ /\ stage[w] = "store"
          /\ rejected' \in {rejected, rejected \cup {Head(batch[w])}}
          /\ UNCHANGED ready
       \/ Publishes(w) /\ UNCHANGED rejected
    /\ batch' = [batch EXCEPT ![w] = Tail(@)]
    /\ \E s \in {"tally", "collect", "store"} : stage' = [stage EXCEPT ![w] = s]
    /\ stored \subseteq stored'
    /\ UNCHANGED <<arrived, queue>>

Retries(w) == Publishes(w) /\ UNCHANGED <<arrived, queue, stage, batch, stored, rejected>>

MemoryLost ==
    /\ queue' = <<>>
    /\ batch' = [w \in Workers |-> <<>>]
    /\ stage' = [w \in Workers |-> "collect"]
    /\ UNCHANGED <<arrived, stored, rejected, ready>>

PlacesKept == UNCHANGED <<arrived, queue, stage, batch, stored, rejected, ready>>

ReadingsStep ==
    \/ \E r \in Readings : Arrives(r)
    \/ \E w \in Workers : Takes(w) \/ GoesOn(w) \/ Leaves(w) \/ Retries(w)
    \/ MemoryLost
    \/ PlacesKept

\* Every step is one of these kinds for the readings.
LEMMA ReadingsSteps ==
    ASSUME TypeInv, IngestNext
    PROVE  ReadingsStep /\ UNCHANGED <<held, orphans, deliveries, acked>>
<1>1. stage \in [Workers -> Stages]
  BY DEF TypeInv, PipelineTypeOK, IngestTypeOK
<1> DEFINE Goal == ReadingsStep /\ UNCHANGED <<held, orphans, deliveries, acked>>
<1> USE DEF brokerVars, workVars
<1>2. ASSUME NEW r \in Readings, Receive(r) PROVE Goal
  BY <1>2 DEF Receive, Arrives, ReadingsStep
<1>3. CASE CountDrop \/ CountFailedUnlocked \/ Stop \/ StartAgain
  BY <1>3 DEF CountDrop, CountFailedUnlocked, Stop, StartAgain, PlacesKept, ReadingsStep
<1>4. ASSUME NEW w \in Workers, WorkerStep(w) PROVE Goal
  <2>1. ASSUME NEW ok \in BOOLEAN, Finish(w, ok)
        PROVE  /\ batch' = [batch EXCEPT ![w] = Tail(@)]
               /\ \E s \in {"tally", "collect", "store"} : stage' = [stage EXCEPT ![w] = s]
    BY <2>1 DEF Finish
  <2>2. CASE Take(w)
    BY <2>2 DEF Take, Takes, ReadingsStep
  <2>3. CASE StartBatch(w) \/ WorkerExits(w) \/ Store(w)
    BY <2>3 DEF StartBatch, WorkerExits, Store, GoesOn, ReadingsStep
  <2>7. CASE TallyRead(w) \/ TallyWrite(w)
    BY <2>7 DEF TallyRead, TallyWrite, GoesOn, ReadingsStep
  <2>4. CASE RejectUnreadable(w) \/ StoreFails(w) \/ StoreOnly(w)
    <3>1. Leaves(w)
      BY <2>1, <2>4 DEF RejectUnreadable, StoreFails, StoreOnly, Leaves
    <3> QED
      BY <2>4, <3>1 DEF RejectUnreadable, StoreFails, StoreOnly, ReadingsStep
  <2>5. CASE PublishConfirmed(w)
    <3>1. Leaves(w)
      BY <2>1, <2>5 DEF PublishConfirmed, Enqueue, Publishes, Leaves
    <3> QED
      BY <2>5, <3>1 DEF PublishConfirmed, ReadingsStep
  <2>6. CASE PublishFails(w)
    <3>1. Publishes(w)
      BY <2>6 DEF PublishFails, Enqueue, Publishes
    <3>2. Retries(w) \/ Leaves(w)
      BY <2>1, <2>6, <3>1 DEF PublishFails, Retries, Leaves
    <3> QED
      BY <2>6, <3>2 DEF PublishFails, ReadingsStep
  <2> QED
    BY <1>4, <2>2, <2>3, <2>4, <2>5, <2>6, <2>7 DEF WorkerStep
<1>5. CASE CleanupEnds \/ Killed
  BY <1>5 DEF CleanupEnds, Killed, ProcessEnds, FreshMemory, MemoryLost, ReadingsStep
<1> QED
  BY <1>2, <1>3, <1>4, <1>5 DEF IngestNext

-----------------------------------------------------------------------------
(***************************************************************************)
(* Where the readings are.                                                 *)
(***************************************************************************)

Placed == PlacedOnce /\ RejectedIsOver

\* What leaving the batch of a worker does to the places.
LEMMA LeavingPlaces ==
    ASSUME TypeInv, Placed, NEW w \in Workers, Leaves(w)
    PROVE  /\ batch[w] \in Seq(Readings) /\ batch[w] # <<>>
           /\ Head(batch[w]) \in Elements(batch[w])
           /\ Elements(batch'[w]) \subseteq Elements(batch[w])
           /\ Head(batch[w]) \notin Elements(batch'[w])
           /\ Distinct(batch'[w])
           /\ \A v \in Workers \ {w} : batch'[v] = batch[v] /\ stage'[v] = stage[v]
<1>1. batch \in [Workers -> Seq(Readings)] /\ batch[w] \in Seq(Readings) /\ batch[w] # <<>>
      /\ stage \in [Workers -> Stages]
  BY DEF TypeInv, PipelineTypeOK, IngestTypeOK, WorkersHaveReadings, Leaves, Publishes
<1>2. batch'[w] = Tail(batch[w])
      /\ \A v \in Workers \ {w} : batch'[v] = batch[v] /\ stage'[v] = stage[v]
  BY <1>1 DEF Leaves
<1>3. Distinct(batch[w])
  BY DEF Placed, PlacedOnce
<1> QED
  BY <1>1, <1>2, <1>3, HeadAndTail

\* What taking a reading from the queue does to the places.
LEMMA TakingPlaces ==
    ASSUME TypeInv, Placed, NEW w \in Workers, Takes(w)
    PROVE  /\ Head(queue) \in Elements(queue)
           /\ Elements(queue') \subseteq Elements(queue)
           /\ Head(queue) \notin Elements(queue')
           /\ Distinct(queue')
           /\ Elements(batch'[w]) = Elements(batch[w]) \cup {Head(queue)}
           /\ Distinct(batch'[w])
           /\ \A v \in Workers \ {w} : batch'[v] = batch[v]
<1>1. /\ batch \in [Workers -> Seq(Readings)] /\ batch[w] \in Seq(Readings)
      /\ queue \in Seq(Readings) /\ queue # <<>>
  BY DEF TypeInv, PipelineTypeOK, IngestTypeOK, Takes
<1>2. /\ batch'[w] = Append(batch[w], Head(queue))
      /\ queue' = Tail(queue)
      /\ \A v \in Workers \ {w} : batch'[v] = batch[v]
  BY <1>1 DEF Takes
<1>3. Distinct(queue) /\ Distinct(batch[w]) /\ Elements(batch[w]) \cap Elements(queue) = {}
  BY DEF Placed, PlacedOnce
<1>4. /\ Head(queue) \in Readings /\ Head(queue) \in Elements(queue)
      /\ Elements(Tail(queue)) \subseteq Elements(queue)
      /\ Distinct(Tail(queue)) /\ Head(queue) \notin Elements(Tail(queue))
  BY <1>1, <1>3, HeadAndTail
<1>5. /\ Elements(Append(batch[w], Head(queue))) = Elements(batch[w]) \cup {Head(queue)}
      /\ Distinct(Append(batch[w], Head(queue)))
  BY <1>1, <1>3, <1>4, AppendElements
<1> QED
  BY <1>2, <1>4, <1>5

LEMMA PlacedStep ==
    ASSUME TypeInv, Placed, ReadingsStep
    PROVE  Placed'
<1> USE DEF Placed, PlacedOnce, RejectedIsOver
<1>1. ASSUME NEW r \in Readings, Arrives(r) PROVE Placed'
  <2>1. queue \in Seq(Readings) /\ r \notin Elements(queue)
    BY <1>1 DEF TypeInv, PipelineTypeOK, IngestTypeOK, Arrives
  <2>2. Distinct(queue') /\ Elements(queue') \subseteq Elements(queue) \cup {r}
    <3>1. /\ Elements(Append(queue, r)) = Elements(queue) \cup {r}
          /\ Distinct(Append(queue, r))
      BY <2>1, AppendElements
    <3> QED
      BY <1>1, <3>1 DEF Arrives
  <2>3. arrived' = arrived \cup {r} /\ r \notin arrived /\ batch' = batch /\ rejected' = rejected
    BY <1>1 DEF Arrives
  <2> QED
    BY <2>2, <2>3
<1>2. ASSUME NEW w \in Workers, Takes(w) PROVE Placed'
  <2>1. arrived' = arrived /\ rejected' = rejected
    BY <1>2 DEF Takes
  <2> QED
    BY <1>2, <2>1, TakingPlaces
<1>3. ASSUME NEW w \in Workers, Leaves(w) PROVE Placed'
  <2>1. arrived' = arrived /\ queue' = queue /\ rejected' \subseteq rejected \cup {Head(batch[w])}
    BY <1>3 DEF Leaves
  <2>2. /\ Distinct(batch'[w])
        /\ Elements(batch'[w]) \subseteq Elements(batch[w])
        /\ Head(batch[w]) \in Elements(batch[w]) /\ Head(batch[w]) \notin Elements(batch'[w])
        /\ \A v \in Workers \ {w} : batch'[v] = batch[v]
    BY <1>3, LeavingPlaces
  <2>3. PlacedOnce'
    BY <2>1, <2>2
  <2>4. RejectedIsOver'
    <3>1. ASSUME NEW v \in Workers PROVE Head(batch[w]) \notin Elements(batch'[v])
      BY <2>2
    <3>2. Head(batch[w]) \in arrived /\ Head(batch[w]) \notin Elements(queue)
      BY <2>2
    <3>3. ASSUME NEW r \in rejected, NEW v \in Workers PROVE r \notin Elements(batch'[v])
      BY <2>2
    <3> QED
      BY <2>1, <3>1, <3>2, <3>3
  <2> QED
    BY <2>3, <2>4
<1>4. ASSUME NEW w \in Workers, GoesOn(w) \/ Retries(w) PROVE Placed'
  BY <1>4 DEF GoesOn, Retries
<1>5. CASE MemoryLost
  BY <1>5, EmptyHasNone DEF MemoryLost
<1>6. CASE PlacesKept
  BY <1>6 DEF PlacesKept
<1> QED
  BY <1>1, <1>2, <1>3, <1>4, <1>5, <1>6 DEF ReadingsStep

\* A reading that is good remains so, and the reading that a worker publishes
\* is one.
LEMMA GoodStays ==
    ASSUME TypeInv, Placed, ReadingsStep, NEW r, Good(r)
    PROVE  Good(r)'
<1> USE DEF Placed, PlacedOnce, RejectedIsOver, Good, Published
<1>1. ASSUME NEW x \in Readings, Arrives(x) PROVE Good(r)'
  <2>1. queue \in Seq(Readings)
    BY DEF TypeInv, PipelineTypeOK, IngestTypeOK
  <2>2. Elements(queue') \subseteq Elements(queue) \cup {x}
    BY <1>1, <2>1, AppendElements DEF Arrives
  <2>3. x # r
    BY <1>1 DEF Arrives
  <2> QED
    BY <1>1, <2>2, <2>3 DEF Arrives
<1>2. ASSUME NEW w \in Workers, Takes(w) PROVE Good(r)'
  <2>1. Head(queue) # r /\ r \notin Elements(batch[w])
    BY <1>2, TakingPlaces DEF Takes
  <2>2. r \notin Elements(queue') /\ r \notin Elements(batch'[w])
    BY <1>2, <2>1, TakingPlaces
  <2>3. \A v \in Workers : r \in Elements(batch'[v]) => v # w /\ batch'[v] = batch[v]
    BY <1>2, <2>2, TakingPlaces
  <2>4. arrived' = arrived /\ stage' = stage /\ stored' = stored /\ rejected' = rejected
    BY <1>2 DEF Takes
  <2> QED
    BY <2>2, <2>3, <2>4
<1>3. ASSUME NEW w \in Workers, GoesOn(w) PROVE Good(r)'
  <2>1. stage[w] # "publish"
    BY <1>3 DEF GoesOn
  <2>2. r \notin Elements(batch[w])
    BY <2>1
  <2>3. \A v \in Workers : r \in Elements(batch[v]) => stage'[v] = stage[v]
    BY <1>3, <2>2 DEF GoesOn, TypeInv, PipelineTypeOK, IngestTypeOK
  <2>4. arrived' = arrived /\ queue' = queue /\ batch' = batch /\ rejected' = rejected
        /\ stored \subseteq stored'
    BY <1>3 DEF GoesOn
  <2> QED
    BY <2>3, <2>4
<1>4. ASSUME NEW w \in Workers, Leaves(w) PROVE Good(r)'
  <2>1. arrived' = arrived /\ queue' = queue /\ stored \subseteq stored'
    BY <1>4 DEF Leaves
  <2>2. r \notin rejected'
    <3>1. CASE stage[w] = "store"
      <4>1. r \notin Elements(batch[w])
        BY <3>1
      <4>2. Head(batch[w]) # r
        BY <1>4, <4>1, LeavingPlaces
      <4> QED
        BY <1>4, <4>2 DEF Leaves
    <3>2. CASE stage[w] # "store"
      BY <1>4, <3>2 DEF Leaves
    <3> QED
      BY <3>1, <3>2
  <2>3. r \notin Elements(batch'[w])
    BY <1>4, LeavingPlaces
  <2>4. \A v \in Workers :
           r \in Elements(batch'[v]) => batch'[v] = batch[v] /\ stage'[v] = stage[v]
    BY <1>4, <2>3, LeavingPlaces
  <2> QED
    BY <2>1, <2>2, <2>4
<1>5. ASSUME NEW w \in Workers, Retries(w) PROVE Good(r)'
  BY <1>5 DEF Retries
<1>6. CASE MemoryLost
  BY <1>6, EmptyHasNone DEF MemoryLost
<1>7. CASE PlacesKept
  BY <1>7 DEF PlacesKept
<1> QED
  BY <1>1, <1>2, <1>3, <1>4, <1>5, <1>6, <1>7 DEF ReadingsStep

\* A worker that goes on from storing to publishing has a good reading, and so
\* have those that were publishing.
LEMMA PublishersAreGood ==
    ASSUME TypeInv, Placed, EventsAreGood, ReadingsStep,
           NEW v \in Workers, stage'[v] = "publish"
    PROVE  Good(Head(batch[v]))' /\ batch'[v] = batch[v]
<1>1. stage \in [Workers -> Stages] /\ batch \in [Workers -> Seq(Readings)]
  BY DEF TypeInv, PipelineTypeOK, IngestTypeOK
<1>2. ASSUME stage[v] = "publish", batch'[v] = batch[v] PROVE Good(Head(batch[v]))'
  BY <1>2, GoodStays DEF EventsAreGood
<1>3. ASSUME NEW r \in Readings, Arrives(r)
      PROVE  stage[v] = "publish" /\ batch'[v] = batch[v]
  BY <1>3 DEF Arrives
<1>4. ASSUME NEW w \in Workers, Takes(w) PROVE stage[v] = "publish" /\ batch'[v] = batch[v]
  BY <1>1, <1>4 DEF Takes
<1>5. ASSUME NEW w \in Workers, GoesOn(w)
      PROVE  Good(Head(batch[v]))' /\ batch'[v] = batch[v]
  <2>1. CASE v = w
    <3>1. stage[v] = "store" /\ stored' = stored \cup {Head(batch[v])} /\ stage'[v] = "publish"
      BY <1>1, <1>5, <2>1 DEF GoesOn
    <3>2. batch[v] # <<>> /\ batch[v] \in Seq(Readings)
      BY <1>1, <3>1 DEF TypeInv, WorkersHaveReadings
    <3>3. Head(batch[v]) \in Elements(batch[v])
      BY <3>2, HeadAndTail
    <3>4. arrived' = arrived /\ queue' = queue /\ batch' = batch /\ rejected' = rejected
      BY <1>5 DEF GoesOn
    <3>5. Head(batch[v]) \notin rejected
      BY <3>3 DEF Placed, RejectedIsOver
    <3>6. Head(batch[v]) \in arrived /\ Head(batch[v]) \notin Elements(queue)
      BY <3>3 DEF Placed, PlacedOnce
    <3>7. \A u \in Workers : Head(batch[v]) \in Elements(batch[u]) => u = v
      BY <3>3 DEF Placed, PlacedOnce
    <3>8. Published(Head(batch[v]))'
      BY <3>1, <3>4, <3>6, <3>7 DEF Published
    <3> QED
      BY <3>1, <3>4, <3>5, <3>8 DEF Good
  <2>2. CASE v # w
    BY <1>1, <1>2, <1>5, <2>2 DEF GoesOn
  <2> QED
    BY <2>1, <2>2
<1>6. ASSUME NEW w \in Workers, Leaves(w) PROVE stage[v] = "publish" /\ batch'[v] = batch[v]
  BY <1>1, <1>6 DEF Leaves
<1>7. ASSUME NEW w \in Workers, Retries(w) PROVE stage[v] = "publish" /\ batch'[v] = batch[v]
  BY <1>7 DEF Retries
<1>8. CASE MemoryLost
  BY <1>8 DEF MemoryLost
<1>9. CASE PlacesKept
  BY <1>2, <1>9 DEF PlacesKept
<1> QED
  BY <1>2, <1>3, <1>4, <1>5, <1>6, <1>7, <1>8, <1>9 DEF ReadingsStep

\* A step of the ingestor puts no event in the broker but those of readings
\* that are being published.
LEMMA EnqueuedIsPublished ==
    ASSUME TypeInv, ReadingsStep, NEW r \in Elements(ready')
    PROVE  r \in Elements(ready) \/ \E w \in Workers : stage[w] = "publish" /\ r = Head(batch[w])
<1>1. ASSUME NEW w \in Workers, Publishes(w)
      PROVE  r \in Elements(ready) \/ r = Head(batch[w])
  <2>1. ready \in Seq(Readings) /\ batch[w] \in Seq(Readings) /\ batch[w] # <<>>
    BY <1>1 DEF TypeInv, PipelineTypeOK, BrokerTypeOK, IngestTypeOK, WorkersHaveReadings, Publishes
  <2>2. Head(batch[w]) \in Readings
    BY <2>1, HeadAndTail
  <2>3. Elements(Append(ready, Head(batch[w]))) = Elements(ready) \cup {Head(batch[w])}
    BY <2>1, <2>2, AppendElements
  <2> QED
    BY <1>1, <2>3 DEF Publishes
<1>2. ready' = ready \/ \E w \in Workers : Publishes(w)
  BY DEF ReadingsStep, Arrives, Takes, GoesOn, Leaves, Retries, MemoryLost, PlacesKept
<1> QED
  BY <1>1, <1>2 DEF Publishes

\* The events that the broker or the control engine worker has.
AtControl == Elements(ready) \cup Elements(orphans) \cup ({held, event} \ {NoReading})

\* The broker and the worker invent none, and the worker recommends for the
\* event at hand.
LEMMA NoneIsInvented ==
    ASSUME TypeInv, ControlNext
    PROVE  /\ AtControl' \subseteq AtControl
           /\ \A rec \in recommended' : rec \in recommended \/ (rec[1] = event /\ event \in AtControl)
<1>1. /\ ready \in Seq(Readings) /\ orphans \in Seq(Readings)
      /\ held \in Readings \cup {NoReading} /\ EventAtHand /\ NoReading \notin Readings
  BY BrokerAssumption DEF TypeInv, PipelineTypeOK, BrokerTypeOK
<1>2. ASSUME ForgetChannel
      PROVE  /\ ready' = ready /\ held' = NoReading
             /\ Elements(orphans') \subseteq Elements(orphans) \cup ({held} \ {NoReading})
  <2>1. CASE held = NoReading
    BY <1>2, <2>1 DEF ForgetChannel
  <2>2. CASE held # NoReading
    <3>1. Elements(Append(orphans, held)) = Elements(orphans) \cup {held}
      BY <1>1, <2>2, AppendElements
    <3> QED
      BY <1>2, <2>2, <3>1 DEF ForgetChannel
  <2> QED
    BY <1>2, <2>1, <2>2 DEF ForgetChannel
<1>3. ASSUME AttemptFails \/ UNCHANGED brokerVars, event' \in {event, NoReading}
      PROVE  AtControl' \subseteq AtControl
  <2>1. CASE ForgetChannel
    BY <1>2, <1>3, <2>1 DEF AtControl
  <2>2. CASE UNCHANGED brokerVars
    BY <1>3, <2>2 DEF brokerVars, AtControl
  <2> QED
    BY <1>3, <2>1, <2>2 DEF AttemptFails
<1>4. CASE Poll
  <2>1. Head(ready) \in Elements(ready) /\ Elements(Tail(ready)) \subseteq Elements(ready)
    BY <1>1, <1>4, HeadAndTail DEF Poll, Deliver
  <2> QED
    BY <1>4, <2>1 DEF Poll, Deliver, AtControl, outputVars
<1>5. CASE Refuse \/ ReadFlag \/ Evaluate \/ PersistAudit
  <2>1. UNCHANGED brokerVars /\ event' = event /\ recommended' = recommended
    BY <1>5 DEF Refuse, ReadFlag, Evaluate, PersistAudit, GoTo, outputVars
  <2> QED
    BY <1>3, <2>1
<1>6. CASE Recommend \/ RecommendFails \/ Simulate
  <2>1. AttemptFails \/ UNCHANGED brokerVars
    BY <1>6 DEF Recommend, RecommendFails, Simulate
  <2>2. event' = event
    BY <1>6 DEF Recommend, RecommendFails, Simulate, GoTo, AttemptFails
  <2>3. event \in AtControl
    BY <1>1, <1>6 DEF Recommend, RecommendFails, Simulate, EventAtHand, AtControl
  <2>4. recommended' \in {recommended, recommended \cup {Recommendation}}
    BY <1>6 DEF Recommend, RecommendFails, Simulate
  <2> QED
    BY <1>3, <2>1, <2>2, <2>3, <2>4 DEF Recommendation
<1>7. CASE PublishAudit \/ Report
  <2>1. (AttemptFails \/ UNCHANGED brokerVars) /\ event' = event /\ recommended' = recommended
    BY <1>7 DEF PublishAudit, Report, GoTo, AttemptFails, outputVars
  <2> QED
    BY <1>3, <2>1
<1>8. CASE Ack
  <2>1. CASE Settle
    BY <1>8, <2>1 DEF Ack, Settle, AtControl, outputVars
  <2>2. CASE UNCHANGED brokerVars
    BY <1>3, <1>8, <2>2 DEF Ack, outputVars
  <2> QED
    BY <1>8, <2>1, <2>2 DEF Ack
<1>9. CASE ConnectionLost \/ WorkerCrash
  BY <1>2, <1>9 DEF ConnectionLost, WorkerCrash, AtControl, controlVars, outputVars
<1>10. CASE BrokerRequeues
  <2>1. /\ Head(orphans) \in Readings /\ Head(orphans) \in Elements(orphans)
        /\ Elements(Tail(orphans)) \subseteq Elements(orphans)
    BY <1>1, <1>10, HeadAndTail DEF BrokerRequeues, Requeue
  <2>2. Elements(<<Head(orphans)>> \o ready) = Elements(ready) \cup {Head(orphans)}
    BY <1>1, <2>1, InFront
  <2> QED
    BY <1>10, <2>1, <2>2 DEF BrokerRequeues, Requeue, AtControl, controlVars
<1> QED
  BY <1>4, <1>5, <1>6, <1>7, <1>8, <1>9, <1>10 DEF ControlNext, HandleStep

LEMMA EventsAreGoodStep ==
    ASSUME TypeInv, Placed, EventsAreGood, [PipelineNext]_pipelineVars
    PROVE  EventsAreGood'
<1>1. CASE IngestNext /\ UNCHANGED controlVars
  <2>1. ReadingsStep /\ UNCHANGED <<held, orphans, event, recommended>>
    BY <1>1, ReadingsSteps DEF controlVars
  <2>2. \A r : Good(r) => Good(r)'
    BY <2>1, GoodStays
  <2>3. \A r \in Elements(ready') : Good(r)'
    BY <2>1, <2>2, EnqueuedIsPublished DEF EventsAreGood
  <2>4. \A w \in Workers : stage'[w] = "publish" => Good(Head(batch[w]))' /\ batch'[w] = batch[w]
    BY <2>1, PublishersAreGood
  <2>5. \A w \in Workers : stage'[w] = "publish" => Good(Head(batch[w]))'
    BY <2>4
  <2>6. \A r \in Elements(orphans') : Good(r)'
    BY <2>1, <2>2 DEF EventsAreGood
  <2>7. \A rec \in recommended' : Good(rec[1])'
    BY <2>1, <2>2 DEF EventsAreGood
  <2>8. (held' # NoReading => Good(held)') /\ (event' # NoReading => Good(event)')
    BY <2>1, <2>2 DEF EventsAreGood
  <2> QED
    BY <2>3, <2>5, <2>6, <2>7, <2>8 DEF EventsAreGood
<1>2. CASE ControlNext /\ UNCHANGED ingestVars
  <2>1. \A r : Good(r)' <=> Good(r)
    BY <1>2 DEF ingestVars, workVars, Good, Published
  <2>2. \A r \in AtControl : Good(r)
    BY DEF AtControl, EventsAreGood
  <2>3. \A r \in AtControl' : Good(r)'
    BY <1>2, <2>1, <2>2, NoneIsInvented
  <2>4. \A rec \in recommended' : Good(rec[1])'
    BY <1>2, <2>1, <2>2, NoneIsInvented DEF EventsAreGood
  <2>5. \A w \in Workers : stage'[w] = "publish" => Good(Head(batch[w]))'
    BY <1>2, <2>1 DEF EventsAreGood, ingestVars, workVars
  <2> QED
    BY <2>3, <2>4, <2>5 DEF EventsAreGood, AtControl
<1>3. CASE UNCHANGED pipelineVars
  BY <1>3 DEF pipelineVars, ingestVars, workVars, controlVars, brokerVars, EventsAreGood, Good, Published
<1> QED
  BY <1>1, <1>2, <1>3 DEF PipelineNext

\* What the control engine is given and recommends for has been stored, was not
\* rejected and is over for the ingestor but for its publication.
GoodInv == TypeInv /\ Placed /\ EventsAreGood

LEMMA GoodInit == PipelineInit => GoodInv
<1> SUFFICES ASSUME PipelineInit PROVE GoodInv
  OBVIOUS
<1>1. TypeInv
  BY TypeInit
<1>2. Placed
  BY EmptyHasNone
     DEF PipelineInit, IngestInit, FreshMemory, Placed, PlacedOnce, RejectedIsOver
<1>3. EventsAreGood
  BY EmptyHasNone
     DEF PipelineInit, BrokerInit, IngestInit, ControlInit, FreshMemory, EventsAreGood
<1> QED
  BY <1>1, <1>2, <1>3 DEF GoodInv

LEMMA GoodStep == GoodInv /\ [PipelineNext]_pipelineVars => GoodInv'
<1> SUFFICES ASSUME GoodInv, [PipelineNext]_pipelineVars PROVE GoodInv'
  OBVIOUS
<1>1. TypeInv /\ Placed /\ EventsAreGood
  BY DEF GoodInv
<1>2. TypeInv' /\ EventsAreGood'
  BY <1>1, TypeStep, EventsAreGoodStep
<1>3. CASE IngestNext
  BY <1>1, <1>2, <1>3, ReadingsSteps, PlacedStep DEF GoodInv
<1>4. CASE UNCHANGED ingestVars
  BY <1>1, <1>2, <1>4 DEF GoodInv, Placed, PlacedOnce, RejectedIsOver, ingestVars, workVars
<1> QED
  BY <1>3, <1>4 DEF PipelineNext, pipelineVars

\* Whatever fails, and whenever a process ends, a recommendation on either
\* queue is about a reading that is stored and that the validator accepted.
THEOREM RecommendedIsStoredAndValidHolds == PipelineSpec => []RecommendedIsStoredAndValid
<1>1. GoodInv => RecommendedIsStoredAndValid
  BY DEF GoodInv, EventsAreGood, Good, RecommendedIsStoredAndValid
<1> QED
  BY <1>1, GoodInit, GoodStep, PTL DEF PipelineSpec

-----------------------------------------------------------------------------
(***************************************************************************)
(* What a step of the control engine worker does to the event at hand.     *)
(***************************************************************************)

Begins ==
    /\ step = "poll" /\ step' = "flag"
    /\ event' \in Readings
    /\ deliveries' = [deliveries EXCEPT ![event'] = @ + 1]
    /\ UNCHANGED <<recommended, auditVars, acked>>

Computes ==
    /\ step \in {"flag", "evaluate"} /\ step' \in {"evaluate", "recommend", "audit", "report"}
    /\ UNCHANGED <<event, recommended, auditVars, deliveries, acked>>

Recommends ==
    /\ step \in {"recommend", "simulate"} /\ step' \in {"recommend", "simulate", "audit"}
    /\ recommended' \in {recommended, recommended \cup {Recommendation}}
    /\ UNCHANGED <<event, resolved, auditVars, deliveries, acked>>

Audits ==
    /\ step = "audit" /\ step' \in {"audit", "persist"}
    /\ UNCHANGED <<event, recommended, auditVars, deliveries, acked>>

Persists ==
    /\ step = "persist" /\ step' = "ack"
    /\ \/ /\ auditRows' = [auditRows EXCEPT ![event] = @ + 1]
          /\ UNCHANGED auditFailed
       \/ /\ auditFailed' = auditFailed \cup {event}
          /\ UNCHANGED auditRows
    /\ UNCHANGED <<event, recommended, deliveries, acked>>

Reports ==
    /\ step = "report" /\ step' \in {"report", "ack"}
    /\ auditFailed' = IF step' = "ack" THEN auditFailed \cup {event} ELSE auditFailed
    /\ UNCHANGED <<event, recommended, auditRows, deliveries, acked>>

Ends ==
    /\ step' = "poll" /\ event' = NoReading
    /\ acked' = acked \/ (step = "ack" /\ acked' = acked \cup {event})
    /\ UNCHANGED <<recommended, auditVars, deliveries>>

HandlingKept == UNCHANGED <<step, event, resolved, recommended, auditVars, deliveries, acked>>

HandlingStep ==
    \/ Begins \/ Computes \/ Recommends \/ Audits
    \/ Persists \/ Reports \/ Ends \/ HandlingKept

\* Every step is one of these kinds for the event at hand.
LEMMA HandlingSteps == TypeInv /\ [PipelineNext]_pipelineVars => HandlingStep
<1> SUFFICES ASSUME TypeInv, [PipelineNext]_pipelineVars PROVE HandlingStep
  OBVIOUS
<1> USE DEF HandlingStep, auditVars, outputVars
<1>1. EventAtHand /\ NoReading \notin Readings
  BY BrokerAssumption DEF TypeInv
<1>2. ForgetChannel \/ UNCHANGED brokerVars => UNCHANGED <<deliveries, acked>>
  BY DEF ForgetChannel, brokerVars
<1>3. AttemptFails /\ ~LastAttempt => UNCHANGED <<step, event>>
  BY DEF AttemptFails
<1>4. AttemptFails => UNCHANGED <<deliveries, acked>>
  BY <1>2 DEF AttemptFails
<1>5. CASE Poll
  BY <1>5, HeadAndTail DEF Poll, Deliver, Begins, TypeInv, PipelineTypeOK, BrokerTypeOK
<1>6. CASE Refuse \/ ReadFlag \/ Evaluate
  BY <1>2, <1>6 DEF Refuse, ReadFlag, Evaluate, GoTo, Computes
<1>7. CASE Recommend \/ RecommendFails
  BY <1>2, <1>3, <1>4, <1>7 DEF Recommend, RecommendFails, GoTo, Recommends
<1>8. CASE Simulate
  BY <1>2, <1>3, <1>4, <1>8 DEF Simulate, GoTo, Recommends
<1>9. CASE PublishAudit
  BY <1>2, <1>3, <1>4, <1>9 DEF PublishAudit, GoTo, Audits
<1>10. CASE PersistAudit
  BY <1>2, <1>10 DEF PersistAudit, GoTo, Persists
<1>16. CASE Report
  BY <1>2, <1>3, <1>4, <1>16 DEF Report, GoTo, Reports
<1>11. CASE Ack
  BY <1>1, <1>2, <1>11 DEF Ack, Settle, EventAtHand, Ends
<1>12. CASE WorkerCrash
  BY <1>2, <1>12 DEF WorkerCrash, Ends
<1>13. CASE ConnectionLost \/ BrokerRequeues
  BY <1>2, <1>13 DEF ConnectionLost, BrokerRequeues, Requeue, HandlingKept, controlVars
<1>14. CASE IngestNext /\ UNCHANGED controlVars
  BY <1>14, ReadingsSteps DEF HandlingKept, controlVars
<1>15. CASE UNCHANGED pipelineVars
  BY <1>15 DEF pipelineVars, controlVars, brokerVars, HandlingKept
<1> QED
  BY <1>5, <1>6, <1>7, <1>8, <1>9, <1>10, <1>11, <1>12, <1>13, <1>14, <1>15, <1>16
     DEF PipelineNext, ControlNext, HandleStep

-----------------------------------------------------------------------------
(***************************************************************************)
(* Audit rows and acknowledgements.                                        *)
(***************************************************************************)

LEMMA AuditStep ==
    ASSUME TypeInv, AuditPrecedesAck, AuditsPaid, [PipelineNext]_pipelineVars
    PROVE  AuditPrecedesAck' /\ AuditsPaid'
<1>1. HandlingStep
  BY HandlingSteps
<1>2. /\ auditRows \in [Readings -> Nat] /\ deliveries \in [Readings -> Nat]
      /\ acked \subseteq Readings
      /\ EventAtHand /\ NoReading \notin Readings
  BY BrokerAssumption DEF TypeInv, PipelineTypeOK, BrokerTypeOK, ControlTypeOK
<1> USE DEF auditVars
<1>3. AuditPrecedesAck'
  <2> USE DEF AuditPrecedesAck, AckedIsAudited
  <2>1. CASE Begins \/ Computes \/ Recommends \/ Audits
    BY <2>1 DEF Begins, Computes, Recommends, Audits
  <2>2. CASE Persists \/ Reports
    BY <1>2, <2>2 DEF Persists, Reports, EventAtHand
  <2>3. CASE Ends
    BY <2>3 DEF Ends
  <2>4. CASE HandlingKept
    BY <2>4 DEF HandlingKept
  <2> QED
    BY <1>1, <2>1, <2>2, <2>3, <2>4 DEF HandlingStep
<1>4. ASSUME NEW r \in Readings
      PROVE  (auditRows[r] + (IF AuditDue(r) THEN 1 ELSE 0) <= deliveries[r])'
  <2>1. auditRows[r] + (IF AuditDue(r) THEN 1 ELSE 0) <= deliveries[r]
        /\ auditRows[r] \in Nat /\ deliveries[r] \in Nat
    BY <1>2 DEF AuditsPaid
  <2> USE DEF AuditDue
  <2>2. CASE Begins
    BY <1>2, <2>1, <2>2 DEF Begins
  <2>3. CASE Computes \/ Recommends \/ Audits
    BY <2>1, <2>3 DEF Computes, Recommends, Audits
  <2>4. CASE Persists
    BY <1>2, <2>1, <2>4 DEF Persists
  <2>7. CASE Reports
    BY <2>1, <2>7 DEF Reports
  <2>5. CASE Ends
    BY <1>2, <2>1, <2>5 DEF Ends
  <2>6. CASE HandlingKept
    BY <2>1, <2>6 DEF HandlingKept
  <2> QED
    BY <1>1, <2>2, <2>3, <2>4, <2>5, <2>6, <2>7 DEF HandlingStep
<1> QED
  BY <1>3, <1>4 DEF AuditsPaid

AuditInv == TypeInv /\ AuditPrecedesAck /\ AuditsPaid

LEMMA AuditInvariant == PipelineSpec => []AuditInv
<1>1. PipelineInit => AuditInv
  <2> SUFFICES ASSUME PipelineInit PROVE AuditInv
    OBVIOUS
  <2>1. AuditPrecedesAck
    BY DEF PipelineInit, BrokerInit, ControlInit, AuditPrecedesAck, AckedIsAudited
  <2>2. AuditsPaid
    BY DEF PipelineInit, BrokerInit, ControlInit, AuditsPaid, AuditDue
  <2> QED
    BY <2>1, <2>2, TypeInit DEF AuditInv
<1>2. AuditInv /\ [PipelineNext]_pipelineVars => AuditInv'
  BY AuditStep, TypeStep DEF AuditInv
<1> QED
  BY <1>1, <1>2, PTL DEF PipelineSpec

\* What the broker has removed from telemetry.events has an audit row, or the
\* database refused it.
THEOREM AckedIsAuditedHolds == PipelineSpec => []AckedIsAudited
<1>1. AuditInv => AckedIsAudited
  BY DEF AuditInv, AuditPrecedesAck
<1> QED
  BY <1>1, AuditInvariant, PTL

\* An event has no more audit rows than deliveries.
THEOREM AuditRowsPerDeliveryHolds == PipelineSpec => []AuditRowsPerDelivery
<1>1. AuditInv => AuditRowsPerDelivery
  <2> SUFFICES ASSUME AuditInv, NEW r \in Readings PROVE auditRows[r] <= deliveries[r]
    BY DEF AuditRowsPerDelivery
  <2>1. auditRows[r] \in Nat /\ deliveries[r] \in Nat
        /\ auditRows[r] + (IF AuditDue(r) THEN 1 ELSE 0) <= deliveries[r]
    BY DEF AuditInv, AuditsPaid, TypeInv, PipelineTypeOK, BrokerTypeOK, ControlTypeOK
  <2> QED
    BY <2>1
<1> QED
  BY <1>1, AuditInvariant, PTL

-----------------------------------------------------------------------------
(***************************************************************************)
(* Identities of recommendations.                                          *)
(***************************************************************************)

\* A recommendation gives its reading one more identity, if it is a new one,
\* and no other reading any.
LEMMA OneMoreIdentity ==
    ASSUME IsFiniteSet(recommended), NEW r, recommended' = recommended \cup {Recommendation}
    PROVE  /\ IsFiniteSet(recommended')
           /\ Cardinality(Identities(r)) \in Nat
           /\ Cardinality(Identities(r)') =
                 Cardinality(Identities(r))
                   + (IF event = r /\ Recommendation \notin recommended THEN 1 ELSE 0)
<1>1. IsFiniteSet(Identities(r)) /\ Cardinality(Identities(r)) \in Nat
  <2>1. Identities(r) \in SUBSET recommended
    BY DEF Identities
  <2> QED
    BY <2>1, FS_Subset, FS_CardinalityType
<1>2. IsFiniteSet(recommended')
  BY FS_AddElement
<1>3. CASE event = r
  <2>1. Identities(r)' = Identities(r) \cup {Recommendation}
    BY <1>3 DEF Identities, Recommendation
  <2>2. Recommendation \in Identities(r) <=> Recommendation \in recommended
    BY <1>3 DEF Identities, Recommendation
  <2>3. Cardinality(Identities(r) \cup {Recommendation}) =
           IF Recommendation \in Identities(r)
           THEN Cardinality(Identities(r)) ELSE Cardinality(Identities(r)) + 1
    BY <1>1, FS_AddElement
  <2>4. Cardinality(Identities(r)') = Cardinality(Identities(r) \cup {Recommendation})
    BY <2>1
  <2> QED
    BY <1>1, <1>2, <1>3, <2>2, <2>3, <2>4
<1>4. CASE event # r
  <2>1. Identities(r)' = Identities(r)
    BY <1>4 DEF Identities, Recommendation
  <2> QED
    BY <1>1, <1>2, <1>4, <2>1
<1> QED
  BY <1>3, <1>4

LEMMA IdentitiesStep ==
    ASSUME TypeInv, IdentitiesPaid, [PipelineNext]_pipelineVars
    PROVE  IdentitiesPaid'
<1>1. HandlingStep
  BY HandlingSteps
<1>2. /\ deliveries \in [Readings -> Nat] /\ NoReading \notin Readings
      /\ IsFiniteSet(recommended)
  BY BrokerAssumption DEF TypeInv, PipelineTypeOK, BrokerTypeOK, IdentitiesPaid
<1>3. IsFiniteSet(recommended')
  BY <1>1, <1>2, FS_AddElement
     DEF HandlingStep, Begins, Computes, Recommends, Audits, Persists, Reports, Ends, HandlingKept
<1>4. ASSUME NEW r \in Readings
      PROVE  (Cardinality(Identities(r)) + (IF IdentityDue(r) THEN 1 ELSE 0) <= deliveries[r])'
  <2>1. Cardinality(Identities(r)) + (IF IdentityDue(r) THEN 1 ELSE 0) <= deliveries[r]
    BY DEF IdentitiesPaid
  <2>2. Cardinality(Identities(r)) \in Nat /\ deliveries[r] \in Nat
    <3>1. Identities(r) \in SUBSET recommended
      BY DEF Identities
    <3> QED
      BY <1>2, <3>1, FS_Subset, FS_CardinalityType
  <2>3. recommended' = recommended => Identities(r)' = Identities(r)
    BY DEF Identities
  <2>4. CASE Begins
    <3>1. ~IdentityDue(r)
      BY <2>4 DEF Begins, IdentityDue
    <3>2. deliveries'[r] = IF event' = r THEN deliveries[r] + 1 ELSE deliveries[r]
      BY <1>2, <2>4 DEF Begins
    <3>3. IdentityDue(r)' => event' = r
      BY DEF IdentityDue
    <3>4. Identities(r)' = Identities(r)
      BY <2>3, <2>4 DEF Begins
    <3> QED
      BY <2>1, <2>2, <3>1, <3>2, <3>3, <3>4
  <2>5. CASE Computes
    <3>1. IdentityDue(r)' => IdentityDue(r)
      BY <2>5 DEF Computes, IdentityDue
    <3>2. deliveries' = deliveries /\ Identities(r)' = Identities(r)
      BY <2>3, <2>5 DEF Computes
    <3> QED
      BY <2>1, <2>2, <3>1, <3>2
  <2>6. CASE Recommends
    <3>1. deliveries' = deliveries /\ Recommendation' = Recommendation
      BY <2>6 DEF Recommends, Recommendation
    <3>2. CASE recommended' = recommended
      <4>1. IdentityDue(r)' => IdentityDue(r)
        BY <2>6, <3>1, <3>2 DEF Recommends, IdentityDue
      <4>2. Identities(r)' = Identities(r)
        BY <2>3, <3>2
      <4> QED
        BY <2>1, <2>2, <3>1, <4>1, <4>2
    <3>3. CASE recommended' = recommended \cup {Recommendation}
      <4>1. ~IdentityDue(r)'
        BY <2>6, <3>1, <3>3 DEF Recommends, IdentityDue
      <4>2. IdentityDue(r) <=> event = r /\ Recommendation \notin recommended
        BY <2>6 DEF Recommends, IdentityDue
      <4>3. Cardinality(Identities(r)') =
               Cardinality(Identities(r)) + (IF IdentityDue(r) THEN 1 ELSE 0)
        BY <1>2, <3>3, <4>2, OneMoreIdentity
      <4> QED
        BY <2>1, <2>2, <3>1, <4>1, <4>3
    <3> QED
      BY <2>6, <3>2, <3>3 DEF Recommends
  <2>7. CASE Audits \/ Persists \/ Reports \/ Ends
    <3>1. ~IdentityDue(r)'
      BY <1>2, <2>7 DEF Audits, Persists, Reports, Ends, IdentityDue
    <3>2. deliveries' = deliveries /\ Identities(r)' = Identities(r)
      BY <2>3, <2>7 DEF Audits, Persists, Reports, Ends
    <3> QED
      BY <2>1, <2>2, <3>1, <3>2
  <2>8. CASE HandlingKept
    <3>1. IdentityDue(r)' <=> IdentityDue(r)
      BY <2>8 DEF HandlingKept, IdentityDue, Recommendation
    <3>2. deliveries' = deliveries /\ Identities(r)' = Identities(r)
      BY <2>3, <2>8 DEF HandlingKept
    <3> QED
      BY <2>1, <2>2, <3>1, <3>2
  <2> QED
    BY <1>1, <2>4, <2>5, <2>6, <2>7, <2>8 DEF HandlingStep
<1> QED
  BY <1>3, <1>4 DEF IdentitiesPaid

\* One delivery of an event gives its reading one recommendation identity at
\* most, over both queues and all the publish attempts.
THEOREM IdentitiesPerDeliveryHolds == PipelineSpec => []IdentitiesPerDelivery
<1> DEFINE Inv == TypeInv /\ IdentitiesPaid
<1>1. PipelineInit => Inv
  <2> SUFFICES ASSUME PipelineInit PROVE Inv
    OBVIOUS
  <2>1. recommended = {} /\ step = "poll" /\ deliveries = [r \in Readings |-> 0]
    BY DEF PipelineInit, BrokerInit, ControlInit
  <2>2. \A r \in Readings : Identities(r) = {} /\ ~IdentityDue(r)
    BY <2>1 DEF Identities, IdentityDue
  <2>3. IdentitiesPaid
    BY <2>1, <2>2, FS_EmptySet DEF IdentitiesPaid
  <2> QED
    BY <2>3, TypeInit
<1>2. Inv /\ [PipelineNext]_pipelineVars => Inv'
  BY IdentitiesStep, TypeStep
<1>3. Inv => IdentitiesPerDelivery
  <2> SUFFICES ASSUME Inv, NEW r \in Readings
               PROVE  Cardinality(Identities(r)) <= deliveries[r]
    BY DEF IdentitiesPerDelivery
  <2>1. Identities(r) \in SUBSET recommended /\ IsFiniteSet(recommended)
    BY DEF Identities, IdentitiesPaid
  <2>2. Cardinality(Identities(r)) \in Nat /\ deliveries[r] \in Nat
    BY <2>1, FS_Subset, FS_CardinalityType DEF TypeInv, PipelineTypeOK, BrokerTypeOK
  <2>3. Cardinality(Identities(r)) + (IF IdentityDue(r) THEN 1 ELSE 0) <= deliveries[r]
    BY DEF IdentitiesPaid
  <2> QED
    BY <2>2, <2>3
<1> QED
  BY <1>1, <1>2, <1>3, PTL DEF PipelineSpec

-----------------------------------------------------------------------------
(***************************************************************************)
(* Faults, and the publications they make the program give up.             *)
(***************************************************************************)

TriesAgain(w) ==
    /\ faults' = faults + 1
    /\ attempt' = [attempt EXCEPT ![w] = @ + 1]
    /\ UNCHANGED unpublished

Abandons(w) ==
    /\ faults' = faults + 1
    /\ attempt[w] = PublishAttempts - 1
    /\ attempt' = [attempt EXCEPT ![w] = 0]
    /\ unpublished' = unpublished \cup {Head(batch[w])}

Forgets(w) ==
    /\ faults' \in {faults, faults + 1}
    /\ attempt' = [attempt EXCEPT ![w] = 0]
    /\ UNCHANGED unpublished

ForgetsAll ==
    /\ faults' \in {faults, faults + 1}
    /\ attempt' = [w \in Workers |-> 0]
    /\ UNCHANGED unpublished

AttemptsKept ==
    /\ faults' \in {faults, faults + 1}
    /\ UNCHANGED <<attempt, unpublished>>

\* Every step of the ingestor is one of these for its attempts.
LEMMA IngestAttempts ==
    ASSUME TypeInv, IngestNext
    PROVE  \/ \E w \in Workers : TriesAgain(w) \/ Abandons(w) \/ Forgets(w)
           \/ ForgetsAll \/ AttemptsKept
<1> DEFINE Goal == \/ \E w \in Workers : TriesAgain(w) \/ Abandons(w) \/ Forgets(w)
                   \/ ForgetsAll \/ AttemptsKept
<1> USE DEF workVars
<1>1. Fault => faults' = faults + 1
  BY DEF Fault
<1>2. ASSUME NEW r \in Readings, Receive(r) PROVE Goal
  BY <1>2 DEF Receive, AttemptsKept
<1>3. CASE CountDrop \/ CountFailedUnlocked \/ Stop \/ StartAgain
  BY <1>1, <1>3 DEF CountDrop, CountFailedUnlocked, Stop, StartAgain, AttemptsKept
<1>4. ASSUME NEW w \in Workers, WorkerStep(w) PROVE Goal
  <2>1. CASE Take(w) \/ StartBatch(w) \/ WorkerExits(w) \/ Store(w) \/ TallyRead(w) \/ TallyWrite(w)
    BY <2>1 DEF Take, StartBatch, WorkerExits, Store, TallyRead, TallyWrite, AttemptsKept
  <2>2. CASE RejectUnreadable(w) \/ StoreFails(w) \/ StoreOnly(w) \/ PublishConfirmed(w)
    <3>1. Forgets(w)
      BY <1>1, <2>2 DEF RejectUnreadable, StoreFails, StoreOnly, PublishConfirmed, Finish, Forgets
    <3> QED
      BY <3>1
  <2>3. CASE PublishFails(w)
    <3>1. CASE attempt[w] < PublishAttempts - 1
      BY <1>1, <2>3, <3>1 DEF PublishFails, TriesAgain
    <3>2. CASE ~(attempt[w] < PublishAttempts - 1)
      <4>1. attempt[w] = PublishAttempts - 1
        <5>1. attempt[w] \in 0..PublishAttempts - 1
          BY DEF TypeInv, PipelineTypeOK, IngestTypeOK
        <5> QED
          BY <3>2, <5>1, IngestAssumption
      <4>2. Abandons(w)
        BY <1>1, <2>3, <3>2, <4>1 DEF PublishFails, Finish, Abandons
      <4> QED
        BY <4>2
    <3> QED
      BY <3>1, <3>2
  <2> QED
    BY <1>4, <2>1, <2>2, <2>3 DEF WorkerStep
<1>5. CASE CleanupEnds \/ Killed
  BY <1>1, <1>5 DEF CleanupEnds, Killed, ProcessEnds, FreshMemory, ForgetsAll
<1> QED
  BY <1>2, <1>3, <1>4, <1>5 DEF IngestNext

TriesRecommendationAgain ==
    /\ faults' = faults + 1
    /\ tries' = tries + 1
    /\ UNCHANGED givenUp

AbandonsRecommendation ==
    /\ faults' = faults + 1
    /\ tries = MaxPublishAttempts - 1
    /\ tries' = 0
    /\ givenUp' = givenUp \cup {Recommendation}

TriesKeptOrForgotten ==
    /\ faults' \in {faults, faults + 1}
    /\ tries' \in {tries, 0}
    /\ UNCHANGED givenUp

\* Every step of the control engine worker is one of these for its attempts.
LEMMA ControlAttempts ==
    ASSUME ControlNext
    PROVE  TriesRecommendationAgain \/ AbandonsRecommendation \/ TriesKeptOrForgotten
<1> USE DEF outputVars
<1>1. Fault => faults' = faults + 1
  BY DEF Fault
<1>2. AttemptFails => faults' = faults + 1 /\ (~LastAttempt => tries' = tries + 1)
  BY <1>1 DEF AttemptFails
<1>3. CASE Poll \/ Refuse \/ ReadFlag \/ Evaluate \/ Recommend \/ PersistAudit \/ Ack
  BY <1>1, <1>3 DEF Poll, Refuse, ReadFlag, Evaluate, Recommend, PersistAudit, Ack, GoTo,
     TriesKeptOrForgotten
<1>4. CASE RecommendFails
  <2>1. CASE LastAttempt
    BY <1>2, <1>4, <2>1 DEF RecommendFails, GoTo, LastAttempt, AbandonsRecommendation
  <2>2. CASE ~LastAttempt
    BY <1>2, <1>4, <2>2 DEF RecommendFails, TriesRecommendationAgain
  <2> QED
    BY <2>1, <2>2
<1>5. CASE Simulate \/ PublishAudit \/ Report
  <2>1. CASE AttemptFails /\ ~LastAttempt
    BY <1>2, <1>5, <2>1 DEF Simulate, PublishAudit, Report, GoTo, TriesRecommendationAgain,
       TriesKeptOrForgotten
  <2>2. CASE ~(AttemptFails /\ ~LastAttempt)
    BY <1>2, <1>5, <2>2 DEF Simulate, PublishAudit, Report, GoTo, TriesKeptOrForgotten
  <2> QED
    BY <2>1, <2>2
<1>6. CASE ConnectionLost \/ BrokerRequeues \/ WorkerCrash
  BY <1>1, <1>6 DEF ConnectionLost, BrokerRequeues, Requeue, WorkerCrash, controlVars,
     TriesKeptOrForgotten
<1> QED
  BY <1>3, <1>4, <1>5, <1>6 DEF ControlNext, HandleStep

\* Attempts of one worker more, or its attempts no more.
LEMMA SpentByOne ==
    ASSUME TypeInv, IsFiniteSet(Spent), NEW w \in Workers
    PROVE  /\ Cardinality(Spent) \in Nat
           /\ attempt' = [attempt EXCEPT ![w] = @ + 1] =>
                 IsFiniteSet(Spent') /\ Cardinality(Spent') = Cardinality(Spent) + 1
           /\ attempt' = [attempt EXCEPT ![w] = 0] =>
                 IsFiniteSet(Spent') /\ Cardinality(Spent') = Cardinality(Spent) - attempt[w]
<1>1. attempt \in [Workers -> Nat] /\ attempt[w] \in Nat
  BY IngestAssumption DEF TypeInv, PipelineTypeOK, IngestTypeOK
<1>2. Cardinality(Spent) \in Nat
  BY FS_CardinalityType
<1>3. \A v, n : <<v, n>> \in Spent <=> v \in Workers /\ n \in 1..attempt[v]
  BY DEF Spent
<1>4. \A p \in Spent : p = <<p[1], p[2]>>
  BY DEF Spent
<1>5. ASSUME attempt' = [attempt EXCEPT ![w] = @ + 1]
      PROVE  IsFiniteSet(Spent') /\ Cardinality(Spent') = Cardinality(Spent) + 1
  <2>1. Spent' = Spent \cup {<<w, attempt[w] + 1>>}
    <3>1. /\ attempt'[w] = attempt[w] + 1
          /\ \A v \in Workers \ {w} : attempt'[v] = attempt[v]
      BY <1>1, <1>5
    <3>2. \A n : n \in 1..attempt[w] + 1 <=> n \in 1..attempt[w] \/ n = attempt[w] + 1
      BY <1>1
    <3>3. \A v, n : (<<v, n>> \in Spent)' <=> v \in Workers /\ n \in 1..attempt'[v]
      BY DEF Spent
    <3>4. \A p \in Spent' : p = <<p[1], p[2]>>
      BY DEF Spent
    <3>5. \A v, n : (<<v, n>> \in Spent)' <=> <<v, n>> \in Spent \cup {<<w, attempt[w] + 1>>}
      BY <1>3, <3>1, <3>2, <3>3
    <3> QED
      BY <1>4, <3>4, <3>5
  <2>2. <<w, attempt[w] + 1>> \notin Spent
    BY <1>1, <1>3
  <2>3. /\ IsFiniteSet(Spent \cup {<<w, attempt[w] + 1>>})
        /\ Cardinality(Spent \cup {<<w, attempt[w] + 1>>}) = Cardinality(Spent) + 1
    BY <2>2, FS_AddElement
  <2> QED
    BY <2>1, <2>3
<1>6. ASSUME attempt' = [attempt EXCEPT ![w] = 0]
      PROVE  IsFiniteSet(Spent') /\ Cardinality(Spent') = Cardinality(Spent) - attempt[w]
  <2> DEFINE mine == {w} \X (1..attempt[w])
  <2>1. Spent' = Spent \ mine
    <3>1. /\ attempt'[w] = 0 /\ 1..0 = {}
          /\ \A v \in Workers \ {w} : attempt'[v] = attempt[v]
      BY <1>1, <1>6
    <3>2. \A v, n : (<<v, n>> \in Spent)' <=> v \in Workers /\ n \in 1..attempt'[v]
      BY DEF Spent
    <3>3. \A p \in Spent' : p = <<p[1], p[2]>>
      BY DEF Spent
    <3>4. \A v, n : (<<v, n>> \in Spent)' <=> <<v, n>> \in Spent \ mine
      BY <1>3, <3>1, <3>2
    <3> QED
      BY <1>4, <3>3, <3>4
  <2>2. Spent \cap mine = mine
    BY DEF Spent
  <2>3. Cardinality(mine) = attempt[w]
    <3>1. IsFiniteSet(1..attempt[w]) /\ Cardinality(1..attempt[w]) = attempt[w]
      BY <1>1, FS_Interval
    <3>2. IsFiniteSet({w}) /\ Cardinality({w}) = 1
      BY FS_Singleton
    <3>3. Cardinality(mine) = 1 * attempt[w]
      BY <3>1, <3>2, FS_Product
    <3> QED
      BY <1>1, <3>3
  <2>4. IsFiniteSet(Spent \ mine) /\ Cardinality(Spent \ mine) = Cardinality(Spent) - attempt[w]
    <3> HIDE DEF mine
    <3> QED
      BY <2>2, <2>3, FS_Difference
  <2> QED
    BY <2>1, <2>4
<1> QED
  BY <1>2, <1>5, <1>6

\* What one element more costs.
LEMMA OneMore ==
    ASSUME NEW S, IsFiniteSet(S), NEW x, NEW m \in Nat
    PROVE  /\ IsFiniteSet(S \cup {x})
           /\ m * Cardinality(S) \in Nat
           /\ m * Cardinality(S \cup {x}) \in Nat
           /\ m * Cardinality(S \cup {x}) <= m * Cardinality(S) + m
<1>1. Cardinality(S) \in Nat /\ IsFiniteSet(S \cup {x})
      /\ Cardinality(S \cup {x}) \in {Cardinality(S), Cardinality(S) + 1}
  BY FS_CardinalityType, FS_AddElement
<1>2. \A n \in Nat : m * n \in Nat /\ m * (n + 1) = m * n + m
  OBVIOUS
<1>3. /\ m * Cardinality(S) \in Nat
      /\ m * (Cardinality(S) + 1) = m * Cardinality(S) + m
  BY <1>1, <1>2
<1> QED
  BY <1>1, <1>3

LEMMA FaultsStep ==
    ASSUME TypeInv, FaultsPaid, [PipelineNext]_pipelineVars
    PROVE  FaultsPaid'
<1> DEFINE U == PublishAttempts * Cardinality(unpublished)
           G == MaxPublishAttempts * Cardinality(givenUp)
           C == Cardinality(Spent)
<1>1. /\ IsFiniteSet(unpublished) /\ IsFiniteSet(givenUp) /\ IsFiniteSet(Spent)
      /\ U + G + C + tries <= faults
  BY DEF FaultsPaid
<1>2. /\ PublishAttempts \in Nat \ {0} /\ MaxPublishAttempts \in Nat \ {0}
      /\ tries \in Nat /\ faults \in Nat /\ attempt \in [Workers -> Nat]
  BY BrokerAssumption, IngestAssumption, ControlWorkerAssumption
     DEF TypeInv, PipelineTypeOK, BrokerTypeOK, IngestTypeOK, ControlTypeOK
<1>3. U \in Nat /\ G \in Nat /\ C \in Nat
  <2>1. Cardinality(unpublished) \in Nat /\ Cardinality(givenUp) \in Nat /\ C \in Nat
    BY <1>1, FS_CardinalityType
  <2> QED
    BY <1>2, <2>1
<1>4. SUFFICES /\ IsFiniteSet(unpublished') /\ IsFiniteSet(givenUp') /\ IsFiniteSet(Spent')
               /\ U' + G' + C' + tries' <= faults'
  BY DEF FaultsPaid
<1>5. unpublished' = unpublished => IsFiniteSet(unpublished') /\ U' = U
  BY <1>1
<1>6. givenUp' = givenUp => IsFiniteSet(givenUp') /\ G' = G
  BY <1>1
<1>7. attempt' = attempt => IsFiniteSet(Spent') /\ C' = C
  BY <1>1 DEF Spent
<1>8. CASE IngestNext /\ UNCHANGED controlVars
  <2>1. givenUp' = givenUp /\ tries' = tries
    BY <1>8 DEF controlVars
  <2>2. ASSUME NEW w \in Workers, TriesAgain(w)
        PROVE  /\ IsFiniteSet(Spent') /\ C' = C + 1
               /\ unpublished' = unpublished /\ faults' = faults + 1
    BY <1>1, <2>2, SpentByOne DEF TriesAgain
  <2>3. ASSUME NEW w \in Workers, Abandons(w)
        PROVE  /\ IsFiniteSet(Spent') /\ C' = C - (PublishAttempts - 1)
               /\ IsFiniteSet(unpublished') /\ U' \in Nat /\ U' <= U + PublishAttempts
               /\ faults' = faults + 1
    <3>1. IsFiniteSet(Spent') /\ C' = C - (PublishAttempts - 1)
      BY <1>1, <2>3, SpentByOne DEF Abandons
    <3>2. IsFiniteSet(unpublished') /\ U' \in Nat /\ U' <= U + PublishAttempts
      BY <1>1, <1>2, <2>3, OneMore DEF Abandons
    <3> QED
      BY <2>3, <3>1, <3>2 DEF Abandons
  <2>4. ASSUME NEW w \in Workers, Forgets(w)
        PROVE  /\ IsFiniteSet(Spent') /\ C' \in Nat /\ C' <= C
               /\ unpublished' = unpublished /\ faults' \in {faults, faults + 1}
    <3>1. IsFiniteSet(Spent') /\ C' = C - attempt[w]
      BY <1>1, <2>4, SpentByOne DEF Forgets
    <3>2. C' \in Nat /\ attempt[w] \in Nat
      BY <1>2, <3>1, FS_CardinalityType
    <3> QED
      BY <1>3, <2>4, <3>1, <3>2 DEF Forgets
  <2>5. CASE ForgetsAll
    <3>1. Spent' = {}
      BY <2>5 DEF ForgetsAll, Spent
    <3>2. IsFiniteSet(Spent') /\ C' = 0
      BY <3>1, FS_EmptySet
    <3> QED
      BY <1>1, <1>2, <1>3, <1>5, <1>6, <2>1, <2>5, <3>2 DEF ForgetsAll
  <2>6. CASE AttemptsKept
    BY <1>1, <1>2, <1>3, <1>5, <1>6, <1>7, <2>1, <2>6 DEF AttemptsKept
  <2>7. ASSUME NEW w \in Workers, TriesAgain(w) \/ Forgets(w) \/ Abandons(w)
        PROVE  /\ IsFiniteSet(unpublished') /\ IsFiniteSet(givenUp') /\ IsFiniteSet(Spent')
               /\ U' + G' + C' + tries' <= faults'
    <3>1. CASE TriesAgain(w)
      BY <1>1, <1>2, <1>3, <1>5, <1>6, <2>1, <2>2, <3>1
    <3>2. CASE Forgets(w)
      BY <1>1, <1>2, <1>3, <1>5, <1>6, <2>1, <2>4, <3>2
    <3>3. CASE Abandons(w)
      <4>1. C' = C - (PublishAttempts - 1) /\ U' \in Nat /\ U' <= U + PublishAttempts
            /\ faults' = faults + 1 /\ G' = G /\ tries' = tries
        BY <1>6, <2>1, <2>3, <3>3
      <4>2. U + G + C + tries <= faults
        BY <1>1
      <4>3. U' + G' + C' + tries' <= faults'
        BY <1>2, <1>3, <4>1, <4>2
      <4>4. IsFiniteSet(unpublished') /\ IsFiniteSet(givenUp') /\ IsFiniteSet(Spent')
        BY <1>1, <2>1, <2>3, <3>3
      <4> QED
        BY <4>3, <4>4
    <3> QED
      BY <2>7, <3>1, <3>2, <3>3
  <2> QED
    BY <1>8, <2>5, <2>6, <2>7, IngestAttempts
<1>9. CASE ControlNext /\ UNCHANGED ingestVars
  <2>1. unpublished' = unpublished /\ attempt' = attempt
    BY <1>9 DEF ingestVars, workVars
  <2>2. CASE TriesRecommendationAgain
    BY <1>1, <1>2, <1>3, <1>5, <1>6, <1>7, <2>1, <2>2 DEF TriesRecommendationAgain
  <2>3. CASE AbandonsRecommendation
    <3>1. IsFiniteSet(givenUp') /\ G' \in Nat /\ G' <= G + MaxPublishAttempts
      BY <1>1, <1>2, <2>3, OneMore DEF AbandonsRecommendation
    <3>2. faults' = faults + 1 /\ tries = MaxPublishAttempts - 1 /\ tries' = 0
          /\ U' = U /\ C' = C
      BY <1>5, <1>7, <2>1, <2>3 DEF AbandonsRecommendation
    <3>3. U + G + C + tries <= faults
      BY <1>1
    <3>4. U' + G' + C' + tries' <= faults'
      BY <1>2, <1>3, <3>1, <3>2, <3>3
    <3> QED
      BY <1>1, <1>5, <1>7, <2>1, <3>1, <3>4
  <2>4. CASE TriesKeptOrForgotten
    BY <1>1, <1>2, <1>3, <1>5, <1>6, <1>7, <2>1, <2>4 DEF TriesKeptOrForgotten
  <2> QED
    BY <1>9, <2>2, <2>3, <2>4, ControlAttempts
<1>10. CASE UNCHANGED pipelineVars
  BY <1>1, <1>5, <1>6, <1>7, <1>10 DEF pipelineVars, ingestVars, workVars, controlVars
<1> QED
  BY <1>8, <1>9, <1>10 DEF PipelineNext

\* A publication is given up for all the attempts it is allowed, each of which
\* took a failure of the transport: the event of a stored reading as well as a
\* recommendation.
THEOREM GivingUpTakesEveryAttemptHolds == PipelineSpec => []GivingUpTakesEveryAttempt
<1> DEFINE Inv == TypeInv /\ FaultsPaid
<1>1. PipelineInit => Inv
  <2> SUFFICES ASSUME PipelineInit PROVE Inv
    OBVIOUS
  <2>1. /\ unpublished = {} /\ givenUp = {} /\ tries = 0 /\ faults = 0
        /\ attempt = [w \in Workers |-> 0]
    BY DEF PipelineInit, BrokerInit, IngestInit, FreshMemory, ControlInit
  <2>2. Spent = {}
    BY <2>1 DEF Spent
  <2>3. FaultsPaid
    BY <2>1, <2>2, FS_EmptySet, IngestAssumption, ControlWorkerAssumption DEF FaultsPaid
  <2> QED
    BY <2>3, TypeInit
<1>2. Inv /\ [PipelineNext]_pipelineVars => Inv'
  BY FaultsStep, TypeStep
<1>3. Inv => GivingUpTakesEveryAttempt
  <2> SUFFICES ASSUME Inv PROVE GivingUpTakesEveryAttempt
    OBVIOUS
  <2>1. /\ Cardinality(unpublished) \in Nat /\ Cardinality(givenUp) \in Nat
        /\ Cardinality(Spent) \in Nat
    BY FS_CardinalityType DEF FaultsPaid
  <2>2. /\ PublishAttempts * Cardinality(unpublished) \in Nat
        /\ MaxPublishAttempts * Cardinality(givenUp) \in Nat
        /\ tries \in Nat /\ faults \in Nat
    BY <2>1, BrokerAssumption, IngestAssumption, ControlWorkerAssumption
       DEF TypeInv, PipelineTypeOK, BrokerTypeOK, ControlTypeOK
  <2> QED
    BY <2>1, <2>2 DEF FaultsPaid, GivingUpTakesEveryAttempt
<1> QED
  BY <1>1, <1>2, <1>3, PTL DEF PipelineSpec

-----------------------------------------------------------------------------
(***************************************************************************)
(* The accounts of the ingestor's counters.                                *)
(***************************************************************************)

\* A worker has one reading more at hand, or one less.
LEMMA InHandByOne ==
    ASSUME TypeInv, IsFiniteSet(InHand), NEW w \in Workers
    PROVE  /\ Cardinality(InHand) \in Nat
           /\ \A r \in Readings : batch' = [batch EXCEPT ![w] = Append(@, r)] =>
                 IsFiniteSet(InHand') /\ Cardinality(InHand') = Cardinality(InHand) + 1
           /\ batch[w] # <<>> /\ batch' = [batch EXCEPT ![w] = Tail(@)] =>
                 IsFiniteSet(InHand') /\ Cardinality(InHand') = Cardinality(InHand) - 1
<1>1. batch \in [Workers -> Seq(Readings)]
      /\ \A v \in Workers : Len(batch[v]) \in Nat /\ DOMAIN batch[v] = 1..Len(batch[v])
  <2>1. batch \in [Workers -> Seq(Readings)]
    BY DEF TypeInv, PipelineTypeOK, IngestTypeOK
  <2> QED
    BY <2>1, LenProperties
<1>2. Cardinality(InHand) \in Nat
  BY FS_CardinalityType
<1>3. /\ \A v, n : <<v, n>> \in InHand <=> v \in Workers /\ n \in DOMAIN batch[v]
      /\ \A p \in InHand : p = <<p[1], p[2]>>
  BY DEF InHand
<1>4. /\ \A v, n : (<<v, n>> \in InHand)' <=> v \in Workers /\ n \in DOMAIN batch'[v]
      /\ \A p \in InHand' : p = <<p[1], p[2]>>
  BY DEF InHand
<1>5. ASSUME NEW r \in Readings, batch' = [batch EXCEPT ![w] = Append(@, r)]
      PROVE  IsFiniteSet(InHand') /\ Cardinality(InHand') = Cardinality(InHand) + 1
  <2> DEFINE place == <<w, Len(batch[w]) + 1>>
  <2>1. /\ batch'[w] = Append(batch[w], r)
        /\ \A v \in Workers \ {w} : batch'[v] = batch[v]
    BY <1>1, <1>5
  <2>2. DOMAIN batch'[w] = 1..Len(batch[w]) + 1
    <3>1. batch'[w] \in Seq(Readings) /\ Len(batch'[w]) = Len(batch[w]) + 1
      BY <1>1, <2>1, AppendProperties
    <3> QED
      BY <3>1, LenProperties
  <2>3. \A n : n \in 1..Len(batch[w]) + 1 <=> n \in 1..Len(batch[w]) \/ n = Len(batch[w]) + 1
    BY <1>1
  <2>4. \A v, n : (<<v, n>> \in InHand)' <=> <<v, n>> \in InHand \cup {place}
    BY <1>1, <1>3, <1>4, <2>1, <2>2, <2>3
  <2>5. InHand' = InHand \cup {place}
    BY <1>3, <1>4, <2>4
  <2>6. place \notin InHand
    BY <1>1, <1>3
  <2>7. /\ IsFiniteSet(InHand \cup {place})
        /\ Cardinality(InHand \cup {place}) = Cardinality(InHand) + 1
    BY <2>6, FS_AddElement
  <2> QED
    BY <2>5, <2>7
<1>6. ASSUME batch[w] # <<>>, batch' = [batch EXCEPT ![w] = Tail(@)]
      PROVE  IsFiniteSet(InHand') /\ Cardinality(InHand') = Cardinality(InHand) - 1
  <2> DEFINE place == <<w, Len(batch[w])>>
  <2>1. /\ batch'[w] = Tail(batch[w])
        /\ \A v \in Workers \ {w} : batch'[v] = batch[v]
    BY <1>1, <1>6
  <2>2. DOMAIN batch'[w] = 1..Len(batch[w]) - 1 /\ Len(batch[w]) \in Nat \ {0}
    <3>1. batch'[w] \in Seq(Readings) /\ Len(batch'[w]) = Len(batch[w]) - 1
      BY <1>1, <1>6, <2>1, HeadTailProperties
    <3> QED
      BY <1>1, <1>6, <3>1, LenProperties, EmptySeq
  <2>3. \A n : n \in 1..Len(batch[w]) - 1 <=> n \in 1..Len(batch[w]) /\ n # Len(batch[w])
    BY <2>2
  <2>4. \A v, n : (<<v, n>> \in InHand)' <=> <<v, n>> \in InHand \ {place}
    BY <1>1, <1>3, <1>4, <2>1, <2>2, <2>3
  <2>5. InHand' = InHand \ {place}
    BY <1>3, <1>4, <2>4
  <2>6. place \in InHand
    BY <1>1, <1>3, <2>2
  <2>7. /\ IsFiniteSet(InHand \ {place})
        /\ Cardinality(InHand \ {place}) = Cardinality(InHand) - 1
    BY <2>6, FS_RemoveElement
  <2> QED
    BY <2>5, <2>7
<1> QED
  BY <1>2, <1>5, <1>6

\* The failures that one worker has still to count change.
LEMMA UncountedByOne ==
    ASSUME TypeInv, IsFiniteSet(Uncounted), NEW w \in Workers, NEW n \in Nat,
           failures' = [failures EXCEPT ![w] = n]
    PROVE  /\ IsFiniteSet(Uncounted')
           /\ Cardinality(Uncounted) \in Nat
           /\ Cardinality(Uncounted') = Cardinality(Uncounted) - failures[w] + n
<1> DEFINE old == {w} \X (1..failures[w])
           new == {w} \X (1..n)
<1>1. failures \in [Workers -> 0..2] /\ failures[w] \in Nat
  <2>1. failures \in [Workers -> 0..2]
    BY DEF TypeInv, PipelineTypeOK, IngestTypeOK
  <2> QED
    BY <2>1
<1>2. /\ \A v, k : <<v, k>> \in Uncounted <=> v \in Workers /\ k \in 1..failures[v]
      /\ \A p \in Uncounted : p = <<p[1], p[2]>>
  BY DEF Uncounted
<1>3. /\ \A v, k : (<<v, k>> \in Uncounted)' <=> v \in Workers /\ k \in 1..failures'[v]
      /\ \A p \in Uncounted' : p = <<p[1], p[2]>>
  BY DEF Uncounted
<1>4. failures'[w] = n /\ \A v \in Workers \ {w} : failures'[v] = failures[v]
  BY <1>1
<1>5. Uncounted' = (Uncounted \ old) \cup new
  <2>1. \A v, k : (<<v, k>> \in Uncounted)' <=> <<v, k>> \in (Uncounted \ old) \cup new
    BY <1>2, <1>3, <1>4
  <2>2. \A p \in (Uncounted \ old) \cup new : p = <<p[1], p[2]>>
    BY <1>2
  <2> QED
    BY <1>3, <2>1, <2>2
<1>6. Uncounted \cap old = old
  BY <1>2
<1>7. (Uncounted \ old) \cap new = {}
  BY <1>2
<1>8. ASSUME NEW m \in Nat
      PROVE  IsFiniteSet({w} \X (1..m)) /\ Cardinality({w} \X (1..m)) = m
  <2>1. IsFiniteSet(1..m) /\ Cardinality(1..m) = m
    <3>1. 1 \in Int /\ m \in Int
      OBVIOUS
    <3>2. IsFiniteSet(1..m) /\ Cardinality(1..m) = IF 1 > m THEN 0 ELSE m - 1 + 1
      BY <3>1, FS_Interval
    <3> QED
      BY <3>2
  <2>2. IsFiniteSet({w}) /\ Cardinality({w}) = 1
    BY FS_Singleton
  <2>3. IsFiniteSet({w} \X (1..m)) /\ Cardinality({w} \X (1..m)) = 1 * m
    BY <2>1, <2>2, FS_Product
  <2> QED
    BY <2>3
<1>9. Cardinality(old) = failures[w] /\ IsFiniteSet(new) /\ Cardinality(new) = n
  BY <1>1, <1>8
<1>10. Cardinality(Uncounted) \in Nat
  BY FS_CardinalityType
<1> HIDE DEF old, new
<1>11. /\ IsFiniteSet(Uncounted \ old)
       /\ Cardinality(Uncounted \ old) = Cardinality(Uncounted) - failures[w]
  BY <1>6, <1>9, FS_Difference
<1>12. Cardinality((Uncounted \ old) \cap new) = 0
  BY <1>7, FS_EmptySet
<1>13. /\ IsFiniteSet((Uncounted \ old) \cup new)
       /\ Cardinality((Uncounted \ old) \cup new) =
             Cardinality(Uncounted \ old) + Cardinality(new) - Cardinality((Uncounted \ old) \cap new)
  BY <1>9, <1>11, FS_Union
<1>14. Cardinality(Uncounted \ old) \in Nat
  BY <1>11, FS_CardinalityType
<1> QED
  BY <1>5, <1>9, <1>10, <1>11, <1>12, <1>13, <1>14

\* A worker that finishes with a reading counts it, or has to.
LEMMA FinishSettles ==
    ASSUME TypeInv, ReadingsAccounted, NEW w \in Workers, stage[w] \in {"store", "publish"},
           NEW ok \in BOOLEAN, Finish(w, ok), UNCHANGED <<queue, callback, validation>>
    PROVE  ReadingsAccounted'
<1> DEFINE failing == (IF ok THEN 0 ELSE 1) + (IF validation THEN 0 ELSE 1)
<1>1. /\ counters \in [Counters -> Nat] /\ queue \in Seq(Readings) /\ Len(queue) \in Nat
      /\ callback.read \in Nat /\ validation \in BOOLEAN
      /\ batch[w] # <<>> /\ failures[w] = 0 /\ stage \in [Workers -> Stages]
  BY LenProperties DEF TypeInv, PipelineTypeOK, IngestTypeOK, WorkersHaveReadings
<1>2. /\ IsFiniteSet(InHand') /\ Cardinality(InHand') = Cardinality(InHand) - 1
      /\ Cardinality(InHand) \in Nat /\ Cardinality(InHand') \in Nat
  <2>1. /\ IsFiniteSet(InHand') /\ Cardinality(InHand') = Cardinality(InHand) - 1
        /\ Cardinality(InHand) \in Nat
    BY <1>1, InHandByOne DEF Finish, ReadingsAccounted
  <2> QED
    BY <2>1, FS_CardinalityType
<1>3. failing \in Nat /\ failures' = [failures EXCEPT ![w] = failing]
  BY DEF Finish
<1>4. /\ IsFiniteSet(Uncounted') /\ Cardinality(Uncounted) \in Nat
      /\ Cardinality(Uncounted') = Cardinality(Uncounted) + failing
  <2> HIDE DEF failing
  <2>1. /\ IsFiniteSet(Uncounted') /\ Cardinality(Uncounted) \in Nat
        /\ Cardinality(Uncounted') = Cardinality(Uncounted) - failures[w] + failing
    BY <1>3, UncountedByOne DEF ReadingsAccounted
  <2> QED
    BY <1>1, <1>3, <2>1
<1>5. /\ counters'["processed"] = counters["processed"] + (IF ok THEN 1 ELSE 0)
      /\ counters'["failed"] = counters["failed"]
      /\ counters'["received"] = counters["received"]
      /\ counters'["dropped"] = counters["dropped"]
      /\ \A c \in Counters : counters[c] \in Nat
  BY <1>1 DEF Finish, Counters
<1>6. Settled' = Settled
  <2> DEFINE backlog == Len(queue) + Cardinality(InHand)
             done == IF ok THEN 1 ELSE 0
  <2>1. /\ (Len(queue) + Cardinality(InHand))' = backlog - 1
        /\ backlog \in Nat /\ validation' = validation
    BY <1>1, <1>2
  <2>2. done + failing = (IF validation THEN 1 ELSE 2) /\ done \in Nat
    BY <1>1
  <2>3. counters'["processed"] = counters["processed"] + done
    BY <1>5
  <2>4. counters["processed"] \in Nat
    BY <1>5 DEF Counters
  <2>5. /\ Scaled(Len(queue) + Cardinality(InHand))' = Scaled(backlog) - (IF validation THEN 1 ELSE 2)
        /\ Scaled(backlog) \in Nat
    <3> HIDE DEF backlog
    <3> QED
      BY <1>1, <2>1 DEF Scaled
  <2> HIDE DEF failing, done
  <2>6. Settled = counters["processed"] + Cardinality(Uncounted) + Scaled(backlog)
    BY DEF Settled
  <2>7. Settled' = counters'["processed"] + Cardinality(Uncounted')
                   + Scaled(Len(queue) + Cardinality(InHand))'
    BY DEF Settled
  <2> HIDE DEF backlog
  <2> QED
    BY <1>3, <1>4, <2>2, <2>3, <2>4, <2>5, <2>6, <2>7
<1>7. AtCallback' = AtCallback /\ read' = read /\ callback' = callback
  BY DEF AtCallback, Finish
<1>8. \A f : Balance(f)' <=> Settled + f + Scaled(AtCallback) <= Scaled(counters["received"])
                 /\ (counters["dropped"] = 0 =>
                        Settled + f + Scaled(AtCallback) = Scaled(counters["received"]))
  BY <1>5, <1>6, <1>7 DEF Balance, Scaled
<1>9. \A v \in Workers : stage'[v] = "count" => stage[v] = "count"
  BY <1>1 DEF Finish
<1>10. Balance(counters["failed"])'
  BY <1>5, <1>8 DEF ReadingsAccounted, Balance
<1>11. \A v \in Workers : stage'[v] = "count" => Balance(read[v])'
  BY <1>7, <1>8, <1>9 DEF ReadingsAccounted, Balance
<1> QED
  BY <1>2, <1>4, <1>5, <1>7, <1>9, <1>10, <1>11 DEF ReadingsAccounted

\* What is read under the lock, and written back.
LEMMA TallyAccounts ==
    ASSUME TypeInv, ReadingsAccounted, NEW w \in Workers, TallyRead(w) \/ TallyWrite(w)
    PROVE  ReadingsAccounted'
<1>1. /\ counters \in [Counters -> Nat] /\ Len(queue) \in Nat
      /\ callback.read \in Nat /\ validation \in BOOLEAN
      /\ stage \in [Workers -> Stages] /\ read \in [Workers -> Nat] /\ failures \in [Workers -> 0..2]
      /\ \A c \in Counters : counters[c] \in Nat
  BY LenProperties DEF TypeInv, PipelineTypeOK, IngestTypeOK
<1>2. InHand' = InHand /\ AtCallback' = AtCallback /\ callback' = callback /\ queue' = queue
      /\ validation' = validation
  BY DEF TallyRead, TallyWrite, InHand, AtCallback
<1>3. Cardinality(InHand) \in Nat /\ Cardinality(Uncounted) \in Nat
  BY FS_CardinalityType DEF ReadingsAccounted
<1>4. Settled \in Nat /\ Scaled(AtCallback) \in Nat
  BY <1>1, <1>3 DEF Settled, Scaled, Counters, AtCallback
<1>5. CASE TallyRead(w)
  <2>1. /\ counters' = counters /\ failures' = failures
        /\ read'[w] = counters["failed"]
        /\ \A v \in Workers : stage[v] # "count"
        /\ \A v \in Workers : stage'[v] = "count" => v = w
    BY <1>1, <1>5 DEF TallyRead, MetricsUnlocked
  <2>2. Uncounted' = Uncounted
    BY <2>1 DEF Uncounted
  <2>3. Settled' = Settled
    BY <1>2, <2>1, <2>2 DEF Settled, Scaled
  <2>4. Balance(counters["failed"])'
    BY <1>2, <2>1, <2>3 DEF ReadingsAccounted, Balance, Scaled
  <2>5. Balance(read[w])'
    BY <1>2, <2>1, <2>3 DEF ReadingsAccounted, Balance, Scaled
  <2>6. callback.doing = "count" => callback.read <= read'[w] + 1
    BY <1>1, <2>1 DEF ReadingsAccounted, Counters
  <2> QED
    BY <1>2, <2>1, <2>2, <2>4, <2>5, <2>6 DEF ReadingsAccounted
<1>6. CASE TallyWrite(w)
  <2>1. /\ stage[w] = "count" /\ read[w] \in Nat
        /\ counters'["failed"] = read[w] + 1
        /\ counters'["processed"] = counters["processed"]
        /\ counters'["received"] = counters["received"]
        /\ counters'["dropped"] = counters["dropped"]
        /\ failures[w] \in 1..2 /\ failures' = [failures EXCEPT ![w] = failures[w] - 1]
    BY <1>1, <1>6 DEF TallyWrite, TypeInv, WorkersHaveReadings, Counters
  <2>2. \A v \in Workers : stage'[v] # "count"
    <3>1. \A v \in Workers : stage[v] = "count" => v = w
      BY <2>1 DEF ReadingsAccounted
    <3>2. stage'[w] # "count" /\ \A v \in Workers \ {w} : stage'[v] = stage[v]
      BY <1>1, <1>6 DEF TallyWrite
    <3> QED
      BY <3>1, <3>2
  <2>3. IsFiniteSet(Uncounted') /\ Cardinality(Uncounted') = Cardinality(Uncounted) - 1
    <3>1. failures[w] - 1 \in Nat
      BY <2>1
    <3>2. /\ IsFiniteSet(Uncounted')
          /\ Cardinality(Uncounted') = Cardinality(Uncounted) - failures[w] + (failures[w] - 1)
      BY <2>1, <3>1, UncountedByOne DEF ReadingsAccounted
    <3> QED
      BY <1>3, <2>1, <3>2
  <2>4. Settled' = Settled - 1
    BY <1>1, <1>2, <1>3, <2>1, <2>3 DEF Settled, Scaled, Counters
  <2>5. Balance(read[w]) /\ (callback.doing = "count" => callback.read <= read[w] + 1)
    BY <2>1 DEF ReadingsAccounted
  <2>6. Scaled(AtCallback)' = Scaled(AtCallback)
        /\ Scaled(counters["received"])' = Scaled(counters["received"])
    BY <1>2, <2>1 DEF Scaled
  <2>7. Settled' + counters'["failed"] + Scaled(AtCallback)
           = Settled + read[w] + Scaled(AtCallback)
    BY <1>4, <2>1, <2>4
  <2>8. Balance(counters["failed"])'
    BY <2>1, <2>5, <2>6, <2>7 DEF Balance
  <2> QED
    BY <1>2, <2>1, <2>2, <2>3, <2>5, <2>8 DEF ReadingsAccounted
<1> QED
  BY <1>5, <1>6

LEMMA AccountsStep ==
    ASSUME TypeInv, ReadingsAccounted, IngestNext
    PROVE  ReadingsAccounted'
<1>1. /\ counters \in [Counters -> Nat] /\ queue \in Seq(Readings) /\ Len(queue) \in Nat
      /\ callback \in [doing : {"wait", "drop", "count"}, read : Nat]
      /\ validation \in BOOLEAN /\ stage \in [Workers -> Stages] /\ read \in [Workers -> Nat]
      /\ \A x \in Counters : counters[x] \in Nat
      /\ Counters = {"received", "processed", "failed", "dropped"}
  BY LenProperties DEF TypeInv, PipelineTypeOK, IngestTypeOK, Counters
<1>2. /\ IsFiniteSet(InHand) /\ Cardinality(InHand) \in Nat
      /\ IsFiniteSet(Uncounted) /\ Cardinality(Uncounted) \in Nat
  BY FS_CardinalityType DEF ReadingsAccounted
<1>3. Settled \in Nat /\ AtCallback \in {0, 1} /\ Scaled(counters["received"]) \in Nat
  BY <1>1, <1>2 DEF Settled, Scaled, AtCallback
<1>4. batch' = batch => InHand' = InHand
  BY DEF InHand
<1>5. failures' = failures => Uncounted' = Uncounted
  BY DEF Uncounted
<1> USE DEF workVars
<1>6. ASSUME NEW r \in Readings, Receive(r) PROVE ReadingsAccounted'
  <2>1. /\ counters'["processed"] = counters["processed"] /\ counters'["failed"] = counters["failed"]
        /\ counters'["dropped"] = counters["dropped"]
        /\ counters'["received"] = counters["received"] + 1
        /\ InHand' = InHand /\ Uncounted' = Uncounted
        /\ validation' = validation /\ stage' = stage /\ read' = read
        /\ callback.doing = "wait"
    BY <1>1, <1>4, <1>5, <1>6 DEF Receive
  <2>2. ASSUME NEW f \in Nat, Balance(f), callback'.doing # "count",
               Settled' + Scaled(AtCallback)' = Settled + Scaled(AtCallback) + Scaled(1),
               Settled' \in Nat, AtCallback' \in {0, 1}
        PROVE  Balance(f)'
    <3>1. Scaled(counters["received"])' = Scaled(counters["received"]) + Scaled(1)
      BY <1>1, <2>1 DEF Scaled
    <3>2. Scaled(AtCallback) \in Nat /\ Scaled(AtCallback)' \in Nat /\ Scaled(1) \in Nat
      <4>1. \A n \in {0, 1} : (IF validation THEN n ELSE n + n) \in Nat
        OBVIOUS
      <4>2. /\ Scaled(AtCallback) = IF validation THEN AtCallback ELSE AtCallback + AtCallback
            /\ Scaled(1) = IF validation THEN 1 ELSE 1 + 1
        BY DEF Scaled
      <4>3. Scaled(AtCallback)' = IF validation THEN AtCallback' ELSE AtCallback' + AtCallback'
        BY <2>1 DEF Scaled
      <4> QED
        BY <1>3, <2>2, <4>1, <4>2, <4>3
    <3>3. Settled' + f + Scaled(AtCallback)' = Settled + f + Scaled(AtCallback) + Scaled(1)
      BY <1>3, <2>2, <3>2
    <3> QED
      BY <1>3, <2>1, <2>2, <3>1, <3>2, <3>3 DEF Balance
  <2>3. /\ Settled' + Scaled(AtCallback)' = Settled + Scaled(AtCallback) + Scaled(1)
        /\ callback'.doing # "count" /\ Settled' \in Nat /\ AtCallback' \in {0, 1}
    <3> DEFINE backlog == Len(queue) + Cardinality(InHand)
    <3>1. CASE Len(queue) < QueueSize
      <4>1. Len(queue') = Len(queue) + 1 /\ callback' = callback
        <5>1. Len(Append(queue, r)) = Len(queue) + 1
          BY <1>1, AppendProperties
        <5> QED
          BY <1>6, <3>1, <5>1 DEF Receive
      <4>2. AtCallback = 0 /\ AtCallback' = 0 /\ callback'.doing # "count"
        BY <2>1, <4>1 DEF AtCallback
      <4>3. Settled' = Settled + Scaled(1)
        <5>1. backlog \in Nat /\ (Len(queue) + Cardinality(InHand))' = backlog + 1
          BY <1>1, <1>2, <2>1, <4>1
        <5>2. counters["processed"] \in Nat
          BY <1>1
        <5> HIDE DEF backlog
        <5>3. /\ Scaled(Len(queue) + Cardinality(InHand))' = Scaled(backlog) + Scaled(1)
              /\ Scaled(backlog) \in Nat /\ Scaled(1) \in Nat
          BY <1>1, <2>1, <5>1 DEF Scaled
        <5>4. Settled = counters["processed"] + Cardinality(Uncounted) + Scaled(backlog)
          BY DEF Settled, backlog
        <5>5. Settled' = counters'["processed"] + Cardinality(Uncounted')
                         + Scaled(Len(queue) + Cardinality(InHand))'
          BY DEF Settled
        <5> QED
          BY <1>2, <2>1, <5>2, <5>3, <5>4, <5>5
      <4>4. Scaled(AtCallback) = 0 /\ Scaled(AtCallback)' = 0 /\ Scaled(1) \in Nat
        BY <4>2 DEF Scaled
      <4> QED
        BY <1>3, <4>2, <4>3, <4>4
    <3>2. CASE ~(Len(queue) < QueueSize)
      <4>1. queue' = queue /\ callback'.doing = "drop"
        BY <1>1, <1>6, <3>2 DEF Receive
      <4>2. AtCallback = 0 /\ AtCallback' = 1
        BY <2>1, <4>1 DEF AtCallback
      <4>3. Settled' = Settled
        BY <2>1, <4>1 DEF Settled, Scaled
      <4>4. Scaled(AtCallback) = 0 /\ Scaled(AtCallback)' = Scaled(1) /\ Scaled(1) \in Nat
        BY <2>1, <4>2 DEF Scaled
      <4> QED
        BY <1>3, <4>1, <4>2, <4>3, <4>4
    <3> QED
      BY <3>1, <3>2
  <2>4. Balance(counters["failed"])'
    <3>1. Balance(counters["failed"]) /\ counters["failed"] \in Nat
      BY <1>1 DEF ReadingsAccounted
    <3>2. ASSUME NEW f \in Nat, f = counters["failed"] PROVE Balance(f)'
      BY <2>2, <2>3, <3>1, <3>2
    <3> QED
      BY <2>1, <3>1, <3>2 DEF Balance
  <2>5. ASSUME NEW w \in Workers, stage'[w] = "count" PROVE Balance(read[w])'
    <3>1. Balance(read[w]) /\ read[w] \in Nat
      BY <1>1, <2>1, <2>5 DEF ReadingsAccounted
    <3>2. ASSUME NEW f \in Nat, f = read[w] PROVE Balance(f)'
      BY <2>2, <2>3, <3>1, <3>2
    <3> QED
      BY <2>1, <3>1, <3>2 DEF Balance
  <2> QED
    BY <1>2, <2>1, <2>3, <2>4, <2>5 DEF ReadingsAccounted
<1>7. CASE CountDrop
  <2>1. /\ counters'["processed"] = counters["processed"] /\ counters'["failed"] = counters["failed"]
        /\ counters'["received"] = counters["received"]
        /\ counters'["dropped"] = counters["dropped"] + 1
        /\ queue' = queue /\ InHand' = InHand /\ Uncounted' = Uncounted
        /\ validation' = validation /\ stage' = stage /\ \A w \in Workers : stage[w] # "count"
        /\ callback.doing = "drop" /\ callback'.doing = "count" /\ callback'.read = counters["failed"]
    BY <1>1, <1>4, <1>5, <1>7 DEF CountDrop, MetricsUnlocked
  <2>2. Settled' = Settled /\ AtCallback' = AtCallback
    BY <2>1 DEF Settled, Scaled, AtCallback
  <2>3. Balance(counters["failed"])'
    BY <1>1, <2>1, <2>2 DEF ReadingsAccounted, Balance, Scaled
  <2> QED
    BY <1>1, <1>2, <2>1, <2>3 DEF ReadingsAccounted
<1>8. CASE CountFailedUnlocked
  <2>1. /\ counters'["processed"] = counters["processed"]
        /\ counters'["failed"] = callback.read + 1
        /\ counters'["received"] = counters["received"]
        /\ counters'["dropped"] = counters["dropped"]
        /\ queue' = queue /\ InHand' = InHand /\ Uncounted' = Uncounted
        /\ validation' = validation /\ stage' = stage /\ read' = read
        /\ callback.doing = "count" /\ callback'.doing = "wait"
    BY <1>1, <1>4, <1>5, <1>8 DEF CountFailedUnlocked, NothingRead
  <2>2. callback.read \in Nat /\ callback.read <= counters["failed"] /\ counters["dropped"] > 0
    BY <1>1, <2>1 DEF ReadingsAccounted
  <2>3. Settled' = Settled /\ AtCallback = 1 /\ AtCallback' = 0
    BY <2>1 DEF Settled, Scaled, AtCallback
  <2>4. ASSUME NEW f \in Nat, NEW g \in Nat, Balance(f), g <= f + 1
        PROVE  Settled' + g + Scaled(AtCallback)' <= Scaled(counters["received"])'
               /\ counters'["dropped"] # 0
    BY <1>1, <1>3, <2>1, <2>2, <2>3, <2>4 DEF Balance, Scaled
  <2>5. Balance(counters["failed"])'
    <3>1. Balance(counters["failed"]) /\ counters["failed"] \in Nat
      BY <1>1 DEF ReadingsAccounted
    <3> QED
      BY <2>1, <2>2, <2>4, <3>1 DEF Balance
  <2>6. ASSUME NEW w \in Workers, stage'[w] = "count" PROVE Balance(read[w])'
    <3>1. Balance(read[w]) /\ read[w] \in Nat /\ read[w] <= read[w] + 1
      BY <1>1, <2>1, <2>6 DEF ReadingsAccounted
    <3> QED
      BY <2>1, <2>4, <3>1 DEF Balance
  <2> QED
    BY <1>2, <2>1, <2>5, <2>6 DEF ReadingsAccounted
<1>9. ASSUME NEW w \in Workers, WorkerStep(w) PROVE ReadingsAccounted'
  <2>1. ASSUME UNCHANGED <<counters, callback, failures, read, validation>>,
               IsFiniteSet(InHand'),
               Len(queue') + Cardinality(InHand') = Len(queue) + Cardinality(InHand),
               \A v \in Workers : stage'[v] = "count" => stage[v] = "count"
        PROVE  ReadingsAccounted'
    <3>1. Settled' = Settled /\ AtCallback' = AtCallback /\ Uncounted' = Uncounted
      BY <1>5, <2>1 DEF Settled, Scaled, AtCallback
    <3>2. Balance(counters["failed"])'
      BY <2>1, <3>1 DEF ReadingsAccounted, Balance, Scaled
    <3>3. \A v \in Workers : stage'[v] = "count" => Balance(read[v])'
      BY <2>1, <3>1 DEF ReadingsAccounted, Balance, Scaled
    <3> QED
      BY <1>2, <2>1, <3>1, <3>2, <3>3 DEF ReadingsAccounted
  <2>2. CASE Take(w)
    <3>1. Head(queue) \in Readings /\ Len(queue') = Len(queue) - 1
      BY <1>1, <2>2, HeadTailProperties DEF Take
    <3>2. IsFiniteSet(InHand') /\ Cardinality(InHand') = Cardinality(InHand) + 1
      BY <1>2, <2>2, <3>1, InHandByOne DEF Take
    <3>3. Len(queue') + Cardinality(InHand') = Len(queue) + Cardinality(InHand)
      BY <1>1, <1>2, <3>1, <3>2
    <3> QED
      BY <2>1, <2>2, <3>2, <3>3 DEF Take
  <2>3. CASE StartBatch(w) \/ WorkerExits(w) \/ Store(w)
    <3>1. UNCHANGED <<counters, callback, failures, read, validation, queue, batch>>
      BY <2>3 DEF StartBatch, WorkerExits, Store
    <3>2. \A v \in Workers : stage'[v] = "count" => stage[v] = "count"
      BY <1>1, <2>3 DEF StartBatch, WorkerExits, Store
    <3> QED
      BY <1>2, <1>4, <2>1, <3>1, <3>2
  <2>4. CASE RejectUnreadable(w) \/ StoreFails(w) \/ StoreOnly(w) \/ PublishConfirmed(w)
    BY <2>4, FinishSettles DEF RejectUnreadable, StoreFails, StoreOnly, PublishConfirmed
  <2>5. CASE PublishFails(w)
    <3>1. CASE attempt[w] < PublishAttempts - 1
      <4>1. UNCHANGED <<counters, callback, failures, read, validation, queue, batch, stage>>
        BY <2>5, <3>1 DEF PublishFails
      <4> QED
        BY <1>2, <1>4, <2>1, <4>1
    <3>2. CASE ~(attempt[w] < PublishAttempts - 1)
      BY <2>5, <3>2, FinishSettles DEF PublishFails
    <3> QED
      BY <3>1, <3>2
  <2>6. CASE TallyRead(w) \/ TallyWrite(w)
    BY <2>6, TallyAccounts
  <2> QED
    BY <1>9, <2>2, <2>3, <2>4, <2>5, <2>6 DEF WorkerStep
<1>10. CASE Stop \/ StartAgain
  <2>1. UNCHANGED <<queue, callback, stage, batch, failures, read, counters, validation>>
    BY <1>10 DEF Stop, StartAgain
  <2> QED
    BY <1>4, <1>5, <2>1 DEF ReadingsAccounted, Balance, Settled, Scaled, AtCallback
<1>11. CASE CleanupEnds \/ Killed
  <2>1. /\ queue' = <<>> /\ callback' = NothingRead
        /\ batch' = [w \in Workers |-> <<>>] /\ counters' = [c \in Counters |-> 0]
        /\ failures' = [w \in Workers |-> 0] /\ stage' = [w \in Workers |-> "collect"]
        /\ validation' = validation
    BY <1>11 DEF CleanupEnds, Killed, ProcessEnds, FreshMemory
  <2>2. InHand' = {} /\ Len(queue') = 0
    BY <2>1, EmptySeq DEF InHand
  <2>3. Uncounted' = {}
    BY <2>1 DEF Uncounted
  <2>4. /\ IsFiniteSet(InHand') /\ Cardinality(InHand') = 0
        /\ IsFiniteSet(Uncounted') /\ Cardinality(Uncounted') = 0
    BY <2>2, <2>3, FS_EmptySet
  <2>5. /\ \A c \in Counters : counters'[c] = 0
        /\ AtCallback' = 0 /\ callback'.doing # "count"
    BY <1>1, <2>1 DEF AtCallback, NothingRead
  <2>6. Settled' = 0 /\ Scaled(AtCallback)' = 0 /\ Scaled(counters["received"])' = 0
    BY <1>1, <2>1, <2>2, <2>4, <2>5 DEF Settled, Scaled
  <2>7. Balance(counters["failed"])'
    BY <1>1, <2>5, <2>6 DEF Balance
  <2> QED
    BY <2>1, <2>4, <2>5, <2>7 DEF ReadingsAccounted
<1> QED
  BY <1>6, <1>7, <1>8, <1>9, <1>10, <1>11 DEF IngestNext

\* No reading is counted more often than its process counts one, and each is
\* accounted for, counted, queued or at hand, as long as none was dropped.
THEOREM CountersAccountHolds == PipelineSpec => []CountersAccount
<1> DEFINE Inv == TypeInv /\ ReadingsAccounted
<1>1. PipelineInit => Inv
  <2> SUFFICES ASSUME PipelineInit PROVE Inv
    OBVIOUS
  <2>1. /\ queue = <<>> /\ callback = NothingRead
        /\ batch = [w \in Workers |-> <<>>] /\ counters = [c \in Counters |-> 0]
        /\ failures = [w \in Workers |-> 0] /\ stage = [w \in Workers |-> "collect"]
    BY DEF PipelineInit, IngestInit, FreshMemory
  <2>2. InHand = {} /\ Len(queue) = 0 /\ Uncounted = {}
    BY <2>1, EmptySeq DEF InHand, Uncounted
  <2>3. /\ IsFiniteSet(InHand) /\ Cardinality(InHand) = 0
        /\ IsFiniteSet(Uncounted) /\ Cardinality(Uncounted) = 0
    BY <2>2, FS_EmptySet
  <2>4. ReadingsAccounted
    BY <2>1, <2>2, <2>3
       DEF ReadingsAccounted, Balance, Settled, Scaled, AtCallback, NothingRead, Counters
  <2> QED
    BY <2>4, TypeInit
<1>2. Inv /\ [PipelineNext]_pipelineVars => Inv'
  <2> SUFFICES ASSUME Inv, [PipelineNext]_pipelineVars PROVE ReadingsAccounted'
    BY TypeStep
  <2>1. CASE IngestNext
    BY <2>1, AccountsStep
  <2>2. CASE UNCHANGED ingestVars
    BY <2>2 DEF ingestVars, workVars, ReadingsAccounted, Balance, Settled, Scaled, AtCallback,
       InHand, Uncounted
  <2> QED
    BY <2>1, <2>2 DEF PipelineNext, pipelineVars
<1>3. Inv => CountersAccount
  <2> SUFFICES ASSUME Inv PROVE CountersAccount
    OBVIOUS
  <2>1. /\ counters \in [Counters -> Nat] /\ Len(queue) \in Nat /\ Cardinality(InHand) \in Nat
        /\ Cardinality(Uncounted) \in Nat /\ validation \in BOOLEAN
        /\ \A c \in Counters : counters[c] \in Nat
    BY LenProperties, FS_CardinalityType
       DEF TypeInv, PipelineTypeOK, IngestTypeOK, ReadingsAccounted
  <2>2. \A n \in Nat : Times * n = Scaled(n) /\ Scaled(n) \in Nat
    BY <2>1 DEF Times, Scaled
  <2> DEFINE backlog == Len(queue) + Cardinality(InHand)
             known == counters["processed"] + counters["failed"] + Owed
  <2>3. backlog \in Nat /\ counters["received"] \in Nat /\ counters["processed"] \in Nat
        /\ counters["failed"] \in Nat
    BY <2>1 DEF Counters
  <2>4. known = Settled + counters["failed"] /\ Settled \in Nat
    <3>1. Times * backlog = Scaled(backlog) /\ Scaled(backlog) \in Nat
      <4> HIDE DEF backlog
      <4> QED
        BY <2>2, <2>3
    <3>2. Settled = counters["processed"] + Cardinality(Uncounted) + Scaled(backlog)
      BY DEF Settled
    <3>3. known = counters["processed"] + counters["failed"]
                  + (Times * backlog + Cardinality(Uncounted))
      BY DEF Owed
    <3> HIDE DEF known, backlog
    <3> QED
      BY <2>1, <2>3, <3>1, <3>2, <3>3
  <2>5. Times * counters["received"] = Scaled(counters["received"])
        /\ Scaled(counters["received"]) \in Nat
    BY <2>2, <2>3
  <2>6. Scaled(AtCallback) \in Nat /\ (callback.doing = "wait" => Scaled(AtCallback) = 0)
    BY <2>1 DEF Scaled, AtCallback
  <2>7. Balance(counters["failed"])
    BY DEF ReadingsAccounted
  <2> HIDE DEF known
  <2>8. known <= Times * counters["received"]
        /\ (counters["dropped"] = 0 /\ callback.doing = "wait"
              => known = Times * counters["received"])
    BY <2>3, <2>4, <2>5, <2>6, <2>7 DEF Balance
  <2> QED
    BY <2>8 DEF CountersAccount, known
<1> QED
  BY <1>1, <1>2, <1>3, PTL DEF PipelineSpec

=============================================================================
