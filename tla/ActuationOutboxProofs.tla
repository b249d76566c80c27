------------------------ MODULE ActuationOutboxProofs ------------------------
(***************************************************************************)
(* Proofs about the outbox, for any sets of events and publishers and any  *)
(* limits: types, what a published or a waiting row means, and that final  *)
(* rows stay final.                                                        *)
(***************************************************************************)
EXTENDS ActuationOutbox, FiniteSetTheorems, TLAPS

\* Restarting a publisher leaves the publisher variables well typed.
LEMMA RestartType ==
    ASSUME OutboxTypeOK, NEW p \in Publishers, Restart(p)
    PROVE  /\ stage' \in [Publishers -> Stages]
           /\ batch' \in [Publishers -> SUBSET Events]
           /\ current' \in [Publishers -> Events \cup {NoEvent}]
           /\ lease' \in [Publishers -> Nat]
BY DEF OutboxTypeOK, Restart, Stages

\* Going on to the next event leaves the publisher variables well typed.
LEMMA NextEventType ==
    ASSUME OutboxTypeOK, NEW p \in Publishers, NextEvent(p)
    PROVE  /\ stage' \in [Publishers -> Stages]
           /\ current' \in [Publishers -> Events \cup {NoEvent}]
BY DEF OutboxTypeOK, NextEvent, Stages

\* Taking an event for stage s leaves the publisher variables well typed.
LEMMA TakeEventType ==
    ASSUME OutboxTypeOK, NEW p \in Publishers, NEW e \in Events, NEW s \in Stages,
           TakeEvent(p, e, s)
    PROVE  /\ stage' \in [Publishers -> Stages]
           /\ batch' \in [Publishers -> SUBSET Events]
           /\ current' \in [Publishers -> Events \cup {NoEvent}]
BY DEF OutboxTypeOK, TakeEvent

\* Every step of the outbox, publishers' deaths included, preserves the types.
LEMMA TypeStep ==
    ASSUME OutboxTypeOK, [OutboxNext]_outboxVars
    PROVE  OutboxTypeOK'
<1> USE OutboxAssumption
<1>1. ASSUME NEW e \in Events, Insert(e) PROVE OutboxTypeOK'
  BY <1>1 DEF OutboxTypeOK, Insert, publisherVars, RowStatuses
<1>2. ASSUME NEW p \in Publishers, Claim(p) PROVE OutboxTypeOK'
  <2>1. PICK S \in ClaimableBatches :
          /\ status' = [e \in Events |-> IF e \in S THEN "publishing" ELSE status[e]]
          /\ attempts' = [e \in Events |-> IF e \in S THEN attempts[e] + 1 ELSE attempts[e]]
          /\ timer' = [e \in Events |-> IF e \in S THEN LeaseTime ELSE timer[e]]
          /\ batch' = [batch EXCEPT ![p] = S]
    BY <1>2 DEF Claim
  <2>2. S \subseteq Events
    BY DEF ClaimableBatches, Claimable
  <2>3. /\ status' \in [Events -> RowStatuses]
        /\ attempts' \in [Events -> Nat]
        /\ timer' \in [Events -> Nat]
        /\ batch' \in [Publishers -> SUBSET Events]
    BY <2>1, <2>2 DEF OutboxTypeOK, RowStatuses
  <2>4. /\ stage' \in [Publishers -> Stages]
        /\ lease' \in [Publishers -> Nat]
        /\ UNCHANGED <<current, sent, crashes>>
    BY <1>2 DEF OutboxTypeOK, Claim, Stages
  <2> QED
    BY <2>3, <2>4 DEF OutboxTypeOK
<1>3. ASSUME NEW p \in Publishers, NEW e \in Events,
             PublishConfirmed(p, e) \/ ConfirmLost(p, e) \/ PublishRefused(p, e)
      PROVE  OutboxTypeOK'
  <2>1. PICK s \in {"mark", "settle"} : TakeEvent(p, e, s)
    BY <1>3 DEF PublishConfirmed, ConfirmLost, PublishRefused
  <2>2. /\ stage' \in [Publishers -> Stages]
        /\ batch' \in [Publishers -> SUBSET Events]
        /\ current' \in [Publishers -> Events \cup {NoEvent}]
    BY <2>1, TakeEventType DEF Stages
  <2>3. /\ UNCHANGED <<rowVars, lease, crashes>>
        /\ sent' \in [Events -> Nat]
    BY <1>3 DEF PublishConfirmed, ConfirmLost, PublishRefused, OutboxTypeOK
  <2> QED
    BY <2>2, <2>3 DEF OutboxTypeOK, rowVars
<1>4. ASSUME NEW p \in Publishers, MarkPublished(p) PROVE OutboxTypeOK'
  <2>1. /\ stage' \in [Publishers -> Stages]
        /\ current' \in [Publishers -> Events \cup {NoEvent}]
    BY <1>4, NextEventType DEF MarkPublished
  <2> QED
    BY <1>4, <2>1 DEF MarkPublished, RecordPublished, OutboxTypeOK, RowStatuses
<1>5. ASSUME NEW p \in Publishers, MarkPublishedErrs(p) PROVE OutboxTypeOK'
  BY <1>5 DEF MarkPublishedErrs, RecordPublished, OutboxTypeOK, RowStatuses, Stages
<1>6. ASSUME NEW p \in Publishers, RetryOrFail(p) PROVE OutboxTypeOK'
  <2>1. /\ stage' \in [Publishers -> Stages]
        /\ current' \in [Publishers -> Events \cup {NoEvent}]
    BY <1>6, NextEventType DEF RetryOrFail
  <2>2. status' \in [Events -> RowStatuses]
    BY <1>6 DEF RetryOrFail, OutboxTypeOK, RowStatuses
  <2>3. timer' \in [Events -> Nat]
    <3>1. PICK d \in {0} \cup RetryDelays : timer' = [timer EXCEPT ![current[p]] = d]
      BY <1>6 DEF RetryOrFail
    <3>2. d \in Nat
      BY DEF OutboxAssumption
    <3> QED
      BY <3>1, <3>2 DEF OutboxTypeOK
  <2> QED
    BY <1>6, <2>1, <2>2, <2>3 DEF RetryOrFail, OutboxTypeOK
<1>7. ASSUME NEW p \in Publishers, RowNotPublishing(p) PROVE OutboxTypeOK'
  BY <1>7, RestartType DEF RowNotPublishing, rowVars, OutboxTypeOK
<1>8. ASSUME NEW p \in Publishers, Crash(p) PROVE OutboxTypeOK'
  BY <1>8, RestartType DEF Crash, rowVars, OutboxTypeOK
<1>9. ASSUME Tick PROVE OutboxTypeOK'
  BY <1>9 DEF Tick, Elapsed, OutboxTypeOK
<1>10. CASE UNCHANGED outboxVars
  BY <1>10 DEF outboxVars, OutboxTypeOK
<1> QED
  BY <1>1, <1>2, <1>3, <1>4, <1>5, <1>6, <1>7, <1>8, <1>9, <1>10 DEF OutboxNext, PublisherStep

\* Rows, publishers and counters keep their types in every behaviour of the
\* outbox, for every number of events and publishers.
THEOREM OutboxTypeCorrect == OutboxSpec => []OutboxTypeOK
<1>1. OutboxInit => OutboxTypeOK
  BY DEF OutboxInit, OutboxTypeOK, RowStatuses, Stages
<1> QED
  BY <1>1, TypeStep, PTL DEF OutboxSpec

-----------------------------------------------------------------------------
(***************************************************************************)
(* Published rows were sent, and rows wait only while attempts are left.   *)
(***************************************************************************)

\* A publisher that has taken an event knows which, and one about to mark it
\* has seen the broker accept it.
TakenEvents ==
    \A p \in Publishers :
        /\ stage[p] \in {"mark", "settle"} => current[p] \in Events
        /\ stage[p] = "mark" => sent[current[p]] > 0

\* A row that does not exist has used no attempt.
AbsentUntried == \A e \in Events : status[e] = "absent" => attempts[e] = 0

\* The inductive invariant behind PublishedWasSent and RetryBudget.
OutboxInv ==
    /\ OutboxTypeOK
    /\ TakenEvents
    /\ AbsentUntried
    /\ PublishedWasSent
    /\ RetryBudget

\* mark_published records a publishing row, and no other, as published.
LEMMA RecordPublishedEffect ==
    ASSUME OutboxTypeOK, NEW e \in Events, RecordPublished(e), NEW x \in Events
    PROVE  \/ status'[x] = status[x]
           \/ x = e /\ status[x] = "publishing" /\ status'[x] = "published"
BY DEF OutboxTypeOK, RecordPublished

\* A step in which no publisher takes an event or leaves the state in which
\* it took one for "mark", and no copy disappears, keeps TakenEvents.
LEMMA TakenEventsKept ==
    ASSUME OutboxTypeOK, TakenEvents, UNCHANGED sent, NEW p \in Publishers,
           NextEvent(p) \/ Restart(p)
    PROVE  TakenEvents'
BY DEF OutboxTypeOK, TakenEvents, NextEvent, Restart, Stages

\* Every step preserves TakenEvents: an event is taken with its publication,
\* and marked only when that was confirmed.
LEMMA TakenEventsStep ==
    ASSUME OutboxTypeOK, TakenEvents, [OutboxNext]_outboxVars
    PROVE  TakenEvents'
<1>1. ASSUME NEW e \in Events, Insert(e) PROVE TakenEvents'
  BY <1>1 DEF TakenEvents, Insert, publisherVars
<1>2. ASSUME NEW p \in Publishers, Claim(p) PROVE TakenEvents'
  BY <1>2 DEF TakenEvents, Claim, OutboxTypeOK
<1>3. ASSUME NEW p \in Publishers, NEW e \in Events, PublishConfirmed(p, e)
      PROVE  TakenEvents'
  BY <1>3 DEF TakenEvents, PublishConfirmed, TakeEvent, OutboxTypeOK
<1>4. ASSUME NEW p \in Publishers, NEW e \in Events, ConfirmLost(p, e)
      PROVE  TakenEvents'
  BY <1>4 DEF TakenEvents, ConfirmLost, TakeEvent, OutboxTypeOK
<1>5. ASSUME NEW p \in Publishers, NEW e \in Events, PublishRefused(p, e)
      PROVE  TakenEvents'
  BY <1>5 DEF TakenEvents, PublishRefused, TakeEvent, OutboxTypeOK
<1>6. ASSUME NEW p \in Publishers, MarkPublished(p) \/ RetryOrFail(p) PROVE TakenEvents'
  BY <1>6, TakenEventsKept DEF MarkPublished, RetryOrFail
<1>7. ASSUME NEW p \in Publishers, MarkPublishedErrs(p) PROVE TakenEvents'
  BY <1>7 DEF TakenEvents, MarkPublishedErrs, OutboxTypeOK
<1>8. ASSUME NEW p \in Publishers, RowNotPublishing(p) \/ Crash(p) PROVE TakenEvents'
  BY <1>8, TakenEventsKept DEF RowNotPublishing, Crash
<1>9. ASSUME Tick PROVE TakenEvents'
  BY <1>9 DEF Tick, TakenEvents
<1>10. CASE UNCHANGED outboxVars
  BY <1>10 DEF outboxVars, TakenEvents
<1> QED
  BY <1>1, <1>2, <1>3, <1>4, <1>5, <1>6, <1>7, <1>8, <1>9, <1>10 DEF OutboxNext, PublisherStep

\* What a step may do to a row: it is inserted untried, claimed with one more
\* attempt while it is not final, recorded as published once the broker has
\* it, given up when its attempts are used and scheduled again when not, or
\* left as it is; and copies at the broker never disappear.
RowStep(x) ==
    /\ sent'[x] >= sent[x]
    /\ \/ /\ status'[x] = status[x]
          /\ attempts'[x] = attempts[x]
       \/ /\ status[x] = "absent" /\ status'[x] = "pending"
          /\ attempts'[x] = attempts[x]
       \/ /\ status[x] \in {"pending", "publishing"} /\ status'[x] = "publishing"
          /\ attempts'[x] = attempts[x] + 1
       \/ /\ status[x] = "publishing" /\ status'[x] = "published"
          /\ attempts'[x] = attempts[x]
          /\ sent[x] > 0
       \/ /\ status[x] = "publishing" /\ status'[x] = "failed"
          /\ attempts'[x] = attempts[x]
          /\ attempts[x] >= MaxAttempts
       \/ /\ status[x] = "publishing" /\ status'[x] = "pending"
          /\ attempts'[x] = attempts[x]
          /\ attempts[x] < MaxAttempts

\* Every step of the outbox treats every row that way.
LEMMA RowStepHolds ==
    ASSUME OutboxTypeOK, TakenEvents, [OutboxNext]_outboxVars, NEW x \in Events
    PROVE  RowStep(x)
<1> USE OutboxAssumption
<1>1. ASSUME NEW e \in Events, Insert(e) PROVE RowStep(x)
  BY <1>1 DEF OutboxTypeOK, Insert, RowStep
<1>2. ASSUME NEW p \in Publishers, Claim(p) PROVE RowStep(x)
  <2>1. PICK S \in ClaimableBatches :
          /\ status' = [e \in Events |-> IF e \in S THEN "publishing" ELSE status[e]]
          /\ attempts' = [e \in Events |-> IF e \in S THEN attempts[e] + 1 ELSE attempts[e]]
    BY <1>2 DEF Claim
  <2>2. x \in S => status[x] \in {"pending", "publishing"}
    BY DEF ClaimableBatches, Claimable
  <2>3. UNCHANGED sent
    BY <1>2 DEF Claim
  <2> QED
    BY <2>1, <2>2, <2>3 DEF OutboxTypeOK, RowStep
<1>3. ASSUME NEW p \in Publishers, NEW e \in Events,
             PublishConfirmed(p, e) \/ ConfirmLost(p, e) \/ PublishRefused(p, e)
      PROVE  RowStep(x)
  BY <1>3 DEF OutboxTypeOK, PublishConfirmed, ConfirmLost, PublishRefused, rowVars, RowStep
<1>4. ASSUME NEW p \in Publishers, MarkPublished(p) \/ MarkPublishedErrs(p) PROVE RowStep(x)
  <2>1. current[p] \in Events /\ sent[current[p]] > 0
    BY <1>4 DEF TakenEvents, MarkPublished, MarkPublishedErrs
  <2>2. RecordPublished(current[p]) \/ UNCHANGED status
    BY <1>4 DEF MarkPublished, MarkPublishedErrs
  <2>3. UNCHANGED <<attempts, sent>>
    BY <1>4 DEF MarkPublished, MarkPublishedErrs
  <2> QED
    BY <2>1, <2>2, <2>3, RecordPublishedEffect DEF OutboxTypeOK, RowStep
<1>5. ASSUME NEW p \in Publishers, RetryOrFail(p) PROVE RowStep(x)
  BY <1>5 DEF OutboxTypeOK, RetryOrFail, RowStep, OutboxAssumption
<1>6. ASSUME NEW p \in Publishers, RowNotPublishing(p) \/ Crash(p) PROVE RowStep(x)
  BY <1>6 DEF OutboxTypeOK, RowNotPublishing, Crash, rowVars, RowStep
<1>7. ASSUME Tick PROVE RowStep(x)
  BY <1>7 DEF OutboxTypeOK, Tick, RowStep
<1>8. CASE UNCHANGED outboxVars
  BY <1>8 DEF OutboxTypeOK, outboxVars, RowStep
<1> QED
  BY <1>1, <1>2, <1>3, <1>4, <1>5, <1>6, <1>7, <1>8 DEF OutboxNext, PublisherStep

\* The invariant holds at first.
LEMMA InvInit == OutboxInit => OutboxInv
BY OutboxAssumption DEF OutboxAssumption, OutboxInit, OutboxInv, OutboxTypeOK, RowStatuses,
   Stages, TakenEvents, AbsentUntried, PublishedWasSent, RetryBudget

\* The invariant is inductive: its row conjuncts follow from RowStep alone.
LEMMA InvStep ==
    ASSUME OutboxInv, [OutboxNext]_outboxVars
    PROVE  OutboxInv'
<1>1. OutboxTypeOK'
  BY TypeStep DEF OutboxInv
<1>2. TakenEvents'
  BY TakenEventsStep DEF OutboxInv
<1>3. \A x \in Events : RowStep(x)
  BY RowStepHolds DEF OutboxInv
<1>4. AbsentUntried'
  BY <1>3 DEF OutboxInv, AbsentUntried, RowStep
<1>5. PublishedWasSent'
  BY <1>1, <1>3 DEF OutboxInv, OutboxTypeOK, PublishedWasSent, RowStep
<1>6. RetryBudget'
  BY <1>1, <1>3, OutboxAssumption
     DEF OutboxInv, OutboxTypeOK, AbsentUntried, RetryBudget, RowStep, OutboxAssumption
<1> QED
  BY <1>1, <1>2, <1>4, <1>5, <1>6 DEF OutboxInv

\* The invariant holds in every behaviour of the outbox.
LEMMA InvHolds == OutboxSpec => []OutboxInv
BY InvInit, InvStep, PTL DEF OutboxSpec

\* A row is marked published only if the broker accepted the event, for any
\* number of publishers that take over each other's claims.
THEOREM PublishedWasSentHolds == OutboxSpec => []PublishedWasSent
<1>1. OutboxInv => PublishedWasSent
  BY DEF OutboxInv
<1> QED
  BY <1>1, InvHolds, PTL

\* A row waits only while it has an attempt left, and fails only when it has
\* none, for every limit.
THEOREM RetryBudgetHolds == OutboxSpec => []RetryBudget
<1>1. OutboxInv => RetryBudget
  BY DEF OutboxInv
<1> QED
  BY <1>1, InvHolds, PTL

\* No step moves a row that is published or failed: what a publisher writes
\* after its lease ran out is refused by the row's status.
THEOREM TerminalRowsFinalHolds == OutboxSpec => TerminalRowsFinal
<1> DEFINE Final == \A e \in Events :
                status[e] \in {"published", "failed"} =>
                    /\ status'[e] = status[e]
                    /\ attempts'[e] = attempts[e]
<1>1. OutboxInv /\ [OutboxNext]_outboxVars => [Final]_outboxVars
  <2> SUFFICES ASSUME OutboxInv, [OutboxNext]_outboxVars PROVE Final
    OBVIOUS
  <2>1. \A x \in Events : RowStep(x)
    BY RowStepHolds DEF OutboxInv
  <2> QED
    BY <2>1 DEF RowStep
<1> QED
  BY <1>1, InvHolds, PTL DEF OutboxSpec, TerminalRowsFinal

-----------------------------------------------------------------------------
(***************************************************************************)
(* Copies at the broker are paid for by counted attempts.                  *)
(***************************************************************************)

\* The publishers whose batch still holds e: attempts counted and not made.
Untried(e) == {p \in Publishers : e \in batch[p]}

\* Every counted attempt is a copy, a publication to come or neither: the
\* inductive form of CopiesAccounted.
AttemptsPaid == \A e \in Events : sent[e] + Cardinality(Untried(e)) <= attempts[e]

\* The publishers that hold an event are finitely many, as the publishers are.
LEMMA UntriedFinite ==
    ASSUME NEW e \in Events
    PROVE  /\ IsFiniteSet(Untried(e))
           /\ Cardinality(Untried(e)) \in Nat
BY FS_Subset, FS_CardinalityType, OutboxAssumption DEF Untried, OutboxAssumption

\* When the holders of e become a subset of what they were, with no copy or
\* attempt of e added, e stays paid for.
LEMMA PaidWhenHoldersShrink ==
    ASSUME OutboxTypeOK, AttemptsPaid, NEW e \in Events,
           Untried(e)' \subseteq Untried(e), sent'[e] = sent[e], attempts'[e] = attempts[e]
    PROVE  sent'[e] + Cardinality(Untried(e)') <= attempts'[e]
<1>1. /\ Cardinality(Untried(e)') <= Cardinality(Untried(e))
      /\ Cardinality(Untried(e)') \in Nat
  BY UntriedFinite, FS_Subset, FS_CardinalityType
<1> QED
  BY <1>1, UntriedFinite DEF AttemptsPaid, OutboxTypeOK

\* Every step keeps copies within attempts: a claim counts one before it adds
\* a holder, a publication turns a holder into at most one copy, and a death
\* only loses holders.
LEMMA AttemptsPaidStep ==
    ASSUME OutboxTypeOK, AttemptsPaid, [OutboxNext]_outboxVars
    PROVE  AttemptsPaid'
<1> SUFFICES ASSUME NEW x \in Events
             PROVE  sent'[x] + Cardinality(Untried(x)') <= attempts'[x]
  BY DEF AttemptsPaid
<1> DEFINE Goal == sent'[x] + Cardinality(Untried(x)') <= attempts'[x]
<1>1. ASSUME UNCHANGED <<batch, sent, attempts>> PROVE Goal
  <2>1. Untried(x)' \subseteq Untried(x)
    BY <1>1 DEF Untried
  <2> QED
    BY <1>1, <2>1, PaidWhenHoldersShrink
<1>2. ASSUME NEW p \in Publishers, Claim(p) PROVE Goal
  <2>1. PICK S \in ClaimableBatches :
          /\ attempts' = [e \in Events |-> IF e \in S THEN attempts[e] + 1 ELSE attempts[e]]
          /\ batch' = [batch EXCEPT ![p] = S]
    BY <1>2 DEF Claim
  <2>2. UNCHANGED sent
    BY <1>2 DEF Claim
  <2>3. CASE x \in S
    <3>1. Untried(x)' = Untried(x) \cup {p}
      BY <2>1, <2>3 DEF Untried, OutboxTypeOK
    <3>2. Cardinality(Untried(x)') <= Cardinality(Untried(x)) + 1 /\ Cardinality(Untried(x)') \in Nat
      BY <3>1, UntriedFinite, FS_AddElement, FS_CardinalityType
    <3>3. attempts'[x] = attempts[x] + 1
      BY <2>1, <2>3
    <3> QED
      BY <2>2, <3>2, <3>3, UntriedFinite DEF AttemptsPaid, OutboxTypeOK
  <2>4. CASE x \notin S
    <3>1. Untried(x)' \subseteq Untried(x)
      BY <2>1, <2>4 DEF Untried, OutboxTypeOK
    <3> QED
      BY <2>1, <2>2, <2>4, <3>1, PaidWhenHoldersShrink
  <2> QED
    BY <2>3, <2>4
<1>3. ASSUME NEW p \in Publishers, NEW e \in Events,
             PublishConfirmed(p, e) \/ ConfirmLost(p, e) \/ PublishRefused(p, e)
      PROVE  Goal
  <2>1. /\ e \in batch[p]
        /\ batch' = [batch EXCEPT ![p] = batch[p] \ {e}]
        /\ UNCHANGED attempts
        /\ sent' = [sent EXCEPT ![e] = sent[e] + 1] \/ UNCHANGED sent
    BY <1>3 DEF PublishConfirmed, ConfirmLost, PublishRefused, TakeEvent, rowVars
  <2>2. CASE x = e
    <3>1. p \in Untried(x) /\ Untried(x)' = Untried(x) \ {p}
      BY <2>1, <2>2 DEF Untried, OutboxTypeOK
    <3>2. Cardinality(Untried(x)') = Cardinality(Untried(x)) - 1
      BY <3>1, UntriedFinite, FS_RemoveElement
    <3>3. sent'[x] \in Nat /\ sent'[x] <= sent[x] + 1
      BY <2>1, <2>2 DEF OutboxTypeOK
    <3> QED
      BY <2>1, <3>2, <3>3, UntriedFinite DEF AttemptsPaid, OutboxTypeOK
  <2>3. CASE x # e
    <3>1. Untried(x)' \subseteq Untried(x)
      BY <2>1, <2>3 DEF Untried, OutboxTypeOK
    <3>2. sent'[x] = sent[x]
      BY <2>1, <2>3 DEF OutboxTypeOK
    <3> QED
      BY <2>1, <3>1, <3>2, PaidWhenHoldersShrink
  <2> QED
    BY <2>2, <2>3
<1>4. ASSUME NEW p \in Publishers, RowNotPublishing(p) \/ Crash(p) PROVE Goal
  <2>1. batch' = [batch EXCEPT ![p] = {}] /\ UNCHANGED <<attempts, sent>>
    BY <1>4 DEF RowNotPublishing, Crash, Restart, rowVars
  <2>2. Untried(x)' \subseteq Untried(x)
    BY <2>1 DEF Untried, OutboxTypeOK
  <2> QED
    BY <2>1, <2>2, PaidWhenHoldersShrink
<1>5. ASSUME NEW e \in Events, Insert(e) PROVE Goal
  BY <1>1, <1>5 DEF Insert, publisherVars
<1>6. ASSUME NEW p \in Publishers, MarkPublished(p) \/ MarkPublishedErrs(p) \/ RetryOrFail(p)
      PROVE  Goal
  BY <1>1, <1>6 DEF MarkPublished, MarkPublishedErrs, RetryOrFail
<1>7. ASSUME Tick PROVE Goal
  BY <1>1, <1>7 DEF Tick
<1>8. CASE UNCHANGED outboxVars
  BY <1>1, <1>8 DEF outboxVars
<1> QED
  BY <1>2, <1>3, <1>4, <1>5, <1>6, <1>7, <1>8 DEF OutboxNext, PublisherStep

\* The broker never holds more copies of an event than its row has counted
\* attempts, for any finite number of publishers.
THEOREM CopiesAccountedHolds == OutboxSpec => []CopiesAccounted
<1>1. OutboxInit => AttemptsPaid
  <2> SUFFICES ASSUME OutboxInit, NEW e \in Events
               PROVE  sent[e] + Cardinality(Untried(e)) <= attempts[e]
    BY DEF AttemptsPaid
  <2>1. Untried(e) = {}
    BY DEF OutboxInit, Untried
  <2> QED
    BY <2>1, FS_EmptySet DEF OutboxInit
<1>2. OutboxTypeOK /\ AttemptsPaid => CopiesAccounted
  BY UntriedFinite DEF AttemptsPaid, CopiesAccounted, OutboxTypeOK
<1> QED
  BY <1>1, <1>2, AttemptsPaidStep, OutboxTypeCorrect, PTL DEF OutboxSpec

=============================================================================
