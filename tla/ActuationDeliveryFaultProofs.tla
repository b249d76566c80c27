---------------------- MODULE ActuationDeliveryFaultProofs ----------------------
(***************************************************************************)
(* Proofs about what faults cost delivery, for any sets of recommendations *)
(* and dispatchers and any bounds: an effect of the adapter beyond the     *)
(* first is paid for by a failed statement; an intent is left alone half   *)
(* created only by a death or a failed statement; with one consumer, as    *)
(* deployed, a final failure escapes quarantine only with a fault.         *)
(*                                                                         *)
(* The kinds of steps of ActuationDeliveryProofs do not tell a fault from  *)
(* an ordinary step, so these proofs look at actions where it matters.     *)
(***************************************************************************)
EXTENDS ActuationDeliveryRefinement, FiniteSetTheorems

-----------------------------------------------------------------------------
(***************************************************************************)
(* Whose step it is, and which bound it uses.                              *)
(***************************************************************************)

Environment ==
    \/ \E r \in Recommendations, d \in Deadlines : PublishRecommendation(r, d)
    \/ \E r \in Recommendations : OutboxDelivers(r)
    \/ Tick

\* What w may do, of its own accord or by a fault.
ActionOf(w) ==
    \/ w \in Consumers /\ ConsumerStep(w)
    \/ w \in Dispatchers /\ DispatcherStep(w)
    \/ Fault(w)

LEMMA Actors == DeliveryNext => Environment \/ \E w \in Workers : ActionOf(w)
BY DEF DeliveryNext, Environment, ActionOf, Workers

\* The environment moves no worker and no row.
LEMMA EnvironmentRests == Environment => Resting
BY DEF Environment, PublishRecommendation, OutboxDelivers, Tick, Resting, RowsKept

\* An action of w is of one of the four kinds, and moves no other worker.
LEMMA ActionKind ==
    ASSUME TypeInv, NEW w \in Workers, ActionOf(w)
    PROVE  /\ Moving(w) \/ Committing(w) \/ Claiming(w) \/ AdapterAccepts(w)
           /\ \A v \in Workers \ {w} : worker'[v] = worker[v]
<1>1. WorkerStep(w) => Moving(w) \/ Committing(w) \/ Claiming(w) \/ AdapterAccepts(w)
  BY DecisionMoves, FailureMoves, SettlementMoves, TransitionCommits, ClaimKind
     DEF WorkerStep
<1>2. Fault(w) => Moving(w) \/ Committing(w)
  BY StatementFailsKind, SettlementMoves DEF Fault
<1>3. Moving(w) \/ Committing(w) \/ Claiming(w) \/ AdapterAccepts(w)
  BY <1>1, <1>2, SweepMoves, ReceiveMoves DEF ActionOf, ConsumerStep, DispatcherStep
<1>4. AdapterAccepts(w) => \E ws : BecomesWorker(w, ws)
  BY UpdatesAreBecoming DEF AdapterAccepts
<1>5. \E ws : BecomesWorker(w, ws)
  BY <1>3, <1>4 DEF Moving, Left, Committing, Claiming
<1> QED
  BY <1>3, <1>5, LocalStates

\* Using a bound counts one more of it and of nothing else.
LEMMA UseCounts ==
    ASSUME TypeInv, NEW b \in Bounds \cup Recommendations, NEW n, Use(b, n)
    PROVE  /\ used'[b] = used[b] + 1
           /\ used[b] < n
           /\ \A x \in (Bounds \cup Recommendations) \ {b} : used'[x] = used[x]
BY DEF Use, TypeInv, DeliveryTypeOK

\* Of its own accord a worker uses no bound.
LEMMA OrdinaryStepIsFree ==
    ASSUME NEW w, (w \in Consumers /\ ConsumerStep(w)) \/ (w \in Dispatchers /\ DispatcherStep(w))
    PROVE  UNCHANGED used
<1>1. WorkerStep(w) => UNCHANGED used
  BY DEF WorkerStep, StaleBinding, CreateIntent, ReuseIntent, CheckExpiry, Expire, Prepare,
         Reject, Claim, AdapterAccepts, AdapterFails, Acknowledge, ScheduleRetry, FailFinally,
         LostTransition, PublishDeadLetter, Ack, Nack, LocalStep
<1> QED
  BY <1>1 DEF ConsumerStep, DispatcherStep, Sweep, SweepNext, SweepFailed,
              ReceiveRecommendation, ReceiveDispatch, LocalStep

\* A fault counts itself.
LEMMA FaultCounts ==
    ASSUME TypeInv, NEW w \in Workers, Fault(w)
    PROVE  /\ StatementFails(w) => used'["dbFailures"] = used["dbFailures"] + 1
           /\ DeadLetterFails(w) \/ ChannelLost(w) => used'["losses"] = used["losses"] + 1
           /\ Crash(w) => used'["crashes"] = used["crashes"] + 1
BY UseCounts DEF StatementFails, DeadLetterFails, ChannelLost, Crash, Bounds

\* Nothing is given back: what is used of a bound only grows.
LEMMA UsedGrows ==
    ASSUME TypeInv, [DeliveryNext]_deliveryVars
    PROVE  \A b \in Bounds : used[b] \in Nat /\ used'[b] \in Nat /\ used'[b] >= used[b]
<1>1. used \in [Bounds \cup Recommendations -> Nat]
  BY DEF TypeInv, DeliveryTypeOK
<1>2. CASE UNCHANGED used
  BY <1>1, <1>2
<1>3. ASSUME NEW x \in Bounds \cup Recommendations, NEW n, Use(x, n)
      PROVE  \A b \in Bounds : used'[b] \in Nat /\ used'[b] >= used[b]
  BY <1>1, <1>3, UseCounts
<1>4. CASE Environment
  BY <1>1, <1>2, <1>3, <1>4
     DEF Environment, PublishRecommendation, OutboxDelivers, Tick, Bounds
<1>5. ASSUME NEW w \in Workers, Fault(w)
      PROVE  \A b \in Bounds : used'[b] \in Nat /\ used'[b] >= used[b]
  BY <1>3, <1>5 DEF Fault, StatementFails, DeadLetterFails, ChannelLost, Crash, Bounds
<1>6. ASSUME NEW w \in Workers, ActionOf(w)
      PROVE  \A b \in Bounds : used'[b] \in Nat /\ used'[b] >= used[b]
  BY <1>1, <1>2, <1>5, <1>6, OrdinaryStepIsFree DEF ActionOf
<1> QED
  BY <1>1, <1>2, <1>4, <1>6, Actors DEF deliveryVars

-----------------------------------------------------------------------------
(***************************************************************************)
(* Effects are paid for by failed statements.                              *)
(***************************************************************************)

\* Every attempt of r that took effect was cut off by a failed statement.
Paid(r) == Cardinality(effects[r]) <= used["dbFailures"]

\* Every effect is paid for but the one of an attempt that is not over: once
\* the intent may be claimed again, or its attempt fails, that one is as well.
EffectsPaid ==
    \A r \in Recommendations :
        /\ Cardinality(effects[r]) <= 1 + used["dbFailures"]
        /\ intent[r].status \in {"absent", "received", "ready_to_dispatch", "retry_pending"}
             => Paid(r)
        /\ intent[r].status = "dispatched" /\ intent[r].retries \notin effects[r] => Paid(r)
        /\ \A w \in Workers : At(w, "failure") /\ worker[w].rec = r => Paid(r)

\* The effects of an intent are finitely many: attempts are counted.
LEMMA EffectsFinite ==
    ASSUME TypeInv, AttemptsInv, NEW r \in Recommendations
    PROVE  IsFiniteSet(effects[r]) /\ Cardinality(effects[r]) \in Nat
<1> DEFINE n == intent[r].retries
<1>1. n \in Nat /\ effects[r] \in SUBSET (0 .. n)
  BY DEF TypeInv, DeliveryTypeOK, Row, AttemptsInv
<1>2. IsFiniteSet(0 .. n)
  BY <1>1, FS_Interval
<1>3. IsFiniteSet(effects[r])
  BY <1>1, <1>2, FS_Subset
<1> QED
  BY <1>3, FS_CardinalityType

\* From the acknowledgement a worker gets to the failure of its attempt only
\* when its statement fails: nobody takes the row of an owner.
LEMMA LostAnswerCounts ==
    ASSUME TypeInv, OwnerInv, DeliveryNext, NEW w \in Workers,
           At(w, "acknowledge"), worker'[w].step = "failure"
    PROVE  used'["dbFailures"] = used["dbFailures"] + 1
<1>1. worker[w] \in WorkerState /\ worker[w].rec \in Recommendations
  BY DEF TypeInv, DeliveryTypeOK, TypedWorker, At
<1>2. ~UNCHANGED worker
  BY DEF At
<1>3. ActionOf(w)
  BY <1>2, Actors, EnvironmentRests, ActionKind DEF Resting, At
<1>4. ~Decided(w) /\ worker' # [worker EXCEPT ![w] = Idle]
  <2>1. worker \in [Workers -> WorkerState]
    BY DEF TypeInv, DeliveryTypeOK
  <2>2. \A due, failed : Sweeping(due, failed).step # "failure" /\ Idle.step # "failure"
    BY DEF Sweeping, Idle
  <2>3. Goto(w, "ack") => worker'[w].step = "ack"
    BY <2>1 DEF Goto, WorkerState
  <2>4. ~Finish(w) /\ worker' # [worker EXCEPT ![w] = Idle]
    BY <2>1, <2>2 DEF Finish
  <2> QED
    BY <2>3, <2>4 DEF Decided
<1>5. ~LostTransition(w)
  BY DEF LostTransition, OwnerInv, InAttempt, Owns, At
<1>6. ~ChannelLost(w)
  BY <1>1 DEF ChannelLost, At, TypeInv, DeliveryTypeOK, WorkerState
<1>7. StatementFails(w)
  BY <1>3, <1>4, <1>5, <1>6
     DEF ActionOf, ConsumerStep, DispatcherStep, WorkerStep, Fault, At, Sweep, SweepNext,
         SweepFailed, ReceiveRecommendation, ReceiveDispatch, StaleBinding, CreateIntent,
         CommitCreate, ReuseIntent, CheckExpiry, Expire, CommitExpire, Prepare, CommitPrepare,
         Reject, CommitReject, Claim, CommitClaim, AdapterAccepts, AdapterFails, Acknowledge,
         ScheduleRetry, CommitRetry, FailFinally, CommitFailed, PublishDeadLetter, Ack, Nack,
         DeadLetterFails, Crash
<1> QED
  BY <1>7, FaultCounts DEF Fault

\* A worker that fails its attempt has paid for it: the adapter raised without
\* effect, or the answer of the acknowledgement was lost.
LEMMA FailureIsPaid ==
    ASSUME TypeInv, OwnerInv, AttemptsInv, EffectInv, EffectsPaid, DeliveryNext,
           NEW w \in Workers, worker'[w].step = "failure", StillOwner(w), UNCHANGED effects
    PROVE  Cardinality(effects[worker[w].rec]) <= used'["dbFailures"]
<1> DEFINE r == worker[w].rec
           n == Cardinality(effects[r])
<1>1. Owns(w) /\ r \in Recommendations
  BY DEF StillOwner, Owns, TypeInv, TypedWorker
<1>2. /\ n \in Nat
      /\ used["dbFailures"] \in Nat /\ used'["dbFailures"] \in Nat
      /\ used'["dbFailures"] >= used["dbFailures"]
  BY <1>1, EffectsFinite, UsedGrows DEF Bounds
<1>3. CASE At(w, "acknowledge")
  <2>1. used'["dbFailures"] = used["dbFailures"] + 1
    BY <1>3, LostAnswerCounts
  <2>2. n <= 1 + used["dbFailures"]
    BY <1>1 DEF EffectsPaid
  <2> QED
    BY <1>2, <2>1, <2>2
<1>4. CASE At(w, "deliver") \/ At(w, "failure")
  <2>1. n <= used["dbFailures"]
    BY <1>1, <1>4 DEF EffectsPaid, Paid, OwnerInv, InAttempt, EffectInv, Owns, At, RowOf
  <2> QED
    BY <1>2, <2>1
<1> QED
  BY <1>1, <1>3, <1>4 DEF Owns, At

LEMMA EffectsPaidStep ==
    ASSUME TypeInv, OwnerInv, AttemptsInv, EffectInv, EffectsPaid, [DeliveryNext]_deliveryVars
    PROVE  EffectsPaid'
<1> DEFINE before == used["dbFailures"]
           after == used'["dbFailures"]
<1>1. CASE UNCHANGED deliveryVars
  BY <1>1 DEF deliveryVars, EffectsPaid, Paid, At
<1>2. /\ before \in Nat /\ after \in Nat /\ after >= before
      /\ \A r \in Recommendations : Cardinality(effects[r]) \in Nat
  BY EffectsFinite, UsedGrows DEF Bounds
<1>3. CASE Resting
  BY <1>2, <1>3 DEF Resting, RowsKept, EffectsPaid, Paid, At
<1>4. ASSUME DeliveryNext, NEW w \in Workers, Moving(w) \/ Committing(w) PROVE EffectsPaid'
  <2>1. UNCHANGED effects
    BY <1>4 DEF Moving, RowsKept, Committing
  <2>2. \A v \in Workers : StillOwner(v)
    BY <1>4, NoNewOwner DEF Committing
  <2>3. ASSUME NEW v \in Workers, At(v, "failure")'
        PROVE  worker'[v].rec = worker[v].rec
    BY <2>2, <2>3 DEF StillOwner, Owns, At
  <2>4. ASSUME NEW v \in Workers, At(v, "failure")'
        PROVE  Cardinality(effects'[worker'[v].rec]) <= after
    BY <1>4, <2>1, <2>2, <2>3, <2>4, FailureIsPaid DEF At
  <2>5. ASSUME NEW r \in Recommendations
        PROVE  /\ Cardinality(effects'[r]) <= 1 + after
               /\ Paid(r) => Paid(r)'
    BY <1>2, <2>1 DEF EffectsPaid, Paid
  <2>6. ASSUME NEW r \in Recommendations, intent'[r] = intent[r]
        PROVE  /\ intent'[r].status \in {"absent", "received", "ready_to_dispatch", "retry_pending"}
                    => Paid(r)'
               /\ intent'[r].status = "dispatched" /\ intent'[r].retries \notin effects'[r]
                    => Paid(r)'
    BY <2>1, <2>5, <2>6 DEF EffectsPaid
  <2>7. CASE Moving(w)
    BY <2>4, <2>5, <2>6, <2>7 DEF Moving, RowsKept, EffectsPaid, Paid
  <2>8. CASE Committing(w)
    <3> DEFINE r == worker[w].rec
    <3>1. /\ r \in Recommendations
          /\ \A q \in Recommendations \ {r} : intent'[q] = intent[q]
          /\ Transition(w)
          /\ intent[r].retries \in Nat
      BY <2>8, CommitRow DEF Committing, TypeInv, DeliveryTypeOK, Row
    <3>2. intent'[r].status \in {"received", "ready_to_dispatch", "dispatched", "retry_pending"}
            => Paid(r)
      BY <3>1 DEF Transition, Moves, EffectsPaid, RowOf
    <3> QED
      BY <2>4, <2>5, <2>6, <3>1, <3>2 DEF EffectsPaid, Paid, Transition, Moves
  <2> QED
    BY <1>4, <2>7, <2>8
<1>5. ASSUME NEW w \in Workers, Claiming(w) PROVE EffectsPaid'
  <2> DEFINE r == worker[w].rec
  <2>1. /\ r \in Recommendations
        /\ \A q \in Recommendations \ {r} : intent'[q] = intent[q]
        /\ Moves(w, "claim", {"received", "ready_to_dispatch", "retry_pending"}, "dispatched", 1)
    <3>1. Commit(w) /\ At(w, "claim")
      BY <1>5 DEF Claiming, Commit, CommitClaim
    <3> QED
      BY <3>1, CommitRow DEF Transition, Moves, At
  <2>2. Paid(r)
    BY <2>1 DEF Moves, RowOf, EffectsPaid
  <2>3. UNCHANGED effects
    BY <1>5 DEF Claiming
  <2>4. ASSUME NEW q \in Recommendations
        PROVE  /\ Cardinality(effects'[q]) <= 1 + after
               /\ Paid(q) => Paid(q)'
    BY <1>2, <2>3 DEF EffectsPaid, Paid
  <2>5. ASSUME NEW v \in Workers, At(v, "failure")'
        PROVE  At(v, "failure") /\ worker'[v].rec = worker[v].rec
    <3>1. Claimant(w).step = "deliver"
      BY DEF Claimant, TypeInv, DeliveryTypeOK, WorkerState
    <3> QED
      BY <1>5, <2>5, <3>1, LocalStates DEF Claiming, At
  <2> QED
    BY <2>1, <2>2, <2>3, <2>4, <2>5 DEF EffectsPaid, Moves
<1>6. ASSUME NEW w \in Workers, AdapterAccepts(w) PROVE EffectsPaid'
  <2> DEFINE r == worker[w].rec
             ws == [worker[w] EXCEPT !.step = "acknowledge"]
  <2>1. r \in Recommendations /\ Owns(w) /\ UNCHANGED <<intent, used>>
    BY <1>6 DEF AdapterAccepts, At, Owns, TypeInv, TypedWorker
  <2>2. ws.step = "acknowledge"
    BY DEF TypeInv, DeliveryTypeOK, WorkerState
  <2>3. worker'[w] = ws /\ \A v \in Workers \ {w} : worker'[v] = worker[v]
    BY <1>6, UpdatesAreBecoming, LocalStates DEF AdapterAccepts
  <2> HIDE DEF ws
  <2>4. \A q \in Recommendations :
            effects'[q] = IF q = r THEN effects[r] \cup {worker[w].attempt} ELSE effects[q]
    BY <1>6 DEF AdapterAccepts, TypeInv, DeliveryTypeOK
  <2>5. /\ intent[r].status = "dispatched"
        /\ worker[w].attempt = intent[r].retries
        /\ worker[w].attempt \notin effects[r]
    BY <1>6, <2>1 DEF AdapterAccepts, OwnerInv, InAttempt, EffectInv, At, RowOf
  <2>6. Cardinality(effects[r]) <= before
    BY <2>1, <2>5 DEF EffectsPaid, Paid
  <2>7. Cardinality(effects'[r]) = Cardinality(effects[r]) + 1
    <3>1. IsFiniteSet(effects[r])
      BY <2>1, EffectsFinite
    <3>2. Cardinality(effects[r] \cup {worker[w].attempt}) = Cardinality(effects[r]) + 1
      BY <2>5, <3>1, FS_AddElement
    <3> QED
      BY <2>1, <2>4, <3>2
  <2>8. Cardinality(effects'[r]) <= 1 + after
    BY <1>2, <2>1, <2>6, <2>7
  <2>9. worker[w].attempt \in effects'[r]
    BY <2>1, <2>4
  <2>10. ASSUME NEW v \in Workers, At(v, "failure")'
         PROVE  v # w /\ At(v, "failure") /\ worker'[v].rec = worker[v].rec /\ worker[v].rec # r
    <3>1. v # w /\ worker'[v] = worker[v]
      BY <2>2, <2>3, <2>10 DEF At
    <3> QED
      BY <2>1, <2>10, <3>1 DEF OwnerInv, Owns, At
  <2>11. ASSUME NEW q \in Recommendations \ {r}
         PROVE  effects'[q] = effects[q]
    BY <2>4
  <2> QED
    BY <2>1, <2>5, <2>8, <2>9, <2>10, <2>11 DEF EffectsPaid, Paid
<1> QED
  BY <1>1, <1>3, <1>4, <1>5, <1>6, StepKinds

\* The adapter takes effect at most once for an intent, in every behaviour,
\* but for one more time per statement that failed: not duplicates, not
\* deaths and not the loss of channels make it act twice.
THEOREM EffectsBoundedHolds == DeliverySpec => []EffectsBounded
<1> DEFINE Inv == TypeInv /\ OwnerInv /\ AttemptsInv /\ EffectInv /\ EffectsPaid
<1>1. DeliveryInit => Inv
  <2>1. Cardinality({}) = 0
    BY FS_EmptySet
  <2> QED
    BY <2>1, TypeInit
       DEF DeliveryInit, OwnerInv, AttemptsInv, EffectInv, EffectsPaid, Paid, Owns, At, Idle,
           NoRow, Bounds
<1>2. Inv /\ [DeliveryNext]_deliveryVars => Inv'
  BY TypeStep, OwnerStep, AttemptsStep, EffectStep, EffectsPaidStep
<1>3. Inv => EffectsBounded
  BY DEF EffectsPaid, EffectsBounded
<1> QED
  BY <1>1, <1>2, <1>3, PTL DEF DeliverySpec

-----------------------------------------------------------------------------
(***************************************************************************)
(* A created intent stays in the hands of its creator.                     *)
(***************************************************************************)

\* w has created the intent of r and not yet prepared or expired it.
Holds(w, r) ==
    /\ worker[w].rec = r
    /\ worker[w].task = "fresh"
    /\ worker[w].step \in {"check", "expire", "prepare"}

\* Where the holder is: a bare "some worker has it" would not say that its
\* next steps take the row out of received.
ReceivedIsHeld ==
    used["crashes"] = 0 /\ used["dbFailures"] = 0 =>
        \A r \in Recommendations :
            intent[r].status = "received" => \E w \in Workers : Holds(w, r)

\* Without a death or a failed statement the holder keeps a received intent.
LEMMA HolderStays ==
    ASSUME TypeInv, DeliveryNext, NEW w \in Workers, NEW r \in Recommendations, Holds(w, r),
           intent[r].status = "received", intent'[r].status = "received",
           used'["crashes"] = used["crashes"], used'["dbFailures"] = used["dbFailures"]
    PROVE  Holds(w, r)'
<1>1. worker \in [Workers -> WorkerState] /\ worker[w] \in WorkerState
  BY DEF TypeInv, DeliveryTypeOK
<1>2. CASE \A v \in Workers \ {w} : ~ActionOf(v)
  <2>1. CASE Environment
    BY <2>1, EnvironmentRests DEF Resting, Holds
  <2>2. CASE ActionOf(w)
    <3>1. ~Commit(w)
      BY <1>1, CommitRow DEF Holds, Transition, Moves, At, RowOf
    <3>2. ~LostTransition(w)
      BY DEF LostTransition, Holds, At, RowOf, Unclaimed
    <3>3. ~StatementFails(w) /\ ~Crash(w)
      <4>1. used["crashes"] \in Nat /\ used["dbFailures"] \in Nat
        BY UsedGrows DEF Bounds
      <4> QED
        BY <4>1, FaultCounts DEF Fault
    <3>4. CheckExpiry(w) \/ ChannelLost(w)
      BY <2>2, <3>1, <3>2, <3>3
         DEF ActionOf, ConsumerStep, DispatcherStep, WorkerStep, Fault, At, Holds, Sweep,
             SweepNext, SweepFailed, ReceiveRecommendation, ReceiveDispatch, StaleBinding,
             CreateIntent, ReuseIntent, Expire, Prepare, Reject, Claim, AdapterAccepts,
             AdapterFails, Acknowledge, ScheduleRetry, FailFinally, PublishDeadLetter, Ack,
             Nack, DeadLetterFails, Commit
    <3>5. CASE CheckExpiry(w)
      <4>1. Goto(w, "expire") \/ Goto(w, "prepare")
        BY <3>5 DEF CheckExpiry, Holds
      <4> QED
        BY <1>1, <4>1 DEF Goto, Holds, WorkerState
    <3>6. CASE ChannelLost(w)
      BY <1>1, <3>6 DEF ChannelLost, Holds, WorkerState
    <3> QED
      BY <3>4, <3>5, <3>6
  <2> QED
    BY <1>2, <2>1, <2>2, Actors
<1>3. ASSUME NEW v \in Workers \ {w}, ActionOf(v) PROVE Holds(w, r)'
  BY <1>3, ActionKind DEF Holds
<1> QED
  BY <1>2, <1>3

\* Whoever creates an intent holds it.
LEMMA CreatorHolds ==
    ASSUME TypeInv, DeliveryNext, NEW r \in Recommendations,
           intent[r].status # "received", intent'[r].status = "received",
           used'["dbFailures"] = used["dbFailures"]
    PROVE  \E w \in Workers : Holds(w, r)'
<1>1. ~UNCHANGED intent
  OBVIOUS
<1>2. PICK w \in Workers : ActionOf(w)
  BY <1>1, Actors, EnvironmentRests DEF Resting, RowsKept
<1>3. Commit(w)
  BY <1>1, <1>2, ActionKind DEF Moving, RowsKept, Committing, Claiming, Commit, AdapterAccepts
<1>4. r = worker[w].rec /\ At(w, "lookup")
  BY <1>3, CommitRow DEF Transition, Moves, RowOf
<1>5. ~StatementFails(w)
  <2>1. used["dbFailures"] \in Nat
    BY UsedGrows DEF Bounds
  <2> QED
    BY <2>1, FaultCounts DEF Fault
<1>6. CreateIntent(w)
  BY <1>1, <1>2, <1>4, <1>5
     DEF ActionOf, ConsumerStep, DispatcherStep, WorkerStep, Fault, At, Sweep, SweepNext,
         SweepFailed, ReceiveRecommendation, ReceiveDispatch, StaleBinding, ReuseIntent,
         CheckExpiry, Expire, CommitExpire, Prepare, CommitPrepare, Reject, CommitReject,
         Claim, CommitClaim, AdapterAccepts, AdapterFails, Acknowledge, CommitAcknowledge,
         ScheduleRetry, CommitRetry, FailFinally, CommitFailed, LostTransition,
         PublishDeadLetter, Ack, Nack, DeadLetterFails, ChannelLost, Crash
<1>7. BecomesWorker(w, [worker[w] EXCEPT !.step = "check", !.task = "fresh"])
  BY <1>6, UpdatesAreBecoming DEF CreateIntent
<1>8. worker'[w] = [worker[w] EXCEPT !.step = "check", !.task = "fresh"]
  BY <1>7, LocalStates
<1>9. worker[w] \in WorkerState
  BY DEF TypeInv, DeliveryTypeOK
<1>10. Holds(w, r)'
  BY <1>4, <1>8, <1>9 DEF Holds, WorkerState
<1> QED
  BY <1>10

LEMMA ReceivedStep ==
    ASSUME TypeInv, ReceivedIsHeld, [DeliveryNext]_deliveryVars
    PROVE  ReceivedIsHeld'
<1>1. CASE UNCHANGED deliveryVars
  BY <1>1 DEF deliveryVars, ReceivedIsHeld, Holds
<1>2. CASE DeliveryNext
  <2> SUFFICES ASSUME used'["crashes"] = 0, used'["dbFailures"] = 0,
                      NEW r \in Recommendations, intent'[r].status = "received"
               PROVE  \E w \in Workers : Holds(w, r)'
    BY DEF ReceivedIsHeld, Holds
  <2>1. used["crashes"] = 0 /\ used["dbFailures"] = 0
    BY UsedGrows DEF Bounds
  <2>2. CASE intent[r].status = "received"
    <3>1. PICK w \in Workers : Holds(w, r)
      BY <2>1, <2>2 DEF ReceivedIsHeld
    <3> QED
      BY <1>2, <2>1, <2>2, <3>1, HolderStays
  <2>3. CASE intent[r].status # "received"
    BY <1>2, <2>1, <2>3, CreatorHolds
  <2> QED
    BY <2>2, <2>3
<1> QED
  BY <1>1, <1>2

\* In every behaviour an intent that was created and neither prepared nor
\* expired is in the hands of its creator, until a worker dies or a statement
\* fails: duplicates and lost channels leave none behind.
THEOREM ReceivedHasOwnerHolds == DeliverySpec => []ReceivedHasOwner
<1> DEFINE Inv == TypeInv /\ ReceivedIsHeld
<1>1. DeliveryInit => Inv
  BY TypeInit DEF DeliveryInit, ReceivedIsHeld, NoRow
<1>2. Inv /\ [DeliveryNext]_deliveryVars => Inv'
  BY TypeStep, ReceivedStep
<1>3. Inv => ReceivedHasOwner
  <2>1. TypeInv => used["crashes"] \in Nat /\ used["dbFailures"] \in Nat
    BY DEF TypeInv, DeliveryTypeOK, Bounds
  <2> QED
    BY <2>1 DEF ReceivedIsHeld, ReceivedHasOwner, Holds
<1> QED
  BY <1>1, <1>2, <1>3, PTL DEF DeliverySpec

-----------------------------------------------------------------------------
(***************************************************************************)
(* Where a worker's step takes the requests of a sweep and its outcomes.   *)
(***************************************************************************)

\* A worker in a sweep has its request from the sweep, others have nothing
\* left of one; only a fresh intent is prepared; a dispatch consumer works on
\* dispatch events alone.
Shape(w) ==
    /\ \/ At(w, "sweep")
       \/ worker[w].task = "retry" /\ ~At(w, "lookup")
       \/ worker[w].due \cup worker[w].failed = {}
    /\ At(w, "idle") => worker[w] = Idle
    /\ At(w, "prepare") => worker[w].task = "fresh"
    /\ w \in Dispatchers =>
        /\ ~At(w, "lookup")
        /\ worker[w].step \in {"check", "expire", "claim"} => worker[w].task = "dispatch"

Shapes == \A w \in Workers : Shape(w)

\* The request at hand is not claimed yet.
Claimable == {"check", "expire", "claim"}

\* w stays with its request, wherever it goes.
Goes(w) ==
    /\ worker'[w].rec = worker[w].rec
    /\ worker'[w].task = worker[w].task
    /\ worker'[w].due = worker[w].due
    /\ worker'[w].failed = worker[w].failed
    /\ \/ worker'[w].step = worker[w].step /\ UNCHANGED intent
       \/ /\ worker[w].step \notin {"idle", "sweep"}
          /\ worker'[w].step \notin {"idle", "sweep", "lookup", "check"}
          /\ worker'[w].step \in Claimable => At(w, "check") /\ UNCHANGED intent
          /\ worker'[w].step = "prepare" => worker[w].task = "fresh"

\* w goes on with its sweep, or to its next message.
Retires(w) == worker'[w] = Sweeping(worker[w].due, worker[w].failed)

\* w takes a message.
Begins(w) ==
    /\ At(w, "idle")
    /\ worker'[w].due = {} /\ worker'[w].failed = {}
    /\ \/ w \in Consumers /\ worker'[w].step = "lookup" /\ worker'[w].task = "none"
       \/ w \in Dispatchers /\ worker'[w].step = "check" /\ worker'[w].task = "dispatch"

\* The lookup leads w to dispatch: a new intent, or one whose retry is due.
Resolves(w) ==
    /\ At(w, "lookup")
    /\ worker'[w].step = "check"
    /\ worker'[w].task \in {"fresh", "duplicate"}
    /\ worker'[w].due = worker[w].due
    /\ worker'[w].failed = worker[w].failed

\* w starts a sweep of due retries.
Sweeps(w) ==
    /\ At(w, "idle")
    /\ UNCHANGED intent
    /\ \E due \in SUBSET Recommendations :
        /\ \A r \in due : intent[r].status = "retry_pending"
        /\ worker'[w] = Sweeping(due, {})

\* w takes the next retry of its sweep.
TakesDue(w) ==
    /\ w \in Consumers /\ At(w, "sweep")
    /\ UNCHANGED intent
    /\ worker'[w].rec \in worker[w].due
    /\ worker'[w].step = "check" /\ worker'[w].task = "retry"
    /\ worker'[w].due = worker[w].due \ {worker'[w].rec}
    /\ worker'[w].failed = worker[w].failed

\* The sweep is over, and w takes one of its outcomes.
TakesFailed(w) ==
    /\ At(w, "sweep")
    /\ worker'[w].rec \in worker[w].failed
    /\ worker'[w].step = "deadletter" /\ worker'[w].task = "retry"
    /\ worker'[w].due = worker[w].due
    /\ worker'[w].failed = worker[w].failed \ {worker'[w].rec}

\* A retry failed for good: its outcome waits for the end of the sweep.
Withholds(w) ==
    worker'[w] = Sweeping(worker[w].due, worker[w].failed \cup {worker[w].rec})

\* w dies of another worker's transition, in a sweep, or by a fault.
Abandons(w) ==
    /\ worker'[w] = Idle
    /\ \/ Crash(w)
       \/ /\ worker[w].task = "retry"
          /\ \/ (At(w, "expire") \/ At(w, "prepare")) /\ RowOf(w).status # Unclaimed(w)
             \/ At(w, "failure") /\ RowOf(w).status # "dispatched"

Course(w) ==
    \/ Goes(w) \/ Retires(w) \/ Begins(w) \/ Resolves(w) \/ Sweeps(w)
    \/ TakesDue(w) \/ TakesFailed(w) \/ Withholds(w) \/ Abandons(w)

LEMMA SweepingFields ==
    ASSUME NEW due, NEW failed
    PROVE  /\ Sweeping(due, failed).due = due
           /\ Sweeping(due, failed).failed = failed
           /\ Sweeping(due, failed).task = "none"
           /\ Sweeping(due, failed).step \in {"idle", "sweep"}
           /\ Sweeping(due, failed).step = "idle" => Sweeping(due, failed) = Idle
<1>1. CASE due \cup failed = {}
  BY <1>1 DEF Sweeping, Idle
<1>2. CASE due \cup failed # {}
  BY <1>2 DEF Sweeping, Idle
<1> QED
  BY <1>1, <1>2

\* The local state of w after an update of all of it, or of its step.
LEMMA UpdatedWorker ==
    ASSUME TypeInv, NEW w \in Workers, NEW s, NEW ws
    PROVE  /\ worker' = [worker EXCEPT ![w] = ws] => worker'[w] = ws
           /\ Goto(w, s) => worker'[w] = [worker[w] EXCEPT !.step = s]
           /\ Finish(w) => Retires(w)
BY DEF TypeInv, DeliveryTypeOK, WorkerState, Goto, Finish, Retires

LEMMA GoesOn ==
    ASSUME TypeInv, NEW w \in Workers, worker[w].step \notin {"idle", "sweep"},
           NEW s \in {"deliver", "acknowledge", "failure", "deadletter", "ack", "nack"}, NEW x
    PROVE  /\ Goto(w, s) => Goes(w)
           /\ worker' = [worker EXCEPT ![w].step = s, ![w].retryable = x] => Goes(w)
           /\ worker' = [worker EXCEPT ![w].step = s, ![w].attempt = x] => Goes(w)
<1>1. worker[w] \in WorkerState
  BY DEF TypeInv, DeliveryTypeOK
<1>2. CASE Goto(w, s)
  <2>1. worker'[w] = [worker[w] EXCEPT !.step = s]
    BY <1>2, UpdatedWorker
  <2> QED
    BY <1>1, <2>1 DEF Goes, WorkerState, Claimable
<1>3. CASE worker' = [worker EXCEPT ![w].step = s, ![w].retryable = x]
  <2>1. BecomesWorker(w, [worker[w] EXCEPT !.step = s, !.retryable = x])
    BY <1>3, UpdatesAreBecoming
  <2>2. worker'[w] = [worker[w] EXCEPT !.step = s, !.retryable = x]
    BY <2>1, LocalStates
  <2> QED
    BY <1>1, <2>2 DEF Goes, WorkerState, Claimable
<1>4. CASE worker' = [worker EXCEPT ![w].step = s, ![w].attempt = x]
  <2>1. BecomesWorker(w, [worker[w] EXCEPT !.step = s, !.attempt = x])
    BY <1>4, UpdatesAreBecoming
  <2>2. worker'[w] = [worker[w] EXCEPT !.step = s, !.attempt = x]
    BY <2>1, LocalStates
  <2> QED
    BY <1>1, <2>2 DEF Goes, WorkerState, Claimable
<1> QED
  BY <1>2, <1>3, <1>4

LEMMA DecidedCourse ==
    ASSUME TypeInv, NEW w \in Workers, worker[w].step \notin {"idle", "sweep"}, Decided(w)
    PROVE  Goes(w) \/ Retires(w)
BY UpdatedWorker, GoesOn DEF Decided

\* What w does of its own accord with the request at hand.
LEMMA WorkerCourse ==
    ASSUME TypeInv, NEW w \in Workers, WorkerStep(w)
    PROVE  Course(w)
<1>1. worker[w] \in WorkerState
  BY DEF TypeInv, DeliveryTypeOK
<1>2. CASE StaleBinding(w) \/ Prepare(w) \/ Reject(w) \/ AdapterAccepts(w)
  BY <1>2, GoesOn
     DEF StaleBinding, Prepare, CommitPrepare, Reject, CommitReject, AdapterAccepts, At, Course
<1>3. CASE CreateIntent(w) \/ ReuseIntent(w)
  <2>1. At(w, "lookup")
    BY <1>3 DEF CreateIntent, CommitCreate, ReuseIntent
  <2>2. CASE Goto(w, "ack")
    BY <2>1, <2>2, GoesOn DEF At, Course
  <2>3. ASSUME NEW x \in {"fresh", "duplicate"},
               worker' = [worker EXCEPT ![w].step = "check", ![w].task = x]
        PROVE  Course(w)
    <3>1. BecomesWorker(w, [worker[w] EXCEPT !.step = "check", !.task = x])
      BY <2>3, UpdatesAreBecoming
    <3>2. worker'[w] = [worker[w] EXCEPT !.step = "check", !.task = x]
      BY <3>1, LocalStates
    <3> QED
      BY <1>1, <2>1, <3>2 DEF Resolves, Course, WorkerState
  <2> QED
    BY <1>3, <2>2, <2>3 DEF CreateIntent, ReuseIntent
<1>4. CASE CheckExpiry(w)
  <2>1. ASSUME NEW s \in {"expire", "prepare", "claim"}, Goto(w, s),
               s = "prepare" => worker[w].task = "fresh"
        PROVE  Course(w)
    <3>1. worker'[w] = [worker[w] EXCEPT !.step = s]
      BY <2>1, UpdatedWorker
    <3> QED
      BY <1>1, <1>4, <2>1, <3>1 DEF CheckExpiry, Goes, Course, WorkerState, At
  <2> QED
    BY <1>4, <2>1 DEF CheckExpiry
<1>5. CASE Expire(w) \/ Acknowledge(w) \/ ScheduleRetry(w) \/ PublishDeadLetter(w)
  BY <1>5, DecidedCourse
     DEF Expire, CommitExpire, Acknowledge, CommitAcknowledge, ScheduleRetry, CommitRetry,
         PublishDeadLetter, At, Course
<1>6. CASE Claim(w)
  BY <1>6, GoesOn DEF Claim, CommitClaim, At, Course
<1>7. CASE AdapterFails(w)
  <2>1. PICK x \in BOOLEAN :
            worker' = [worker EXCEPT ![w].step = "failure", ![w].retryable = x]
    BY <1>7 DEF AdapterFails
  <2>2. worker[w].step \notin {"idle", "sweep"}
    BY <1>7 DEF AdapterFails, At
  <2> QED
    BY <2>1, <2>2, GoesOn DEF Course
<1>8. CASE FailFinally(w)
  <2>1. At(w, "failure")
    BY <1>8 DEF FailFinally, CommitFailed
  <2>2. CASE worker[w].task = "retry"
    <3>1. worker' = [worker EXCEPT ![w] = Sweeping(@.due, @.failed \cup {@.rec})]
      BY <1>8, <2>2 DEF FailFinally
    <3>2. Withholds(w)
      BY <3>1 DEF Withholds, TypeInv, DeliveryTypeOK
    <3> QED
      BY <3>2 DEF Course
  <2>3. CASE worker[w].task # "retry"
    BY <1>8, <2>1, <2>3, GoesOn DEF FailFinally, At, Course
  <2> QED
    BY <2>2, <2>3
<1>9. CASE LostTransition(w)
  <2>1. worker[w].step \notin {"idle", "sweep"}
    BY <1>9 DEF LostTransition, At
  <2>2. CASE At(w, "claim")
    <3>1. Decided(w)
      BY <1>9, <2>2 DEF LostTransition, At
    <3> QED
      BY <2>1, <3>1, DecidedCourse DEF Course
  <2>3. CASE At(w, "acknowledge")
    <3>1. worker' = [worker EXCEPT ![w].step = "failure", ![w].retryable = FALSE]
      BY <1>9, <2>3 DEF LostTransition, At
    <3> QED
      BY <2>1, <3>1, GoesOn DEF Course
  <2>4. CASE ~At(w, "claim") /\ ~At(w, "acknowledge") /\ worker[w].task # "retry"
    <3>1. Goto(w, "nack")
      BY <1>9, <2>4 DEF LostTransition
    <3> QED
      BY <2>1, <3>1, GoesOn DEF Course
  <2>5. CASE ~At(w, "claim") /\ ~At(w, "acknowledge") /\ worker[w].task = "retry"
    <3>1. worker' = [worker EXCEPT ![w] = Idle]
      BY <1>9, <2>5 DEF LostTransition
    <3>2. worker'[w] = Idle
      BY <3>1, UpdatedWorker
    <3>3. \/ (At(w, "expire") \/ At(w, "prepare")) /\ RowOf(w).status # Unclaimed(w)
          \/ At(w, "failure") /\ RowOf(w).status # "dispatched"
      BY <1>9, <2>5 DEF LostTransition, At
    <3> QED
      BY <2>5, <3>2, <3>3 DEF Abandons, Course
  <2> QED
    BY <2>2, <2>3, <2>4, <2>5
<1>10. CASE Ack(w) \/ Nack(w)
  BY <1>10, UpdatedWorker DEF Ack, Nack, Course
<1> QED
  BY <1>2, <1>3, <1>4, <1>5, <1>6, <1>7, <1>8, <1>9, <1>10 DEF WorkerStep

\* A sweep, and the messages that interrupt no sweep.
LEMMA ConsumerCourse ==
    ASSUME TypeInv, NEW w \in Consumers, ConsumerStep(w)
    PROVE  Course(w)
<1>1. /\ worker[w] \in WorkerState /\ worker \in [Workers -> WorkerState] /\ w \in Workers
      /\ intent \in [Recommendations -> Row]
  BY DEF TypeInv, DeliveryTypeOK, Workers
<1>2. CASE Sweep(w)
  <2> DEFINE due == {r \in Recommendations : IsDue(r)}
  <2>1. worker' = [worker EXCEPT ![w] = Sweeping(due, {})] /\ At(w, "idle") /\ UNCHANGED intent
    BY <1>2 DEF Sweep
  <2>2. worker'[w] = Sweeping(due, {})
    BY <1>1, <2>1
  <2>3. due \in SUBSET Recommendations /\ \A r \in due : intent[r].status = "retry_pending"
    BY DEF IsDue
  <2> QED
    BY <2>1, <2>2, <2>3 DEF Sweeps, Course
<1>3. CASE SweepNext(w)
  <2>1. PICK r \in worker[w].due :
            worker' = [worker EXCEPT ![w] =
                [worker[w] EXCEPT !.step = "check", !.task = "retry", !.rec = r,
                                  !.deadline = intent[r].expires, !.due = @ \ {r}]]
    BY <1>3 DEF SweepNext
  <2>2. worker'[w] = [worker[w] EXCEPT !.step = "check", !.task = "retry", !.rec = r,
                                       !.deadline = intent[r].expires, !.due = @ \ {r}]
    BY <1>1, <2>1
  <2>3. TakesDue(w)
    BY <1>1, <1>3, <2>2 DEF SweepNext, TakesDue, WorkerState
  <2> QED
    BY <2>3 DEF Course
<1>4. CASE SweepFailed(w)
  <2>1. PICK r \in worker[w].failed :
            worker' = [worker EXCEPT ![w] =
                [worker[w] EXCEPT !.step = "deadletter", !.task = "retry", !.rec = r,
                                  !.failed = @ \ {r}]]
    BY <1>4 DEF SweepFailed
  <2>2. worker'[w] = [worker[w] EXCEPT !.step = "deadletter", !.task = "retry", !.rec = r,
                                       !.failed = @ \ {r}]
    BY <1>1, <2>1
  <2>3. TakesFailed(w)
    BY <1>1, <1>4, <2>2 DEF SweepFailed, TakesFailed, WorkerState
  <2> QED
    BY <2>3 DEF Course
<1>5. ASSUME NEW r \in Recommendations, NEW d \in Deadlines, ReceiveRecommendation(w, r, d)
      PROVE  Course(w)
  <2>1. worker'[w] = [Idle EXCEPT !.step = "lookup", !.rec = r, !.deadline = d,
                                  !.inflight = TRUE]
    BY <1>1, <1>5 DEF ReceiveRecommendation
  <2> QED
    BY <1>5, <2>1 DEF ReceiveRecommendation, Begins, Course, Idle
<1> QED
  BY <1>1, <1>2, <1>3, <1>4, <1>5, WorkerCourse DEF ConsumerStep

LEMMA DispatcherCourse ==
    ASSUME TypeInv, NEW w \in Dispatchers, DispatcherStep(w)
    PROVE  Course(w)
<1>1. worker \in [Workers -> WorkerState] /\ w \in Workers
  BY DEF TypeInv, DeliveryTypeOK, Workers
<1>2. ASSUME NEW r \in Recommendations, ReceiveDispatch(w, r)
      PROVE  Course(w)
  <2>1. worker'[w] = [Idle EXCEPT !.step = "check", !.rec = r, !.deadline = intent[r].expires,
                                  !.task = "dispatch", !.inflight = TRUE]
    BY <1>1, <1>2 DEF ReceiveDispatch
  <2>2. /\ worker'[w].due = {} /\ worker'[w].failed = {}
        /\ worker'[w].step = "check" /\ worker'[w].task = "dispatch"
    BY <2>1 DEF Idle
  <2> QED
    BY <1>2, <2>2 DEF ReceiveDispatch, Begins, Course
<1> QED
  BY <1>1, <1>2, WorkerCourse DEF DispatcherStep

LEMMA FaultCourse ==
    ASSUME TypeInv, NEW w \in Workers, Fault(w)
    PROVE  Course(w)
<1>1. worker[w] \in WorkerState
  BY DEF TypeInv, DeliveryTypeOK
<1>2. CASE StatementFails(w)
  <2>1. worker[w].step \notin {"idle", "sweep"}
    BY <1>2 DEF StatementFails, At
  <2>2. CASE At(w, "acknowledge")
    BY <1>2, <2>1, <2>2, GoesOn DEF StatementFails, Course
  <2>3. CASE ~At(w, "acknowledge")
    <3>1. Finish(w) \/ Goto(w, "nack")
      BY <1>2, <2>3 DEF StatementFails
    <3> QED
      BY <2>1, <3>1, UpdatedWorker, GoesOn DEF Course
  <2> QED
    BY <2>2, <2>3
<1>3. CASE DeadLetterFails(w)
  BY <1>3, UpdatedWorker DEF DeadLetterFails, Course
<1>4. CASE ChannelLost(w)
  <2>1. BecomesWorker(w, [worker[w] EXCEPT !.inflight = FALSE])
    BY <1>4, UpdatesAreBecoming DEF ChannelLost
  <2>2. worker'[w] = [worker[w] EXCEPT !.inflight = FALSE]
    BY <2>1, LocalStates
  <2> QED
    BY <1>1, <1>4, <2>2 DEF ChannelLost, Goes, Course, WorkerState
<1>5. CASE Crash(w)
  BY <1>5, UpdatedWorker DEF Crash, Abandons, Course
<1> QED
  BY <1>2, <1>3, <1>4, <1>5 DEF Fault

\* Every action of w is one of these courses.
LEMMA ActionCourse ==
    ASSUME TypeInv, NEW w \in Workers, ActionOf(w)
    PROVE  Course(w)
BY ConsumerCourse, DispatcherCourse, FaultCourse DEF ActionOf

\* An idle worker only takes a message or starts a sweep.
LEMMA IdleActs ==
    ASSUME TypeInv, Shapes, NEW w \in Workers, At(w, "idle"), ActionOf(w)
    PROVE  worker'[w].step # "idle"
<1>1. ~worker[w].inflight
  BY DEF Shapes, Shape, Idle
<1>2. \/ Sweep(w)
      \/ \E r \in Recommendations, d \in Deadlines : ReceiveRecommendation(w, r, d)
      \/ \E r \in Recommendations : ReceiveDispatch(w, r)
  BY <1>1
     DEF At, ActionOf, ConsumerStep, DispatcherStep, WorkerStep, Fault, SweepNext, SweepFailed,
         StaleBinding, CreateIntent, CommitCreate, ReuseIntent, CheckExpiry, Expire,
         CommitExpire, Prepare, CommitPrepare, Reject, CommitReject, Claim, CommitClaim,
         AdapterAccepts, AdapterFails, Acknowledge, CommitAcknowledge, ScheduleRetry,
         CommitRetry, FailFinally, CommitFailed, LostTransition, PublishDeadLetter, Ack, Nack,
         StatementFails, DeadLetterFails, ChannelLost, Crash
<1>3. CASE Sweep(w)
  <2>1. PICK due : due # {} /\ worker' = [worker EXCEPT ![w] = Sweeping(due, {})]
    BY <1>3 DEF Sweep
  <2>2. worker'[w] = Sweeping(due, {})
    BY <2>1, UpdatedWorker
  <2>3. Sweeping(due, {}).step = "sweep"
    BY <2>1 DEF Sweeping, Idle
  <2> QED
    BY <2>2, <2>3
<1>4. CASE \E r \in Recommendations, d \in Deadlines : ReceiveRecommendation(w, r, d)
  <2>1. PICK r, d : worker' = [worker EXCEPT ![w] =
            [Idle EXCEPT !.step = "lookup", !.rec = r, !.deadline = d, !.inflight = TRUE]]
    BY <1>4 DEF ReceiveRecommendation
  <2> QED
    BY <2>1 DEF Idle, TypeInv, DeliveryTypeOK
<1>5. CASE \E r \in Recommendations : ReceiveDispatch(w, r)
  <2>1. PICK r, d : worker' = [worker EXCEPT ![w] =
            [Idle EXCEPT !.step = "check", !.rec = r, !.deadline = d,
                         !.task = "dispatch", !.inflight = TRUE]]
    BY <1>5 DEF ReceiveDispatch
  <2> QED
    BY <2>1 DEF Idle, TypeInv, DeliveryTypeOK
<1> QED
  BY <1>2, <1>3, <1>4, <1>5

LEMMA ShapeStep ==
    ASSUME TypeInv, Shapes, [DeliveryNext]_deliveryVars
    PROVE  Shapes'
<1>1. CASE UNCHANGED worker
  BY <1>1 DEF Shapes, Shape, At
<1>2. ASSUME NEW w \in Workers, ActionOf(w) PROVE Shapes'
  <2>1. ASSUME NEW v \in Workers \ {w} PROVE Shape(v)'
    BY <1>2, <2>1, ActionKind DEF Shapes, Shape, At
  <2>2. Shape(w)
    BY DEF Shapes
  <2>3. ASSUME Goes(w) PROVE Shape(w)'
    <3>1. CASE worker'[w].step = worker[w].step
      <4>1. CASE ~At(w, "idle")
        BY <2>2, <2>3, <3>1, <4>1 DEF Goes, Shape, At
      <4>2. CASE At(w, "idle")
        BY <1>2, <2>2, <2>3, <3>1, <4>2, IdleActs DEF At
      <4> QED
        BY <4>1, <4>2
    <3>2. CASE worker'[w].step # worker[w].step
      BY <2>2, <2>3, <3>2 DEF Goes, Shape, At, Claimable
    <3> QED
      BY <3>1, <3>2
  <2>4. ASSUME NEW due, NEW failed, worker'[w] = Sweeping(due, failed) PROVE Shape(w)'
    <3>1. /\ worker'[w].due = due /\ worker'[w].failed = failed
          /\ worker'[w].step \in {"idle", "sweep"}
          /\ worker'[w].step = "idle" => worker'[w] = Idle
      BY <2>4, SweepingFields
    <3> QED
      BY <3>1 DEF Shape, At, Idle
  <2>5. ASSUME Retires(w) \/ Sweeps(w) \/ Withholds(w) PROVE Shape(w)'
    BY <2>4, <2>5 DEF Retires, Sweeps, Withholds
  <2>6. ASSUME Begins(w) PROVE Shape(w)'
    <3>1. w \in Consumers => w \notin Dispatchers
      BY DeliveryAssumption DEF DeliveryAssumption
    <3> QED
      BY <2>6, <3>1 DEF Begins, Shape, At
  <2>7. ASSUME Resolves(w) PROVE Shape(w)'
    BY <2>2, <2>7 DEF Resolves, Shape, At
  <2>8. ASSUME TakesDue(w) \/ TakesFailed(w) PROVE Shape(w)'
    BY <2>8, DeliveryAssumption DEF TakesDue, TakesFailed, Shape, At, DeliveryAssumption
  <2>9. ASSUME Abandons(w) PROVE Shape(w)'
    BY <2>9 DEF Abandons, Shape, At, Idle
  <2>10. Shape(w)'
    BY <1>2, <2>3, <2>5, <2>6, <2>8, <2>9, <2>7, ActionCourse DEF Course
  <2> QED
    BY <2>1, <2>10 DEF Shapes
<1> QED
  BY <1>1, <1>2, Actors, EnvironmentRests DEF deliveryVars, Resting

-----------------------------------------------------------------------------
(***************************************************************************)
(* The retries of a sweep, when there is one consumer.                     *)
(***************************************************************************)

\* What c has read as due, and has not claimed yet, is still waiting; and the
\* retry at hand is no longer on its list.
DueWaits ==
    \A c \in Consumers :
        /\ \A r \in worker[c].due : intent[r].status = "retry_pending"
        /\ worker[c].task = "retry" /\ worker[c].step \in Claimable =>
            worker[c].rec \notin worker[c].due /\ RowOf(c).status = "retry_pending"

\* Only a consumer takes a row out of retry_pending, and not out of its list.
LEMMA RetryIsTaken ==
    ASSUME TypeInv, Shapes, DueWaits, NEW w \in Workers, Commit(w),
           RowOf(w).status = "retry_pending"
    PROVE  w \notin Dispatchers /\ worker[w].rec \notin worker[w].due
<1>1. (At(w, "expire") \/ At(w, "claim")) /\ RowOf(w).status = Unclaimed(w)
  BY DEF Commit, CommitCreate, CommitExpire, CommitPrepare, CommitReject, CommitClaim,
         CommitAcknowledge, CommitRetry, CommitFailed
<1>2. worker[w].task \notin {"fresh", "dispatch"}
  BY <1>1 DEF Unclaimed
<1>3. w \notin Dispatchers
  BY <1>1, <1>2 DEF Shapes, Shape, At
<1>4. worker[w].rec \notin worker[w].due
  BY <1>1, <1>3 DEF Shapes, Shape, DueWaits, At, Claimable, Workers
<1> QED
  BY <1>3, <1>4

\* A row changes only by a statement of the worker whose request it is.
LEMMA RowsChange ==
    ASSUME TypeInv, NEW w \in Workers, ActionOf(w)
    PROVE  \/ UNCHANGED intent
           \/ /\ Commit(w)
              /\ \A r \in Recommendations \ {worker[w].rec} : intent'[r] = intent[r]
BY ActionKind, CommitRow
   DEF Moving, RowsKept, Committing, Claiming, AdapterAccepts, Commit

LEMMA DueStep ==
    ASSUME \A c, d \in Consumers : c = d,
           TypeInv, Shapes, DueWaits, [DeliveryNext]_deliveryVars
    PROVE  DueWaits'
<1>1. CASE UNCHANGED <<worker, intent>>
  BY <1>1 DEF DueWaits, RowOf
<1>2. ASSUME NEW w \in Workers, ActionOf(w) PROVE DueWaits'
  <2> SUFFICES ASSUME NEW c \in Consumers
               PROVE  /\ \A r \in worker'[c].due : intent'[r].status = "retry_pending"
                      /\ worker'[c].task = "retry" /\ worker'[c].step \in Claimable =>
                          /\ worker'[c].rec \notin worker'[c].due
                          /\ intent'[worker'[c].rec].status = "retry_pending"
    BY DEF DueWaits, RowOf
  <2>1. c \in Workers /\ worker[c].due \subseteq Recommendations
    BY DEF Workers, TypeInv, DeliveryTypeOK, WorkerState
  <2>2. CASE w # c
    <3>1. worker'[c] = worker[c] /\ w \in Dispatchers
      BY <1>2, <2>1, <2>2, ActionKind DEF Workers
    <3>2. \A r \in Recommendations :
              intent[r].status = "retry_pending" => intent'[r] = intent[r]
      BY <1>2, <3>1, RowsChange, RetryIsTaken DEF RowOf
    <3>3. worker[c].step \in Claimable => worker[c].rec \in Recommendations
      BY <2>1 DEF TypeInv, TypedWorker, Claimable
    <3> QED
      BY <2>1, <3>1, <3>2, <3>3 DEF DueWaits, RowOf
  <2>3. CASE w = c
    <3>1. \A r \in worker[c].due : intent'[r].status = "retry_pending"
      BY <1>2, <2>1, <2>3, RowsChange, RetryIsTaken DEF DueWaits, RowOf
    <3>2. CASE Goes(c)
      BY <3>1, <3>2 DEF Goes, DueWaits, RowOf, At, Claimable
    <3>3. ASSUME NEW due, NEW failed, worker'[c] = Sweeping(due, failed)
          PROVE  worker'[c].due = due /\ worker'[c].task # "retry"
      BY <3>3, SweepingFields
    <3>4. CASE Retires(c) \/ Withholds(c)
      BY <3>1, <3>3, <3>4 DEF Retires, Withholds
    <3>5. CASE Sweeps(c)
      BY <3>3, <3>5 DEF Sweeps
    <3>6. CASE Begins(c) \/ Resolves(c)
      BY <3>1, <3>6 DEF Begins, Resolves
    <3>7. CASE TakesDue(c)
      BY <3>1, <3>7 DEF TakesDue
    <3>8. CASE TakesFailed(c)
      BY <3>1, <3>8 DEF TakesFailed, Claimable
    <3>9. CASE Abandons(c)
      BY <3>9 DEF Abandons, Idle
    <3> QED
      BY <1>2, <2>3, <3>2, <3>4, <3>5, <3>6, <3>7, <3>8, <3>9, ActionCourse DEF Course
  <2> QED
    BY <2>2, <2>3
<1> QED
  BY <1>1, <1>2, Actors, EnvironmentRests DEF deliveryVars, Resting, RowsKept

-----------------------------------------------------------------------------
(***************************************************************************)
(* Final failures reach quarantine, when there is one consumer.            *)
(***************************************************************************)

Faults == {"losses", "crashes", "dbFailures"}

NoFaults == \A f \in Faults : used[f] = 0

\* An attempt that failed is not over, as long as no statement fails.
FailingIsDispatched ==
    used["dbFailures"] = 0 =>
        \A w \in Workers : At(w, "failure") => RowOf(w).status = "dispatched"

LEMMA FailingStep ==
    ASSUME TypeInv, OwnerInv, FailingIsDispatched, [DeliveryNext]_deliveryVars
    PROVE  FailingIsDispatched'
<1>1. CASE UNCHANGED deliveryVars
  BY <1>1 DEF deliveryVars, FailingIsDispatched, RowOf, At
<1>2. CASE DeliveryNext
  <2> SUFFICES ASSUME used'["dbFailures"] = 0, NEW w \in Workers, At(w, "failure")'
               PROVE  intent'[worker'[w].rec].status = "dispatched"
    BY DEF FailingIsDispatched, RowOf
  <2> DEFINE r == worker[w].rec
  <2>1. used["dbFailures"] = 0
    BY <1>2, UsedGrows DEF Bounds
  <2>2. ~At(w, "acknowledge")
    BY <1>2, <2>1, LostAnswerCounts DEF At
  <2>3. CASE Environment
    BY <2>1, <2>3, EnvironmentRests DEF Resting, RowsKept, FailingIsDispatched, RowOf, At
  <2>4. ASSUME NEW v \in Workers, ActionOf(v)
        PROVE  intent'[worker'[w].rec].status = "dispatched"
    <3>1. worker'[w].rec = r /\ (At(w, "deliver") \/ At(w, "failure"))
      <4>1. CASE v # w
        BY <2>4, <4>1, ActionKind DEF At
      <4>2. CASE v = w
        <5>1. CASE Moving(w) \/ Committing(w)
          BY <2>2, <5>1, NoNewOwner DEF Committing, StillOwner, Owns, At
        <5>2. ~Claiming(w)
          <6>1. Claimant(w).step = "deliver"
            BY DEF Claimant, TypeInv, DeliveryTypeOK, WorkerState
          <6> QED
            BY <6>1, LocalStates DEF Claiming, At
        <5>3. ~AdapterAccepts(w)
          <6>1. [worker[w] EXCEPT !.step = "acknowledge"].step = "acknowledge"
            BY DEF TypeInv, DeliveryTypeOK, WorkerState
          <6> QED
            BY <6>1, UpdatedWorker DEF AdapterAccepts, At
        <5> QED
          BY <2>4, <4>2, <5>1, <5>2, <5>3, ActionKind
      <4> QED
        BY <4>1, <4>2
    <3>2. intent[r].status = "dispatched" /\ r \in Recommendations
      BY <2>1, <3>1 DEF FailingIsDispatched, OwnerInv, InAttempt, Owns, RowOf, At, TypeInv,
                        TypedWorker
    <3>3. CASE intent'[r] = intent[r]
      BY <3>1, <3>2, <3>3
    <3>4. CASE intent'[r] # intent[r]
      <4>1. Commit(v) /\ worker[v].rec = r
        BY <2>4, <3>2, <3>4, RowsChange
      <4>2. At(v, "acknowledge") \/ At(v, "failure")
        BY <3>2, <4>1, CommitRow DEF Transition, Moves, RowOf
      <4>3. v = w /\ At(w, "failure")
        BY <2>2, <3>1, <4>1, <4>2 DEF OwnerInv, Owns, At
      <4>4. Committing(w)
        BY <2>4, <3>4, <4>3, ActionKind
           DEF Moving, RowsKept, Claiming, CommitClaim, AdapterAccepts, At
      <4>5. FALSE
        <5>1. PICK ws : BecomesWorker(w, ws) /\ Leaves(worker[w], ws)
          BY <4>4 DEF Committing, Left
        <5>2. worker'[w] = ws
          BY <5>1, LocalStates
        <5> QED
          BY <4>3, <5>1, <5>2 DEF Leaves, At
      <4> QED
        BY <4>5
    <3> QED
      BY <3>3, <3>4
  <2> QED
    BY <1>2, <2>3, <2>4, Actors
<1> QED
  BY <1>1, <1>2

\* The final failures that w has still to quarantine.
Pending(w) ==
    worker[w].failed \cup {r \in Recommendations : At(w, "deadletter") /\ r = worker[w].rec}

\* A final failure is in quarantine, or some worker has still to put it there.
FailuresPending ==
    NoFaults =>
        \A r \in Recommendations : intent[r].status = "failed_final" =>
            (\E l \in deadLetters : l.rec = r) \/ \E w \in Workers : r \in Pending(w)

\* A step without a fault is a worker's own, or the environment's.
LEMMA NoFault ==
    ASSUME TypeInv, DeliveryNext, NoFaults'
    PROVE  NoFaults /\ \A w \in Workers : ~Fault(w)
<1>1. NoFaults
  BY UsedGrows DEF NoFaults, Faults, Bounds
<1>2. ASSUME NEW w \in Workers, Fault(w) PROVE FALSE
  BY <1>1, <1>2, FaultCounts DEF Fault, NoFaults, Faults
<1> QED
  BY <1>1, <1>2

\* What is in quarantine stays there.
LEMMA QuarantineGrows ==
    ASSUME DeliveryNext
    PROVE  deadLetters \subseteq deadLetters'
<1>1. ASSUME NEW w, WorkerStep(w) PROVE deadLetters \subseteq deadLetters'
  BY <1>1 DEF WorkerStep, StaleBinding, CreateIntent, ReuseIntent, CheckExpiry, Expire, Prepare,
         Reject, Claim, AdapterAccepts, AdapterFails, Acknowledge, ScheduleRetry, FailFinally,
         LostTransition, PublishDeadLetter, Ack, Nack, LocalStep, DeadLettered
<1>2. ASSUME NEW w, ActionOf(w) PROVE deadLetters \subseteq deadLetters'
  BY <1>1, <1>2
     DEF ActionOf, ConsumerStep, DispatcherStep, Fault, Sweep, SweepNext, SweepFailed, LocalStep,
         ReceiveRecommendation, ReceiveDispatch, StatementFails, DeadLetterFails, ChannelLost,
         Crash, DeadLettered
<1> QED
  BY <1>2, Actors DEF Environment, PublishRecommendation, OutboxDelivers, Tick

\* Without a fault a pending failure stays pending until it is in quarantine:
\* no transition that a sweep loses drops its outcomes.
LEMMA PendingIsKept ==
    ASSUME TypeInv, Shapes, DueWaits, FailingIsDispatched, NoFaults,
           NEW w \in Workers, ActionOf(w), ~Fault(w), NEW r \in Recommendations, r \in Pending(w)
    PROVE  r \in Pending(w)' \/ \E l \in deadLetters' : l.rec = r
<1>1. CASE At(w, "deadletter") /\ r = worker[w].rec
  <2>1. PublishDeadLetter(w)
    BY <1>1
       DEF ActionOf, ConsumerStep, DispatcherStep, WorkerStep, At, Sweep, SweepNext, SweepFailed,
           ReceiveRecommendation, ReceiveDispatch, StaleBinding, CreateIntent, CommitCreate,
           ReuseIntent, CheckExpiry, Expire, CommitExpire, Prepare, CommitPrepare, Reject,
           CommitReject, Claim, CommitClaim, AdapterAccepts, AdapterFails, Acknowledge,
           CommitAcknowledge, ScheduleRetry, CommitRetry, FailFinally, CommitFailed,
           LostTransition, Ack, Nack
  <2> DEFINE letter == [rec |-> worker[w].rec, from |-> Origin(w)]
  <2>2. letter \in deadLetters' /\ letter.rec = r
    BY <1>1, <2>1 DEF PublishDeadLetter, DeadLettered
  <2> QED
    BY <2>2
<1>2. CASE r \in worker[w].failed
  <2>1. Course(w)
    BY ActionCourse
  <2>2. CASE Goes(w) \/ Resolves(w) \/ TakesDue(w)
    BY <1>2, <2>2 DEF Goes, Resolves, TakesDue, Pending
  <2>3. CASE TakesFailed(w)
    <3>1. /\ worker'[w].rec \in worker[w].failed
          /\ worker'[w].step = "deadletter"
          /\ worker'[w].failed = worker[w].failed \ {worker'[w].rec}
      BY <2>3 DEF TakesFailed
    <3> QED
      BY <1>2, <3>1 DEF Pending, At
  <2>4. CASE Retires(w) \/ Withholds(w)
    BY <1>2, <2>4, SweepingFields DEF Retires, Withholds, Pending
  <2>5. ~At(w, "idle")
    BY <1>2 DEF Shapes, Shape, Idle
  <2>6. ~Abandons(w)
    <3>1. At(w, "failure") => RowOf(w).status = "dispatched"
      BY DEF FailingIsDispatched, NoFaults, Faults
    <3>2. At(w, "prepare") => worker[w].task # "retry"
      BY DEF Shapes, Shape
    <3>3. At(w, "expire") /\ worker[w].task = "retry" => RowOf(w).status = Unclaimed(w)
      BY DEF Shapes, Shape, DueWaits, Claimable, Unclaimed, Workers, At
    <3> QED
      BY <3>1, <3>2, <3>3 DEF Abandons, Fault
  <2> QED
    BY <2>1, <2>2, <2>3, <2>4, <2>5, <2>6 DEF Course, Begins, Sweeps
<1> QED
  BY <1>1, <1>2 DEF Pending

\* Whoever fails an intent for good, without a fault, has it to quarantine.
LEMMA FailureIsPending ==
    ASSUME TypeInv, NEW w \in Workers, ActionOf(w), ~Fault(w), NEW r \in Recommendations,
           intent[r].status # "failed_final", intent'[r].status = "failed_final"
    PROVE  r \in Pending(w)'
<1>1. Commit(w) /\ r = worker[w].rec
  BY RowsChange
<1>2. Moves(w, "failure", {"dispatched"}, "failed_final", 0)
  BY <1>1, CommitRow DEF Transition, Moves
<1>3. worker[w] \in WorkerState
  BY DEF TypeInv, DeliveryTypeOK
<1>4. ScheduleRetry(w) \/ FailFinally(w)
  BY <1>1, <1>2
     DEF Moves, RowOf, ActionOf, ConsumerStep, DispatcherStep, WorkerStep, At, Sweep, SweepNext,
         SweepFailed, ReceiveRecommendation, ReceiveDispatch, StaleBinding, CreateIntent,
         CommitCreate, ReuseIntent, CheckExpiry, Expire, CommitExpire, Prepare, CommitPrepare,
         Reject, CommitReject, Claim, CommitClaim, AdapterAccepts, AdapterFails, Acknowledge,
         CommitAcknowledge, LostTransition, PublishDeadLetter, Ack, Nack
<1>5. ~ScheduleRetry(w)
  <2>1. ASSUME NEW d \in RetryDelays, Becomes(w, "retry_pending", 0, Capped(now + d))
        PROVE  intent'[r].status = "retry_pending"
    <3>1. Capped(now + d) \in Nat
      BY DeliveryAssumption DEF Capped, DeliveryAssumption, TypeInv, DeliveryTypeOK
    <3>2. "retry_pending" \in Statuses /\ 0 \in Nat
      BY DEF Statuses
    <3> QED
      BY <1>1, <2>1, <3>1, <3>2, BecomesRow
  <2> QED
    BY <2>1 DEF ScheduleRetry, CommitRetry
<1>6. CASE Goto(w, "deadletter")
  <2>1. worker'[w] = [worker[w] EXCEPT !.step = "deadletter"]
    BY <1>6, UpdatedWorker
  <2> QED
    BY <1>1, <1>3, <2>1 DEF Pending, At, WorkerState
<1>7. CASE worker' = [worker EXCEPT ![w] = Sweeping(@.due, @.failed \cup {@.rec})]
  <2>1. worker'[w] = Sweeping(worker[w].due, worker[w].failed \cup {r})
    BY <1>1, <1>7 DEF TypeInv, DeliveryTypeOK
  <2> QED
    BY <2>1, SweepingFields DEF Pending
<1> QED
  BY <1>4, <1>5, <1>6, <1>7 DEF FailFinally

LEMMA FailuresStep ==
    ASSUME TypeInv, Shapes, DueWaits, FailingIsDispatched, FailuresPending,
           [DeliveryNext]_deliveryVars
    PROVE  FailuresPending'
<1>1. CASE UNCHANGED deliveryVars
  BY <1>1 DEF deliveryVars, FailuresPending, NoFaults, Pending, At
<1>2. CASE DeliveryNext
  <2> SUFFICES ASSUME NoFaults', NEW r \in Recommendations, intent'[r].status = "failed_final"
               PROVE  (\E l \in deadLetters' : l.rec = r) \/ \E w \in Workers : r \in Pending(w)'
    BY DEF FailuresPending
  <2>1. NoFaults /\ \A w \in Workers : ~Fault(w)
    BY <1>2, NoFault
  <2>2. deadLetters \subseteq deadLetters'
    BY <1>2, QuarantineGrows
  <2>3. CASE Environment
    BY <2>1, <2>2, <2>3, EnvironmentRests DEF Resting, RowsKept, FailuresPending, Pending, At
  <2>4. ASSUME NEW v \in Workers, ActionOf(v)
        PROVE  (\E l \in deadLetters' : l.rec = r) \/ \E w \in Workers : r \in Pending(w)'
    <3>1. CASE intent[r].status # "failed_final"
      BY <2>1, <2>4, <3>1, FailureIsPending
    <3>2. CASE \E l \in deadLetters : l.rec = r
      BY <2>2, <3>2
    <3>3. ASSUME NEW w \in Workers, r \in Pending(w)
          PROVE  r \in Pending(w)' \/ \E l \in deadLetters' : l.rec = r
      <4>1. CASE w = v
        BY <2>1, <2>4, <3>3, <4>1, PendingIsKept
      <4>2. CASE w # v
        BY <2>4, <3>3, <4>2, ActionKind DEF Pending, At
      <4> QED
        BY <4>1, <4>2
    <3> QED
      BY <2>1, <3>1, <3>2, <3>3 DEF FailuresPending
  <2> QED
    BY <1>2, <2>3, <2>4, Actors
<1> QED
  BY <1>1, <1>2

\* With one consumer, as deployed, an intent that failed for good is in
\* quarantine once nothing concerns it any more, in every behaviour without a
\* lost channel, a death or a failed statement: neither a sweep nor a race for
\* a claim loses a final failure.  (A second consumer may expire a retry that
\* a sweep has on its list; the transition the sweep then loses ends its
\* process, with the outcomes it had to quarantine.)
THEOREM FailureIsDeadLetteredUnlessFaultHolds ==
    ASSUME \A c, d \in Consumers : c = d
    PROVE  DeliverySpec => []FailureIsDeadLetteredUnlessFault
<1> DEFINE Inv == /\ TypeInv /\ OwnerInv /\ Shapes /\ DueWaits
                  /\ FailingIsDispatched /\ FailuresPending
<1>1. DeliveryInit => Inv
  BY TypeInit
     DEF DeliveryInit, OwnerInv, Owns, Shapes, Shape, DueWaits, Claimable, FailingIsDispatched,
         FailuresPending, At, Idle, NoRow, Workers
<1>2. Inv /\ [DeliveryNext]_deliveryVars => Inv'
  BY TypeStep, OwnerStep, ShapeStep, DueStep, FailingStep, FailuresStep
<1>3. Inv => FailureIsDeadLetteredUnlessFault
  <2>1. TypeInv /\ used["losses"] + used["crashes"] + used["dbFailures"] = 0 => NoFaults
    BY DEF TypeInv, DeliveryTypeOK, Bounds, NoFaults, Faults
  <2>2. FailuresPending /\ NoFaults => FailureIsDeadLettered
    BY DEF FailuresPending, FailureIsDeadLettered, Quiet, Pending
  <2> QED
    BY <2>1, <2>2 DEF FailureIsDeadLetteredUnlessFault
<1> QED
  BY <1>1, <1>2, <1>3, PTL DEF DeliverySpec

\* Where channels, processes and statements never fail, nothing counts a fault.
LEMMA FaultlessStep ==
    ASSUME MaxLosses = 0, MaxCrashes = 0, MaxDbFailures = 0,
           TypeInv, NoFaults, [DeliveryNext]_deliveryVars
    PROVE  NoFaults'
<1>1. CASE UNCHANGED used
  BY <1>1 DEF NoFaults
<1>2. ASSUME NEW b \in (Bounds \cup Recommendations) \ Faults, NEW n, Use(b, n)
      PROVE  NoFaults'
  BY <1>2, UseCounts DEF NoFaults, Faults, Bounds
<1>3. CASE Environment
  <2>1. Recommendations \cap Faults = {} /\ "publications" \in Bounds \ Faults
    BY DeliveryAssumption DEF DeliveryAssumption, Faults, Bounds
  <2> QED
    BY <1>1, <1>2, <1>3, <2>1 DEF Environment, PublishRecommendation, OutboxDelivers, Tick
<1>4. ASSUME NEW w \in Workers, Fault(w) PROVE FALSE
  <2>1. \A f \in Faults : ~(used[f] < 0)
    BY DEF NoFaults
  <2> QED
    BY <1>4, <2>1 DEF Fault, StatementFails, DeadLetterFails, ChannelLost, Crash, Use, Faults
<1>5. ASSUME NEW w \in Workers, ActionOf(w) PROVE NoFaults'
  BY <1>1, <1>4, <1>5, OrdinaryStepIsFree DEF ActionOf
<1> QED
  BY <1>1, <1>3, <1>5, Actors DEF deliveryVars

\* Where channels, processes and statements never fail, one consumer puts every
\* intent that failed for good into quarantine, whatever is published twice,
\* delivered twice, falls due in the same sweep or expires.
THEOREM FailureIsDeadLetteredHolds ==
    ASSUME \A c, d \in Consumers : c = d,
           MaxLosses = 0, MaxCrashes = 0, MaxDbFailures = 0
    PROVE  DeliverySpec => []FailureIsDeadLettered
<1> DEFINE Inv == TypeInv /\ NoFaults
<1>1. DeliveryInit => Inv
  BY TypeInit DEF DeliveryInit, NoFaults, Faults, Bounds
<1>2. Inv /\ [DeliveryNext]_deliveryVars => Inv'
  BY TypeStep, FaultlessStep
<1>3. Inv /\ FailureIsDeadLetteredUnlessFault => FailureIsDeadLettered
  BY DEF NoFaults, Faults, FailureIsDeadLetteredUnlessFault
<1>4. DeliverySpec => []FailureIsDeadLetteredUnlessFault
  BY FailureIsDeadLetteredUnlessFaultHolds
<1> QED
  BY <1>1, <1>2, <1>3, <1>4, PTL DEF DeliverySpec

=============================================================================
