------------------------ MODULE ActuationDeliveryProofs ------------------------
(***************************************************************************)
(* Proofs about delivery, for any sets of recommendations, consumers and   *)
(* dispatchers and any bounds: types, the transaction of preparation and   *)
(* the claim's exclusion.                                                  *)
(*                                                                         *)
(* The proofs first sort the steps into five kinds by what they do to the  *)
(* rows, the effects and the local state of one worker (StepKinds); each   *)
(* invariant is then proved once per kind and not once per action.         *)
(***************************************************************************)
EXTENDS ActuationDelivery, TLAPS

\* A worker that is neither idle nor between two requests of a sweep works on
\* a recommendation.
TypedWorker(ws) ==
    /\ ws \in WorkerState
    /\ ws.step \notin {"idle", "sweep"} => ws.rec \in Recommendations

\* The types, and what they need to be inductive.
TypeInv == DeliveryTypeOK /\ \A w \in Workers : TypedWorker(worker[w])

-----------------------------------------------------------------------------
(***************************************************************************)
(* What a step does to the local state of its worker.                      *)
(***************************************************************************)

\* The local state of w, and of no other worker, becomes ws.
BecomesWorker(w, ws) == worker' = [worker EXCEPT ![w] = ws]

\* The worker is where it was, with the same request.
Keeps(old, ws) ==
    /\ ws.step = old.step
    /\ ws.rec = old.rec
    /\ ws.task = old.task
    /\ ws.attempt = old.attempt

\* The worker is not in a dispatch attempt, or in the failing end of the one
\* it was in; and a fresh intent is not what it is about to claim.
Leaves(old, ws) ==
    /\ ws.step \notin {"deliver", "acknowledge"}
    /\ ws.step = "failure" =>
        /\ old.step \in {"deliver", "acknowledge"}
        /\ ws.rec = old.rec
        /\ ws.attempt = old.attempt
    /\ ws.step = "claim" => ws.task # "fresh"

\* w leaves its step for a well typed one, within Leaves.
Left(w) == \E ws : TypedWorker(ws) /\ BecomesWorker(w, ws) /\ Leaves(worker[w], ws)

\* The steps that Leaves does not restrict.
PlainSteps == Steps \ {"claim", "deliver", "acknowledge", "failure"}

\* An idle worker and one between two requests of a sweep are well typed.
LEMMA RestingType ==
    /\ TypedWorker(Idle)
    /\ \A due, failed \in SUBSET Recommendations : TypedWorker(Sweeping(due, failed))
BY DEF TypedWorker, Idle, Sweeping, WorkerState, Steps, Tasks

\* Becoming idle, or going on with a sweep, is leaving a step.
LEMMA RestingLeaves ==
    ASSUME NEW w \in Workers,
           \/ BecomesWorker(w, Idle)
           \/ \E due, failed \in SUBSET Recommendations : BecomesWorker(w, Sweeping(due, failed))
    PROVE  Left(w)
<1>1. Leaves(worker[w], Idle)
  BY DEF Leaves, Idle
<1>2. ASSUME NEW due \in SUBSET Recommendations, NEW failed \in SUBSET Recommendations
      PROVE  Leaves(worker[w], Sweeping(due, failed))
  BY DEF Leaves, Idle, Sweeping
<1> QED
  BY <1>1, <1>2, RestingType DEF Left

\* Going to a plain step keeps the request and leaves the step.
LEMMA GotoLeaves ==
    ASSUME TypeInv, NEW w \in Workers, worker[w].rec \in Recommendations,
           NEW s \in PlainSteps, Goto(w, s)
    PROVE  Left(w)
<1> DEFINE ws == [worker[w] EXCEPT !.step = s]
<1>1. worker[w] \in WorkerState /\ worker \in [Workers -> WorkerState]
  BY DEF TypeInv, DeliveryTypeOK
<1>2. BecomesWorker(w, ws)
  BY <1>1 DEF Goto, BecomesWorker, WorkerState
<1>3. TypedWorker(ws)
  BY <1>1 DEF TypedWorker, WorkerState, PlainSteps
<1>4. Leaves(worker[w], ws)
  BY <1>1 DEF Leaves, WorkerState, PlainSteps
<1> QED
  BY <1>2, <1>3, <1>4 DEF Left

\* Finish goes on with the sweep or to the next message.
LEMMA FinishLeaves ==
    ASSUME TypeInv, NEW w \in Workers, Finish(w)
    PROVE  Left(w)
<1>1. worker[w].due \in SUBSET Recommendations /\ worker[w].failed \in SUBSET Recommendations
  BY DEF TypeInv, DeliveryTypeOK, WorkerState
<1>2. BecomesWorker(w, Sweeping(worker[w].due, worker[w].failed))
  BY DEF Finish, BecomesWorker, TypeInv, DeliveryTypeOK
<1> QED
  BY <1>1, <1>2, RestingLeaves

\* Decided finishes the request of a sweep, or goes on to the ACK.
LEMMA DecidedLeaves ==
    ASSUME TypeInv, NEW w \in Workers, worker[w].rec \in Recommendations, Decided(w)
    PROVE  Left(w)
<1>1. "ack" \in PlainSteps
  BY DEF PlainSteps, Steps
<1> QED
  BY <1>1, FinishLeaves, GotoLeaves DEF Decided

-----------------------------------------------------------------------------
(***************************************************************************)
(* The five kinds of steps, and which action is of which kind.             *)
(***************************************************************************)

\* The rows and the effects are as they were.
RowsKept == UNCHANGED <<intent, prepared, effects>>

\* The environment's steps: no worker moves.
Resting == RowsKept /\ UNCHANGED worker

\* w moves, and keeps or leaves its step.
Moving(w) ==
    /\ RowsKept
    /\ \/ Left(w)
       \/ \E ws : TypedWorker(ws) /\ BecomesWorker(w, ws) /\ Keeps(worker[w], ws)

\* w's statement commits, and w leaves its step.
Committing(w) == Commit(w) /\ Left(w) /\ UNCHANGED effects

\* The local state of w when it has claimed its intent.
Claimant(w) == [worker[w] EXCEPT !.step = "deliver", !.attempt = RowOf(w).retries + 1]

\* w claims its intent.
Claiming(w) == CommitClaim(w) /\ BecomesWorker(w, Claimant(w)) /\ UNCHANGED effects

\* A message taken from a queue puts an idle worker to work.
LEMMA ReceiveMoves ==
    ASSUME TypeInv, NEW w \in Workers, NEW r \in Recommendations,
           \/ ReceiveDispatch(w, r)
           \/ \E d \in Deadlines : ReceiveRecommendation(w, r, d)
    PROVE  Moving(w)
<1>1. CASE ReceiveDispatch(w, r)
  <2> DEFINE ws == [Idle EXCEPT !.step = "check", !.rec = r, !.deadline = intent[r].expires,
                                !.task = "dispatch", !.inflight = TRUE]
  <2>1. TypedWorker(ws) /\ Leaves(worker[w], ws)
    BY DEF TypedWorker, Idle, WorkerState, Steps, Tasks, Leaves, TypeInv, DeliveryTypeOK, Row
  <2>2. BecomesWorker(w, ws)
    BY <1>1 DEF ReceiveDispatch, BecomesWorker
  <2> QED
    BY <1>1, <2>1, <2>2 DEF ReceiveDispatch, Moving, Left, RowsKept
<1>2. ASSUME NEW d \in Deadlines, ReceiveRecommendation(w, r, d) PROVE Moving(w)
  <2> DEFINE ws == [Idle EXCEPT !.step = "lookup", !.rec = r, !.deadline = d, !.inflight = TRUE]
  <2>1. d \in Nat
    BY DeliveryAssumption DEF DeliveryAssumption
  <2>2. TypedWorker(ws) /\ Leaves(worker[w], ws)
    BY <2>1 DEF TypedWorker, Idle, WorkerState, Steps, Tasks, Leaves
  <2>3. BecomesWorker(w, ws)
    BY <1>2 DEF ReceiveRecommendation, BecomesWorker
  <2> QED
    BY <1>2, <2>2, <2>3 DEF ReceiveRecommendation, Moving, Left, RowsKept
<1> QED
  BY <1>1, <1>2

\* A consumer starts a sweep and takes its requests and its outcomes in turn.
LEMMA SweepMoves ==
    ASSUME TypeInv, NEW w \in Workers, Sweep(w) \/ SweepNext(w) \/ SweepFailed(w)
    PROVE  Moving(w)
<1>1. /\ worker \in [Workers -> WorkerState]
      /\ worker[w] \in WorkerState
      /\ intent \in [Recommendations -> Row]
  BY DEF TypeInv, DeliveryTypeOK
<1>2. CASE Sweep(w)
  <2>1. PICK due \in SUBSET Recommendations : BecomesWorker(w, Sweeping(due, {}))
    BY <1>2 DEF Sweep, BecomesWorker
  <2> QED
    BY <1>2, <2>1, RestingLeaves DEF Sweep, Moving, RowsKept, LocalStep
<1>3. CASE SweepNext(w)
  <2>1. PICK r \in worker[w].due :
            BecomesWorker(w,
                [worker[w] EXCEPT !.step = "check", !.task = "retry", !.rec = r,
                                  !.deadline = intent[r].expires, !.due = @ \ {r}])
    BY <1>1, <1>3 DEF SweepNext, BecomesWorker
  <2> DEFINE ws == [worker[w] EXCEPT !.step = "check", !.task = "retry", !.rec = r,
                                     !.deadline = intent[r].expires, !.due = @ \ {r}]
  <2>2. r \in Recommendations /\ intent[r].expires \in Nat
    BY <1>1 DEF WorkerState, Row
  <2>3. TypedWorker(ws) /\ Leaves(worker[w], ws)
    BY <1>1, <2>2 DEF TypedWorker, WorkerState, Steps, Tasks, Leaves
  <2>4. BecomesWorker(w, ws)
    BY <2>1
  <2> QED
    BY <1>3, <2>3, <2>4 DEF SweepNext, Moving, Left, RowsKept, LocalStep
<1>4. CASE SweepFailed(w)
  <2>1. PICK r \in worker[w].failed :
            BecomesWorker(w,
                [worker[w] EXCEPT !.step = "deadletter", !.task = "retry", !.rec = r,
                                  !.failed = @ \ {r}])
    BY <1>1, <1>4 DEF SweepFailed, BecomesWorker
  <2> DEFINE ws == [worker[w] EXCEPT !.step = "deadletter", !.task = "retry", !.rec = r,
                                     !.failed = @ \ {r}]
  <2>2. TypedWorker(ws) /\ Leaves(worker[w], ws)
    BY <1>1 DEF TypedWorker, WorkerState, Steps, Tasks, Leaves
  <2>3. BecomesWorker(w, ws)
    BY <2>1
  <2> QED
    BY <1>4, <2>2, <2>3 DEF SweepFailed, Moving, Left, RowsKept, LocalStep
<1> QED
  BY <1>2, <1>3, <1>4

\* The local state of w with another step, or also another field.
LEMMA UpdatesAreBecoming ==
    ASSUME TypeInv, NEW w \in Workers, NEW s, NEW x
    PROVE  /\ worker' = [worker EXCEPT ![w].step = s, ![w].task = x]
                => BecomesWorker(w, [worker[w] EXCEPT !.step = s, !.task = x])
           /\ worker' = [worker EXCEPT ![w].step = s, ![w].retryable = x]
                => BecomesWorker(w, [worker[w] EXCEPT !.step = s, !.retryable = x])
           /\ worker' = [worker EXCEPT ![w].step = s, ![w].attempt = x]
                => BecomesWorker(w, [worker[w] EXCEPT !.step = s, !.attempt = x])
           /\ Goto(w, s) => BecomesWorker(w, [worker[w] EXCEPT !.step = s])
           /\ worker' = [worker EXCEPT ![w].inflight = x]
                => BecomesWorker(w, [worker[w] EXCEPT !.inflight = x])
BY DEF TypeInv, DeliveryTypeOK, WorkerState, BecomesWorker, Goto

\* The answer of the lookup, and the clock, decide where a worker goes.
LEMMA DecisionMoves ==
    ASSUME TypeInv, NEW w \in Workers, StaleBinding(w) \/ ReuseIntent(w) \/ CheckExpiry(w)
    PROVE  Moving(w)
<1>1. /\ worker[w] \in WorkerState
      /\ worker[w].rec \in Recommendations
  BY DEF TypeInv, DeliveryTypeOK, TypedWorker, StaleBinding, ReuseIntent, CheckExpiry, At
<1>2. {"deadletter", "ack", "check", "expire", "prepare"} \subseteq PlainSteps
  BY DEF PlainSteps, Steps
<1>3. CASE StaleBinding(w)
  BY <1>1, <1>2, <1>3, GotoLeaves DEF StaleBinding, Moving, RowsKept, LocalStep
<1>4. CASE ReuseIntent(w)
  <2>1. CASE Goto(w, "ack")
    BY <1>1, <1>2, <1>4, <2>1, GotoLeaves DEF ReuseIntent, Moving, RowsKept, LocalStep
  <2>2. CASE worker' = [worker EXCEPT ![w].step = "check", ![w].task = "duplicate"]
    <3> DEFINE ws == [worker[w] EXCEPT !.step = "check", !.task = "duplicate"]
    <3>1. TypedWorker(ws) /\ Leaves(worker[w], ws)
      BY <1>1 DEF TypedWorker, WorkerState, Steps, Tasks, Leaves
    <3>2. BecomesWorker(w, ws)
      BY <2>2, UpdatesAreBecoming
    <3> QED
      BY <1>4, <3>1, <3>2 DEF ReuseIntent, Moving, Left, RowsKept, LocalStep
  <2> QED
    BY <1>4, <2>1, <2>2 DEF ReuseIntent
<1>5. CASE CheckExpiry(w)
  <2>1. CASE Goto(w, "expire") \/ Goto(w, "prepare")
    BY <1>1, <1>2, <1>5, <2>1, GotoLeaves DEF CheckExpiry, Moving, RowsKept, LocalStep
  <2>2. CASE Goto(w, "claim") /\ worker[w].task # "fresh"
    <3> DEFINE ws == [worker[w] EXCEPT !.step = "claim"]
    <3>1. TypedWorker(ws) /\ Leaves(worker[w], ws)
      BY <1>1, <2>2 DEF TypedWorker, WorkerState, Steps, Leaves
    <3>2. BecomesWorker(w, ws)
      BY <2>2, UpdatesAreBecoming
    <3> QED
      BY <1>5, <3>1, <3>2 DEF CheckExpiry, Moving, Left, RowsKept, LocalStep
  <2> QED
    BY <1>5, <2>1, <2>2 DEF CheckExpiry
<1> QED
  BY <1>3, <1>4, <1>5

\* A worker leaves its attempt when the adapter raises, and when the
\* compare-and-set of its transition finds another status.
LEMMA FailureMoves ==
    ASSUME TypeInv, NEW w \in Workers, AdapterFails(w) \/ LostTransition(w)
    PROVE  Moving(w)
<1>1. /\ worker[w] \in WorkerState
      /\ worker[w].rec \in Recommendations
  BY DEF TypeInv, DeliveryTypeOK, TypedWorker, AdapterFails, LostTransition, At
<1>2. ASSUME NEW b \in BOOLEAN, worker[w].step \in {"deliver", "acknowledge"},
             worker' = [worker EXCEPT ![w].step = "failure", ![w].retryable = b]
      PROVE  Left(w)
  <2> DEFINE ws == [worker[w] EXCEPT !.step = "failure", !.retryable = b]
  <2>1. TypedWorker(ws) /\ Leaves(worker[w], ws)
    BY <1>1, <1>2 DEF TypedWorker, WorkerState, Steps, Leaves
  <2>2. BecomesWorker(w, ws)
    BY <1>2, UpdatesAreBecoming
  <2> QED
    BY <2>1, <2>2 DEF Left
<1>3. CASE AdapterFails(w)
  BY <1>2, <1>3 DEF AdapterFails, Moving, RowsKept, LocalStep, At
<1>4. CASE LostTransition(w)
  <2>1. CASE At(w, "claim")
    BY <1>1, <1>4, <2>1, DecidedLeaves DEF LostTransition, Moving, RowsKept, LocalStep, At
  <2>2. CASE At(w, "acknowledge")
    BY <1>2, <1>4, <2>2 DEF LostTransition, Moving, RowsKept, LocalStep, At
  <2>3. CASE ~At(w, "claim") /\ ~At(w, "acknowledge")
    <3>1. worker' = [worker EXCEPT ![w] = Idle] \/ Goto(w, "nack")
      BY <1>4, <2>3 DEF LostTransition, At
    <3>2. "nack" \in PlainSteps
      BY DEF PlainSteps, Steps
    <3> QED
      BY <1>1, <1>4, <3>1, <3>2, GotoLeaves, RestingLeaves
         DEF LostTransition, Moving, RowsKept, LocalStep, BecomesWorker
  <2> QED
    BY <2>1, <2>2, <2>3
<1> QED
  BY <1>3, <1>4

\* A message or an outcome of a sweep is settled with the broker, the broker
\* takes a message back, or the worker dies.
LEMMA SettlementMoves ==
    ASSUME TypeInv, NEW w \in Workers,
           PublishDeadLetter(w) \/ DeadLetterFails(w) \/ Ack(w) \/ Nack(w)
             \/ ChannelLost(w) \/ Crash(w)
    PROVE  Moving(w)
<1>1. /\ worker[w] \in WorkerState
      /\ worker[w].step \notin {"idle", "sweep"} => worker[w].rec \in Recommendations
  BY DEF TypeInv, DeliveryTypeOK, TypedWorker
<1>2. CASE PublishDeadLetter(w)
  BY <1>1, <1>2, DecidedLeaves DEF PublishDeadLetter, Moving, RowsKept, At
<1>3. CASE DeadLetterFails(w) \/ Ack(w) \/ Nack(w)
  BY <1>3, FinishLeaves DEF DeadLetterFails, Ack, Nack, Moving, RowsKept, LocalStep
<1>4. CASE Crash(w)
  BY <1>4, RestingLeaves DEF Crash, Moving, RowsKept, BecomesWorker
<1>5. CASE ChannelLost(w)
  <2> DEFINE ws == [worker[w] EXCEPT !.inflight = FALSE]
  <2>1. TypedWorker(ws) /\ Keeps(worker[w], ws)
    BY <1>1 DEF TypedWorker, WorkerState, Keeps
  <2>2. BecomesWorker(w, ws)
    BY <1>5, UpdatesAreBecoming DEF ChannelLost
  <2> QED
    BY <1>5, <2>1, <2>2 DEF ChannelLost, Moving, RowsKept
<1> QED
  BY <1>2, <1>3, <1>4, <1>5

\* A transition of the row, and what its worker does then.
LEMMA TransitionCommits ==
    ASSUME TypeInv, NEW w \in Workers,
           CreateIntent(w) \/ Expire(w) \/ Prepare(w) \/ Reject(w) \/ Acknowledge(w)
             \/ ScheduleRetry(w) \/ FailFinally(w)
    PROVE  Committing(w)
<1>1. /\ worker[w] \in WorkerState
      /\ worker[w].rec \in Recommendations
  BY DEF TypeInv, DeliveryTypeOK, TypedWorker, CreateIntent, Expire, Prepare, Reject,
         Acknowledge, ScheduleRetry, FailFinally, CommitCreate, CommitExpire, CommitPrepare,
         CommitReject, CommitAcknowledge, CommitRetry, CommitFailed, At
<1>2. Commit(w) /\ UNCHANGED effects
  BY DEF CreateIntent, Expire, Prepare, Reject, Acknowledge, ScheduleRetry, FailFinally,
         Commit, LocalStep
<1>3. {"ack", "deadletter"} \subseteq PlainSteps
  BY DEF PlainSteps, Steps
<1>4. CASE CreateIntent(w)
  <2> DEFINE ws == [worker[w] EXCEPT !.step = "check", !.task = "fresh"]
  <2>1. TypedWorker(ws) /\ Leaves(worker[w], ws)
    BY <1>1 DEF TypedWorker, WorkerState, Steps, Tasks, Leaves
  <2>2. BecomesWorker(w, ws)
    BY <1>4, UpdatesAreBecoming DEF CreateIntent
  <2> QED
    BY <1>2, <2>1, <2>2 DEF Committing, Left
<1>5. CASE Expire(w) \/ Acknowledge(w) \/ ScheduleRetry(w)
  BY <1>1, <1>2, <1>5, DecidedLeaves DEF Expire, Acknowledge, ScheduleRetry, Committing
<1>6. CASE Prepare(w) \/ Reject(w)
  BY <1>1, <1>2, <1>3, <1>6, GotoLeaves DEF Prepare, Reject, Committing
<1>7. CASE FailFinally(w)
  <2>1. CASE Goto(w, "deadletter")
    BY <1>1, <1>2, <1>3, <2>1, GotoLeaves DEF Committing
  <2>2. CASE worker' = [worker EXCEPT ![w] = Sweeping(@.due, @.failed \cup {@.rec})]
    <3> DEFINE failed == worker[w].failed \cup {worker[w].rec}
    <3>1. BecomesWorker(w, Sweeping(worker[w].due, failed))
      BY <2>2 DEF BecomesWorker, TypeInv, DeliveryTypeOK
    <3>2. worker[w].due \in SUBSET Recommendations /\ failed \in SUBSET Recommendations
      BY <1>1 DEF WorkerState
    <3> QED
      BY <1>2, <3>1, <3>2, RestingLeaves DEF Committing
  <2> QED
    BY <1>7, <2>1, <2>2 DEF FailFinally
<1> QED
  BY <1>4, <1>5, <1>6, <1>7

\* A failed statement ends the request, or is the failure of the attempt.
LEMMA StatementFailsKind ==
    ASSUME TypeInv, NEW w \in Workers, StatementFails(w)
    PROVE  Moving(w) \/ Committing(w)
<1>1. /\ worker[w] \in WorkerState
      /\ worker[w].rec \in Recommendations
  BY DEF TypeInv, DeliveryTypeOK, TypedWorker, StatementFails, At
<1>2. Left(w)
  <2>1. CASE At(w, "acknowledge")
    <3> DEFINE ws == [worker[w] EXCEPT !.step = "failure", !.retryable = TRUE]
    <3>1. TypedWorker(ws) /\ Leaves(worker[w], ws)
      BY <1>1, <2>1 DEF TypedWorker, WorkerState, Steps, Leaves, At
    <3>2. BecomesWorker(w, ws)
      BY <2>1, UpdatesAreBecoming DEF StatementFails
    <3> QED
      BY <3>1, <3>2 DEF Left
  <2>2. CASE ~At(w, "acknowledge")
    <3>1. "nack" \in PlainSteps
      BY DEF PlainSteps, Steps
    <3> QED
      BY <1>1, <2>2, <3>1, FinishLeaves, GotoLeaves DEF StatementFails
  <2> QED
    BY <2>1, <2>2
<1> QED
  BY <1>2 DEF StatementFails, Moving, Committing, RowsKept

\* The claim of an intent.
LEMMA ClaimKind ==
    ASSUME TypeInv, NEW w \in Workers, Claim(w)
    PROVE  Claiming(w)
BY UpdatesAreBecoming DEF Claim, Claiming, Claimant, LocalStep

\* Every step of delivery is the environment's, or one worker's: it moves,
\* commits, claims, or the adapter accepts its attempt.
LEMMA StepKinds ==
    ASSUME TypeInv, DeliveryNext
    PROVE  \/ Resting
           \/ \E w \in Workers :
                Moving(w) \/ Committing(w) \/ Claiming(w) \/ AdapterAccepts(w)
<1>1. ASSUME NEW w \in Workers, WorkerStep(w)
      PROVE  Moving(w) \/ Committing(w) \/ Claiming(w) \/ AdapterAccepts(w)
  BY <1>1, DecisionMoves, FailureMoves, SettlementMoves, TransitionCommits, ClaimKind
     DEF WorkerStep
<1>2. CASE \E r \in Recommendations, d \in Deadlines : PublishRecommendation(r, d)
  BY <1>2 DEF PublishRecommendation, Resting, RowsKept
<1>3. CASE \E r \in Recommendations : OutboxDelivers(r)
  BY <1>3 DEF OutboxDelivers, Resting, RowsKept
<1>4. CASE Tick
  BY <1>4 DEF Tick, Resting, RowsKept
<1>5. ASSUME NEW c \in Consumers, ConsumerStep(c)
      PROVE  \E w \in Workers :
                Moving(w) \/ Committing(w) \/ Claiming(w) \/ AdapterAccepts(w)
  BY <1>1, <1>5, SweepMoves, ReceiveMoves DEF ConsumerStep, Workers
<1>6. ASSUME NEW w \in Dispatchers, DispatcherStep(w)
      PROVE  \E v \in Workers :
                Moving(v) \/ Committing(v) \/ Claiming(v) \/ AdapterAccepts(v)
  BY <1>1, <1>6, ReceiveMoves DEF DispatcherStep, Workers
<1>7. ASSUME NEW w \in Workers, Fault(w)
      PROVE  Moving(w) \/ Committing(w) \/ Claiming(w) \/ AdapterAccepts(w)
  BY <1>7, StatementFailsKind, SettlementMoves DEF Fault
<1> QED
  BY <1>2, <1>3, <1>4, <1>5, <1>6, <1>7 DEF DeliveryNext

-----------------------------------------------------------------------------
(***************************************************************************)
(* What a statement does to the row of its worker's request.               *)
(***************************************************************************)

\* w, at step s, moves its intent between these statuses, counting inc attempts.
Moves(w, s, from, to, inc) ==
    /\ At(w, s)
    /\ RowOf(w).status \in from
    /\ intent'[worker[w].rec].status = to
    /\ intent'[worker[w].rec].retries = RowOf(w).retries + inc
    /\ UNCHANGED prepared

\* The transitions, as the invariants see them.
Transition(w) ==
    LET r == worker[w].rec IN
    \/ /\ At(w, "lookup")
       /\ intent[r].status = "absent" /\ intent'[r].status = "received"
       /\ intent'[r].retries = 0
       /\ UNCHANGED prepared
    \/ /\ At(w, "prepare")
       /\ intent[r].status = "received" /\ intent'[r].status = "ready_to_dispatch"
       /\ intent'[r].retries = intent[r].retries
       /\ prepared' = prepared \cup {r}
    \/ Moves(w, "prepare", {"received"}, "rejected", 0)
    \/ Moves(w, "expire", {"received", "ready_to_dispatch", "retry_pending"}, "expired", 0)
    \/ /\ Moves(w, "claim", {"received", "ready_to_dispatch", "retry_pending"}, "dispatched", 1)
       /\ RowOf(w).status = Unclaimed(w)
    \/ Moves(w, "acknowledge", {"dispatched"}, "acknowledged", 0)
    \/ Moves(w, "failure", {"dispatched"}, "retry_pending", 0) /\ CanRetry(w)
    \/ Moves(w, "failure", {"dispatched"}, "failed_final", 0)

\* A request that has not been claimed has one of three statuses.
LEMMA UnclaimedStatus ==
    ASSUME NEW w \in Workers
    PROVE  /\ Unclaimed(w) \in {"received", "ready_to_dispatch", "retry_pending"}
           /\ Unclaimed(w) = "received" => worker[w].task = "fresh"
BY DEF Unclaimed

\* What transition() makes of a row.
Updated(old, to, inc, at) == [old EXCEPT !.status = to, !.retries = @ + inc, !.retryAt = at]

\* A row stays one when transition() overwrites some of it.
LEMMA RowUpdate ==
    ASSUME NEW old \in Row, NEW to \in Statuses, NEW inc \in Nat, NEW at \in Nat
    PROVE  /\ Updated(old, to, inc, at) \in Row
           /\ Updated(old, to, inc, at).status = to
           /\ Updated(old, to, inc, at).retries = old.retries + inc
<1>1. old.retries + inc \in Nat
  BY DEF Row
<1> QED
  BY <1>1 DEF Row, Updated

\* transition() updates one row, as far as the types go.
LEMMA BecomesRow ==
    ASSUME TypeInv, NEW w \in Workers, worker[w].rec \in Recommendations,
           NEW to \in Statuses, NEW inc \in Nat, NEW at \in Nat, Becomes(w, to, inc, at)
    PROVE  /\ intent' \in [Recommendations -> Row]
           /\ \A q \in Recommendations \ {worker[w].rec} : intent'[q] = intent[q]
           /\ intent'[worker[w].rec].status = to
           /\ intent'[worker[w].rec].retries = RowOf(w).retries + inc
<1> DEFINE r == worker[w].rec
           row == Updated(intent[r], to, inc, at)
<1>1. intent \in [Recommendations -> Row] /\ intent[r] \in Row
  BY DEF TypeInv, DeliveryTypeOK
<1>2. row \in Row /\ row.status = to /\ row.retries = intent[r].retries + inc
  BY <1>1, RowUpdate
<1>3. intent' = [intent EXCEPT ![r] = row]
  BY DEF Becomes, RowOf, Updated
<1> HIDE DEF row
<1> QED
  BY <1>1, <1>2, <1>3 DEF RowOf

\* A statement moves one row along one transition, and types stay.
LEMMA CommitRow ==
    ASSUME TypeInv, NEW w \in Workers, Commit(w)
    PROVE  /\ worker[w].rec \in Recommendations
           /\ intent' \in [Recommendations -> Row]
           /\ \A q \in Recommendations \ {worker[w].rec} : intent'[q] = intent[q]
           /\ Transition(w)
<1> DEFINE r == worker[w].rec
           Changed == /\ intent' \in [Recommendations -> Row]
                      /\ \A q \in Recommendations \ {r} : intent'[q] = intent[q]
<1>1. r \in Recommendations /\ worker[w] \in WorkerState
  BY DEF TypeInv, DeliveryTypeOK, TypedWorker, Commit, CommitCreate, CommitExpire,
         CommitPrepare, CommitReject, CommitClaim, CommitAcknowledge, CommitRetry,
         CommitFailed, At
<1>2. /\ {"ready_to_dispatch", "rejected", "expired", "dispatched", "acknowledged",
          "retry_pending", "failed_final", "received"} \subseteq Statuses
      /\ 0 \in Nat /\ 1 \in Nat
  BY DEF Statuses
<1>3. CASE CommitCreate(w)
  <2> DEFINE row == [NoRow EXCEPT !.status = "received", !.expires = worker[w].deadline]
  <2>1. row \in Row /\ row.status = "received" /\ row.retries = 0
    BY <1>1 DEF NoRow, Row, WorkerState, Statuses
  <2>2. intent' = [intent EXCEPT ![r] = row] /\ intent \in [Recommendations -> Row]
    BY <1>3 DEF CommitCreate, TypeInv, DeliveryTypeOK
  <2> HIDE DEF row
  <2> QED
    BY <1>1, <1>3, <2>1, <2>2 DEF CommitCreate, Transition, RowOf
<1>4. CASE CommitExpire(w)
  <2>1. Becomes(w, "expired", 0, 0)
    BY <1>4 DEF CommitExpire
  <2>2. /\ Changed
        /\ intent'[r].status = "expired"
        /\ intent'[r].retries = RowOf(w).retries + 0
    BY <1>1, <1>2, <2>1, BecomesRow
  <2> QED
    BY <1>1, <1>4, <2>2, UnclaimedStatus DEF CommitExpire, Transition, Moves
<1>5. CASE CommitPrepare(w)
  <2>1. Becomes(w, "ready_to_dispatch", 0, 0)
    BY <1>5 DEF CommitPrepare
  <2>2. /\ Changed
        /\ intent'[r].status = "ready_to_dispatch"
        /\ intent'[r].retries = RowOf(w).retries + 0
    BY <1>1, <1>2, <2>1, BecomesRow
  <2>3. RowOf(w).retries + 0 = RowOf(w).retries
    BY <1>1 DEF RowOf, Row, TypeInv, DeliveryTypeOK
  <2> QED
    BY <1>1, <1>5, <2>2, <2>3 DEF CommitPrepare, Transition, RowOf
<1>6. CASE CommitReject(w)
  <2>1. Becomes(w, "rejected", 0, 0)
    BY <1>6 DEF CommitReject
  <2>2. /\ Changed
        /\ intent'[r].status = "rejected"
        /\ intent'[r].retries = RowOf(w).retries + 0
    BY <1>1, <1>2, <2>1, BecomesRow
  <2> QED
    BY <1>1, <1>6, <2>2 DEF CommitReject, Transition, Moves
<1>7. CASE CommitClaim(w)
  <2>1. Becomes(w, "dispatched", 1, 0)
    BY <1>7 DEF CommitClaim
  <2>2. /\ Changed
        /\ intent'[r].status = "dispatched"
        /\ intent'[r].retries = RowOf(w).retries + 1
    BY <1>1, <1>2, <2>1, BecomesRow
  <2> QED
    BY <1>1, <1>7, <2>2, UnclaimedStatus DEF CommitClaim, Transition, Moves
<1>8. CASE CommitAcknowledge(w)
  <2>1. Becomes(w, "acknowledged", 0, 0)
    BY <1>8 DEF CommitAcknowledge
  <2>2. /\ Changed
        /\ intent'[r].status = "acknowledged"
        /\ intent'[r].retries = RowOf(w).retries + 0
    BY <1>1, <1>2, <2>1, BecomesRow
  <2> QED
    BY <1>1, <1>8, <2>2 DEF CommitAcknowledge, Transition, Moves
<1>9. CASE CommitRetry(w)
  <2>1. PICK d \in RetryDelays : Becomes(w, "retry_pending", 0, Capped(now + d))
    BY <1>9 DEF CommitRetry
  <2>2. Capped(now + d) \in Nat
    BY DeliveryAssumption DEF Capped, DeliveryAssumption, TypeInv, DeliveryTypeOK
  <2>3. /\ Changed
        /\ intent'[r].status = "retry_pending"
        /\ intent'[r].retries = RowOf(w).retries + 0
    BY <1>1, <1>2, <2>1, <2>2, BecomesRow
  <2> QED
    BY <1>1, <1>9, <2>3 DEF CommitRetry, Transition, Moves
<1>10. CASE CommitFailed(w)
  <2>1. Becomes(w, "failed_final", 0, 0)
    BY <1>10 DEF CommitFailed
  <2>2. /\ Changed
        /\ intent'[r].status = "failed_final"
        /\ intent'[r].retries = RowOf(w).retries + 0
    BY <1>1, <1>2, <2>1, BecomesRow
  <2> QED
    BY <1>1, <1>10, <2>2 DEF CommitFailed, Transition, Moves
<1> QED
  BY <1>3, <1>4, <1>5, <1>6, <1>7, <1>8, <1>9, <1>10 DEF Commit

-----------------------------------------------------------------------------
(***************************************************************************)
(* Types.                                                                  *)
(***************************************************************************)

\* The types of what the broker, the clock and the bounds are.
EnvType ==
    /\ now \in 0 .. Horizon
    /\ recQueue \in [Recommendations \X Deadlines -> Nat]
    /\ dispatchQueue \in [Recommendations -> Nat]
    /\ deadLetters \subseteq DeadLetters
    /\ used \in [Bounds \cup Recommendations -> Nat]

\* Using a bound, taking a message back and quarantining one keep the types.
LEMMA UseType ==
    ASSUME TypeInv, NEW b \in Bounds \cup Recommendations, NEW n, Use(b, n)
    PROVE  used' \in [Bounds \cup Recommendations -> Nat]
<1>1. used' = [used EXCEPT ![b] = @ + 1]
  BY DEF Use
<1>2. used \in [Bounds \cup Recommendations -> Nat]
  BY DEF TypeInv, DeliveryTypeOK
<1> QED
  BY <1>1, <1>2

LEMMA RequeuedType ==
    ASSUME TypeInv, NEW w \in Workers, Requeued(w)
    PROVE  /\ recQueue' \in [Recommendations \X Deadlines -> Nat]
           /\ dispatchQueue' \in [Recommendations -> Nat]
BY DEF Requeued, queueVars, TypeInv, DeliveryTypeOK

LEMMA DeadLetteredType ==
    ASSUME TypeInv, NEW w \in Workers, worker[w].rec \in Recommendations, DeadLettered(w)
    PROVE  deadLetters' \subseteq DeadLetters
<1>1. Origin(w) \in {"recommendation", "retry", "dispatch"}
  BY DEF Origin
<1> QED
  BY <1>1 DEF DeadLettered, DeadLetters, TypeInv, DeliveryTypeOK

\* What a step of one worker alone leaves as it is stays well typed.
LEMMA LocalStepType ==
    ASSUME TypeInv, LocalStep
    PROVE  EnvType'
BY DEF LocalStep, queueVars, EnvType, TypeInv, DeliveryTypeOK

LEMMA EnvTypeStep ==
    ASSUME TypeInv, DeliveryNext
    PROVE  EnvType'
<1> USE DEF TypeInv, DeliveryTypeOK, EnvType
<1>1. ASSUME NEW r \in Recommendations, NEW d \in Deadlines, PublishRecommendation(r, d)
      PROVE  EnvType'
  BY <1>1, UseType DEF PublishRecommendation, Bounds
<1>2. ASSUME NEW r \in Recommendations, OutboxDelivers(r) PROVE EnvType'
  BY <1>2, UseType DEF OutboxDelivers
<1>3. CASE Tick
  BY <1>3, DeliveryAssumption DEF Tick, queueVars, DeliveryAssumption
<1>4. ASSUME NEW w \in Workers, WorkerStep(w) PROVE EnvType'
  <2>1. worker[w].step \notin {"idle", "sweep"} => worker[w].rec \in Recommendations
    BY DEF TypedWorker
  <2>2. CASE AdapterAccepts(w)
    BY <2>2 DEF AdapterAccepts, queueVars
  <2>3. CASE PublishDeadLetter(w)
    BY <2>1, <2>3, DeadLetteredType DEF PublishDeadLetter, queueVars, At
  <2>4. CASE Nack(w)
    BY <2>1, <2>4, DeadLetteredType DEF Nack, queueVars, At
  <2>5. CASE LocalStep
    BY <2>5, LocalStepType
  <2> QED
    BY <1>4, <2>2, <2>3, <2>4, <2>5
       DEF WorkerStep, StaleBinding, CreateIntent, ReuseIntent, CheckExpiry, Expire, Prepare,
           Reject, Claim, AdapterFails, Acknowledge, ScheduleRetry, FailFinally,
           LostTransition, Ack
<1>5. ASSUME NEW c \in Consumers, ConsumerStep(c) PROVE EnvType'
  <2>1. CASE Sweep(c) \/ SweepNext(c) \/ SweepFailed(c)
    BY <2>1, LocalStepType DEF Sweep, SweepNext, SweepFailed
  <2>2. ASSUME NEW r \in Recommendations, NEW d \in Deadlines, ReceiveRecommendation(c, r, d)
        PROVE  EnvType'
    BY <2>2 DEF ReceiveRecommendation
  <2> QED
    BY <1>4, <1>5, <2>1, <2>2 DEF ConsumerStep, Workers
<1>6. ASSUME NEW w \in Dispatchers, DispatcherStep(w) PROVE EnvType'
  <2>1. ASSUME NEW r \in Recommendations, ReceiveDispatch(w, r) PROVE EnvType'
    BY <2>1 DEF ReceiveDispatch
  <2> QED
    BY <1>4, <1>6, <2>1 DEF DispatcherStep, Workers
<1>7. ASSUME NEW w \in Workers, Fault(w) PROVE EnvType'
  <2>1. worker[w].step \notin {"idle", "sweep"} => worker[w].rec \in Recommendations
    BY DEF TypedWorker
  <2>2. CASE StatementFails(w)
    BY <2>2, UseType DEF StatementFails, queueVars, Bounds
  <2>3. CASE DeadLetterFails(w)
    BY <2>1, <2>3, UseType, RequeuedType, DeadLetteredType DEF DeadLetterFails, At, Bounds
  <2>4. CASE ChannelLost(w)
    BY <2>4, UseType, RequeuedType DEF ChannelLost, Bounds
  <2>5. CASE Crash(w)
    BY <2>5, UseType, RequeuedType DEF Crash, Bounds
  <2> QED
    BY <1>7, <2>2, <2>3, <2>4, <2>5 DEF Fault
<1> QED
  BY <1>1, <1>2, <1>3, <1>5, <1>6, <1>7 DEF DeliveryNext

\* One worker that becomes a well typed one leaves all of them so.
LEMMA BecomesType ==
    ASSUME TypeInv, NEW w \in Workers, NEW ws, TypedWorker(ws), BecomesWorker(w, ws)
    PROVE  /\ worker' \in [Workers -> WorkerState]
           /\ \A v \in Workers : TypedWorker(worker'[v])
BY DEF TypeInv, DeliveryTypeOK, BecomesWorker, TypedWorker

\* The states of workers, at least, keep their types in every kind of step.
LEMMA WorkerTypeStep ==
    ASSUME TypeInv, DeliveryNext
    PROVE  /\ worker' \in [Workers -> WorkerState]
           /\ \A v \in Workers : TypedWorker(worker'[v])
<1>1. CASE Resting
  BY <1>1 DEF Resting, TypeInv, DeliveryTypeOK
<1>2. ASSUME NEW w \in Workers, Moving(w) \/ Committing(w)
      PROVE  /\ worker' \in [Workers -> WorkerState]
             /\ \A v \in Workers : TypedWorker(worker'[v])
  BY <1>2, BecomesType DEF Moving, Committing, Left
<1>3. ASSUME NEW w \in Workers, Claiming(w) \/ AdapterAccepts(w)
      PROVE  /\ worker' \in [Workers -> WorkerState]
             /\ \A v \in Workers : TypedWorker(worker'[v])
  <2>1. /\ worker[w] \in WorkerState /\ worker[w].rec \in Recommendations
        /\ intent \in [Recommendations -> Row]
    BY <1>3 DEF TypeInv, DeliveryTypeOK, TypedWorker, Claiming, CommitClaim, AdapterAccepts, At
  <2>2. RowOf(w).retries + 1 \in Nat
    BY <2>1 DEF RowOf, Row
  <2>3. CASE Claiming(w)
    <3>1. TypedWorker(Claimant(w))
      BY <2>1, <2>2 DEF TypedWorker, Claimant, WorkerState, Steps
    <3> QED
      BY <2>3, <3>1, BecomesType DEF Claiming
  <2>4. CASE AdapterAccepts(w)
    <3>1. TypedWorker([worker[w] EXCEPT !.step = "acknowledge"])
      BY <2>1 DEF TypedWorker, WorkerState, Steps
    <3>2. BecomesWorker(w, [worker[w] EXCEPT !.step = "acknowledge"])
      BY <2>4, UpdatesAreBecoming DEF AdapterAccepts
    <3> QED
      BY <3>1, <3>2, BecomesType
  <2> QED
    BY <1>3, <2>3, <2>4
<1> QED
  BY <1>1, <1>2, <1>3, StepKinds

\* So do the rows and the effects.
LEMMA RowTypeStep ==
    ASSUME TypeInv, DeliveryNext
    PROVE  /\ intent' \in [Recommendations -> Row]
           /\ prepared' \subseteq Recommendations
           /\ effects' \in [Recommendations -> SUBSET Nat]
<1> USE DEF TypeInv, DeliveryTypeOK
<1>1. CASE RowsKept
  BY <1>1 DEF RowsKept
<1>2. ASSUME NEW w \in Workers, Commit(w), UNCHANGED effects
      PROVE  /\ intent' \in [Recommendations -> Row]
             /\ prepared' \subseteq Recommendations
             /\ effects' \in [Recommendations -> SUBSET Nat]
  BY <1>2, CommitRow DEF Transition, Moves
<1>3. ASSUME NEW w \in Workers, AdapterAccepts(w)
      PROVE  /\ intent' \in [Recommendations -> Row]
             /\ prepared' \subseteq Recommendations
             /\ effects' \in [Recommendations -> SUBSET Nat]
  <2>1. worker[w].attempt \in Nat
    BY DEF WorkerState
  <2> QED
    BY <1>3, <2>1 DEF AdapterAccepts
<1> QED
  BY <1>1, <1>2, <1>3, StepKinds DEF Resting, Moving, Committing, Claiming, Commit

LEMMA TypeStep ==
    ASSUME TypeInv, [DeliveryNext]_deliveryVars
    PROVE  TypeInv'
<1>1. CASE DeliveryNext
  BY <1>1, EnvTypeStep, WorkerTypeStep, RowTypeStep DEF TypeInv, DeliveryTypeOK, EnvType
<1>2. CASE UNCHANGED deliveryVars
  BY <1>2 DEF deliveryVars, TypeInv, DeliveryTypeOK
<1> QED
  BY <1>1, <1>2

LEMMA TypeInit == DeliveryInit => TypeInv
<1> SUFFICES ASSUME DeliveryInit PROVE TypeInv
  OBVIOUS
<1>1. NoRow \in Row
  BY DEF NoRow, Row, Statuses
<1> QED
  BY <1>1, RestingType, DeliveryAssumption
     DEF DeliveryInit, TypeInv, DeliveryTypeOK, TypedWorker, DeliveryAssumption

\* Rows, queues, workers and the dead-letter queue keep their types in every
\* behaviour, whatever fails.
THEOREM DeliveryTypeCorrect == DeliverySpec => []DeliveryTypeOK
<1>1. TypeInv => DeliveryTypeOK
  BY DEF TypeInv
<1> QED
  BY <1>1, TypeInit, TypeStep, PTL DEF DeliverySpec

-----------------------------------------------------------------------------
(***************************************************************************)
(* The transaction of preparation.                                         *)
(***************************************************************************)

\* A worker that has just created an intent prepares it: it never claims it.
FreshIsPrepared == \A w \in Workers : At(w, "claim") => worker[w].task # "fresh"

\* What the kinds of steps do to the local states.
LEMMA LocalStates ==
    ASSUME TypeInv, NEW w \in Workers, NEW ws, BecomesWorker(w, ws)
    PROVE  worker'[w] = ws /\ \A v \in Workers \ {w} : worker'[v] = worker[v]
BY DEF TypeInv, DeliveryTypeOK, BecomesWorker

LEMMA FreshStep ==
    ASSUME TypeInv, FreshIsPrepared, [DeliveryNext]_deliveryVars
    PROVE  FreshIsPrepared'
<1>1. CASE UNCHANGED deliveryVars
  BY <1>1 DEF deliveryVars, FreshIsPrepared, At
<1>2. CASE Resting
  BY <1>2 DEF Resting, FreshIsPrepared, At
<1>3. ASSUME NEW w \in Workers, NEW ws, BecomesWorker(w, ws),
             ws.step = "claim" => ws.task # "fresh"
      PROVE  FreshIsPrepared'
  BY <1>3, LocalStates DEF FreshIsPrepared, At
<1>4. ASSUME NEW w \in Workers, Left(w) PROVE FreshIsPrepared'
  BY <1>3, <1>4 DEF Left, Leaves
<1>5. ASSUME NEW w \in Workers, Moving(w) PROVE FreshIsPrepared'
  <2>1. ASSUME NEW ws, BecomesWorker(w, ws), Keeps(worker[w], ws) PROVE FreshIsPrepared'
    BY <1>3, <2>1 DEF Keeps, FreshIsPrepared, At
  <2> QED
    BY <1>4, <1>5, <2>1 DEF Moving
<1>6. ASSUME NEW w \in Workers, Claiming(w) PROVE FreshIsPrepared'
  <2>1. Claimant(w).step = "deliver"
    BY DEF Claimant, TypeInv, DeliveryTypeOK, WorkerState
  <2> QED
    BY <1>3, <1>6, <2>1 DEF Claiming
<1>7. ASSUME NEW w \in Workers, AdapterAccepts(w) PROVE FreshIsPrepared'
  <2>1. [worker[w] EXCEPT !.step = "acknowledge"].step = "acknowledge"
    BY DEF TypeInv, DeliveryTypeOK, WorkerState
  <2> QED
    BY <1>3, <1>7, <2>1, UpdatesAreBecoming DEF AdapterAccepts
<1> QED
  BY <1>1, <1>2, <1>4, <1>5, <1>6, <1>7, StepKinds DEF Committing

LEMMA PreparedStep ==
    ASSUME TypeInv, FreshIsPrepared, PreparedExactly, [DeliveryNext]_deliveryVars
    PROVE  PreparedExactly'
<1>1. CASE UNCHANGED <<intent, prepared>>
  BY <1>1 DEF PreparedExactly
<1>2. ASSUME NEW w \in Workers, Commit(w) PROVE PreparedExactly'
  <2> DEFINE r == worker[w].rec
  <2>1. /\ r \in Recommendations
        /\ \A q \in Recommendations \ {r} : intent'[q] = intent[q]
        /\ Transition(w)
    BY <1>2, CommitRow
  <2>2. prepared' = prepared \/ prepared' = prepared \cup {r}
    BY <2>1 DEF Transition, Moves
  <2>3. At(w, "claim") => Unclaimed(w) # "received"
    BY UnclaimedStatus DEF FreshIsPrepared
  <2>4. /\ intent'[r].status \in {"ready_to_dispatch", "dispatched", "retry_pending",
                                  "acknowledged", "failed_final"} => r \in prepared'
        /\ intent'[r].status \in {"absent", "received", "rejected"} => r \notin prepared'
    BY <2>1, <2>3 DEF Transition, Moves, PreparedExactly, RowOf
  <2> QED
    BY <2>1, <2>2, <2>4 DEF PreparedExactly
<1> QED
  BY <1>1, <1>2, StepKinds
     DEF deliveryVars, Resting, Moving, RowsKept, Committing, Claiming, AdapterAccepts, Commit

\* An intent past received has its outbox event and one before it has none,
\* in every behaviour: no failed statement or death separates the two.
THEOREM PreparedExactlyHolds == DeliverySpec => []PreparedExactly
<1> DEFINE Inv == TypeInv /\ FreshIsPrepared /\ PreparedExactly
<1>1. DeliveryInit => Inv
  BY TypeInit
     DEF DeliveryInit, FreshIsPrepared, PreparedExactly, At, Idle, NoRow
<1>2. Inv /\ [DeliveryNext]_deliveryVars => Inv'
  BY TypeStep, FreshStep, PreparedStep
<1> QED
  BY <1>1, <1>2, PTL DEF DeliverySpec

-----------------------------------------------------------------------------
(***************************************************************************)
(* The claim excludes: one owner of an intent at a time.                   *)
(***************************************************************************)

\* The row of an owner is in its attempt; acknowledged already, if the answer
\* to the acknowledgement was lost.
InAttempt(w) ==
    /\ worker[w].attempt = RowOf(w).retries
    /\ \/ RowOf(w).status = "dispatched"
       \/ At(w, "failure") /\ RowOf(w).status = "acknowledged"

\* OneOwner with the status that keeps others from claiming the intent.
OwnerInv ==
    \A w \in Workers : Owns(w) =>
        /\ InAttempt(w)
        /\ \A v \in Workers : Owns(v) /\ worker[v].rec = worker[w].rec => v = w

\* An owner after the step was one before it, at the same attempt: where it
\* was, or on its way from the adapter or the acknowledgement to the failure.
StillOwner(v) ==
    Owns(v)' =>
        /\ Owns(v)
        /\ worker'[v].rec = worker[v].rec
        /\ worker'[v].attempt = worker[v].attempt
        /\ \/ worker'[v].step = worker[v].step
           \/ worker'[v].step = "failure" /\ worker[v].step \in {"deliver", "acknowledge"}

\* Moves and commits make no owner.
LEMMA NoNewOwner ==
    ASSUME TypeInv, NEW w \in Workers, Moving(w) \/ Left(w)
    PROVE  \A v \in Workers : StillOwner(v)
<1>1. PICK ws : BecomesWorker(w, ws) /\ (Leaves(worker[w], ws) \/ Keeps(worker[w], ws))
  BY DEF Moving, Left
<1>2. worker'[w] = ws /\ \A v \in Workers \ {w} : worker'[v] = worker[v]
  BY <1>1, LocalStates
<1>3. StillOwner(w)
  BY <1>1, <1>2 DEF StillOwner, Owns, Leaves, Keeps
<1> QED
  BY <1>2, <1>3 DEF StillOwner, Owns

\* Nobody owns an intent that another worker's statement finds unclaimed.
LEMMA UnclaimedHasNoOwner ==
    ASSUME OwnerInv, NEW v \in Workers,
           RowOf(v).status \in {"absent", "received", "ready_to_dispatch", "retry_pending"}
    PROVE  ~Owns(v)
BY DEF OwnerInv, InAttempt

LEMMA OwnerMoves ==
    ASSUME TypeInv, OwnerInv, NEW w \in Workers, Moving(w)
    PROVE  OwnerInv'
<1>1. \A v \in Workers : StillOwner(v)
  BY NoNewOwner
<1>2. UNCHANGED intent
  BY DEF Moving, RowsKept
<1>3. ASSUME NEW v \in Workers, Owns(v)' PROVE InAttempt(v)'
  BY <1>1, <1>2, <1>3 DEF StillOwner, OwnerInv, InAttempt, RowOf, At, Owns
<1> QED
  BY <1>1, <1>3 DEF OwnerInv, StillOwner

LEMMA OwnerCommits ==
    ASSUME TypeInv, OwnerInv, NEW w \in Workers, Committing(w)
    PROVE  OwnerInv'
<1> DEFINE r == worker[w].rec
<1>1. \A v \in Workers : StillOwner(v)
  BY NoNewOwner DEF Committing
<1>2. /\ \A q \in Recommendations \ {r} : intent'[q] = intent[q]
      /\ r \in Recommendations
      /\ Transition(w)
      /\ intent \in [Recommendations -> Row]
  BY CommitRow DEF Committing, TypeInv, DeliveryTypeOK
<1>3. ASSUME NEW v \in Workers, Owns(v)' PROVE InAttempt(v)'
  <2>1. /\ Owns(v) /\ InAttempt(v)
        /\ worker'[v].rec = worker[v].rec
        /\ worker'[v].attempt = worker[v].attempt
    BY <1>1, <1>3 DEF StillOwner, OwnerInv
  <2>2. worker[v].rec \in Recommendations
    BY <2>1 DEF Owns, TypeInv, TypedWorker
  <2>3. CASE worker[v].rec # r
    BY <1>1, <1>2, <1>3, <2>1, <2>2, <2>3 DEF InAttempt, RowOf, At, StillOwner
  <2>4. CASE worker[v].rec = r
    <3>1. RowOf(w).status \in {"dispatched", "acknowledged"}
      BY <2>1, <2>4 DEF InAttempt, RowOf
    <3>2. At(w, "acknowledge") \/ At(w, "failure")
      BY <1>2, <3>1 DEF Transition, Moves, RowOf
    <3>3. v = w
      BY <2>1, <2>4, <3>2 DEF OwnerInv, Owns, At
    <3>4. At(w, "acknowledge") /\ worker'[w].step = "failure"
      <4>1. PICK ws : BecomesWorker(w, ws) /\ Leaves(worker[w], ws)
        BY DEF Committing, Left
      <4>2. worker'[w] = ws
        BY <4>1, LocalStates
      <4> QED
        BY <1>3, <3>2, <3>3, <4>1, <4>2 DEF Leaves, Owns, At
    <3>5. intent'[r].status = "acknowledged" /\ intent'[r].retries = intent[r].retries
      <4>1. Moves(w, "acknowledge", {"dispatched"}, "acknowledged", 0)
        BY <1>2, <3>4 DEF Transition, Moves, At
      <4> QED
        BY <1>2, <4>1 DEF Moves, RowOf, Row
    <3> QED
      BY <2>1, <3>3, <3>4, <3>5 DEF InAttempt, RowOf, At
  <2> QED
    BY <2>3, <2>4
<1> QED
  BY <1>1, <1>3 DEF OwnerInv, StillOwner

LEMMA OwnerClaims ==
    ASSUME TypeInv, OwnerInv, NEW w \in Workers, Claiming(w)
    PROVE  OwnerInv'
<1> DEFINE r == worker[w].rec
<1>1. /\ \A q \in Recommendations \ {r} : intent'[q] = intent[q]
      /\ r \in Recommendations
      /\ Moves(w, "claim", {"received", "ready_to_dispatch", "retry_pending"}, "dispatched", 1)
  <2>1. Commit(w) /\ At(w, "claim")
    BY DEF Claiming, Commit, CommitClaim
  <2> QED
    BY <2>1, CommitRow DEF Transition, Moves, At
<1>2. /\ worker'[w].step = "deliver" /\ worker'[w].rec = r
      /\ worker'[w].attempt = RowOf(w).retries + 1
      /\ \A v \in Workers \ {w} : worker'[v] = worker[v]
  <2>1. /\ Claimant(w).step = "deliver" /\ Claimant(w).rec = r
        /\ Claimant(w).attempt = RowOf(w).retries + 1
    BY DEF Claimant, TypeInv, DeliveryTypeOK, WorkerState
  <2> QED
    BY <2>1, LocalStates DEF Claiming
<1>3. \A v \in Workers : worker[v].rec = r => ~Owns(v)
  BY <1>1, UnclaimedHasNoOwner DEF Moves, RowOf
<1>4. ASSUME NEW v \in Workers \ {w}, Owns(v)'
      PROVE  /\ InAttempt(v)'
             /\ worker'[v].rec # r
             /\ Owns(v)
  <2>1. Owns(v) /\ worker[v].rec # r /\ worker[v].rec \in Recommendations
    BY <1>2, <1>3, <1>4 DEF Owns, TypeInv, TypedWorker
  <2> QED
    BY <1>1, <1>2, <2>1 DEF OwnerInv, InAttempt, RowOf, At
<1>5. InAttempt(w)'
  BY <1>1, <1>2 DEF InAttempt, RowOf, Moves
<1> QED
  BY <1>2, <1>4, <1>5 DEF OwnerInv

LEMMA OwnerAccepts ==
    ASSUME TypeInv, OwnerInv, NEW w \in Workers, AdapterAccepts(w)
    PROVE  OwnerInv'
<1> DEFINE ws == [worker[w] EXCEPT !.step = "acknowledge"]
<1>1. /\ ws.step = "acknowledge" /\ ws.rec = worker[w].rec /\ ws.attempt = worker[w].attempt
  BY DEF TypeInv, DeliveryTypeOK, WorkerState
<1>2. worker'[w] = ws /\ \A v \in Workers \ {w} : worker'[v] = worker[v]
  BY UpdatesAreBecoming, LocalStates DEF AdapterAccepts
<1>3. UNCHANGED intent /\ Owns(w) /\ At(w, "deliver")
  BY DEF AdapterAccepts, Owns, At
<1> HIDE DEF ws
<1>4. \A v \in Workers :
          /\ Owns(v)' => Owns(v)
          /\ worker'[v].rec = worker[v].rec
          /\ worker'[v].attempt = worker[v].attempt
          /\ worker'[v].step = worker[v].step \/ worker[v].step = "deliver"
  BY <1>1, <1>2, <1>3 DEF Owns, At
<1>5. ASSUME NEW v \in Workers, Owns(v)' PROVE InAttempt(v)'
  BY <1>3, <1>4, <1>5 DEF OwnerInv, InAttempt, RowOf, At
<1> QED
  BY <1>4, <1>5 DEF OwnerInv

LEMMA OwnerStep ==
    ASSUME TypeInv, OwnerInv, [DeliveryNext]_deliveryVars
    PROVE  OwnerInv'
<1>1. CASE UNCHANGED <<intent, worker>>
  BY <1>1 DEF OwnerInv, InAttempt, RowOf, Owns, At
<1> QED
  BY <1>1, StepKinds, OwnerMoves, OwnerCommits, OwnerClaims, OwnerAccepts
     DEF deliveryVars, Resting, RowsKept

\* At most one worker is in the dispatch attempt of an intent, whatever
\* duplicates, retries, sweeps, failed statements and deaths race for it; and
\* its attempt is the one the row counts.
THEOREM OneOwnerHolds == DeliverySpec => []OneOwner
<1> DEFINE Inv == TypeInv /\ OwnerInv
<1>1. DeliveryInit => Inv
  BY TypeInit DEF DeliveryInit, OwnerInv, Owns, Idle
<1>2. Inv /\ [DeliveryNext]_deliveryVars => Inv'
  BY TypeStep, OwnerStep
<1>3. Inv => OneOwner
  BY DEF OwnerInv, InAttempt, OneOwner
<1> QED
  BY <1>1, <1>2, <1>3, PTL DEF DeliverySpec

=============================================================================
