---------------------- MODULE ActuationDeliveryRefinement ----------------------
(***************************************************************************)
(* Delivery implements the life cycle of intents, for any sets of          *)
(* recommendations, consumers and dispatchers and any bounds.  The limit   *)
(* of attempts and the effects of the adapter join the invariant: that an  *)
(* attempt takes effect at most once rests on the exclusion of the claim.  *)
(***************************************************************************)
EXTENDS ActuationDeliveryProofs

\* The attempts a row has left, and the attempts that took effect.
AttemptsInv ==
    \A r \in Recommendations :
        /\ intent[r].status \in {"absent", "received", "ready_to_dispatch"}
             => intent[r].retries = 0
        /\ intent[r].status = "retry_pending" => intent[r].retries < MaxRetryAttempts
        /\ effects[r] \subseteq 0 .. intent[r].retries

\* The adapter takes effect between the claim and the acknowledgement.
EffectInv ==
    \A w \in Workers :
        /\ At(w, "deliver") => worker[w].attempt \notin effects[worker[w].rec]
        /\ At(w, "acknowledge") => worker[w].attempt \in effects[worker[w].rec]

\* A transition keeps the budget of its row, if its worker's attempt is the row's.
LEMMA AttemptsStep ==
    ASSUME TypeInv, OwnerInv, AttemptsInv, [DeliveryNext]_deliveryVars
    PROVE  AttemptsInv'
<1>1. CASE UNCHANGED <<intent, effects>>
  BY <1>1 DEF AttemptsInv
<1>2. ASSUME NEW w \in Workers, Commit(w), UNCHANGED effects PROVE AttemptsInv'
  <2> DEFINE r == worker[w].rec
  <2>1. /\ r \in Recommendations
        /\ \A q \in Recommendations \ {r} : intent'[q] = intent[q]
        /\ Transition(w)
        /\ intent[r].retries \in Nat
    BY <1>2, CommitRow DEF TypeInv, DeliveryTypeOK, Row
  <2>2. /\ intent'[r].retries \in Nat
        /\ intent'[r].retries >= intent[r].retries
    BY <2>1 DEF Transition, Moves, RowOf, AttemptsInv
  <2>3. intent'[r].status \in {"absent", "received", "ready_to_dispatch"}
          => intent'[r].retries = 0
    BY <2>1 DEF Transition, Moves, RowOf, AttemptsInv
  <2>4. intent'[r].status = "retry_pending" => intent'[r].retries < MaxRetryAttempts
    BY <2>1 DEF Transition, Moves, RowOf, OwnerInv, InAttempt, Owns, At, CanRetry
  <2>5. effects'[r] \subseteq 0 .. intent'[r].retries
    BY <1>2, <2>1, <2>2 DEF AttemptsInv
  <2> QED
    BY <1>2, <2>1, <2>3, <2>4, <2>5 DEF AttemptsInv
<1>3. ASSUME NEW w \in Workers, AdapterAccepts(w) PROVE AttemptsInv'
  <2>1. /\ worker[w].attempt = intent[worker[w].rec].retries
        /\ worker[w].rec \in Recommendations
        /\ intent[worker[w].rec].retries \in Nat
    BY <1>3 DEF AdapterAccepts, At, Owns, OwnerInv, InAttempt, RowOf, TypeInv,
                DeliveryTypeOK, TypedWorker, Row
  <2>2. \A r \in Recommendations :
            effects'[r] = IF r = worker[w].rec THEN effects[r] \cup {worker[w].attempt}
                                               ELSE effects[r]
    BY <1>3 DEF AdapterAccepts, TypeInv, DeliveryTypeOK
  <2>3. worker[w].attempt \in 0 .. intent[worker[w].rec].retries
    BY <2>1
  <2>4. \A r \in Recommendations : effects'[r] \subseteq 0 .. intent[r].retries
    BY <2>2, <2>3 DEF AttemptsInv
  <2> QED
    BY <1>3, <2>4 DEF AdapterAccepts, AttemptsInv
<1> QED
  BY <1>1, <1>2, <1>3, StepKinds
     DEF deliveryVars, Resting, Moving, RowsKept, Committing, Claiming, Commit

\* No step makes an attempt take effect twice, or be acknowledged without one.
LEMMA EffectStep ==
    ASSUME TypeInv, OwnerInv, AttemptsInv, EffectInv, [DeliveryNext]_deliveryVars
    PROVE  EffectInv'
<1>1. CASE UNCHANGED <<worker, effects>>
  BY <1>1 DEF EffectInv, At
<1>2. ASSUME NEW w \in Workers, Moving(w) \/ Committing(w) PROVE EffectInv'
  <2>1. \A v \in Workers : StillOwner(v)
    BY <1>2, NoNewOwner DEF Committing
  <2>2. UNCHANGED effects
    BY <1>2 DEF Moving, RowsKept, Committing
  <2> QED
    BY <2>1, <2>2 DEF EffectInv, StillOwner, Owns, At
<1>3. ASSUME NEW w \in Workers, Claiming(w) PROVE EffectInv'
  <2>1. /\ worker[w].rec \in Recommendations
        /\ RowOf(w).retries \in Nat
    BY <1>3 DEF Claiming, CommitClaim, At, RowOf, TypeInv, DeliveryTypeOK, TypedWorker, Row
  <2>2. /\ Claimant(w).step = "deliver" /\ Claimant(w).rec = worker[w].rec
        /\ Claimant(w).attempt = RowOf(w).retries + 1
    BY DEF Claimant, TypeInv, DeliveryTypeOK, WorkerState
  <2>3. RowOf(w).retries + 1 \notin effects[worker[w].rec]
    BY <2>1 DEF AttemptsInv, RowOf
  <2>4. worker'[w] = Claimant(w) /\ \A v \in Workers \ {w} : worker'[v] = worker[v]
    BY <1>3, LocalStates DEF Claiming
  <2> QED
    BY <1>3, <2>2, <2>3, <2>4 DEF Claiming, EffectInv, At
<1>4. ASSUME NEW w \in Workers, AdapterAccepts(w) PROVE EffectInv'
  <2> DEFINE ws == [worker[w] EXCEPT !.step = "acknowledge"]
  <2>1. /\ ws.step = "acknowledge" /\ ws.rec = worker[w].rec /\ ws.attempt = worker[w].attempt
    BY DEF TypeInv, DeliveryTypeOK, WorkerState
  <2>2. worker'[w] = ws /\ \A v \in Workers \ {w} : worker'[v] = worker[v]
    BY <1>4, UpdatesAreBecoming, LocalStates DEF AdapterAccepts
  <2> HIDE DEF ws
  <2>3. worker[w].rec \in Recommendations /\ Owns(w)
    BY <1>4 DEF AdapterAccepts, At, Owns, TypeInv, TypedWorker
  <2>4. \A r \in Recommendations :
            effects'[r] = IF r = worker[w].rec THEN effects[r] \cup {worker[w].attempt}
                                               ELSE effects[r]
    BY <1>4 DEF AdapterAccepts, TypeInv, DeliveryTypeOK
  <2>5. ASSUME NEW v \in Workers \ {w}, Owns(v)
        PROVE  effects'[worker[v].rec] = effects[worker[v].rec]
    <3>1. worker[v].rec \in Recommendations /\ worker[v].rec # worker[w].rec
      BY <2>3, <2>5 DEF OwnerInv, Owns, TypeInv, TypedWorker
    <3> QED
      BY <2>4, <3>1
  <2>6. ASSUME NEW v \in Workers \ {w}
        PROVE  /\ At(v, "deliver")' => worker'[v].attempt \notin effects'[worker'[v].rec]
               /\ At(v, "acknowledge")' => worker'[v].attempt \in effects'[worker'[v].rec]
    BY <2>2, <2>5 DEF EffectInv, Owns, At
  <2>7. ~At(w, "deliver")' /\ worker'[w].attempt \in effects'[worker'[w].rec]
    BY <2>1, <2>2, <2>3, <2>4 DEF At
  <2> QED
    BY <2>6, <2>7 DEF EffectInv
<1> QED
  BY <1>1, <1>2, <1>3, <1>4, StepKinds DEF deliveryVars, Resting, RowsKept

-----------------------------------------------------------------------------
(***************************************************************************)
(* The refinement.                                                         *)
(***************************************************************************)

\* The abstract view of the rows.
StatusOf == [r \in Recommendations |-> intent[r].status]
TriesOf == [r \in Recommendations |-> intent[r].retries]

\* A change of one row is a change of the abstract view at one place.
LEMMA OneRow ==
    ASSUME TypeInv, NEW r \in Recommendations, NEW to, NEW n,
           \A q \in Recommendations \ {r} : intent'[q] = intent[q],
           intent'[r].status = to, intent'[r].retries = n
    PROVE  /\ StatusOf' = [StatusOf EXCEPT ![r] = to]
           /\ TriesOf' = [TriesOf EXCEPT ![r] = n]
           /\ n = intent[r].retries => UNCHANGED TriesOf
BY DEF StatusOf, TriesOf

\* A statement is an operation of the life cycle on the row of its request.
LEMMA CommitRefines ==
    ASSUME TypeInv, FreshIsPrepared, OwnerInv, AttemptsInv, EffectInv,
           NEW w \in Workers, Commit(w), UNCHANGED effects
    PROVE  Lifecycle!IntentNext
<1>0. PICK r \in Recommendations : r = worker[w].rec
  BY CommitRow
<1> DEFINE n == intent[r].retries
<1>1. /\ r = worker[w].rec
      /\ \A q \in Recommendations \ {r} : intent'[q] = intent[q]
      /\ Transition(w)
      /\ n \in Nat
  BY <1>0, CommitRow DEF TypeInv, DeliveryTypeOK, Row
<1>2. /\ StatusOf[r] = intent[r].status
      /\ TriesOf[r] = n
  BY <1>1 DEF StatusOf, TriesOf
<1>3. ASSUME NEW from, NEW to, intent[r].status \in from,
             intent'[r].status = to, intent'[r].retries = n
      PROVE  Lifecycle!Move(r, from, to) /\ UNCHANGED TriesOf
  BY <1>1, <1>2, <1>3, OneRow DEF Lifecycle!Move, StatusOf
<1>4. CASE intent[r].status = "absent" /\ intent'[r].status = "received"
           /\ intent'[r].retries = 0
  <2>1. n = 0
    BY <1>1, <1>4 DEF AttemptsInv
  <2>2. Lifecycle!Create(r)
    BY <1>3, <1>4, <2>1 DEF Lifecycle!Create, TriesOf
  <2> QED
    BY <1>1, <2>2 DEF Lifecycle!IntentNext
<1>5. CASE intent[r].status = "received" /\ intent'[r].status = "ready_to_dispatch"
           /\ intent'[r].retries = n
  <2>1. Lifecycle!Prepare(r)
    BY <1>3, <1>5 DEF Lifecycle!Prepare, TriesOf
  <2> QED
    BY <1>1, <2>1 DEF Lifecycle!IntentNext
<1>6. CASE Moves(w, "prepare", {"received"}, "rejected", 0)
  <2>1. Lifecycle!Reject(r)
    BY <1>1, <1>3, <1>6 DEF Moves, RowOf, Lifecycle!Reject, TriesOf
  <2> QED
    BY <1>1, <2>1 DEF Lifecycle!IntentNext
<1>7. CASE Moves(w, "expire", {"received", "ready_to_dispatch", "retry_pending"}, "expired", 0)
  <2>1. Lifecycle!Expire(r)
    BY <1>1, <1>3, <1>7 DEF Moves, RowOf, Lifecycle!Expire, TriesOf
  <2> QED
    BY <1>1, <2>1 DEF Lifecycle!IntentNext
<1>8. CASE /\ Moves(w, "claim", {"received", "ready_to_dispatch", "retry_pending"}, "dispatched", 1)
           /\ RowOf(w).status = Unclaimed(w)
  <2>1. /\ intent[r].status \in {"ready_to_dispatch", "retry_pending"}
        /\ intent'[r].status = "dispatched"
        /\ intent'[r].retries = n + 1
    BY <1>1, <1>8, UnclaimedStatus DEF Moves, RowOf, FreshIsPrepared
  <2>2. n < MaxRetryAttempts
    BY <1>1, <2>1, DeliveryAssumption DEF AttemptsInv, DeliveryAssumption
  <2>3. /\ StatusOf' = [StatusOf EXCEPT ![r] = "dispatched"]
        /\ TriesOf' = [TriesOf EXCEPT ![r] = n + 1]
    BY <1>1, <2>1, OneRow
  <2>4. Lifecycle!Dispatch(r)
    BY <1>1, <1>2, <2>1, <2>2, <2>3 DEF Lifecycle!Dispatch, Lifecycle!Move, StatusOf, TriesOf
  <2> QED
    BY <1>1, <2>4 DEF Lifecycle!IntentNext
<1>9. CASE Moves(w, "acknowledge", {"dispatched"}, "acknowledged", 0)
  <2>1. n \in effects[r]
    BY <1>1, <1>9 DEF Moves, EffectInv, OwnerInv, InAttempt, Owns, At, RowOf
  <2>2. Lifecycle!Acknowledge(r)
    BY <1>1, <1>2, <1>3, <1>9, <2>1 DEF Moves, RowOf, Lifecycle!Acknowledge, TriesOf
  <2> QED
    BY <1>1, <2>2 DEF Lifecycle!IntentNext
<1>10. CASE Moves(w, "failure", {"dispatched"}, "retry_pending", 0) /\ CanRetry(w)
  <2>1. n < MaxRetryAttempts
    BY <1>1, <1>10 DEF Moves, OwnerInv, InAttempt, Owns, At, RowOf, CanRetry
  <2>2. Lifecycle!ScheduleRetry(r)
    BY <1>1, <1>2, <1>3, <1>10, <2>1 DEF Moves, RowOf, Lifecycle!ScheduleRetry, TriesOf
  <2> QED
    BY <1>1, <2>2 DEF Lifecycle!IntentNext
<1>11. CASE Moves(w, "failure", {"dispatched"}, "failed_final", 0)
  <2>1. Lifecycle!Fail(r)
    BY <1>1, <1>3, <1>11 DEF Moves, RowOf, Lifecycle!Fail, TriesOf
  <2> QED
    BY <1>1, <2>1 DEF Lifecycle!IntentNext
<1> QED
  BY <1>1, <1>4, <1>5, <1>6, <1>7, <1>8, <1>9, <1>10, <1>11 DEF Transition

\* The adapter's effect is the life cycle's, in an attempt that had none.
LEMMA AcceptRefines ==
    ASSUME TypeInv, OwnerInv, EffectInv, NEW w \in Workers, AdapterAccepts(w)
    PROVE  Lifecycle!IntentNext
<1>0. PICK r \in Recommendations : r = worker[w].rec
  BY DEF AdapterAccepts, At, TypeInv, TypedWorker
<1>1. /\ intent[r].status = "dispatched"
      /\ worker[w].attempt = intent[r].retries
      /\ worker[w].attempt \notin effects[r]
      /\ effects' = [effects EXCEPT ![r] = @ \cup {worker[w].attempt}]
      /\ UNCHANGED intent
  BY <1>0 DEF AdapterAccepts, OwnerInv, InAttempt, EffectInv, Owns, At, RowOf
<1>2. Lifecycle!TakeEffect(r)
  BY <1>1 DEF Lifecycle!TakeEffect
<1> QED
  BY <1>1, <1>2 DEF Lifecycle!IntentNext

\* Every behaviour of delivery, with its races, failures and deaths, is one
\* of the life cycle: VALID_TRANSITIONS, at most MaxRetryAttempts attempts, at
\* most one effect per attempt, and no acknowledgement without one.
THEOREM DeliveryImplementsIntent == DeliverySpec => ImplementsIntent
<1> DEFINE Inv == TypeInv /\ FreshIsPrepared /\ OwnerInv /\ AttemptsInv /\ EffectInv
<1>1. DeliveryInit => Inv
  BY TypeInit
     DEF DeliveryInit, FreshIsPrepared, OwnerInv, AttemptsInv, EffectInv, Owns, At, Idle, NoRow
<1>2. Inv /\ [DeliveryNext]_deliveryVars => Inv'
  BY TypeStep, FreshStep, OwnerStep, AttemptsStep, EffectStep
<1>3. DeliveryInit => Lifecycle!IntentInit
  BY DEF DeliveryInit, Lifecycle!IntentInit, NoRow
<1>4. Inv /\ [DeliveryNext]_deliveryVars => [Lifecycle!IntentNext]_(Lifecycle!intentVars)
  <2> SUFFICES ASSUME Inv, [DeliveryNext]_deliveryVars
               PROVE  [Lifecycle!IntentNext]_(Lifecycle!intentVars)
    OBVIOUS
  <2>1. CASE UNCHANGED <<intent, effects>>
    BY <2>1 DEF Lifecycle!intentVars
  <2>2. CASE \E w \in Workers : Commit(w) /\ UNCHANGED effects
    BY <2>2, CommitRefines
  <2>3. CASE \E w \in Workers : AdapterAccepts(w)
    BY <2>3, AcceptRefines
  <2> QED
    BY <2>1, <2>2, <2>3, StepKinds
       DEF deliveryVars, Resting, Moving, RowsKept, Committing, Claiming, Commit
<1> QED
  BY <1>1, <1>2, <1>3, <1>4, PTL DEF DeliverySpec, ImplementsIntent, Lifecycle!IntentSpec

\* What is proved of the life cycle, of the rows that implement it.
LifecycleProofs == INSTANCE DeliveryIntentProofs WITH
    status <- [r \in Recommendations |-> intent[r].status],
    tries <- [r \in Recommendations |-> intent[r].retries],
    effects <- effects

\* No intent of the delivery, whoever works on it, uses more attempts than the
\* limit, waits for one it does not have, or is acknowledged without an effect.
THEOREM AttemptsWithinLimitHolds == DeliverySpec => []AttemptsWithinLimit
<1>1. LifecycleProofs!LimitIsNat
  BY DeliveryAssumption DEF DeliveryAssumption, LifecycleProofs!LimitIsNat
<1>2. LifecycleProofs!IntentSpec => []LifecycleProofs!AttemptsBounded
  BY <1>1, LifecycleProofs!AttemptsBoundedHolds
<1>3. Lifecycle!IntentInit => LifecycleProofs!IntentInit
  BY DEF Lifecycle!IntentInit, LifecycleProofs!IntentInit
<1>4. [Lifecycle!IntentNext]_(Lifecycle!intentVars)
        => [LifecycleProofs!IntentNext]_(LifecycleProofs!intentVars)
  BY DEF Lifecycle!IntentNext, Lifecycle!Move, Lifecycle!Create, Lifecycle!Prepare,
         Lifecycle!Reject, Lifecycle!Expire, Lifecycle!Dispatch, Lifecycle!TakeEffect,
         Lifecycle!Acknowledge, Lifecycle!ScheduleRetry, Lifecycle!Fail,
         Lifecycle!intentVars, LifecycleProofs!IntentNext, LifecycleProofs!Move,
         LifecycleProofs!Create, LifecycleProofs!Prepare, LifecycleProofs!Reject,
         LifecycleProofs!Expire, LifecycleProofs!Dispatch, LifecycleProofs!TakeEffect,
         LifecycleProofs!Acknowledge, LifecycleProofs!ScheduleRetry,
         LifecycleProofs!Fail, LifecycleProofs!intentVars
<1>5. LifecycleProofs!AttemptsBounded => AttemptsWithinLimit
  BY DEF LifecycleProofs!AttemptsBounded, AttemptsWithinLimit, Lifecycle!AttemptsBounded
<1> QED
  BY <1>2, <1>3, <1>4, <1>5, DeliveryImplementsIntent, PTL
     DEF ImplementsIntent, Lifecycle!IntentSpec, LifecycleProofs!IntentSpec

=============================================================================
