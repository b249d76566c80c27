------------------------- MODULE DeliveryIntentProofs -------------------------
(***************************************************************************)
(* Proofs about the life cycle of delivery intents, for any set of         *)
(* recommendations and any limit of attempts.                              *)
(***************************************************************************)
EXTENDS DeliveryIntent, TLAPS

\* What the bound asks of the limit.
LimitIsNat == MaxRetryAttempts \in Nat

\* A dispatched intent is in one of its attempts.
DispatchedTried == \A r \in Recommendations : status[r] = "dispatched" => tries[r] > 0

\* The inductive invariant behind AttemptsBounded.
IntentInv == IntentTypeOK /\ DispatchedTried /\ AttemptsBounded

\* Every operation on an intent preserves the types.
LEMMA IntentTypeStep ==
    ASSUME IntentTypeOK, [IntentNext]_intentVars
    PROVE  IntentTypeOK'
<1>1. ASSUME NEW r \in Recommendations, Create(r) \/ Prepare(r) \/ Reject(r) \/ Expire(r)
      PROVE  IntentTypeOK'
  BY <1>1 DEF Create, Prepare, Reject, Expire, Move, IntentTypeOK, DeliveryStatuses, Terminal
<1>2. ASSUME NEW r \in Recommendations, Acknowledge(r) \/ ScheduleRetry(r) \/ Fail(r)
      PROVE  IntentTypeOK'
  BY <1>2 DEF Acknowledge, ScheduleRetry, Fail, Move, IntentTypeOK, DeliveryStatuses, Terminal
<1>3. ASSUME NEW r \in Recommendations, Dispatch(r) PROVE IntentTypeOK'
  BY <1>3 DEF Dispatch, Move, IntentTypeOK, DeliveryStatuses
<1>4. ASSUME NEW r \in Recommendations, TakeEffect(r) PROVE IntentTypeOK'
  <2>1. effects' \in [Recommendations -> SUBSET Nat]
    BY <1>4 DEF TakeEffect, IntentTypeOK
  <2> QED
    BY <1>4, <2>1 DEF TakeEffect, IntentTypeOK
<1>5. CASE UNCHANGED intentVars
  BY <1>5 DEF intentVars, IntentTypeOK
<1> QED
  BY <1>1, <1>2, <1>3, <1>4, <1>5 DEF IntentNext

\* Rows keep one of the persisted statuses and natural counters in every
\* behaviour of the life cycle.
THEOREM IntentTypeCorrect == IntentSpec => []IntentTypeOK
<1>1. IntentInit => IntentTypeOK
  BY DEF IntentInit, IntentTypeOK, DeliveryStatuses, Terminal
<1> QED
  BY <1>1, IntentTypeStep, PTL DEF IntentSpec

\* The bounds on one intent, as conjuncts of the invariant state them.
Bounded(r) ==
    /\ tries[r] <= MaxRetryAttempts
    /\ status[r] = "retry_pending" => tries[r] < MaxRetryAttempts
    /\ status[r] = "dispatched" => tries[r] > 0
    /\ effects[r] \subseteq 1 .. tries[r]
    /\ status[r] = "acknowledged" => tries[r] \in effects[r]

\* The invariant is the types and the bounds of every intent.
LEMMA IntentInvIsBounded ==
    IntentInv <=> IntentTypeOK /\ \A r \in Recommendations : Bounded(r)
BY DEF IntentInv, DispatchedTried, AttemptsBounded, Bounded

\* An operation on an intent keeps the bounds of that intent and of the others.
LEMMA BoundedStep ==
    ASSUME LimitIsNat, IntentTypeOK, [IntentNext]_intentVars,
           NEW x \in Recommendations, Bounded(x)
    PROVE  Bounded(x)'
<1>1. ASSUME NEW r \in Recommendations, Create(r) \/ Prepare(r) \/ Reject(r) \/ Expire(r) \/ Fail(r)
      PROVE  Bounded(x)'
  BY <1>1 DEF Create, Prepare, Reject, Expire, Fail, Move, Bounded, IntentTypeOK
<1>2. ASSUME NEW r \in Recommendations, Dispatch(r) PROVE Bounded(x)'
  <2>1. /\ tries'[x] \in Nat
        /\ tries[x] <= tries'[x]
        /\ tries'[x] <= MaxRetryAttempts
        /\ effects'[x] = effects[x]
    BY <1>2 DEF Dispatch, Bounded, IntentTypeOK, LimitIsNat
  <2>2. effects'[x] \subseteq 1 .. tries'[x]
    BY <2>1 DEF Bounded, IntentTypeOK
  <2>3. \/ status'[x] = status[x] /\ tries'[x] = tries[x]
        \/ status'[x] = "dispatched" /\ tries'[x] > 0
    BY <1>2 DEF Dispatch, Move, IntentTypeOK
  <2> QED
    BY <2>1, <2>2, <2>3 DEF Bounded
<1>3. ASSUME NEW r \in Recommendations, TakeEffect(r) PROVE Bounded(x)'
  <2>1. /\ UNCHANGED <<status, tries>>
        /\ effects[x] \subseteq effects'[x]
        /\ effects'[x] \subseteq 1 .. tries[x]
    BY <1>3 DEF TakeEffect, Bounded, IntentTypeOK
  <2> QED
    BY <2>1 DEF Bounded
<1>4. ASSUME NEW r \in Recommendations, Acknowledge(r) PROVE Bounded(x)'
  BY <1>4 DEF Acknowledge, Move, Bounded, IntentTypeOK
<1>5. ASSUME NEW r \in Recommendations, ScheduleRetry(r) PROVE Bounded(x)'
  BY <1>5 DEF ScheduleRetry, Move, Bounded, IntentTypeOK
<1>6. CASE UNCHANGED intentVars
  BY <1>6 DEF intentVars, Bounded
<1> QED
  BY <1>1, <1>2, <1>3, <1>4, <1>5, <1>6 DEF IntentNext

\* An intent never uses more attempts than the limit, effects belong to
\* attempts that were made, and an acknowledged intent took effect.
THEOREM AttemptsBoundedHolds ==
    ASSUME LimitIsNat PROVE IntentSpec => []AttemptsBounded
<1>1. IntentInit => IntentInv
  BY DEF IntentInit, IntentInv, IntentTypeOK, DispatchedTried, AttemptsBounded,
         DeliveryStatuses, Terminal, LimitIsNat
<1>2. IntentInv /\ [IntentNext]_intentVars => IntentInv'
  <2> SUFFICES ASSUME IntentInv, [IntentNext]_intentVars PROVE IntentInv'
    OBVIOUS
  <2>1. IntentTypeOK'
    BY IntentTypeStep DEF IntentInv
  <2>2. \A r \in Recommendations : Bounded(r)'
    BY IntentInvIsBounded, BoundedStep DEF IntentInv
  <2> QED
    BY <2>1, <2>2 DEF IntentInv, DispatchedTried, AttemptsBounded, Bounded
<1>3. IntentInv => AttemptsBounded
  BY DEF IntentInv
<1> QED
  BY <1>1, <1>2, <1>3, PTL DEF IntentSpec

=============================================================================
