---------------------------- MODULE DeliveryIntent ----------------------------
(***************************************************************************)
(* What a delivery intent promises, whoever works on it: the persisted     *)
(* state machine of simulated actuation (VALID_TRANSITIONS), with a        *)
(* bounded number of dispatch attempts and at most one effect of the       *)
(* adapter per attempt.  ActuationDelivery implements it.                  *)
(***************************************************************************)
EXTENDS Integers

CONSTANTS
    Recommendations,    \* one intent per recommendation (idempotency_key)
    MaxRetryAttempts    \* SIMULATED_ACTUATION_MAX_RETRY_ATTEMPTS, a natural number

VARIABLES
    status,     \* status[r]: the row's status, "absent" before it exists
    tries,      \* tries[r]: retry_count
    effects     \* effects[r]: the attempts in which the adapter took effect

intentVars == <<status, tries, effects>>

Terminal == {"acknowledged", "rejected", "expired", "failed_final"}

DeliveryStatuses ==
    {"absent", "received", "ready_to_dispatch", "dispatched", "retry_pending"} \cup Terminal

\* A row has one of the persisted statuses, or does not exist yet.
IntentTypeOK ==
    /\ status \in [Recommendations -> DeliveryStatuses]
    /\ tries \in [Recommendations -> Nat]
    /\ effects \in [Recommendations -> SUBSET Nat]

IntentInit ==
    /\ status = [r \in Recommendations |-> "absent"]
    /\ tries = [r \in Recommendations |-> 0]
    /\ effects = [r \in Recommendations |-> {}]

Move(r, from, to) ==
    /\ status[r] \in from
    /\ status' = [status EXCEPT ![r] = to]

Create(r) == Move(r, {"absent"}, "received") /\ UNCHANGED <<tries, effects>>

\* received -> validated -> ready_to_dispatch, one transaction.
Prepare(r) == Move(r, {"received"}, "ready_to_dispatch") /\ UNCHANGED <<tries, effects>>

Reject(r) == Move(r, {"received"}, "rejected") /\ UNCHANGED <<tries, effects>>

Expire(r) ==
    /\ Move(r, {"received", "ready_to_dispatch", "retry_pending"}, "expired")
    /\ UNCHANGED <<tries, effects>>

Dispatch(r) ==
    /\ Move(r, {"ready_to_dispatch", "retry_pending"}, "dispatched")
    /\ tries[r] < MaxRetryAttempts
    /\ tries' = [tries EXCEPT ![r] = @ + 1]
    /\ UNCHANGED effects

\* The adapter takes effect, once in the attempt that is under way.
TakeEffect(r) ==
    /\ status[r] = "dispatched"
    /\ tries[r] \notin effects[r]
    /\ effects' = [effects EXCEPT ![r] = @ \cup {tries[r]}]
    /\ UNCHANGED <<status, tries>>

Acknowledge(r) ==
    /\ tries[r] \in effects[r]
    /\ Move(r, {"dispatched"}, "acknowledged")
    /\ UNCHANGED <<tries, effects>>

ScheduleRetry(r) ==
    /\ tries[r] < MaxRetryAttempts
    /\ Move(r, {"dispatched"}, "retry_pending")
    /\ UNCHANGED <<tries, effects>>

Fail(r) == Move(r, {"dispatched"}, "failed_final") /\ UNCHANGED <<tries, effects>>

IntentNext ==
    \E r \in Recommendations :
        \/ Create(r) \/ Prepare(r) \/ Reject(r) \/ Expire(r) \/ Dispatch(r)
        \/ TakeEffect(r) \/ Acknowledge(r) \/ ScheduleRetry(r) \/ Fail(r)

IntentSpec == IntentInit /\ [][IntentNext]_intentVars

-----------------------------------------------------------------------------
\* The attempts of an intent stay within the limit, a retry is scheduled only
\* while one is left, effects belong to attempts that were made, and an
\* acknowledged intent took effect.
AttemptsBounded ==
    \A r \in Recommendations :
        /\ tries[r] <= MaxRetryAttempts
        /\ status[r] = "retry_pending" => tries[r] < MaxRetryAttempts
        /\ effects[r] \subseteq 1 .. tries[r]
        /\ status[r] = "acknowledged" => tries[r] \in effects[r]

=============================================================================
