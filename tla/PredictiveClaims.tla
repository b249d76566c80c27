--------------------------- MODULE PredictiveClaims ---------------------------
(***************************************************************************)
(* Predictive claims (gdss): the versions of one claim identity, the       *)
(* capability assessments they rest on, their approvals, authorizations,   *)
(* revocations and revalidation triggers, as the transactions of           *)
(* GdssCapabilityClaimsRepository and the database triggers of migration   *)
(* 0049 leave them.                                                        *)
(*                                                                         *)
(* Every operation is one transaction that locks the claim's row, except   *)
(* an authorization: the service reads the claim and its assessment and    *)
(* compares scopes, and a later transaction writes.  In between, any other *)
(* operation may run.  One authorization at a time is in between: another  *)
(* would find its row, as one that is sent later does.                     *)
(*                                                                         *)
(* The scope of a claim is the numeric range of one variable: of what a    *)
(* claim says, the code compares scopes and nothing else.  Hence a version *)
(* of a draft is named by its scope where the code uses the content hash.  *)
(***************************************************************************)
EXTENDS Integers, Sequences, FiniteSets

CONSTANTS
    Scopes,         \* ranges a scope may be
    Causes,         \* causal artifacts, each with the words that report it
    None,           \* a value that is no authorization and no request
    MaxClaims,      \* bound on the versions of the claim
    MaxAssessments, \* bound on the capability assessments
    MaxTriggers     \* bound on the revalidation triggers

NumericRanges == [lower : Int, upper : Int, lowerIn : BOOLEAN, upperIn : BOOLEAN]

Authorizations == [scope : Scopes, claimScope : Scopes, readInDraft : BOOLEAN]
Requests == [claim : 1..MaxClaims, scope : Scopes, known : SUBSET Scopes,
             separate : BOOLEAN, readInDraft : BOOLEAN]

ASSUME ClaimsAssumption ==
    /\ Scopes # {} /\ Scopes \subseteq NumericRanges
    /\ None \notin Authorizations \cup Requests
    /\ MaxClaims \in Nat /\ MaxAssessments \in Nat /\ MaxTriggers \in Nat

VARIABLES
    assessments,    \* assessments[a]: gdss_capability_assessment rows, by age
    claims,         \* claims[c]: the version c of the claim
    seen,           \* seen[c]: the scopes c's draft has had (history)
    events,         \* events[c]: to_status of gdss_predictive_claim_event,
                    \* without those of a draft's updates
    approvals,      \* the gdss_predictive_claim_review rows that approve
    authorizations, \* authorizations[c]: c's row, or None
    revoked,        \* versions with a gdss_predictive_claim_revocation row
    revalidation,   \* revalidation[<<c, x>>]: c's trigger rows for the cause x
    reported,       \* <<c, x>>: somebody reported the cause x for c (history)
    answered,       \* reports that were answered with another report's row (history)
    request         \* an authorization between its two halves, or None

vars == <<assessments, claims, seen, events, approvals, authorizations, revoked,
          revalidation, reported, answered, request>>
ledger == <<approvals, authorizations, revoked>>
triggers == <<revalidation, reported, answered>>

ClaimIds == 1..MaxClaims
AssessmentIds == 1..MaxAssessments

CapabilityStates == {"NONE", "NOT_AUTHORIZABLE", "EVIDENCE_OF_CAPABILITY"}
ClaimStates ==
    {"NONE", "DRAFT", "EVIDENCE_ASSEMBLED", "REVIEW_REQUIRED", "AUTHORIZED",
     "REJECTED", "SUPERSEDED", "REVOKED"}
TriggerStates == {"NONE", "REVIEW_REQUIRED", "REVALIDATION_REQUIRED", "SETTLED"}

SomeScope == CHOOSE s \in Scopes : TRUE
NoAssessment == [state |-> "NONE", scope |-> SomeScope]
NoClaim ==
    [status |-> "NONE", assessment |-> 0, scope |-> SomeScope, predecessor |-> 0]

ClaimRows == [status : ClaimStates, assessment : 0..MaxAssessments, scope : Scopes,
              predecessor : 0..MaxClaims]

ClaimsTypeOK ==
    /\ assessments \in [AssessmentIds -> [state : CapabilityStates, scope : Scopes]]
    /\ claims \in [ClaimIds -> ClaimRows]
    /\ seen \in [ClaimIds -> SUBSET Scopes]
    /\ events \in [ClaimIds -> Seq(ClaimStates)]
    /\ approvals \subseteq ClaimIds \X Scopes
    /\ authorizations \in [ClaimIds -> Authorizations \cup {None}]
    /\ revoked \subseteq ClaimIds
    /\ revalidation \in [ClaimIds \X Causes -> TriggerStates]
    /\ reported \subseteq ClaimIds \X Causes
    /\ answered \subseteq ClaimIds \X Causes
    /\ request \in Requests \cup {None}

Init ==
    /\ assessments = [a \in AssessmentIds |-> NoAssessment]
    /\ claims = [c \in ClaimIds |-> NoClaim]
    /\ seen = [c \in ClaimIds |-> {}]
    /\ events = [c \in ClaimIds |-> <<>>]
    /\ approvals = {}
    /\ authorizations = [c \in ClaimIds |-> None]
    /\ revoked = {}
    /\ revalidation = [t \in ClaimIds \X Causes |-> "NONE"]
    /\ reported = {}
    /\ answered = {}
    /\ request = None

-----------------------------------------------------------------------------
(***************************************************************************)
(* Scopes and assessments.                                                 *)
(***************************************************************************)

\* Deviation: an end point that is in the inner range only goes unnoticed.
ScopeSubset_EndsIgnored(inner, outer) ==
    inner.lower >= outer.lower /\ inner.upper <= outer.upper

\* constraintSubset, for numeric ranges.
ScopeSubset(inner, outer) ==
    /\ \/ inner.lower > outer.lower
       \/ inner.lower = outer.lower /\ (~inner.lowerIn \/ outer.lowerIn)
    /\ \/ inner.upper < outer.upper
       \/ inner.upper = outer.upper /\ (~inner.upperIn \/ outer.upperIn)

\* The states that allow an authorization are one here, and so are the others.
\* Assessments are immutable: an invalidation is another row, in a state that
\* allows none, and nothing that rests on the prior row looks for it.
AssessCapability(a) ==
    /\ assessments[a].state = "NONE"
    /\ \A b \in 1..a - 1 : assessments[b].state # "NONE"
    /\ \E s \in Scopes, state \in {"NOT_AUTHORIZABLE", "EVIDENCE_OF_CAPABILITY"} :
          assessments' = [assessments EXCEPT ![a] = [state |-> state, scope |-> s]]
    /\ UNCHANGED <<claims, seen, events, ledger, triggers, request>>

-----------------------------------------------------------------------------
(***************************************************************************)
(* Drafts, up to their submission.                                         *)
(***************************************************************************)

\* Each transition of a claim writes its row and appends an event.
MoveTo(c, status) ==
    /\ claims' = [claims EXCEPT ![c].status = status]
    /\ events' = [events EXCEPT ![c] = Append(@, status)]

\* The versions of an identity are numbered under a lock; a predecessor is the
\* version before.  The state of the assessment is not looked at.
CreateDraft(c) ==
    /\ claims[c].status = "NONE"
    /\ \A d \in 1..c - 1 : claims[d].status # "NONE"
    /\ \E a \in AssessmentIds, s \in Scopes, d \in {0, c - 1} :
          /\ assessments[a].state # "NONE"
          /\ ScopeSubset(s, assessments[a].scope)
          /\ claims' = [claims EXCEPT ![c] =
                [status |-> "DRAFT", assessment |-> a, scope |-> s, predecessor |-> d]]
          /\ seen' = [seen EXCEPT ![c] = {s}]
    /\ events' = [events EXCEPT ![c] = <<"DRAFT">>]
    /\ UNCHANGED <<assessments, ledger, triggers, request>>

\* Deviation: the status is not looked at.
UpdateDraft_AnyStatus(c) ==
    /\ claims[c].status \in {"DRAFT", "EVIDENCE_ASSEMBLED", "REVIEW_REQUIRED"}
    /\ \E s \in Scopes :
          /\ ScopeSubset(s, assessments[claims[c].assessment].scope)
          /\ claims' = [claims EXCEPT ![c].scope = s]
          /\ seen' = [seen EXCEPT ![c] = @ \cup {s}]
    /\ UNCHANGED <<assessments, events, ledger, triggers, request>>

\* Any author may update any draft.
UpdateDraft(c) ==
    /\ claims[c].status = "DRAFT"
    /\ \E s \in Scopes :
          /\ ScopeSubset(s, assessments[claims[c].assessment].scope)
          /\ claims' = [claims EXCEPT ![c].scope = s]
          /\ seen' = [seen EXCEPT ![c] = @ \cup {s}]
    /\ UNCHANGED <<assessments, events, ledger, triggers, request>>

AssembleEvidence(c) ==
    /\ claims[c].status = "DRAFT"
    /\ MoveTo(c, "EVIDENCE_ASSEMBLED")
    /\ UNCHANGED <<assessments, seen, ledger, triggers, request>>

Submit(c) ==
    /\ claims[c].status = "EVIDENCE_ASSEMBLED"
    /\ MoveTo(c, "REVIEW_REQUIRED")
    /\ UNCHANGED <<assessments, seen, ledger, triggers, request>>

-----------------------------------------------------------------------------
(***************************************************************************)
(* Review and authorization.                                               *)
(***************************************************************************)

\* Deviation: the decision becomes the claim's status.
Approve_Moving(c) ==
    /\ claims[c].status = "REVIEW_REQUIRED"
    /\ approvals' = approvals \cup {<<c, claims[c].scope>>}
    /\ MoveTo(c, "APPROVE_FOR_AUTHORIZATION")
    /\ UNCHANGED <<assessments, seen, authorizations, revoked, triggers, request>>

\* reviewClaim that approves: the claim stays where it is.  Anybody may review,
\* its author included.  A request for a revision does not even leave what the
\* authorization looks at, and is not modelled.
Approve(c) ==
    /\ claims[c].status = "REVIEW_REQUIRED"
    /\ approvals' = approvals \cup {<<c, claims[c].scope>>}
    /\ UNCHANGED <<assessments, claims, seen, events, authorizations, revoked, triggers, request>>

\* Deviation: a rejection leaves no event.
Reject_Unrecorded(c) ==
    /\ claims[c].status = "REVIEW_REQUIRED"
    /\ claims' = [claims EXCEPT ![c].status = "REJECTED"]
    /\ UNCHANGED <<events, assessments, seen, ledger, triggers, request>>

\* reviewClaim that rejects, an approval by another reviewer notwithstanding.
Reject(c) ==
    /\ claims[c].status = "REVIEW_REQUIRED"
    /\ MoveTo(c, "REJECTED")
    /\ UNCHANGED <<assessments, seen, ledger, triggers, request>>

\* Deviation: only the scope of the assessment is compared.
ReadForAuthorization_ClaimIgnored(c) ==
    /\ request = None
    /\ claims[c].status # "NONE"
    /\ assessments[claims[c].assessment].state = "EVIDENCE_OF_CAPABILITY"
    /\ \E s \in Scopes, separate \in BOOLEAN :
          /\ ScopeSubset(s, assessments[claims[c].assessment].scope)
          /\ request' = [claim |-> c, scope |-> s, known |-> seen[c],
                         separate |-> separate, readInDraft |-> claims[c].status = "DRAFT"]
    /\ UNCHANGED <<assessments, claims, seen, events, ledger, triggers>>

\* The service's half: it compares scopes with the claim and the assessment it
\* reads.  The request expects one version of the claim that its sender knows,
\* and the service does not look whether it is the version it reads.
ReadForAuthorization(c) ==
    /\ request = None
    /\ claims[c].status # "NONE"
    /\ assessments[claims[c].assessment].state = "EVIDENCE_OF_CAPABILITY"
    /\ \E s \in Scopes, separate \in BOOLEAN :
          /\ ScopeSubset(s, claims[c].scope)
          /\ ScopeSubset(s, assessments[claims[c].assessment].scope)
          /\ request' = [claim |-> c, scope |-> s, known |-> seen[c],
                         separate |-> separate, readInDraft |-> claims[c].status = "DRAFT"]
    /\ UNCHANGED <<assessments, claims, seen, events, ledger, triggers>>

\* Deviation: no approving review is asked for.
Authorizable_Unreviewed(r) ==
    /\ authorizations[r.claim] = None
    /\ claims[r.claim].status = "REVIEW_REQUIRED"
    /\ claims[r.claim].scope \in r.known
    /\ r.separate

\* What authorizeClaim and the database trigger on its insertion ask for: the
\* expected version, an approval, and separate duties: the request is not the
\* author's, or it is the only administrator's, with a written exception.
Authorizable(r) ==
    /\ authorizations[r.claim] = None
    /\ claims[r.claim].status = "REVIEW_REQUIRED"
    /\ claims[r.claim].scope \in r.known
    /\ r.separate
    /\ \E s \in Scopes : <<r.claim, s>> \in approvals

\* The repository's half, a transaction of its own.
Authorize ==
    /\ request # None
    /\ Authorizable(request)
    /\ LET c == request.claim
       IN  /\ authorizations' = [authorizations EXCEPT ![c] =
                 [scope |-> request.scope,
                  claimScope |-> claims[c].scope, readInDraft |-> request.readInDraft]]
           /\ MoveTo(c, "AUTHORIZED")
    /\ request' = None
    /\ UNCHANGED <<assessments, seen, approvals, revoked, triggers>>

\* An error, or the answer that an earlier request obtained.
AuthorizationChangesNothing ==
    /\ request # None
    /\ ~Authorizable(request)
    /\ request' = None
    /\ UNCHANGED <<assessments, claims, seen, events, ledger, triggers>>

-----------------------------------------------------------------------------
(***************************************************************************)
(* After the authorization.                                                *)
(***************************************************************************)

Revoke(c) ==
    /\ claims[c].status = "AUTHORIZED"
    /\ revoked' = revoked \cup {c}
    /\ MoveTo(c, "REVOKED")
    /\ UNCHANGED <<assessments, seen, approvals, authorizations, triggers, request>>

\* Deviation: the successor need not be authorized.
Supersede_ByDraft(c, successor) ==
    /\ claims[c].status = "AUTHORIZED"
    /\ claims[successor].status # "NONE"
    /\ claims[successor].predecessor = c
    /\ MoveTo(c, "SUPERSEDED")
    /\ UNCHANGED <<assessments, seen, ledger, triggers, request>>

Supersede(c, successor) ==
    /\ claims[c].status = "AUTHORIZED"
    /\ claims[successor].status = "AUTHORIZED"
    /\ claims[successor].predecessor = c
    /\ MoveTo(c, "SUPERSEDED")
    /\ UNCHANGED <<assessments, seen, ledger, triggers, request>>

\* The state depends on the trigger's type only.  A cause that is reported in
\* the same words again, settled or not, has the same hash and changes nothing.
DetectCause(c, x) ==
    /\ claims[c].status # "NONE"
    /\ revalidation[<<c, x>>] = "NONE"
    /\ Cardinality({t \in DOMAIN revalidation : revalidation[t] # "NONE"}) < MaxTriggers
    /\ \E state \in {"REVIEW_REQUIRED", "REVALIDATION_REQUIRED"} :
          revalidation' = [revalidation EXCEPT ![<<c, x>>] = state]
    /\ reported' = reported \cup {<<c, x>>}
    /\ UNCHANGED <<assessments, claims, seen, events, ledger, answered, request>>

\* createRevalidationTrigger looks for the hash or for the idempotency key: a
\* report whose key another report of the project had is answered with that
\* report's row, and its own cause is not recorded.
DetectCauseWithUsedKey(c, x) ==
    /\ claims[c].status # "NONE"
    /\ revalidation[<<c, x>>] = "NONE"
    /\ \E t \in ClaimIds \X Causes : revalidation[t] # "NONE"
    /\ reported' = reported \cup {<<c, x>>}
    /\ answered' = answered \cup {<<c, x>>}
    /\ UNCHANGED <<assessments, claims, seen, events, ledger, revalidation, request>>

\* ACKNOWLEDGED settles a trigger as RESOLVED and INVALIDATED do.  With a used
\* key a settlement changes nothing, and the trigger waits for another.
SettleTrigger(c, x) ==
    /\ revalidation[<<c, x>>] \in {"REVIEW_REQUIRED", "REVALIDATION_REQUIRED"}
    /\ revalidation' = [revalidation EXCEPT ![<<c, x>>] = "SETTLED"]
    /\ UNCHANGED <<assessments, claims, seen, events, ledger, reported, answered, request>>

Unresolved(c) ==
    \E x \in Causes : revalidation[<<c, x>>] \in {"REVIEW_REQUIRED", "REVALIDATION_REQUIRED"}

\* projectClaimCurrentness, before the claim's validity ends.
Current(c) == claims[c].status = "AUTHORIZED" /\ ~Unresolved(c)

ReportOrSettle(c, x) ==
    DetectCause(c, x) \/ DetectCauseWithUsedKey(c, x) \/ SettleTrigger(c, x)

ClaimStep(c) ==
    \/ UpdateDraft(c) \/ AssembleEvidence(c) \/ Submit(c) \/ Revoke(c)
    \/ Approve(c) \/ Reject(c)
    \/ \E d \in ClaimIds : Supersede(c, d)
    \/ \E x \in Causes : ReportOrSettle(c, x)

Next ==
    \/ \E a \in AssessmentIds : AssessCapability(a)
    \/ \E c \in ClaimIds : CreateDraft(c) \/ ReadForAuthorization(c)
    \/ Authorize \/ AuthorizationChangesNothing
    \/ \E c \in ClaimIds : ClaimStep(c)

Spec == Init /\ [][Next]_vars

-----------------------------------------------------------------------------
(***************************************************************************)
(* Properties.                                                             *)
(***************************************************************************)

\* What was authorized is what a reviewer approved and what the claim says
\* now: the row's lock, the expected hash and the freeze after submission
\* leave no way to change the content around the review.
AuthorizedContentWasApproved ==
    \A c \in ClaimIds : authorizations[c] # None =>
        /\ claims[c].scope = authorizations[c].claimScope
        /\ <<c, claims[c].scope>> \in approvals

Values(s) ==
    {v \in s.lower..s.upper : (v = s.lower => s.lowerIn) /\ (v = s.upper => s.upperIn)}

\* The service reads before the authorizing transaction; still no value is
\* ever authorized that the capability, which must be evidence of one, does
\* not cover, since the claim keeps its assessment and that keeps its content.
AuthorizedScopeIsCapable ==
    \A c \in ClaimIds : authorizations[c] # None =>
        LET a == assessments[claims[c].assessment]
        IN  /\ a.state = "EVIDENCE_OF_CAPABILITY"
            /\ Values(authorizations[c].scope) \subseteq Values(a.scope)

\* Violated: "Drafting and authorization prove AUTHORIZED_SCOPE subseteq
\* CLAIM_SCOPE" (GDSS-006F-IMPLEMENTATION-EVIDENCE.md, N): what was authorized
\* lies within what the claim says.
AuthorizedScopeWithinClaim ==
    \A c \in ClaimIds : authorizations[c] # None =>
        Values(authorizations[c].scope) \subseteq Values(claims[c].scope)

\* The one way around it: the service read the claim as a draft that was edited,
\* and edited back, before the authorizing transaction, which compares the hash
\* of the claim again and no scope.
ScopeBeyondClaimTakesEdits ==
    \A c \in ClaimIds :
        /\ authorizations[c] # None
        /\ ~(Values(authorizations[c].scope) \subseteq Values(claims[c].scope))
        => authorizations[c].readInDraft /\ Cardinality(seen[c]) > 1

LegalMoves ==
    {<<"DRAFT", "EVIDENCE_ASSEMBLED">>,
     <<"EVIDENCE_ASSEMBLED", "REVIEW_REQUIRED">>, <<"REVIEW_REQUIRED", "AUTHORIZED">>,
     <<"REVIEW_REQUIRED", "REJECTED">>, <<"AUTHORIZED", "SUPERSEDED">>,
     <<"AUTHORIZED", "REVOKED">>}

\* The events of a claim are a path of its life cycle that ends in its status:
\* no operation changes the one without the other.
EventsTellTheStatus ==
    \A c \in ClaimIds : claims[c].status # "NONE" =>
        /\ events[c] # <<>>
        /\ events[c][1] = "DRAFT"
        /\ events[c][Len(events[c])] = claims[c].status
        /\ \A i \in 1..Len(events[c]) - 1 : <<events[c][i], events[c][i + 1]>> \in LegalMoves

\* What became of an authorized version has its reason: a superseded one has a
\* later version that was authorized in its place, whatever became of that one
\* since, and one that is shown as current has its authorization, no
\* revocation, and every cause that was reported settled, unless the report's
\* key had been used and another report's row was the answer.
StandingIsBacked ==
    \A c \in ClaimIds :
        /\ claims[c].status = "SUPERSEDED" =>
              \E d \in ClaimIds :
                  d > c /\ claims[d].predecessor = c /\ authorizations[d] # None
        /\ Current(c) =>
              /\ authorizations[c] # None
              /\ c \notin revoked
              /\ \A x \in Causes : <<c, x>> \in reported \ answered =>
                    revalidation[<<c, x>>] = "SETTLED"

\* From its submission to review on, what a claim says, rests on and follows
\* is final, and so are its assessment, its authorization and its end.
FrozenAfterSubmission ==
    [][\A c \in ClaimIds :
          /\ claims[c].status \notin {"NONE", "DRAFT"} =>
                [claims'[c] EXCEPT !.status = claims[c].status] = claims[c]
          /\ claims[c].status \in {"REJECTED", "SUPERSEDED", "REVOKED"} =>
                claims'[c].status = claims[c].status
          /\ authorizations[c] # None => authorizations'[c] = authorizations[c]
          /\ claims[c].status # "NONE" =>
                assessments'[claims[c].assessment] = assessments[claims[c].assessment]]_vars
=============================================================================
