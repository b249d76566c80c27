------------------------ MODULE PredictiveClaimsProofs ------------------------
(***************************************************************************)
(* Proofs about predictive claims, for any set of scopes and any bounds:   *)
(* what is authorized was approved, is within the evidence and within the  *)
(* claim, events tell the status, and nothing changes after submission.    *)
(***************************************************************************)
EXTENDS PredictiveClaims, FiniteSetTheorems, TLAPS

\* The statuses of a version that has been authorized.
Standing == {"AUTHORIZED", "SUPERSEDED", "REVOKED"}

\* A version has an assessment that exists and follows an earlier version.
RestsOnAssessment ==
    \A c \in ClaimIds : claims[c].status # "NONE" =>
        /\ claims[c].assessment \in AssessmentIds
        /\ assessments[claims[c].assessment].state # "NONE"
        /\ claims[c].predecessor < c

\* The scopes a draft has had are finitely many, the present one among them.
ScopeIsSeen ==
    \A c \in ClaimIds :
        /\ IsFiniteSet(seen[c])
        /\ claims[c].status # "NONE" => claims[c].scope \in seen[c]

\* An approval is of a submitted version and of what it still says.
ApprovalIsOfContent ==
    \A c \in ClaimIds, s \in Scopes : <<c, s>> \in approvals =>
        /\ claims[c].status \notin {"NONE", "DRAFT", "EVIDENCE_ASSEMBLED"}
        /\ claims[c].scope = s

\* The versions with an authorization are those that stand or once stood.
AuthorizedStands ==
    \A c \in ClaimIds : authorizations[c] # None <=> claims[c].status \in Standing

\* The scope is covered by an assessment of c that shows a capability.
Covered(c, s) ==
    /\ claims[c].status # "NONE"
    /\ assessments[claims[c].assessment].state = "EVIDENCE_OF_CAPABILITY"
    /\ ScopeSubset(s, assessments[claims[c].assessment].scope)

\* The scope is within the claim's, or was read in a draft that said something
\* else at another time.
WithinOrEdited(c, s, readInDraft) ==
    \/ ScopeSubset(s, claims[c].scope)
    \/ readInDraft /\ \E t \in seen[c] : t # claims[c].scope

\* What a request between its two halves has read still holds.
RequestIsGood ==
    request # None =>
        /\ Covered(request.claim, request.scope)
        /\ WithinOrEdited(request.claim, request.scope, request.readInDraft)
        /\ ~request.readInDraft => claims[request.claim].status # "DRAFT"

\* An authorization is of what was approved, and good as its request was.
AuthorizationIsGood ==
    \A c \in ClaimIds : authorizations[c] # None =>
        /\ claims[c].scope = authorizations[c].claimScope
        /\ <<c, claims[c].scope>> \in approvals
        /\ Covered(c, authorizations[c].scope)
        /\ WithinOrEdited(c, authorizations[c].scope, authorizations[c].readInDraft)

RevocationEnds == \A c \in revoked : claims[c].status = "REVOKED"

\* What a superseded version's successor has.
SupersededHasSuccessor ==
    \A c \in ClaimIds : claims[c].status = "SUPERSEDED" =>
        \E d \in ClaimIds : d > c /\ claims[d].predecessor = c /\ authorizations[d] # None

\* A report that was not answered with another's row has one of its own.
ReportIsRecorded ==
    \A c \in ClaimIds, x \in Causes :
        <<c, x>> \in reported \ answered => revalidation[<<c, x>>] # "NONE"

ClaimsInv ==
    /\ ClaimsTypeOK
    /\ RestsOnAssessment
    /\ ScopeIsSeen
    /\ ApprovalIsOfContent
    /\ AuthorizedStands
    /\ RequestIsGood
    /\ AuthorizationIsGood
    /\ RevocationEnds
    /\ SupersededHasSuccessor
    /\ ReportIsRecorded

-----------------------------------------------------------------------------
(***************************************************************************)
(* Type correctness.                                                       *)
(***************************************************************************)

\* Writing one column of one version keeps the rows' type.
LEMMA ColumnWrites ==
    ASSUME ClaimsTypeOK, NEW c \in ClaimIds
    PROVE  /\ \A s \in ClaimStates :
                 /\ [claims[c] EXCEPT !.status = s] \in ClaimRows
                 /\ [claims EXCEPT ![c].status = s] \in [ClaimIds -> ClaimRows]
           /\ \A s \in Scopes :
                 /\ [claims[c] EXCEPT !.scope = s] \in ClaimRows
                 /\ [claims EXCEPT ![c].scope = s] \in [ClaimIds -> ClaimRows]
<1>1. claims \in [ClaimIds -> ClaimRows] /\ claims[c] \in ClaimRows
  BY DEF ClaimsTypeOK
<1>2. ASSUME NEW s \in ClaimStates PROVE [claims[c] EXCEPT !.status = s] \in ClaimRows
  BY <1>1 DEF ClaimRows
<1>3. ASSUME NEW s \in Scopes PROVE [claims[c] EXCEPT !.scope = s] \in ClaimRows
  BY <1>1 DEF ClaimRows
<1> QED
  BY <1>1, <1>2, <1>3

LEMMA ClaimsTypeInit == Init => ClaimsTypeOK
<1> SUFFICES ASSUME Init PROVE ClaimsTypeOK
  OBVIOUS
<1>1. SomeScope \in Scopes
  BY ClaimsAssumption DEF SomeScope
<1> QED
  BY <1>1, ClaimsAssumption
     DEF Init, ClaimsTypeOK, NoAssessment, NoClaim, ClaimRows, CapabilityStates, ClaimStates,
         TriggerStates

\* One step keeps the types.
LEMMA ClaimsTypeStep == ClaimsTypeOK /\ [Next]_vars => ClaimsTypeOK'
<1> SUFFICES ASSUME ClaimsTypeOK, [Next]_vars PROVE ClaimsTypeOK'
  OBVIOUS
<1> USE DEF ClaimsTypeOK, ledger, triggers
<1>1. ASSUME NEW a \in AssessmentIds, AssessCapability(a) PROVE ClaimsTypeOK'
  BY <1>1 DEF AssessCapability, CapabilityStates
<1>2. ASSUME NEW c \in ClaimIds, CreateDraft(c) PROVE ClaimsTypeOK'
  <2>1. claims' \in [ClaimIds -> ClaimRows]
    BY <1>2, ClaimsAssumption DEF CreateDraft, ClaimRows, ClaimStates, ClaimIds, AssessmentIds
  <2>2. events' \in [ClaimIds -> Seq(ClaimStates)] /\ seen' \in [ClaimIds -> SUBSET Scopes]
    BY <1>2 DEF CreateDraft, ClaimStates
  <2> QED
    BY <1>2, <2>1, <2>2 DEF CreateDraft
<1>3. ASSUME NEW c \in ClaimIds, ClaimStep(c) PROVE ClaimsTypeOK'
  <2>1. ASSUME NEW s \in ClaimStates, MoveTo(c, s)
        PROVE  /\ claims' \in [ClaimIds -> ClaimRows]
               /\ events' \in [ClaimIds -> Seq(ClaimStates)]
    BY <2>1, ColumnWrites DEF MoveTo
  <2>2. CASE UpdateDraft(c)
    BY <2>2, ColumnWrites DEF UpdateDraft
  <2>3. CASE AssembleEvidence(c) \/ Submit(c)
    BY <2>1, <2>3 DEF AssembleEvidence, Submit, ClaimStates
  <2>4. CASE Revoke(c)
    BY <2>1, <2>4 DEF Revoke, ClaimStates
  <2>5. CASE Approve(c)
    <3>1. claims[c].scope \in Scopes
      BY DEF ClaimRows
    <3> QED
      BY <2>5, <3>1 DEF Approve
  <2>6. CASE Reject(c)
    BY <2>1, <2>6 DEF Reject, ClaimStates
  <2>7. ASSUME NEW d \in ClaimIds, Supersede(c, d) PROVE ClaimsTypeOK'
    BY <2>1, <2>7 DEF Supersede, ClaimStates
  <2>8. ASSUME NEW x \in Causes, ReportOrSettle(c, x) PROVE ClaimsTypeOK'
    <3>1. CASE DetectCause(c, x)
      BY <3>1 DEF DetectCause, TriggerStates
    <3>2. CASE DetectCauseWithUsedKey(c, x)
      BY <3>2 DEF DetectCauseWithUsedKey
    <3>3. CASE SettleTrigger(c, x)
      BY <3>3 DEF SettleTrigger, TriggerStates
    <3> QED
      BY <2>8, <3>1, <3>2, <3>3 DEF ReportOrSettle
  <2> QED
    BY <1>3, <2>2, <2>3, <2>4, <2>5, <2>6, <2>7, <2>8 DEF ClaimStep
<1>4. ASSUME NEW c \in ClaimIds, ReadForAuthorization(c) PROVE ClaimsTypeOK'
  BY <1>4 DEF ReadForAuthorization, Requests, ClaimIds
<1>5. CASE Authorize
  <2>1. request \in Requests
    BY <1>5 DEF Authorize
  <2>2. claims' \in [ClaimIds -> ClaimRows]
    BY <1>5, <2>1, ColumnWrites DEF Authorize, MoveTo, Requests, ClaimIds, ClaimStates
  <2>3. events' \in [ClaimIds -> Seq(ClaimStates)]
    BY <1>5, <2>1 DEF Authorize, MoveTo, Requests, ClaimIds, ClaimStates
  <2>4. authorizations' \in [ClaimIds -> Authorizations \cup {None}]
    <3>1. request.claim \in ClaimIds /\ request.scope \in Scopes
          /\ request.readInDraft \in BOOLEAN
      BY <2>1 DEF Requests, ClaimIds
    <3>2. claims[request.claim].scope \in Scopes
      BY <3>1 DEF ClaimRows
    <3> QED
      BY <1>5, <3>1, <3>2 DEF Authorize, Authorizations
  <2> QED
    BY <1>5, <2>2, <2>3, <2>4 DEF Authorize
<1>6. CASE AuthorizationChangesNothing
  BY <1>6 DEF AuthorizationChangesNothing
<1>7. CASE UNCHANGED vars
  BY <1>7 DEF vars
<1> QED
  BY <1>1, <1>2, <1>3, <1>4, <1>5, <1>6, <1>7 DEF Next

\* Claims, requests and what is recorded of them keep their types.
THEOREM ClaimsTypeCorrect == Spec => []ClaimsTypeOK
<1> QED
  BY ClaimsTypeInit, ClaimsTypeStep, PTL DEF Spec

-----------------------------------------------------------------------------
(***************************************************************************)
(* What one step does to one version, and to what is recorded of it.       *)
(***************************************************************************)

Kept(c) ==
    /\ claims'[c] = claims[c]
    /\ seen'[c] = seen[c]
    /\ events'[c] = events[c]

Created(c) ==
    /\ claims[c].status = "NONE"
    /\ claims'[c].status = "DRAFT"
    /\ claims'[c].assessment \in AssessmentIds
    /\ assessments[claims'[c].assessment].state # "NONE"
    /\ claims'[c].predecessor \in {0, c - 1}
    /\ seen'[c] = {claims'[c].scope}
    /\ events'[c] = <<"DRAFT">>

Edited(c) ==
    /\ claims[c].status = "DRAFT"
    /\ \E s \in Scopes :
          /\ claims'[c] = [claims[c] EXCEPT !.scope = s]
          /\ seen'[c] = seen[c] \cup {s}
    /\ events'[c] = events[c]

Moved(c, status) ==
    /\ <<claims[c].status, status>> \in LegalMoves
    /\ claims'[c] = [claims[c] EXCEPT !.status = status]
    /\ seen'[c] = seen[c]
    /\ events'[c] = Append(events[c], status)

\* A version is superseded by one that has been authorized.
Succeeded(c) ==
    \E d \in ClaimIds : claims[d].status = "AUTHORIZED" /\ claims[d].predecessor = c

\* The request becomes the authorization of its version.
Authorizing(c) ==
    /\ request # None
    /\ request.claim = c
    /\ Authorizable(request)
    /\ authorizations' = [authorizations EXCEPT ![c] =
          [scope |-> request.scope, claimScope |-> claims[c].scope,
           readInDraft |-> request.readInDraft]]
    /\ approvals' = approvals
    /\ Moved(c, "AUTHORIZED")

\* Transitions that leave authorizations and revocations alone.
OtherMoves == {"EVIDENCE_ASSEMBLED", "REVIEW_REQUIRED", "REJECTED"}

VersionStep(c) ==
    \/ Kept(c) /\ authorizations'[c] = authorizations[c] /\ (c \in revoked' => c \in revoked)
    \/ Created(c) /\ authorizations'[c] = authorizations[c] /\ revoked' = revoked
    \/ Edited(c) /\ authorizations'[c] = authorizations[c] /\ revoked' = revoked
    \/ /\ \E s \in OtherMoves : Moved(c, s)
       /\ authorizations'[c] = authorizations[c] /\ revoked' = revoked
    \/ /\ Moved(c, "SUPERSEDED") /\ Succeeded(c)
       /\ authorizations' = authorizations /\ revoked' = revoked
    \/ Moved(c, "REVOKED") /\ authorizations' = authorizations
    \/ Authorizing(c) /\ revoked' = revoked

\* A transition of one version leaves the others.
LEMMA MoveIsMoved ==
    ASSUME ClaimsTypeOK, NEW d \in ClaimIds, NEW s \in ClaimStates, MoveTo(d, s), seen' = seen,
           <<claims[d].status, s>> \in LegalMoves, NEW c \in ClaimIds
    PROVE  IF c = d THEN Moved(c, s) ELSE Kept(c)
<1>1. claims \in [ClaimIds -> ClaimRows] /\ claims[d] \in ClaimRows
      /\ events \in [ClaimIds -> Seq(ClaimStates)]
  BY DEF ClaimsTypeOK
<1>2. claims'[c] = IF c = d THEN [claims[d] EXCEPT !.status = s] ELSE claims[c]
  BY <1>1 DEF MoveTo
<1>3. events'[c] = IF c = d THEN Append(events[d], s) ELSE events[c]
  BY <1>1 DEF MoveTo
<1> QED
  BY <1>2, <1>3 DEF Moved, Kept

\* Every step is one of the kinds for every version.
LEMMA VersionSteps ==
    ASSUME ClaimsTypeOK, [Next]_vars, NEW c \in ClaimIds
    PROVE  VersionStep(c)
<1> USE DEF ledger, triggers
<1>1. CASE UNCHANGED vars \/ UNCHANGED <<claims, seen, events, authorizations, revoked>>
  BY <1>1 DEF vars, VersionStep, Kept
<1>2. ASSUME NEW a \in AssessmentIds, AssessCapability(a) PROVE VersionStep(c)
  BY <1>1, <1>2 DEF AssessCapability
<1>3. ASSUME NEW d \in ClaimIds, CreateDraft(d) PROVE VersionStep(c)
  <2>1. CASE c # d
    BY <1>3, <2>1 DEF CreateDraft, VersionStep, Kept, ClaimsTypeOK
  <2>2. CASE c = d
    <3>1. PICK a \in AssessmentIds, s \in Scopes, p \in {0, c - 1} :
            /\ assessments[a].state # "NONE"
            /\ claims' = [claims EXCEPT ![c] =
                  [status |-> "DRAFT", assessment |-> a, scope |-> s, predecessor |-> p]]
            /\ seen' = [seen EXCEPT ![c] = {s}]
      BY <1>3, <2>2 DEF CreateDraft
    <3>2. claims'[c] = [status |-> "DRAFT", assessment |-> a, scope |-> s, predecessor |-> p]
      BY <3>1 DEF ClaimsTypeOK
    <3>3. seen'[c] = {s} /\ events'[c] = <<"DRAFT">>
      BY <1>3, <2>2, <3>1 DEF CreateDraft, ClaimsTypeOK
    <3> QED
      BY <1>3, <2>2, <3>1, <3>2, <3>3 DEF CreateDraft, VersionStep, Created
  <2> QED
    BY <2>1, <2>2
<1>4. ASSUME NEW d \in ClaimIds, ReadForAuthorization(d) PROVE VersionStep(c)
  BY <1>1, <1>4 DEF ReadForAuthorization
<1>5. CASE Authorize
  <2> DEFINE d == request.claim
  <2>1. d \in ClaimIds
    BY <1>5 DEF Authorize, ClaimsTypeOK, Requests, ClaimIds
  <2>2. MoveTo(d, "AUTHORIZED") /\ seen' = seen /\ claims[d].status = "REVIEW_REQUIRED"
    BY <1>5 DEF Authorize, Authorizable
  <2>3. IF c = d THEN Moved(c, "AUTHORIZED") ELSE Kept(c)
    BY <2>1, <2>2, MoveIsMoved DEF ClaimStates, LegalMoves
  <2>4. CASE c = d
    BY <1>5, <2>3, <2>4 DEF Authorize, VersionStep, Authorizing
  <2>5. CASE c # d
    BY <1>5, <2>1, <2>3, <2>5 DEF Authorize, VersionStep, ClaimsTypeOK
  <2> QED
    BY <2>4, <2>5
<1>6. CASE AuthorizationChangesNothing
  BY <1>1, <1>6 DEF AuthorizationChangesNothing
<1>7. ASSUME NEW d \in ClaimIds, ClaimStep(d) PROVE VersionStep(c)
  <2>1. CASE UpdateDraft(d)
    <3>1. PICK s \in Scopes : /\ claims' = [claims EXCEPT ![d].scope = s]
                              /\ seen' = [seen EXCEPT ![d] = @ \cup {s}]
      BY <2>1 DEF UpdateDraft
    <3>2. claims'[c] = IF c = d THEN [claims[d] EXCEPT !.scope = s] ELSE claims[c]
      BY <3>1 DEF ClaimsTypeOK
    <3>3. seen'[c] = IF c = d THEN seen[d] \cup {s} ELSE seen[c]
      BY <3>1 DEF ClaimsTypeOK
    <3>4. claims[d].status = "DRAFT" /\ events' = events /\ UNCHANGED ledger
      BY <2>1 DEF UpdateDraft
    <3> QED
      BY <3>2, <3>3, <3>4 DEF VersionStep, Edited, Kept
  <2>2. CASE AssembleEvidence(d) \/ Submit(d) \/ Reject(d)
    <3>1. PICK s \in OtherMoves :
            MoveTo(d, s) /\ <<claims[d].status, s>> \in LegalMoves
      BY <2>2 DEF AssembleEvidence, Submit, Reject, OtherMoves, LegalMoves
    <3>2. seen' = seen /\ UNCHANGED ledger
      BY <2>2 DEF AssembleEvidence, Submit, Reject
    <3>3. IF c = d THEN Moved(c, s) ELSE Kept(c)
      BY <3>1, <3>2, MoveIsMoved DEF ClaimStates, OtherMoves
    <3> QED
      BY <3>2, <3>3 DEF VersionStep
  <2>3. CASE Revoke(d)
    <3>1. IF c = d THEN Moved(c, "REVOKED") ELSE Kept(c)
      BY <2>3, MoveIsMoved DEF Revoke, ClaimStates, LegalMoves
    <3> QED
      BY <2>3, <3>1 DEF Revoke, VersionStep
  <2>4. CASE Approve(d)
    BY <1>1, <2>4 DEF Approve
  <2>5. ASSUME NEW e \in ClaimIds, Supersede(d, e) PROVE VersionStep(c)
    <3>1. IF c = d THEN Moved(c, "SUPERSEDED") ELSE Kept(c)
      BY <2>5, MoveIsMoved DEF Supersede, ClaimStates, LegalMoves
    <3>2. Succeeded(d)
      BY <2>5 DEF Supersede, Succeeded
    <3> QED
      BY <2>5, <3>1, <3>2 DEF Supersede, VersionStep
  <2>6. ASSUME NEW x \in Causes, ReportOrSettle(d, x) PROVE VersionStep(c)
    BY <1>1, <2>6 DEF ReportOrSettle, DetectCause, DetectCauseWithUsedKey, SettleTrigger
  <2> QED
    BY <1>7, <2>1, <2>2, <2>3, <2>4, <2>5, <2>6 DEF ClaimStep
<1> QED
  BY <1>1, <1>2, <1>3, <1>4, <1>5, <1>6, <1>7 DEF Next

\* The columns of a version that makes a transition.
LEMMA MovedColumns ==
    ASSUME ClaimsTypeOK, NEW c \in ClaimIds, NEW s, Moved(c, s)
    PROVE  /\ claims'[c].status = s
           /\ claims'[c].assessment = claims[c].assessment
           /\ claims'[c].predecessor = claims[c].predecessor
           /\ claims'[c].scope = claims[c].scope
<1>1. claims[c] \in ClaimRows
  BY DEF ClaimsTypeOK
<1> QED
  BY <1>1 DEF Moved, ClaimRows

\* Assessments are immutable.
LEMMA AssessmentStands ==
    ASSUME ClaimsTypeOK, [Next]_vars, NEW a \in AssessmentIds, assessments[a].state # "NONE"
    PROVE  assessments'[a] = assessments[a]
<1>1. CASE UNCHANGED assessments
  BY <1>1
<1>2. ASSUME NEW b \in AssessmentIds, AssessCapability(b)
      PROVE  assessments'[a] = assessments[a]
  BY <1>2 DEF AssessCapability, ClaimsTypeOK
<1>3. ASSUME NEW c \in ClaimIds, CreateDraft(c) \/ ReadForAuthorization(c) \/ ClaimStep(c)
      PROVE  UNCHANGED assessments
  BY <1>3 DEF CreateDraft, ReadForAuthorization, ClaimStep, UpdateDraft, AssembleEvidence, Submit,
              Revoke, Approve, Reject, Supersede, ReportOrSettle, DetectCause, DetectCauseWithUsedKey, SettleTrigger
<1> QED
  BY <1>1, <1>2, <1>3 DEF Next, vars, Authorize, AuthorizationChangesNothing

\* Approvals are of a version in review, which stays as it is, and remain.
LEMMA ApprovalSteps ==
    ASSUME [Next]_vars
    PROVE  \/ approvals' = approvals
           \/ \E c \in ClaimIds :
                 /\ claims[c].status = "REVIEW_REQUIRED"
                 /\ approvals' = approvals \cup {<<c, claims[c].scope>>}
                 /\ UNCHANGED <<claims, authorizations, request>>
<1> USE DEF ledger, triggers
<1>1. ASSUME NEW c \in ClaimIds, Approve(c)
      PROVE  /\ claims[c].status = "REVIEW_REQUIRED"
             /\ approvals' = approvals \cup {<<c, claims[c].scope>>}
             /\ UNCHANGED <<claims, authorizations, request>>
  BY <1>1 DEF Approve
<1>2. ASSUME NEW c \in ClaimIds, ClaimStep(c), ~Approve(c) PROVE approvals' = approvals
  BY <1>2 DEF ClaimStep, UpdateDraft, AssembleEvidence, Submit, Revoke, Reject, Supersede,
              ReportOrSettle, DetectCause, DetectCauseWithUsedKey, SettleTrigger
<1>3. CASE \A c \in ClaimIds : ~ClaimStep(c)
  BY <1>3 DEF Next, vars, AssessCapability, CreateDraft, ReadForAuthorization, Authorize,
              AuthorizationChangesNothing
<1> QED
  BY <1>1, <1>2, <1>3

\* A request between its halves stays as it was read.
LEMMA RequestSteps ==
    ASSUME [Next]_vars
    PROVE  \/ request' = request
           \/ request' = None
           \/ \E c \in ClaimIds : ReadForAuthorization(c)
<1>1. ASSUME NEW c \in ClaimIds, ClaimStep(c) \/ CreateDraft(c) PROVE request' = request
  BY <1>1 DEF CreateDraft, ClaimStep, UpdateDraft, AssembleEvidence, Submit, Revoke, Approve,
              Reject, Supersede, ReportOrSettle, DetectCause, DetectCauseWithUsedKey, SettleTrigger
<1> QED
  BY <1>1 DEF Next, vars, AssessCapability, Authorize, AuthorizationChangesNothing

-----------------------------------------------------------------------------
(***************************************************************************)
(* The inductive invariant, one part at a time.                            *)
(***************************************************************************)

\* A version that exists keeps what it rests on and follows; from submission
\* on, or once its evidence is assembled, it keeps what it says as well.
LEMMA VersionEndures ==
    ASSUME ClaimsTypeOK, RestsOnAssessment, [Next]_vars,
           NEW c \in ClaimIds, claims[c].status # "NONE"
    PROVE  /\ claims'[c].status # "NONE"
           /\ claims'[c].assessment = claims[c].assessment
           /\ claims'[c].predecessor = claims[c].predecessor
           /\ assessments'[claims[c].assessment] = assessments[claims[c].assessment]
           /\ claims[c].status # "DRAFT" =>
                 /\ claims'[c].status # "DRAFT"
                 /\ claims'[c].scope = claims[c].scope
                 /\ seen'[c] = seen[c]
           /\ seen[c] \subseteq seen'[c]
<1>1. claims[c] \in ClaimRows
  BY DEF ClaimsTypeOK
<1>2. assessments'[claims[c].assessment] = assessments[claims[c].assessment]
  BY AssessmentStands DEF RestsOnAssessment
<1>3. ASSUME NEW s, Moved(c, s)
      PROVE  /\ claims'[c].status # "NONE" /\ claims'[c].status # "DRAFT"
             /\ claims'[c].assessment = claims[c].assessment
             /\ claims'[c].predecessor = claims[c].predecessor
             /\ claims'[c].scope = claims[c].scope
             /\ seen'[c] = seen[c]
  BY <1>1, <1>3 DEF Moved, ClaimRows, LegalMoves
<1>4. CASE Edited(c)
  BY <1>1, <1>2, <1>4 DEF Edited, ClaimRows
<1>5. CASE Kept(c)
  BY <1>2, <1>5 DEF Kept
<1> QED
  BY <1>2, <1>3, <1>4, <1>5, VersionSteps DEF VersionStep, Created, Authorizing

LEMMA RestsStep ==
    ASSUME ClaimsTypeOK, RestsOnAssessment, [Next]_vars
    PROVE  RestsOnAssessment'
<1> SUFFICES ASSUME NEW c \in ClaimIds, claims'[c].status # "NONE"
             PROVE  /\ claims'[c].assessment \in AssessmentIds
                    /\ assessments'[claims'[c].assessment].state # "NONE"
                    /\ claims'[c].predecessor < c
  BY DEF RestsOnAssessment
<1>1. CASE claims[c].status # "NONE"
  BY <1>1, VersionEndures DEF RestsOnAssessment
<1>2. CASE claims[c].status = "NONE"
  <2>1. Created(c)
    BY <1>2, VersionSteps DEF VersionStep, Kept, Edited, Moved, Authorizing, LegalMoves
  <2>2. claims'[c].predecessor < c
    BY <2>1 DEF Created, ClaimIds
  <2> QED
    BY <2>1, <2>2, AssessmentStands DEF Created
<1> QED
  BY <1>1, <1>2

LEMMA ScopeIsSeenStep ==
    ASSUME ClaimsTypeOK, RestsOnAssessment, ScopeIsSeen, [Next]_vars
    PROVE  ScopeIsSeen'
<1> SUFFICES ASSUME NEW c \in ClaimIds
             PROVE  /\ IsFiniteSet(seen'[c])
                    /\ claims'[c].status # "NONE" => claims'[c].scope \in seen'[c]
  BY DEF ScopeIsSeen
<1>1. IsFiniteSet(seen[c]) /\ claims[c] \in ClaimRows
  BY DEF ScopeIsSeen, ClaimsTypeOK
<1>2. CASE Kept(c)
  BY <1>2 DEF Kept, ScopeIsSeen
<1>3. CASE Created(c)
  BY <1>3, FS_Singleton DEF Created
<1>4. CASE Edited(c)
  BY <1>1, <1>4, FS_AddElement DEF Edited, ClaimRows
<1>5. ASSUME NEW s, Moved(c, s)
      PROVE  /\ IsFiniteSet(seen'[c])
             /\ claims'[c].scope \in seen'[c]
  BY <1>1, <1>5 DEF Moved, ClaimRows, ScopeIsSeen, LegalMoves
<1> QED
  BY <1>2, <1>3, <1>4, <1>5, VersionSteps DEF VersionStep, Authorizing

LEMMA ApprovalStep ==
    ASSUME ClaimsTypeOK, RestsOnAssessment, ApprovalIsOfContent, [Next]_vars
    PROVE  ApprovalIsOfContent'
<1> SUFFICES ASSUME NEW c \in ClaimIds, NEW s \in Scopes, <<c, s>> \in approvals'
             PROVE  /\ claims'[c].status \notin {"NONE", "DRAFT", "EVIDENCE_ASSEMBLED"}
                    /\ claims'[c].scope = s
  BY DEF ApprovalIsOfContent
<1>1. CASE <<c, s>> \in approvals
  <2>1. claims[c].status \notin {"NONE", "DRAFT", "EVIDENCE_ASSEMBLED"} /\ claims[c].scope = s
    BY <1>1 DEF ApprovalIsOfContent
  <2>2. claims'[c].status # "EVIDENCE_ASSEMBLED"
    <3>1. ASSUME NEW t, Moved(c, t) PROVE t # "EVIDENCE_ASSEMBLED"
      BY <2>1, <3>1 DEF Moved, LegalMoves
    <3> QED
      BY <2>1, <3>1, MovedColumns, VersionSteps
         DEF VersionStep, Kept, Created, Edited, Authorizing
  <2> QED
    BY <2>1, <2>2, VersionEndures
<1>2. CASE <<c, s>> \notin approvals
  BY <1>2, ApprovalSteps
<1> QED
  BY <1>1, <1>2

\* An authorization is written once, with the transition to authorized.
LEMMA AuthorizationStays ==
    ASSUME ClaimsTypeOK, [Next]_vars, NEW c \in ClaimIds, authorizations[c] # None
    PROVE  authorizations'[c] = authorizations[c]
BY VersionSteps DEF VersionStep, Authorizing, Authorizable

LEMMA AuthorizedStandsStep ==
    ASSUME ClaimsTypeOK, AuthorizedStands, [Next]_vars
    PROVE  AuthorizedStands'
<1> SUFFICES ASSUME NEW c \in ClaimIds
             PROVE  authorizations'[c] # None <=> claims'[c].status \in Standing
  BY DEF AuthorizedStands
<1> USE DEF AuthorizedStands, Standing
<1>1. CASE Kept(c) /\ authorizations'[c] = authorizations[c]
  BY <1>1 DEF Kept
<1>2. CASE (Created(c) \/ Edited(c)) /\ authorizations'[c] = authorizations[c]
  <2>1. claims[c].status \in {"NONE", "DRAFT"} /\ claims'[c].status = "DRAFT"
    BY <1>2 DEF Created, Edited, ClaimsTypeOK, ClaimRows
  <2> QED
    BY <1>2, <2>1
<1>3. ASSUME NEW s \in OtherMoves \cup {"SUPERSEDED", "REVOKED"}, Moved(c, s),
             authorizations'[c] = authorizations[c]
      PROVE  authorizations'[c] # None <=> claims'[c].status \in Standing
  <2>1. s \in Standing <=> claims[c].status \in Standing
    BY <1>3 DEF Moved, LegalMoves, OtherMoves
  <2> QED
    BY <1>3, <2>1, MovedColumns
<1>4. CASE Authorizing(c)
  <2>1. claims'[c].status = "AUTHORIZED"
    BY <1>4, MovedColumns DEF Authorizing
  <2>2. request \in Requests /\ claims[c] \in ClaimRows
    BY <1>4 DEF Authorizing, ClaimsTypeOK
  <2>3. authorizations'[c] \in Authorizations
    BY <1>4, <2>2 DEF Authorizing, ClaimsTypeOK, Requests, ClaimRows, Authorizations
  <2> QED
    BY <2>1, <2>3, ClaimsAssumption
<1> QED
  BY <1>1, <1>2, <1>3, <1>4, VersionSteps DEF VersionStep

\* What a capability covers stays covered.
LEMMA CoveredEndures ==
    ASSUME ClaimsTypeOK, RestsOnAssessment, [Next]_vars,
           NEW c \in ClaimIds, NEW s \in Scopes, Covered(c, s)
    PROVE  Covered(c, s)'
BY VersionEndures DEF Covered

\* A scope within the claim stays so, or the draft that was read is edited.
LEMMA WithinEndures ==
    ASSUME ClaimsTypeOK, RestsOnAssessment, ScopeIsSeen, [Next]_vars,
           NEW c \in ClaimIds, claims[c].status # "NONE",
           NEW s \in Scopes, NEW readInDraft \in BOOLEAN, WithinOrEdited(c, s, readInDraft),
           ~readInDraft => claims[c].status # "DRAFT"
    PROVE  WithinOrEdited(c, s, readInDraft)'
<1>1. CASE claims'[c].scope = claims[c].scope
  BY <1>1, VersionEndures DEF WithinOrEdited
<1>2. CASE claims'[c].scope # claims[c].scope
  <2>1. claims[c].status = "DRAFT" /\ readInDraft
    BY <1>2, VersionEndures
  <2>2. claims[c].scope \in seen'[c]
    BY VersionEndures DEF ScopeIsSeen
  <2> QED
    BY <1>2, <2>1, <2>2 DEF WithinOrEdited
<1> QED
  BY <1>1, <1>2

LEMMA RequestStep ==
    ASSUME ClaimsTypeOK, RestsOnAssessment, ScopeIsSeen, RequestIsGood, [Next]_vars
    PROVE  RequestIsGood'
<1>1. CASE request' = None
  BY <1>1 DEF RequestIsGood
<1>2. CASE request' = request /\ request # None
  <2>1. /\ request.claim \in ClaimIds /\ request.scope \in Scopes
        /\ request.readInDraft \in BOOLEAN
    BY <1>2 DEF ClaimsTypeOK, Requests, ClaimIds
  <2>2. Covered(request.claim, request.scope)' /\ claims[request.claim].status # "NONE"
    BY <1>2, <2>1, CoveredEndures DEF RequestIsGood, Covered
  <2>3. WithinOrEdited(request.claim, request.scope, request.readInDraft)'
    BY <1>2, <2>1, <2>2, WithinEndures DEF RequestIsGood
  <2>4. ~request.readInDraft => claims'[request.claim].status # "DRAFT"
    BY <1>2, <2>1, <2>2, VersionEndures DEF RequestIsGood
  <2> QED
    BY <1>2, <2>2, <2>3, <2>4 DEF RequestIsGood
<1>3. ASSUME NEW c \in ClaimIds, ReadForAuthorization(c) PROVE RequestIsGood'
  <2>1. PICK s \in Scopes, separate \in BOOLEAN :
          /\ ScopeSubset(s, claims[c].scope)
          /\ ScopeSubset(s, assessments[claims[c].assessment].scope)
          /\ request' = [claim |-> c, scope |-> s, known |-> seen[c], separate |-> separate,
                         readInDraft |-> claims[c].status = "DRAFT"]
    BY <1>3 DEF ReadForAuthorization
  <2>2. /\ request'.claim = c /\ request'.scope = s
        /\ ~request'.readInDraft => claims[c].status # "DRAFT"
    BY <2>1
  <2>3. /\ claims[c].status # "NONE" /\ UNCHANGED <<claims, assessments, seen>>
        /\ assessments[claims[c].assessment].state = "EVIDENCE_OF_CAPABILITY"
    BY <1>3 DEF ReadForAuthorization
  <2> QED
    BY <2>1, <2>2, <2>3 DEF RequestIsGood, Covered, WithinOrEdited
<1> QED
  BY <1>1, <1>2, <1>3, RequestSteps

LEMMA AuthorizationStep ==
    ASSUME ClaimsInv, [Next]_vars
    PROVE  AuthorizationIsGood'
<1> USE DEF ClaimsInv
<1> SUFFICES ASSUME NEW c \in ClaimIds, authorizations'[c] # None
             PROVE  /\ claims'[c].scope = authorizations'[c].claimScope
                    /\ <<c, claims'[c].scope>> \in approvals'
                    /\ Covered(c, authorizations[c].scope)'
                    /\ WithinOrEdited(c, authorizations[c].scope, authorizations[c].readInDraft)'
  BY DEF AuthorizationIsGood
<1>1. CASE authorizations[c] # None
  <2>1. authorizations'[c] = authorizations[c] /\ authorizations[c] \in Authorizations
    BY <1>1, AuthorizationStays DEF ClaimsTypeOK
  <2>2. authorizations[c].scope \in Scopes /\ authorizations[c].readInDraft \in BOOLEAN
    BY <2>1 DEF Authorizations
  <2>3. claims[c].status \notin {"NONE", "DRAFT"}
    BY <1>1 DEF AuthorizedStands, Standing
  <2>4. claims'[c].scope = claims[c].scope
    BY <2>3, VersionEndures
  <2>5. approvals \subseteq approvals'
    BY ApprovalSteps
  <2>6. Covered(c, authorizations[c].scope)'
    BY <1>1, <2>1, <2>2, CoveredEndures DEF AuthorizationIsGood
  <2>7. WithinOrEdited(c, authorizations[c].scope, authorizations[c].readInDraft)'
    BY <1>1, <2>1, <2>2, <2>3, WithinEndures DEF AuthorizationIsGood
  <2> QED
    BY <1>1, <2>1, <2>4, <2>5, <2>6, <2>7 DEF AuthorizationIsGood
<1>2. CASE authorizations[c] = None
  <2>1. Authorizing(c)
    BY <1>2, VersionSteps DEF VersionStep
  <2>2. request \in Requests /\ request.scope \in Scopes /\ request.readInDraft \in BOOLEAN
    BY <2>1 DEF Authorizing, ClaimsTypeOK, Requests
  <2>3. authorizations'[c] = [scope |-> request.scope, claimScope |-> claims[c].scope,
                              readInDraft |-> request.readInDraft]
    BY <2>1 DEF Authorizing, ClaimsTypeOK
  <2>4. claims[c].status = "REVIEW_REQUIRED" /\ <<c, claims[c].scope>> \in approvals'
    BY <2>1 DEF Authorizing, Authorizable, ApprovalIsOfContent
  <2>5. claims'[c].scope = claims[c].scope
    BY <2>1, MovedColumns DEF Authorizing
  <2>6. Covered(c, request.scope) /\ WithinOrEdited(c, request.scope, request.readInDraft)
    BY <2>1 DEF Authorizing, RequestIsGood
  <2>7. /\ \A s \in Scopes : Covered(c, s) => Covered(c, s)'
        /\ \A s \in Scopes, r \in BOOLEAN :
              WithinOrEdited(c, s, r) => WithinOrEdited(c, s, r)'
    BY <2>4, CoveredEndures, WithinEndures
  <2> DEFINE s0 == request.scope  r0 == request.readInDraft
  <2>8. /\ claims'[c].status # "NONE"
        /\ assessments'[claims'[c].assessment].state = "EVIDENCE_OF_CAPABILITY"
        /\ ScopeSubset(s0, assessments'[claims'[c].assessment].scope)
        /\ \/ ScopeSubset(s0, claims'[c].scope)
           \/ r0 /\ \E t \in seen'[c] : t # claims'[c].scope
    BY <2>2, <2>6, <2>7 DEF Covered, WithinOrEdited
  <2> QED
    BY <2>3, <2>4, <2>5, <2>8 DEF Covered, WithinOrEdited
<1> QED
  BY <1>1, <1>2

\* A revoked version stays revoked.
LEMMA RevocationStep ==
    ASSUME ClaimsTypeOK, RevocationEnds, [Next]_vars
    PROVE  RevocationEnds'
<1> SUFFICES ASSUME NEW c \in revoked' PROVE claims'[c].status = "REVOKED"
  BY DEF RevocationEnds
<1>1. c \in ClaimIds
  BY ClaimsTypeStep DEF ClaimsTypeOK
<1>2. c \in revoked => claims[c].status = "REVOKED"
  BY DEF RevocationEnds
<1>3. ASSUME NEW s, Moved(c, s) PROVE c \notin revoked /\ claims'[c].status = s
  BY <1>1, <1>2, <1>3, MovedColumns DEF Moved, LegalMoves
<1> QED
  BY <1>1, <1>2, <1>3, VersionSteps DEF VersionStep, Kept, Created, Edited, Authorizing

\* The successor of a superseded version has an authorization for ever, and
\* follows it for ever.
LEMMA SupersededStep ==
    ASSUME ClaimsInv, [Next]_vars
    PROVE  SupersededHasSuccessor'
<1> USE DEF ClaimsInv
<1> SUFFICES ASSUME NEW c \in ClaimIds, claims'[c].status = "SUPERSEDED"
             PROVE  \E d \in ClaimIds :
                       d > c /\ claims'[d].predecessor = c /\ authorizations'[d] # None
  BY DEF SupersededHasSuccessor
<1>1. ASSUME NEW d \in ClaimIds, d > c, claims[d].predecessor = c, authorizations[d] # None
      PROVE  d > c /\ claims'[d].predecessor = c /\ authorizations'[d] # None
  <2>1. claims[d].status # "NONE"
    BY <1>1 DEF AuthorizedStands, Standing
  <2> QED
    BY <1>1, <2>1, VersionEndures, AuthorizationStays
<1>2. CASE claims[c].status = "SUPERSEDED"
  BY <1>1, <1>2 DEF SupersededHasSuccessor
<1>3. CASE claims[c].status # "SUPERSEDED"
  <2>1. Succeeded(c)
    <3>1. ~Kept(c) /\ ~Created(c)
      BY <1>3 DEF Kept, Created
    <3>2. ~Edited(c)
      BY <1>3 DEF Edited, ClaimsTypeOK, ClaimRows
    <3>3. ASSUME NEW s, Moved(c, s) PROVE s = "SUPERSEDED"
      BY <3>3, MovedColumns
    <3> QED
      BY <3>1, <3>2, <3>3, VersionSteps DEF VersionStep, Authorizing, OtherMoves
  <2>2. PICK d \in ClaimIds : claims[d].status = "AUTHORIZED" /\ claims[d].predecessor = c
    BY <2>1 DEF Succeeded
  <2>3. authorizations[d] # None /\ c < d
    BY <2>2 DEF AuthorizedStands, Standing, RestsOnAssessment
  <2> QED
    BY <1>1, <2>2, <2>3 DEF ClaimIds
<1> QED
  BY <1>2, <1>3

LEMMA ReportStep ==
    ASSUME ClaimsTypeOK, ReportIsRecorded, [Next]_vars PROVE ReportIsRecorded'
<1> USE DEF ledger, triggers
<1>1. CASE UNCHANGED triggers
  BY <1>1 DEF ReportIsRecorded
<1>2. ASSUME NEW d \in ClaimIds, NEW y \in Causes, ReportOrSettle(d, y) PROVE ReportIsRecorded'
  <2>1. \A t \in ClaimIds \X Causes : revalidation[t] # "NONE" => revalidation'[t] # "NONE"
    BY <1>2 DEF ReportOrSettle, DetectCause, DetectCauseWithUsedKey, SettleTrigger, ClaimsTypeOK
  <2>2. CASE DetectCause(d, y)
    <3>1. revalidation'[<<d, y>>] # "NONE"
      BY <2>2 DEF DetectCause, ClaimsTypeOK
    <3>2. reported' = reported \cup {<<d, y>>} /\ answered' = answered
      BY <2>2 DEF DetectCause
    <3> QED
      BY <2>1, <3>1, <3>2 DEF ReportIsRecorded
  <2>3. CASE DetectCauseWithUsedKey(d, y) \/ SettleTrigger(d, y)
    BY <2>1, <2>3 DEF DetectCauseWithUsedKey, SettleTrigger, ReportIsRecorded
  <2> QED
    BY <1>2, <2>2, <2>3 DEF ReportOrSettle
<1>3. CASE \E c \in ClaimIds : ClaimStep(c)
  BY <1>1, <1>2, <1>3
     DEF ClaimStep, UpdateDraft, AssembleEvidence, Submit, Revoke, Approve, Reject, Supersede
<1> QED
  BY <1>1, <1>3
     DEF Next, vars, AssessCapability, CreateDraft, ReadForAuthorization, Authorize,
         AuthorizationChangesNothing

LEMMA ClaimsInvInit == Init => ClaimsInv
<1> SUFFICES ASSUME Init PROVE ClaimsInv
  OBVIOUS
<1>1. \A c \in ClaimIds : /\ claims[c].status = "NONE"
                          /\ seen[c] = {}
                          /\ authorizations[c] = None
  BY DEF Init, NoClaim
<1>2. ScopeIsSeen
  BY <1>1, FS_EmptySet DEF ScopeIsSeen
<1> QED
  BY <1>1, <1>2, ClaimsTypeInit
     DEF Init, ClaimsInv, RestsOnAssessment, ApprovalIsOfContent, AuthorizedStands, Standing,
         RequestIsGood, AuthorizationIsGood, RevocationEnds, SupersededHasSuccessor,
         ReportIsRecorded

LEMMA ClaimsInvStep == ClaimsInv /\ [Next]_vars => ClaimsInv'
<1> SUFFICES ASSUME ClaimsInv, [Next]_vars PROVE ClaimsInv'
  OBVIOUS
<1>1. AuthorizationIsGood' /\ SupersededHasSuccessor'
  BY AuthorizationStep, SupersededStep
<1> QED
  BY <1>1, ClaimsTypeStep, RestsStep, ScopeIsSeenStep, ApprovalStep, AuthorizedStandsStep,
     RequestStep, RevocationStep, ReportStep
     DEF ClaimsInv

LEMMA ClaimsInvariant == Spec => []ClaimsInv
<1> QED
  BY ClaimsInvInit, ClaimsInvStep, PTL DEF Spec

-----------------------------------------------------------------------------
(***************************************************************************)
(* The properties.                                                         *)
(***************************************************************************)

\* What is authorized is what was approved and what the claim says.
THEOREM AuthorizedContentWasApprovedHolds == Spec => []AuthorizedContentWasApproved
<1>1. ClaimsInv => AuthorizedContentWasApproved
  BY DEF ClaimsInv, AuthorizationIsGood, AuthorizedContentWasApproved
<1> QED
  BY <1>1, ClaimsInvariant, PTL

\* A scope within another has no value the other does not have: constraintSubset
\* compares end points, and their inclusion when they are the same.
LEMMA SubsetHasSubsetValues ==
    ASSUME NEW s \in NumericRanges, NEW t \in NumericRanges, ScopeSubset(s, t)
    PROVE  Values(s) \subseteq Values(t)
<1> SUFFICES ASSUME NEW v \in Values(s) PROVE v \in Values(t)
  OBVIOUS
<1>1. /\ s.lower \in Int /\ s.upper \in Int /\ t.lower \in Int /\ t.upper \in Int
      /\ s.lowerIn \in BOOLEAN /\ s.upperIn \in BOOLEAN
      /\ t.lowerIn \in BOOLEAN /\ t.upperIn \in BOOLEAN
  BY DEF NumericRanges
<1>2. /\ v \in Int /\ s.lower <= v /\ v <= s.upper
      /\ v = s.lower => s.lowerIn
      /\ v = s.upper => s.upperIn
  BY <1>1 DEF Values
<1>3. t.lower <= v /\ v <= t.upper
  BY <1>1, <1>2 DEF ScopeSubset
<1>4. v = t.lower => t.lowerIn
  BY <1>1, <1>2 DEF ScopeSubset
<1>5. v = t.upper => t.upperIn
  BY <1>1, <1>2 DEF ScopeSubset
<1> QED
  BY <1>1, <1>2, <1>3, <1>4, <1>5 DEF Values

\* No value is authorized that the capability does not cover.
THEOREM AuthorizedScopeIsCapableHolds == Spec => []AuthorizedScopeIsCapable
<1>1. ASSUME ClaimsInv, NEW c \in ClaimIds, authorizations[c] # None
      PROVE  LET a == assessments[claims[c].assessment]
             IN  /\ a.state = "EVIDENCE_OF_CAPABILITY"
                 /\ Values(authorizations[c].scope) \subseteq Values(a.scope)
  <2> DEFINE a == assessments[claims[c].assessment]
  <2>1. a.state = "EVIDENCE_OF_CAPABILITY" /\ ScopeSubset(authorizations[c].scope, a.scope)
    BY <1>1 DEF ClaimsInv, AuthorizationIsGood, Covered
  <2>2. claims[c].assessment \in AssessmentIds
    BY <1>1 DEF ClaimsInv, RestsOnAssessment, AuthorizationIsGood, Covered
  <2>3. authorizations[c].scope \in Scopes /\ a.scope \in Scopes
    BY <1>1, <2>2 DEF ClaimsInv, ClaimsTypeOK, Authorizations
  <2> QED
    BY <2>1, <2>3, SubsetHasSubsetValues, ClaimsAssumption
<1>2. ClaimsInv => AuthorizedScopeIsCapable
  BY <1>1 DEF AuthorizedScopeIsCapable
<1> QED
  BY <1>2, ClaimsInvariant, PTL

\* What is authorized beyond the claim was read in a draft that was edited and
\* edited back between the service's reading and the transaction.
THEOREM ScopeBeyondClaimTakesEditsHolds == Spec => []ScopeBeyondClaimTakesEdits
<1>1. ASSUME ClaimsInv, NEW c \in ClaimIds, authorizations[c] # None
      PROVE  \/ Values(authorizations[c].scope) \subseteq Values(claims[c].scope)
             \/ authorizations[c].readInDraft /\ Cardinality(seen[c]) > 1
  <2>1. WithinOrEdited(c, authorizations[c].scope, authorizations[c].readInDraft)
    BY <1>1 DEF ClaimsInv, AuthorizationIsGood
  <2>2. CASE ScopeSubset(authorizations[c].scope, claims[c].scope)
    <3>1. authorizations[c].scope \in Scopes /\ claims[c].scope \in Scopes
      BY <1>1 DEF ClaimsInv, ClaimsTypeOK, Authorizations, ClaimRows
    <3> QED
      BY <2>2, <3>1, SubsetHasSubsetValues, ClaimsAssumption
  <2>3. ASSUME NEW t \in seen[c], t # claims[c].scope, authorizations[c].readInDraft
        PROVE  authorizations[c].readInDraft /\ Cardinality(seen[c]) > 1
    <3>1. IsFiniteSet(seen[c]) /\ claims[c].scope \in seen[c]
      BY <1>1 DEF ClaimsInv, ScopeIsSeen, AuthorizationIsGood, Covered
    <3>2. Cardinality(seen[c] \ {t}) = Cardinality(seen[c]) - 1 /\ IsFiniteSet(seen[c] \ {t})
      BY <3>1, FS_RemoveElement
    <3>3. Cardinality(seen[c] \ {t}) # 0 /\ Cardinality(seen[c] \ {t}) \in Nat
      BY <2>3, <3>1, <3>2, FS_EmptySet, FS_CardinalityType
    <3>4. Cardinality(seen[c]) \in Nat
      BY <3>1, FS_CardinalityType
    <3> QED
      BY <2>3, <3>2, <3>3, <3>4
  <2> QED
    BY <2>1, <2>2, <2>3 DEF WithinOrEdited
<1>2. ClaimsInv => ScopeBeyondClaimTakesEdits
  BY <1>1 DEF ScopeBeyondClaimTakesEdits
<1> QED
  BY <1>2, ClaimsInvariant, PTL

\* What stands, and what was superseded, has its reason.
THEOREM StandingIsBackedHolds == Spec => []StandingIsBacked
<1>1. ASSUME ClaimsInv, NEW c \in ClaimIds, Current(c)
      PROVE  /\ authorizations[c] # None
             /\ c \notin revoked
             /\ \A x \in Causes : <<c, x>> \in reported \ answered =>
                   revalidation[<<c, x>>] = "SETTLED"
  <2>1. authorizations[c] # None /\ c \notin revoked
    BY <1>1 DEF ClaimsInv, Current, AuthorizedStands, Standing, RevocationEnds
  <2>2. \A x \in Causes : revalidation[<<c, x>>] \in TriggerStates
    BY <1>1 DEF ClaimsInv, ClaimsTypeOK
  <2> QED
    BY <1>1, <2>1, <2>2 DEF ClaimsInv, ReportIsRecorded, Current, Unresolved, TriggerStates
<1>2. ClaimsInv => StandingIsBacked
  BY <1>1 DEF ClaimsInv, SupersededHasSuccessor, StandingIsBacked
<1> QED
  BY <1>2, ClaimsInvariant, PTL

\* Nothing of a version changes after its submission but its status, and that
\* not after its end; authorizations and assessments are final.
THEOREM FrozenAfterSubmissionHolds == Spec => FrozenAfterSubmission
<1> DEFINE Frozen(c) ==
      /\ claims[c].status \notin {"NONE", "DRAFT"} =>
            [claims'[c] EXCEPT !.status = claims[c].status] = claims[c]
      /\ claims[c].status \in {"REJECTED", "SUPERSEDED", "REVOKED"} =>
            claims'[c].status = claims[c].status
      /\ authorizations[c] # None => authorizations'[c] = authorizations[c]
      /\ claims[c].status # "NONE" =>
            assessments'[claims[c].assessment] = assessments[claims[c].assessment]
<1>1. ASSUME ClaimsInv, [Next]_vars, NEW c \in ClaimIds PROVE Frozen(c)
  <2> USE <1>1 DEF ClaimsInv
  <2>1. claims[c] \in ClaimRows /\ claims'[c] \in ClaimRows
    BY ClaimsTypeStep DEF ClaimsTypeOK
  <2>2. ASSUME claims[c].status \notin {"NONE", "DRAFT"}
        PROVE  [claims'[c] EXCEPT !.status = claims[c].status] = claims[c]
    BY <2>1, <2>2, VersionEndures DEF ClaimRows
  <2>3. ASSUME claims[c].status \in {"REJECTED", "SUPERSEDED", "REVOKED"}
        PROVE  claims'[c].status = claims[c].status
    BY <2>3, VersionSteps
       DEF VersionStep, Kept, Created, Edited, Moved, Authorizing, LegalMoves
  <2> QED
    BY <2>2, <2>3, AuthorizationStays, VersionEndures
<1>2. ClaimsInv /\ [Next]_vars => [\A c \in ClaimIds : Frozen(c)]_vars
  BY <1>1
<1> QED
  BY <1>2, ClaimsInvariant, PTL DEF Spec, FrozenAfterSubmission

-----------------------------------------------------------------------------
(***************************************************************************)
(* Events.                                                                 *)
(***************************************************************************)

\* The events of a version are a path of its life cycle that ends where it is.
Told(path, status) ==
    /\ path # <<>>
    /\ path[1] = "DRAFT"
    /\ path[Len(path)] = status
    /\ \A i \in 1..Len(path) - 1 : <<path[i], path[i + 1]>> \in LegalMoves

\* A legal move prolongs the path.
LEMMA MoveIsTold ==
    ASSUME NEW path \in Seq(ClaimStates), NEW old, NEW new \in ClaimStates,
           Told(path, old), <<old, new>> \in LegalMoves
    PROVE  Told(Append(path, new), new)
<1> DEFINE longer == Append(path, new)
<1>1. /\ Len(path) \in Nat /\ Len(path) > 0
      /\ Len(longer) = Len(path) + 1
      /\ \A i \in 1..Len(path) : longer[i] = path[i]
      /\ longer[Len(path) + 1] = new
  BY DEF Told
<1>2. ASSUME NEW i \in 1..Len(longer) - 1
      PROVE  <<longer[i], longer[i + 1]>> \in LegalMoves
  <2>1. CASE i = Len(path)
    BY <1>1, <2>1 DEF Told
  <2>2. CASE i # Len(path)
    <3>1. i \in 1..Len(path) - 1 /\ i \in 1..Len(path) /\ i + 1 \in 1..Len(path)
      BY <1>1, <2>2
    <3> QED
      BY <1>1, <3>1 DEF Told
  <2> QED
    BY <2>1, <2>2
<1> HIDE DEF longer
<1> QED
  BY <1>1, <1>2 DEF Told, longer

LEMMA EventsStep ==
    ASSUME ClaimsTypeOK, EventsTellTheStatus, [Next]_vars
    PROVE  EventsTellTheStatus'
<1> SUFFICES ASSUME NEW c \in ClaimIds, claims'[c].status # "NONE"
             PROVE  Told(events'[c], claims'[c].status)
  BY DEF EventsTellTheStatus, Told
<1>1. claims[c].status # "NONE" => Told(events[c], claims[c].status)
  BY DEF EventsTellTheStatus, Told
<1>2. events[c] \in Seq(ClaimStates) /\ claims[c] \in ClaimRows /\ claims'[c] \in ClaimRows
  BY ClaimsTypeStep DEF ClaimsTypeOK
<1>3. CASE Kept(c)
  BY <1>1, <1>3 DEF Kept
<1>4. CASE Created(c)
  <2>1. events'[c] = <<"DRAFT">> /\ claims'[c].status = "DRAFT"
    BY <1>4 DEF Created
  <2> QED
    BY <2>1 DEF Told
<1>5. CASE Edited(c)
  BY <1>1, <1>2, <1>5 DEF Edited, ClaimRows
<1>6. ASSUME NEW s, Moved(c, s) PROVE Told(events'[c], claims'[c].status)
  <2>1. claims'[c].status = s /\ s \in ClaimStates
    BY <1>2, <1>6, MovedColumns DEF ClaimRows
  <2>2. claims[c].status # "NONE"
    BY <1>6 DEF Moved, LegalMoves
  <2> QED
    BY <1>1, <1>2, <1>6, <2>1, <2>2, MoveIsTold DEF Moved
<1> QED
  BY <1>3, <1>4, <1>5, <1>6, VersionSteps DEF VersionStep, Authorizing

\* The events of a claim are a path of its life cycle that ends in its status.
THEOREM EventsTellTheStatusHolds == Spec => []EventsTellTheStatus
<1>1. Init => EventsTellTheStatus
  BY DEF Init, NoClaim, EventsTellTheStatus
<1>2. ClaimsTypeOK /\ EventsTellTheStatus /\ [Next]_vars => EventsTellTheStatus'
  BY EventsStep
<1> QED
  BY <1>1, <1>2, ClaimsTypeCorrect, PTL DEF Spec

=============================================================================
