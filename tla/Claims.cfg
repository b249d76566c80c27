SPECIFICATION Spec
CONSTANTS
    x1 = x1
    None = None
    Scopes <- TwoScopes
    Causes <- OneCause
    MaxClaims = 2
    MaxAssessments = 1
    MaxTriggers = 1
INVARIANTS
    ClaimsTypeOK
    AuthorizedContentWasApproved
    AuthorizedScopeIsCapable
    ScopeBeyondClaimTakesEdits
    EventsTellTheStatus
    StandingIsBacked
PROPERTIES
    FrozenAfterSubmission
CHECK_DEADLOCK FALSE
