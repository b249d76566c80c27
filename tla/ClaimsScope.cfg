SPECIFICATION Spec
CONSTANTS
    x1 = x1
    None = None
    Scopes <- TwoScopes
    Causes <- OneCause
    MaxClaims = 1
    MaxAssessments = 1
    MaxTriggers = 0
INVARIANTS
    AuthorizedScopeWithinClaim
CHECK_DEADLOCK FALSE
