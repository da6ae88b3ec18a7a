CONSTANTS
    requester = requester
    provider = provider
    issuer1 = issuer1
    issuer2 = issuer2
    Account = {requester, provider, issuer1, issuer2}
    Requester <- MCRequester
    Provider <- MCProvider
    Issuer = {issuer1, issuer2}
    Case = {1}
    Contexts <- MCShortContexts
    Source <- MCManySources
    MinIssuers = 2
    MinPublishers = 2
    BreachRule = {}
    ResponseWindow = 1
    RepairWindow = 1
    EvidenceLimit = 3
    MaxEvidence = 4
    MaxEvidenceVersion = 2
    MaxRevision = 3
    MaxTime = 3
    Deliveries = {0}
    FreshUntil = {2, 3}
    Deployed = FALSE
SPECIFICATION Spec
INVARIANTS
    StableIdentity
    IndependentEvidence
    CarriedForward
    VerdictBasis
CHECK_DEADLOCK FALSE
