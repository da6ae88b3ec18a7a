CONSTANTS
    requester = requester
    provider = provider
    issuer1 = issuer1
    issuer2 = issuer2
    Account = {requester, provider, issuer1, issuer2}
    Requester <- MCRequester
    Provider <- MCProvider
    Issuer = {issuer1, issuer2}
    Case = {1}
    Contexts <- MCContexts
    Source <- MCSource
    MinIssuers = 2
    MinPublishers = 2
    BreachRule = {2}
    ResponseWindow = 1
    RepairWindow = 1
    EvidenceLimit = 2
    MaxEvidence = 2
    MaxEvidenceVersion = 1
    MaxRevision = 2
    MaxTime = 5
    Deliveries = {1}
    FreshUntil = {3, 5}
    Deployed = FALSE
SPECIFICATION FairSpec
INVARIANTS
    TypeOK
    VerdictIsCurrent
    OneConsequence
PROPERTIES
    DecisionIsFinal
    ResponseWindowKept
    CaseIsDecided
CHECK_DEADLOCK FALSE
