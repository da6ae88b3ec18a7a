CONSTANTS
    requester = requester
    provider = provider
    issuer1 = issuer1
    issuer2 = issuer2
    s1 = s1
    s2 = s2
    Handoff = {1}
    Account = {requester, provider, issuer1, issuer2}
    Owner = requester
    Agreed <- MCAgreed
    WorkflowDeadline = 3
    Issuer = {issuer1, issuer2}
    Source <- MCSource
    FreshUntil = {4}
    MinIssuers = 2
    MinPublishers = 2
    BreachRule = {2}
    ResponseWindow = 1
    RepairWindow = 1
    ReviewRecovery = 2
    EvidenceLimit = 2
    Deployed = TRUE
    Withdrawers = {}
    MaxEvidence = 2
    MaxEvidenceVersion = 1
    MaxRevision = 1
    MaxVersion = 2
    MaxTime = 4
SPECIFICATION Spec
INVARIANTS
    RequeueOnlyWhileActive
SYMMETRY Interchangeable
CHECK_DEADLOCK FALSE
