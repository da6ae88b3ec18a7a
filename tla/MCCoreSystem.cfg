CONSTANTS
    requester = requester
    provider = provider
    s1 = s1
    s2 = s2
    Handoff = {1}
    Account = {requester, provider}
    Owner = requester
    Agreed <- MCAgreed
    OwnerPolicy <- MCPolicy
    WorkflowDeadline = 4
    Prefix = {s1, s2}
    Source <- MCSource
    FreshUntil = {5}
    EvidenceLimit = 2
    MaxPolicyMembers = 2
    MaxHandoffs = 2
    MaxDependencies = 1
    Hasty = {provider}
    MaxEvidence = 2
    MaxEvidenceVersion = 1
    MaxRevision = 2
    MaxVersion = 2
    MaxTime = 5
SPECIFICATION Spec
INVARIANTS
    SyncedStatusIsTrue
PROPERTIES
    KeepsPromise
SYMMETRY Interchangeable
CHECK_DEADLOCK FALSE
