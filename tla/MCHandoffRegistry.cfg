CONSTANTS
    alice = alice
    bob = bob
    carol = carol
    Handoff = {1, 2}
    Account = {alice, bob, carol}
    Owner = alice
    Agreed <- MCAgreed
    WorkflowDeadline = 5
    ResponseWindow = 1
    ReviewRecovery = 2
    Snapshots <- MCSnapshots
    Deployed = FALSE
    MaxVersion = 2
    MaxTime = 6
SPECIFICATION Spec
INVARIANTS
    AcceptXorDispute
    CompletionNamesAcceptedDelivery
    CaseWithinHandoff
PROPERTY FateIsFixed
CHECK_DEADLOCK FALSE
