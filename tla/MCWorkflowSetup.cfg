CONSTANTS
    alice = alice
    bob = bob
    p1 = p1
    p2 = p2
    p3 = p3
    p4 = p4
    Account = {alice, bob}
    PolicyTerms <- MCPolicyTerms
    Prefix = {p1, p2, p3, p4}
    OriginOf <- MCOriginOf
    WorkflowDeadlines = {4, 5}
    HandoffTerms <- MCHandoffTerms
    MaxPolicyMembers = 3
    MaxHandoffs = 3
    MaxDependencies = 2
    MaxPolicy = 1
    MaxWorkflow = 2
    MaxHandoff = 3
    MaxTime = 3
SPECIFICATION Spec
INVARIANTS
    TypeOK
    PolicyIsAsSealed
    DependenciesAcyclic
    ActiveTermsAreSound
PROPERTIES
    ActiveWorkflowIsFixed
CHECK_DEADLOCK FALSE
