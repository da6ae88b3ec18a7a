CONSTANTS
    alice = alice
    bob = bob
    Handoff = {1, 2}
    Case = {11, 12}
    Account = {alice, bob}
    Binding = {1, 2}
    Offered <- MCOffered
    MaxTime = 4
SPECIFICATION FairSpec
INVARIANTS
    TypeOK
    Solvent
    ExactEntitlement
    EndsOnce
    ProcessedCaseSettledOne
PROPERTIES
    EndIsFinal
    NothingStaysLocked
CHECK_DEADLOCK FALSE
