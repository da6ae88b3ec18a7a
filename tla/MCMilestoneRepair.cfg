CONSTANTS
    sponsor = sponsor
    beneficiary = beneficiary
    project = project
    Milestone = {1}
    Account = {sponsor, beneficiary}
    Owner = sponsor
    Project = {project}
    Baseline = {b1}
    Sponsor = {sponsor}
    Agreed <- MCAgreed
    MaxChallenges = 2
    Deployed = TRUE
    Withdrawers = {}
    Failures = {"SUBMISSION_ALL_SOURCES_FAILED"}
    Decisions = {"PASS"}
    MaxVersion = 2
    MaxRequest = 1
    MaxAttempt = 2
    MaxTime = 5
SPECIFICATION Spec
INVARIANTS
    RepairIsCurrent
CHECK_DEADLOCK FALSE
