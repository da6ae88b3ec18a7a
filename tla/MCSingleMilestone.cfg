CONSTANTS
    sponsor = sponsor
    beneficiary = beneficiary
    project = project
    Milestone = {1}
    Account = {sponsor, beneficiary}
    Owner = sponsor
    Project = {project}
    Baseline = {b1}
    Sponsor = {sponsor}
    Agreed <- MCAgreed
    ReviewId = {1, 2, 3}
    MaxChallenges = 2
    Deployed = FALSE
    Failures = {"SUBMISSION_ALL_SOURCES_FAILED"}
    MaxVersion = 2
    MaxRequest = 0
    MaxAttempt = 0
    MaxTime = 5
SPECIFICATION SystemSpec
PROPERTIES
    KeepsPromise
CHECK_DEADLOCK FALSE
