CONSTANTS
    sponsor = sponsor
    beneficiary = beneficiary
    project = project
    Milestone = {1}
    Account = {sponsor, beneficiary}
    Owner = sponsor
    Project = {project}
    Baseline = {b1}
    Sponsor = {sponsor}
    Agreed <- MCAgreed
    MaxChallenges = 2
    Deployed = FALSE
    Withdrawers = {beneficiary}
    Failures = {"SUBMISSION_ALL_SOURCES_FAILED"}
    Decisions = {"PASS", "FAIL"}
    MaxVersion = 2
    MaxRequest = 2
    MaxAttempt = 2
    MaxTime = 5
SPECIFICATION FairSpec
INVARIANTS
    TypeOK
    ReviewIsCurrent
    PaidAsReviewed
    OneReviewPerRequest
PROPERTIES
    KeepsPromise
    AnswerIsTaken
CHECK_DEADLOCK FALSE
