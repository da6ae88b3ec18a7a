--------------------------- MODULE MilestoneRegistry ---------------------------
(***************************************************************************)
(* contracts/verdict_graph_milestone_registry.py with the register of      *)
(* accepted projects it reads, verdict_graph_milestone_authority.py.       *)
(*                                                                         *)
(* A milestone is named by its reference, which can be used once.  What    *)
(* its sponsor would create it with is a constant; the digest of its terms *)
(* is named by the baseline they were created with.  A call that fails is  *)
(* a disabled action.                                                      *)
(*                                                                         *)
(* net holds the finalized messages under way.  Those to the Vault stay in *)
(* it, as they may be executed late, again after a repeated emission, or   *)
(* never; a review request and its answer are executed at most once each   *)
(* and leave it, so that two executions mean two emissions.                *)
(***************************************************************************)
EXTENDS Integers, Sequences, FiniteSets

CONSTANTS
    Milestone,      \* milestone references, and ids
    Account,        \* addresses
    Owner,          \* deployer of the Registry
    Project,        \* project references
    Baseline,       \* baselines, each with its mirror and acceptance record
    Sponsor,        \* sponsors the acceptance authority may name
    Agreed,         \* per milestone: project, beneficiary, amounts, deadlines, window
    ReviewId,       \* review ids
    MaxChallenges,  \* MAX_CHALLENGES
    Deployed,       \* whether the endpoints were bound before the first step
    MaxVersion,     \* bound: submissions per milestone
    MaxRequest,     \* bound: review requests per milestone
    MaxAttempt,     \* bound: emissions of one review request
    MaxTime         \* bound: the clock stops here

ASSUME AgreedAssumption ==
    /\ Deployed \in BOOLEAN
    /\ MaxChallenges \in Nat
    /\ ReviewId \subseteq Nat \ {0}
    /\ \A m \in Milestone :
        /\ Agreed[m].project \in Project
        /\ Agreed[m].beneficiary \in Account
        /\ Agreed[m].principal \in Nat
        /\ Agreed[m].bond \in Nat
        /\ Agreed[m].fundingDeadline \in Nat
        /\ Agreed[m].submissionDeadline \in Nat
        /\ Agreed[m].recoveryDeadline \in Nat
        /\ Agreed[m].challengeWindow \in Nat \ {0}

VARIABLES
    now,               \* block time
    net,               \* finalized messages under way
    accepted,          \* Authority: accepted_projects, <<>> when not registered
    milestones,        \* milestones[m]
    reviews,           \* reviews[id], <<>> when not recorded
    adjudicatorBound,  \* adjudicator_address is set
    vaultBound,        \* vault_address is set
    attempts           \* how often the current review request was emitted

registryVars == <<accepted, milestones, reviews, adjudicatorBound, vaultBound, attempts>>
vars == <<now, net, registryVars>>

\* The consequence of each decision; a FAIL names one of the criteria, of which
\* there is at least one.
DecisionRule == [PASS |-> 1, FAIL |-> 2, UNDETERMINED |-> 3]
Rule == 1..3

RepairCode == {"BASELINE_ALL_SOURCES_FAILED", "ACCEPTANCE_RECORD_ALL_SOURCES_FAILED",
               "SUBMISSION_ALL_SOURCES_FAILED", "REVIEW_INPUT_TOO_LARGE",
               "REVIEW_PROMPT_TOO_LARGE"}

\* settlement_earliest_at always equals challengeDeadline.  challenges is the
\* challenge history: for each challenge the review that resolved it, 0 before;
\* text says whether challenge_reason is set.
MilestoneRecord ==
    [status : {"NONE", "DRAFT", "ACTIVE", "SUBMITTED", "REVIEW_PENDING", "REVIEWED",
               "CHALLENGED", "REPAIR_REQUIRED"},
     owner : Account \cup {"none"}, baseline : Baseline \cup {"none"},
     version : Nat, ready : SUBSET Account,
     challenges : Seq(Nat), text : BOOLEAN, challengeDeadline : Nat,
     queued : BOOLEAN, review : Nat, request : Nat, reviewQueued : BOOLEAN,
     repair : RepairCode \cup {""}]

NoMilestone ==
    [status |-> "NONE", owner |-> "none", baseline |-> "none",
     version |-> 0, ready |-> {}, challenges |-> <<>>, text |-> FALSE,
     challengeDeadline |-> 0, queued |-> FALSE, review |-> 0, request |-> 0,
     reviewQueued |-> FALSE, repair |-> ""]

\* The digest of a review covers what identifies it: its milestone, submission,
\* challenge count, decision and sources.
Review == [milestone : Milestone, request : Nat, version : Nat, challenges : Nat, rule : Rule]

Participants(m) == {milestones[m].owner, Agreed[m].beneficiary}

\* What the Vault is asked to hold for milestone m.
Terms(m) ==
    [binding |-> milestones[m].baseline, requester |-> milestones[m].owner,
     provider |-> Agreed[m].beneficiary, principal |-> Agreed[m].principal,
     bond |-> Agreed[m].bond, fundingDeadline |-> Agreed[m].fundingDeadline,
     recoveryDeadline |-> Agreed[m].recoveryDeadline]

Register(m) == [type |-> "register", milestone |-> m, terms |-> Terms(m)]
Outcome(m, id, r) == [type |-> "outcome", milestone |-> m, review |-> id, rule |-> r]
Recover(m) == [type |-> "recover", milestone |-> m]

\* get_review_context: the submission and challenge of the milestone, its baseline,
\* and the mirror and acceptance record the Authority shows at that moment.
ReviewContext(m, text) ==
    [version |-> milestones[m].version, challenges |-> Len(milestones[m].challenges),
     text |-> text, baseline |-> milestones[m].baseline,
     mirror |-> accepted[Agreed[m].project].baseline]

ReviewRequest(m, request, attempt, context) ==
    [type |-> "review", milestone |-> m, request |-> request, attempt |-> attempt,
     context |-> context]

Emit(msg) == net' = net \cup {msg}

Init ==
    /\ now = 1
    /\ net = {}
    /\ accepted = [p \in Project |-> <<>>]
    /\ milestones = [m \in Milestone |-> NoMilestone]
    /\ reviews = [id \in ReviewId |-> <<>>]
    /\ adjudicatorBound = Deployed
    /\ vaultBound = Deployed
    /\ attempts = [m \in Milestone |-> 0]

Tick ==
    /\ now < MaxTime
    /\ now' = now + 1
    /\ UNCHANGED <<net, registryVars>>

-----------------------------------------------------------------------------
(* The Authority: a project is accepted once, by the acceptance authority. *)

RegisterAcceptedProject(p, sponsor, baseline) ==
    /\ accepted[p] = <<>>
    /\ accepted' = [accepted EXCEPT ![p] = [sponsor |-> sponsor, baseline |-> baseline]]
    /\ UNCHANGED <<now, net, milestones, reviews, adjudicatorBound, vaultBound, attempts>>

-----------------------------------------------------------------------------
(* Bindings and the creation of a milestone.                               *)

BindAdjudicator(who) ==
    /\ who = Owner
    /\ ~adjudicatorBound
    /\ adjudicatorBound' = TRUE
    /\ UNCHANGED <<now, net, accepted, milestones, reviews, vaultBound, attempts>>

BindVault(who) ==
    /\ who = Owner
    /\ ~vaultBound
    /\ adjudicatorBound
    /\ vaultBound' = TRUE
    /\ UNCHANGED <<now, net, accepted, milestones, reviews, adjudicatorBound, attempts>>

\* A window of 900 seconds is one unit of time.
WindowsFit(a) ==
    /\ a.fundingDeadline > now
    /\ a.submissionDeadline > a.fundingDeadline
    /\ a.recoveryDeadline > a.submissionDeadline

CreateMilestone(m, who) ==
    LET snapshot == accepted[Agreed[m].project]
    IN  /\ milestones[m].status = "NONE"
        /\ snapshot # <<>>
        /\ who = snapshot.sponsor
        /\ Agreed[m].beneficiary # who
        /\ Agreed[m].principal > 0
        /\ Agreed[m].bond > 0
        /\ WindowsFit(Agreed[m])
        /\ milestones' = [milestones EXCEPT ![m] =
               [NoMilestone EXCEPT !.status = "DRAFT", !.owner = who,
                                   !.baseline = snapshot.baseline]]
        /\ UNCHANGED <<now, net, accepted, reviews, adjudicatorBound, vaultBound, attempts>>

\* All that follows changes the milestone, and possibly net, only.
Unaffected == <<now, accepted, adjudicatorBound, vaultBound>>

ActivateMilestone(m, who) ==
    /\ who = milestones[m].owner
    /\ milestones[m].status = "DRAFT"
    /\ milestones' = [milestones EXCEPT ![m].status = "ACTIVE"]
    /\ UNCHANGED <<net, reviews, attempts, Unaffected>>

RegisterMilestoneInVault(m, who) ==
    /\ who = milestones[m].owner
    /\ milestones[m].status = "ACTIVE"
    /\ vaultBound
    /\ Emit(Register(m))
    /\ UNCHANGED <<milestones, reviews, attempts, Unaffected>>

-----------------------------------------------------------------------------
(* Submission and review.                                                  *)

SubmitMilestone(m, who) ==
    /\ who = Agreed[m].beneficiary
    /\ milestones[m].status \in {"ACTIVE", "REPAIR_REQUIRED"}
    /\ now <= Agreed[m].submissionDeadline
    /\ milestones[m].version < MaxVersion
    /\ milestones' = [milestones EXCEPT ![m] =
            [milestones[m] EXCEPT !.version = @ + 1, !.ready = {}, !.text = FALSE,
                !.reviewQueued = FALSE, !.repair = "", !.status = "SUBMITTED"]]
    /\ UNCHANGED <<net, reviews, attempts, Unaffected>>

MarkMilestoneReady(m, who) ==
    /\ milestones[m].status = "SUBMITTED"
    /\ who \in Participants(m)
    /\ milestones' = [milestones EXCEPT ![m].ready = @ \cup {who}]
    /\ UNCHANGED <<net, reviews, attempts, Unaffected>>

QueueReview(m, text) ==
    LET request == milestones[m].request + 1
    IN  /\ adjudicatorBound
        /\ request <= MaxRequest
        /\ milestones' = [milestones EXCEPT ![m] =
               [milestones[m] EXCEPT !.request = request, !.reviewQueued = TRUE,
                                     !.status = "REVIEW_PENDING"]]
        /\ attempts' = [attempts EXCEPT ![m] = 1]
        /\ Emit(ReviewRequest(m, request, 1, ReviewContext(m, text)))
        /\ UNCHANGED <<reviews, Unaffected>>

\* Anyone may resolve a submission both participants marked ready, or one whose
\* deadline has come.
ResolveMilestone(m) ==
    /\ milestones[m].status = "SUBMITTED"
    /\ ~milestones[m].reviewQueued
    /\ milestones[m].ready = Participants(m) \/ now >= Agreed[m].submissionDeadline
    /\ now <= Agreed[m].recoveryDeadline
    /\ QueueReview(m, FALSE)

RetryMilestoneReview(m, who) ==
    /\ milestones[m].status = "REVIEW_PENDING"
    /\ milestones[m].reviewQueued
    /\ who \in Participants(m)
    /\ now <= Agreed[m].recoveryDeadline
    /\ attempts[m] < MaxAttempt
    /\ attempts' = [attempts EXCEPT ![m] = @ + 1]
    /\ Emit(ReviewRequest(m, milestones[m].request, attempts[m] + 1,
                          ReviewContext(m, milestones[m].text)))
    /\ UNCHANGED <<milestones, reviews, Unaffected>>

\* Faulty variant: a verdict whose settlement is under way can be challenged.
ChallengeableQueued(m) ==
    /\ milestones[m].status = "REVIEWED"
    /\ Len(milestones[m].challenges) < MaxChallenges
Challengeable(m) ==
    /\ milestones[m].status = "REVIEWED"
    /\ ~milestones[m].queued
    /\ now <= milestones[m].challengeDeadline
    /\ Len(milestones[m].challenges) < MaxChallenges

ChallengeMilestone(m, who) ==
    /\ Challengeable(m)
    /\ who \in Participants(m)
    /\ milestones' = [milestones EXCEPT ![m] =
            [milestones[m] EXCEPT !.status = "CHALLENGED", !.text = TRUE,
                                  !.challenges = Append(@, 0)]]
    /\ UNCHANGED <<net, reviews, attempts, Unaffected>>

ResolveChallenge(m, who) ==
    /\ milestones[m].status = "CHALLENGED"
    /\ who \in Participants(m)
    /\ now <= Agreed[m].recoveryDeadline
    /\ QueueReview(m, milestones[m].text)

-----------------------------------------------------------------------------
(* record_review, the Adjudicator's answer.  An answer whose execution     *)
(* fails, or that was recorded before, leaves no trace.                    *)

\* Whether the answer to `request` is still looked at.  Faulty variant: only a
\* first review is.
AwaitedFirst(m, request) ==
    /\ request = milestones[m].request
    /\ milestones[m].review = 0
Awaited(m, request) ==
    /\ request = milestones[m].request
    /\ \/ milestones[m].status \notin {"REVIEWED", "REPAIR_REQUIRED"}
       \/ milestones[m].reviewQueued

\* Faulty variants: a finding without a code is taken for one; a result is taken
\* for whatever submission and challenge stand, as often as it comes.
RepairWithoutCode(m, request, code) == Awaited(m, request)
ResultForAnything(m, request, result) == Awaited(m, request) /\ result.code = ""

RepairAccepted(m, request, code) == Awaited(m, request) /\ code # ""
ResultAccepted(m, request, result) ==
    /\ Awaited(m, request)
    /\ result.code = ""
    /\ result.version = milestones[m].version
    /\ result.challenges = Len(milestones[m].challenges)
    /\ result.rule = DecisionRule[result.decision]
    /\ reviews[result.review] = <<>>

RecordRepair(m, request, code) ==
    /\ RepairAccepted(m, request, code)
    /\ milestones' = [milestones EXCEPT ![m] =
            [milestones[m] EXCEPT !.status = "REPAIR_REQUIRED", !.reviewQueued = FALSE,
                                  !.repair = code]]
    /\ UNCHANGED <<reviews, attempts, Unaffected>>

Resolved(challenges, id) ==
    IF challenges = <<>> THEN challenges ELSE [challenges EXCEPT ![Len(challenges)] = id]

RecordReview(m, request, result) ==
    /\ ResultAccepted(m, request, result)
    /\ reviews' = [reviews EXCEPT ![result.review] =
            [milestone |-> m, request |-> request, version |-> result.version,
             challenges |-> result.challenges, rule |-> result.rule]]
    /\ milestones' = [milestones EXCEPT ![m] =
            [milestones[m] EXCEPT !.status = "REVIEWED", !.reviewQueued = FALSE,
                !.review = result.review, !.queued = FALSE, !.repair = "",
                !.challengeDeadline = now + Agreed[m].challengeWindow,
                !.challenges = Resolved(@, result.review)]]
    /\ UNCHANGED <<attempts, Unaffected>>

AnswerIgnored(m, request, result) ==
    /\ ~RepairAccepted(m, request, result.code)
    /\ ~ResultAccepted(m, request, result)
    /\ UNCHANGED <<milestones, reviews, attempts, Unaffected>>

-----------------------------------------------------------------------------
(* Settlement and recovery.                                                *)

\* Faulty variant: an open challenge does not stop the settlement.
SettleableChallenged(m) ==
    /\ milestones[m].status \in {"REVIEWED", "CHALLENGED"}
    /\ milestones[m].queued \/ now > milestones[m].challengeDeadline
    /\ now <= Agreed[m].recoveryDeadline
Settleable(m) ==
    /\ milestones[m].status = "REVIEWED"
    /\ milestones[m].queued \/ now > milestones[m].challengeDeadline
    /\ now <= Agreed[m].recoveryDeadline

QueueSettlement(m, expected) ==
    /\ vaultBound
    /\ Settleable(m)
    /\ expected = milestones[m].review
    /\ milestones' = [milestones EXCEPT ![m].queued = TRUE]
    /\ Emit(Outcome(m, expected, reviews[expected].rule))
    /\ UNCHANGED <<reviews, attempts, Unaffected>>

\* The statuses SETTLED and RECOVERED are compared with, and never assigned: the
\* message can be sent again and again, and queued is all that changes here.
RecoverMilestone(m) ==
    /\ vaultBound
    /\ milestones[m].status # "NONE"
    /\ now > Agreed[m].recoveryDeadline
    /\ milestones' = [milestones EXCEPT ![m].queued = TRUE]
    /\ Emit(Recover(m))
    /\ UNCHANGED <<reviews, attempts, Unaffected>>

-----------------------------------------------------------------------------
\* The calls of accounts.
RegistryStep ==
    \/ \E p \in Project, sponsor \in Sponsor, baseline \in Baseline :
            RegisterAcceptedProject(p, sponsor, baseline)
    \/ \E who \in Account :
        \/ BindAdjudicator(who) \/ BindVault(who)
        \/ \E m \in Milestone :
            \/ CreateMilestone(m, who)
            \/ ActivateMilestone(m, who)
            \/ RegisterMilestoneInVault(m, who)
            \/ SubmitMilestone(m, who)
            \/ MarkMilestoneReady(m, who)
            \/ RetryMilestoneReview(m, who)
            \/ ChallengeMilestone(m, who)
            \/ ResolveChallenge(m, who)
    \/ \E m \in Milestone :
        \/ ResolveMilestone(m)
        \/ \E id \in ReviewId : QueueSettlement(m, id)
        \/ RecoverMilestone(m)
=============================================================================
