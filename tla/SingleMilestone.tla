--------------------------- MODULE SingleMilestone ---------------------------
(***************************************************************************)
(* contracts/verdict_graph_milestone.py, the single-contract predecessor   *)
(* of the milestone Authority, Registry and Adjudicator, with its Vault.   *)
(*                                                                         *)
(* Creation, submission, challenge and settlement of a milestone are those *)
(* of MilestoneRegistry.  A review is part of the transaction that asks    *)
(* for it: no request or answer is ever under way, and what the validators *)
(* agree on is a free choice among the results the evaluation can return.  *)
(* Withdrawals from the Vault are MilestoneSystem's concern.               *)
(***************************************************************************)
EXTENDS MilestoneRegistry

CONSTANTS Failures  \* bound: the repair codes explored

VARIABLES status, terms, claimable, balance, paid, log, frames

vaultVars == <<status, terms, claimable, balance, paid, log, frames>>
systemVars == <<vars, vaultVars>>

V == INSTANCE MilestoneVault WITH Digest <- Baseline

\* Milestone ids are 256 and addresses 160 bits wide.
ASSUME FiniteAssumption == V!E!FiniteAssumption

\* There is no other contract to be bound to for reviews.
SystemInit ==
    /\ V!Init
    /\ net = {}
    /\ accepted = [p \in Project |-> <<>>]
    /\ milestones = [m \in Milestone |-> NoMilestone]
    /\ reviews = [id \in ReviewId |-> <<>>]
    /\ adjudicatorBound = TRUE
    /\ vaultBound = FALSE
    /\ attempts = [m \in Milestone |-> 0]

SystemTick == V!Tick /\ UNCHANGED <<net, registryVars>>

-----------------------------------------------------------------------------
(* The review.                                                             *)

Recorded == {id \in ReviewId : reviews[id] # <<>>}
NextReviewId == Cardinality(Recorded) + 1

RequireRepair(m) ==
    /\ \E code \in Failures :
        milestones' = [milestones EXCEPT ![m] =
            [@ EXCEPT !.status = "REPAIR_REQUIRED", !.repair = code]]
    /\ UNCHANGED reviews

\* What the model's answer is normalized to.
Decision == DOMAIN DecisionRule

\* The review that answers a challenge is noted with it; a repaired submission's
\* first review does not say so.
RecordVerdict(m, resolves) ==
    /\ NextReviewId \in ReviewId
    /\ \E decision \in Decision :
        reviews' = [reviews EXCEPT ![NextReviewId] =
            [milestone |-> m, request |-> 0, version |-> milestones[m].version,
             challenges |-> Len(milestones[m].challenges), rule |-> DecisionRule[decision]]]
    /\ milestones' = [milestones EXCEPT ![m] =
            [milestones[m] EXCEPT !.status = "REVIEWED", !.review = NextReviewId,
                      !.challengeDeadline = now + Agreed[m].challengeWindow,
                      !.queued = FALSE, !.repair = "",
                      !.challenges = IF resolves THEN Resolved(@, NextReviewId) ELSE @]]

Resolve(m, resolves) ==
    /\ now <= Agreed[m].recoveryDeadline
    /\ RequireRepair(m) \/ RecordVerdict(m, resolves)
    /\ UNCHANGED <<net, attempts, Unaffected>>

ReviewSubmission(m) ==
    /\ milestones[m].status = "SUBMITTED"
    /\ milestones[m].ready = Participants(m) \/ now >= Agreed[m].submissionDeadline
    /\ Resolve(m, FALSE)

\* Anyone may have a challenge reviewed.
ReviewChallenge(m) ==
    /\ milestones[m].status = "CHALLENGED"
    /\ Resolve(m, TRUE)

\* Anyone may have an active milestone registered.
RegisterInVault(m) ==
    /\ milestones[m].status = "ACTIVE"
    /\ vaultBound
    /\ Emit(Register(m))
    /\ UNCHANGED <<milestones, reviews, attempts, Unaffected>>

-----------------------------------------------------------------------------
(* The calls of accounts and the messages to the Vault.                    *)

SponsorStep ==
    \E who \in Account :
        \/ BindVault(who)
        \/ \E m \in Milestone : CreateMilestone(m, who) \/ ActivateMilestone(m, who)

SubmissionStep ==
    \E m \in Milestone, who \in Account : SubmitMilestone(m, who) \/ MarkMilestoneReady(m, who)

ChallengeStep == \E m \in Milestone, who \in Account : ChallengeMilestone(m, who)

SettlementStep ==
    \E m \in Milestone :
        \/ \E id \in ReviewId : QueueSettlement(m, id)
        \/ RecoverMilestone(m)

ContractStep ==
    \/ \E p \in Project, sponsor \in Sponsor, baseline \in Baseline :
            RegisterAcceptedProject(p, sponsor, baseline)
    \/ SponsorStep
    \/ SubmissionStep
    \/ ChallengeStep
    \/ SettlementStep
    \/ \E m \in Milestone : RegisterInVault(m) \/ ReviewSubmission(m) \/ ReviewChallenge(m)

ContractCall == V!TopLevel /\ ContractStep /\ UNCHANGED vaultVars

VaultCall ==
    /\ \E m \in Milestone :
        \/ \E a \in Account : V!FundMilestone(m, a) \/ V!PostBond(m, a)
        \/ V!RecoverUnactivated(m)
        \/ V!RecoverActive(m)
    /\ UNCHANGED <<net, registryVars>>

\* A recovery that is delivered does what any account may do itself.
Deliver(msg) ==
    /\ \/ /\ msg.type = "register"
          /\ V!RegisterMilestone(msg.milestone, msg.terms)
       \/ /\ msg.type = "outcome"
          /\ V!ApplyFinalOutcome(msg.milestone, milestones[msg.milestone].baseline,
                                 msg.review, msg.rule)
       \/ /\ msg.type = "recover"
          /\ V!RecoverActive(msg.milestone)
    /\ UNCHANGED <<net, registryVars>>

SystemNext ==
    \/ SystemTick
    \/ ContractCall
    \/ VaultCall
    \/ \E msg \in net : Deliver(msg)

SystemSpec == SystemInit /\ [][SystemNext]_systemVars

-----------------------------------------------------------------------------
(* The promise the single contract and its Vault implement.                *)

RuleName == <<"pass", "fail", "neutral">>

StandingVerdict(m) ==
    IF milestones[m].status = "REVIEWED" THEN RuleName[reviews[milestones[m].review].rule]
    ELSE "none"

Instructed(m) == \E msg \in net : msg.type = "outcome" /\ msg.milestone = m

OutcomeOf(events) ==
    IF events = <<>> THEN "pending"
    ELSE LET e == Head(events)
         IN  IF e.kind = "VerdictApplied" THEN RuleName[e.rule] ELSE "expired"

P == INSTANCE MilestonePromise
    WITH verdict <- [m \in Milestone |-> StandingVerdict(m)],
         challenges <- [m \in Milestone |-> Len(milestones[m].challenges)],
         final <- [m \in Milestone |-> Instructed(m)],
         outcome <- [m \in Milestone |-> OutcomeOf(V!E!CommittedLog[m])]

\* One contract that reviews in place keeps the promise the four contracts keep:
\* with no request or answer under way, and with anyone having a challenge reviewed.
KeepsPromise == P!Spec
=============================================================================
