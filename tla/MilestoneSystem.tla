---------------------------- MODULE MilestoneSystem ----------------------------
(***************************************************************************)
(* Authority, Registry, Adjudicator and Vault of the milestone protocol    *)
(* together: the accounts' transactions, the messages between the          *)
(* contracts and one clock.                                                *)
(***************************************************************************)
EXTENDS Integers, Sequences, FiniteSets

CONSTANTS
    Milestone, Account, Owner, Project, Baseline, Sponsor, Agreed,
    MaxChallenges, Deployed,
    Withdrawers,  \* bound: accounts whose withdrawals are explored
    Failures, Decisions, MaxVersion, MaxRequest, MaxAttempt, MaxTime

VARIABLES
    now, net,
    accepted, milestones, reviews, adjudicatorBound, vaultBound, attempts,
    results, receipts,
    status, terms, claimable, balance, paid, log, frames

registryVars == <<accepted, milestones, reviews, adjudicatorBound, vaultBound, attempts>>
adjudicatorVars == <<results, receipts>>
vaultVars == <<status, terms, claimable, balance, paid, log, frames>>
vars == <<now, net, registryVars, adjudicatorVars, vaultVars>>

\* Every request yields at most one review.
ReviewId == 1..(MaxRequest * Cardinality(Milestone))

R == INSTANCE MilestoneRegistry
A == INSTANCE MilestoneAdjudicator
V == INSTANCE MilestoneVault WITH Digest <- Baseline

\* What the contracts assume of their inputs, for as many milestones and accounts as
\* there are ids of bytes32 and addresses.
ASSUME SystemAssumption ==
    /\ R!AgreedAssumption
    /\ V!E!FiniteAssumption
    /\ MaxRequest \in Nat
    /\ Failures \subseteq R!RepairCode
    /\ Decisions \subseteq DOMAIN R!DecisionRule
    /\ Withdrawers \subseteq Account

Init == R!Init /\ A!Init /\ V!Init

Tick == V!Tick /\ UNCHANGED <<net, registryVars, adjudicatorVars>>

-----------------------------------------------------------------------------
(* Transactions of accounts.                                               *)

RegistryCall ==
    /\ V!TopLevel
    /\ R!RegistryStep
    /\ UNCHANGED <<adjudicatorVars, vaultVars>>

VaultCall ==
    /\ \/ \E m \in Milestone :
            \/ \E a \in Account : V!FundMilestone(m, a) \/ V!PostBond(m, a)
            \/ V!RecoverUnactivated(m)
            \/ V!RecoverActive(m)
       \/ \E a \in Withdrawers : V!Withdraw(a)
    /\ UNCHANGED <<net, registryVars, adjudicatorVars>>

VaultReturns ==
    /\ V!WithdrawReturns \/ V!WithdrawReverts
    /\ UNCHANGED <<net, registryVars, adjudicatorVars>>

-----------------------------------------------------------------------------
(* Deliveries of finalized messages.                                       *)

DeliverRegister(msg) ==
    /\ msg.type = "register"
    /\ \/ V!RegisterMilestone(msg.milestone, msg.terms)
       \/ V!RegistrationIgnored(msg.milestone, msg.terms)
    /\ UNCHANGED <<net, registryVars, adjudicatorVars>>

DeliverOutcome(msg) ==
    /\ msg.type = "outcome"
    /\ \/ V!ApplyFinalOutcome(msg.milestone, milestones[msg.milestone].baseline,
                              msg.review, msg.rule)
       \/ V!OutcomeIgnored(msg.milestone, milestones[msg.milestone].baseline)
    /\ UNCHANGED <<net, registryVars, adjudicatorVars>>

DeliverRecover(msg) ==
    /\ msg.type = "recover"
    /\ V!TopLevel
    /\ V!RecoverActive(msg.milestone)
    /\ UNCHANGED <<net, registryVars, adjudicatorVars>>

DeliverReview(msg) ==
    /\ msg.type = "review"
    /\ V!TopLevel
    /\ A!ReviewMilestone(msg)
    /\ UNCHANGED <<now, registryVars, vaultVars>>

DeliverAnswer(msg) ==
    /\ msg.type = "answer"
    /\ V!TopLevel
    /\ \/ R!RecordRepair(msg.milestone, msg.request, msg.result.code)
       \/ R!RecordReview(msg.milestone, msg.request, msg.result)
       \/ R!AnswerIgnored(msg.milestone, msg.request, msg.result)
    /\ net' = net \ {msg}
    /\ UNCHANGED <<adjudicatorVars, vaultVars>>

Next ==
    \/ Tick
    \/ RegistryCall
    \/ VaultCall
    \/ VaultReturns
    \/ \E msg \in net :
        \/ DeliverRegister(msg)
        \/ DeliverOutcome(msg)
        \/ DeliverRecover(msg)
        \/ DeliverReview(msg)
        \/ DeliverAnswer(msg)

Spec == Init /\ [][Next]_vars

\* Every call ends, and an answer the Adjudicator sent is executed in the end, whether
\* record_review takes it or fails; strong fairness, because re-entrant withdrawals that
\* fail can be repeated for ever between the top-level calls.  Nothing is assumed of
\* the accounts, and nothing of review requests: each may fail, as often as it is sent.
FairSpec ==
    /\ Spec
    /\ WF_vars(VaultReturns)
    /\ SF_vars(\E msg \in net : DeliverAnswer(msg))

-----------------------------------------------------------------------------
(* Properties.                                                             *)

Answers == [code : R!RepairCode \cup {""}, review : Nat, version : Nat,
            challenges : Nat, decision : {"PASS", "FAIL", "UNDETERMINED"}, rule : 1..3]

\* The parts are well typed, a milestone shows a repair code exactly while it asks
\* for repair, and every message under way is one its sender emits.
TypeOK ==
    /\ now \in Nat
    /\ milestones \in [Milestone -> R!MilestoneRecord]
    /\ reviews \in [ReviewId -> R!Review \cup {<<>>}]
    /\ attempts \in [Milestone -> Nat]
    /\ results \in [Milestone -> [1..MaxRequest -> Answers \cup {<<>>}]]
    /\ receipts \in Seq(R!Review)
    /\ \A m \in Milestone :
        /\ milestones[m].review \in ReviewId \cup {0}
        /\ milestones[m].status = "REPAIR_REQUIRED" <=> milestones[m].repair # ""
    /\ \A msg \in net :
        /\ msg.type \in {"register", "outcome", "recover", "review", "answer"}
        /\ msg.milestone \in Milestone

\* Whatever is repeated, late or challenged in between, a REVIEWED milestone shows
\* the review of its last submission that also saw its last challenge, recorded
\* under the id and with the rule the Adjudicator gave it (record_review).
ReviewIsCurrent ==
    \A m \in Milestone :
        milestones[m].status = "REVIEWED" =>
            /\ milestones[m].review \in DOMAIN receipts
            /\ reviews[milestones[m].review] = receipts[milestones[m].review]
            /\ LET review == reviews[milestones[m].review]
               IN  /\ review.milestone = m
                   /\ review.request = milestones[m].request
                   /\ review.version = milestones[m].version
                   /\ review.challenges = Len(milestones[m].challenges)

\* What an escrow paid is the consequence of the review that still stands: no
\* challenge and no later review came between the instruction, which may arrive
\* late and often, and the payout (queue_settlement, challenge_milestone, Vault).
PaidAsReviewed ==
    \A m \in Milestone, id \in ReviewId, r \in 1..3 :
        log[m] = <<V!E!VerdictApplied(id, r)>> =>
            /\ milestones[m].status = "REVIEWED"
            /\ milestones[m].review = id
            /\ reviews[id].rule = r

\* However often a request is sent, it is reviewed once: two receipts are of
\* different requests (review_milestone's cache, retry_milestone_review).
OneReviewPerRequest ==
    \A i, j \in DOMAIN receipts :
        i # j => \/ receipts[i].milestone # receipts[j].milestone
                 \/ receipts[i].request # receipts[j].request

\* A review compares the submission with the baseline the terms were agreed on and
\* with its mirror: what the Authority shows when the review is requested is still
\* what it showed when the milestone was created.
ReviewedAgainstAgreedBaseline ==
    \A msg \in net :
        msg.type = "review" => msg.context.mirror = msg.context.baseline

\* A review the Adjudicator has given for the request under way is taken by the
\* Registry, or its finding is: whatever is sent again or repeated meanwhile, the answer
\* cannot become one that record_review refuses.  Without an answer a milestone may
\* stay REVIEW_PENDING for ever.
AnswerIsTaken ==
    \A m \in Milestone :
        (milestones[m].status = "REVIEW_PENDING" /\ results[m][milestones[m].request] # <<>>)
            ~> milestones[m].status # "REVIEW_PENDING"

\* A milestone that asks for repair does so because of its current submission: the
\* answer taken for it is about that version.
RepairIsCurrent ==
    \A m \in Milestone :
        milestones[m].status = "REPAIR_REQUIRED" =>
            results[m][milestones[m].request].version = milestones[m].version

-----------------------------------------------------------------------------
(* The promise the system implements.                                      *)

RuleName == <<"pass", "fail", "neutral">>

Instructed(m) == \E msg \in net : msg.type = "outcome" /\ msg.milestone = m

StandingVerdict(m) ==
    IF milestones[m].status = "REVIEWED" THEN RuleName[reviews[milestones[m].review].rule]
    ELSE "none"

OutcomeOf(events) ==
    IF events = <<>> THEN "pending"
    ELSE LET e == Head(events)
         IN  IF e.kind = "VerdictApplied" THEN RuleName[e.rule] ELSE "expired"

P == INSTANCE MilestonePromise
    WITH verdict <- [m \in Milestone |-> StandingVerdict(m)],
         challenges <- [m \in Milestone |-> Len(milestones[m].challenges)],
         final <- [m \in Milestone |-> Instructed(m)],
         outcome <- [m \in Milestone |-> OutcomeOf(V!E!CommittedLog[m])]

\* The four contracts keep the promise of MilestonePromise: a verdict can be
\* challenged twice, is final when it is instructed, and an escrow ends once, as
\* the final verdict says or by expiry.
KeepsPromise == P!Spec
=============================================================================
