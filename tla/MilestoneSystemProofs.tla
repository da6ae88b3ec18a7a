------------------------- MODULE MilestoneSystemProofs -------------------------
(***************************************************************************)
(* Theorems about MilestoneSystem, for every number of milestones,         *)
(* projects and accounts and whatever is repeated, late or challenged.     *)
(***************************************************************************)
EXTENDS MilestoneSystem, FiniteSetTheorems, TLAPS

\* What the proofs need of the constants.
LEMMA SystemFacts ==
    /\ IsFiniteSet(Milestone) /\ IsFiniteSet(Account)
    /\ MaxRequest \in Nat
    /\ Failures \subseteq R!RepairCode
    /\ Decisions \subseteq DOMAIN R!DecisionRule
    /\ Withdrawers \subseteq Account
    /\ \A m \in Milestone :
        /\ Agreed[m].project \in Project
        /\ Agreed[m].beneficiary \in Account
        /\ Agreed[m].principal \in Nat
        /\ Agreed[m].bond \in Nat
        /\ Agreed[m].fundingDeadline \in Nat
        /\ Agreed[m].recoveryDeadline \in Nat
        /\ Agreed[m].challengeWindow \in Nat
BY SystemAssumption DEF R!AgreedAssumption, V!E!FiniteAssumption, V!E!IsFiniteSet, IsFiniteSet

\* The review a milestone in state r would show is the Adjudicator's review of its
\* last request, and of the submission and the challenge that stand.
Current(m, r) ==
    /\ r.review \in DOMAIN receipts
    /\ reviews[r.review] = receipts[r.review]
    /\ reviews[r.review].milestone = m
    /\ reviews[r.review].request = r.request
    /\ reviews[r.review].version = r.version
    /\ reviews[r.review].challenges = Len(r.challenges)

\* What milestone m satisfies in state r: its requests are counted, its repair code
\* and its review belong to its status, and its baseline is the accepted one.
Sound(m, r) ==
    /\ r \in R!MilestoneRecord
    /\ r.request <= MaxRequest
    /\ r.status = "REVIEW_PENDING" => r.request # 0
    /\ r.status = "NONE" => r.request = 0
    /\ r.status = "REPAIR_REQUIRED" <=> r.repair # ""
    /\ r.review \in ReviewId \cup {0}
    /\ r.status = "REVIEWED" => Current(m, r) /\ ~r.reviewQueued
    /\ r.status # "NONE" => /\ accepted[Agreed[m].project] # <<>>
                            /\ r.baseline = accepted[Agreed[m].project].baseline

\* A request names a review of its milestone against the agreed baseline; an answer
\* carries the one result of its request.
Genuine(msg) ==
    /\ msg.type \in {"register", "outcome", "recover", "review", "answer"}
    /\ msg.milestone \in Milestone
    /\ msg.type = "register" => msg.terms \in V!E!Terms
    /\ msg.type = "review" =>
        /\ msg.request \in 1..MaxRequest
        /\ msg.context.version \in Nat
        /\ msg.context.challenges \in Nat
        /\ msg.context.mirror = msg.context.baseline
    /\ msg.type = "answer" =>
        /\ msg.request \in 1..MaxRequest
        /\ msg.result = results[msg.milestone][msg.request]
        /\ msg.result # <<>>

Receipt(m, request, result) ==
    [milestone |-> m, request |-> request, version |-> result.version,
     challenges |-> result.challenges, rule |-> result.rule]

\* A result without a code has its receipt, and a receipt its cached result.
ResultsBacked ==
    \A m \in Milestone, request \in 1..MaxRequest :
        LET result == results[m][request]
        IN  result # <<>> /\ result.code = "" =>
                /\ result.review \in DOMAIN receipts
                /\ receipts[result.review] = Receipt(m, request, result)
ReceiptsCached ==
    \A i \in DOMAIN receipts :
        /\ receipts[i].request \in 1..MaxRequest
        /\ results[receipts[i].milestone][receipts[i].request] # <<>>

Typed ==
    /\ now \in Nat
    /\ milestones \in [Milestone -> R!MilestoneRecord]
    /\ reviews \in [ReviewId -> R!Review \cup {<<>>}]
    /\ attempts \in [Milestone -> Nat]
    /\ results \in [Milestone -> [1..MaxRequest -> Answers \cup {<<>>}]]
    /\ receipts \in Seq(R!Review)
    /\ accepted \in [Project -> [sponsor : Sponsor, baseline : Baseline] \cup {<<>>}]

\* The inductive invariant.
IInv ==
    /\ Typed
    /\ \A m \in Milestone : Sound(m, milestones[m])
    /\ \A msg \in net : Genuine(msg)
    /\ ResultsBacked
    /\ ReceiptsCached
    /\ OneReviewPerRequest

-----------------------------------------------------------------------------
LEMMA MaxRequestType == MaxRequest \in Nat
BY SystemFacts

\* Appending to a sequence adds one element and keeps the others.
LEMMA AppendFacts ==
    ASSUME NEW S, NEW q \in Seq(S), NEW e \in S
    PROVE  /\ Len(q) \in Nat /\ DOMAIN q = 1..Len(q)
           /\ Append(q, e) \in Seq(S) /\ DOMAIN Append(q, e) = 1..(Len(q) + 1)
           /\ Append(q, e)[Len(q) + 1] = e
           /\ \A i \in DOMAIN q : i \in DOMAIN Append(q, e) /\ Append(q, e)[i] = q[i]
           /\ \A i \in DOMAIN Append(q, e) : i \in DOMAIN q \/ i = Len(q) + 1
<1>1. Len(q) \in Nat /\ DOMAIN q = 1..Len(q)
  OBVIOUS
<1>2. /\ Append(q, e) \in Seq(S) /\ Len(Append(q, e)) = Len(q) + 1
      /\ Append(q, e)[Len(q) + 1] = e
      /\ \A i \in 1..Len(q) : Append(q, e)[i] = q[i]
  OBVIOUS
<1>3. DOMAIN Append(q, e) = 1..(Len(q) + 1)
  BY <1>2
<1> QED BY <1>1, <1>2, <1>3

\* There are no more receipts than pairs of a milestone and a request.
LEMMA ReceiptsFit ==
    ASSUME receipts \in Seq(R!Review), OneReviewPerRequest,
           \A i \in DOMAIN receipts : receipts[i].request \in 1..MaxRequest
    PROVE  DOMAIN receipts \subseteq ReviewId
<1> DEFINE Pairs == Milestone \X (1..MaxRequest)
           Pair == [i \in 1..Len(receipts) |-> <<receipts[i].milestone, receipts[i].request>>]
<1>1. Pair \in Injection(1..Len(receipts), Pairs)
  <2>1. \A i \in 1..Len(receipts) : receipts[i] \in R!Review
    OBVIOUS
  <2>2. Pair \in [1..Len(receipts) -> Pairs]
    BY <2>1 DEF R!Review
  <2>3. ASSUME NEW i \in 1..Len(receipts), NEW j \in 1..Len(receipts), Pair[i] = Pair[j]
        PROVE  i = j
    BY <2>3 DEF OneReviewPerRequest
  <2> QED BY <2>2, <2>3 DEF Injection, IsInjective
<1>2. IsFiniteSet(1..MaxRequest) /\ Cardinality(1..MaxRequest) = MaxRequest
  <2>1. MaxRequest \in Nat
    BY SystemFacts
  <2> QED BY <2>1, FS_Interval
<1>3. /\ IsFiniteSet(Pairs)
      /\ Cardinality(Pairs) = Cardinality(Milestone) * MaxRequest
  BY <1>2, SystemFacts, FS_Product
<1>4. Cardinality(1..Len(receipts)) <= Cardinality(Pairs)
  BY <1>1, <1>3, FS_Injection
<1>5. Len(receipts) \in Nat /\ Cardinality(1..Len(receipts)) = Len(receipts)
  <2> DEFINE n == Len(receipts)
  <2>1. n \in Nat
    OBVIOUS
  <2> HIDE DEF n
  <2>2. Cardinality(1..n) = n
    BY <2>1, FS_Interval
  <2> QED BY <2>1, <2>2 DEF n
<1>6. Cardinality(Milestone) \in Nat /\ MaxRequest \in Nat
  BY SystemFacts, FS_CardinalityType
<1>7. Len(receipts) <= MaxRequest * Cardinality(Milestone)
  BY <1>3, <1>4, <1>5, <1>6
<1> QED BY <1>5, <1>6, <1>7 DEF ReviewId

\* A record is not the empty sequence that stands for its absence.
LEMMA PresentRecords ==
    /\ <<>> \notin Answers
    /\ <<>> \notin R!Review
<1>1. \A a \in Answers : "code" \in DOMAIN a
  BY DEF Answers
<1>2. \A a \in R!Review : "rule" \in DOMAIN a
  BY DEF R!Review
<1>3. DOMAIN <<>> = {}
  OBVIOUS
<1> QED BY <1>1, <1>2, <1>3

-----------------------------------------------------------------------------
\* A milestone that was not created is well typed and sound.
LEMMA NoMilestoneType == R!NoMilestone \in R!MilestoneRecord
<1>1. <<>> \in Seq(Nat) /\ {} \in SUBSET Account
  OBVIOUS
<1> QED BY <1>1 DEF R!NoMilestone, R!MilestoneRecord

LEMMA InitIInv == Init => IInv
<1> SUFFICES ASSUME Init PROVE IInv
  OBVIOUS
<1> USE DEF Init, R!Init, A!Init
<1>2. Typed
  BY NoMilestoneType DEF Typed
<1>3. \A m \in Milestone : Sound(m, milestones[m])
  <2>1. \A m \in Milestone : milestones[m] = R!NoMilestone
    OBVIOUS
  <2>2. /\ R!NoMilestone.request = 0 /\ R!NoMilestone.status = "NONE"
        /\ R!NoMilestone.repair = "" /\ R!NoMilestone.review = 0
    BY DEF R!NoMilestone
  <2>3. 0 <= MaxRequest
    BY SystemFacts
  <2> QED BY <2>1, <2>2, <2>3, NoMilestoneType DEF Sound
<1>4. ResultsBacked
  BY DEF ResultsBacked
<1>5. ReceiptsCached /\ OneReviewPerRequest
  BY DEF ReceiptsCached, OneReviewPerRequest
<1> QED BY <1>2, <1>3, <1>4, <1>5 DEF IInv

\* A step of the Registry that takes milestone m to state r and records nothing.
LEMMA MilestoneMoves ==
    ASSUME IInv, NEW m \in Milestone, NEW r, Sound(m, r),
           milestones' = [milestones EXCEPT ![m] = r],
           \A msg \in net' : msg \in net \/ Genuine(msg),
           now' \in Nat, attempts' \in [Milestone -> Nat],
           UNCHANGED <<accepted, reviews, results, receipts>>
    PROVE  IInv'
<1>1. \A msg \in net' : Genuine(msg)'
  BY DEF IInv, Genuine
<1>2. Typed'
  BY DEF IInv, Typed, Sound
<1>3. ASSUME NEW k \in Milestone PROVE Sound(k, milestones[k])'
  <2>1. Sound(k, milestones'[k])
    BY DEF IInv, Typed
  <2> QED BY <2>1 DEF Sound, Current
<1> QED BY <1>1, <1>2, <1>3 DEF IInv, ResultsBacked, ReceiptsCached, OneReviewPerRequest

LEMMA InvariantStutters ==
    ASSUME IInv, now' \in Nat, net' \subseteq net, UNCHANGED <<accepted, milestones, reviews, attempts, results, receipts>>
    PROVE  IInv'
<1>1. Typed'
  BY DEF IInv, Typed
<1>2. \A m \in Milestone : Sound(m, milestones[m])'
  BY DEF IInv, Sound, Current
<1>3. \A msg \in net' : Genuine(msg)'
  BY DEF IInv, Genuine
<1> QED BY <1>1, <1>2, <1>3 DEF IInv, ResultsBacked, ReceiptsCached, OneReviewPerRequest

-----------------------------------------------------------------------------
\* The state of a milestone, for the actions that change it.
LEMMA MilestoneState ==
    ASSUME IInv, NEW m \in Milestone
    PROVE  /\ milestones[m] \in R!MilestoneRecord
           /\ Sound(m, milestones[m])
           /\ milestones[m].challenges \in Seq(Nat)
           /\ milestones[m].request \in Nat /\ milestones[m].request <= MaxRequest
           /\ milestones[m].version \in Nat
           /\ MaxRequest \in Nat
           /\ now \in Nat /\ attempts \in [Milestone -> Nat]
BY SystemFacts DEF IInv, Typed, Sound, R!MilestoneRecord

LEMMA RegisterAcceptedProjectIInv ==
    ASSUME IInv, NEW p \in Project, NEW sponsor \in Sponsor, NEW baseline \in Baseline,
           R!RegisterAcceptedProject(p, sponsor, baseline), UNCHANGED <<results, receipts>>
    PROVE  IInv'
<1> USE DEF R!RegisterAcceptedProject
<1>1. Typed'
  BY DEF IInv, Typed
<1>2. ASSUME NEW m \in Milestone PROVE Sound(m, milestones[m])'
  <2>1. accepted[Agreed[m].project] # <<>> =>
            accepted'[Agreed[m].project] = accepted[Agreed[m].project]
    BY SystemFacts DEF IInv, Typed
  <2> QED BY <2>1 DEF IInv, Sound, Current
<1> QED BY <1>1, <1>2 DEF IInv, Genuine, ResultsBacked, ReceiptsCached, OneReviewPerRequest

LEMMA CreateMilestoneIInv ==
    ASSUME IInv, NEW m \in Milestone, NEW who \in Account,
           R!CreateMilestone(m, who), UNCHANGED <<results, receipts>>
    PROVE  IInv'
<1> DEFINE snapshot == accepted[Agreed[m].project]
           r == [R!NoMilestone EXCEPT !.status = "DRAFT", !.owner = who,
                                      !.baseline = snapshot.baseline]
<1>1. /\ snapshot # <<>> /\ milestones' = [milestones EXCEPT ![m] = r]
      /\ UNCHANGED <<now, net, accepted, reviews, attempts>>
  BY DEF R!CreateMilestone
<1>2. snapshot.baseline \in Baseline
  BY <1>1, SystemFacts DEF IInv, Typed
<1>3. r \in R!MilestoneRecord
  BY <1>2, NoMilestoneType DEF R!MilestoneRecord
<1>4. /\ r.status = "DRAFT" /\ r.request = 0 /\ r.repair = "" /\ r.review = 0
      /\ r.baseline = snapshot.baseline
  BY DEF R!NoMilestone
<1>5. Sound(m, r)
  <2> HIDE DEF r
  <2>1. 0 <= MaxRequest
    BY SystemFacts
  <2> QED BY <1>1, <1>3, <1>4, <2>1 DEF Sound
<1> QED BY <1>1, <1>5, MilestoneMoves DEF IInv, Typed

LEMMA ActivateMilestoneIInv ==
    ASSUME IInv, NEW m \in Milestone, NEW who \in Account,
           R!ActivateMilestone(m, who), UNCHANGED <<results, receipts>>
    PROVE  IInv'
<1>0. /\ milestones[m] \in R!MilestoneRecord /\ Sound(m, milestones[m])
      /\ MaxRequest \in Nat /\ milestones[m].request \in Nat /\ milestones[m].version \in Nat
      /\ now \in Nat /\ attempts \in [Milestone -> Nat]
  BY MilestoneState
<1> DEFINE r == [milestones[m] EXCEPT !.status = "ACTIVE"]
<1>1. /\ milestones[m].status = "DRAFT" /\ milestones' = [milestones EXCEPT ![m] = r]
      /\ UNCHANGED <<now, net, accepted, reviews, attempts>>
  BY DEF R!ActivateMilestone, R!Unaffected
<1>2. Sound(m, r)
  BY <1>1, <1>0 DEF Sound, R!MilestoneRecord
<1> QED BY <1>1, <1>2, MilestoneMoves, MilestoneState

LEMMA RegisterMilestoneInVaultIInv ==
    ASSUME IInv, NEW m \in Milestone, NEW who \in Account,
           R!RegisterMilestoneInVault(m, who), UNCHANGED <<results, receipts>>
    PROVE  IInv'
<1>1. Genuine(R!Register(m))
  <2>1. /\ milestones[m].owner \in Account
        /\ milestones[m].baseline = accepted[Agreed[m].project].baseline
        /\ accepted[Agreed[m].project] # <<>>
    BY DEF R!RegisterMilestoneInVault, IInv, Sound
  <2>2. milestones[m].baseline \in Baseline
    BY <2>1, SystemFacts DEF IInv, Typed
  <2>3. R!Terms(m) \in V!E!Terms
    BY <2>1, <2>2, SystemFacts DEF R!Terms, V!E!Terms
  <2> QED BY <2>3 DEF Genuine, R!Register
<1>2. \A msg \in net' : msg \in net \/ Genuine(msg)
  BY <1>1 DEF R!RegisterMilestoneInVault, R!Emit
<1>3. milestones' = [milestones EXCEPT ![m] = milestones[m]]
  BY DEF R!RegisterMilestoneInVault, IInv, Typed
<1> QED
  BY <1>2, <1>3, MilestoneMoves, MilestoneState DEF R!RegisterMilestoneInVault, R!Unaffected

LEMMA SubmitMilestoneIInv ==
    ASSUME IInv, NEW m \in Milestone, NEW who \in Account,
           R!SubmitMilestone(m, who), UNCHANGED <<results, receipts>>
    PROVE  IInv'
<1>0. /\ milestones[m] \in R!MilestoneRecord /\ Sound(m, milestones[m])
      /\ MaxRequest \in Nat /\ milestones[m].request \in Nat /\ milestones[m].version \in Nat
      /\ now \in Nat /\ attempts \in [Milestone -> Nat]
  BY MilestoneState
<1> DEFINE r == [milestones[m] EXCEPT !.version = @ + 1, !.ready = {}, !.text = FALSE,
                      !.reviewQueued = FALSE, !.repair = "", !.status = "SUBMITTED"]
<1>1. /\ milestones[m].status \in {"ACTIVE", "REPAIR_REQUIRED"}
      /\ milestones' = [milestones EXCEPT ![m] = r]
      /\ UNCHANGED <<now, net, accepted, reviews, attempts>>
  BY DEF R!SubmitMilestone, R!Unaffected
<1>2. Sound(m, r)
  <2>1. milestones[m].version + 1 \in Nat
    BY <1>0
  <2>2. r \in R!MilestoneRecord
    BY <1>0, <2>1 DEF R!MilestoneRecord
  <2>3. /\ r.status = "SUBMITTED" /\ r.repair = ""
        /\ r.request = milestones[m].request
        /\ r.review = milestones[m].review /\ r.baseline = milestones[m].baseline
    BY <1>0 DEF R!MilestoneRecord
  <2> HIDE DEF r
  <2> QED BY <1>0, <1>1, <2>2, <2>3 DEF Sound
<1> QED BY <1>1, <1>2, MilestoneMoves, MilestoneState

LEMMA MarkMilestoneReadyIInv ==
    ASSUME IInv, NEW m \in Milestone, NEW who \in Account,
           R!MarkMilestoneReady(m, who), UNCHANGED <<results, receipts>>
    PROVE  IInv'
<1>0. /\ milestones[m] \in R!MilestoneRecord /\ Sound(m, milestones[m])
      /\ MaxRequest \in Nat /\ milestones[m].request \in Nat /\ milestones[m].version \in Nat
      /\ now \in Nat /\ attempts \in [Milestone -> Nat]
  BY MilestoneState
<1> DEFINE r == [milestones[m] EXCEPT !.ready = @ \cup {who}]
<1>1. /\ milestones[m].status = "SUBMITTED" /\ milestones' = [milestones EXCEPT ![m] = r]
      /\ UNCHANGED <<now, net, accepted, reviews, attempts>>
  BY DEF R!MarkMilestoneReady, R!Unaffected
<1>2. Sound(m, r)
  BY <1>1, <1>0 DEF Sound, R!MilestoneRecord
<1> QED BY <1>1, <1>2, MilestoneMoves, MilestoneState

\* What a request shows of a created milestone.
Shown(m, context) ==
    /\ context.version \in Nat
    /\ context.challenges \in Nat
    /\ context.mirror = context.baseline

LEMMA ContextShown ==
    ASSUME IInv, NEW m \in Milestone, milestones[m].status # "NONE"
    PROVE  /\ Shown(m, R!ReviewContext(m, FALSE))
           /\ Shown(m, R!ReviewContext(m, milestones[m].text))
<1>1. /\ milestones[m].version \in Nat /\ milestones[m].challenges \in Seq(Nat)
      /\ Sound(m, milestones[m])
  BY MilestoneState
<1>2. Len(milestones[m].challenges) \in Nat
  BY <1>1
<1>3. milestones[m].baseline = accepted[Agreed[m].project].baseline
  BY <1>1 DEF Sound
<1> QED BY <1>1, <1>2, <1>3 DEF Shown, R!ReviewContext

LEMMA RequestIsGenuine ==
    ASSUME NEW m \in Milestone, NEW request \in 1..MaxRequest, NEW attempt,
           NEW context, Shown(m, context)
    PROVE  Genuine(R!ReviewRequest(m, request, attempt, context))
BY DEF Shown, Genuine, R!ReviewRequest

\* resolve_milestone and resolve_challenge, which request the next review.
LEMMA QueueReviewIInv ==
    ASSUME IInv, NEW m \in Milestone, UNCHANGED <<results, receipts>>,
           R!ResolveMilestone(m) \/ \E who \in Account : R!ResolveChallenge(m, who)
    PROVE  IInv'
<1>0. /\ milestones[m] \in R!MilestoneRecord /\ Sound(m, milestones[m])
      /\ MaxRequest \in Nat /\ milestones[m].request \in Nat
      /\ now \in Nat /\ attempts \in [Milestone -> Nat]
  BY MilestoneState
<1> DEFINE request == milestones[m].request + 1
           r == [milestones[m] EXCEPT !.request = request, !.reviewQueued = TRUE,
                                      !.status = "REVIEW_PENDING"]
<1>1. /\ milestones[m].status \in {"SUBMITTED", "CHALLENGED"}
      /\ request <= MaxRequest /\ milestones' = [milestones EXCEPT ![m] = r]
      /\ attempts' = [attempts EXCEPT ![m] = 1]
      /\ UNCHANGED <<now, accepted, reviews>>
  BY DEF R!ResolveMilestone, R!ResolveChallenge, R!QueueReview, R!Unaffected
<1>2. PICK context : /\ net' = net \cup {R!ReviewRequest(m, request, 1, context)}
                     /\ Shown(m, context)
  <2>1. CASE R!ResolveMilestone(m)
    BY <1>1, <2>1, ContextShown DEF R!ResolveMilestone, R!QueueReview, R!Emit
  <2>2. CASE \E who \in Account : R!ResolveChallenge(m, who)
    BY <1>1, <2>2, ContextShown DEF R!ResolveChallenge, R!QueueReview, R!Emit
  <2> QED BY <2>1, <2>2
<1>3. request \in Nat /\ request # 0
  BY <1>0
<1>4. Genuine(R!ReviewRequest(m, request, 1, context))
  <2>1. request \in 1..MaxRequest
    BY <1>0, <1>1, <1>3
  <2> HIDE DEF request
  <2> QED BY <1>2, <2>1, RequestIsGenuine
<1>5. Sound(m, r)
  <2>2. r \in R!MilestoneRecord
    BY <1>0, <1>3 DEF R!MilestoneRecord
  <2>3. /\ r.status = "REVIEW_PENDING" /\ r.repair = milestones[m].repair
        /\ r.request = request
        /\ r.review = milestones[m].review /\ r.baseline = milestones[m].baseline
    BY <1>0 DEF R!MilestoneRecord
  <2> HIDE DEF r, request
  <2> QED BY <1>0, <1>1, <1>3, <2>2, <2>3 DEF Sound
<1>6. attempts' \in [Milestone -> Nat]
  BY <1>0, <1>1
<1> HIDE DEF r
<1> QED BY <1>0, <1>1, <1>2, <1>4, <1>5, <1>6, MilestoneMoves

LEMMA RetryMilestoneReviewIInv ==
    ASSUME IInv, NEW m \in Milestone, NEW who \in Account,
           R!RetryMilestoneReview(m, who), UNCHANGED <<results, receipts>>
    PROVE  IInv'
<1>0. /\ milestones[m] \in R!MilestoneRecord /\ Sound(m, milestones[m])
      /\ MaxRequest \in Nat /\ milestones[m].request \in Nat /\ milestones[m].version \in Nat
      /\ now \in Nat /\ attempts \in [Milestone -> Nat]
  BY MilestoneState
<1> DEFINE msg == R!ReviewRequest(m, milestones[m].request, attempts[m] + 1,
                                  R!ReviewContext(m, milestones[m].text))
<1>1. /\ milestones[m].status = "REVIEW_PENDING" /\ net' = net \cup {msg}
      /\ attempts' = [attempts EXCEPT ![m] = @ + 1]
      /\ UNCHANGED <<now, accepted, milestones, reviews>>
  BY DEF R!RetryMilestoneReview, R!Unaffected, R!Emit
<1>2. milestones[m].request \in 1..MaxRequest
  <2>1. milestones[m].request # 0 /\ milestones[m].request <= MaxRequest
    BY <1>0, <1>1 DEF Sound
  <2> QED BY <1>0, <2>1
<1>3. Genuine(msg)
  BY <1>1, <1>2, ContextShown, RequestIsGenuine
<1>4. milestones' = [milestones EXCEPT ![m] = milestones[m]]
  BY <1>1 DEF IInv, Typed
<1>5. attempts' \in [Milestone -> Nat]
  BY <1>1, MilestoneState
<1> HIDE DEF msg
<1> QED BY <1>1, <1>3, <1>4, <1>5, MilestoneMoves, MilestoneState

LEMMA ChallengeMilestoneIInv ==
    ASSUME IInv, NEW m \in Milestone, NEW who \in Account,
           R!ChallengeMilestone(m, who), UNCHANGED <<results, receipts>>
    PROVE  IInv'
<1>0. /\ milestones[m] \in R!MilestoneRecord /\ Sound(m, milestones[m])
      /\ MaxRequest \in Nat /\ milestones[m].request \in Nat /\ milestones[m].version \in Nat
      /\ now \in Nat /\ attempts \in [Milestone -> Nat]
  BY MilestoneState
<1> DEFINE r == [milestones[m] EXCEPT !.status = "CHALLENGED", !.text = TRUE,
                                      !.challenges = Append(@, 0)]
<1>1. /\ milestones[m].status = "REVIEWED" /\ milestones' = [milestones EXCEPT ![m] = r]
      /\ UNCHANGED <<now, net, accepted, reviews, attempts>>
  BY DEF R!ChallengeMilestone, R!Challengeable, R!Unaffected
<1>2. Append(milestones[m].challenges, 0) \in Seq(Nat)
  BY MilestoneState
<1>3. Sound(m, r)
  BY <1>1, <1>2, <1>0 DEF Sound, R!MilestoneRecord
<1> QED BY <1>1, <1>3, MilestoneMoves, MilestoneState

LEMMA SettlementIInv ==
    ASSUME IInv, NEW m \in Milestone, UNCHANGED <<results, receipts>>,
           \/ \E id \in ReviewId : R!QueueSettlement(m, id)
           \/ R!RecoverMilestone(m)
    PROVE  IInv'
<1>0. /\ milestones[m] \in R!MilestoneRecord /\ Sound(m, milestones[m])
      /\ MaxRequest \in Nat /\ milestones[m].request \in Nat /\ milestones[m].version \in Nat
      /\ now \in Nat /\ attempts \in [Milestone -> Nat]
  BY MilestoneState
<1> DEFINE r == [milestones[m] EXCEPT !.queued = TRUE]
<1>1. /\ milestones[m].status # "NONE" /\ milestones' = [milestones EXCEPT ![m] = r]
      /\ UNCHANGED <<now, accepted, reviews, attempts>>
  BY DEF R!QueueSettlement, R!RecoverMilestone, R!Settleable, R!Unaffected
<1>2. \A msg \in net' : msg \in net \/ Genuine(msg)
  BY DEF R!QueueSettlement, R!RecoverMilestone, R!Emit, R!Outcome, R!Recover, Genuine
<1>3. Sound(m, r)
  BY <1>1, <1>0 DEF Sound, R!MilestoneRecord, Current
<1> QED BY <1>1, <1>2, <1>3, MilestoneMoves, MilestoneState

LEMMA RegistryStepIInv ==
    ASSUME IInv, R!RegistryStep, UNCHANGED <<results, receipts>>
    PROVE  IInv'
<1>1. CASE \E p \in Project, sponsor \in Sponsor, baseline \in Baseline :
                R!RegisterAcceptedProject(p, sponsor, baseline)
  BY <1>1, RegisterAcceptedProjectIInv
<1>2. CASE \E who \in Account : R!BindAdjudicator(who) \/ R!BindVault(who)
  BY <1>2, InvariantStutters DEF R!BindAdjudicator, R!BindVault, IInv, Typed
<1>3. CASE \E m \in Milestone : \E who \in Account :
               \/ R!CreateMilestone(m, who) \/ R!ActivateMilestone(m, who)
               \/ R!RegisterMilestoneInVault(m, who)
               \/ R!SubmitMilestone(m, who) \/ R!MarkMilestoneReady(m, who)
               \/ R!RetryMilestoneReview(m, who) \/ R!ChallengeMilestone(m, who)
  BY <1>3, CreateMilestoneIInv, ActivateMilestoneIInv, RegisterMilestoneInVaultIInv,
     SubmitMilestoneIInv, MarkMilestoneReadyIInv, RetryMilestoneReviewIInv,
     ChallengeMilestoneIInv
<1>4. CASE \E m \in Milestone : \/ R!ResolveMilestone(m)
                                \/ \E who \in Account : R!ResolveChallenge(m, who)
  BY <1>4, QueueReviewIInv
<1>5. CASE \E m \in Milestone : \/ \E id \in ReviewId : R!QueueSettlement(m, id)
                                \/ R!RecoverMilestone(m)
  BY <1>5, SettlementIInv
<1> QED BY <1>1, <1>2, <1>3, <1>4, <1>5 DEF R!RegistryStep
-----------------------------------------------------------------------------
\* The result an answer carries, and the review it stands for if it has no code.
LEMMA AnswerState ==
    ASSUME IInv, NEW msg \in net, msg.type = "answer"
    PROVE  /\ msg.milestone \in Milestone /\ msg.request \in 1..MaxRequest /\ msg.request # 0
           /\ msg.result \in Answers
           /\ msg.result.code = "" =>
                /\ msg.result.review \in DOMAIN receipts
                /\ msg.result.review \in ReviewId
                /\ receipts[msg.result.review] = Receipt(msg.milestone, msg.request, msg.result)
<1>1. /\ msg.milestone \in Milestone /\ msg.request \in 1..MaxRequest
      /\ msg.result = results[msg.milestone][msg.request] /\ msg.result # <<>>
  BY DEF IInv, Genuine
<1>2. msg.result \in Answers
  <2>1. results[msg.milestone] \in [1..MaxRequest -> Answers \cup {<<>>}]
    BY <1>1 DEF IInv, Typed
  <2> QED BY <1>1, <2>1
<1>3. DOMAIN receipts \subseteq ReviewId
  BY ReceiptsFit DEF IInv, Typed, ReceiptsCached
<1>4. msg.request # 0
  BY <1>1, SystemFacts
<1> QED BY <1>1, <1>2, <1>3, <1>4 DEF IInv, ResultsBacked

LEMMA RecordRepairIInv ==
    ASSUME IInv, NEW msg \in net, msg.type = "answer",
           R!RecordRepair(msg.milestone, msg.request, msg.result.code),
           net' = net \ {msg}, UNCHANGED <<results, receipts>>
    PROVE  IInv'
<1> DEFINE m == msg.milestone
           r == [milestones[m] EXCEPT !.status = "REPAIR_REQUIRED", !.reviewQueued = FALSE,
                                      !.repair = msg.result.code]
<1>1. m \in Milestone /\ msg.result.code \in R!RepairCode
  <2>1. m \in Milestone /\ msg.result \in Answers
    BY AnswerState
  <2>2. msg.result.code # ""
    BY DEF R!RecordRepair, R!RepairAccepted
  <2> QED BY <2>1, <2>2 DEF Answers
<1>2. /\ milestones' = [milestones EXCEPT ![m] = r]
      /\ UNCHANGED <<now, accepted, reviews, attempts>>
  BY DEF R!RecordRepair, R!Unaffected
<1>3. /\ milestones[m] \in R!MilestoneRecord /\ Sound(m, milestones[m])
      /\ now \in Nat /\ attempts \in [Milestone -> Nat]
  BY <1>1, MilestoneState
<1>4. Sound(m, r)
  <2>1. msg.result.code # "" /\ r \in R!MilestoneRecord
    BY <1>1, <1>3 DEF R!MilestoneRecord, R!RepairCode
  <2>2. /\ r.status = "REPAIR_REQUIRED" /\ r.repair = msg.result.code
        /\ r.request = milestones[m].request
        /\ r.review = milestones[m].review /\ r.baseline = milestones[m].baseline
    BY <1>3 DEF R!MilestoneRecord
  <2>3. milestones[m].status # "NONE"
    <3>1. milestones[m].request # 0
      <4>1. msg.request \in 1..MaxRequest
        BY AnswerState
      <4>2. milestones[m].request = msg.request
        BY DEF R!RecordRepair, R!RepairAccepted, R!Awaited
      <4> QED BY <4>1, <4>2
    <3> QED BY <1>3, <3>1 DEF Sound
  <2> QED BY <1>3, <2>1, <2>2, <2>3 DEF Sound
<1> QED BY <1>1, <1>2, <1>3, <1>4, MilestoneMoves

\* record_review takes a result: what it writes is the receipt of that result, so the
\* review the milestone shows is the Adjudicator's, and no other milestone's changes.
LEMMA RecordReviewIInv ==
    ASSUME IInv, NEW msg \in net, msg.type = "answer",
           R!RecordReview(msg.milestone, msg.request, msg.result),
           net' = net \ {msg}, UNCHANGED <<results, receipts>>
    PROVE  IInv'
<1> DEFINE m == msg.milestone
           id == msg.result.review
           o == milestones[m]
           r == [o EXCEPT !.status = "REVIEWED", !.reviewQueued = FALSE,
                          !.review = id, !.queued = FALSE, !.repair = "",
                          !.challengeDeadline = now + Agreed[m].challengeWindow,
                          !.challenges = R!Resolved(@, id)]
<1>1. /\ m \in Milestone /\ msg.request # 0 /\ msg.result \in Answers
  BY AnswerState
<1>2. /\ msg.request = o.request /\ msg.result.code = ""
      /\ msg.result.version = o.version /\ msg.result.challenges = Len(o.challenges)
      /\ reviews' = [reviews EXCEPT ![id] = Receipt(m, msg.request, msg.result)]
      /\ milestones' = [milestones EXCEPT ![m] = r]
      /\ UNCHANGED <<now, accepted, attempts>>
  BY DEF R!RecordReview, R!ResultAccepted, R!Awaited, R!Unaffected, Receipt
<1>3. /\ id \in DOMAIN receipts /\ id \in ReviewId /\ id \in Nat
      /\ receipts[id] = Receipt(m, msg.request, msg.result)
  BY <1>1, <1>2, AnswerState DEF Answers
<1>4. /\ o \in R!MilestoneRecord /\ Sound(m, o) /\ o.challenges \in Seq(Nat) /\ now \in Nat
      /\ attempts \in [Milestone -> Nat]
  BY <1>1, MilestoneState
<1>5. /\ R!Resolved(o.challenges, id) \in Seq(Nat)
      /\ Len(R!Resolved(o.challenges, id)) = Len(o.challenges)
  BY <1>3, <1>4 DEF R!Resolved
<1>6. now + Agreed[m].challengeWindow \in Nat
  BY <1>1, <1>4, SystemFacts
<1>7. r \in R!MilestoneRecord
  BY <1>3, <1>4, <1>5, <1>6 DEF R!MilestoneRecord
<1>8. /\ r.status = "REVIEWED" /\ ~r.reviewQueued /\ r.review = id /\ r.repair = ""
      /\ r.challenges = R!Resolved(o.challenges, id) /\ r.version = o.version
      /\ r.request = o.request /\ r.baseline = o.baseline
  BY <1>4 DEF R!MilestoneRecord
<1> HIDE DEF r
<1>9. /\ reviews' \in [ReviewId -> R!Review \cup {<<>>}]
      /\ reviews'[id] = receipts[id]
      /\ \A k \in ReviewId : k # id => reviews'[k] = reviews[k]
  <2>1. reviews \in [ReviewId -> R!Review \cup {<<>>}] /\ receipts[id] \in R!Review
    BY <1>3 DEF IInv, Typed
  <2> QED BY <1>2, <1>3, <2>1
<1>10. Typed'
  BY <1>2, <1>4, <1>7, <1>9 DEF IInv, Typed
<1>11. ASSUME NEW k \in Milestone PROVE Sound(k, milestones[k])'
  <2>1. CASE k = m
    <3>1. milestones'[k] = r
      BY <1>2, <2>1 DEF IInv, Typed
    <3>2. o.status # "NONE"
      <4>1. o.request # 0
        BY <1>1, <1>2
      <4> QED BY <1>4, <4>1 DEF Sound
    <3>3. Current(k, milestones[k])'
      <4>1. /\ reviews'[id].milestone = m /\ reviews'[id].request = msg.request
            /\ reviews'[id].version = msg.result.version
            /\ reviews'[id].challenges = msg.result.challenges
        BY <1>3, <1>9 DEF Receipt
      <4>2. /\ msg.request = r.request /\ msg.result.version = r.version
            /\ msg.result.challenges = Len(r.challenges) /\ r.review = id
        BY <1>2, <1>5, <1>8
      <4>3. receipts' = receipts
        OBVIOUS
      <4> QED BY <1>3, <1>9, <2>1, <3>1, <4>1, <4>2, <4>3 DEF Current
    <3>4. /\ o.request <= MaxRequest /\ accepted[Agreed[m].project] # <<>>
          /\ o.baseline = accepted[Agreed[m].project].baseline
      BY <1>4, <3>2 DEF Sound
    <3> QED BY <1>2, <1>3, <1>7, <1>8, <2>1, <3>1, <3>3, <3>4 DEF Sound
  <2>2. CASE k # m
    <3>1. milestones'[k] = milestones[k] /\ Sound(k, milestones[k])
      BY <1>2, <2>2 DEF IInv, Typed
    <3>2. ASSUME milestones[k].status = "REVIEWED"
          PROVE  Current(k, milestones[k])'
      <4>1. Current(k, milestones[k])
        BY <3>1, <3>2 DEF Sound
      <4>2. milestones[k].review # id
        BY <1>3, <2>2, <4>1 DEF Current, Receipt
      <4>3. milestones[k].review \in ReviewId
        <5>1. DOMAIN receipts \subseteq ReviewId
          BY ReceiptsFit DEF IInv, Typed, ReceiptsCached
        <5> QED BY <4>1, <5>1 DEF Current
      <4> QED BY <1>9, <3>1, <4>1, <4>2, <4>3 DEF Current
    <3> QED BY <1>2, <3>1, <3>2 DEF Sound
  <2> QED BY <2>1, <2>2
<1>12. \A other \in net' : Genuine(other)'
  BY DEF IInv, Genuine
<1> QED
  BY <1>10, <1>11, <1>12 DEF IInv, ResultsBacked, ReceiptsCached, OneReviewPerRequest

LEMMA AnswerIgnoredIInv ==
    ASSUME IInv, NEW msg \in net, net' = net \ {msg},
           R!AnswerIgnored(msg.milestone, msg.request, msg.result),
           UNCHANGED <<results, receipts>>
    PROVE  IInv'
<1>1. now' \in Nat
  BY DEF IInv, Typed, R!AnswerIgnored, R!Unaffected
<1> QED BY <1>1, InvariantStutters DEF R!AnswerIgnored, R!Unaffected

-----------------------------------------------------------------------------
(* The Adjudicator.                                                        *)

\* A result comes with its receipt, or with a code and none.
ReceiptAdded(result, receipt) ==
    \/ result.code # "" /\ receipts' = receipts
    \/ /\ result.code = "" /\ result.review = Len(receipts) + 1
       /\ receipts' = Append(receipts, receipt)

LEMMA ReceiptsExtended ==
    ASSUME receipts \in Seq(R!Review), NEW receipt \in R!Review, NEW result,
           ReceiptAdded(result, receipt)
    PROVE  /\ receipts' \in Seq(R!Review) /\ DOMAIN receipts \subseteq DOMAIN receipts'
           /\ \A i \in DOMAIN receipts : receipts'[i] = receipts[i] /\ receipts[i] \in R!Review
           /\ \A i \in DOMAIN receipts' \ DOMAIN receipts :
                 i = result.review /\ receipts'[i] = receipt
           /\ result.code = "" => result.review \in DOMAIN receipts' /\ receipts'[result.review] = receipt
<1>0. \A i \in DOMAIN receipts : receipts[i] \in R!Review
  OBVIOUS
<1>1. CASE result.code # "" /\ receipts' = receipts
  BY <1>0, <1>1
<1>2. CASE /\ result.code = "" /\ result.review = Len(receipts) + 1
           /\ receipts' = Append(receipts, receipt)
  <2>0. receipts' = Append(receipts, receipt)
    BY <1>2
  <2>1. /\ receipts' \in Seq(R!Review) /\ DOMAIN receipts \subseteq DOMAIN receipts'
        /\ \A i \in DOMAIN receipts : receipts'[i] = receipts[i]
        /\ \A i \in DOMAIN receipts' \ DOMAIN receipts :
              i = Len(receipts) + 1 /\ receipts'[i] = receipt
        /\ Len(receipts) + 1 \in DOMAIN receipts'
        /\ receipts'[Len(receipts) + 1] = receipt
    BY <2>0, AppendFacts
  <2> QED BY <1>0, <1>2, <2>1
<1> QED BY <1>1, <1>2 DEF ReceiptAdded

\* Storing the first result of a request, with or without a receipt of its own.
LEMMA ResultStored ==
    ASSUME IInv, NEW msg \in net, msg.type = "review", NEW result \in Answers,
           results[msg.milestone][msg.request] = <<>>,
           A!Record(msg, result),
           ReceiptAdded(result, Receipt(msg.milestone, msg.request, result)),
           UNCHANGED <<now, accepted, milestones, reviews, attempts>>
    PROVE  IInv'
<1> DEFINE m == msg.milestone
           q == msg.request
           receipt == Receipt(m, q, result)
<1>1. m \in Milestone /\ q \in 1..MaxRequest /\ q \in Nat
  <2>1. m \in Milestone /\ q \in 1..MaxRequest
    BY DEF IInv, Genuine
  <2> QED BY <2>1, MaxRequestType
<1>2. results \in [Milestone -> [1..MaxRequest -> Answers \cup {<<>>}]] /\ receipts \in Seq(R!Review)
  BY DEF IInv, Typed
<1>3. /\ results' \in [Milestone -> [1..MaxRequest -> Answers \cup {<<>>}]]
      /\ results'[m][q] = result
      /\ \A k \in Milestone, p \in 1..MaxRequest :
            k # m \/ p # q => results'[k][p] = results[k][p]
  BY <1>1, <1>2 DEF A!Record
<1>4. result # <<>>
  BY PresentRecords
<1>5. receipt \in R!Review
  BY <1>1 DEF Receipt, Answers, R!Review, R!Rule
<1>6. /\ receipts' \in Seq(R!Review) /\ DOMAIN receipts \subseteq DOMAIN receipts'
      /\ \A i \in DOMAIN receipts : receipts'[i] = receipts[i] /\ receipts[i] \in R!Review
      /\ \A i \in DOMAIN receipts' \ DOMAIN receipts :
            i = result.review /\ receipts'[i] = receipt
      /\ result.code = "" => result.review \in DOMAIN receipts' /\ receipts'[result.review] = receipt
  <2>1. ReceiptAdded(result, receipt)
    OBVIOUS
  <2> HIDE DEF receipt
  <2> QED BY <1>2, <1>5, <2>1, ReceiptsExtended
<1>7. Typed'
  BY <1>3, <1>6 DEF IInv, Typed
<1>8. ASSUME NEW k \in Milestone PROVE Sound(k, milestones[k])'
  <2>1. Sound(k, milestones[k])
    BY DEF IInv
  <2>2. Current(k, milestones[k]) => Current(k, milestones[k])'
    BY <1>6 DEF Current
  <2> QED BY <2>1, <2>2 DEF Sound
<1>9. \A other \in net' : Genuine(other)'
  <2>1. Genuine(A!Answer(m, q, msg.attempt, result))'
    BY <1>1, <1>3, <1>4 DEF Genuine, A!Answer
  <2>2. ASSUME NEW other \in net PROVE Genuine(other)'
    BY <1>3 DEF IInv, Genuine
  <2> QED BY <2>1, <2>2 DEF A!Record, A!Reply
<1>10. ResultsBacked'
  <2> SUFFICES ASSUME NEW k \in Milestone, NEW p \in 1..MaxRequest,
                      results'[k][p] # <<>>, results'[k][p].code = ""
               PROVE  /\ results'[k][p].review \in DOMAIN receipts'
                      /\ receipts'[results'[k][p].review] = Receipt(k, p, results'[k][p])
    BY DEF ResultsBacked, Receipt
  <2>1. CASE k = m /\ p = q
    BY <1>3, <1>6, <2>1
  <2>2. CASE k # m \/ p # q
    <3>1. results'[k][p] = results[k][p]
      BY <1>3, <2>2
    <3>2. /\ results[k][p].review \in DOMAIN receipts
          /\ receipts[results[k][p].review] = Receipt(k, p, results[k][p])
      BY <3>1 DEF IInv, ResultsBacked
    <3> QED BY <1>6, <3>1, <3>2
  <2> QED BY <2>1, <2>2
<1>11. ASSUME NEW i \in DOMAIN receipts
       PROVE  /\ receipts[i].milestone \in Milestone /\ receipts[i].request \in 1..MaxRequest
              /\ results[receipts[i].milestone][receipts[i].request] # <<>>
              /\ receipts[i].milestone # m \/ receipts[i].request # q
  <2>1. receipts[i] \in R!Review
    BY <1>6
  <2>2. /\ receipts[i].request \in 1..MaxRequest
        /\ results[receipts[i].milestone][receipts[i].request] # <<>>
    BY DEF IInv, ReceiptsCached
  <2> QED BY <2>1, <2>2 DEF R!Review
<1>12. receipt.milestone = m /\ receipt.request = q
  BY DEF Receipt
<1> HIDE DEF receipt
<1>13. ReceiptsCached'
  <2> SUFFICES ASSUME NEW i \in DOMAIN receipts'
               PROVE  /\ receipts'[i].request \in 1..MaxRequest
                      /\ results'[receipts'[i].milestone][receipts'[i].request] # <<>>
    BY DEF ReceiptsCached
  <2>1. CASE i \in DOMAIN receipts
    <3>1. receipts'[i] = receipts[i]
      BY <1>6, <2>1
    <3>2. results'[receipts[i].milestone][receipts[i].request]
              = results[receipts[i].milestone][receipts[i].request]
      BY <1>3, <1>11, <2>1
    <3> QED BY <1>11, <2>1, <3>1, <3>2
  <2>2. CASE i \notin DOMAIN receipts
    BY <1>1, <1>3, <1>4, <1>6, <1>12, <2>2
  <2> QED BY <2>1, <2>2
<1>14. OneReviewPerRequest'
  <2> SUFFICES ASSUME NEW i \in DOMAIN receipts', NEW j \in DOMAIN receipts', i # j
               PROVE  \/ receipts'[i].milestone # receipts'[j].milestone
                      \/ receipts'[i].request # receipts'[j].request
    BY DEF OneReviewPerRequest
  <2>1. CASE i \in DOMAIN receipts /\ j \in DOMAIN receipts
    BY <1>6, <2>1 DEF IInv, OneReviewPerRequest
  <2>2. CASE i \in DOMAIN receipts /\ j \notin DOMAIN receipts
    BY <1>6, <1>11, <1>12, <2>2
  <2>3. CASE i \notin DOMAIN receipts /\ j \in DOMAIN receipts
    <3>1. receipts'[i] = receipt /\ receipts'[j] = receipts[j]
      BY <1>6, <2>3
    <3> QED BY <1>11, <1>12, <2>3, <3>1
  <2>4. CASE i \notin DOMAIN receipts /\ j \notin DOMAIN receipts
    <3>1. i = result.review /\ j = result.review
      BY <1>6, <2>4
    <3> QED BY <3>1
  <2> QED BY <2>1, <2>2, <2>3, <2>4
<1> QED BY <1>7, <1>8, <1>9, <1>10, <1>13, <1>14 DEF IInv

\* A result that asks for repair is well typed and has its code.
LEMMA RepairResultType ==
    ASSUME NEW code \in R!RepairCode, NEW context,
           context.version \in Nat, context.challenges \in Nat
    PROVE  A!RepairResult(context, code) \in Answers /\ A!RepairResult(context, code).code = code
<1> DEFINE result == A!RepairResult(context, code)
<1>1. /\ result.code = code /\ result.review = 0 /\ result.version = context.version
      /\ result.challenges = context.challenges /\ result.decision = "UNDETERMINED"
      /\ result.rule = 3
  BY DEF A!RepairResult
<1>2. result = [code |-> result.code, review |-> result.review, version |-> result.version,
                challenges |-> result.challenges, decision |-> result.decision,
                rule |-> result.rule]
  BY DEF A!RepairResult
<1> HIDE DEF result
<1>3. result.review \in Nat /\ result.rule \in 1..3
  BY <1>1
<1>4. result \in Answers
  BY <1>1, <1>2, <1>3 DEF Answers
<1> QED BY <1>1, <1>4 DEF result

LEMMA ReviewMilestoneIInv ==
    ASSUME IInv, NEW msg \in net, msg.type = "review", A!ReviewMilestone(msg),
           UNCHANGED <<now, registryVars>>
    PROVE  IInv'
<1> USE DEF registryVars
<1>1. /\ msg.milestone \in Milestone /\ msg.request \in 1..MaxRequest
      /\ msg.context.version \in Nat /\ msg.context.challenges \in Nat
  BY DEF IInv, Genuine
<1>2. CASE A!ReviewFails(msg)
  <2>1. PICK code \in Failures : A!Record(msg, A!RepairResult(msg.context, code))
    BY <1>2 DEF A!ReviewFails
  <2> DEFINE result == A!RepairResult(msg.context, code)
  <2>2. result \in Answers /\ result.code # ""
    <3>1. code \in R!RepairCode /\ code # ""
      BY SystemFacts DEF R!RepairCode
    <3> QED BY <1>1, <3>1, RepairResultType
  <2>3. /\ results[msg.milestone][msg.request] = <<>>
        /\ ReceiptAdded(result, Receipt(msg.milestone, msg.request, result))
    BY <1>2, <2>2 DEF A!ReviewFails, A!NotYetAnswered, ReceiptAdded
  <2> HIDE DEF result
  <2> QED BY <2>1, <2>2, <2>3, ResultStored DEF result
<1>3. CASE A!ReviewSucceeds(msg)
  <2>1. PICK decision \in Decisions :
            /\ A!Record(msg, A!ReviewResult(msg.context, Len(receipts) + 1, decision))
            /\ receipts' = Append(receipts,
                 [milestone |-> msg.milestone, request |-> msg.request,
                  version |-> msg.context.version, challenges |-> msg.context.challenges,
                  rule |-> A!Consequence(decision)])
    BY <1>3 DEF A!ReviewSucceeds
  <2> DEFINE result == A!ReviewResult(msg.context, Len(receipts) + 1, decision)
  <2>2. Len(receipts) \in Nat /\ decision \in {"PASS", "FAIL", "UNDETERMINED"}
        /\ A!Consequence(decision) \in 1..3
    BY SystemFacts DEF R!DecisionRule, IInv, Typed, A!Consequence
  <2>3. result \in Answers /\ result.code = "" /\ result.review = Len(receipts) + 1
    BY <1>1, <2>2 DEF A!ReviewResult, Answers
  <2>4. ReceiptAdded(result, Receipt(msg.milestone, msg.request, result))
    BY <2>1, <2>3 DEF Receipt, A!ReviewResult, ReceiptAdded
  <2>5. results[msg.milestone][msg.request] = <<>>
    BY <1>3 DEF A!ReviewSucceeds, A!NotYetAnswered
  <2>6. A!Record(msg, result)
    BY <2>1
  <2> HIDE DEF result
  <2> QED BY <2>3, <2>4, <2>5, <2>6, ResultStored
<1>4. CASE A!ReviewRepeated(msg)
  <2>1. Genuine(A!Answer(msg.milestone, msg.request, msg.attempt, results[msg.milestone][msg.request]))
    BY <1>1, <1>4 DEF Genuine, A!Answer, A!ReviewRepeated, A!NotYetAnswered
  <2>2. \A other \in net' : Genuine(other)
    BY <1>4, <2>1 DEF A!ReviewRepeated, A!Reply, IInv
  <2> QED
    BY ZenonT(30), <1>4, <2>2
    DEF A!ReviewRepeated, A!adjudicatorVars, IInv, Typed, Sound, Current, Genuine, ResultsBacked,
        ReceiptsCached, OneReviewPerRequest
<1>5. CASE A!ReviewAborted(msg)
  <2>1. net' \subseteq net /\ UNCHANGED <<results, receipts>>
    BY <1>5 DEF A!ReviewAborted, A!adjudicatorVars
  <2> QED BY <2>1, InvariantStutters DEF adjudicatorVars, IInv, Typed
<1> QED BY <1>2, <1>3, <1>4, <1>5 DEF A!ReviewMilestone

LEMMA NextIInv == IInv /\ [Next]_vars => IInv'
<1> SUFFICES ASSUME IInv, [Next]_vars PROVE IInv'
  OBVIOUS
<1>1. CASE UNCHANGED vars
  BY <1>1, InvariantStutters DEF vars, registryVars, adjudicatorVars, IInv, Typed
<1>2. CASE Tick
  BY <1>2, InvariantStutters DEF Tick, V!Tick, V!E!Tick, registryVars, adjudicatorVars, IInv, Typed
<1>3. CASE RegistryCall
  BY <1>3, RegistryStepIInv DEF RegistryCall, adjudicatorVars
<1>4. CASE VaultCall \/ VaultReturns
  <2>1. now' = now
    BY <1>4 DEF VaultCall, VaultReturns, V!FundMilestone, V!E!FundHandoff, V!PostBond,
       V!E!PostBond, V!RecoverUnactivated, V!E!RecoverUnactivated, V!RecoverActive,
       V!E!RecoverActive, V!Withdraw, V!E!Withdraw, V!WithdrawReturns, V!E!WithdrawReturns,
       V!WithdrawReverts, V!E!WithdrawReverts
  <2>2. UNCHANGED <<net, registryVars, adjudicatorVars>>
    BY <1>4 DEF VaultCall, VaultReturns
  <2> QED BY <2>1, <2>2, InvariantStutters DEF registryVars, adjudicatorVars, IInv, Typed
<1>5. ASSUME NEW msg \in net,
             DeliverRegister(msg) \/ DeliverOutcome(msg) \/ DeliverRecover(msg)
      PROVE  IInv'
  <2>1. now' = now
    BY <1>5 DEF DeliverRegister, DeliverOutcome, DeliverRecover, V!RegisterMilestone,
       V!E!RegisterHandoff, V!RegistrationIgnored, V!E!RegistrationIgnored,
       V!ApplyFinalOutcome, V!OutcomeIgnored, V!RecoverActive, V!E!RecoverActive,
       V!vars, V!E!vars
  <2>2. UNCHANGED <<net, registryVars, adjudicatorVars>>
    BY <1>5 DEF DeliverRegister, DeliverOutcome, DeliverRecover
  <2> QED BY <2>1, <2>2, InvariantStutters DEF registryVars, adjudicatorVars, IInv, Typed
<1>6. ASSUME NEW msg \in net, DeliverReview(msg) PROVE IInv'
  BY <1>6, ReviewMilestoneIInv DEF DeliverReview
<1>7. ASSUME NEW msg \in net, DeliverAnswer(msg) PROVE IInv'
  BY <1>7, RecordRepairIInv, RecordReviewIInv, AnswerIgnoredIInv DEF DeliverAnswer, adjudicatorVars
<1> QED BY <1>1, <1>2, <1>3, <1>4, <1>5, <1>6, <1>7 DEF Next

LEMMA Inductive == Spec => []IInv
BY InitIInv, NextIInv, PTL DEF Spec

-----------------------------------------------------------------------------
\* The state of the four contracts keeps its types, and every message under way is
\* one its sender emits, for any number of milestones and requests.
THEOREM TypeCorrect == Spec => []TypeOK
<1>1. IInv => TypeOK
  BY DEF IInv, Typed, Sound, Genuine, TypeOK
<1> QED BY <1>1, Inductive, PTL

\* A reviewed milestone shows the review of its last request, submission and
\* challenge as the Adjudicator stored it, whatever arrives late or twice.
THEOREM ReviewAlwaysCurrent == Spec => []ReviewIsCurrent
<1>1. IInv => ReviewIsCurrent
  BY DEF IInv, Sound, Current, ReviewIsCurrent
<1> QED BY <1>1, Inductive, PTL

\* A request is reviewed once, however often it is sent.
THEOREM ReviewIsUnique == Spec => []OneReviewPerRequest
BY Inductive, PTL DEF IInv

\* Every review compares with the baseline its milestone was created with.
THEOREM BaselineIsAgreed == Spec => []ReviewedAgainstAgreedBaseline
<1>1. IInv => ReviewedAgainstAgreedBaseline
  BY DEF IInv, Genuine, ReviewedAgainstAgreedBaseline
<1> QED BY <1>1, Inductive, PTL

-----------------------------------------------------------------------------
(***************************************************************************)
(* The milestone contracts keep the promise of MilestonePromise, whatever  *)
(* is repeated, late, re-entrant or rolled back.                           *)
(***************************************************************************)

\* Review id, with rule r, is the verdict of milestone m and its settlement queued.
Stands(m, id, r) ==
    /\ milestones[m].status = "REVIEWED"
    /\ milestones[m].queued
    /\ milestones[m].review = id
    /\ reviews[id].rule = r

\* What ended the escrow of m: expiry, or the verdict that stands.
Backed(m, event) ==
    \/ event.kind = "EscrowRecovered"
    \/ event.kind = "VerdictApplied" /\ Stands(m, event.case, event.rule)

\* An escrow that has not ended has no event, another one at most one.
Closed(m, s, events) ==
    /\ s \notin V!E!Terminal => events = <<>>
    /\ events # <<>> => events = <<Head(events)>> /\ Backed(m, Head(events))

\* What a failing withdraw() restores is as sound as what it undoes, and all that
\* ended since is expiry: no outcome is applied inside a call.
SavedSound(saved) ==
    /\ DOMAIN saved.status = Milestone
    /\ DOMAIN saved.log = Milestone
    /\ \A m \in Milestone :
        /\ Closed(m, saved.status[m], saved.log[m])
        /\ saved.log[m] # <<>> => log[m] = saved.log[m]
        /\ saved.log[m] = <<>> /\ log[m] # <<>> => Head(log[m]).kind = "EscrowRecovered"

\* The inductive invariant of the settlement, relative to IInv.
EscrowSound ==
    /\ DOMAIN status = Milestone
    /\ DOMAIN log = Milestone
    /\ \A m \in Milestone : Closed(m, status[m], log[m])
FrameSound ==
    frames # <<>> => frames = <<Head(frames)>> /\ SavedSound(Head(frames).saved)
InstructionsStand ==
    \A msg \in net : msg.type = "outcome" => Stands(msg.milestone, msg.review, msg.rule)
NotYetChallenged ==
    \A m \in Milestone : milestones[m].status = "NONE" => milestones[m].challenges = <<>>

SInv == IInv /\ EscrowSound /\ FrameSound /\ InstructionsStand /\ NotYetChallenged

-----------------------------------------------------------------------------
(* The Registry.                                                           *)

\* A verdict whose settlement is queued survives every call of the Registry.
LEMMA CallKeepsStanding ==
    ASSUME IInv, R!RegistryStep, NEW m \in Milestone,
           milestones[m].status = "REVIEWED", milestones[m].queued
    PROVE  /\ milestones'[m].status = "REVIEWED" /\ milestones'[m].queued
           /\ milestones'[m].review = milestones[m].review
           /\ reviews' = reviews
<1>0. milestones \in [Milestone -> R!MilestoneRecord]
  BY DEF IInv, Typed
<1>1. CASE \E p \in Project, sponsor \in Sponsor, baseline \in Baseline :
                R!RegisterAcceptedProject(p, sponsor, baseline)
  BY <1>1 DEF R!RegisterAcceptedProject
<1>2. CASE \E who \in Account : R!BindAdjudicator(who) \/ R!BindVault(who)
  BY <1>2 DEF R!BindAdjudicator, R!BindVault
<1>3. ASSUME NEW k \in Milestone, NEW who \in Account,
             \/ R!CreateMilestone(k, who) \/ R!ActivateMilestone(k, who)
             \/ R!SubmitMilestone(k, who) \/ R!MarkMilestoneReady(k, who)
             \/ R!ChallengeMilestone(k, who)
      PROVE  k # m /\ milestones'[m] = milestones[m] /\ reviews' = reviews
  BY <1>0, <1>3 DEF R!CreateMilestone, R!ActivateMilestone, R!SubmitMilestone,
     R!MarkMilestoneReady, R!ChallengeMilestone, R!Challengeable, R!Unaffected
<1>4. ASSUME NEW k \in Milestone,
             R!ResolveMilestone(k) \/ \E who \in Account : R!ResolveChallenge(k, who)
      PROVE  k # m /\ milestones'[m] = milestones[m] /\ reviews' = reviews
  BY <1>0, <1>4 DEF R!ResolveMilestone, R!ResolveChallenge, R!QueueReview, R!Unaffected
<1>5. ASSUME NEW k \in Milestone, NEW who \in Account,
             R!RegisterMilestoneInVault(k, who) \/ R!RetryMilestoneReview(k, who)
      PROVE  milestones' = milestones /\ reviews' = reviews
  BY <1>5 DEF R!RegisterMilestoneInVault, R!RetryMilestoneReview, R!Unaffected
<1>6. ASSUME NEW k \in Milestone,
             R!RecoverMilestone(k) \/ \E id \in ReviewId : R!QueueSettlement(k, id)
      PROVE  /\ milestones'[m].status = "REVIEWED" /\ milestones'[m].queued
             /\ milestones'[m].review = milestones[m].review /\ reviews' = reviews
  <2>1. milestones' = [milestones EXCEPT ![k].queued = TRUE] /\ reviews' = reviews
    BY <1>6 DEF R!RecoverMilestone, R!QueueSettlement, R!Unaffected
  <2> QED BY <1>0, <2>1 DEF R!MilestoneRecord
<1> QED BY <1>1, <1>2, <1>3, <1>4, <1>5, <1>6 DEF R!RegistryStep

\* It survives every answer: a reviewed milestone waits for none, and no answer
\* rewrites a review.
LEMMA AnswerKeepsStanding ==
    ASSUME IInv, NEW msg \in net, DeliverAnswer(msg), NEW m \in Milestone,
           milestones[m].status = "REVIEWED"
    PROVE  /\ milestones'[m] = milestones[m]
           /\ reviews'[milestones[m].review] = reviews[milestones[m].review]
<1>0. /\ milestones \in [Milestone -> R!MilestoneRecord] /\ ~milestones[m].reviewQueued
      /\ reviews[milestones[m].review] # <<>> /\ msg.milestone \in Milestone
      /\ milestones[m].review \in DOMAIN reviews
  <2>1. Current(m, milestones[m]) /\ ~milestones[m].reviewQueued
    BY DEF IInv, Sound
  <2>2. receipts[milestones[m].review] \in R!Review
    BY <2>1 DEF Current, IInv, Typed
  <2>3. DOMAIN receipts \subseteq ReviewId
    BY ReceiptsFit DEF IInv, Typed, ReceiptsCached
  <2> QED BY <2>1, <2>2, <2>3, PresentRecords DEF Current, IInv, Typed, Genuine
<1>1. CASE R!RecordRepair(msg.milestone, msg.request, msg.result.code)
  BY <1>0, <1>1 DEF R!RecordRepair, R!RepairAccepted, R!Awaited
<1>2. CASE R!RecordReview(msg.milestone, msg.request, msg.result)
  <2>1. msg.milestone # m
    BY <1>0, <1>2 DEF R!RecordReview, R!ResultAccepted, R!Awaited
  <2>2. milestones'[m] = milestones[m]
    BY <1>0, <1>2, <2>1 DEF R!RecordReview
  <2>3. /\ reviews[msg.result.review] = <<>>
        /\ \A id : id # msg.result.review /\ id \in DOMAIN reviews => reviews'[id] = reviews[id]
    BY <1>2 DEF R!RecordReview, R!ResultAccepted
  <2> QED BY <1>0, <2>2, <2>3
<1>3. CASE R!AnswerIgnored(msg.milestone, msg.request, msg.result)
  BY <1>3 DEF R!AnswerIgnored
<1> QED BY <1>1, <1>2, <1>3 DEF DeliverAnswer

LEMMA StandsForever ==
    ASSUME IInv, [Next]_vars, NEW m \in Milestone, NEW id, NEW r, Stands(m, id, r)
    PROVE  Stands(m, id, r)'
<1>1. CASE RegistryCall
  BY <1>1, CallKeepsStanding DEF RegistryCall, Stands
<1>2. ASSUME NEW msg \in net, DeliverAnswer(msg)
      PROVE  Stands(m, id, r)'
  BY <1>2, AnswerKeepsStanding DEF Stands
<1>3. CASE UNCHANGED registryVars
  BY <1>3 DEF registryVars, Stands
<1> QED
  BY <1>1, <1>2, <1>3 DEF Next, Tick, VaultCall, VaultReturns, DeliverRegister,
     DeliverOutcome, DeliverRecover, DeliverReview, vars

-----------------------------------------------------------------------------
(* The Vault.                                                              *)

\* Whatever stands before this step stands after it.
Persists ==
    \A m \in Milestone : \A id, r : Stands(m, id, r) => Stands(m, id, r)'

LEMMA NextPersists ==
    ASSUME IInv, [Next]_vars
    PROVE  Persists
BY StandsForever DEF Persists

\* What backs the end of an escrow backs it for ever.
LEMMA ClosedLasts ==
    ASSUME Persists, NEW m \in Milestone, NEW s, NEW events, Closed(m, s, events)
    PROVE  Closed(m, s, events)'
BY DEF Persists, Closed, Backed, Stands

\* A step that ends no escrow.
LEMMA NothingEnds ==
    ASSUME EscrowSound, FrameSound, Persists, log' = log, frames' = frames,
           DOMAIN status' = Milestone,
           \A m \in Milestone : \/ status'[m] = status[m]
                                \/ status[m] \notin V!E!Terminal
    PROVE  EscrowSound' /\ FrameSound'
<1>1. EscrowSound'
  BY DEF EscrowSound, Persists, Stands, Backed, Closed
<1>2. FrameSound'
  <2> DEFINE saved == Head(frames).saved
  <2>1. \A m \in Milestone : frames # <<>> => Closed(m, saved.status[m], saved.log[m])'
    BY ClosedLasts DEF FrameSound, SavedSound, Closed
  <2> QED BY <2>1 DEF FrameSound, SavedSound
<1> QED BY <1>1, <1>2

\* A step that ends the escrow of m with event e; inside a call only by expiry.
LEMMA OneEnds ==
    ASSUME EscrowSound, FrameSound, Persists, NEW m \in Milestone, NEW s, NEW e,
           s \in V!E!Terminal, V!E!Close(m, s, e), status[m] \notin V!E!Terminal,
           Backed(m, e)', frames' = frames, frames = <<>> \/ e.kind = "EscrowRecovered"
    PROVE  EscrowSound' /\ FrameSound' /\ log[m] = <<>> /\ log' = [log EXCEPT ![m] = <<e>>]
<1> USE DEF Persists, Stands, Backed
<1>1. log[m] = <<>>
  BY DEF EscrowSound, Closed
<1>2. Append(log[m], e) = <<e>>
  BY <1>1
<1>3. /\ DOMAIN status' = Milestone /\ DOMAIN log' = Milestone
      /\ status'[m] = s /\ log'[m] = <<e>> /\ log' = [log EXCEPT ![m] = <<e>>]
      /\ \A k \in Milestone \ {m} : status'[k] = status[k] /\ log'[k] = log[k]
  BY <1>2 DEF V!E!Close, EscrowSound
<1>4. Head(<<e>>) = e /\ <<e>> # <<>>
  OBVIOUS
<1>5. EscrowSound'
  BY <1>3, <1>4 DEF EscrowSound, Closed
<1>6. FrameSound'
  <2> DEFINE saved == Head(frames).saved
  <2>1. \A k \in Milestone : frames # <<>> => Closed(k, saved.status[k], saved.log[k])'
    BY ClosedLasts DEF FrameSound, SavedSound
  <2> HIDE DEF Persists, Backed
  <2> QED BY <1>1, <1>3, <1>4, <2>1 DEF FrameSound, SavedSound, Closed
<1> QED BY <1>1, <1>3, <1>5, <1>6

\* withdraw() remembers the state it found.
LEMMA CallOpens ==
    ASSUME EscrowSound, Persists, NEW a, V!E!Withdraw(a)
    PROVE  EscrowSound' /\ FrameSound' /\ frames' # <<>> /\ Head(frames').saved.log = log
<1> USE DEF Persists, Stands, Backed, Closed
<1> DEFINE frame == [account |-> a, saved |-> V!E!Saved]
<1>1. frames = <<>> /\ frames' = <<frame>> /\ status' = status /\ log' = log
  BY DEF V!E!Withdraw, V!E!NonReentrant
<1>2. frame.saved.status = status /\ frame.saved.log = log
  BY DEF V!E!Saved
<1> HIDE DEF frame
<1>3. Head(frames') = frame /\ frames' # <<>>
  BY <1>1
<1>4. EscrowSound'
  BY <1>1 DEF EscrowSound
<1>5. FrameSound'
  BY <1>1, <1>2, <1>3 DEF FrameSound, SavedSound, EscrowSound
<1> QED BY <1>2, <1>3, <1>4, <1>5

\* It ends by keeping what happened since, or by restoring what it remembers.
LEMMA CallEnds ==
    ASSUME EscrowSound, FrameSound, Persists, V!E!WithdrawReturns \/ V!E!WithdrawReverts
    PROVE  /\ EscrowSound' /\ FrameSound' /\ frames # <<>> /\ frames' = <<>>
           /\ log' = log \/ log' = Head(frames).saved.log
<1> USE DEF Persists, Stands, Backed, Closed
<1>1. frames # <<>> /\ frames = <<Head(frames)>> /\ frames' = Tail(frames)
  BY DEF FrameSound, V!E!WithdrawReturns, V!E!WithdrawReverts
<1>2. frames' = <<>>
  BY <1>1
<1>3. FrameSound'
  BY <1>2 DEF FrameSound
<1>4. CASE V!E!WithdrawReturns
  BY <1>1, <1>2, <1>3, <1>4 DEF EscrowSound, V!E!WithdrawReturns
<1>5. CASE V!E!WithdrawReverts
  <2> DEFINE saved == Head(frames).saved
  <2>1. status' = saved.status /\ log' = saved.log
    BY <1>5 DEF V!E!WithdrawReverts
  <2>2. SavedSound(saved)
    BY <1>1 DEF FrameSound
  <2> HIDE DEF saved
  <2>3. EscrowSound'
    BY <2>1, <2>2 DEF EscrowSound, SavedSound
  <2> QED BY <1>1, <1>2, <1>3, <2>1, <2>3 DEF saved
<1> QED BY <1>4, <1>5

\* Every step of the Vault, but for those of withdraw(): nothing ends, or one does.
LEMMA VaultStep ==
    ASSUME EscrowSound, FrameSound, Persists, InstructionsStand,
           NEW m \in Milestone, frames' = frames,
           \/ \E a : V!FundMilestone(m, a) \/ V!PostBond(m, a)
           \/ \E t : V!RegisterMilestone(m, t)
           \/ V!RecoverUnactivated(m)
           \/ V!RecoverActive(m)
    PROVE  /\ EscrowSound' /\ FrameSound'
           /\ \/ log' = log
              \/ \E e : e.kind = "EscrowRecovered" /\ log[m] = <<>> /\ log' = [log EXCEPT ![m] = <<e>>]
<1>1. CASE \/ \E a : V!FundMilestone(m, a) \/ V!PostBond(m, a)
           \/ \E t : V!RegisterMilestone(m, t)
  <2>1. PICK s : /\ status[m] \notin V!E!Terminal /\ status' = [status EXCEPT ![m] = s]
                 /\ log' = log
    BY <1>1 DEF V!FundMilestone, V!E!FundHandoff, V!PostBond, V!E!PostBond,
       V!RegisterMilestone, V!E!RegisterHandoff, V!E!Terminal
  <2>2. /\ DOMAIN status' = Milestone
        /\ \A k \in Milestone : status'[k] = status[k] \/ status[k] \notin V!E!Terminal
    BY <2>1 DEF EscrowSound
  <2> QED BY <2>1, <2>2, NothingEnds
<1>2. CASE V!RecoverUnactivated(m) \/ V!RecoverActive(m)
  <2>1. PICK why : /\ V!E!Close(m, "RECOVERED", V!E!EscrowRecovered(why))
                   /\ status[m] \notin V!E!Terminal
    BY <1>2 DEF V!RecoverUnactivated, V!E!RecoverUnactivated, V!RecoverActive,
       V!E!RecoverActive, V!E!Terminal
  <2> DEFINE e == V!E!EscrowRecovered(why)
  <2>2. e.kind = "EscrowRecovered"
    BY DEF V!E!EscrowRecovered
  <2>3. "RECOVERED" \in V!E!Terminal
    BY DEF V!E!Terminal
  <2> HIDE DEF e
  <2>4. Backed(m, e)'
    BY <2>2 DEF Backed
  <2>5. V!E!Close(m, "RECOVERED", e)
    BY <2>1 DEF e
  <2>6. EscrowSound' /\ FrameSound' /\ log[m] = <<>> /\ log' = [log EXCEPT ![m] = <<e>>]
    BY <2>1, <2>2, <2>3, <2>4, <2>5, OneEnds
  <2> QED BY <2>2, <2>6
<1> QED BY <1>1, <1>2

\* An outcome is applied as it was instructed, outside every call.
LEMMA OutcomeApplied ==
    ASSUME EscrowSound, FrameSound, Persists, InstructionsStand, NEW msg \in net,
           msg.type = "outcome", NEW m \in Milestone, m = msg.milestone, NEW digest,
           V!ApplyFinalOutcome(m, digest, msg.review, msg.rule)
    PROVE  /\ EscrowSound' /\ FrameSound' /\ frames = <<>> /\ frames' = <<>>
           /\ log[m] = <<>>
           /\ log' = [log EXCEPT ![m] = <<V!E!VerdictApplied(msg.review, msg.rule)>>]
<1> DEFINE e == V!E!VerdictApplied(msg.review, msg.rule)
<1>1. /\ V!E!Close(m, "SETTLED", e) /\ status[m] \notin V!E!Terminal
      /\ "SETTLED" \in V!E!Terminal /\ frames = <<>> /\ frames' = frames
  BY DEF V!ApplyFinalOutcome, V!TopLevel, V!E!TopLevel, V!Applicable, V!E!Terminal
<1>2. Backed(m, e)'
  <2>1. /\ e.kind = "VerdictApplied" /\ e.case = msg.review /\ e.rule = msg.rule
    BY DEF V!E!VerdictApplied
  <2>2. Stands(m, msg.review, msg.rule)'
    BY DEF InstructionsStand, Persists
  <2> QED BY <2>1, <2>2 DEF Backed, Stands
<1> HIDE DEF e
<1>3. EscrowSound' /\ FrameSound' /\ log[m] = <<>> /\ log' = [log EXCEPT ![m] = <<e>>]
  BY <1>1, <1>2, OneEnds
<1> QED BY <1>1, <1>3 DEF e

-----------------------------------------------------------------------------
(* What the promise sees of a step of the Registry.                        *)

\* Verdicts and challenges stay as they are; so do the instructions under way.
Quiet ==
    \A m \in Milestone :
        /\ StandingVerdict(m)' = StandingVerdict(m)
        /\ Len(milestones'[m].challenges) = Len(milestones[m].challenges)
SameInstructions ==
    \A msg : msg.type = "outcome" => (msg \in net' <=> msg \in net)

LEMMA QuietMove ==
    ASSUME IInv, NotYetChallenged, NEW k \in Milestone, NEW r,
           milestones' = [milestones EXCEPT ![k] = r], reviews' = reviews,
           r.challenges = milestones[k].challenges, r.status # "NONE",
           \/ r.status = milestones[k].status /\ r.review = milestones[k].review
           \/ r.status # "REVIEWED" /\ milestones[k].status # "REVIEWED"
    PROVE  Quiet /\ NotYetChallenged'
<1>1. /\ milestones'[k] = r
      /\ \A m \in Milestone \ {k} : milestones'[m] = milestones[m]
  BY DEF IInv, Typed
<1>2. \A m \in Milestone : Len(milestones'[m].challenges) = Len(milestones[m].challenges)
  BY <1>1
<1>3. \A m \in Milestone : StandingVerdict(m)' = StandingVerdict(m)
  BY <1>1 DEF StandingVerdict
<1>4. NotYetChallenged'
  BY <1>1 DEF NotYetChallenged
<1> QED BY <1>2, <1>3, <1>4 DEF Quiet

\* Two actions excepted, a call is no step of the promise.
LEMMA QuietCall ==
    ASSUME IInv, NotYetChallenged, NEW k \in Milestone,
           \/ \E who \in Account :
                \/ R!CreateMilestone(k, who) \/ R!ActivateMilestone(k, who)
                \/ R!RegisterMilestoneInVault(k, who) \/ R!SubmitMilestone(k, who)
                \/ R!MarkMilestoneReady(k, who) \/ R!RetryMilestoneReview(k, who)
                \/ R!ResolveChallenge(k, who)
           \/ R!ResolveMilestone(k) \/ R!RecoverMilestone(k)
    PROVE  Quiet /\ SameInstructions /\ NotYetChallenged'
<1>0. milestones[k] \in R!MilestoneRecord
  BY MilestoneState
<1>1. SameInstructions
  <2>1. net' = net \/ \E msg : net' = net \cup {msg} /\ msg.type # "outcome"
    <3>1. CASE \E who \in Account :
                    \/ R!CreateMilestone(k, who) \/ R!ActivateMilestone(k, who)
                    \/ R!SubmitMilestone(k, who) \/ R!MarkMilestoneReady(k, who)
      BY <3>1 DEF R!CreateMilestone, R!ActivateMilestone, R!SubmitMilestone,
         R!MarkMilestoneReady
    <3>2. CASE \E who \in Account : R!RegisterMilestoneInVault(k, who)
      BY <3>2 DEF R!RegisterMilestoneInVault, R!Emit, R!Register
    <3>3. CASE \/ R!ResolveMilestone(k)
               \/ \E who \in Account :
                    R!ResolveChallenge(k, who) \/ R!RetryMilestoneReview(k, who)
      <4>1. PICK request, attempt, context :
                net' = net \cup {R!ReviewRequest(k, request, attempt, context)}
        BY <3>3 DEF R!ResolveMilestone, R!ResolveChallenge, R!RetryMilestoneReview,
           R!QueueReview, R!Emit
      <4>2. R!ReviewRequest(k, request, attempt, context).type # "outcome"
        BY DEF R!ReviewRequest
      <4> QED BY <4>1, <4>2
    <3>4. CASE R!RecoverMilestone(k)
      BY <3>4 DEF R!RecoverMilestone, R!Emit, R!Recover
    <3> QED BY <3>1, <3>2, <3>3, <3>4
  <2> QED BY <2>1 DEF SameInstructions
<1>2. CASE \E who \in Account : R!CreateMilestone(k, who)
  <2>1. PICK who \in Account : R!CreateMilestone(k, who)
    BY <1>2
  <2> DEFINE r == [R!NoMilestone EXCEPT !.status = "DRAFT", !.owner = who,
                                        !.baseline = accepted[Agreed[k].project].baseline]
  <2>2. /\ milestones[k].status = "NONE" /\ milestones' = [milestones EXCEPT ![k] = r]
        /\ reviews' = reviews
    BY <2>1 DEF R!CreateMilestone
  <2>3. r.status = "DRAFT" /\ r.challenges = <<>>
    BY DEF R!NoMilestone
  <2>4. milestones[k].challenges = <<>>
    BY <2>2 DEF NotYetChallenged
  <2> HIDE DEF r
  <2>5. Quiet /\ NotYetChallenged'
    BY <2>2, <2>3, <2>4, QuietMove
  <2> QED BY <1>1, <2>5
<1>3. CASE \E who \in Account :
                \/ R!ActivateMilestone(k, who) \/ R!SubmitMilestone(k, who)
                \/ R!MarkMilestoneReady(k, who)
  <2>1. PICK r : /\ milestones' = [milestones EXCEPT ![k] = r] /\ reviews' = reviews
                 /\ r.challenges = milestones[k].challenges
                 /\ r.status \in {"ACTIVE", "SUBMITTED"}
                 /\ milestones[k].status # "REVIEWED"
    <3>1. CASE \E who \in Account : R!ActivateMilestone(k, who)
      BY <1>0, <3>1 DEF R!ActivateMilestone, R!MilestoneRecord
    <3>2. CASE \E who \in Account : R!SubmitMilestone(k, who)
      BY <1>0, <3>2 DEF R!SubmitMilestone, R!MilestoneRecord
    <3>3. CASE \E who \in Account : R!MarkMilestoneReady(k, who)
      <4>1. PICK who \in Account : R!MarkMilestoneReady(k, who)
        BY <3>3
      <4> DEFINE r == [milestones[k] EXCEPT !.ready = @ \cup {who}]
      <4>2. /\ milestones' = [milestones EXCEPT ![k] = r] /\ reviews' = reviews
            /\ milestones[k].status = "SUBMITTED"
        BY <4>1 DEF R!MarkMilestoneReady
      <4>3. r.challenges = milestones[k].challenges /\ r.status = milestones[k].status
        BY <1>0 DEF R!MilestoneRecord
      <4> HIDE DEF r
      <4> QED BY <4>2, <4>3
    <3> QED BY <1>3, <3>1, <3>2, <3>3
  <2>2. Quiet /\ NotYetChallenged'
    BY <2>1, QuietMove
  <2> QED BY <1>1, <2>2
<1>4. CASE R!ResolveMilestone(k) \/ \E who \in Account : R!ResolveChallenge(k, who)
  <2> DEFINE r == [milestones[k] EXCEPT !.request = milestones[k].request + 1,
                                        !.reviewQueued = TRUE, !.status = "REVIEW_PENDING"]
  <2>1. /\ milestones[k].status # "REVIEWED" /\ milestones' = [milestones EXCEPT ![k] = r]
        /\ reviews' = reviews
    BY <1>4 DEF R!ResolveMilestone, R!ResolveChallenge, R!QueueReview
  <2>2. r.status = "REVIEW_PENDING" /\ r.challenges = milestones[k].challenges
    BY <1>0 DEF R!MilestoneRecord
  <2> HIDE DEF r
  <2>3. Quiet /\ NotYetChallenged'
    BY <2>1, <2>2, QuietMove
  <2> QED BY <1>1, <2>3
<1>5. CASE R!RecoverMilestone(k)
  <2> DEFINE r == [milestones[k] EXCEPT !.queued = TRUE]
  <2>1. /\ milestones[k].status # "NONE" /\ milestones' = [milestones EXCEPT ![k] = r]
        /\ reviews' = reviews
    BY <1>5 DEF R!RecoverMilestone
  <2>2. /\ r.status = milestones[k].status /\ r.challenges = milestones[k].challenges
        /\ r.review = milestones[k].review
    BY <1>0 DEF R!MilestoneRecord
  <2> HIDE DEF r
  <2>3. Quiet /\ NotYetChallenged'
    BY <2>1, <2>2, QuietMove
  <2> QED BY <1>1, <2>3
<1>6. CASE \E who \in Account :
                R!RegisterMilestoneInVault(k, who) \/ R!RetryMilestoneReview(k, who)
  <2>1. milestones' = milestones /\ reviews' = reviews
    BY <1>6 DEF R!RegisterMilestoneInVault, R!RetryMilestoneReview, R!Unaffected
  <2> QED BY <1>1, <2>1 DEF Quiet, StandingVerdict, NotYetChallenged
<1> QED BY <1>2, <1>3, <1>4, <1>5, <1>6

-----------------------------------------------------------------------------
(* Steps of the promise.                                                   *)

Ending(m) == OutcomeOf(V!E!CommittedLog[m])

LEMMA PromiseStutters ==
    ASSUME Quiet, SameInstructions, \A m \in Milestone : Ending(m)' = Ending(m)
    PROVE  UNCHANGED P!vars
<1>1. \A m \in Milestone : Instructed(m)' = Instructed(m)
  BY DEF SameInstructions, Instructed
<1> QED BY <1>1 DEF P!vars, Quiet, Ending

\* The rule of a receipt names one of the three verdicts.
LEMMA NamedRule ==
    ASSUME NEW q \in Seq(R!Review), NEW i \in DOMAIN q
    PROVE  RuleName[q[i].rule] \in P!Verdict
<1>1. q[i] \in R!Review
  OBVIOUS
<1>2. q[i].rule \in 1..3
  BY <1>1 DEF R!Review, R!Rule
<1> QED BY <1>2 DEF RuleName, P!Verdict

\* The verdict of a reviewed milestone is one of the three.
LEMMA VerdictIsNamed ==
    ASSUME IInv, NEW m \in Milestone, milestones[m].status = "REVIEWED"
    PROVE  StandingVerdict(m) \in P!Verdict
<1>1. Current(m, milestones[m]) /\ receipts \in Seq(R!Review)
  BY DEF IInv, Sound, Typed
<1>2. RuleName[receipts[milestones[m].review].rule] \in P!Verdict
  BY <1>1, NamedRule DEF Current
<1> QED BY <1>1, <1>2 DEF StandingVerdict, Current

\* challenge_milestone contests a verdict that is not instructed.
LEMMA ChallengeKept ==
    ASSUME SInv, NEW m \in Milestone, NEW who \in Account,
           R!ChallengeMilestone(m, who), \A k \in Milestone : Ending(k)' = Ending(k)
    PROVE  P!Challenge(m) /\ NotYetChallenged' /\ SameInstructions
<1>0. /\ milestones[m] \in R!MilestoneRecord /\ Sound(m, milestones[m])
      /\ milestones \in [Milestone -> R!MilestoneRecord]
      /\ reviews \in [ReviewId -> R!Review \cup {<<>>}] /\ receipts \in Seq(R!Review)
  BY MilestoneState DEF SInv, IInv, Typed
<1> DEFINE r == [milestones[m] EXCEPT !.status = "CHALLENGED", !.text = TRUE,
                                      !.challenges = Append(@, 0)]
<1>1. /\ milestones[m].status = "REVIEWED" /\ ~milestones[m].queued
      /\ Len(milestones[m].challenges) < MaxChallenges
      /\ milestones' = [milestones EXCEPT ![m] = r] /\ net' = net /\ reviews' = reviews
  BY DEF R!ChallengeMilestone, R!Challengeable
<1>2. /\ r.status = "CHALLENGED" /\ Len(r.challenges) = Len(milestones[m].challenges) + 1
  <2>1. milestones[m].challenges \in Seq(Nat)
    BY <1>0 DEF R!MilestoneRecord
  <2>2. r.status = "CHALLENGED" /\ r.challenges = Append(milestones[m].challenges, 0)
    BY <1>0 DEF R!MilestoneRecord
  <2> QED BY <2>1, <2>2
<1> HIDE DEF r
<1>3. /\ StandingVerdict(m)' = "none"
      /\ Len(milestones[m].challenges)' = Len(milestones[m].challenges) + 1
      /\ \A k \in Milestone \ {m} :
            /\ StandingVerdict(k)' = StandingVerdict(k)
            /\ Len(milestones[k].challenges)' = Len(milestones[k].challenges)
  BY <1>0, <1>1, <1>2 DEF StandingVerdict
<1>4. SameInstructions /\ \A k \in Milestone : Instructed(k)' = Instructed(k)
  BY <1>1 DEF SameInstructions, Instructed
<1>5. ~Instructed(m)
  BY <1>1 DEF Instructed, SInv, InstructionsStand, Stands
<1>6. StandingVerdict(m) # "none"
  <2>1. StandingVerdict(m) \in P!Verdict
    BY <1>1, VerdictIsNamed DEF SInv
  <2> QED BY <2>1 DEF P!Verdict
<1>7. NotYetChallenged'
  BY <1>0, <1>1, <1>2 DEF NotYetChallenged, SInv
<1> QED
  BY <1>1, <1>3, <1>4, <1>5, <1>6, <1>7 DEF P!Challenge, Ending

\* queue_settlement makes a verdict final, or repeats the instruction.
LEMMA SettlementKept ==
    ASSUME SInv, NEW m \in Milestone, NEW id \in ReviewId,
           R!QueueSettlement(m, id), \A k \in Milestone : Ending(k)' = Ending(k)
    PROVE  /\ P!Finalize(m) \/ UNCHANGED P!vars
           /\ NotYetChallenged'
           /\ \A msg \in net' : msg \in net \/ (msg.milestone = m /\ Stands(m, msg.review, msg.rule)')
<1>0. milestones[m] \in R!MilestoneRecord /\ milestones \in [Milestone -> R!MilestoneRecord]
  BY MilestoneState DEF SInv, IInv, Typed
<1> DEFINE r == [milestones[m] EXCEPT !.queued = TRUE]
<1> PICK msg : msg = R!Outcome(m, id, reviews[id].rule)
  OBVIOUS
<1>1. /\ milestones[m].status = "REVIEWED" /\ id = milestones[m].review
      /\ milestones' = [milestones EXCEPT ![m] = r] /\ reviews' = reviews
      /\ net' = net \cup {msg}
  BY DEF R!QueueSettlement, R!Settleable, R!Emit
<1>2. /\ r.status = milestones[m].status /\ r.challenges = milestones[m].challenges
      /\ r.review = milestones[m].review /\ r.queued
  BY <1>0 DEF R!MilestoneRecord
<1>3. /\ msg.type = "outcome" /\ msg.milestone = m
      /\ msg.review = id /\ msg.rule = reviews[id].rule
  BY DEF R!Outcome
<1> HIDE DEF r
<1>4. Quiet /\ NotYetChallenged'
  BY <1>1, <1>2, QuietMove DEF SInv
<1>5. Stands(m, msg.review, msg.rule)'
  BY <1>0, <1>1, <1>2, <1>3 DEF Stands
<1>6. /\ Instructed(m)'
      /\ \A k \in Milestone \ {m} : Instructed(k)' = Instructed(k)
  BY <1>1, <1>3 DEF Instructed
<1>7. CASE Instructed(m)
  <2>1. \A k \in Milestone : Instructed(k)' = Instructed(k)
    BY <1>6, <1>7 DEF Instructed
  <2>2. UNCHANGED P!vars
    BY <1>4, <2>1 DEF P!vars, Quiet, Ending
  <2> QED BY <1>1, <1>3, <1>4, <1>5, <2>2
<1>8. CASE ~Instructed(m)
  <2>1. StandingVerdict(m) # "none"
    BY <1>1, VerdictIsNamed DEF SInv, P!Verdict
  <2>2. P!Finalize(m)
    BY <1>4, <1>6, <1>8, <2>1 DEF P!Finalize, Quiet, Ending
  <2> QED BY <1>1, <1>3, <1>4, <1>5, <2>2
<1> QED BY <1>7, <1>8

\* Resolving a challenge keeps the number of challenges.
LEMMA ResolvedLength ==
    ASSUME NEW challenges \in Seq(Nat), NEW id
    PROVE  Len(R!Resolved(challenges, id)) = Len(challenges)
<1>1. CASE challenges = <<>>
  BY <1>1 DEF R!Resolved
<1>2. CASE challenges # <<>>
  <2> DEFINE q == [challenges EXCEPT ![Len(challenges)] = id]
  <2>1. R!Resolved(challenges, id) = q /\ DOMAIN q = 1..Len(challenges) /\ Len(challenges) \in Nat
    BY <1>2 DEF R!Resolved
  <2> QED BY <2>1
<1> QED BY <1>1, <1>2

\* record_review gives a milestone a verdict, a finding without one changes none.
LEMMA AnswerKept ==
    ASSUME SInv, NEW msg \in net, DeliverAnswer(msg),
           \A k \in Milestone : Ending(k)' = Ending(k)
    PROVE  /\ \/ UNCHANGED P!vars
              \/ \E m \in Milestone, v \in P!Verdict : P!Review(m, v)
           /\ NotYetChallenged' /\ SameInstructions
<1> DEFINE m == msg.milestone
           result == msg.result
<1>0. m \in Milestone
  BY DEF SInv, IInv, Genuine
<1>1. /\ milestones[m] \in R!MilestoneRecord /\ Sound(m, milestones[m])
      /\ milestones[m].challenges \in Seq(Nat)
      /\ milestones \in [Milestone -> R!MilestoneRecord]
  BY <1>0, MilestoneState DEF SInv, IInv, Typed
<1>2. SameInstructions
  BY DEF DeliverAnswer, SameInstructions
<1>3. \A k \in Milestone : Instructed(k)' = Instructed(k)
  BY <1>2 DEF SameInstructions, Instructed
<1>4. CASE R!RecordRepair(m, msg.request, result.code)
  <2> DEFINE r == [milestones[m] EXCEPT !.status = "REPAIR_REQUIRED", !.reviewQueued = FALSE,
                                        !.repair = result.code]
  <2>1. /\ milestones[m].status # "REVIEWED"
        /\ milestones' = [milestones EXCEPT ![m] = r] /\ reviews' = reviews
    BY <1>1, <1>4 DEF R!RecordRepair, R!RepairAccepted, R!Awaited, Sound
  <2>2. r.status = "REPAIR_REQUIRED" /\ r.challenges = milestones[m].challenges
    BY <1>1 DEF R!MilestoneRecord
  <2> HIDE DEF r
  <2>3. Quiet /\ NotYetChallenged'
    BY <1>0, <2>1, <2>2, QuietMove DEF SInv
  <2>4. UNCHANGED P!vars
    BY <1>2, <2>3, PromiseStutters
  <2> QED BY <1>2, <2>3, <2>4
<1>5. CASE R!RecordReview(m, msg.request, result)
  <2> DEFINE r == [milestones[m] EXCEPT !.status = "REVIEWED", !.reviewQueued = FALSE,
                !.review = result.review, !.queued = FALSE, !.repair = "",
                !.challengeDeadline = now + Agreed[m].challengeWindow,
                !.challenges = R!Resolved(milestones[m].challenges, result.review)]
  <2>1. /\ milestones[m].status # "REVIEWED"
        /\ milestones' = [milestones EXCEPT ![m] = r]
    BY <1>1, <1>5 DEF R!RecordReview, R!ResultAccepted, R!Awaited, Sound
  <2>2. /\ r.status = "REVIEWED"
        /\ r.challenges = R!Resolved(milestones[m].challenges, result.review)
    BY <1>1 DEF R!MilestoneRecord
  <2>3. Len(r.challenges) = Len(milestones[m].challenges)
    BY <1>1, <2>2, ResolvedLength
  <2> HIDE DEF r
  <2>4. /\ milestones'[m] = r
        /\ \A k \in Milestone \ {m} : milestones'[k] = milestones[k]
    BY <1>0, <1>1, <2>1
  <2>5. ASSUME NEW k \in Milestone \ {m}
        PROVE  StandingVerdict(k)' = StandingVerdict(k)
    <3>1. milestones[k].status = "REVIEWED" =>
              reviews'[milestones[k].review] = reviews[milestones[k].review]
      BY AnswerKeepsStanding DEF SInv
    <3> QED BY <2>4, <3>1 DEF StandingVerdict
  <2>6. \A k \in Milestone : Len(milestones'[k].challenges) = Len(milestones[k].challenges)
    BY <2>3, <2>4
  <2>7. NotYetChallenged'
    BY <2>2, <2>4 DEF SInv, NotYetChallenged
  <2>8. StandingVerdict(m)' \in P!Verdict
    <3>1. IInv'
      BY <1>0, <1>5, RecordReviewIInv DEF SInv, DeliverAnswer, adjudicatorVars
    <3>2. Current(m, milestones[m])' /\ receipts' \in Seq(R!Review)
      BY <1>0, <2>2, <2>4, <3>1 DEF IInv, Sound, Typed
    <3>3. RuleName[receipts'[milestones'[m].review].rule] \in P!Verdict
      BY <3>2, NamedRule DEF Current
    <3> QED BY <2>2, <2>4, <3>2, <3>3 DEF StandingVerdict, Current
  <2>9. StandingVerdict(m) = "none"
    BY <2>1 DEF StandingVerdict
  <2>10. P!Review(m, StandingVerdict(m)')
    BY <1>0, <1>3, <2>5, <2>6, <2>9 DEF P!Review, Ending
  <2> QED BY <1>0, <1>2, <2>7, <2>8, <2>10
<1>6. CASE R!AnswerIgnored(m, msg.request, result)
  <2>1. milestones' = milestones /\ reviews' = reviews
    BY <1>6 DEF R!AnswerIgnored
  <2>2. Quiet /\ NotYetChallenged'
    BY <2>1 DEF Quiet, StandingVerdict, SInv, NotYetChallenged
  <2>3. UNCHANGED P!vars
    BY <1>2, <2>2, PromiseStutters
  <2> QED BY <1>2, <2>2, <2>3
<1> QED BY <1>4, <1>5, <1>6 DEF DeliverAnswer

\* The registry's part of a step of the Vault.
RegistryRests == UNCHANGED <<net, milestones, reviews>>

LEMMA RestingIsQuiet ==
    ASSUME RegistryRests, NotYetChallenged
    PROVE  Quiet /\ SameInstructions /\ NotYetChallenged'
BY DEF RegistryRests, NotYetChallenged, Quiet, SameInstructions, StandingVerdict

\* Expiry at top level is a step of the promise; inside a call it is not yet one.
LEMMA ExpiryKept ==
    ASSUME SInv, RegistryRests, NEW m \in Milestone, NEW e, e.kind = "EscrowRecovered",
           log[m] = <<>>, log' = [log EXCEPT ![m] = <<e>>], frames' = frames
    PROVE  P!Expire({m}) \/ UNCHANGED P!vars
<1>0. Quiet /\ SameInstructions
  BY RestingIsQuiet DEF SInv
<1>1. CASE frames # <<>>
  <2>1. \A k \in Milestone : Ending(k)' = Ending(k)
    BY <1>1 DEF Ending, V!E!CommittedLog
  <2> QED BY <1>0, <2>1, PromiseStutters
<1>2. CASE frames = <<>>
  <2>1. /\ log'[m] = <<e>>
        /\ \A k \in Milestone \ {m} : log'[k] = log[k]
    BY DEF SInv, EscrowSound
  <2>2. OutcomeOf(<<e>>) = "expired"
    <3>1. <<e>> # <<>> /\ Head(<<e>>) = e
      OBVIOUS
    <3> QED BY <3>1 DEF OutcomeOf
  <2>3. /\ Ending(m) = "pending" /\ Ending(m)' = "expired"
        /\ \A k \in Milestone \ {m} : Ending(k)' = Ending(k)
    <3>1. V!E!CommittedLog = log /\ V!E!CommittedLog' = log'
      BY <1>2 DEF V!E!CommittedLog
    <3>2. OutcomeOf(log[m]) = "pending"
      BY DEF OutcomeOf
    <3>3. /\ Ending(m)' = OutcomeOf(log'[m])
          /\ \A k \in Milestone \ {m} : Ending(k)' = OutcomeOf(log'[k])
      BY <3>1 DEF Ending, OutcomeOf
    <3> QED BY <2>1, <2>2, <3>1, <3>2, <3>3 DEF Ending
  <2>4. \A k \in Milestone : Instructed(k)' = Instructed(k)
    BY <1>0 DEF SameInstructions, Instructed
  <2> QED BY <1>0, <2>3, <2>4 DEF P!Expire, Quiet, Ending
<1> QED BY <1>1, <1>2

\* What expired inside withdraw() has expired once it returns.
LEMMA ReturnKept ==
    ASSUME SInv, RegistryRests, frames # <<>>, frames' = <<>>,
           log' = log \/ log' = Head(frames).saved.log
    PROVE  (\E S \in SUBSET Milestone : P!Expire(S)) \/ UNCHANGED P!vars
<1> DEFINE saved == Head(frames).saved
           S == {k \in Milestone : saved.log[k] = <<>> /\ log'[k] # <<>>}
<1>0. Quiet /\ SameInstructions
  BY RestingIsQuiet DEF SInv
<1>1. \A k \in Milestone : Ending(k) = OutcomeOf(saved.log[k]) /\ Ending(k)' = OutcomeOf(log'[k])
  BY DEF Ending, V!E!CommittedLog, OutcomeOf
<1>2. SavedSound(saved) /\ (log' = log \/ log' = saved.log)
  BY DEF SInv, FrameSound
<1> HIDE DEF saved
<1>3. ASSUME NEW k \in Milestone
      PROVE  /\ k \in S => OutcomeOf(saved.log[k]) = "pending" /\ OutcomeOf(log'[k]) = "expired"
             /\ k \notin S => OutcomeOf(log'[k]) = OutcomeOf(saved.log[k])
  BY <1>2 DEF SavedSound, OutcomeOf, SInv, FrameSound
<1>4. \A k \in Milestone : Instructed(k)' = Instructed(k)
  BY <1>0 DEF SameInstructions, Instructed
<1>5. P!Expire(S)
  BY <1>0, <1>1, <1>3, <1>4 DEF P!Expire, Quiet, Ending
<1> QED BY <1>5

\* Applying an outcome settles the escrow as its final verdict says.
LEMMA OutcomeKept ==
    ASSUME SInv, RegistryRests, NEW msg \in net, msg.type = "outcome", NEW m \in Milestone,
           m = msg.milestone, frames = <<>>, frames' = <<>>, log[m] = <<>>,
           log' = [log EXCEPT ![m] = <<V!E!VerdictApplied(msg.review, msg.rule)>>]
    PROVE  P!Settle(m)
<1> DEFINE e == V!E!VerdictApplied(msg.review, msg.rule)
<1>0. Quiet /\ SameInstructions
  BY RestingIsQuiet DEF SInv
<1>1. e.kind = "VerdictApplied" /\ e.rule = msg.rule
  BY DEF V!E!VerdictApplied
<1>2. log' = [log EXCEPT ![m] = <<e>>]
  OBVIOUS
<1> HIDE DEF e
<1>3. StandingVerdict(m) = RuleName[msg.rule]
  BY DEF SInv, InstructionsStand, Stands, StandingVerdict
<1>4. /\ log'[m] = <<e>>
      /\ \A k \in Milestone \ {m} : log'[k] = log[k]
  BY <1>2 DEF SInv, EscrowSound
<1>5. OutcomeOf(<<e>>) = RuleName[msg.rule]
  <2>1. <<e>> # <<>> /\ Head(<<e>>) = e
    OBVIOUS
  <2> QED BY <1>1, <2>1 DEF OutcomeOf
<1>6. /\ Ending(m) = "pending" /\ Ending(m)' = StandingVerdict(m)
      /\ \A k \in Milestone \ {m} : Ending(k)' = Ending(k)
  <2>1. \A k \in Milestone : Ending(k) = OutcomeOf(log[k]) /\ Ending(k)' = OutcomeOf(log'[k])
    BY DEF Ending, V!E!CommittedLog, OutcomeOf
  <2>2. OutcomeOf(log[m]) = "pending"
    BY DEF OutcomeOf
  <2> QED BY <1>3, <1>4, <1>5, <2>1, <2>2
<1>7. Instructed(m) /\ \A k \in Milestone : Instructed(k)' = Instructed(k)
  BY <1>0 DEF SameInstructions, Instructed
<1> QED BY <1>0, <1>6, <1>7 DEF P!Settle, Quiet, Ending

-----------------------------------------------------------------------------
LEMMA InitSInv == Init => SInv /\ P!Init
<1> SUFFICES ASSUME Init PROVE SInv /\ P!Init
  OBVIOUS
<1> USE DEF Init, R!Init, V!Init, V!E!Init
<1>1. EscrowSound /\ FrameSound
  BY DEF EscrowSound, FrameSound, Closed
<1>2. InstructionsStand
  BY DEF InstructionsStand
<1>3. \A m \in Milestone : milestones[m].status = "NONE" /\ milestones[m].challenges = <<>>
  BY DEF R!NoMilestone
<1>4. NotYetChallenged
  BY <1>3 DEF NotYetChallenged
<1>5. \A m \in Milestone : /\ StandingVerdict(m) = "none" /\ Len(milestones[m].challenges) = 0
                           /\ Instructed(m) = FALSE /\ Ending(m) = "pending"
  BY <1>3 DEF StandingVerdict, Instructed, Ending, OutcomeOf, V!E!CommittedLog
<1>6. P!Init
  BY <1>5 DEF P!Init, Ending
<1> QED BY <1>1, <1>2, <1>4, <1>6, InitIInv DEF SInv

\* The instructions under way stand if the step adds none.
LEMMA InstructionsKept ==
    ASSUME SInv, Persists, SameInstructions
    PROVE  InstructionsStand'
<1> SUFFICES ASSUME NEW msg \in net', msg.type = "outcome"
             PROVE  Stands(msg.milestone, msg.review, msg.rule)'
  BY DEF InstructionsStand, Stands
<1>1. msg \in net /\ msg.milestone \in Milestone
  BY DEF SameInstructions, SInv, IInv, Genuine
<1> QED BY <1>1 DEF SInv, InstructionsStand, Persists

\* The two things shown of every step.
Kept == [P!Next]_(P!vars)

\* A call of the Registry.
LEMMA CallKept ==
    ASSUME SInv, Persists, RegistryCall
    PROVE  /\ EscrowSound' /\ FrameSound' /\ InstructionsStand' /\ NotYetChallenged'
           /\ Kept
<1>1. \A k \in Milestone : Ending(k)' = Ending(k)
  BY DEF RegistryCall, vaultVars, Ending, OutcomeOf, V!E!CommittedLog
<1>2. EscrowSound' /\ FrameSound'
  BY NothingEnds DEF SInv, RegistryCall, vaultVars, EscrowSound
<1>3. ASSUME Quiet, SameInstructions, NotYetChallenged'
      PROVE  InstructionsStand' /\ NotYetChallenged' /\ Kept
  BY <1>1, <1>3, InstructionsKept, PromiseStutters DEF Kept
<1>4. CASE RegistryRests
  BY <1>2, <1>3, <1>4, RestingIsQuiet DEF SInv
<1>5. CASE \E m \in Milestone :
            \/ \E who \in Account :
                \/ R!CreateMilestone(m, who) \/ R!ActivateMilestone(m, who)
                \/ R!RegisterMilestoneInVault(m, who) \/ R!SubmitMilestone(m, who)
                \/ R!MarkMilestoneReady(m, who) \/ R!RetryMilestoneReview(m, who)
                \/ R!ResolveChallenge(m, who)
            \/ R!ResolveMilestone(m) \/ R!RecoverMilestone(m)
  BY <1>2, <1>3, <1>5, QuietCall DEF SInv
<1>6. ASSUME NEW m \in Milestone, NEW who \in Account, R!ChallengeMilestone(m, who)
      PROVE  InstructionsStand' /\ NotYetChallenged' /\ Kept
  <2>1. P!Challenge(m) /\ NotYetChallenged' /\ SameInstructions
    BY <1>1, <1>6, ChallengeKept
  <2> QED BY <2>1, InstructionsKept DEF Kept, P!Next
<1>7. ASSUME NEW m \in Milestone, NEW id \in ReviewId, R!QueueSettlement(m, id)
      PROVE  InstructionsStand' /\ NotYetChallenged' /\ Kept
  <2>1. /\ P!Finalize(m) \/ UNCHANGED P!vars
        /\ NotYetChallenged'
        /\ \A msg \in net' : msg \in net \/ (msg.milestone = m /\ Stands(m, msg.review, msg.rule)')
    BY <1>1, <1>7, SettlementKept
  <2>2. InstructionsStand'
    <3> SUFFICES ASSUME NEW msg \in net', msg.type = "outcome"
                 PROVE  Stands(msg.milestone, msg.review, msg.rule)'
      BY DEF InstructionsStand, Stands
    <3>1. CASE msg \in net
      BY <3>1 DEF SInv, IInv, Genuine, InstructionsStand, Persists
    <3>2. CASE msg.milestone = m /\ Stands(m, msg.review, msg.rule)'
      BY <3>2 DEF Stands
    <3> QED BY <2>1, <3>1, <3>2
  <2> QED BY <2>1, <2>2 DEF Kept, P!Next
<1>8. \/ RegistryRests
      \/ \E m \in Milestone :
            \/ \E who \in Account :
                \/ R!CreateMilestone(m, who) \/ R!ActivateMilestone(m, who)
                \/ R!RegisterMilestoneInVault(m, who) \/ R!SubmitMilestone(m, who)
                \/ R!MarkMilestoneReady(m, who) \/ R!RetryMilestoneReview(m, who)
                \/ R!ResolveChallenge(m, who)
            \/ R!ResolveMilestone(m) \/ R!RecoverMilestone(m)
      \/ \E m \in Milestone : \E who \in Account : R!ChallengeMilestone(m, who)
      \/ \E m \in Milestone : \E id \in ReviewId : R!QueueSettlement(m, id)
  BY DEF RegistryCall, R!RegistryStep, RegistryRests, R!RegisterAcceptedProject,
     R!BindAdjudicator, R!BindVault
<1> QED BY <1>2, <1>4, <1>5, <1>6, <1>7, <1>8

\* A transaction or message of the Vault.
LEMMA EscrowKept ==
    ASSUME SInv, Persists,
           \/ VaultCall
           \/ VaultReturns
           \/ \E msg \in net : DeliverRegister(msg) \/ DeliverOutcome(msg) \/ DeliverRecover(msg)
    PROVE  /\ EscrowSound' /\ FrameSound' /\ InstructionsStand' /\ NotYetChallenged'
           /\ Kept
<1>1. RegistryRests
  BY DEF VaultCall, VaultReturns, DeliverRegister, DeliverOutcome, DeliverRecover,
     registryVars, RegistryRests
<1>2. Quiet /\ SameInstructions /\ NotYetChallenged'
  BY <1>1, RestingIsQuiet DEF SInv
<1>3. InstructionsStand'
  BY <1>2, InstructionsKept
<1> USE DEF Kept
<1>4. ASSUME NEW m \in Milestone,
             \/ \E a : V!FundMilestone(m, a) \/ V!PostBond(m, a)
             \/ \E t : V!RegisterMilestone(m, t)
             \/ V!RecoverUnactivated(m)
             \/ V!RecoverActive(m)
      PROVE  EscrowSound' /\ FrameSound' /\ Kept
  <2>1. frames' = frames
    BY <1>4 DEF V!FundMilestone, V!E!FundHandoff, V!PostBond, V!E!PostBond,
       V!RegisterMilestone, V!E!RegisterHandoff, V!RecoverUnactivated,
       V!E!RecoverUnactivated, V!RecoverActive, V!E!RecoverActive
  <2>2. /\ EscrowSound' /\ FrameSound'
        /\ \/ log' = log
           \/ \E e : e.kind = "EscrowRecovered" /\ log[m] = <<>> /\ log' = [log EXCEPT ![m] = <<e>>]
    BY <1>4, <2>1, VaultStep DEF SInv
  <2>3. CASE log' = log
    <3>1. \A k \in Milestone : Ending(k)' = Ending(k)
      BY <2>1, <2>3 DEF Ending, OutcomeOf, V!E!CommittedLog
    <3> QED BY <1>2, <2>2, <3>1, PromiseStutters
  <2>4. CASE \E e : e.kind = "EscrowRecovered" /\ log[m] = <<>> /\ log' = [log EXCEPT ![m] = <<e>>]
    <3>1. P!Expire({m}) \/ UNCHANGED P!vars
      BY <1>1, <2>1, <2>4, ExpiryKept
    <3> QED BY <2>2, <3>1 DEF P!Next
  <2> QED BY <2>2, <2>3, <2>4
<1>5. ASSUME NEW a, V!Withdraw(a)
      PROVE  EscrowSound' /\ FrameSound' /\ Kept
  <2>1. /\ EscrowSound' /\ FrameSound' /\ frames' # <<>> /\ Head(frames').saved.log = log
        /\ frames = <<>>
    BY <1>5, CallOpens DEF SInv, V!Withdraw, V!E!Withdraw, V!E!NonReentrant
  <2>2. \A k \in Milestone : Ending(k)' = Ending(k)
    BY <2>1 DEF Ending, OutcomeOf, V!E!CommittedLog
  <2> QED BY <1>2, <2>1, <2>2, PromiseStutters
<1>6. CASE VaultReturns
  <2>1. /\ EscrowSound' /\ FrameSound' /\ frames # <<>> /\ frames' = <<>>
        /\ log' = log \/ log' = Head(frames).saved.log
    BY <1>6, CallEnds DEF SInv, VaultReturns, V!WithdrawReturns, V!WithdrawReverts
  <2>2. (\E S \in SUBSET Milestone : P!Expire(S)) \/ UNCHANGED P!vars
    BY <1>1, <2>1, ReturnKept
  <2> QED BY <1>2, <1>3, <2>1, <2>2 DEF P!Next
<1>7. ASSUME NEW msg \in net, DeliverRegister(msg) \/ DeliverOutcome(msg) \/ DeliverRecover(msg)
      PROVE  EscrowSound' /\ FrameSound' /\ Kept
  <2>0. msg.milestone \in Milestone
    BY DEF SInv, IInv, Genuine
  <2>1. CASE V!RegisterMilestone(msg.milestone, msg.terms) \/ V!RecoverActive(msg.milestone)
    BY <1>4, <2>0, <2>1
  <2>2. CASE \/ V!RegistrationIgnored(msg.milestone, msg.terms)
             \/ V!OutcomeIgnored(msg.milestone, milestones[msg.milestone].baseline)
    <3>1. UNCHANGED <<status, log, frames>>
      BY <2>2 DEF V!RegistrationIgnored, V!E!RegistrationIgnored, V!OutcomeIgnored,
         V!vars, V!vaultVars, V!E!vars
    <3>2. \A k \in Milestone : Ending(k)' = Ending(k)
      BY <3>1 DEF Ending, OutcomeOf, V!E!CommittedLog
    <3>3. EscrowSound' /\ FrameSound'
      BY <3>1, NothingEnds DEF SInv, EscrowSound
    <3> QED BY <1>2, <3>2, <3>3, PromiseStutters
  <2>3. CASE /\ msg.type = "outcome"
             /\ V!ApplyFinalOutcome(msg.milestone, milestones[msg.milestone].baseline,
                                    msg.review, msg.rule)
    <3>1. /\ EscrowSound' /\ FrameSound' /\ frames = <<>> /\ frames' = <<>>
          /\ log[msg.milestone] = <<>>
          /\ log' = [log EXCEPT ![msg.milestone] = <<V!E!VerdictApplied(msg.review, msg.rule)>>]
      BY <2>0, <2>3, OutcomeApplied DEF SInv
    <3>2. P!Settle(msg.milestone)
      BY <1>1, <2>0, <2>3, <3>1, OutcomeKept
    <3> QED BY <2>0, <3>1, <3>2 DEF P!Next
  <2> QED BY <1>7, <2>1, <2>2, <2>3 DEF DeliverRegister, DeliverOutcome, DeliverRecover
<1>8. EscrowSound' /\ FrameSound' /\ Kept
  BY <1>4, <1>5, <1>6, <1>7 DEF VaultCall
<1> QED BY <1>2, <1>3, <1>8

\* The clock, and the Adjudicator's answer to a request.
LEMMA OthersKept ==
    ASSUME SInv, Persists, \/ UNCHANGED vars \/ Tick \/ \E msg \in net : DeliverReview(msg)
    PROVE  /\ EscrowSound' /\ FrameSound' /\ InstructionsStand' /\ NotYetChallenged'
           /\ Kept
<1>1. UNCHANGED <<milestones, reviews, status, log, frames>>
  BY DEF vars, registryVars, vaultVars, Tick, V!Tick, V!E!Tick, DeliverReview
<1>2. SameInstructions
  <2>1. CASE UNCHANGED vars \/ Tick
    BY <2>1 DEF vars, Tick, SameInstructions
  <2>2. ASSUME NEW msg \in net, DeliverReview(msg)
        PROVE  SameInstructions
    <3>1. msg.type = "review" /\ A!ReviewMilestone(msg)
      BY <2>2 DEF DeliverReview
    <3>2. CASE A!ReviewAborted(msg)
      BY <3>1, <3>2 DEF A!ReviewAborted, SameInstructions
    <3>3. ASSUME NEW result, A!Reply(msg, result)
          PROVE  SameInstructions
      BY <3>1, <3>3 DEF A!Reply, A!Answer, SameInstructions
    <3> QED
      BY <3>1, <3>2, <3>3
      DEF A!ReviewMilestone, A!ReviewFails, A!ReviewSucceeds, A!ReviewRepeated, A!Record
  <2> QED BY <2>1, <2>2
<1>3. Quiet /\ NotYetChallenged'
  BY <1>1 DEF Quiet, StandingVerdict, SInv, NotYetChallenged
<1>4. \A k \in Milestone : Ending(k)' = Ending(k)
  BY <1>1 DEF Ending, OutcomeOf, V!E!CommittedLog
<1>5. EscrowSound' /\ FrameSound'
  BY <1>1, NothingEnds DEF SInv, EscrowSound
<1>6. InstructionsStand'
  BY <1>2, InstructionsKept
<1>7. Kept
  BY <1>2, <1>3, <1>4, PromiseStutters DEF Kept
<1> QED BY <1>3, <1>5, <1>6, <1>7

LEMMA NextSInv == SInv /\ [Next]_vars => SInv' /\ Kept
<1> SUFFICES ASSUME SInv, [Next]_vars PROVE SInv' /\ Kept
  OBVIOUS
<1>1. IInv' /\ Persists
  BY NextIInv, NextPersists DEF SInv
<1>2. CASE RegistryCall
  BY <1>1, <1>2, CallKept DEF SInv
<1>3. CASE \/ VaultCall
           \/ VaultReturns
           \/ \E msg \in net : DeliverRegister(msg) \/ DeliverOutcome(msg) \/ DeliverRecover(msg)
  BY <1>1, <1>3, EscrowKept DEF SInv
<1>4. CASE \/ UNCHANGED vars \/ Tick \/ \E msg \in net : DeliverReview(msg)
  BY <1>1, <1>4, OthersKept DEF SInv
<1>5. ASSUME NEW msg \in net, DeliverAnswer(msg)
      PROVE  SInv' /\ Kept
  <2>1. UNCHANGED <<status, log, frames>>
    BY <1>5 DEF DeliverAnswer, vaultVars
  <2>2. \A k \in Milestone : Ending(k)' = Ending(k)
    BY <2>1 DEF Ending, OutcomeOf, V!E!CommittedLog
  <2>3. EscrowSound' /\ FrameSound'
    BY <1>1, <2>1, NothingEnds DEF SInv, EscrowSound
  <2>4. /\ \/ UNCHANGED P!vars
           \/ \E m \in Milestone, v \in P!Verdict : P!Review(m, v)
        /\ NotYetChallenged' /\ SameInstructions
    BY <1>5, <2>2, AnswerKept
  <2>5. InstructionsStand'
    BY <1>1, <2>4, InstructionsKept
  <2> QED BY <1>1, <2>3, <2>4, <2>5 DEF SInv, Kept, P!Next
<1> QED BY <1>2, <1>3, <1>4, <1>5 DEF Next

LEMMA SettlementInvariant == Spec => []SInv
BY InitSInv, NextSInv, PTL DEF Spec

-----------------------------------------------------------------------------
\* An escrow that paid out paid the review that still stands, for any number of
\* milestones, however late or often its instruction arrived.
THEOREM OutcomeIsReviewed == Spec => []PaidAsReviewed
<1>1. SInv => PaidAsReviewed
  <2> SUFFICES ASSUME SInv, NEW m \in Milestone, NEW id \in ReviewId, NEW r \in 1..3,
                      log[m] = <<V!E!VerdictApplied(id, r)>>
               PROVE  Stands(m, id, r)
    BY DEF PaidAsReviewed, Stands
  <2> DEFINE e == V!E!VerdictApplied(id, r)
  <2>1. e.kind = "VerdictApplied" /\ e.case = id /\ e.rule = r
    BY DEF V!E!VerdictApplied
  <2>2. log[m] = <<e>>
    OBVIOUS
  <2> HIDE DEF e
  <2>3. log[m] # <<>> /\ Head(log[m]) = e
    BY <2>2
  <2> QED BY <2>1, <2>3 DEF SInv, EscrowSound, Closed, Backed
<1> QED BY <1>1, SettlementInvariant, PTL

\* The Authority, Registry, Adjudicator and Vault implement MilestonePromise.
THEOREM PromiseIsKept == Spec => KeepsPromise
<1>1. SInv /\ [Next]_vars => [P!Next]_(P!vars)
  BY NextSInv DEF Kept
<1> QED BY <1>1, InitSInv, SettlementInvariant, PTL DEF Spec, KeepsPromise, P!Spec

\* Every outcome the Vault paid is a review the Adjudicator gave, of that milestone's
\* last submission and in view of its last challenge: no money moves on the review of
\* a replaced submission or of another milestone, or before a challenge is answered.
MilestonePaymentsFounded ==
    \A m \in Milestone, id \in ReviewId, r \in 1..3 :
        log[m] = <<V!E!VerdictApplied(id, r)>> =>
            /\ id \in DOMAIN receipts /\ reviews[id] = receipts[id]
            /\ receipts[id].milestone = m
            /\ receipts[id].version = milestones[m].version
            /\ receipts[id].challenges = Len(milestones[m].challenges)
            /\ receipts[id].rule = r

\* What a review is about and what the Vault pays, together.
THEOREM MilestonePaymentsAreFounded == Spec => []MilestonePaymentsFounded
<1>1. ReviewIsCurrent /\ PaidAsReviewed => MilestonePaymentsFounded
  BY DEF ReviewIsCurrent, PaidAsReviewed, MilestonePaymentsFounded
<1> QED BY <1>1, ReviewAlwaysCurrent, OutcomeIsReviewed, PTL

-----------------------------------------------------------------------------
(***************************************************************************)
(* What the Registry waits for: the safety part of AnswerIsTaken, which    *)
(* the fairness of DeliverAnswer turns into liveness.                      *)
(***************************************************************************)

Asks(msg, m) == msg.type = "review" /\ msg.milestone = m
IsAnswer(msg, m, request) ==
    msg.type = "answer" /\ msg.milestone = m /\ msg.request = request

\* A decision comes with its consequence.
RuleFits(result) == result.code = "" => result.rule = R!DecisionRule[result.decision]

\* A result record_review does not refuse while milestone m, in state r, is pending.
Acceptable(r, result) ==
    /\ result.version = r.version
    /\ result.challenges = Len(r.challenges)
    /\ RuleFits(result)
    /\ result.code = "" => reviews[result.review] = <<>>

\* Requests are counted up: none under way and no result is of a later one, and those
\* of the request under way are about the submission and the challenges that stand.
Requested(m, r) ==
    /\ \A q \in 1..MaxRequest : results[m][q] # <<>> => q <= r.request
    /\ \A msg \in net : Asks(msg, m) =>
        /\ msg.request <= r.request
        /\ r.status = "REVIEW_PENDING" /\ msg.request = r.request =>
            /\ msg.context.version = r.version
            /\ msg.context.challenges = Len(r.challenges)
    /\ r.status = "REVIEW_PENDING" /\ results[m][r.request] # <<>> =>
        /\ Acceptable(r, results[m][r.request])
        /\ \E msg \in net : IsAnswer(msg, m, r.request)

\* The reviews the Registry holds are among those the Adjudicator gave.
ReviewsGiven ==
    \A id \in ReviewId : reviews[id] # <<>> =>
        id \in DOMAIN receipts /\ reviews[id] = receipts[id]

AInv ==
    /\ IInv
    /\ \A m \in Milestone : Requested(m, milestones[m])
    /\ ReviewsGiven

\* Once the Adjudicator has given the answer the Registry waits for, it is under way,
\* and every copy of it is one record_review takes.
AwaitedAnswerStands ==
    \A m \in Milestone :
        LET request == milestones[m].request
        IN  milestones[m].status = "REVIEW_PENDING" /\ results[m][request] # <<>> =>
                /\ \E msg \in net : IsAnswer(msg, m, request)
                /\ \A msg \in net : IsAnswer(msg, m, request) =>
                    \/ R!RepairAccepted(m, request, msg.result.code)
                    \/ R!ResultAccepted(m, request, msg.result)

\* The request a milestone waits for is one of those counted.
LEMMA PendingRequest ==
    ASSUME IInv, NEW m \in Milestone, milestones[m].status = "REVIEW_PENDING"
    PROVE  milestones[m].request \in 1..MaxRequest
<1>1. milestones[m].request \in Nat /\ Sound(m, milestones[m])
  BY MilestoneState
<1>2. milestones[m].request # 0 /\ milestones[m].request <= MaxRequest
  BY <1>1 DEF Sound
<1> QED BY <1>1, <1>2, MaxRequestType

\* A milestone that is not asked anew, and that waits only if it did before, for a
\* review of the same submission and the same challenges.
Rests(m) ==
    /\ milestones'[m].request = milestones[m].request
    /\ milestones'[m].status = "REVIEW_PENDING" =>
        /\ milestones[m].status = "REVIEW_PENDING"
        /\ milestones'[m].version = milestones[m].version
        /\ Len(milestones'[m].challenges) = Len(milestones[m].challenges)

\* No request is sent and no answer is lost.
Silent ==
    /\ \A msg \in net' : msg.type = "review" => msg \in net
    /\ \A msg \in net : msg.type = "answer" => msg \in net'

\* What was requested of a milestone that rests stands.
LEMMA RequestedStands ==
    ASSUME IInv, NEW m \in Milestone, Requested(m, milestones[m]), Rests(m), results' = results,
           \A msg \in net' : Asks(msg, m) => msg \in net,
           milestones'[m].status = "REVIEW_PENDING" =>
               /\ \A msg \in net : IsAnswer(msg, m, milestones[m].request) => msg \in net'
               /\ LET result == results[m][milestones[m].request]
                  IN  result # <<>> /\ result.code = "" =>
                          reviews'[result.review] = reviews[result.review]
    PROVE  Requested(m, milestones[m])'
<1> DEFINE o == milestones[m]
           r == milestones'[m]
<1>1. /\ r.request = o.request
      /\ r.status = "REVIEW_PENDING" =>
            /\ o.status = "REVIEW_PENDING" /\ r.version = o.version
            /\ Len(r.challenges) = Len(o.challenges)
  BY DEF Rests
<1>2. \A q \in 1..MaxRequest : results'[m][q] # <<>> => q <= r.request
  BY <1>1 DEF Requested
<1>3. \A msg \in net' : Asks(msg, m) =>
        /\ msg.request <= r.request
        /\ r.status = "REVIEW_PENDING" /\ msg.request = r.request =>
            /\ msg.context.version = r.version
            /\ msg.context.challenges = Len(r.challenges)
  BY <1>1 DEF Requested
<1>4. ASSUME r.status = "REVIEW_PENDING", results'[m][r.request] # <<>>
      PROVE  /\ Acceptable(milestones[m], results[m][milestones[m].request])'
             /\ \E msg \in net' : IsAnswer(msg, m, r.request)
  <2>1. /\ Acceptable(o, results[m][o.request])
        /\ \E msg \in net : IsAnswer(msg, m, o.request)
    BY <1>1, <1>4 DEF Requested
  <2>2. results'[m][r.request] = results[m][o.request]
    BY <1>1
  <2>3. Acceptable(milestones[m], results[m][milestones[m].request])'
    BY <1>1, <1>4, <2>1, <2>2 DEF Acceptable
  <2> QED BY <1>1, <1>4, <2>1, <2>3
<1> QED BY <1>2, <1>3, <1>4 DEF Requested, Asks, IsAnswer

\* A step that requests nothing and writes neither results nor reviews.
LEMMA SilentStep ==
    ASSUME AInv, IInv', \A m \in Milestone : Rests(m), Silent,
           UNCHANGED <<reviews, results, receipts>>
    PROVE  AInv'
<1>1. ASSUME NEW m \in Milestone PROVE Requested(m, milestones[m])'
  BY RequestedStands DEF AInv, Silent, Asks, IsAnswer
<1> QED BY <1>1 DEF AInv, ReviewsGiven

\* One milestone moves.
LEMMA RestsBut ==
    ASSUME IInv, NEW m \in Milestone, NEW r, milestones' = [milestones EXCEPT ![m] = r],
           r.request = milestones[m].request,
           r.status = "REVIEW_PENDING" =>
               /\ milestones[m].status = "REVIEW_PENDING"
               /\ r.version = milestones[m].version
               /\ r.challenges = milestones[m].challenges
    PROVE  \A k \in Milestone : Rests(k)
BY DEF IInv, Typed, Rests

\* The calls of accounts that send no request.
LEMMA SilentCall ==
    ASSUME AInv, IInv', R!RegistryStep, UNCHANGED <<results, receipts>>,
           ~ \E m \in Milestone :
                \/ R!ResolveMilestone(m)
                \/ \E who \in Account : R!RetryMilestoneReview(m, who) \/ R!ResolveChallenge(m, who)
    PROVE  AInv'
<1>1. reviews' = reviews
  BY DEF R!RegistryStep, R!RegisterAcceptedProject, R!BindAdjudicator, R!BindVault,
     R!CreateMilestone, R!ActivateMilestone, R!RegisterMilestoneInVault, R!SubmitMilestone,
     R!MarkMilestoneReady, R!ChallengeMilestone, R!QueueSettlement, R!RecoverMilestone
<1>2. Silent
  <2>1. \/ net' = net
        \/ \E msg : net' = net \cup {msg} /\ msg.type # "review"
    <3>1. \A m, who : R!RegisterMilestoneInVault(m, who) =>
              net' = net \cup {R!Register(m)} /\ R!Register(m).type # "review"
      BY DEF R!RegisterMilestoneInVault, R!Emit, R!Register
    <3>2. \A m, id : R!QueueSettlement(m, id) =>
              LET msg == R!Outcome(m, id, reviews[id].rule)
              IN  net' = net \cup {msg} /\ msg.type # "review"
      BY DEF R!QueueSettlement, R!Emit, R!Outcome
    <3>3. \A m : R!RecoverMilestone(m) =>
              net' = net \cup {R!Recover(m)} /\ R!Recover(m).type # "review"
      BY DEF R!RecoverMilestone, R!Emit, R!Recover
    <3>4. \/ net' = net
          \/ \E m \in Milestone :
                \/ \E who \in Account : R!RegisterMilestoneInVault(m, who)
                \/ \E id \in ReviewId : R!QueueSettlement(m, id)
                \/ R!RecoverMilestone(m)
      BY DEF R!RegistryStep, R!RegisterAcceptedProject, R!BindAdjudicator, R!BindVault,
         R!CreateMilestone, R!ActivateMilestone, R!SubmitMilestone, R!MarkMilestoneReady,
         R!ChallengeMilestone
    <3> QED BY <3>1, <3>2, <3>3, <3>4
  <2> QED BY <2>1 DEF Silent
<1>3. ASSUME NEW k \in Milestone PROVE Rests(k)
  <2>1. CASE milestones' = milestones
    BY <2>1 DEF Rests
  <2>2. ASSUME NEW m \in Milestone, NEW who \in Account,
               \/ R!CreateMilestone(m, who) \/ R!ActivateMilestone(m, who)
               \/ R!SubmitMilestone(m, who) \/ R!MarkMilestoneReady(m, who)
               \/ R!ChallengeMilestone(m, who)
        PROVE  Rests(k)
    <3>0. /\ milestones[m] \in R!MilestoneRecord /\ Sound(m, milestones[m])
      BY MilestoneState DEF AInv
    <3>1. CASE R!CreateMilestone(m, who)
      <4> DEFINE r == [R!NoMilestone EXCEPT !.status = "DRAFT", !.owner = who,
                                   !.baseline = accepted[Agreed[m].project].baseline]
      <4>1. /\ milestones' = [milestones EXCEPT ![m] = r] /\ milestones[m].request = 0
            /\ r.request = 0 /\ r.status = "DRAFT"
        BY <3>0, <3>1 DEF R!CreateMilestone, R!NoMilestone, Sound
      <4> HIDE DEF r
      <4> QED BY <4>1, RestsBut DEF AInv
    <3>2. CASE R!ActivateMilestone(m, who)
      <4> DEFINE r == [milestones[m] EXCEPT !.status = "ACTIVE"]
      <4>1. /\ milestones' = [milestones EXCEPT ![m] = r] /\ r.request = milestones[m].request
            /\ r.status = "ACTIVE"
        BY <3>0, <3>2 DEF R!ActivateMilestone, R!MilestoneRecord
      <4> HIDE DEF r
      <4> QED BY <4>1, RestsBut DEF AInv
    <3>3. CASE R!SubmitMilestone(m, who)
      <4> DEFINE r == [milestones[m] EXCEPT !.version = @ + 1, !.ready = {}, !.text = FALSE,
                          !.reviewQueued = FALSE, !.repair = "", !.status = "SUBMITTED"]
      <4>1. /\ milestones' = [milestones EXCEPT ![m] = r] /\ r.request = milestones[m].request
            /\ r.status = "SUBMITTED"
        BY <3>0, <3>3 DEF R!SubmitMilestone, R!MilestoneRecord
      <4> HIDE DEF r
      <4> QED BY <4>1, RestsBut DEF AInv
    <3>4. CASE R!MarkMilestoneReady(m, who)
      <4> DEFINE r == [milestones[m] EXCEPT !.ready = @ \cup {who}]
      <4>1. /\ milestones' = [milestones EXCEPT ![m] = r] /\ r.request = milestones[m].request
            /\ r.status = "SUBMITTED"
        BY <3>0, <3>4 DEF R!MarkMilestoneReady, R!MilestoneRecord
      <4> HIDE DEF r
      <4> QED BY <4>1, RestsBut DEF AInv
    <3>5. CASE R!ChallengeMilestone(m, who)
      <4> DEFINE r == [milestones[m] EXCEPT !.status = "CHALLENGED", !.text = TRUE,
                                            !.challenges = Append(@, 0)]
      <4>1. /\ milestones' = [milestones EXCEPT ![m] = r] /\ r.request = milestones[m].request
            /\ r.status = "CHALLENGED"
        BY <3>0, <3>5 DEF R!ChallengeMilestone, R!MilestoneRecord
      <4> HIDE DEF r
      <4> QED BY <4>1, RestsBut DEF AInv
    <3> QED BY <2>2, <3>1, <3>2, <3>3, <3>4, <3>5
  <2>3. ASSUME NEW m \in Milestone,
               (\E id \in ReviewId : R!QueueSettlement(m, id)) \/ R!RecoverMilestone(m)
        PROVE  Rests(k)
    <3> DEFINE r == [milestones[m] EXCEPT !.queued = TRUE]
    <3>0. milestones[m] \in R!MilestoneRecord
      BY MilestoneState DEF AInv
    <3>1. /\ milestones' = [milestones EXCEPT ![m] = r] /\ r.request = milestones[m].request
          /\ r.status = milestones[m].status /\ r.version = milestones[m].version
          /\ r.challenges = milestones[m].challenges
      BY <2>3, <3>0 DEF R!QueueSettlement, R!RecoverMilestone, R!MilestoneRecord
    <3> HIDE DEF r
    <3> QED BY <3>1, RestsBut DEF AInv
  <2>4. \A m \in Milestone, who \in Account :
            R!RegisterMilestoneInVault(m, who) => milestones' = milestones
    BY DEF R!RegisterMilestoneInVault
  <2>5. \/ milestones' = milestones
        \/ \E m \in Milestone, who \in Account :
               \/ R!CreateMilestone(m, who) \/ R!ActivateMilestone(m, who)
               \/ R!SubmitMilestone(m, who) \/ R!MarkMilestoneReady(m, who)
               \/ R!ChallengeMilestone(m, who)
        \/ \E m \in Milestone :
               (\E id \in ReviewId : R!QueueSettlement(m, id)) \/ R!RecoverMilestone(m)
    BY <2>4 DEF R!RegistryStep, R!RegisterAcceptedProject, R!BindAdjudicator, R!BindVault
  <2> QED BY <2>1, <2>2, <2>3, <2>5
<1> QED BY <1>1, <1>2, <1>3, SilentStep

\* A request: the first of a review, or the same one sent again.
LEMMA RequestCall ==
    ASSUME AInv, IInv', UNCHANGED <<results, receipts>>, NEW m \in Milestone,
           \/ R!ResolveMilestone(m)
           \/ \E who \in Account : R!RetryMilestoneReview(m, who) \/ R!ResolveChallenge(m, who)
    PROVE  AInv'
<1> DEFINE o == milestones[m]
           r == milestones'[m]
<1>0. /\ o \in R!MilestoneRecord /\ Sound(m, o) /\ o.request \in Nat /\ MaxRequest \in Nat
      /\ o.challenges \in Seq(Nat)
  BY MilestoneState DEF AInv
<1>1. PICK q, attempt, context :
            /\ net' = net \cup {R!ReviewRequest(m, q, attempt, context)}
            /\ q = r.request
            /\ context.version = r.version /\ context.challenges = Len(r.challenges)
            /\ \/ q = o.request + 1 /\ q \in 1..MaxRequest
               \/ r = o /\ q = o.request
            /\ \A k \in Milestone \ {m} : milestones'[k] = milestones[k]
            /\ reviews' = reviews
  <2>1. CASE R!ResolveMilestone(m) \/ \E who \in Account : R!ResolveChallenge(m, who)
    <3>1. PICK text : R!QueueReview(m, text)
      BY <2>1 DEF R!ResolveMilestone, R!ResolveChallenge
    <3> DEFINE s == [o EXCEPT !.request = o.request + 1, !.reviewQueued = TRUE,
                              !.status = "REVIEW_PENDING"]
               context == R!ReviewContext(m, text)
    <3>2. /\ milestones' = [milestones EXCEPT ![m] = s] /\ o.request + 1 <= MaxRequest
          /\ net' = net \cup {R!ReviewRequest(m, o.request + 1, 1, context)}
          /\ reviews' = reviews
      BY <3>1 DEF R!QueueReview, R!Emit
    <3>3. /\ s.request = o.request + 1 /\ s.version = o.version /\ s.challenges = o.challenges
          /\ context.version = o.version /\ context.challenges = Len(o.challenges)
      BY <1>0 DEF R!MilestoneRecord, R!ReviewContext
    <3> HIDE DEF s, context
    <3>4. /\ r = s /\ \A k \in Milestone \ {m} : milestones'[k] = milestones[k]
      BY <3>2 DEF AInv, IInv, Typed
    <3>5. o.request + 1 \in 1..MaxRequest
      BY <1>0, <3>2
    <3> QED BY <3>2, <3>3, <3>4, <3>5
  <2>2. CASE \E who \in Account : R!RetryMilestoneReview(m, who)
    <3> DEFINE context == R!ReviewContext(m, o.text)
    <3>1. /\ milestones' = milestones /\ reviews' = reviews
          /\ net' = net \cup {R!ReviewRequest(m, o.request, attempts[m] + 1, context)}
      BY <2>2 DEF R!RetryMilestoneReview, R!Emit
    <3>2. context.version = o.version /\ context.challenges = Len(o.challenges)
      BY DEF R!ReviewContext
    <3> HIDE DEF context
    <3> QED BY <3>1, <3>2
  <2> QED BY <2>1, <2>2
<1> DEFINE msg == R!ReviewRequest(m, q, attempt, context)
<1>2. msg.type = "review" /\ msg.milestone = m /\ msg.request = q /\ msg.context = context
  BY DEF R!ReviewRequest
<1> HIDE DEF msg
<1>3. ASSUME NEW k \in Milestone, k # m PROVE Requested(k, milestones[k])'
  <2>1. Rests(k)
    BY <1>1, <1>3 DEF Rests
  <2>2. \A other \in net' : Asks(other, k) => other \in net
    BY <1>1, <1>2, <1>3 DEF Asks, msg
  <2> QED BY <1>1, <2>1, <2>2, RequestedStands DEF AInv
<1>4. CASE r = o
  <2>1. Requested(m, o)
    BY DEF AInv
  <2>2. /\ q <= o.request
        /\ net' = net \cup {msg} /\ results' = results /\ reviews' = reviews /\ r = o
    BY <1>0, <1>1, <1>4 DEF msg
  <2>3. Requested(m, milestones[m])'
    <3>1. \A other \in net' : Asks(other, m) =>
            /\ other.request <= r.request
            /\ r.status = "REVIEW_PENDING" /\ other.request = r.request =>
                /\ other.context.version = r.version
                /\ other.context.challenges = Len(r.challenges)
      BY <1>1, <1>2, <2>1, <2>2 DEF Requested
    <3> QED BY <2>1, <2>2, <3>1 DEF Requested, Asks, IsAnswer, Acceptable
  <2> QED BY <1>1, <1>3, <2>3 DEF AInv, ReviewsGiven
<1>5. CASE q = o.request + 1 /\ q \in 1..MaxRequest
  <2>1. Requested(m, o)
    BY DEF AInv
  <2>2. /\ net' = net \cup {msg} /\ results' = results /\ reviews' = reviews /\ q = r.request
    BY <1>1 DEF msg
  <2>3. results[m][q] = <<>>
    BY <1>0, <1>5, <2>1 DEF Requested
  <2>4. \A p \in 1..MaxRequest : results[m][p] # <<>> => p <= q
    BY <1>0, <1>5, <2>1 DEF Requested
  <2>5. \A other \in net : Asks(other, m) => other.request <= q /\ other.request # q
    <3> SUFFICES ASSUME NEW other \in net, Asks(other, m)
                 PROVE  other.request <= q /\ other.request # q
      OBVIOUS
    <3>1. other.request <= o.request /\ other.request \in 1..MaxRequest
      BY <2>1 DEF Requested, AInv, IInv, Genuine, Asks
    <3> QED BY <1>0, <1>5, <3>1
  <2>6. q <= q
    BY <1>0, <1>5
  <2>7. Requested(m, milestones[m])'
    <3>1. \A other \in net' : Asks(other, m) =>
            /\ other.request <= r.request
            /\ r.status = "REVIEW_PENDING" /\ other.request = r.request =>
                /\ other.context.version = r.version
                /\ other.context.challenges = Len(r.challenges)
      BY <1>1, <1>2, <2>2, <2>5, <2>6
    <3> QED BY <2>2, <2>3, <2>4, <3>1 DEF Requested, Asks
  <2> QED BY <1>1, <1>3, <2>7 DEF AInv, ReviewsGiven
<1> QED BY <1>1, <1>4, <1>5

LEMMA ReceiptsFitNext == IInv' => (DOMAIN receipts \subseteq ReviewId)'
<1>1. IInv => DOMAIN receipts \subseteq ReviewId
  BY ReceiptsFit DEF IInv, Typed, ReceiptsCached
<1> QED BY <1>1, PTL

\* The Adjudicator gives its first result for a request; it is fit to be recorded.
LEMMA ResultGiven ==
    ASSUME AInv, IInv', NEW msg \in net, msg.type = "review", NEW result \in Answers,
           results[msg.milestone][msg.request] = <<>>,
           A!Record(msg, result),
           ReceiptAdded(result, Receipt(msg.milestone, msg.request, result)),
           result.version = msg.context.version, result.challenges = msg.context.challenges,
           RuleFits(result),
           UNCHANGED <<milestones, reviews>>
    PROVE  AInv'
<1> DEFINE m == msg.milestone
           q == msg.request
           answer == A!Answer(m, q, msg.attempt, result)
<1>1. m \in Milestone /\ q \in 1..MaxRequest /\ q \in Nat
  <2>1. m \in Milestone /\ q \in 1..MaxRequest
    BY DEF AInv, IInv, Genuine
  <2> QED BY <2>1, MaxRequestType
<1>2. /\ results'[m][q] = result
      /\ \A k \in Milestone, p \in 1..MaxRequest :
            k # m \/ p # q => results'[k][p] = results[k][p]
  BY <1>1 DEF AInv, IInv, Typed, A!Record
<1>3. net' = (net \ {msg}) \cup {answer}
  BY DEF A!Record, A!Reply
<1>4. answer.type = "answer" /\ answer.milestone = m /\ answer.request = q
  BY DEF A!Answer
<1> HIDE DEF answer
<1>5. ReviewsGiven' /\ (result.code = "" => reviews[result.review] = <<>>)
  <2>1. /\ DOMAIN receipts \subseteq DOMAIN receipts'
        /\ \A i \in DOMAIN receipts : receipts'[i] = receipts[i]
        /\ result.code = "" => result.review \in DOMAIN receipts' /\ result.review \notin DOMAIN receipts
    <3>1. receipts \in Seq(R!Review)
      BY DEF AInv, IInv, Typed
    <3>2. Receipt(m, q, result) \in R!Review
      BY <1>1 DEF Receipt, Answers, R!Review, R!Rule
    <3>3. /\ DOMAIN receipts \subseteq DOMAIN receipts'
          /\ \A i \in DOMAIN receipts : receipts'[i] = receipts[i]
          /\ result.code = "" => result.review \in DOMAIN receipts'
      BY <3>1, <3>2, ReceiptsExtended
    <3>4. Len(receipts) + 1 \notin DOMAIN receipts
      <4>1. Len(receipts) \in Nat /\ DOMAIN receipts = 1..Len(receipts)
        BY <3>1, <3>2, AppendFacts
      <4> QED BY <4>1
    <3> QED BY <3>3, <3>4 DEF ReceiptAdded
  <2>2. DOMAIN receipts' \subseteq ReviewId
    BY ReceiptsFitNext
  <2> QED BY <2>1, <2>2 DEF AInv, ReviewsGiven
<1>6. ASSUME NEW k \in Milestone PROVE Requested(k, milestones[k])'
  <2> DEFINE o == milestones[k]
  <2>1. Requested(k, o) /\ o.request \in Nat /\ milestones' = milestones /\ reviews' = reviews
    BY MilestoneState DEF AInv
  <2>2. CASE k = m
    <3>1. /\ q <= o.request
          /\ o.status = "REVIEW_PENDING" /\ q = o.request =>
                result.version = o.version /\ result.challenges = Len(o.challenges)
      BY <2>1, <2>2 DEF Requested, Asks
    <3>2. \A p \in 1..MaxRequest : results'[k][p] # <<>> => p <= o.request
      BY <1>2, <2>1, <2>2, <3>1 DEF Requested
    <3>3. ASSUME o.status = "REVIEW_PENDING", results'[k][o.request] # <<>>
          PROVE  /\ Acceptable(o, results'[k][o.request])
                 /\ \E other \in net' : IsAnswer(other, k, o.request)
      <4>0. o.request \in 1..MaxRequest
        BY <3>3, PendingRequest DEF AInv
      <4>1. CASE q = o.request
        <5>1. Acceptable(o, result)
          BY <1>5, <3>1, <3>3, <4>1 DEF Acceptable
        <5> QED BY <1>2, <1>3, <1>4, <2>2, <4>1, <5>1 DEF IsAnswer
      <4>2. CASE q # o.request
        <5>1. results'[k][o.request] = results[k][o.request]
          BY <1>2, <4>0, <4>2
        <5>2. /\ Acceptable(o, results[k][o.request])
              /\ \E other \in net : IsAnswer(other, k, o.request)
          BY <2>1, <3>3, <5>1 DEF Requested
        <5> QED BY <1>3, <5>1, <5>2 DEF IsAnswer
      <4> QED BY <4>1, <4>2
    <3>4. \A other \in net' : Asks(other, k) => other \in net
      BY <1>3, <1>4 DEF Asks
    <3> QED BY <2>1, <3>2, <3>3, <3>4 DEF Requested, Asks, IsAnswer, Acceptable
  <2>3. CASE k # m
    <3>1. \A p \in 1..MaxRequest : results'[k][p] = results[k][p]
      BY <1>2, <2>3
    <3>2. \A other \in net' : Asks(other, k) => other \in net
      BY <1>3, <1>4 DEF Asks
    <3>3. \A other \in net : IsAnswer(other, k, o.request) => other \in net'
      BY <1>3 DEF IsAnswer
    <3>4. o.status = "REVIEW_PENDING" => o.request \in 1..MaxRequest
      BY PendingRequest DEF AInv
    <3> QED BY <2>1, <3>1, <3>2, <3>3, <3>4 DEF Requested, Asks, IsAnswer, Acceptable
  <2> QED BY <2>2, <2>3
<1> QED BY <1>5, <1>6 DEF AInv

LEMMA ReviewAInv ==
    ASSUME AInv, IInv', NEW msg \in net, DeliverReview(msg)
    PROVE  AInv'
<1>1. /\ msg.type = "review" /\ A!ReviewMilestone(msg) /\ UNCHANGED <<milestones, reviews>>
      /\ msg.milestone \in Milestone /\ msg.request \in 1..MaxRequest
      /\ msg.context.version \in Nat /\ msg.context.challenges \in Nat
  BY DEF DeliverReview, registryVars, AInv, IInv, Genuine
<1>2. \A m \in Milestone : Rests(m)
  BY <1>1 DEF Rests
<1>3. CASE A!ReviewFails(msg)
  <2>1. PICK code \in Failures : A!Record(msg, A!RepairResult(msg.context, code))
    BY <1>3 DEF A!ReviewFails
  <2> DEFINE result == A!RepairResult(msg.context, code)
  <2>2. result \in Answers /\ result.code = code /\ code # ""
    <3>1. code \in R!RepairCode /\ code # ""
      BY SystemFacts DEF R!RepairCode
    <3> QED BY <1>1, <3>1, RepairResultType
  <2>3. /\ results[msg.milestone][msg.request] = <<>>
        /\ ReceiptAdded(result, Receipt(msg.milestone, msg.request, result))
    BY <1>3, <2>2 DEF A!ReviewFails, A!NotYetAnswered, ReceiptAdded
  <2>4. result.version = msg.context.version /\ result.challenges = msg.context.challenges
    BY DEF A!RepairResult
  <2>5. A!Record(msg, result) /\ RuleFits(result)
    BY <2>1, <2>2 DEF RuleFits
  <2> HIDE DEF result
  <2> QED BY <1>1, <2>2, <2>3, <2>4, <2>5, ResultGiven
<1>4. CASE A!ReviewSucceeds(msg)
  <2>1. PICK decision \in Decisions :
            /\ A!Record(msg, A!ReviewResult(msg.context, Len(receipts) + 1, decision))
            /\ receipts' = Append(receipts,
                 [milestone |-> msg.milestone, request |-> msg.request,
                  version |-> msg.context.version, challenges |-> msg.context.challenges,
                  rule |-> A!Consequence(decision)])
    BY <1>4 DEF A!ReviewSucceeds
  <2> DEFINE result == A!ReviewResult(msg.context, Len(receipts) + 1, decision)
  <2>2. Len(receipts) \in Nat /\ decision \in {"PASS", "FAIL", "UNDETERMINED"}
        /\ A!Consequence(decision) \in 1..3
        /\ A!Consequence(decision) = R!DecisionRule[decision]
    BY SystemFacts DEF R!DecisionRule, AInv, IInv, Typed, A!Consequence
  <2>3. result \in Answers /\ result.code = "" /\ result.review = Len(receipts) + 1
    BY <1>1, <2>2 DEF A!ReviewResult, Answers
  <2>4. ReceiptAdded(result, Receipt(msg.milestone, msg.request, result))
    BY <2>1, <2>3 DEF Receipt, A!ReviewResult, ReceiptAdded
  <2>5. results[msg.milestone][msg.request] = <<>>
    BY <1>4 DEF A!ReviewSucceeds, A!NotYetAnswered
  <2>6. /\ result.version = msg.context.version /\ result.challenges = msg.context.challenges
        /\ result.decision = decision /\ result.rule = A!Consequence(decision)
    BY DEF A!ReviewResult
  <2>7. A!Record(msg, result) /\ RuleFits(result)
    BY <2>1, <2>2, <2>6 DEF RuleFits
  <2> HIDE DEF result
  <2> QED BY <1>1, <2>2, <2>3, <2>4, <2>5, <2>6, <2>7, ResultGiven
<1>5. CASE A!ReviewAborted(msg) \/ A!ReviewRepeated(msg)
  <2>1. Silent /\ UNCHANGED <<reviews, results, receipts>>
    BY <1>1, <1>5 DEF A!ReviewAborted, A!ReviewRepeated, A!Reply, A!Answer, A!adjudicatorVars, Silent
  <2> QED BY <1>2, <2>1, SilentStep
<1> QED BY <1>1, <1>3, <1>4, <1>5 DEF A!ReviewMilestone

\* An answer that is awaited is taken: none is ignored.
LEMMA AwaitedIsTaken ==
    ASSUME AInv, NEW m \in Milestone, milestones[m].status = "REVIEW_PENDING",
           NEW msg \in net, IsAnswer(msg, m, milestones[m].request)
    PROVE  \/ R!RepairAccepted(m, milestones[m].request, msg.result.code)
           \/ R!ResultAccepted(m, milestones[m].request, msg.result)
<1>1. /\ msg.result = results[m][milestones[m].request] /\ msg.result # <<>>
  BY DEF AInv, IInv, Genuine, IsAnswer
<1>2. Acceptable(milestones[m], msg.result)
  BY <1>1 DEF AInv, Requested
<1>3. R!Awaited(m, milestones[m].request)
  BY DEF R!Awaited
<1> QED BY <1>2, <1>3 DEF Acceptable, RuleFits, R!RepairAccepted, R!ResultAccepted

LEMMA AnswerAInv ==
    ASSUME AInv, IInv', NEW msg \in net, DeliverAnswer(msg)
    PROVE  AInv'
<1> DEFINE m == msg.milestone
           o == milestones[m]
           q == msg.request
<1>1. /\ msg.type = "answer" /\ net' = net \ {msg} /\ UNCHANGED <<results, receipts>>
  BY DEF DeliverAnswer, A!adjudicatorVars, adjudicatorVars
<1>2. /\ m \in Milestone /\ q \in 1..MaxRequest /\ msg.result \in Answers
      /\ msg.result.code = "" =>
            /\ msg.result.review \in DOMAIN receipts /\ msg.result.review \in ReviewId
            /\ receipts[msg.result.review] = Receipt(m, q, msg.result)
  BY <1>1, AnswerState DEF AInv
<1>3. o \in R!MilestoneRecord
  BY <1>2, MilestoneState DEF AInv
\* The milestone leaves REVIEW_PENDING, or its answer is still there; the others rest.
<1>4. ASSUME \A k \in Milestone : Rests(k),
             milestones'[m].status = "REVIEW_PENDING" => q # o.request,
             NEW k \in Milestone,
             k # m => \A p \in 1..MaxRequest :
                LET result == results[k][p]
                IN  result # <<>> /\ result.code = "" =>
                        reviews'[result.review] = reviews[result.review],
             milestones'[m].status = "REVIEW_PENDING" => reviews' = reviews
      PROVE  Requested(k, milestones[k])'
  <2>1. \A other \in net' : Asks(other, k) => other \in net
    BY <1>1
  <2>2. milestones'[k].status = "REVIEW_PENDING" =>
            \A other \in net : IsAnswer(other, k, milestones[k].request) => other \in net'
    BY <1>1, <1>4 DEF IsAnswer
  <2>3. milestones'[k].status = "REVIEW_PENDING" => milestones[k].request \in 1..MaxRequest
    BY <1>4, PendingRequest DEF Rests, AInv
  <2>4. milestones'[k].status = "REVIEW_PENDING" =>
            LET result == results[k][milestones[k].request]
            IN  result # <<>> /\ result.code = "" =>
                    reviews'[result.review] = reviews[result.review]
    BY <1>4, <2>3
  <2>5. Requested(k, milestones[k]) /\ Rests(k) /\ IInv
    BY <1>4 DEF AInv
  <2> QED BY <1>1, <2>1, <2>2, <2>4, <2>5, RequestedStands
<1>5. CASE R!RecordRepair(m, q, msg.result.code)
  <2> DEFINE r == [o EXCEPT !.status = "REPAIR_REQUIRED", !.reviewQueued = FALSE,
                            !.repair = msg.result.code]
  <2>1. /\ milestones' = [milestones EXCEPT ![m] = r] /\ reviews' = reviews
        /\ r.request = o.request /\ r.status = "REPAIR_REQUIRED"
    BY <1>3, <1>5 DEF R!RecordRepair, R!MilestoneRecord
  <2> HIDE DEF r
  <2>2. milestones'[m].status # "REVIEW_PENDING"
    BY <1>2, <2>1 DEF AInv, IInv, Typed
  <2>3. \A k \in Milestone : Rests(k)
    BY <1>2, <2>1, RestsBut DEF AInv
  <2> QED BY <1>1, <1>4, <2>1, <2>2, <2>3 DEF AInv, ReviewsGiven
<1>6. CASE R!RecordReview(m, q, msg.result)
  <2> DEFINE id == msg.result.review
             r == [o EXCEPT !.status = "REVIEWED", !.reviewQueued = FALSE,
                            !.review = id, !.queued = FALSE, !.repair = "",
                            !.challengeDeadline = now + Agreed[m].challengeWindow,
                            !.challenges = R!Resolved(@, id)]
  <2>1. /\ milestones' = [milestones EXCEPT ![m] = r] /\ msg.result.code = ""
        /\ reviews' = [reviews EXCEPT ![id] = Receipt(m, q, msg.result)]
        /\ r.request = o.request /\ r.status = "REVIEWED"
    BY <1>3, <1>6 DEF R!RecordReview, R!ResultAccepted, R!MilestoneRecord, Receipt
  <2> HIDE DEF r
  <2>2. milestones'[m].status # "REVIEW_PENDING"
    BY <1>2, <2>1 DEF AInv, IInv, Typed
  <2>3. \A k \in Milestone : Rests(k)
    BY <1>2, <2>1, RestsBut DEF AInv
  <2>4. /\ reviews'[id] = receipts[id] /\ id \in DOMAIN receipts
        /\ \A i \in ReviewId \ {id} : reviews'[i] = reviews[i]
    BY <1>2, <2>1 DEF AInv, IInv, Typed
  <2>5. ReviewsGiven'
    BY <1>1, <2>4 DEF AInv, ReviewsGiven
  <2>6. ASSUME NEW k \in Milestone, k # m, NEW p \in 1..MaxRequest,
               results[k][p] # <<>>, results[k][p].code = ""
        PROVE  reviews'[results[k][p].review] = reviews[results[k][p].review]
    <3>1. /\ results[k][p].review \in DOMAIN receipts
          /\ receipts[results[k][p].review] = Receipt(k, p, results[k][p])
      BY <2>6 DEF AInv, IInv, ResultsBacked
    <3>2. results[k][p].review # id
      <4>1. receipts[id].milestone = m
        <5>1. receipts[id] = Receipt(m, q, msg.result)
          BY <1>2, <2>1
        <5> QED BY <5>1 DEF Receipt
      <4>2. receipts[results[k][p].review].milestone = k
        BY <3>1 DEF Receipt
      <4> QED BY <2>6, <4>1, <4>2
    <3>3. DOMAIN receipts \subseteq ReviewId
      BY ReceiptsFit DEF AInv, IInv, Typed, ReceiptsCached
    <3> QED BY <2>4, <3>1, <3>2, <3>3
  <2>7. \A k \in Milestone : Requested(k, milestones[k])'
    BY <1>4, <2>2, <2>3, <2>6
  <2> QED BY <2>5, <2>7 DEF AInv
<1>7. CASE R!AnswerIgnored(m, q, msg.result)
  <2>1. milestones' = milestones /\ reviews' = reviews
    BY <1>7 DEF R!AnswerIgnored
  <2>2. o.status = "REVIEW_PENDING" => q # o.request
    BY <1>1, <1>2, <1>7, AwaitedIsTaken DEF R!AnswerIgnored, IsAnswer
  <2>3. \A k \in Milestone : Rests(k)
    BY <2>1 DEF Rests
  <2> QED BY <1>1, <1>4, <2>1, <2>2, <2>3 DEF AInv, ReviewsGiven
<1> QED BY <1>5, <1>6, <1>7 DEF DeliverAnswer

LEMMA NextAInv == AInv /\ [Next]_vars => AInv'
<1> SUFFICES ASSUME AInv, [Next]_vars PROVE AInv'
  OBVIOUS
<1>1. IInv'
  BY NextIInv DEF AInv
<1>2. CASE \/ UNCHANGED vars \/ Tick \/ VaultCall \/ VaultReturns
           \/ \E msg \in net : DeliverRegister(msg) \/ DeliverOutcome(msg) \/ DeliverRecover(msg)
  <2>1. UNCHANGED <<net, milestones, reviews, results, receipts>>
    BY <1>2 DEF vars, Tick, VaultCall, VaultReturns, DeliverRegister, DeliverOutcome,
       DeliverRecover, registryVars, adjudicatorVars
  <2> QED BY <1>1, <2>1, SilentStep DEF Rests, Silent
<1>3. CASE RegistryCall
  <2>1. R!RegistryStep /\ UNCHANGED <<results, receipts>>
    BY <1>3 DEF RegistryCall, adjudicatorVars
  <2> QED BY <1>1, <2>1, SilentCall, RequestCall
<1>4. CASE \E msg \in net : DeliverReview(msg)
  BY <1>1, <1>4, ReviewAInv
<1>5. CASE \E msg \in net : DeliverAnswer(msg)
  BY <1>1, <1>5, AnswerAInv
<1> QED BY <1>2, <1>3, <1>4, <1>5 DEF Next

LEMMA InitAInv == Init => AInv
<1> SUFFICES ASSUME Init PROVE AInv
  OBVIOUS
<1>1. IInv
  BY InitIInv
<1>2. /\ net = {} /\ milestones = [m \in Milestone |-> R!NoMilestone]
      /\ results = [m \in Milestone |-> [request \in 1..MaxRequest |-> <<>>]]
      /\ reviews = [id \in ReviewId |-> <<>>]
  BY DEF Init, R!Init, A!Init
<1>3. ASSUME NEW m \in Milestone PROVE Requested(m, milestones[m])
  BY <1>2 DEF Requested, R!NoMilestone
<1> QED BY <1>1, <1>2, <1>3 DEF AInv, ReviewsGiven

\* While the Registry waits for a request the Adjudicator has answered, an answer is
\* under way and record_review takes whichever copy comes first, for any number of
\* milestones, requests and challenges.
THEOREM AwaitedAnswersStand == Spec => []AwaitedAnswerStands
<1>1. AInv => AwaitedAnswerStands
  BY AwaitedIsTaken DEF AwaitedAnswerStands, AInv, Requested
<1> QED BY <1>1, InitAInv, NextAInv, PTL DEF Spec

-----------------------------------------------------------------------------
(***************************************************************************)
(* The Milestone Vault is an EscrowVault whose cases are the reviews: what *)
(* is proved of that module holds of the money of the milestones too.      *)
(***************************************************************************)

\* The log whose first event applied the outcome of review id.
Applies(id, events) ==
    events # <<>> /\ Head(events).kind = "VerdictApplied" /\ Head(events).case = id

\* The reviews whose outcome was applied: no state of this Vault, but what
\* processedCases of the other one would be.
Applied == {id \in ReviewId : \E m \in Milestone : Applies(id, log[m])}

B == INSTANCE EscrowVaultProofs
    WITH Handoff <- Milestone, Case <- ReviewId, Binding <- Baseline,
         Offered <- V!E!Terms, processed <- Applied

\* What EscrowVault assumes of its constants holds of the constants it gets here.
LEMMA VaultAssumptions == B!FiniteAssumption /\ B!OfferedAssumption
BY SystemFacts DEF B!FiniteAssumption, B!OfferedAssumption, V!E!Terms, B!Terms,
   B!IsFiniteSet, IsFiniteSet

\* A step that applies no outcome.
LEMMA NothingApplied ==
    ASSUME \A m \in Milestone, id \in ReviewId : Applies(id, log[m])' <=> Applies(id, log[m])
    PROVE  Applied' = Applied
BY DEF Applied

\* An escrow that expires applies none.
LEMMA ExpiryAppliesNone ==
    ASSUME EscrowSound, NEW m \in Milestone, NEW e, e.kind = "EscrowRecovered",
           log[m] = <<>>, log' = [log EXCEPT ![m] = <<e>>]
    PROVE  Applied' = Applied
<1>1. \A id : ~Applies(id, <<>>) /\ ~Applies(id, <<e>>)
  <2>1. Head(<<e>>) = e
    OBVIOUS
  <2> QED BY <2>1 DEF Applies
<1>2. /\ log'[m] = <<e>>
      /\ \A k \in Milestone \ {m} : log'[k] = log[k]
  BY DEF EscrowSound
<1>3. \A k \in Milestone, id \in ReviewId : Applies(id, log'[k]) <=> Applies(id, log[k])
  BY <1>1, <1>2
<1> QED BY <1>3 DEF Applied, Applies

\* The outcome that stands for m is applied to no other escrow.
LEMMA OutcomeIsFresh ==
    ASSUME SInv, NEW m \in Milestone, NEW id, NEW r, Stands(m, id, r), log[m] = <<>>
    PROVE  id \in ReviewId /\ r \in 1..3 /\ id \notin Applied
<1>1. ASSUME NEW k \in Milestone, NEW i, NEW x, Stands(k, i, x)
      PROVE  i \in ReviewId /\ x \in 1..3 /\ reviews[i].milestone = k
  <2>1. Current(k, milestones[k])
    BY <1>1 DEF SInv, IInv, Sound, Stands
  <2>2. DOMAIN receipts \subseteq ReviewId
    BY ReceiptsFit DEF SInv, IInv, Typed, ReceiptsCached
  <2>3. receipts[i] \in R!Review /\ reviews[i] = receipts[i]
    BY <1>1, <2>1 DEF Current, Stands, SInv, IInv, Typed
  <2> QED BY <1>1, <2>1, <2>2, <2>3 DEF Current, Stands, R!Review, R!Rule
<1>2. ASSUME NEW k \in Milestone, Applies(id, log[k])
      PROVE  FALSE
  <2>1. Stands(k, id, Head(log[k]).rule)
    BY <1>2 DEF SInv, EscrowSound, Closed, Backed, Applies
  <2>2. k = m
    BY <1>1, <2>1
  <2> QED BY <1>2, <2>2 DEF Applies
<1> QED BY <1>1, <1>2 DEF Applied

-----------------------------------------------------------------------------
\* What the accounts and the Registry do to one escrow, outcomes aside.
LEMMA EscrowCalls ==
    ASSUME SInv, NEW m \in Milestone, Applied' = Applied
    PROVE  /\ \A a : V!FundMilestone(m, a) => B!FundHandoff(m, a)
           /\ \A a : V!PostBond(m, a) => B!PostBond(m, a)
           /\ V!RecoverUnactivated(m) => B!RecoverUnactivated(m)
           /\ V!RecoverActive(m) => B!RecoverActive(m)
           /\ \A t : V!RegisterMilestone(m, t) => B!RegisterHandoff(m, t)
BY DEF V!FundMilestone, V!PostBond, V!RecoverUnactivated, V!RecoverActive, V!RegisterMilestone,
   V!E!FundHandoff, V!E!PostBond, V!E!RecoverUnactivated, V!E!RecoverActive, V!E!RegisterHandoff,
   B!FundHandoff, B!PostBond, B!RecoverUnactivated, B!RecoverActive, B!RegisterHandoff,
   V!E!Close, B!Close, V!E!Credit, B!Credit, V!E!EscrowRecovered, B!EscrowRecovered,
   V!E!ValidTerms, B!ValidTerms, V!E!TopLevel, B!TopLevel

\* A withdrawal opens, and returns or fails.
LEMMA WithdrawCalls ==
    ASSUME Applied' = Applied
    PROVE  /\ \A a : V!Withdraw(a) => B!Withdraw(a)
           /\ V!WithdrawReturns => B!WithdrawReturns
           /\ V!WithdrawReverts => B!WithdrawReverts
BY DEF V!Withdraw, V!WithdrawReturns, V!WithdrawReverts, V!E!Withdraw, V!E!WithdrawReturns,
   V!E!WithdrawReverts, B!Withdraw, B!WithdrawReturns, B!WithdrawReverts, V!E!NonReentrant,
   B!NonReentrant, V!E!Saved, B!Saved

\* An outcome that is applied is a verdict of a case not yet processed.
LEMMA OutcomeIsVerdict ==
    ASSUME SInv, Persists, NEW msg \in net, msg.type = "outcome", NEW m \in Milestone,
           m = msg.milestone, NEW digest \in Baseline,
           V!ApplyFinalOutcome(m, digest, msg.review, msg.rule)
    PROVE  B!ControllerMessage(m)
<1> DEFINE id == msg.review
           r == msg.rule
           e == V!E!VerdictApplied(id, r)
<1>1. log[m] = <<>> /\ log' = [log EXCEPT ![m] = <<e>>]
  BY OutcomeApplied DEF SInv
<1>2. id \in ReviewId /\ r \in 1..3 /\ id \notin Applied
  <2>1. Stands(m, id, r)
    BY DEF SInv, InstructionsStand
  <2> QED BY <1>1, <2>1, OutcomeIsFresh
<1>3. e.kind = "VerdictApplied" /\ e.case = id
  BY DEF V!E!VerdictApplied
<1>4. Applied' = Applied \cup {id}
  <2> HIDE DEF e
  <2>1. \A i : ~Applies(i, <<>>) /\ (Applies(i, <<e>>) <=> i = id)
    <3>1. Head(<<e>>) = e /\ <<e>> # <<>>
      OBVIOUS
    <3> QED BY <1>3, <3>1 DEF Applies
  <2>2. /\ log'[m] = <<e>>
        /\ \A k \in Milestone \ {m} : log'[k] = log[k]
    BY <1>1 DEF SInv, EscrowSound
  <2>3. \A i \in ReviewId :
          (\E k \in Milestone : Applies(i, log'[k])) <=>
          (\E k \in Milestone : Applies(i, log[k])) \/ i = id
    BY <1>1, <2>1, <2>2
  <2> QED BY <1>2, <2>3 DEF Applied, Applies
<1>5. B!ApplyFinalVerdict(id, m, digest, r)
  BY <1>2, <1>4 DEF V!ApplyFinalOutcome, V!Applicable, V!TopLevel, V!E!TopLevel,
     B!ApplyFinalVerdict, B!TopLevel, V!E!Close, B!Close, V!E!VerdictApplied, B!VerdictApplied,
     V!E!Consequence, B!Consequence, V!E!Credit, B!Credit, V!E!RELEASE_PROVIDER,
     B!RELEASE_PROVIDER, V!E!PROVIDER_BREACH, B!PROVIDER_BREACH
<1> QED BY <1>2, <1>5 DEF B!ControllerMessage, B!Rule

-----------------------------------------------------------------------------
\* A step that leaves the Vault alone.
LEMMA VaultRests ==
    ASSUME now' = now, UNCHANGED vaultVars
    PROVE  UNCHANGED B!vars
<1>1. Applied' = Applied
  BY DEF vaultVars, Applied, Applies
<1> QED BY <1>1 DEF vaultVars, B!vars

\* Every step of the system is one of the escrow, or none.
LEMMA StepOfEscrow ==
    ASSUME SInv, [Next]_vars
    PROVE  [B!Next]_(B!vars)
<1>0. Persists
  BY NextPersists DEF SInv
<1>1. CASE \/ UNCHANGED vars
           \/ RegistryCall
           \/ \E msg \in net : DeliverReview(msg) \/ DeliverAnswer(msg)
  <2>1. now' = now /\ UNCHANGED vaultVars
    <3>1. R!RegistryStep => now' = now
      BY DEF R!RegistryStep, R!RegisterAcceptedProject, R!BindAdjudicator, R!BindVault,
         R!CreateMilestone, R!ActivateMilestone, R!RegisterMilestoneInVault, R!SubmitMilestone,
         R!MarkMilestoneReady, R!RetryMilestoneReview, R!ChallengeMilestone, R!ResolveChallenge,
         R!ResolveMilestone, R!QueueReview, R!QueueSettlement, R!RecoverMilestone, R!Unaffected
    <3>2. \A msg : DeliverAnswer(msg) => now' = now
      BY DEF DeliverAnswer, R!RecordRepair, R!RecordReview, R!AnswerIgnored, R!Unaffected
    <3> QED BY <1>1, <3>1, <3>2 DEF vars, RegistryCall, DeliverReview, DeliverAnswer
  <2> QED BY <2>1, VaultRests
<1>2. CASE Tick
  <2>1. log' = log
    BY <1>2 DEF Tick, V!Tick, V!E!Tick
  <2>2. Applied' = Applied
    BY <2>1 DEF Applied, Applies
  <2>3. B!Tick
    BY <1>2, <2>2 DEF Tick, V!Tick, V!E!Tick, B!Tick, V!E!TopLevel, B!TopLevel
  <2> QED BY <2>3 DEF B!Next
<1>3. ASSUME NEW m \in Milestone,
             \/ \E a \in Account : V!FundMilestone(m, a) \/ V!PostBond(m, a)
             \/ \E t \in V!E!Terms : V!RegisterMilestone(m, t)
             \/ V!RecoverUnactivated(m)
             \/ V!RecoverActive(m)
      PROVE  B!Next
  <2>1. frames' = frames
    BY <1>3 DEF V!FundMilestone, V!E!FundHandoff, V!PostBond, V!E!PostBond,
       V!RegisterMilestone, V!E!RegisterHandoff, V!RecoverUnactivated,
       V!E!RecoverUnactivated, V!RecoverActive, V!E!RecoverActive
  <2>2. \/ log' = log
        \/ \E e : e.kind = "EscrowRecovered" /\ log[m] = <<>> /\ log' = [log EXCEPT ![m] = <<e>>]
    BY <1>0, <1>3, <2>1, VaultStep DEF SInv
  <2>3. Applied' = Applied
    <3>1. CASE log' = log
      BY <3>1 DEF Applied, Applies
    <3> QED BY <2>2, <3>1, ExpiryAppliesNone DEF SInv
  <2> QED BY <1>3, <2>3, EscrowCalls DEF B!Next, B!AccountCall, B!ControllerMessage
<1>4. CASE \E a \in Withdrawers : V!Withdraw(a)
  <2>1. log' = log
    BY <1>4 DEF V!Withdraw, V!E!Withdraw
  <2>2. Applied' = Applied
    BY <2>1 DEF Applied, Applies
  <2> QED BY <1>4, <2>2, WithdrawCalls, SystemFacts DEF B!Next
<1>5. CASE VaultReturns
  <2>1. /\ frames # <<>>
        /\ log' = log \/ log' = Head(frames).saved.log
    BY <1>0, <1>5, CallEnds DEF SInv, VaultReturns, V!WithdrawReturns, V!WithdrawReverts
  <2>2. Applied' = Applied
    <3>1. CASE log' = log
      BY <3>1 DEF Applied, Applies
    <3>2. CASE log' = Head(frames).saved.log
      <4> DEFINE saved == Head(frames).saved
      <4>1. SavedSound(saved)
        BY <2>1 DEF SInv, FrameSound
      <4> HIDE DEF saved
      <4>2. \A k \in Milestone, id \in ReviewId : Applies(id, saved.log[k]) <=> Applies(id, log[k])
        BY <4>1 DEF SavedSound, Applies
      <4> QED BY <3>2, <4>2 DEF Applied, Applies, saved
    <3> QED BY <2>1, <3>1, <3>2
  <2> QED BY <1>5, <2>2, WithdrawCalls DEF VaultReturns, B!Next
<1>6. ASSUME NEW msg \in net, DeliverRegister(msg) \/ DeliverOutcome(msg) \/ DeliverRecover(msg)
      PROVE  [B!Next]_(B!vars)
  <2>1. /\ msg.milestone \in Milestone
        /\ msg.type = "register" => msg.terms \in V!E!Terms
    BY DEF SInv, IInv, Genuine
  <2>2. CASE \/ msg.type = "register" /\ V!RegisterMilestone(msg.milestone, msg.terms)
             \/ V!RecoverActive(msg.milestone)
    BY <1>3, <2>1, <2>2
  <2>3. CASE \/ V!RegistrationIgnored(msg.milestone, msg.terms)
             \/ V!OutcomeIgnored(msg.milestone, milestones[msg.milestone].baseline)
    <3>1. now' = now /\ UNCHANGED vaultVars
      BY <2>3 DEF V!RegistrationIgnored, V!E!RegistrationIgnored, V!OutcomeIgnored,
         V!vars, V!vaultVars, V!E!vars, vaultVars
    <3> QED BY <3>1, VaultRests
  <2>4. CASE /\ msg.type = "outcome"
             /\ V!ApplyFinalOutcome(msg.milestone, milestones[msg.milestone].baseline,
                                    msg.review, msg.rule)
    <3> DEFINE m == msg.milestone
    <3>1. milestones[m].status = "REVIEWED"
      BY <2>4 DEF SInv, InstructionsStand, Stands
    <3>2. milestones[m].baseline \in Baseline
      BY <2>1, <3>1, SystemFacts DEF SInv, IInv, Sound, Typed
    <3>3. B!ControllerMessage(m)
      BY <1>0, <2>1, <2>4, <3>2, OutcomeIsVerdict
    <3> QED BY <2>1, <3>3 DEF B!Next
  <2> QED BY <1>6, <2>2, <2>3, <2>4 DEF DeliverRegister, DeliverOutcome, DeliverRecover
<1> QED BY <1>1, <1>2, <1>3, <1>4, <1>5, <1>6 DEF Next, VaultCall

\* It starts as an escrow does.
LEMMA InitOfEscrow == Init => B!Init
<1> SUFFICES ASSUME Init PROVE B!Init
  OBVIOUS
<1>1. Applied = {}
  BY DEF Init, V!Init, V!E!Init, Applied, Applies
<1> QED BY <1>1 DEF Init, V!Init, V!E!Init, B!Init

\* The Milestone Vault, driven by the Milestone Registry, makes the steps of
\* EscrowVault only, each outcome being the verdict of a review not yet processed.
THEOREM VaultIsEscrow == Spec => B!Spec
BY StepOfEscrow, InitOfEscrow, SettlementInvariant, PTL DEF Spec, B!Spec

\* The Milestone Vault holds at every moment what its live escrows were funded with
\* and what it still owes, and owes each account exactly what the ended escrows
\* awarded it and it has not withdrawn, through late and repeated instructions,
\* expiry, re-entrant calls and rollbacks.
THEOREM MilestonesAreSolvent == Spec => [](B!Solvent /\ B!ExactEntitlement)
<1>1. B!Spec => []B!Solvent /\ []B!ExactEntitlement
  BY VaultAssumptions, B!VaultIsSolvent, B!EntitlementIsExact
<1> QED BY <1>1, VaultIsEscrow, PTL

\* A milestone's escrow ends at most once and for good, and no review is paid out on
\* two escrows.
THEOREM MilestoneEndsOnce ==
    Spec => [](B!EndsOnce /\ B!ProcessedCaseSettledOne) /\ B!EndIsFinal
<1>1. /\ B!Spec => []B!EndsOnce
      /\ B!Spec => []B!ProcessedCaseSettledOne
      /\ B!Spec => B!EndIsFinal
  BY VaultAssumptions, B!EscrowEndsOnce, B!CaseSettlesOne, B!EndingIsFinal
<1> QED BY <1>1, VaultIsEscrow, PTL
=============================================================================
