------------------------- MODULE SingleMilestoneProofs -------------------------
(***************************************************************************)
(* The single milestone contract and its Vault keep the promise of         *)
(* MilestonePromise, for every number of milestones, accounts and reviews. *)
(***************************************************************************)
EXTENDS SingleMilestone, FiniteSetTheorems, TLAPS

\* Review id, with rule r, is the verdict of milestone m and its settlement queued.
Stands(m, id, r) ==
    /\ milestones[m].status = "REVIEWED"
    /\ milestones[m].queued
    /\ milestones[m].review = id
    /\ reviews[id].rule = r

\* What ended the escrow of m: expiry, or the verdict that stands.
Backed(m, event) ==
    \/ event.kind = "EscrowRecovered"
    \/ event.kind = "VerdictApplied" /\ Stands(m, event.case, event.rule)

\* An escrow that has not ended has no event, another one at most one.
Closed(m, s, events) ==
    /\ s \notin V!E!Terminal => events = <<>>
    /\ events # <<>> => events = <<Head(events)>> /\ Backed(m, Head(events))

\* As much of the types as the promise rests on.
Decided == {"status", "challenges", "queued", "review"}
Typed ==
    /\ DOMAIN milestones = Milestone
    /\ DOMAIN reviews = ReviewId
    /\ \A m \in Milestone :
        Decided \subseteq DOMAIN milestones[m] /\ milestones[m].challenges \in Seq(Nat)

\* Review ids are handed out in order, so that a new one is a free one.
InOrder == \E n \in Nat : Recorded = 1..n

NotYetChallenged ==
    \A m \in Milestone : milestones[m].status = "NONE" => milestones[m].challenges = <<>>

\* A reviewed milestone names a recorded review, which has one of the three rules.
VerdictRecorded ==
    \A m \in Milestone :
        milestones[m].status = "REVIEWED" =>
            milestones[m].review \in Recorded /\ reviews[milestones[m].review].rule \in Rule

ContractSound == Typed /\ InOrder /\ NotYetChallenged /\ VerdictRecorded

\* No call of this Vault's is ever interrupted: withdraw() is left to EscrowVault.
EscrowSound ==
    /\ DOMAIN status = Milestone
    /\ DOMAIN log = Milestone
    /\ frames = <<>>
    /\ \A m \in Milestone : Closed(m, status[m], log[m])

InstructionsStand ==
    \A msg \in net :
        /\ msg.milestone \in Milestone
        /\ msg.type = "outcome" => Stands(msg.milestone, msg.review, msg.rule)

\* The inductive invariant.
SInv == ContractSound /\ EscrowSound /\ InstructionsStand

\* Whatever stands before this step stands after it.
Persists ==
    \A m \in Milestone : \A id, r : Stands(m, id, r) => Stands(m, id, r)'

\* Verdicts and challenges stay as they are; so do the instructions under way.
Quiet ==
    \A m \in Milestone :
        /\ StandingVerdict(m)' = StandingVerdict(m)
        /\ Len(milestones'[m].challenges) = Len(milestones[m].challenges)
SameInstructions ==
    /\ \A msg : msg.type = "outcome" => (msg \in net' <=> msg \in net)
    /\ \A msg \in net' : msg.milestone \in Milestone

\* The steps that are none of the promise, and those that are.
Kept == [P!Next]_(P!vars)

-----------------------------------------------------------------------------
(* What the contract does that the promise does not see.                   *)

LEMMA QuietMove ==
    ASSUME ContractSound, NEW k \in Milestone, NEW r,
           milestones' = [milestones EXCEPT ![k] = r], reviews' = reviews,
           Decided \subseteq DOMAIN r,
           r.challenges = milestones[k].challenges, r.status # "NONE",
           \/ /\ r.status = milestones[k].status /\ r.review = milestones[k].review
              /\ milestones[k].queued => r.queued
           \/ r.status # "REVIEWED" /\ milestones[k].status # "REVIEWED"
    PROVE  ContractSound' /\ Quiet /\ Persists
<1>1. /\ milestones'[k] = r /\ DOMAIN milestones' = Milestone
      /\ \A m \in Milestone \ {k} : milestones'[m] = milestones[m]
  BY DEF ContractSound, Typed
<1>2. \A m \in Milestone : Len(milestones'[m].challenges) = Len(milestones[m].challenges)
  BY <1>1
<1>3. \A m \in Milestone : StandingVerdict(m)' = StandingVerdict(m)
  BY <1>1 DEF StandingVerdict
<1>4. Typed'
  BY <1>1 DEF ContractSound, Typed
<1>5. Recorded' = Recorded
  BY DEF Recorded
<1>6. NotYetChallenged' /\ VerdictRecorded'
  BY <1>1, <1>5 DEF ContractSound, NotYetChallenged, VerdictRecorded
<1>7. Persists
  BY <1>1 DEF Persists, Stands
<1> QED BY <1>2, <1>3, <1>4, <1>5, <1>6, <1>7 DEF Quiet, ContractSound, InOrder

\* The contract's part of a step of the Vault, of the clock, and of a binding.
ContractRests == UNCHANGED <<net, milestones, reviews>>

LEMMA NothingMoves ==
    ASSUME ContractSound, milestones' = milestones, reviews' = reviews
    PROVE  ContractSound' /\ Quiet /\ Persists
BY DEF ContractSound, Typed, InOrder, NotYetChallenged, VerdictRecorded, Recorded,
   Quiet, StandingVerdict, Persists, Stands

LEMMA RestingIsQuiet ==
    ASSUME SInv, ContractRests
    PROVE  ContractSound' /\ Quiet /\ Persists /\ SameInstructions
<1>1. milestones' = milestones /\ reviews' = reviews /\ net' = net
  BY DEF ContractRests
<1>2. SameInstructions
  BY <1>1 DEF SInv, InstructionsStand, SameInstructions
<1> QED BY <1>1, <1>2, NothingMoves DEF SInv

\* Three actions excepted, a call of the contract is no step of the promise.
QuietCall(k) ==
    \/ \E who \in Account :
        \/ CreateMilestone(k, who) \/ ActivateMilestone(k, who)
        \/ SubmitMilestone(k, who) \/ MarkMilestoneReady(k, who)
    \/ milestones[k].status \in {"SUBMITTED", "CHALLENGED"} /\ RequireRepair(k) /\ net' = net
    \/ RegisterInVault(k) \/ RecoverMilestone(k)

LEMMA CallIsQuiet ==
    ASSUME SInv, NEW k \in Milestone, QuietCall(k)
    PROVE  ContractSound' /\ Quiet /\ Persists /\ SameInstructions
<1>0. /\ Decided \subseteq DOMAIN milestones[k]
      /\ \A msg \in net : msg.milestone \in Milestone
  BY DEF SInv, ContractSound, Typed, InstructionsStand
<1> USE DEF Decided
<1>1. ASSUME NEW who \in Account, CreateMilestone(k, who)
      PROVE  ContractSound' /\ Quiet /\ Persists /\ SameInstructions
  <2> DEFINE r == [NoMilestone EXCEPT !.status = "DRAFT", !.owner = who,
                                      !.baseline = accepted[Agreed[k].project].baseline]
  <2>1. /\ milestones[k].status = "NONE" /\ milestones' = [milestones EXCEPT ![k] = r]
        /\ reviews' = reviews /\ net' = net
    BY <1>1 DEF CreateMilestone
  <2>2. r.status = "DRAFT" /\ r.challenges = <<>> /\ Decided \subseteq DOMAIN r
    BY DEF NoMilestone
  <2>3. milestones[k].challenges = <<>>
    BY <2>1 DEF SInv, ContractSound, NotYetChallenged
  <2> HIDE DEF r, Decided
  <2>4. ContractSound' /\ Quiet /\ Persists
    BY <2>1, <2>2, <2>3, QuietMove DEF SInv
  <2> QED BY <1>0, <2>1, <2>4 DEF SameInstructions
<1>2. ASSUME \/ \E who \in Account :
                    \/ ActivateMilestone(k, who) \/ SubmitMilestone(k, who)
                    \/ MarkMilestoneReady(k, who)
             \/ /\ milestones[k].status \in {"SUBMITTED", "CHALLENGED"}
                /\ RequireRepair(k)
                /\ net' = net
      PROVE  ContractSound' /\ Quiet /\ Persists /\ SameInstructions
  <2>1. PICK r : /\ milestones' = [milestones EXCEPT ![k] = r] /\ reviews' = reviews
                 /\ net' = net /\ Decided \subseteq DOMAIN r
                 /\ r.challenges = milestones[k].challenges
                 /\ r.status \in {"ACTIVE", "SUBMITTED", "REPAIR_REQUIRED"}
                 /\ milestones[k].status # "REVIEWED"
    <3>1. CASE \E who \in Account : ActivateMilestone(k, who)
      BY <1>0, <3>1 DEF ActivateMilestone
    <3>2. CASE \E who \in Account : SubmitMilestone(k, who)
      <4> DEFINE r == [milestones[k] EXCEPT !.version = @ + 1, !.ready = {}, !.text = FALSE,
                           !.reviewQueued = FALSE, !.repair = "", !.status = "SUBMITTED"]
      <4>1. /\ milestones' = [milestones EXCEPT ![k] = r] /\ reviews' = reviews /\ net' = net
            /\ milestones[k].status # "REVIEWED"
        BY <3>2 DEF SubmitMilestone
      <4>2. /\ DOMAIN r = DOMAIN milestones[k] /\ r.status = "SUBMITTED"
            /\ r.challenges = milestones[k].challenges
        BY <1>0
      <4> HIDE DEF r
      <4> QED BY <1>0, <4>1, <4>2
    <3>3. CASE \E who \in Account : MarkMilestoneReady(k, who)
      <4>1. PICK who \in Account : MarkMilestoneReady(k, who)
        BY <3>3
      <4> DEFINE r == [milestones[k] EXCEPT !.ready = @ \cup {who}]
      <4>2. /\ milestones' = [milestones EXCEPT ![k] = r] /\ reviews' = reviews /\ net' = net
            /\ milestones[k].status = "SUBMITTED"
        BY <4>1 DEF MarkMilestoneReady
      <4>3. /\ DOMAIN r = DOMAIN milestones[k] /\ r.status = milestones[k].status
            /\ r.challenges = milestones[k].challenges
        BY <1>0
      <4> HIDE DEF r
      <4> QED BY <1>0, <4>2, <4>3
    <3>4. CASE /\ milestones[k].status \in {"SUBMITTED", "CHALLENGED"}
               /\ RequireRepair(k)
               /\ net' = net
      <4>1. PICK code : milestones' = [milestones EXCEPT ![k] =
                            [@ EXCEPT !.status = "REPAIR_REQUIRED", !.repair = code]]
        BY <3>4 DEF RequireRepair
      <4> DEFINE r == [milestones[k] EXCEPT !.status = "REPAIR_REQUIRED", !.repair = code]
      <4>2. milestones' = [milestones EXCEPT ![k] = r] /\ reviews' = reviews
        BY <3>4, <4>1 DEF RequireRepair
      <4>3. /\ DOMAIN r = DOMAIN milestones[k] /\ r.status = "REPAIR_REQUIRED"
            /\ r.challenges = milestones[k].challenges
        BY <1>0
      <4> HIDE DEF r
      <4> QED BY <1>0, <3>4, <4>2, <4>3
    <3> QED BY <1>2, <3>1, <3>2, <3>3, <3>4
  <2> HIDE DEF Decided
  <2>2. ContractSound' /\ Quiet /\ Persists
    BY <2>1, QuietMove DEF SInv
  <2> QED BY <1>0, <2>1, <2>2 DEF SameInstructions
<1>3. ASSUME RecoverMilestone(k)
      PROVE  ContractSound' /\ Quiet /\ Persists /\ SameInstructions
  <2> DEFINE r == [milestones[k] EXCEPT !.queued = TRUE]
  <2>1. /\ milestones[k].status # "NONE" /\ milestones' = [milestones EXCEPT ![k] = r]
        /\ reviews' = reviews /\ net' = net \cup {Recover(k)}
    BY <1>3 DEF RecoverMilestone, Emit
  <2>2. /\ r.status = milestones[k].status /\ r.challenges = milestones[k].challenges
        /\ r.review = milestones[k].review /\ r.queued /\ DOMAIN r = DOMAIN milestones[k]
    BY <1>0
  <2>3. Recover(k).type # "outcome" /\ Recover(k).milestone = k
    BY DEF Recover
  <2> HIDE DEF r, Decided
  <2>4. ContractSound' /\ Quiet /\ Persists
    BY <1>0, <2>1, <2>2, QuietMove DEF SInv
  <2> QED BY <1>0, <2>1, <2>3, <2>4 DEF SameInstructions
<1>4. ASSUME RegisterInVault(k)
      PROVE  ContractSound' /\ Quiet /\ Persists /\ SameInstructions
  <2>1. milestones' = milestones /\ reviews' = reviews /\ net' = net \cup {Register(k)}
    BY <1>4 DEF RegisterInVault, Emit
  <2>2. Register(k).type # "outcome" /\ Register(k).milestone = k
    BY DEF Register
  <2>3. ContractSound' /\ Quiet /\ Persists
    BY <2>1, NothingMoves DEF SInv
  <2> QED BY <1>0, <2>1, <2>2, <2>3 DEF SameInstructions
<1> HIDE DEF Decided
<1> QED BY <1>1, <1>2, <1>3, <1>4 DEF QuietCall

-----------------------------------------------------------------------------
(* The Vault.                                                              *)

\* A step that ends no escrow.
LEMMA NothingEnds ==
    ASSUME EscrowSound, Persists, log' = log, frames' = frames, DOMAIN status' = Milestone,
           \A m \in Milestone : status'[m] = status[m] \/ status[m] \notin V!E!Terminal
    PROVE  EscrowSound'
BY DEF EscrowSound, Persists, Stands, Backed, Closed

\* A step that ends the escrow of m with event e.
LEMMA OneEnds ==
    ASSUME EscrowSound, Persists, NEW m \in Milestone, NEW s, NEW e,
           s \in V!E!Terminal, V!E!Close(m, s, e), status[m] \notin V!E!Terminal,
           Backed(m, e)', frames' = frames
    PROVE  EscrowSound' /\ log[m] = <<>> /\ log' = [log EXCEPT ![m] = <<e>>]
<1> USE DEF Persists, Stands, Backed
<1>1. log[m] = <<>>
  BY DEF EscrowSound, Closed
<1>2. Append(log[m], e) = <<e>>
  BY <1>1
<1>3. /\ DOMAIN status' = Milestone /\ DOMAIN log' = Milestone
      /\ status'[m] = s /\ log'[m] = <<e>> /\ log' = [log EXCEPT ![m] = <<e>>]
      /\ \A k \in Milestone \ {m} : status'[k] = status[k] /\ log'[k] = log[k]
  BY <1>2 DEF V!E!Close, EscrowSound
<1>4. Head(<<e>>) = e /\ <<e>> # <<>>
  OBVIOUS
<1>5. EscrowSound'
  BY <1>3, <1>4 DEF EscrowSound, Closed
<1> QED BY <1>1, <1>3, <1>5

\* Every step of the Vault but applying an outcome: nothing ends, or one expires.
LEMMA VaultStep ==
    ASSUME EscrowSound, Persists, NEW m \in Milestone,
           \/ \E a : V!FundMilestone(m, a) \/ V!PostBond(m, a)
           \/ \E t : V!RegisterMilestone(m, t)
           \/ V!RecoverUnactivated(m)
           \/ V!RecoverActive(m)
    PROVE  /\ EscrowSound'
           /\ \/ log' = log
              \/ \E e : /\ e.kind = "EscrowRecovered" /\ log[m] = <<>>
                        /\ log' = [log EXCEPT ![m] = <<e>>]
<1>0. frames' = frames
  BY DEF V!FundMilestone, V!E!FundHandoff, V!PostBond, V!E!PostBond,
     V!RegisterMilestone, V!E!RegisterHandoff, V!RecoverUnactivated,
     V!E!RecoverUnactivated, V!RecoverActive, V!E!RecoverActive
<1>1. CASE \/ \E a : V!FundMilestone(m, a) \/ V!PostBond(m, a)
           \/ \E t : V!RegisterMilestone(m, t)
  <2>1. PICK s : /\ status[m] \notin V!E!Terminal /\ status' = [status EXCEPT ![m] = s]
                 /\ log' = log
    BY <1>1 DEF V!FundMilestone, V!E!FundHandoff, V!PostBond, V!E!PostBond,
       V!RegisterMilestone, V!E!RegisterHandoff, V!E!Terminal
  <2>2. /\ DOMAIN status' = Milestone
        /\ \A k \in Milestone : status'[k] = status[k] \/ status[k] \notin V!E!Terminal
    BY <2>1 DEF EscrowSound
  <2> QED BY <1>0, <2>1, <2>2, NothingEnds
<1>2. CASE V!RecoverUnactivated(m) \/ V!RecoverActive(m)
  <2>1. PICK why : /\ V!E!Close(m, "RECOVERED", V!E!EscrowRecovered(why))
                   /\ status[m] \notin V!E!Terminal
    BY <1>2 DEF V!RecoverUnactivated, V!E!RecoverUnactivated, V!RecoverActive,
       V!E!RecoverActive, V!E!Terminal
  <2> DEFINE e == V!E!EscrowRecovered(why)
  <2>2. e.kind = "EscrowRecovered"
    BY DEF V!E!EscrowRecovered
  <2>3. "RECOVERED" \in V!E!Terminal
    BY DEF V!E!Terminal
  <2> HIDE DEF e
  <2>4. Backed(m, e)'
    BY <2>2 DEF Backed
  <2>5. V!E!Close(m, "RECOVERED", e)
    BY <2>1 DEF e
  <2>6. EscrowSound' /\ log[m] = <<>> /\ log' = [log EXCEPT ![m] = <<e>>]
    BY <1>0, <2>1, <2>2, <2>3, <2>4, <2>5, OneEnds
  <2> QED BY <2>2, <2>6
<1> QED BY <1>1, <1>2

\* An outcome is applied as it was instructed.
LEMMA OutcomeApplied ==
    ASSUME EscrowSound, Persists, InstructionsStand, NEW msg \in net,
           msg.type = "outcome", NEW m \in Milestone, m = msg.milestone, NEW digest,
           V!ApplyFinalOutcome(m, digest, msg.review, msg.rule)
    PROVE  /\ EscrowSound' /\ log[m] = <<>>
           /\ log' = [log EXCEPT ![m] = <<V!E!VerdictApplied(msg.review, msg.rule)>>]
<1> DEFINE e == V!E!VerdictApplied(msg.review, msg.rule)
<1>1. /\ V!E!Close(m, "SETTLED", e) /\ status[m] \notin V!E!Terminal
      /\ "SETTLED" \in V!E!Terminal /\ frames' = frames
  BY DEF V!ApplyFinalOutcome, V!Applicable, V!E!Terminal
<1>2. Backed(m, e)'
  <2>1. e.kind = "VerdictApplied" /\ e.case = msg.review /\ e.rule = msg.rule
    BY DEF V!E!VerdictApplied
  <2>2. Stands(m, msg.review, msg.rule)'
    BY DEF InstructionsStand, Persists
  <2> QED BY <2>1, <2>2 DEF Backed, Stands
<1> HIDE DEF e
<1>3. EscrowSound' /\ log[m] = <<>> /\ log' = [log EXCEPT ![m] = <<e>>]
  BY <1>1, <1>2, OneEnds
<1> QED BY <1>1, <1>3 DEF e

-----------------------------------------------------------------------------
(* Steps of the promise.                                                   *)

Ending(m) == OutcomeOf(V!E!CommittedLog[m])

\* As no call is interrupted, what the log says is committed.
LEMMA EndingIsLogged ==
    ASSUME EscrowSound, NEW m \in Milestone
    PROVE  Ending(m) = OutcomeOf(log[m])
BY DEF EscrowSound, Ending, V!E!CommittedLog

LEMMA EndingIsLoggedNext ==
    ASSUME EscrowSound', NEW m \in Milestone
    PROVE  Ending(m)' = OutcomeOf(log'[m])
BY DEF EscrowSound, Ending, V!E!CommittedLog, OutcomeOf

\* The events a step adds are all the promise sees of it.
LEMMA EndingsStay ==
    ASSUME EscrowSound, EscrowSound', log' = log
    PROVE  \A m \in Milestone : Ending(m)' = Ending(m)
BY EndingIsLogged, EndingIsLoggedNext

LEMMA PromiseStutters ==
    ASSUME Quiet, SameInstructions, \A m \in Milestone : Ending(m)' = Ending(m)
    PROVE  UNCHANGED P!vars
<1>1. \A m \in Milestone : Instructed(m)' = Instructed(m)
  BY DEF SameInstructions, Instructed
<1> QED BY <1>1 DEF P!vars, Quiet, Ending

\* The instructions under way stand if the step adds none.
LEMMA InstructionsKept ==
    ASSUME SInv, Persists, SameInstructions
    PROVE  InstructionsStand'
<1> SUFFICES ASSUME NEW msg \in net'
             PROVE  /\ msg.milestone \in Milestone
                    /\ msg.type = "outcome" => Stands(msg.milestone, msg.review, msg.rule)'
  BY DEF InstructionsStand, Stands
<1> QED BY DEF SInv, InstructionsStand, Persists, SameInstructions

\* Expiry is a step of the promise.
LEMMA ExpiryKept ==
    ASSUME EscrowSound, EscrowSound', Quiet, SameInstructions, NEW m \in Milestone,
           NEW e, e.kind = "EscrowRecovered",
           log[m] = <<>>, log' = [log EXCEPT ![m] = <<e>>]
    PROVE  P!Expire({m})
<1>1. /\ log'[m] = <<e>>
      /\ \A k \in Milestone \ {m} : log'[k] = log[k]
  BY DEF EscrowSound
<1>2. OutcomeOf(<<e>>) = "expired" /\ OutcomeOf(<<>>) = "pending"
  <2>1. <<e>> # <<>> /\ Head(<<e>>) = e
    OBVIOUS
  <2> QED BY <2>1 DEF OutcomeOf
<1>3. /\ Ending(m) = "pending" /\ Ending(m)' = "expired"
      /\ \A k \in Milestone \ {m} : Ending(k)' = Ending(k)
  BY <1>1, <1>2, EndingIsLogged, EndingIsLoggedNext
<1>4. \A k \in Milestone : Instructed(k)' = Instructed(k)
  BY DEF SameInstructions, Instructed
<1> QED BY <1>3, <1>4 DEF P!Expire, Quiet, Ending

\* Applying an outcome settles the escrow as its final verdict says.
LEMMA OutcomeKept ==
    ASSUME SInv, EscrowSound', Quiet, SameInstructions,
           NEW msg \in net, msg.type = "outcome", NEW m \in Milestone,
           m = msg.milestone, log[m] = <<>>,
           log' = [log EXCEPT ![m] = <<V!E!VerdictApplied(msg.review, msg.rule)>>]
    PROVE  P!Settle(m)
<1> DEFINE e == V!E!VerdictApplied(msg.review, msg.rule)
<1>1. e.kind = "VerdictApplied" /\ e.rule = msg.rule
  BY DEF V!E!VerdictApplied
<1>2. log' = [log EXCEPT ![m] = <<e>>]
  OBVIOUS
<1> HIDE DEF e
<1>3. StandingVerdict(m) = RuleName[msg.rule]
  BY DEF SInv, InstructionsStand, Stands, StandingVerdict
<1>4. /\ log'[m] = <<e>>
      /\ \A k \in Milestone \ {m} : log'[k] = log[k]
  BY <1>2 DEF SInv, EscrowSound
<1>5. OutcomeOf(<<e>>) = RuleName[msg.rule] /\ OutcomeOf(<<>>) = "pending"
  <2>1. <<e>> # <<>> /\ Head(<<e>>) = e
    OBVIOUS
  <2> QED BY <1>1, <2>1 DEF OutcomeOf
<1>6. /\ Ending(m) = "pending" /\ Ending(m)' = StandingVerdict(m)
      /\ \A k \in Milestone \ {m} : Ending(k)' = Ending(k)
  BY <1>3, <1>4, <1>5, EndingIsLogged, EndingIsLoggedNext DEF SInv
<1>7. Instructed(m) /\ \A k \in Milestone : Instructed(k)' = Instructed(k)
  BY DEF SameInstructions, Instructed
<1> QED BY <1>6, <1>7 DEF P!Settle, Quiet, Ending

\* The verdict of a reviewed milestone is one of the three.
LEMMA VerdictIsNamed ==
    ASSUME VerdictRecorded, NEW m \in Milestone, milestones[m].status = "REVIEWED"
    PROVE  StandingVerdict(m) \in P!Verdict
<1>1. reviews[milestones[m].review].rule \in 1..3
  BY DEF VerdictRecorded, Rule
<1> QED BY <1>1 DEF StandingVerdict, RuleName, P!Verdict

\* challenge_milestone contests a verdict that is not instructed.
LEMMA ChallengeKept ==
    ASSUME SInv, NEW m \in Milestone, NEW who \in Account, ChallengeMilestone(m, who),
           \A k \in Milestone : Ending(k)' = Ending(k)
    PROVE  P!Challenge(m) /\ ContractSound' /\ Persists /\ SameInstructions
<1>0. /\ Decided \subseteq DOMAIN milestones[m] /\ milestones[m].challenges \in Seq(Nat)
      /\ DOMAIN milestones = Milestone
  BY DEF SInv, ContractSound, Typed
<1> DEFINE r == [milestones[m] EXCEPT !.status = "CHALLENGED", !.text = TRUE,
                                      !.challenges = Append(@, 0)]
<1>1. /\ milestones[m].status = "REVIEWED" /\ ~milestones[m].queued
      /\ Len(milestones[m].challenges) < MaxChallenges
      /\ milestones' = [milestones EXCEPT ![m] = r] /\ net' = net /\ reviews' = reviews
  BY DEF ChallengeMilestone, Challengeable
<1>2. /\ r.status = "CHALLENGED" /\ r.challenges \in Seq(Nat)
      /\ Len(r.challenges) = Len(milestones[m].challenges) + 1
      /\ Decided \subseteq DOMAIN r
  <2>1. /\ r.status = "CHALLENGED" /\ r.challenges = Append(milestones[m].challenges, 0)
        /\ DOMAIN r = DOMAIN milestones[m]
    BY <1>0 DEF Decided
  <2> QED BY <1>0, <2>1
<1> HIDE DEF r
<1>3. /\ milestones'[m] = r /\ DOMAIN milestones' = Milestone
      /\ \A k \in Milestone \ {m} : milestones'[k] = milestones[k]
  BY <1>0, <1>1
<1>4. /\ StandingVerdict(m)' = "none"
      /\ Len(milestones[m].challenges)' = Len(milestones[m].challenges) + 1
      /\ \A k \in Milestone \ {m} :
            /\ StandingVerdict(k)' = StandingVerdict(k)
            /\ Len(milestones[k].challenges)' = Len(milestones[k].challenges)
  BY <1>1, <1>2, <1>3 DEF StandingVerdict
<1>5. SameInstructions /\ \A k \in Milestone : Instructed(k)' = Instructed(k)
  BY <1>1 DEF SameInstructions, Instructed, SInv, InstructionsStand
<1>6. ~Instructed(m)
  BY <1>1 DEF Instructed, SInv, InstructionsStand, Stands
<1>7. StandingVerdict(m) # "none"
  BY <1>1, VerdictIsNamed DEF SInv, ContractSound, P!Verdict
<1>8. ContractSound'
  <2>1. Recorded' = Recorded
    BY <1>1 DEF Recorded
  <2>2. Typed'
    BY <1>1, <1>2, <1>3 DEF SInv, ContractSound, Typed
  <2>3. NotYetChallenged' /\ VerdictRecorded'
    BY <1>1, <1>2, <1>3, <2>1 DEF SInv, ContractSound, NotYetChallenged, VerdictRecorded
  <2> QED BY <2>1, <2>2, <2>3 DEF SInv, ContractSound, InOrder
<1>9. Persists
  BY <1>1, <1>3 DEF Persists, Stands
<1> QED BY <1>1, <1>4, <1>5, <1>6, <1>7, <1>8, <1>9 DEF P!Challenge, Ending

\* queue_settlement makes a verdict final, or repeats the instruction.
LEMMA SettlementKept ==
    ASSUME SInv, NEW m \in Milestone, NEW id \in ReviewId,
           QueueSettlement(m, id), \A k \in Milestone : Ending(k)' = Ending(k)
    PROVE  /\ P!Finalize(m) \/ UNCHANGED P!vars
           /\ ContractSound' /\ Persists /\ InstructionsStand'
<1>0. Decided \subseteq DOMAIN milestones[m] /\ DOMAIN milestones = Milestone
  BY DEF SInv, ContractSound, Typed
<1> DEFINE r == [milestones[m] EXCEPT !.queued = TRUE]
<1> PICK msg : msg = Outcome(m, id, reviews[id].rule)
  OBVIOUS
<1>1. /\ milestones[m].status = "REVIEWED" /\ id = milestones[m].review
      /\ milestones' = [milestones EXCEPT ![m] = r] /\ reviews' = reviews
      /\ net' = net \cup {msg}
  BY DEF QueueSettlement, Settleable, Emit
<1>2. /\ r.status = milestones[m].status /\ r.challenges = milestones[m].challenges
      /\ r.review = milestones[m].review /\ r.queued /\ DOMAIN r = DOMAIN milestones[m]
  BY <1>0 DEF Decided
<1>3. /\ msg.type = "outcome" /\ msg.milestone = m
      /\ msg.review = id /\ msg.rule = reviews[id].rule
  BY DEF Outcome
<1> HIDE DEF r
<1>4. ContractSound' /\ Quiet /\ Persists
  BY <1>0, <1>1, <1>2, QuietMove DEF SInv
<1>5. Stands(m, msg.review, msg.rule)'
  BY <1>0, <1>1, <1>2, <1>3 DEF Stands
<1>6. InstructionsStand'
  <2> SUFFICES ASSUME NEW other \in net'
               PROVE  /\ other.milestone \in Milestone
                      /\ other.type = "outcome" =>
                            Stands(other.milestone, other.review, other.rule)'
    BY DEF InstructionsStand, Stands
  <2>1. CASE other \in net
    BY <1>4, <2>1 DEF SInv, InstructionsStand, Persists
  <2>2. CASE other = msg
    BY <1>3, <1>5, <2>2 DEF Stands
  <2> QED BY <1>1, <2>1, <2>2
<1>7. /\ Instructed(m)'
      /\ \A k \in Milestone \ {m} : Instructed(k)' = Instructed(k)
  BY <1>1, <1>3 DEF Instructed
<1>8. CASE Instructed(m)
  <2>1. \A k \in Milestone : Instructed(k)' = Instructed(k)
    BY <1>7, <1>8 DEF Instructed
  <2>2. UNCHANGED P!vars
    BY <1>4, <2>1 DEF P!vars, Quiet, Ending
  <2> QED BY <1>4, <1>6, <2>2
<1>9. CASE ~Instructed(m)
  <2>1. StandingVerdict(m) # "none"
    BY <1>1, VerdictIsNamed DEF SInv, ContractSound, P!Verdict
  <2>2. P!Finalize(m)
    BY <1>4, <1>7, <1>9, <2>1 DEF P!Finalize, Quiet, Ending
  <2> QED BY <1>4, <1>6, <2>2
<1> QED BY <1>8, <1>9

-----------------------------------------------------------------------------
(* A review.                                                               *)

\* The id a review is recorded under is free, and the next one follows it.
LEMMA NextIsFree ==
    ASSUME InOrder
    PROVE  NextReviewId \notin Recorded /\ \E n \in Nat : Recorded \cup {NextReviewId} = 1..n
<1>1. PICK n \in Nat : Recorded = 1..n
  BY DEF InOrder
<1>2. Cardinality(Recorded) = n
  BY <1>1, FS_Interval
<1>3. NextReviewId = n + 1
  BY <1>2 DEF NextReviewId
<1>4. n + 1 \notin 1..n /\ (1..n) \cup {n + 1} = 1..(n + 1) /\ n + 1 \in Nat
  OBVIOUS
<1> QED BY <1>1, <1>3, <1>4

\* Resolving a challenge keeps the number of challenges.
LEMMA ResolvedLength ==
    ASSUME NEW challenges \in Seq(Nat), NEW id \in Nat
    PROVE  Resolved(challenges, id) \in Seq(Nat) /\ Len(Resolved(challenges, id)) = Len(challenges)
<1>1. CASE challenges = <<>>
  BY <1>1 DEF Resolved
<1>2. CASE challenges # <<>>
  <2> DEFINE q == [challenges EXCEPT ![Len(challenges)] = id]
  <2>1. /\ Resolved(challenges, id) = q /\ DOMAIN q = 1..Len(challenges)
        /\ Len(challenges) \in Nat /\ q \in Seq(Nat)
    BY <1>2 DEF Resolved
  <2> QED BY <2>1
<1> QED BY <1>1, <1>2

\* A verdict is given to a milestone that has none, under an id of its own.
LEMMA ReviewKept ==
    ASSUME SInv, NEW m \in Milestone, NEW resolves \in BOOLEAN, RecordVerdict(m, resolves),
           milestones[m].status \in {"SUBMITTED", "CHALLENGED"},
           net' = net, \A k \in Milestone : Ending(k)' = Ending(k)
    PROVE  /\ \E v \in P!Verdict : P!Review(m, v)
           /\ ContractSound' /\ Persists /\ SameInstructions
<1> DEFINE id == NextReviewId
           r == [milestones[m] EXCEPT !.status = "REVIEWED", !.review = id,
                     !.challengeDeadline = now + Agreed[m].challengeWindow,
                     !.queued = FALSE, !.repair = "",
                     !.challenges = IF resolves THEN Resolved(@, id) ELSE @]
<1>0. /\ Decided \subseteq DOMAIN milestones[m] /\ milestones[m].challenges \in Seq(Nat)
      /\ DOMAIN milestones = Milestone /\ DOMAIN reviews = ReviewId
  BY DEF SInv, ContractSound, Typed
<1>1. id \in ReviewId /\ milestones' = [milestones EXCEPT ![m] = r]
  BY DEF RecordVerdict
<1>2. PICK record : /\ reviews' = [reviews EXCEPT ![id] = record]
                    /\ record # <<>> /\ record.rule \in Rule
  <2>1. PICK decision \in Decision :
            reviews' = [reviews EXCEPT ![id] =
                [milestone |-> m, request |-> 0, version |-> milestones[m].version,
                 challenges |-> Len(milestones[m].challenges), rule |-> DecisionRule[decision]]]
    BY DEF RecordVerdict
  <2> DEFINE record == [milestone |-> m, request |-> 0, version |-> milestones[m].version,
                        challenges |-> Len(milestones[m].challenges),
                        rule |-> DecisionRule[decision]]
  <2>2. "rule" \in DOMAIN record /\ record.rule = DecisionRule[decision]
    OBVIOUS
  <2>3. DecisionRule[decision] \in Rule
    BY DEF Decision, DecisionRule, Rule
  <2>4. DOMAIN << >> = {}
    OBVIOUS
  <2>5. reviews' = [reviews EXCEPT ![id] = record]
    BY <2>1
  <2> HIDE DEF record
  <2> QED BY <2>2, <2>3, <2>4, <2>5
<1>3. /\ id \notin Recorded /\ \E n \in Nat : Recorded \cup {id} = 1..n
      /\ id \in Nat
  BY <1>1, NextIsFree, AgreedAssumption DEF SInv, ContractSound
<1>4. /\ r.status = "REVIEWED" /\ r.review = id /\ r.challenges \in Seq(Nat)
      /\ Len(r.challenges) = Len(milestones[m].challenges) /\ Decided \subseteq DOMAIN r
  <2>1. /\ r.status = "REVIEWED" /\ r.review = id /\ DOMAIN r = DOMAIN milestones[m]
        /\ r.challenges = IF resolves THEN Resolved(milestones[m].challenges, id)
                          ELSE milestones[m].challenges
    BY <1>0 DEF Decided
  <2> HIDE DEF r, id
  <2> QED BY <1>0, <1>3, <2>1, ResolvedLength
<1> HIDE DEF r, id
<1>5. /\ milestones'[m] = r /\ DOMAIN milestones' = Milestone
      /\ \A k \in Milestone \ {m} : milestones'[k] = milestones[k]
  BY <1>0, <1>1
<1>6. /\ reviews'[id] = record /\ DOMAIN reviews' = ReviewId
      /\ \A other \in ReviewId \ {id} : reviews'[other] = reviews[other]
  BY <1>0, <1>1, <1>2
<1>7. Recorded' = Recorded \cup {id}
  BY <1>1, <1>2, <1>6 DEF Recorded
<1>8. \A k \in Milestone : milestones[k].status = "REVIEWED" =>
          /\ k # m
          /\ milestones[k].review \in Recorded
          /\ reviews'[milestones[k].review] = reviews[milestones[k].review]
  BY <1>3, <1>6 DEF SInv, ContractSound, VerdictRecorded, Recorded
<1>9. ContractSound'
  <2>1. Typed'
    BY <1>4, <1>5, <1>6 DEF SInv, ContractSound, Typed
  <2>2. InOrder'
    BY <1>3, <1>7 DEF InOrder
  <2>3. NotYetChallenged'
    BY <1>4, <1>5 DEF SInv, ContractSound, NotYetChallenged
  <2>4. VerdictRecorded'
    BY <1>2, <1>4, <1>5, <1>6, <1>7, <1>8 DEF SInv, ContractSound, VerdictRecorded
  <2> QED BY <2>1, <2>2, <2>3, <2>4 DEF ContractSound
<1>10. Persists
  BY <1>5, <1>8 DEF Persists, Stands
<1>11. SameInstructions /\ \A k \in Milestone : Instructed(k)' = Instructed(k)
  BY DEF SameInstructions, Instructed, SInv, InstructionsStand
<1>12. /\ \A k \in Milestone \ {m} : StandingVerdict(k)' = StandingVerdict(k)
       /\ \A k \in Milestone : Len(milestones'[k].challenges) = Len(milestones[k].challenges)
       /\ StandingVerdict(m) = "none"
  BY <1>4, <1>5, <1>8 DEF StandingVerdict
<1>13. StandingVerdict(m)' \in P!Verdict
  <2>1. StandingVerdict(m)' = RuleName[record.rule]
    BY <1>4, <1>5, <1>6 DEF StandingVerdict
  <2>2. record.rule \in 1..3
    BY <1>2 DEF Rule
  <2> QED BY <2>1, <2>2 DEF RuleName, P!Verdict
<1>14. P!Review(m, StandingVerdict(m)')
  BY <1>11, <1>12 DEF P!Review, Ending
<1> QED BY <1>9, <1>10, <1>11, <1>13, <1>14

-----------------------------------------------------------------------------
(* The whole system.                                                       *)

LEMMA InitSInv == SystemInit => SInv /\ P!Init
<1> SUFFICES ASSUME SystemInit PROVE SInv /\ P!Init
  OBVIOUS
<1> USE DEF SystemInit, V!Init, V!E!Init
<1>1. EscrowSound
  BY DEF EscrowSound, Closed
<1>2. InstructionsStand
  BY DEF InstructionsStand
<1>3. \A m \in Milestone : /\ milestones[m].status = "NONE" /\ milestones[m].challenges = <<>>
                           /\ Decided \subseteq DOMAIN milestones[m]
  BY DEF NoMilestone, Decided
<1>4. Recorded = 1..0
  BY DEF Recorded
<1>5. ContractSound
  <2>1. /\ DOMAIN milestones = Milestone /\ DOMAIN reviews = ReviewId
        /\ \A m \in Milestone : milestones[m].challenges \in Seq(Nat)
    <3>1. << >> \in Seq(Nat)
      OBVIOUS
    <3> QED BY <1>3, <3>1
  <2>2. InOrder
    BY <1>4 DEF InOrder
  <2>3. NotYetChallenged /\ VerdictRecorded
    BY <1>3 DEF NotYetChallenged, VerdictRecorded
  <2> QED BY <1>3, <2>1, <2>2, <2>3 DEF ContractSound, Typed
<1>6. \A m \in Milestone : /\ StandingVerdict(m) = "none" /\ Len(milestones[m].challenges) = 0
                           /\ Instructed(m) = FALSE /\ Ending(m) = "pending"
  BY <1>3 DEF StandingVerdict, Instructed, Ending, OutcomeOf, V!E!CommittedLog
<1>7. P!Init
  BY <1>6 DEF P!Init, Ending
<1> QED BY <1>1, <1>2, <1>5, <1>7 DEF SInv

\* A call of the contract.
LEMMA CallKept ==
    ASSUME SInv, ContractCall
    PROVE  SInv' /\ Kept
<1>1. \A k \in Milestone : Ending(k)' = Ending(k)
  BY DEF ContractCall, vaultVars, Ending, OutcomeOf, V!E!CommittedLog
<1>2. ASSUME Persists PROVE EscrowSound'
  BY <1>2, NothingEnds DEF SInv, ContractCall, vaultVars, EscrowSound
<1>3. ASSUME ContractSound', Quiet, Persists, SameInstructions
      PROVE  SInv' /\ Kept
  BY <1>1, <1>2, <1>3, InstructionsKept, PromiseStutters DEF SInv, Kept
<1>4. CASE ContractRests
  BY <1>3, <1>4, RestingIsQuiet
<1>5. ASSUME NEW m \in Milestone, QuietCall(m)
      PROVE  SInv' /\ Kept
  BY <1>3, <1>5, CallIsQuiet
<1>6. ASSUME NEW m \in Milestone, NEW who \in Account, ChallengeMilestone(m, who)
      PROVE  SInv' /\ Kept
  <2>1. P!Challenge(m) /\ ContractSound' /\ Persists /\ SameInstructions
    BY <1>1, <1>6, ChallengeKept
  <2> QED BY <1>2, <2>1, InstructionsKept DEF SInv, Kept, P!Next
<1>7. ASSUME NEW m \in Milestone, NEW id \in ReviewId, QueueSettlement(m, id)
      PROVE  SInv' /\ Kept
  <2>1. /\ P!Finalize(m) \/ UNCHANGED P!vars
        /\ ContractSound' /\ Persists /\ InstructionsStand'
    BY <1>1, <1>7, SettlementKept
  <2> QED BY <1>2, <2>1 DEF SInv, Kept, P!Next
<1>8. ASSUME NEW m \in Milestone, NEW resolves \in BOOLEAN, RecordVerdict(m, resolves),
             milestones[m].status \in {"SUBMITTED", "CHALLENGED"}, net' = net
      PROVE  SInv' /\ Kept
  <2>1. /\ \E v \in P!Verdict : P!Review(m, v)
        /\ ContractSound' /\ Persists /\ SameInstructions
    BY <1>1, <1>8, ReviewKept
  <2> QED BY <1>2, <2>1, InstructionsKept DEF SInv, Kept, P!Next
<1>9. ASSUME NEW m \in Milestone, ReviewSubmission(m) \/ ReviewChallenge(m)
      PROVE  \/ QuietCall(m)
             \/ /\ \E resolves \in BOOLEAN : RecordVerdict(m, resolves)
                /\ milestones[m].status \in {"SUBMITTED", "CHALLENGED"} /\ net' = net
  BY <1>9 DEF ReviewSubmission, ReviewChallenge, Resolve, QuietCall
<1>10. \/ ContractRests
       \/ \E m \in Milestone : QuietCall(m)
       \/ \E m \in Milestone, who \in Account : ChallengeMilestone(m, who)
       \/ \E m \in Milestone, id \in ReviewId : QueueSettlement(m, id)
       \/ \E m \in Milestone : ReviewSubmission(m) \/ ReviewChallenge(m)
  <2>1. CASE \E p \in Project, sponsor \in Sponsor, baseline \in Baseline :
                RegisterAcceptedProject(p, sponsor, baseline)
    BY <2>1 DEF RegisterAcceptedProject, ContractRests
  <2>2. CASE SponsorStep
    BY <2>2 DEF SponsorStep, BindVault, ContractRests, QuietCall
  <2>3. CASE SubmissionStep
    BY <2>3 DEF SubmissionStep, QuietCall
  <2>4. CASE ChallengeStep
    BY <2>4 DEF ChallengeStep
  <2>5. CASE SettlementStep
    BY <2>5 DEF SettlementStep, QuietCall
  <2>6. CASE \E m \in Milestone : RegisterInVault(m) \/ ReviewSubmission(m) \/ ReviewChallenge(m)
    BY <2>6 DEF QuietCall
  <2> QED BY <2>1, <2>2, <2>3, <2>4, <2>5, <2>6 DEF ContractCall, ContractStep
<1> QED BY <1>4, <1>5, <1>6, <1>7, <1>8, <1>9, <1>10

\* A transaction of the Vault, or a message it receives.
LEMMA EscrowKept ==
    ASSUME SInv, VaultCall \/ \E msg \in net : Deliver(msg)
    PROVE  SInv' /\ Kept
<1>1. ContractSound' /\ Quiet /\ Persists /\ SameInstructions
  BY RestingIsQuiet DEF VaultCall, Deliver, registryVars, ContractRests
<1>2. InstructionsStand'
  BY <1>1, InstructionsKept
<1> USE DEF Kept
<1>3. ASSUME NEW m \in Milestone,
             \/ \E a : V!FundMilestone(m, a) \/ V!PostBond(m, a)
             \/ \E t : V!RegisterMilestone(m, t)
             \/ V!RecoverUnactivated(m)
             \/ V!RecoverActive(m)
      PROVE  EscrowSound' /\ Kept
  <2>1. /\ EscrowSound'
        /\ \/ log' = log
           \/ \E e : /\ e.kind = "EscrowRecovered" /\ log[m] = <<>>
                     /\ log' = [log EXCEPT ![m] = <<e>>]
    BY <1>1, <1>3, VaultStep DEF SInv
  <2>2. CASE log' = log
    BY <1>1, <2>1, <2>2, EndingsStay, PromiseStutters DEF SInv
  <2>3. CASE \E e : /\ e.kind = "EscrowRecovered" /\ log[m] = <<>>
                    /\ log' = [log EXCEPT ![m] = <<e>>]
    <3>1. P!Expire({m})
      BY <1>1, <2>1, <2>3, ExpiryKept DEF SInv
    <3> QED BY <2>1, <3>1 DEF P!Next
  <2> QED BY <2>1, <2>2, <2>3
<1>4. ASSUME NEW msg \in net, Deliver(msg)
      PROVE  EscrowSound' /\ Kept
  <2>0. msg.milestone \in Milestone
    BY DEF SInv, InstructionsStand
  <2>1. CASE V!RegisterMilestone(msg.milestone, msg.terms) \/ V!RecoverActive(msg.milestone)
    BY <1>3, <2>0, <2>1
  <2>2. CASE /\ msg.type = "outcome"
             /\ V!ApplyFinalOutcome(msg.milestone, milestones[msg.milestone].baseline,
                                    msg.review, msg.rule)
    <3>1. /\ EscrowSound' /\ log[msg.milestone] = <<>>
          /\ log' = [log EXCEPT ![msg.milestone] = <<V!E!VerdictApplied(msg.review, msg.rule)>>]
      BY <1>1, <2>0, <2>2, OutcomeApplied DEF SInv
    <3>2. P!Settle(msg.milestone)
      BY <1>1, <2>0, <2>2, <3>1, OutcomeKept
    <3> QED BY <2>0, <3>1, <3>2 DEF P!Next
  <2> QED BY <1>4, <2>1, <2>2 DEF Deliver
<1>5. EscrowSound' /\ Kept
  BY <1>3, <1>4 DEF VaultCall
<1> QED BY <1>1, <1>2, <1>5 DEF SInv

\* The clock.
LEMMA ClockKept ==
    ASSUME SInv, SystemTick \/ UNCHANGED systemVars
    PROVE  SInv' /\ Kept
<1>1. UNCHANGED <<net, milestones, reviews, status, log, frames>>
  BY DEF SystemTick, V!Tick, V!E!Tick, registryVars, systemVars, vars, vaultVars
<1>2. ContractSound' /\ Quiet /\ Persists /\ SameInstructions
  BY <1>1, RestingIsQuiet DEF ContractRests
<1>3. EscrowSound'
  BY <1>1, <1>2, NothingEnds DEF SInv, EscrowSound
<1>4. Kept
  BY <1>1, <1>2, <1>3, EndingsStay, PromiseStutters DEF SInv, Kept
<1> QED BY <1>2, <1>3, <1>4, InstructionsKept DEF SInv

LEMMA NextSInv == SInv /\ [SystemNext]_systemVars => SInv' /\ Kept
BY CallKept, EscrowKept, ClockKept DEF SystemNext

LEMMA SettlementInvariant == SystemSpec => []SInv
BY InitSInv, NextSInv, PTL DEF SystemSpec

\* One contract that reviews in place keeps the promise of the four, whatever is
\* challenged, repeated or late: a review it records replaces none, so a verdict
\* that is instructed stays the one the escrow ends by.
THEOREM SinglePromiseIsKept == SystemSpec => KeepsPromise
<1>1. SInv /\ [SystemNext]_systemVars => [P!Next]_(P!vars)
  BY NextSInv DEF Kept
<1> QED BY <1>1, InitSInv, SettlementInvariant, PTL DEF SystemSpec, KeepsPromise, P!Spec

-----------------------------------------------------------------------------
(***************************************************************************)
(* The Vault is an EscrowVault whose cases are the reviews: what is proved *)
(* of that module holds of the money of this contract's milestones too.    *)
(***************************************************************************)

\* A milestone that exists has an owner and the baseline it was created with.
Owned(r) ==
    /\ {"owner", "baseline"} \subseteq DOMAIN r
    /\ r.status # "NONE" => r.owner \in Account /\ r.baseline \in Baseline

\* What the Vault is told of a milestone: its own terms and its own review.
OwnTerms ==
    /\ DOMAIN accepted = Project
    /\ \A p \in Project : accepted[p] # <<>> => accepted[p].baseline \in Baseline
    /\ \A m \in Milestone :
        /\ Owned(milestones[m])
        /\ milestones[m].status = "REVIEWED" => reviews[milestones[m].review].milestone = m
    /\ \A msg \in net : msg.type = "register" => msg.terms \in V!E!Terms

\* A call that changes one milestone.
LEMMA OwnTermsKept ==
    ASSUME SInv, OwnTerms, NEW k \in Milestone, NEW r, accepted' = accepted,
           milestones' = [milestones EXCEPT ![k] = r], Owned(r),
           r.status = "REVIEWED" => reviews'[r.review].milestone = k,
           \A id \in Recorded : reviews'[id] = reviews[id],
           \A msg \in net' : msg \in net \/ msg.type # "register"
    PROVE  OwnTerms'
<1>1. /\ milestones'[k] = r
      /\ \A m \in Milestone \ {k} : milestones'[m] = milestones[m]
  BY DEF SInv, ContractSound, Typed
<1>2. \A m \in Milestone : milestones[m].status = "REVIEWED" => milestones[m].review \in Recorded
  BY DEF SInv, ContractSound, VerdictRecorded
<1>3. \A m \in Milestone :
          /\ Owned(milestones'[m])
          /\ milestones'[m].status = "REVIEWED" => reviews'[milestones'[m].review].milestone = m
  BY <1>1, <1>2 DEF OwnTerms
<1>4. \A msg \in net' : msg.type = "register" => msg.terms \in V!E!Terms
  BY DEF OwnTerms, V!E!Terms
<1> QED BY <1>3, <1>4 DEF OwnTerms, Owned, V!E!Terms

\* The terms of a milestone have their types.
LEMMA TermsTyped ==
    ASSUME OwnTerms, NEW m \in Milestone, milestones[m].status # "NONE"
    PROVE  Terms(m) \in V!E!Terms
BY AgreedAssumption DEF OwnTerms, Owned, Terms, V!E!Terms

LEMMA InitOwnTerms == SystemInit => OwnTerms
<1> SUFFICES ASSUME SystemInit PROVE OwnTerms
  OBVIOUS
<1>1. /\ NoMilestone.status = "NONE" /\ {"owner", "baseline"} \subseteq DOMAIN NoMilestone
  BY DEF NoMilestone
<1>2. \A m \in Milestone : milestones[m] = NoMilestone
  BY DEF SystemInit
<1> QED BY <1>1, <1>2 DEF SystemInit, OwnTerms, Owned

\* The calls of the contract that leave the reviews alone.
LEMMA CallOwnTerms ==
    ASSUME SInv, OwnTerms, NEW k \in Milestone, accepted' = accepted,
           \/ QuietCall(k)
           \/ \E who \in Account : ChallengeMilestone(k, who)
           \/ \E id \in ReviewId : QueueSettlement(k, id)
    PROVE  OwnTerms'
<1>0. /\ Decided \subseteq DOMAIN milestones[k]
      /\ Owned(milestones[k])
      /\ milestones[k].status = "REVIEWED" => reviews[milestones[k].review].milestone = k
  BY DEF SInv, ContractSound, Typed, OwnTerms
<1> USE DEF Decided
\* What becomes of the record, but when the milestone is created.
<1> DEFINE Becomes(r) ==
        /\ {"owner", "baseline"} \subseteq DOMAIN r
        /\ r.owner = milestones[k].owner /\ r.baseline = milestones[k].baseline
        /\ milestones[k].status # "NONE"
        /\ \/ r.status # "REVIEWED"
           \/ r.status = milestones[k].status /\ r.review = milestones[k].review
<1>1. ASSUME NEW r, Becomes(r), milestones' = [milestones EXCEPT ![k] = r],
             reviews' = reviews, \A msg \in net' : msg \in net \/ msg.type # "register"
      PROVE  OwnTerms'
  <2>1. Owned(r) /\ (r.status = "REVIEWED" => reviews'[r.review].milestone = k)
    BY <1>0, <1>1 DEF Owned
  <2> QED BY <1>1, <2>1, OwnTermsKept
<1>2. ASSUME NEW who \in Account, CreateMilestone(k, who)
      PROVE  OwnTerms'
  <2> DEFINE b == accepted[Agreed[k].project].baseline
             r == [NoMilestone EXCEPT !.status = "DRAFT", !.owner = who, !.baseline = b]
  <2>1. /\ milestones' = [milestones EXCEPT ![k] = r]
        /\ accepted[Agreed[k].project] # <<>>
        /\ reviews' = reviews /\ net' = net
    BY <1>2 DEF CreateMilestone
  <2>2. b \in Baseline
    BY <2>1, AgreedAssumption DEF OwnTerms
  <2>3. /\ r.status = "DRAFT" /\ r.owner = who /\ r.baseline = b
        /\ {"owner", "baseline"} \subseteq DOMAIN r
    BY DEF NoMilestone
  <2> HIDE DEF r, b
  <2>4. Owned(r)
    BY <2>2, <2>3 DEF Owned
  <2> QED BY <2>1, <2>3, <2>4, OwnTermsKept
<1>3. ASSUME NEW who \in Account, ActivateMilestone(k, who)
      PROVE  OwnTerms'
  <2> DEFINE r == [milestones[k] EXCEPT !.status = "ACTIVE"]
  <2>1. /\ milestones' = [milestones EXCEPT ![k] = r] /\ reviews' = reviews
        /\ net' = net /\ milestones[k].status = "DRAFT"
    BY <1>3 DEF ActivateMilestone
  <2>2. Becomes(r)
    BY <1>0, <2>1 DEF Owned
  <2> QED BY <1>1, <2>1, <2>2
<1>4. ASSUME NEW who \in Account, SubmitMilestone(k, who)
      PROVE  OwnTerms'
  <2> DEFINE r == [milestones[k] EXCEPT !.version = @ + 1, !.ready = {}, !.text = FALSE,
                       !.reviewQueued = FALSE, !.repair = "", !.status = "SUBMITTED"]
  <2>1. /\ milestones' = [milestones EXCEPT ![k] = r] /\ reviews' = reviews
        /\ net' = net /\ milestones[k].status # "NONE"
    BY <1>4 DEF SubmitMilestone
  <2>2. Becomes(r)
    BY <1>0, <2>1 DEF Owned
  <2> HIDE DEF r
  <2> QED BY <1>1, <2>1, <2>2
<1>5. ASSUME NEW who \in Account, MarkMilestoneReady(k, who)
      PROVE  OwnTerms'
  <2> DEFINE r == [milestones[k] EXCEPT !.ready = @ \cup {who}]
  <2>1. /\ milestones' = [milestones EXCEPT ![k] = r] /\ reviews' = reviews
        /\ net' = net /\ milestones[k].status = "SUBMITTED"
    BY <1>5 DEF MarkMilestoneReady
  <2>2. Becomes(r)
    BY <1>0, <2>1 DEF Owned
  <2> HIDE DEF r
  <2> QED BY <1>1, <2>1, <2>2
<1>6. ASSUME milestones[k].status \in {"SUBMITTED", "CHALLENGED"}, RequireRepair(k), net' = net
      PROVE  OwnTerms'
  <2>1. PICK code \in Failures : milestones' = [milestones EXCEPT ![k] =
                        [@ EXCEPT !.status = "REPAIR_REQUIRED", !.repair = code]]
    BY <1>6 DEF RequireRepair
  <2> DEFINE r == [milestones[k] EXCEPT !.status = "REPAIR_REQUIRED", !.repair = code]
  <2>2. milestones' = [milestones EXCEPT ![k] = r] /\ reviews' = reviews
    BY <1>6, <2>1 DEF RequireRepair
  <2>3. Becomes(r)
    BY <1>0, <1>6 DEF Owned
  <2> HIDE DEF r
  <2> QED BY <1>1, <1>6, <2>2, <2>3
<1>7. ASSUME NEW who \in Account, ChallengeMilestone(k, who)
      PROVE  OwnTerms'
  <2> DEFINE r == [milestones[k] EXCEPT !.status = "CHALLENGED", !.text = TRUE,
                                        !.challenges = Append(@, 0)]
  <2>1. /\ milestones' = [milestones EXCEPT ![k] = r] /\ reviews' = reviews
        /\ net' = net /\ milestones[k].status = "REVIEWED"
    BY <1>7 DEF ChallengeMilestone, Challengeable
  <2>2. Becomes(r)
    BY <1>0, <2>1 DEF Owned
  <2> HIDE DEF r
  <2> QED BY <1>1, <2>1, <2>2
<1>8. ASSUME RecoverMilestone(k) \/ \E id \in ReviewId : QueueSettlement(k, id)
      PROVE  OwnTerms'
  <2> DEFINE r == [milestones[k] EXCEPT !.queued = TRUE]
  <2>1. /\ milestones' = [milestones EXCEPT ![k] = r] /\ reviews' = reviews
        /\ milestones[k].status # "NONE"
    BY <1>8 DEF RecoverMilestone, QueueSettlement, Settleable
  <2>2. \A msg \in net' : msg \in net \/ msg.type # "register"
    BY <1>8 DEF RecoverMilestone, QueueSettlement, Emit, Recover, Outcome
  <2>3. Becomes(r)
    BY <1>0, <2>1 DEF Owned
  <2> HIDE DEF r
  <2> QED BY <1>1, <2>1, <2>2, <2>3
<1>9. ASSUME RegisterInVault(k)
      PROVE  OwnTerms'
  <2>1. /\ milestones' = milestones /\ reviews' = reviews /\ net' = net \cup {Register(k)}
        /\ milestones[k].status # "NONE"
    BY <1>9 DEF RegisterInVault, Emit
  <2>2. Register(k).terms \in V!E!Terms
    BY <2>1, TermsTyped DEF Register
  <2>3. V!E!Terms' = V!E!Terms
    BY DEF V!E!Terms
  <2> QED BY <2>1, <2>2, <2>3 DEF OwnTerms, Owned
<1> QED BY <1>2, <1>3, <1>4, <1>5, <1>6, <1>7, <1>8, <1>9 DEF QuietCall

\* A new review replaces none and names the milestone it is recorded for.
LEMMA ReviewOwnTerms ==
    ASSUME SInv, OwnTerms, NEW k \in Milestone, NEW resolves \in BOOLEAN,
           RecordVerdict(k, resolves), milestones[k].status # "NONE",
           net' = net, accepted' = accepted
    PROVE  OwnTerms'
<1> DEFINE id == NextReviewId
           r == [milestones[k] EXCEPT !.status = "REVIEWED", !.review = id,
                     !.challengeDeadline = now + Agreed[k].challengeWindow,
                     !.queued = FALSE, !.repair = "",
                     !.challenges = IF resolves THEN Resolved(@, id) ELSE @]
<1>0. /\ Decided \subseteq DOMAIN milestones[k] /\ Owned(milestones[k])
      /\ DOMAIN reviews = ReviewId
  BY DEF SInv, ContractSound, Typed, OwnTerms
<1>1. id \in ReviewId /\ milestones' = [milestones EXCEPT ![k] = r]
  BY DEF RecordVerdict
<1>2. PICK record : reviews' = [reviews EXCEPT ![id] = record] /\ record.milestone = k
  <2>1. PICK decision \in Decision :
            reviews' = [reviews EXCEPT ![id] =
                [milestone |-> k, request |-> 0, version |-> milestones[k].version,
                 challenges |-> Len(milestones[k].challenges), rule |-> DecisionRule[decision]]]
    BY DEF RecordVerdict
  <2> DEFINE record == [milestone |-> k, request |-> 0, version |-> milestones[k].version,
                        challenges |-> Len(milestones[k].challenges),
                        rule |-> DecisionRule[decision]]
  <2>2. record.milestone = k /\ reviews' = [reviews EXCEPT ![id] = record]
    BY <2>1
  <2> HIDE DEF record
  <2> QED BY <2>2
<1>3. id \notin Recorded
  BY NextIsFree DEF SInv, ContractSound
<1>4. r.review = id /\ Owned(r)
  BY <1>0 DEF Owned, Decided
<1> HIDE DEF r, id
<1>5. reviews'[id] = record /\ \A other \in Recorded : reviews'[other] = reviews[other]
  BY <1>0, <1>1, <1>2, <1>3 DEF Recorded
<1> QED BY <1>1, <1>2, <1>4, <1>5, OwnTermsKept

LEMMA NextOwnTerms == SInv /\ OwnTerms /\ [SystemNext]_systemVars => OwnTerms'
<1> SUFFICES ASSUME SInv, OwnTerms, [SystemNext]_systemVars PROVE OwnTerms'
  OBVIOUS
<1>1. CASE UNCHANGED <<net, accepted, milestones, reviews>>
  BY <1>1 DEF OwnTerms, Owned, V!E!Terms
<1>2. ASSUME NEW p \in Project, NEW sponsor \in Sponsor, NEW baseline \in Baseline,
             RegisterAcceptedProject(p, sponsor, baseline)
      PROVE  OwnTerms'
  <2>1. /\ DOMAIN accepted' = Project
        /\ \A q \in Project : accepted'[q] # <<>> => accepted'[q].baseline \in Baseline
    BY <1>2 DEF RegisterAcceptedProject, OwnTerms
  <2> QED BY <1>2, <2>1 DEF RegisterAcceptedProject, OwnTerms, Owned, V!E!Terms
<1>3. ASSUME NEW m \in Milestone,
             \/ QuietCall(m)
             \/ \E who \in Account : ChallengeMilestone(m, who)
             \/ \E id \in ReviewId : QueueSettlement(m, id),
             accepted' = accepted
      PROVE  OwnTerms'
  BY <1>3, CallOwnTerms
<1>4. ASSUME NEW m \in Milestone, ReviewSubmission(m) \/ ReviewChallenge(m)
      PROVE  OwnTerms'
  <2>1. /\ RequireRepair(m) \/ \E resolves \in BOOLEAN : RecordVerdict(m, resolves)
        /\ milestones[m].status \in {"SUBMITTED", "CHALLENGED"}
        /\ net' = net /\ accepted' = accepted
    BY <1>4 DEF ReviewSubmission, ReviewChallenge, Resolve, Unaffected
  <2>2. CASE RequireRepair(m)
    BY <1>3, <2>1, <2>2 DEF QuietCall
  <2>3. CASE \E resolves \in BOOLEAN : RecordVerdict(m, resolves)
    BY <2>1, <2>3, ReviewOwnTerms
  <2> QED BY <2>1, <2>2, <2>3
<1>5. CASE ContractCall
  <2>1. CASE \E p \in Project, sponsor \in Sponsor, baseline \in Baseline :
                RegisterAcceptedProject(p, sponsor, baseline)
    BY <1>2, <2>1
  <2>2. CASE SponsorStep
    <3>1. ASSUME NEW who \in Account, BindVault(who) PROVE OwnTerms'
      BY <1>1, <3>1 DEF BindVault
    <3>2. ASSUME NEW who \in Account, NEW m \in Milestone,
                 CreateMilestone(m, who) \/ ActivateMilestone(m, who)
          PROVE  OwnTerms'
      BY <1>3, <3>2 DEF QuietCall, CreateMilestone, ActivateMilestone, Unaffected
    <3> QED BY <2>2, <3>1, <3>2 DEF SponsorStep
  <2>3. CASE SubmissionStep
    BY <1>3, <2>3 DEF SubmissionStep, QuietCall, SubmitMilestone, MarkMilestoneReady, Unaffected
  <2>4. CASE ChallengeStep
    BY <1>3, <2>4 DEF ChallengeStep, ChallengeMilestone, Unaffected
  <2>5. CASE SettlementStep
    BY <1>3, <2>5 DEF SettlementStep, QuietCall, QueueSettlement, RecoverMilestone, Unaffected
  <2>6. ASSUME NEW m \in Milestone, RegisterInVault(m) PROVE OwnTerms'
    BY <1>3, <2>6 DEF QuietCall, RegisterInVault, Unaffected
  <2> QED BY <1>4, <1>5, <2>1, <2>2, <2>3, <2>4, <2>5, <2>6 DEF ContractCall, ContractStep
<1>6. CASE SystemTick \/ VaultCall \/ (\E msg \in net : Deliver(msg)) \/ UNCHANGED systemVars
  BY <1>1, <1>6 DEF SystemTick, VaultCall, Deliver, registryVars, systemVars, vars
<1> QED BY <1>5, <1>6 DEF SystemNext

LEMMA OwnTermsInvariant == SystemSpec => []OwnTerms
BY InitOwnTerms, NextOwnTerms, SettlementInvariant, PTL DEF SystemSpec

-----------------------------------------------------------------------------
\* The log whose first event applied the outcome of review id.
Applies(id, events) ==
    events # <<>> /\ Head(events).kind = "VerdictApplied" /\ Head(events).case = id

\* The reviews whose outcome was applied: no state of this Vault, but what
\* processedCases of the other one would be.
Applied == {id \in ReviewId : \E m \in Milestone : Applies(id, log[m])}

B == INSTANCE EscrowVaultProofs
    WITH Handoff <- Milestone, Case <- ReviewId, Binding <- Baseline,
         Offered <- V!E!Terms, processed <- Applied

\* What EscrowVault assumes of its constants holds of the constants it gets here.
LEMMA VaultAssumptions == B!FiniteAssumption /\ B!OfferedAssumption
BY FiniteAssumption DEF V!E!FiniteAssumption, B!FiniteAssumption, B!OfferedAssumption,
   V!E!Terms, B!Terms, V!E!IsFiniteSet, B!IsFiniteSet, IsFiniteSet

\* An escrow that expires applies no outcome.
LEMMA ExpiryAppliesNone ==
    ASSUME EscrowSound, NEW m \in Milestone, NEW e, e.kind = "EscrowRecovered",
           log[m] = <<>>, log' = [log EXCEPT ![m] = <<e>>]
    PROVE  Applied' = Applied
<1>1. \A id : ~Applies(id, <<>>) /\ ~Applies(id, <<e>>)
  <2>1. Head(<<e>>) = e
    OBVIOUS
  <2> QED BY <2>1 DEF Applies
<1>2. /\ log'[m] = <<e>>
      /\ \A k \in Milestone \ {m} : log'[k] = log[k]
  BY DEF EscrowSound
<1>3. \A k \in Milestone, id \in ReviewId : Applies(id, log'[k]) <=> Applies(id, log[k])
  BY <1>1, <1>2
<1> QED BY <1>3 DEF Applied, Applies

\* The outcome that stands for m was applied to no other escrow.
LEMMA OutcomeIsFresh ==
    ASSUME SInv, OwnTerms, NEW m \in Milestone, NEW id, NEW r, Stands(m, id, r), log[m] = <<>>
    PROVE  id \in ReviewId /\ r \in 1..3 /\ id \notin Applied
<1>1. ASSUME NEW k \in Milestone, NEW i, NEW x, Stands(k, i, x)
      PROVE  i \in ReviewId /\ x \in 1..3 /\ reviews[i].milestone = k
  BY <1>1 DEF SInv, ContractSound, VerdictRecorded, Recorded, OwnTerms, Stands, Rule
<1>2. ASSUME NEW k \in Milestone, Applies(id, log[k])
      PROVE  FALSE
  <2>1. Stands(k, id, Head(log[k]).rule)
    BY <1>2 DEF SInv, EscrowSound, Closed, Backed, Applies
  <2>2. k = m
    BY <1>1, <2>1
  <2> QED BY <1>2, <2>2 DEF Applies
<1> QED BY <1>1, <1>2 DEF Applied

-----------------------------------------------------------------------------
\* What the accounts and the contract do to one escrow, outcomes aside.
LEMMA EscrowCalls ==
    ASSUME NEW m \in Milestone, Applied' = Applied
    PROVE  /\ \A a : V!FundMilestone(m, a) => B!FundHandoff(m, a)
           /\ \A a : V!PostBond(m, a) => B!PostBond(m, a)
           /\ V!RecoverUnactivated(m) => B!RecoverUnactivated(m)
           /\ V!RecoverActive(m) => B!RecoverActive(m)
           /\ \A t : V!RegisterMilestone(m, t) => B!RegisterHandoff(m, t)
BY DEF V!FundMilestone, V!PostBond, V!RecoverUnactivated, V!RecoverActive, V!RegisterMilestone,
   V!E!FundHandoff, V!E!PostBond, V!E!RecoverUnactivated, V!E!RecoverActive, V!E!RegisterHandoff,
   B!FundHandoff, B!PostBond, B!RecoverUnactivated, B!RecoverActive, B!RegisterHandoff,
   V!E!Close, B!Close, V!E!Credit, B!Credit, V!E!EscrowRecovered, B!EscrowRecovered,
   V!E!ValidTerms, B!ValidTerms, V!E!TopLevel, B!TopLevel

\* An outcome that is applied is a verdict of a case not yet processed.
LEMMA OutcomeIsVerdict ==
    ASSUME SInv, OwnTerms, Persists, NEW msg \in net, msg.type = "outcome",
           NEW m \in Milestone, m = msg.milestone, NEW digest \in Baseline,
           V!ApplyFinalOutcome(m, digest, msg.review, msg.rule)
    PROVE  B!ControllerMessage(m)
<1> DEFINE id == msg.review
           r == msg.rule
           e == V!E!VerdictApplied(id, r)
<1>1. log[m] = <<>> /\ log' = [log EXCEPT ![m] = <<e>>]
  BY OutcomeApplied DEF SInv
<1>2. id \in ReviewId /\ r \in 1..3 /\ id \notin Applied
  <2>1. Stands(m, id, r)
    BY DEF SInv, InstructionsStand
  <2> QED BY <1>1, <2>1, OutcomeIsFresh
<1>3. e.kind = "VerdictApplied" /\ e.case = id
  BY DEF V!E!VerdictApplied
<1>4. Applied' = Applied \cup {id}
  <2> HIDE DEF e
  <2>1. \A i : ~Applies(i, <<>>) /\ (Applies(i, <<e>>) <=> i = id)
    <3>1. Head(<<e>>) = e /\ <<e>> # <<>>
      OBVIOUS
    <3> QED BY <1>3, <3>1 DEF Applies
  <2>2. /\ log'[m] = <<e>>
        /\ \A k \in Milestone \ {m} : log'[k] = log[k]
    BY <1>1 DEF SInv, EscrowSound
  <2>3. \A i \in ReviewId :
          (\E k \in Milestone : Applies(i, log'[k])) <=>
          (\E k \in Milestone : Applies(i, log[k])) \/ i = id
    BY <1>1, <2>1, <2>2
  <2> QED BY <1>2, <2>3 DEF Applied, Applies
<1>5. B!ApplyFinalVerdict(id, m, digest, r)
  BY <1>2, <1>4 DEF V!ApplyFinalOutcome, V!Applicable, V!TopLevel, V!E!TopLevel,
     B!ApplyFinalVerdict, B!TopLevel, V!E!Close, B!Close, V!E!VerdictApplied, B!VerdictApplied,
     V!E!Consequence, B!Consequence, V!E!Credit, B!Credit, V!E!RELEASE_PROVIDER,
     B!RELEASE_PROVIDER, V!E!PROVIDER_BREACH, B!PROVIDER_BREACH
<1> QED BY <1>2, <1>5 DEF B!ControllerMessage, B!Rule

-----------------------------------------------------------------------------
\* Every step of the system is one of the escrow, or none.
LEMMA StepOfEscrow ==
    ASSUME SInv, OwnTerms, [SystemNext]_systemVars
    PROVE  [B!Next]_(B!vars)
<1>1. ASSUME log' = log PROVE Applied' = Applied
  BY <1>1 DEF Applied, Applies
<1>2. CASE UNCHANGED systemVars \/ ContractCall
  <2>1. ContractStep => now' = now
    BY DEF ContractStep, SponsorStep, SubmissionStep, ChallengeStep, SettlementStep,
       RegisterAcceptedProject, BindVault, CreateMilestone, ActivateMilestone, SubmitMilestone,
       MarkMilestoneReady, ChallengeMilestone, QueueSettlement, RecoverMilestone,
       RegisterInVault, ReviewSubmission, ReviewChallenge, Resolve, Unaffected
  <2>2. now' = now /\ UNCHANGED vaultVars
    BY <1>2, <2>1 DEF ContractCall, systemVars, vars
  <2> QED BY <1>1, <2>2 DEF vaultVars, B!vars
<1>3. CASE SystemTick
  <2>1. Applied' = Applied
    BY <1>1, <1>3 DEF SystemTick, V!Tick, V!E!Tick
  <2>2. B!Tick
    BY <1>3, <2>1 DEF SystemTick, V!Tick, V!E!Tick, B!Tick, V!E!TopLevel, B!TopLevel
  <2> QED BY <2>2 DEF B!Next
<1>4. Persists \/ ~(VaultCall \/ \E msg \in net : Deliver(msg))
  BY RestingIsQuiet DEF VaultCall, Deliver, registryVars, ContractRests
<1>5. ASSUME Persists, NEW m \in Milestone,
             \/ \E a \in Account : V!FundMilestone(m, a) \/ V!PostBond(m, a)
             \/ \E t \in V!E!Terms : V!RegisterMilestone(m, t)
             \/ V!RecoverUnactivated(m)
             \/ V!RecoverActive(m)
      PROVE  B!Next
  <2>1. \/ log' = log
        \/ \E e : e.kind = "EscrowRecovered" /\ log[m] = <<>> /\ log' = [log EXCEPT ![m] = <<e>>]
    BY <1>5, VaultStep DEF SInv
  <2>2. Applied' = Applied
    BY <1>1, <2>1, ExpiryAppliesNone DEF SInv
  <2> QED BY <1>5, <2>2, EscrowCalls DEF B!Next, B!AccountCall, B!ControllerMessage
<1>6. CASE VaultCall
  BY <1>4, <1>5, <1>6 DEF VaultCall
<1>7. ASSUME NEW msg \in net, Deliver(msg)
      PROVE  B!Next
  <2>1. /\ Persists /\ msg.milestone \in Milestone
        /\ msg.type = "register" => msg.terms \in V!E!Terms
    BY <1>4, <1>7 DEF SInv, InstructionsStand, OwnTerms
  <2>2. CASE \/ msg.type = "register" /\ V!RegisterMilestone(msg.milestone, msg.terms)
             \/ V!RecoverActive(msg.milestone)
    BY <1>5, <2>1, <2>2
  <2>3. CASE /\ msg.type = "outcome"
             /\ V!ApplyFinalOutcome(msg.milestone, milestones[msg.milestone].baseline,
                                    msg.review, msg.rule)
    <3> DEFINE m == msg.milestone
    <3>1. milestones[m].status = "REVIEWED"
      BY <2>3 DEF SInv, InstructionsStand, Stands
    <3>2. milestones[m].baseline \in Baseline
      BY <2>1, <3>1 DEF OwnTerms, Owned
    <3>3. B!ControllerMessage(m)
      BY <2>1, <2>3, <3>2, OutcomeIsVerdict
    <3> QED BY <2>1, <3>3 DEF B!Next
  <2> QED BY <1>7, <2>2, <2>3 DEF Deliver
<1> QED BY <1>2, <1>3, <1>6, <1>7 DEF SystemNext

\* It starts as an escrow does.
LEMMA InitOfEscrow == SystemInit => B!Init
<1> SUFFICES ASSUME SystemInit PROVE B!Init
  OBVIOUS
<1>1. Applied = {}
  BY DEF SystemInit, V!Init, V!E!Init, Applied, Applies
<1> QED BY <1>1 DEF SystemInit, V!Init, V!E!Init, B!Init

\* Driven by the single milestone contract, the Vault makes steps of EscrowVault only,
\* each outcome being the verdict of a review not yet processed.  None of them is a
\* withdrawal: this system has none.
THEOREM SingleVaultIsEscrow == SystemSpec => B!Spec
BY StepOfEscrow, InitOfEscrow, SettlementInvariant, OwnTermsInvariant, PTL
   DEF SystemSpec, B!Spec

\* Whatever the single milestone contract instructs, its Vault holds what the live
\* escrows were funded with and what it owes, owes what the ended escrows awarded, and
\* ends each escrow at most once, no review paying out two of them.  Withdrawals are
\* left out here: they are in MilestoneSystem, over the same Vault.
THEOREM SingleIsSolvent ==
    SystemSpec => /\ [](/\ B!Solvent /\ B!ExactEntitlement
                          /\ B!EndsOnce /\ B!ProcessedCaseSettledOne)
                  /\ B!EndIsFinal
<1>1. /\ B!Spec => []B!Solvent
      /\ B!Spec => []B!ExactEntitlement
      /\ B!Spec => []B!EndsOnce
      /\ B!Spec => []B!ProcessedCaseSettledOne
      /\ B!Spec => B!EndIsFinal
  BY VaultAssumptions, B!VaultIsSolvent, B!EntitlementIsExact, B!EscrowEndsOnce,
     B!CaseSettlesOne, B!EndingIsFinal
<1> QED BY <1>1, SingleVaultIsEscrow, PTL
=============================================================================
