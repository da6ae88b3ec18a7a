---------------------------- MODULE DisputeSystem ----------------------------
(***************************************************************************)
(* Registry, Adjudicator and Vault of the case protocol together.  Each    *)
(* contract's transactions are those of its own module; here are the       *)
(* messages between them, delivered late, more than once or never, the     *)
(* views they read of each other, and one clock.                           *)
(***************************************************************************)
EXTENDS Integers, Sequences, FiniteSets

CONSTANTS
    Handoff, Account, Owner, Agreed, WorkflowDeadline,
    Issuer, Source, FreshUntil, MinIssuers, MinPublishers, BreachRule,
    ResponseWindow, RepairWindow, ReviewRecovery,
    EvidenceLimit, Deployed,
    Withdrawers,  \* bound: accounts whose withdrawals are explored
    MaxEvidence, MaxEvidenceVersion, MaxRevision, MaxVersion, MaxTime

VARIABLES
    now, net,
    workflow, version, acceptedAt, context, adjudicatorBound, vaultBound,
    boundVault, cases, revisions, evidence, latest, verdicts,
    status, terms, processed, claimable, balance, paid, log, frames

registryVars == <<workflow, version, acceptedAt, context, adjudicatorBound, vaultBound>>
adjudicatorVars == <<boundVault, cases, revisions, evidence, latest, verdicts>>
vaultVars == <<status, terms, processed, claimable, balance, paid, log, frames>>
vars == <<now, net, registryVars, adjudicatorVars, vaultVars>>

R == INSTANCE HandoffRegistry WITH Snapshots <- {}

A == INSTANCE CaseAdjudicator
    WITH Case <- Handoff, Contexts <- {}, Deliveries <- {},
         Requester <- [h \in Handoff |-> Agreed[h].requester],
         Provider <- [h \in Handoff |-> Agreed[h].provider]

V == INSTANCE EscrowVault
    WITH Case <- Handoff, Binding <- {Agreed[h].binding : h \in Handoff},
         Offered <- {Agreed[h] : h \in Handoff}

\* What each contract assumes of its inputs: create_evidence_policy, add_handoff and
\* _normalize_criteria checked it, and Registry and Vault are given the same terms.
ASSUME SystemAssumption ==
    /\ R!PolicyAssumption
    /\ R!AgreedAssumption
    /\ A!PolicyAssumption
    /\ A!InputAssumption
    /\ A!PartiesAssumption
    /\ V!FiniteAssumption
    /\ V!OfferedAssumption
    /\ Withdrawers \subseteq Account

Init == R!Init /\ A!Init /\ V!Init

\* An EVM transaction is atomic: while one is open, only its own re-entrant calls
\* run, and neither time passes nor any other transaction starts.
TopLevel == V!TopLevel

Tick == V!Tick /\ UNCHANGED <<net, registryVars, adjudicatorVars>>

-----------------------------------------------------------------------------
(* Transactions of accounts.                                               *)

RegistryCall ==
    /\ TopLevel
    /\ R!RegistryStep
    /\ UNCHANGED <<adjudicatorVars, vaultVars>>

AdjudicatorCall ==
    /\ TopLevel
    /\ A!AdjudicatorStep
    /\ UNCHANGED <<registryVars, vaultVars>>

VaultCall ==
    /\ \/ \E h \in Handoff : V!AccountCall(h)
       \/ \E a \in Withdrawers : V!Withdraw(a)
       \/ V!WithdrawReturns
       \/ V!WithdrawReverts
    /\ UNCHANGED <<net, registryVars, adjudicatorVars>>

\* The two calls that read another contract's state as they run.
RepairSnapshot(h) ==
    [status |-> cases[h].status, queued |-> cases[h].queued,
     recoveryDeadline |-> cases[h].recoveryDeadline, failure |-> cases[h].failure]

RepairDelivery(h, who) ==
    /\ TopLevel
    /\ cases[h].status # "NONE"
    /\ R!RepairHandoffDelivery(h, who, RepairSnapshot(h))
    /\ UNCHANGED <<adjudicatorVars, vaultVars>>

ResolveCase(h) ==
    /\ TopLevel
    /\ A!ResolveCase(h, version[h])
    /\ UNCHANGED <<registryVars, vaultVars>>

-----------------------------------------------------------------------------
(* Deliveries of finalized messages.                                       *)

DeliverInitialize(h) ==
    /\ TopLevel
    /\ R!Initialize(h) \in net
    /\ A!InitializeCase(h, context[h]) \/ A!InitializationIgnored(h)
    /\ UNCHANGED <<registryVars, vaultVars>>

DeliverRegister(h) ==
    /\ R!Register(h) \in net
    /\ V!RegisterHandoff(h, Agreed[h]) \/ V!RegistrationIgnored(h, Agreed[h])
    /\ UNCHANGED <<net, registryVars, adjudicatorVars>>

DeliverComplete(h) ==
    /\ \E v \in 1..MaxVersion : R!Complete(h, v) \in net
    /\ \/ V!ApplyHandoffCompletion(h, Agreed[h].binding)
       \/ V!CompletionIgnored(h, Agreed[h].binding)
    /\ UNCHANGED <<net, registryVars, adjudicatorVars>>

DeliverVerdict(h, r) ==
    /\ A!ApplyVerdict(h, r) \in net
    /\ \/ V!ApplyFinalVerdict(h, h, Agreed[h].binding, r)
       \/ V!VerdictIgnored(h, h, Agreed[h].binding)
    /\ UNCHANGED <<net, registryVars, adjudicatorVars>>

Next ==
    \/ Tick
    \/ RegistryCall
    \/ AdjudicatorCall
    \/ VaultCall
    \/ \E h \in Handoff :
        \/ \E who \in Account : RepairDelivery(h, who)
        \/ ResolveCase(h)
        \/ DeliverInitialize(h)
        \/ DeliverRegister(h)
        \/ DeliverComplete(h)
        \/ \E r \in 1..3 : DeliverVerdict(h, r)

Spec == Init /\ [][Next]_vars

-----------------------------------------------------------------------------
(* Properties.                                                             *)

\* What a settled escrow paid is what was decided for its handoff: a completion
\* only after the requester's acceptance, a consequence only as the rule of the
\* verdict the case is queued with or as the neutral rule of a recovered case,
\* however late, often or early the messages arrived.
SettledAsDecided ==
    \A h \in Handoff :
        /\ log[h] = <<V!HandoffCompleted>> => R!Accepted(h)
        /\ \A c \in Handoff, r \in 1..3 :
            log[h] = <<V!VerdictApplied(c, r)>> =>
                /\ c = h
                /\ \/ cases[h].queued /\ r = verdicts[cases[h].verdict].rule
                   \/ cases[h].status = "RECOVERED" /\ r = A!NEUTRAL_RECOVERY

\* Never are both kinds of payout instruction under way for one handoff: the
\* dispute lock is set before the case exists, so a completion and a verdict
\* cannot race to the Vault.
NoRivalInstructions ==
    \A h \in Handoff :
        ~ /\ \E v \in 1..MaxVersion : R!Complete(h, v) \in net
          /\ \E r \in 1..3 : A!ApplyVerdict(h, r) \in net

\* A reviewed verdict is about the delivery the Registry still shows: a delivery
\* repair cannot slip in between the review and the settlement.
ReviewedDeliveryIsCurrent ==
    \A h \in Handoff :
        cases[h].status = "REVIEWED" => verdicts[cases[h].verdict].delivery = version[h]

\* When the Vault has recovered an active escrow, the case can neither be queued
\* for the first time, revised nor have its delivery repaired any more: no one is
\* led into a settlement the Vault will ignore.
NoDecisionAfterExpiry ==
    \A h \in Handoff :
        log[h] = <<V!EscrowRecovered("FINAL_VERDICT_DEADLINE_EXPIRED")>> =>
            /\ ~A!FirstQueue(h)
            /\ ~A!Revisable(h)
            /\ R!HasCase(h) => now > context[h].recoveryDeadline

\* A queued settlement is sent again only while the Vault reports ACTIVE
\* (docs/STATE_MACHINE.md:68).
RequeueOnlyWhileActive == \A h \in Handoff : A!Requeue(h) => status[h] = "ACTIVE"

-----------------------------------------------------------------------------
(* The promise the system implements.  An escrow's outcome is that of its  *)
(* committed transactions.                                                 *)

RuleName == <<"release", "breach", "neutral">>

Fate ==
    [h \in Handoff |->
        IF R!Accepted(h) THEN "accepted"
        ELSE IF cases[h].queued THEN RuleName[verdicts[cases[h].verdict].rule]
        ELSE IF cases[h].status = "RECOVERED" THEN "neutral"
        ELSE IF R!HasCase(h) THEN "disputed"
        ELSE "open"]

OutcomeOf(events) ==
    IF events = <<>> THEN "pending"
    ELSE LET e == Head(events)
         IN  CASE e.kind = "HandoffCompleted" -> "accepted"
               [] e.kind = "VerdictApplied" -> RuleName[e.rule]
               [] OTHER -> "expired"

P == INSTANCE SettlementPromise
    WITH fate <- Fate, outcome <- [h \in Handoff |-> OutcomeOf(V!CommittedLog[h])]

\* The three contracts keep the promise of SettlementPromise: one irrevocable fate
\* per handoff, one ending per escrow, settled only as the fate says.
KeepsPromise == P!Spec
=============================================================================
