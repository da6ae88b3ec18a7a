------------------------------ MODULE CoreSystem ------------------------------
(***************************************************************************)
(* contracts/verdict_graph_core.py, the single-contract predecessor of     *)
(* Registry and Adjudicator, with its Vault, from the first policy to the  *)
(* last payout.                                                            *)
(*                                                                         *)
(* Most of its functions are those of the split contracts, statement for   *)
(* statement, and are taken from their modules.  What differs is here: one *)
(* transaction opens a case, deliveries and cases are read in place, the   *)
(* Vault is asked for the escrow's status before an acceptance, a dispute  *)
(* or a repeated settlement, and its final status is copied back.          *)
(*                                                                         *)
(* Policy 1 and workflow 1 of one owner; other owners' are WorkflowSetup's *)
(* concern, withdrawals EscrowVault's and DisputeSystem's.  The Vault of   *)
(* this contract has one controller and is not in the repository: it is    *)
(* taken to be the escrow of EscrowVault.                                  *)
(***************************************************************************)
EXTENDS Integers, Sequences, FiniteSets

CONSTANTS
    Handoff, Account, Owner,
    Agreed,            \* terms the owner will add each handoff with
    OwnerPolicy,       \* terms the owner will create the policy with
    WorkflowDeadline, Prefix, Source, FreshUntil, EvidenceLimit,
    MaxPolicyMembers, MaxHandoffs, MaxDependencies,
    Hasty,             \* bound: parties who may mark a revision ready
    MaxEvidence, MaxEvidenceVersion, MaxRevision, MaxVersion, MaxTime

VARIABLES
    now, net,
    policies, workflows, handoffs,
    version, acceptedAt, vaultBound,
    cases, revisions, evidence, latest, verdicts,
    synced,    \* vault_terminal_status of the handoff or of its case, "NONE" if unset
    status, terms, processed, claimable, balance, paid, log, frames

draftVars == <<policies, workflows, handoffs>>
handoffVars == <<version, acceptedAt>>
caseVars == <<cases, revisions, evidence, latest, verdicts>>
vaultVars == <<status, terms, processed, claimable, balance, paid, log, frames>>
vars == <<now, net, draftVars, handoffVars, vaultBound, caseVars, synced, vaultVars>>

ResponseWindow == OwnerPolicy.responseWindow
ReviewRecovery == OwnerPolicy.reviewRecovery
MinIssuers == OwnerPolicy.minIssuers
MinPublishers == OwnerPolicy.minPublishers
Requester == [h \in Handoff |-> Agreed[h].requester]
Provider == [h \in Handoff |-> Agreed[h].provider]
BreachRule == UNION {Agreed[h].criteria : h \in Handoff}
HandoffTerms == {Agreed[h] : h \in Handoff}
OriginOf == [prefix \in Prefix |-> prefix]

D == INSTANCE WorkflowSetup
    WITH PolicyTerms <- {OwnerPolicy}, WorkflowDeadlines <- {WorkflowDeadline},
         MaxPolicy <- 1, MaxWorkflow <- 1, MaxHandoff <- Cardinality(Handoff)

\* Registry and Adjudicator are one contract: bound to each other from the first
\* block on, and a handoff is disputed exactly when it has a case.
R == INSTANCE HandoffRegistry
    WITH Snapshots <- {}, Deployed <- FALSE,
         workflow <- IF workflows = <<>> THEN "DRAFT" ELSE workflows[1].status,
         context <- [h \in Handoff |-> IF cases[h].status = "NONE" THEN <<>> ELSE <<"opened">>],
         adjudicatorBound <- now > 0

A == INSTANCE CaseAdjudicator
    WITH Case <- Handoff, Contexts <- {}, Deliveries <- {}, Issuer <- Account,
         RepairWindow <- OwnerPolicy.repairWindow,
         Deployed <- FALSE, boundVault <- vaultBound

V == INSTANCE EscrowVault WITH Case <- Handoff, Binding <- {}, Offered <- {}

\* Types of what the owner offers, and what create_evidence_policy, add_handoff and
\* _normalize_criteria let through of it: the rest never becomes a policy or a handoff.
\* Handoff ids are 256 and addresses 160 bits wide.
ASSUME CoreAssumption ==
    /\ D!OfferedAssumption
    /\ A!PolicyAssumption
    /\ A!InputAssumption
    /\ A!PartiesAssumption
    /\ Owner \in Account
    /\ V!FiniteAssumption

Init ==
    /\ D!Init /\ A!Init /\ V!Init
    /\ version = [h \in Handoff |-> 0]
    /\ acceptedAt = [h \in Handoff |-> 0]
    /\ synced = [h \in Handoff |-> "NONE"]

Tick ==
    /\ V!Tick
    /\ UNCHANGED <<net, draftVars, handoffVars, vaultBound, caseVars, synced>>

BindVault(who) ==
    /\ who = Owner
    /\ A!BindVault
    /\ UNCHANGED <<draftVars, handoffVars, synced, vaultVars>>

-----------------------------------------------------------------------------
(* The draft: as in WorkflowSetup.                                         *)

DraftStep(step) ==
    /\ V!TopLevel
    /\ step
    /\ UNCHANGED <<net, handoffVars, vaultBound, caseVars, synced, vaultVars>>

CreateEvidencePolicy == D!CreateEvidencePolicy(Owner, OwnerPolicy)
AddPolicyIssuer(issuer) == D!AddPolicyIssuer(1, Owner, issuer)
AddPolicyPublisher(prefix) == D!AddPolicyPublisher(1, Owner, prefix)
SealEvidencePolicy == D!SealEvidencePolicy(1, Owner)
CreateWorkflow == D!CreateWorkflow(Owner, 1, WorkflowDeadline)
AddHandoff(h) == h = Len(handoffs) + 1 /\ D!AddHandoff(1, Owner, Agreed[h])
AddHandoffDependency(h, d) == D!AddHandoffDependency(h, d, Owner)
ActivateWorkflow == D!ActivateWorkflow(1, Owner)

CloseWorkflow ==
    /\ workflows[1].status = "ACTIVE"
    /\ now > workflows[1].deadline
    /\ workflows' = [workflows EXCEPT ![1].status = "CLOSED"]
    /\ UNCHANGED <<now, policies, handoffs>>

Draft ==
    \/ DraftStep(CreateEvidencePolicy)
    \/ /\ policies # <<>>
       /\ \/ \E issuer \in Account : DraftStep(AddPolicyIssuer(issuer))
          \/ \E prefix \in Prefix : DraftStep(AddPolicyPublisher(prefix))
          \/ DraftStep(SealEvidencePolicy)
          \/ DraftStep(CreateWorkflow)
    \/ /\ workflows # <<>>
       /\ \/ \E h \in Handoff : DraftStep(AddHandoff(h))
          \/ \E h, d \in DOMAIN handoffs : DraftStep(AddHandoffDependency(h, d))
          \/ DraftStep(ActivateWorkflow)
          \/ DraftStep(CloseWorkflow)

-----------------------------------------------------------------------------
(* Deliveries, acceptance and the Vault's status.                          *)

HandoffStep(step) ==
    /\ V!TopLevel
    /\ UNCHANGED <<draftVars, vaultBound, caseVars, vaultVars>>
    /\ step

\* The Vault is asked once it is bound.
EscrowActive(h) == vaultBound => status[h] = "ACTIVE"

RegisterHandoffInVault(h) == R!RegisterHandoffInVault(h, Owner) /\ UNCHANGED synced

SubmitHandoffDelivery(h, who) == R!SubmitHandoffDelivery(h, who) /\ UNCHANGED synced

AcceptHandoffDelivery(h, who) ==
    /\ EscrowActive(h)
    /\ R!AcceptHandoffDelivery(h, who)
    /\ UNCHANGED synced

RetryHandoffCompletion(h, who) ==
    /\ EscrowActive(h)
    /\ R!RetryHandoffCompletion(h, who)
    /\ UNCHANGED synced

\* A disputed handoff stays active, so the case alone decides.
RepairHandoffDelivery(h, who) ==
    /\ cases[h].status # "NONE"
    /\ R!RepairHandoffDelivery(h, who,
           [status |-> cases[h].status, queued |-> cases[h].queued,
            recoveryDeadline |-> cases[h].recoveryDeadline, failure |-> cases[h].failure])
    /\ UNCHANGED synced

\* Faulty variant: whatever status is not active is taken for the final one.
NoLongerActive(h) == status[h] # "ACTIVE"
EscrowEnded(h) == status[h] \in {"SETTLED", "RECOVERED"}

SyncHandoffVaultStatus(h, who) ==
    /\ R!Accepted(h)
    /\ who \in R!Participants(h)
    /\ vaultBound
    /\ EscrowEnded(h)
    /\ synced' = [synced EXCEPT ![h] = status[h]]
    /\ UNCHANGED <<now, net, handoffVars>>

-----------------------------------------------------------------------------
(* Cases.                                                                  *)

CaseStep(step) ==
    /\ V!TopLevel
    /\ step
    /\ UNCHANGED <<draftVars, handoffVars, vaultVars>>

\* The case begins in the transaction that takes the dispute lock.
OpenCase(h, who) ==
    /\ workflows[1].status = "ACTIVE"
    /\ R!Undecided(h)
    /\ who \in {Owner} \cup R!Participants(h)
    /\ EscrowActive(h)
    /\ R!FitsHorizon(h)
    /\ A!InitializeCase(h, [responseDeadline |-> now + OwnerPolicy.responseWindow,
                            recoveryDeadline |-> now + OwnerPolicy.reviewRecovery])
    /\ UNCHANGED synced

\* The review as in CaseAdjudicator, its delivery read from the handoff.
StaleEvidence(h) ==
    \E e \in A!Stale(h) : /\ \A other \in A!Stale(h) : e <= other
                         /\ A!RequireRepair(h, "EVIDENCE_STALE", e)
DeliveryFails(h) ==
    version[h] > 0 /\ \E code \in A!DeliveryFailure : A!RequireRepair(h, code, 0)
ResponseFails(h) ==
    cases[h].response /\ \E code \in A!ResponseFailure : A!RequireRepair(h, code, 0)
SourceFails(h) ==
    \E e \in A!CurrentRevision(h).evidence, code \in A!SourceFailure : A!RequireRepair(h, code, e)
RecordVerdict(h) == \E r \in A!ReviewRule : A!RecordVerdict(h, r, version[h])

ResolveCase(h) ==
    /\ A!Reviewable(h)
    /\ \/ StaleEvidence(h)
       \/ /\ A!Stale(h) = {}
          /\ DeliveryFails(h) \/ ResponseFails(h) \/ SourceFails(h) \/ RecordVerdict(h)
    /\ UNCHANGED <<now, net, vaultBound, evidence, latest, synced>>

RegisterEvidence(h, who, source, v, freshUntil) ==
    /\ who \in policies[1].issuers
    /\ source.publisher \in policies[1].publishers
    /\ A!RegisterEvidence(h, who, source, v, freshUntil)
    /\ UNCHANGED synced

SubmitResponse(h, who) == A!SubmitResponse(h, who) /\ UNCHANGED synced
MarkRevisionReady(h, who) ==
    who \in Hasty /\ A!MarkRevisionReady(h, who) /\ UNCHANGED synced
RetryCurrentRevision(h, who) == A!RetryCurrentRevision(h, who) /\ UNCHANGED synced
BeginRevision(h, who, response) == A!BeginRevision(h, who, response) /\ UNCHANGED synced
RecoverCase(h) == A!RecoverCase(h) /\ UNCHANGED synced

\* The first call does not ask the Vault, a repeated one does.
QueueSettlement(h, expected) ==
    /\ A!Requeue(h) => EscrowActive(h)
    /\ A!QueueSettlement(h, expected)
    /\ UNCHANGED synced

SyncCaseVaultStatus(h, who) ==
    /\ cases[h].queued
    /\ who \in R!Participants(h)
    /\ vaultBound
    /\ EscrowEnded(h)
    /\ cases' = [cases EXCEPT ![h].status = status[h]]
    /\ synced' = [synced EXCEPT ![h] = status[h]]
    /\ UNCHANGED <<now, net, vaultBound, revisions, evidence, latest, verdicts>>

CoreCall(h) ==
    \/ HandoffStep(RegisterHandoffInVault(h))
    \/ \E who \in Account :
        \/ HandoffStep(SubmitHandoffDelivery(h, who))
        \/ HandoffStep(AcceptHandoffDelivery(h, who))
        \/ HandoffStep(RetryHandoffCompletion(h, who))
        \/ HandoffStep(RepairHandoffDelivery(h, who))
        \/ HandoffStep(SyncHandoffVaultStatus(h, who))
        \/ CaseStep(OpenCase(h, who))
        \/ CaseStep(SubmitResponse(h, who))
        \/ CaseStep(MarkRevisionReady(h, who))
        \/ CaseStep(RetryCurrentRevision(h, who))
        \/ \E response \in BOOLEAN : CaseStep(BeginRevision(h, who, response))
        \/ \E source \in Source, v \in 1..MaxEvidenceVersion, f \in FreshUntil :
                CaseStep(RegisterEvidence(h, who, source, v, f))
        \/ CaseStep(SyncCaseVaultStatus(h, who))
    \/ CaseStep(ResolveCase(h))
    \/ \E expected \in DOMAIN verdicts : CaseStep(QueueSettlement(h, expected))
    \/ CaseStep(RecoverCase(h))

-----------------------------------------------------------------------------
(* The Vault: its messages, bound to the sealed policy, and its callers.   *)

Fingerprint == policies[1].fingerprint

Escrow(h) ==
    [binding |-> Fingerprint, requester |-> Agreed[h].requester, provider |-> Agreed[h].provider,
     principal |-> Agreed[h].principal, bond |-> Agreed[h].bond,
     fundingDeadline |-> Agreed[h].fundingDeadline,
     recoveryDeadline |-> Agreed[h].recoveryDeadline]

Deliver(h) ==
    /\ \/ /\ R!Register(h) \in net
          /\ V!RegisterHandoff(h, Escrow(h)) \/ V!RegistrationIgnored(h, Escrow(h))
       \/ /\ \E v \in 1..MaxVersion : R!Complete(h, v) \in net
          /\ V!ApplyHandoffCompletion(h, Fingerprint) \/ V!CompletionIgnored(h, Fingerprint)
       \/ \E r \in 1..3 :
          /\ A!ApplyVerdict(h, r) \in net
          /\ V!ApplyFinalVerdict(h, h, Fingerprint, r) \/ V!VerdictIgnored(h, h, Fingerprint)
    /\ UNCHANGED <<net, draftVars, handoffVars, vaultBound, caseVars, synced>>

VaultCall ==
    /\ \E h \in Handoff : V!AccountCall(h)
    /\ UNCHANGED <<net, draftVars, handoffVars, vaultBound, caseVars, synced>>

Next ==
    \/ Tick
    \/ \E who \in Account : BindVault(who)
    \/ Draft
    \/ \E h \in DOMAIN handoffs : CoreCall(h) \/ Deliver(h)
    \/ VaultCall

Spec == Init /\ [][Next]_vars

-----------------------------------------------------------------------------
(* Properties.                                                             *)

\* A status copied back from the Vault is true for good, and says what was decided:
\* a handoff or case reported SETTLED was paid out by its acceptance or with the rule
\* of its queued verdict, never by the other way or by expiry, although the copy is
\* made at any later time (sync_handoff_vault_status, sync_case_vault_status).
SyncedStatusIsTrue ==
    \A h \in Handoff : synced[h] # "NONE" =>
        /\ status[h] = synced[h]
        /\ synced[h] = "RECOVERED" =>
              log[h][1].kind = "EscrowRecovered"
        /\ synced[h] = "SETTLED" =>
              log[h] = IF R!Accepted(h) THEN <<V!HandoffCompleted>>
                       ELSE <<V!VerdictApplied(h, verdicts[cases[h].verdict].rule)>>

RuleName == <<"release", "breach", "neutral">>

Fate ==
    [h \in Handoff |->
        IF R!Accepted(h) THEN "accepted"
        ELSE IF cases[h].queued THEN RuleName[verdicts[cases[h].verdict].rule]
        ELSE IF cases[h].status = "RECOVERED" THEN "neutral"
        ELSE IF cases[h].status # "NONE" THEN "disputed"
        ELSE "open"]

OutcomeOf(events) ==
    IF events = <<>> THEN "pending"
    ELSE LET e == Head(events)
         IN  CASE e.kind = "HandoffCompleted" -> "accepted"
               [] e.kind = "VerdictApplied" -> RuleName[e.rule]
               [] OTHER -> "expired"

P == INSTANCE SettlementPromise
    WITH fate <- Fate, outcome <- [h \in Handoff |-> OutcomeOf(V!CommittedLog[h])]

\* The single contract with its Vault keeps the promise of SettlementPromise, from a
\* draft of its own making on: also when the Vault is bound after an acceptance or a
\* dispute, and when the escrow ends between the status read and the message.
KeepsPromise == P!Spec
=============================================================================
