--------------------------- MODULE HandoffRegistry ---------------------------
(***************************************************************************)
(* contracts/verdict_graph_registry.py from the activation of a workflow   *)
(* on: endpoint bindings, deliveries and their acceptance, the dispute     *)
(* lock and the finalized messages to the Vault and the Adjudicator.       *)
(*                                                                         *)
(* One workflow; its handoffs and their terms were fixed while it was a    *)
(* draft, so they are constants here.  A handoff has at most one case for  *)
(* life (handoff_case_id is never cleared): the case is named by its       *)
(* handoff.  A call that fails is a disabled action.                       *)
(***************************************************************************)
EXTENDS Integers, FiniteSets

CONSTANTS
    Handoff,           \* the handoffs of the workflow, and their case ids
    Account,           \* addresses
    Owner,             \* owner of the registry and of the workflow
    Agreed,            \* per handoff: requester, provider and the deadlines
    WorkflowDeadline,  \* workflow.deadline
    ResponseWindow,    \* policy.response_window_seconds
    ReviewRecovery,    \* policy.review_recovery_seconds
    Snapshots,         \* what the Adjudicator may answer, when it stands alone
    Deployed,          \* whether the endpoints were bound before the first step
    MaxVersion,        \* bound: deliveries per handoff
    MaxTime            \* bound: the clock stops here

\* What create_evidence_policy and add_handoff checked before activation.
ASSUME PolicyAssumption ==
    /\ ResponseWindow \in Nat \ {0}
    /\ ReviewRecovery \in Nat
    /\ ReviewRecovery > ResponseWindow
    /\ Deployed \in BOOLEAN

ASSUME AgreedAssumption ==
    /\ WorkflowDeadline \in Nat
    /\ \A h \in Handoff :
        /\ Agreed[h].requester \in Account
        /\ Agreed[h].provider \in Account
        /\ Agreed[h].requester # Agreed[h].provider
        /\ Agreed[h].fundingDeadline \in Nat
        /\ Agreed[h].recoveryDeadline \in Nat
        /\ 1 < Agreed[h].fundingDeadline
        /\ Agreed[h].fundingDeadline < Agreed[h].recoveryDeadline
        /\ Agreed[h].recoveryDeadline <= WorkflowDeadline

VARIABLES
    now,               \* block time
    net,               \* every finalized message ever emitted
    workflow,          \* workflow.status
    version,           \* handoff.delivery_version, naming the delivery's digest
    acceptedAt,        \* handoff.delivery_accepted_at, 0 before acceptance
    context,           \* case_context_json, NoContext while there is no case
    adjudicatorBound,  \* adjudicator_address is set
    vaultBound         \* vault_address is set

registryVars == <<workflow, version, acceptedAt, context, adjudicatorBound, vaultBound>>
vars == <<now, net, registryVars>>

\* delivery_accepted_at, completion_queued and not active are set together, by
\* the one statement group of accept_handoff_delivery, and never reset.
Accepted(h) == acceptedAt[h] > 0

NoContext == <<>>
Context == [opener : Account, responseDeadline : Nat, recoveryDeadline : Nat]
HasCase(h) == context[h] # NoContext

\* Delivery, acceptance and dispute need a handoff that is neither accepted nor
\* disputed.  Faulty variants: one of the two is not looked at.
NotAccepted(h) == ~Accepted(h)
NotDisputed(h) == ~HasCase(h)
Undecided(h) == ~Accepted(h) /\ ~HasCase(h)

Participants(h) == {Agreed[h].requester, Agreed[h].provider}

Register(h) == [type |-> "register", handoff |-> h]
Complete(h, v) == [type |-> "complete", handoff |-> h, version |-> v]
Initialize(h) == [type |-> "initialize", handoff |-> h]
RegistryMessage ==
    [type : {"register", "initialize"}, handoff : Handoff]
    \cup [type : {"complete"}, handoff : Handoff, version : Nat]

\* emit() hands the message to the chain: it is delivered after the emitting
\* transaction is final, at any later time or, if its execution fails, never.
\* Emitting again the message of an earlier call adds nothing to the set.
Emit(m) == net' = net \cup {m}

\* get_case_repair_snapshot of the Adjudicator, read synchronously.
DeliveryFailure == {"DELIVERY_FETCH_FAILED", "DELIVERY_UNUSABLE"}
RepairSnapshot == [status : {"OPEN", "REPAIR_REQUIRED", "REVIEWED", "RECOVERED"},
                   queued : BOOLEAN, recoveryDeadline : Nat, failure : STRING]

Init ==
    /\ now = 1
    /\ net = {}
    /\ workflow = "DRAFT"
    /\ version = [h \in Handoff |-> 0]
    /\ acceptedAt = [h \in Handoff |-> 0]
    /\ context = [h \in Handoff |-> NoContext]
    /\ adjudicatorBound = Deployed
    /\ vaultBound = Deployed

Tick ==
    /\ now < MaxTime
    /\ now' = now + 1
    /\ UNCHANGED <<net, registryVars>>

-----------------------------------------------------------------------------
(* Bindings and workflow status.                                           *)

BindAdjudicator(who) ==
    /\ who = Owner
    /\ ~adjudicatorBound
    /\ adjudicatorBound' = TRUE
    /\ UNCHANGED <<now, net, workflow, version, acceptedAt, context, vaultBound>>

BindVault(who) ==
    /\ who = Owner
    /\ ~vaultBound
    /\ adjudicatorBound
    /\ vaultBound' = TRUE
    /\ UNCHANGED <<now, net, workflow, version, acceptedAt, context, adjudicatorBound>>

ActivateWorkflow(who) ==
    /\ who = Owner
    /\ workflow = "DRAFT"
    /\ workflow' = "ACTIVE"
    /\ UNCHANGED <<now, net, version, acceptedAt, context, adjudicatorBound, vaultBound>>

CloseWorkflow(who) ==
    /\ who = Owner
    /\ workflow = "ACTIVE"
    /\ now > WorkflowDeadline
    /\ workflow' = "CLOSED"
    /\ UNCHANGED <<now, net, version, acceptedAt, context, adjudicatorBound, vaultBound>>

-----------------------------------------------------------------------------
(* Delivery, acceptance and the messages to the Vault.                     *)

RegisterHandoffInVault(h, who) ==
    /\ workflow = "ACTIVE"
    /\ who = Owner
    /\ vaultBound
    /\ Emit(Register(h))
    /\ UNCHANGED <<now, registryVars>>

SubmitHandoffDelivery(h, who) ==
    /\ workflow = "ACTIVE"
    /\ who = Agreed[h].provider
    /\ Undecided(h)
    /\ now <= Agreed[h].recoveryDeadline
    /\ version[h] = 0
    /\ version' = [version EXCEPT ![h] = 1]
    /\ UNCHANGED <<now, net, workflow, acceptedAt, context, adjudicatorBound, vaultBound>>

AcceptHandoffDelivery(h, who) ==
    /\ workflow = "ACTIVE"
    /\ who = Agreed[h].requester
    /\ Undecided(h)
    /\ version[h] > 0
    /\ now <= Agreed[h].recoveryDeadline
    /\ acceptedAt' = [acceptedAt EXCEPT ![h] = now]
    /\ IF vaultBound THEN Emit(Complete(h, version[h])) ELSE UNCHANGED net
    /\ UNCHANGED <<now, workflow, version, context, adjudicatorBound, vaultBound>>

\* Faulty variant: nothing was accepted yet.
RetryUnaccepted(h, who) ==
    /\ who \in Participants(h)
    /\ vaultBound
    /\ now <= Agreed[h].recoveryDeadline
    /\ Emit(Complete(h, version[h]))
    /\ UNCHANGED <<now, registryVars>>

RetryHandoffCompletion(h, who) ==
    /\ who \in Participants(h)
    /\ Accepted(h)
    /\ vaultBound
    /\ now <= Agreed[h].recoveryDeadline
    /\ Emit(Complete(h, version[h]))
    /\ UNCHANGED <<now, registryVars>>

\* The Adjudicator's snapshot of the case asks for a delivery repair.  Faulty
\* variant: any case that is not queued will do.
NotQueued(repair) == ~repair.queued /\ now <= repair.recoveryDeadline
NeedsDelivery(repair) ==
    /\ repair.status = "REPAIR_REQUIRED"
    /\ ~repair.queued
    /\ now <= repair.recoveryDeadline
    /\ repair.failure \in DeliveryFailure

\* A new immutable version of the delivery.
RepairHandoffDelivery(h, who, repair) ==
    /\ HasCase(h)
    /\ adjudicatorBound
    /\ who = Agreed[h].provider
    /\ NeedsDelivery(repair)
    /\ version[h] < MaxVersion
    /\ version' = [version EXCEPT ![h] = @ + 1]
    /\ UNCHANGED <<now, net, workflow, acceptedAt, context, adjudicatorBound, vaultBound>>

-----------------------------------------------------------------------------
(* The dispute lock and the messages to the Adjudicator.                   *)

\* A case must be decidable before the escrow can be recovered.  Faulty variant:
\* it only has to be opened before.
BeforeHorizon(h) == now <= Agreed[h].recoveryDeadline
FitsHorizon(h) == now + ReviewRecovery <= Agreed[h].recoveryDeadline

OpenCase(h, who) ==
    /\ adjudicatorBound
    /\ workflow = "ACTIVE"
    /\ Undecided(h)
    /\ who \in {Owner} \cup Participants(h)
    /\ FitsHorizon(h)
    /\ context' = [context EXCEPT ![h] =
            [opener |-> who,
             responseDeadline |-> now + ResponseWindow,
             recoveryDeadline |-> now + ReviewRecovery]]
    /\ Emit(Initialize(h))
    /\ UNCHANGED <<now, workflow, version, acceptedAt, adjudicatorBound, vaultBound>>

RetryCaseInitialization(h, who) ==
    /\ HasCase(h)
    /\ adjudicatorBound
    /\ who \in {context[h].opener} \cup Participants(h)
    /\ now <= context[h].recoveryDeadline
    /\ Emit(Initialize(h))
    /\ UNCHANGED <<now, registryVars>>

-----------------------------------------------------------------------------
\* Everything but the delivery repair, which needs the Adjudicator's snapshot.
RegistryStep ==
    \E who \in Account :
        \/ BindAdjudicator(who) \/ BindVault(who)
        \/ ActivateWorkflow(who) \/ CloseWorkflow(who)
        \/ \E h \in Handoff :
            \/ RegisterHandoffInVault(h, who)
            \/ SubmitHandoffDelivery(h, who)
            \/ AcceptHandoffDelivery(h, who)
            \/ RetryHandoffCompletion(h, who)
            \/ OpenCase(h, who)
            \/ RetryCaseInitialization(h, who)

Next ==
    \/ Tick
    \/ RegistryStep
    \/ \E h \in Handoff, who \in Account, s \in Snapshots : RepairHandoffDelivery(h, who, s)

Spec == Init /\ [][Next]_vars

-----------------------------------------------------------------------------
(* Properties.                                                             *)

\* The state ranges over its types, and times are positive.
TypeOK ==
    /\ now \in Nat \ {0}
    /\ net \subseteq RegistryMessage
    /\ workflow \in {"DRAFT", "ACTIVE", "CLOSED"}
    /\ version \in [Handoff -> Nat]
    /\ acceptedAt \in [Handoff -> Nat]
    /\ context \in [Handoff -> Context \cup {NoContext}]
    /\ adjudicatorBound \in BOOLEAN
    /\ vaultBound \in BOOLEAN

\* A handoff is accepted or disputed, never both: accept_handoff_delivery and
\* open_case race on the same handoff, and the loser must fail.
AcceptXorDispute == \A h \in Handoff : ~(Accepted(h) /\ HasCase(h))

\* Every completion instruction ever emitted is for an accepted handoff and names
\* the delivery version that is still current: no retry, and no delivery repair in
\* between, lets two different deliveries be reported as the accepted one.
CompletionNamesAcceptedDelivery ==
    \A h \in Handoff, v \in 0..MaxVersion :
        Complete(h, v) \in net => Accepted(h) /\ v = version[h] /\ v > 0

\* A case never outlives the escrow of its handoff: its response window closes
\* before its recovery deadline, and that not after the handoff's
\* (docs/REVIEWER_READINESS.md, "Case review ... cannot outlive handoff recovery").
CaseWithinHandoff ==
    \A h \in Handoff : HasCase(h) =>
        /\ context[h].responseDeadline < context[h].recoveryDeadline
        /\ context[h].recoveryDeadline <= Agreed[h].recoveryDeadline

\* The decision how a handoff ends is taken once: neither an acceptance nor a case
\* context, which the Adjudicator copies, is ever replaced or removed.
FateIsFixed ==
    [][\A h \in Handoff :
        /\ Accepted(h) => acceptedAt'[h] = acceptedAt[h] /\ version'[h] = version[h]
        /\ HasCase(h) => context'[h] = context[h]]_vars

\* When a workflow closes, no handoff of it can still be delivered, accepted,
\* retried or disputed: close_workflow strands nobody's horizon.
ClosedAfterEveryHorizon ==
    workflow = "CLOSED" =>
        \A h \in Handoff :
            /\ now > Agreed[h].recoveryDeadline
            /\ HasCase(h) => now > context[h].recoveryDeadline
=============================================================================
