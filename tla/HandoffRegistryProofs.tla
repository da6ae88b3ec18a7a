------------------------ MODULE HandoffRegistryProofs ------------------------
(***************************************************************************)
(* Theorems about HandoffRegistry, for every workflow, policy and clock    *)
(* bound.  One inductive invariant, IInv, carries all of them.             *)
(***************************************************************************)
EXTENDS HandoffRegistry, TLAPS

\* An accepted handoff was delivered.
AcceptedDelivery == \A h \in Handoff : Accepted(h) => version[h] > 0

\* CompletionNamesAcceptedDelivery without the bound on versions.
CompletionCurrent ==
    \A h \in Handoff, v \in Nat : Complete(h, v) \in net => Accepted(h) /\ v = version[h]

\* The inductive invariant: an acceptance excludes a case, hence a delivery
\* repair, hence a second version reported as accepted; and a case that fits its
\* handoff's horizon fits the workflow's.
IInv ==
    /\ TypeOK
    /\ AcceptXorDispute
    /\ AcceptedDelivery
    /\ CompletionCurrent
    /\ CaseWithinHandoff
    /\ ClosedAfterEveryHorizon

-----------------------------------------------------------------------------
\* Every initial state satisfies the inductive invariant.
LEMMA InitIInv == Init => IInv
BY PolicyAssumption
   DEF Init, IInv, TypeOK, AcceptXorDispute, AcceptedDelivery, CompletionCurrent,
       CaseWithinHandoff, ClosedAfterEveryHorizon, Accepted, HasCase

\* Every step keeps the state in its types.
LEMMA NextTypeOK == TypeOK /\ [Next]_vars => TypeOK'
<1> SUFFICES ASSUME TypeOK, [Next]_vars PROVE TypeOK'
  OBVIOUS
<1> USE PolicyAssumption, AgreedAssumption DEF TypeOK, RegistryMessage, Emit
<1>1. CASE Tick
  BY <1>1 DEF Tick, registryVars
<1>2. ASSUME NEW who \in Account,
             BindAdjudicator(who) \/ BindVault(who)
                 \/ ActivateWorkflow(who) \/ CloseWorkflow(who)
      PROVE  TypeOK'
  BY <1>2 DEF BindAdjudicator, BindVault, ActivateWorkflow, CloseWorkflow
<1>3. ASSUME NEW h \in Handoff, NEW who \in Account, RegisterHandoffInVault(h, who)
      PROVE  TypeOK'
  BY <1>3 DEF RegisterHandoffInVault, registryVars, Register
<1>4. ASSUME NEW h \in Handoff, NEW who \in Account, SubmitHandoffDelivery(h, who)
      PROVE  TypeOK'
  BY <1>4 DEF SubmitHandoffDelivery
<1>5. ASSUME NEW h \in Handoff, NEW who \in Account, AcceptHandoffDelivery(h, who)
      PROVE  TypeOK'
  BY <1>5 DEF AcceptHandoffDelivery, Complete
<1>6. ASSUME NEW h \in Handoff, NEW who \in Account, RetryHandoffCompletion(h, who)
      PROVE  TypeOK'
  BY <1>6 DEF RetryHandoffCompletion, registryVars, Complete
<1>7. ASSUME NEW h \in Handoff, NEW who \in Account, OpenCase(h, who)
      PROVE  TypeOK'
  <2>1. [opener |-> who, responseDeadline |-> now + ResponseWindow,
         recoveryDeadline |-> now + ReviewRecovery] \in Context
    BY DEF Context
  <2> QED BY <1>7, <2>1 DEF OpenCase, Initialize
<1>8. ASSUME NEW h \in Handoff, NEW who \in Account, RetryCaseInitialization(h, who)
      PROVE  TypeOK'
  BY <1>8 DEF RetryCaseInitialization, registryVars, Initialize
<1>9. ASSUME NEW h \in Handoff, NEW who \in Account, NEW s \in Snapshots,
             RepairHandoffDelivery(h, who, s)
      PROVE  TypeOK'
  BY <1>9 DEF RepairHandoffDelivery
<1>10. CASE UNCHANGED vars
  BY <1>10 DEF vars, registryVars
<1> QED
  BY <1>1, <1>2, <1>3, <1>4, <1>5, <1>6, <1>7, <1>8, <1>9, <1>10 DEF Next, RegistryStep

\* Accepting and disputing the same handoff exclude each other in every step.
LEMMA NextAcceptXorDispute ==
    TypeOK /\ AcceptXorDispute /\ [Next]_vars => AcceptXorDispute'
<1> SUFFICES ASSUME TypeOK, AcceptXorDispute, [Next]_vars
             PROVE  AcceptXorDispute'
  OBVIOUS
<1> USE DEF TypeOK, AcceptXorDispute, Undecided, Accepted, HasCase
<1>1. ASSUME NEW h \in Handoff, NEW who \in Account, AcceptHandoffDelivery(h, who)
      PROVE  AcceptXorDispute'
  BY <1>1 DEF AcceptHandoffDelivery
<1>2. ASSUME NEW h \in Handoff, NEW who \in Account, OpenCase(h, who)
      PROVE  AcceptXorDispute'
  BY <1>2 DEF OpenCase
<1>3. ASSUME UNCHANGED <<acceptedAt, context>>
      PROVE  AcceptXorDispute'
  BY <1>3
<1> QED
  BY <1>1, <1>2, <1>3
  DEF Next, RegistryStep, Tick, BindAdjudicator, BindVault, ActivateWorkflow, CloseWorkflow,
      RegisterHandoffInVault, SubmitHandoffDelivery, RetryHandoffCompletion,
      RetryCaseInitialization, RepairHandoffDelivery, vars, registryVars

\* Acceptance needs a delivery, and versions only grow.
LEMMA NextAcceptedDelivery == TypeOK /\ AcceptedDelivery /\ [Next]_vars => AcceptedDelivery'
<1> SUFFICES ASSUME TypeOK, AcceptedDelivery, [Next]_vars
             PROVE  AcceptedDelivery'
  OBVIOUS
<1> USE DEF TypeOK, AcceptedDelivery, Accepted, Undecided
<1>1. ASSUME NEW h \in Handoff, NEW who \in Account,
             \/ SubmitHandoffDelivery(h, who)
             \/ AcceptHandoffDelivery(h, who)
             \/ \E s \in Snapshots : RepairHandoffDelivery(h, who, s)
      PROVE  AcceptedDelivery'
  BY <1>1 DEF SubmitHandoffDelivery, AcceptHandoffDelivery, RepairHandoffDelivery
<1>2. ASSUME UNCHANGED <<version, acceptedAt>>
      PROVE  AcceptedDelivery'
  BY <1>2
<1> QED
  BY <1>1, <1>2
  DEF Next, RegistryStep, Tick, BindAdjudicator, BindVault, ActivateWorkflow, CloseWorkflow,
      RegisterHandoffInVault, RetryHandoffCompletion, OpenCase, RetryCaseInitialization,
      vars, registryVars

\* Completion messages stay about the accepted version: a new one is emitted for
\* it, and the version moves only while the handoff is not accepted.
LEMMA NextCompletionCurrent ==
    TypeOK /\ AcceptXorDispute /\ CompletionCurrent /\ [Next]_vars => CompletionCurrent'
<1> SUFFICES ASSUME TypeOK, AcceptXorDispute, CompletionCurrent, [Next]_vars,
                    NEW k \in Handoff, NEW v \in Nat, Complete(k, v) \in net'
             PROVE  (Accepted(k) /\ v = version[k])'
  BY DEF CompletionCurrent
<1> USE DEF TypeOK, Accepted, Emit, Undecided
<1>1. ASSUME NEW h \in Handoff, NEW who \in Account, AcceptHandoffDelivery(h, who)
      PROVE  (Accepted(k) /\ v = version[k])'
  <2>1. CASE Complete(k, v) \in net
    BY <1>1, <2>1 DEF AcceptHandoffDelivery, CompletionCurrent
  <2>2. CASE Complete(k, v) = Complete(h, version[h])
    <3>1. k = h /\ v = version[h]
      BY <2>2 DEF Complete
    <3> QED BY <1>1, <3>1 DEF AcceptHandoffDelivery
  <2> QED BY <1>1, <2>1, <2>2 DEF AcceptHandoffDelivery
<1>2. ASSUME NEW h \in Handoff, NEW who \in Account, RetryHandoffCompletion(h, who)
      PROVE  (Accepted(k) /\ v = version[k])'
  <2>1. CASE Complete(k, v) \in net
    BY <1>2, <2>1 DEF RetryHandoffCompletion, CompletionCurrent, registryVars
  <2>2. CASE Complete(k, v) = Complete(h, version[h])
    <3>1. k = h /\ v = version[h]
      BY <2>2 DEF Complete
    <3> QED BY <1>2, <3>1 DEF RetryHandoffCompletion, registryVars
  <2> QED BY <1>2, <2>1, <2>2 DEF RetryHandoffCompletion
<1>3. ASSUME NEW h \in Handoff, NEW who \in Account,
             OpenCase(h, who) \/ RetryCaseInitialization(h, who)
      PROVE  (Accepted(k) /\ v = version[k])'
  <2>1. Complete(k, v) # Initialize(h)
    BY DEF Complete, Initialize
  <2> QED BY <1>3, <2>1
          DEF OpenCase, RetryCaseInitialization, CompletionCurrent, registryVars
<1>4. ASSUME NEW h \in Handoff, NEW who \in Account, RegisterHandoffInVault(h, who)
      PROVE  (Accepted(k) /\ v = version[k])'
  <2>1. Complete(k, v) # Register(h)
    BY DEF Complete, Register
  <2> QED BY <1>4, <2>1 DEF RegisterHandoffInVault, CompletionCurrent, registryVars
<1>5. ASSUME NEW h \in Handoff, NEW who \in Account,
             SubmitHandoffDelivery(h, who)
               \/ \E s \in Snapshots : RepairHandoffDelivery(h, who, s)
      PROVE  (Accepted(k) /\ v = version[k])'
  <2>1. ~Accepted(h) /\ net' = net
    BY <1>5 DEF SubmitHandoffDelivery, RepairHandoffDelivery, AcceptXorDispute
  <2>2. Accepted(k) /\ v = version[k]
    BY <2>1 DEF CompletionCurrent
  <2> QED BY <1>5, <2>1, <2>2 DEF SubmitHandoffDelivery, RepairHandoffDelivery
<1>6. ASSUME UNCHANGED <<net, version, acceptedAt>>
      PROVE  (Accepted(k) /\ v = version[k])'
  BY <1>6 DEF CompletionCurrent
<1> QED
  BY <1>1, <1>2, <1>3, <1>4, <1>5, <1>6
  DEF Next, RegistryStep, Tick, BindAdjudicator, BindVault, ActivateWorkflow, CloseWorkflow,
      vars, registryVars

\* The horizons stay nested, and a closed workflow is past all of them.
LEMMA NextHorizons ==
    TypeOK /\ CaseWithinHandoff /\ ClosedAfterEveryHorizon /\ [Next]_vars
        => CaseWithinHandoff' /\ ClosedAfterEveryHorizon'
<1> SUFFICES ASSUME TypeOK, CaseWithinHandoff, ClosedAfterEveryHorizon, [Next]_vars
             PROVE  CaseWithinHandoff' /\ ClosedAfterEveryHorizon'
  OBVIOUS
<1> USE PolicyAssumption, AgreedAssumption
    DEF TypeOK, CaseWithinHandoff, ClosedAfterEveryHorizon, HasCase, Context, FitsHorizon
<1>1. CASE Tick
  BY <1>1 DEF Tick, registryVars
<1>2. ASSUME NEW h \in Handoff, NEW who \in Account, OpenCase(h, who)
      PROVE  CaseWithinHandoff' /\ ClosedAfterEveryHorizon'
  <2>1. workflow = "ACTIVE" /\ workflow' = "ACTIVE"
    BY <1>2 DEF OpenCase
  <2>2. CaseWithinHandoff'
    BY <1>2 DEF OpenCase
  <2> QED BY <2>1, <2>2
<1>3. ASSUME NEW who \in Account, CloseWorkflow(who)
      PROVE  CaseWithinHandoff' /\ ClosedAfterEveryHorizon'
  BY <1>3 DEF CloseWorkflow
<1>4. ASSUME NEW who \in Account, ActivateWorkflow(who)
      PROVE  CaseWithinHandoff' /\ ClosedAfterEveryHorizon'
  BY <1>4 DEF ActivateWorkflow
<1>5. ASSUME UNCHANGED <<now, workflow, context>>
      PROVE  CaseWithinHandoff' /\ ClosedAfterEveryHorizon'
  BY <1>5
<1> QED
  BY <1>1, <1>2, <1>3, <1>4, <1>5
  DEF Next, RegistryStep, BindAdjudicator, BindVault, RegisterHandoffInVault,
      SubmitHandoffDelivery, AcceptHandoffDelivery, RetryHandoffCompletion,
      RetryCaseInitialization, RepairHandoffDelivery, vars, registryVars

LEMMA NextIInv == IInv /\ [Next]_vars => IInv'
BY NextTypeOK, NextAcceptXorDispute, NextAcceptedDelivery, NextCompletionCurrent, NextHorizons
   DEF IInv

LEMMA SpecIInv == Spec => []IInv
BY InitIInv, NextIInv, PTL DEF Spec

-----------------------------------------------------------------------------
\* The registry's state always ranges over its types.
THEOREM TypeCorrect == Spec => []TypeOK
<1>1. IInv => TypeOK
  BY DEF IInv
<1> QED BY SpecIInv, <1>1, PTL

\* accept_handoff_delivery and open_case never both succeed on one handoff.
THEOREM AcceptanceExcludesDispute == Spec => []AcceptXorDispute
<1>1. IInv => AcceptXorDispute
  BY DEF IInv
<1> QED BY SpecIInv, <1>1, PTL

\* All completion messages of a handoff are about the one accepted version.
THEOREM CompletionIsUnique == Spec => []CompletionNamesAcceptedDelivery
<1>1. IInv => CompletionNamesAcceptedDelivery
  BY DEF IInv, TypeOK, AcceptedDelivery, CompletionCurrent, CompletionNamesAcceptedDelivery
<1> QED BY SpecIInv, <1>1, PTL

\* A case never outlives its handoff's escrow horizon, nor a handoff the workflow.
THEOREM HorizonsAreNested == Spec => [](CaseWithinHandoff /\ ClosedAfterEveryHorizon)
<1>1. IInv => CaseWithinHandoff /\ ClosedAfterEveryHorizon
  BY DEF IInv
<1> QED BY SpecIInv, <1>1, PTL

\* Neither an acceptance nor a dispute is ever replaced or undone.
THEOREM FateNeverChanges == Spec => FateIsFixed
<1> DEFINE Fixed ==
      \A h \in Handoff :
        /\ Accepted(h) => acceptedAt'[h] = acceptedAt[h] /\ version'[h] = version[h]
        /\ HasCase(h) => context'[h] = context[h]
<1>1. ASSUME IInv, [Next]_vars
      PROVE  Fixed
  <2> SUFFICES ASSUME NEW k \in Handoff
               PROVE  /\ Accepted(k) => acceptedAt'[k] = acceptedAt[k] /\ version'[k] = version[k]
                      /\ HasCase(k) => context'[k] = context[k]
    OBVIOUS
  <2> USE <1>1 DEF IInv, TypeOK, AcceptXorDispute, Undecided
  <2>1. ASSUME NEW h \in Handoff, NEW who \in Account,
               \/ SubmitHandoffDelivery(h, who)
               \/ AcceptHandoffDelivery(h, who)
               \/ OpenCase(h, who)
               \/ \E s \in Snapshots : RepairHandoffDelivery(h, who, s)
        PROVE  /\ Accepted(k) => acceptedAt'[k] = acceptedAt[k] /\ version'[k] = version[k]
               /\ HasCase(k) => context'[k] = context[k]
    BY <2>1 DEF SubmitHandoffDelivery, AcceptHandoffDelivery, OpenCase, RepairHandoffDelivery
  <2>2. ASSUME UNCHANGED <<version, acceptedAt, context>>
        PROVE  /\ Accepted(k) => acceptedAt'[k] = acceptedAt[k] /\ version'[k] = version[k]
               /\ HasCase(k) => context'[k] = context[k]
    BY <2>2
  <2> QED
    BY <2>1, <2>2
    DEF Next, RegistryStep, Tick, BindAdjudicator, BindVault, ActivateWorkflow, CloseWorkflow,
        RegisterHandoffInVault, RetryHandoffCompletion, RetryCaseInitialization, vars, registryVars
<1>2. IInv /\ [Next]_vars => [Fixed]_vars
  BY <1>1
<1> QED BY SpecIInv, <1>2, PTL DEF Spec, FateIsFixed
=============================================================================
