---------------------------- MODULE WorkflowSetup ----------------------------
(***************************************************************************)
(* contracts/verdict_graph_registry.py up to the activation of a workflow: *)
(* evidence policies and their sealing, draft workflows, handoffs and the  *)
(* dependencies between them.  Any account may own policies and workflows. *)
(*                                                                         *)
(* Policies, workflows and handoffs are named by their ids, which are      *)
(* their places in the order of creation.  A policy's fingerprint is the   *)
(* very payload it is the digest of.  A call that fails is a disabled      *)
(* action.                                                                 *)
(***************************************************************************)
EXTENDS Integers, Sequences, FiniteSets

CONSTANTS
    Account,           \* addresses other than zero
    PolicyTerms,       \* thresholds and windows a policy may be created with
    Prefix,            \* publisher prefixes
    OriginOf,          \* their origins: the host, without the folder
    WorkflowDeadlines, \* deadlines a workflow may be created with
    HandoffTerms,      \* terms a handoff may be added with
    MaxPolicyMembers,  \* MAX_POLICY_ISSUERS, MAX_POLICY_PUBLISHERS
    MaxHandoffs,       \* MAX_HANDOFFS_PER_WORKFLOW
    MaxDependencies,   \* MAX_DEPENDENCIES_PER_HANDOFF
    MaxPolicy,         \* bound: policies
    MaxWorkflow,       \* bound: workflows
    MaxHandoff,        \* bound: handoffs in all
    MaxTime            \* bound: the clock stops here

ASSUME OfferedAssumption ==
    /\ PolicyTerms \subseteq [minIssuers : Nat, minPublishers : Nat, responseWindow : Nat,
                              repairWindow : Nat, reviewRecovery : Nat]
    /\ WorkflowDeadlines \subseteq Nat
    /\ HandoffTerms \subseteq [requester : Account, provider : Account,
                               principal : Nat, bond : Nat, criteria : SUBSET (1..3),
                               fundingDeadline : Nat, deadline : Nat, recoveryDeadline : Nat]

VARIABLES
    now,        \* block time
    policies,   \* policies, by id
    workflows,  \* workflows, by id
    handoffs    \* handoffs, by id

vars == <<now, policies, workflows, handoffs>>

Init ==
    /\ now = 1
    /\ policies = <<>>
    /\ workflows = <<>>
    /\ handoffs = <<>>

Tick ==
    /\ now < MaxTime
    /\ now' = now + 1
    /\ UNCHANGED <<policies, workflows, handoffs>>

-----------------------------------------------------------------------------
(* Evidence policies.                                                      *)

Unsealed == <<>>
Sealed(p) == policies[p].fingerprint # Unsealed

\* The payload whose digest the fingerprint is.
Payload(p) ==
    [policy |-> p, owner |-> policies[p].owner, terms |-> policies[p].terms,
     issuers |-> policies[p].issuers, publishers |-> policies[p].publishers]

CreateEvidencePolicy(who, t) ==
    /\ t.minIssuers \in 2..MaxPolicyMembers
    /\ t.minPublishers \in 2..MaxPolicyMembers
    /\ t.responseWindow > 0
    /\ t.repairWindow > 0
    /\ t.reviewRecovery > t.responseWindow
    /\ t.reviewRecovery > t.repairWindow
    /\ Len(policies) < MaxPolicy
    /\ policies' = Append(policies,
            [owner |-> who, terms |-> t, issuers |-> {}, publishers |-> {},
             fingerprint |-> Unsealed])
    /\ UNCHANGED <<now, workflows, handoffs>>

\* Faulty variant: a sealed policy can still be extended.
OwnedBy(p, who) == who = policies[p].owner
Extensible(p, who) == who = policies[p].owner /\ ~Sealed(p)

AddPolicyIssuer(p, who, issuer) ==
    /\ Extensible(p, who)
    /\ Cardinality(policies[p].issuers) < MaxPolicyMembers
    /\ issuer \notin policies[p].issuers
    /\ policies' = [policies EXCEPT ![p].issuers = @ \cup {issuer}]
    /\ UNCHANGED <<now, workflows, handoffs>>

\* One host counts once, whatever its folders.
NewOrigin(p, prefix) == \A other \in policies[p].publishers : OriginOf[other] # OriginOf[prefix]

AddPolicyPublisher(p, who, prefix) ==
    /\ Extensible(p, who)
    /\ Cardinality(policies[p].publishers) < MaxPolicyMembers
    /\ NewOrigin(p, prefix)
    /\ policies' = [policies EXCEPT ![p].publishers = @ \cup {prefix}]
    /\ UNCHANGED <<now, workflows, handoffs>>

SealEvidencePolicy(p, who) ==
    /\ Extensible(p, who)
    /\ Cardinality(policies[p].issuers) >= policies[p].terms.minIssuers
    /\ Cardinality(policies[p].publishers) >= policies[p].terms.minPublishers
    /\ policies' = [policies EXCEPT ![p].fingerprint = Payload(p)]
    /\ UNCHANGED <<now, workflows, handoffs>>

-----------------------------------------------------------------------------
(* Draft workflows.                                                        *)

CreateWorkflow(who, p, deadline) ==
    /\ Sealed(p)
    /\ deadline > now
    /\ Len(workflows) < MaxWorkflow
    /\ workflows' = Append(workflows,
            [owner |-> who, policy |-> p, status |-> "DRAFT", deadline |-> deadline])
    /\ UNCHANGED <<now, policies, handoffs>>

HandoffsOf(w) == {h \in DOMAIN handoffs : handoffs[h].workflow = w}

\* handoff_count is the next ordinal.  Faulty variant: the handoff id is taken.
OrdinalById(w) == Len(handoffs)
NextOrdinal(w) == Cardinality(HandoffsOf(w))

\* Faulty variants: the owner may go on after activation; the escrow's horizon is
\* not compared with the workflow's.
OwnerOf(w, who) == who = workflows[w].owner
Draftable(w, who) == who = workflows[w].owner /\ workflows[w].status = "DRAFT"

OrderedDeadlines(w, t) ==
    /\ now < t.fundingDeadline
    /\ t.fundingDeadline < t.deadline
    /\ t.deadline < t.recoveryDeadline
NestedDeadlines(w, t) ==
    /\ now < t.fundingDeadline
    /\ t.fundingDeadline < t.deadline
    /\ t.deadline < t.recoveryDeadline
    /\ t.recoveryDeadline <= workflows[w].deadline

\* A breach criterion leads to breach or neutral recovery, never to a release.
ValidCriteria(criteria) == criteria # {} /\ criteria \subseteq {2, 3}

AddHandoff(w, who, t) ==
    /\ Draftable(w, who)
    /\ Cardinality(HandoffsOf(w)) < MaxHandoffs
    /\ t.principal > 0
    /\ t.bond > 0
    /\ NestedDeadlines(w, t)
    /\ t.requester # t.provider
    /\ ValidCriteria(t.criteria)
    /\ Len(handoffs) < MaxHandoff
    /\ handoffs' = Append(handoffs,
            [workflow |-> w, ordinal |-> NextOrdinal(w), terms |-> t,
             dependencies |-> {}])
    /\ UNCHANGED <<now, policies, workflows>>

\* Dependencies point from an earlier handoff to a later one.  Faulty variant:
\* only a dependency on itself is refused.
OtherThan(d, h) == d # h
Precedes(d, h) == handoffs[d].ordinal < handoffs[h].ordinal

AddHandoffDependency(h, d, who) ==
    /\ Draftable(handoffs[h].workflow, who)
    /\ handoffs[d].workflow = handoffs[h].workflow
    /\ Cardinality(handoffs[h].dependencies) < MaxDependencies
    /\ Precedes(d, h)
    /\ d \notin handoffs[h].dependencies
    /\ handoffs' = [handoffs EXCEPT ![h].dependencies = @ \cup {d}]
    /\ UNCHANGED <<now, policies, workflows>>

ActivateWorkflow(w, who) ==
    /\ Draftable(w, who)
    /\ HandoffsOf(w) # {}
    /\ workflows' = [workflows EXCEPT ![w].status = "ACTIVE"]
    /\ UNCHANGED <<now, policies, handoffs>>

Next ==
    \/ Tick
    \/ \E who \in Account :
        \/ \E t \in PolicyTerms : CreateEvidencePolicy(who, t)
        \/ \E p \in DOMAIN policies :
            \/ \E issuer \in Account : AddPolicyIssuer(p, who, issuer)
            \/ \E prefix \in Prefix : AddPolicyPublisher(p, who, prefix)
            \/ SealEvidencePolicy(p, who)
            \/ \E deadline \in WorkflowDeadlines : CreateWorkflow(who, p, deadline)
        \/ \E w \in DOMAIN workflows :
            \/ \E t \in HandoffTerms : AddHandoff(w, who, t)
            \/ ActivateWorkflow(w, who)
        \/ \E h, d \in DOMAIN handoffs : AddHandoffDependency(h, d, who)

Spec == Init /\ [][Next]_vars

-----------------------------------------------------------------------------
(* Properties.                                                             *)

Policy == [owner : Account, terms : PolicyTerms, issuers : SUBSET Account,
           publishers : SUBSET Prefix,
           fingerprint : [policy : Nat, owner : Account, terms : PolicyTerms,
                          issuers : SUBSET Account, publishers : SUBSET Prefix]
                         \cup {Unsealed}]
Workflow == [owner : Account, policy : Nat, status : {"DRAFT", "ACTIVE"}, deadline : Nat]
HandoffRecord == [workflow : Nat, ordinal : Nat, terms : HandoffTerms,
                  dependencies : SUBSET Nat]

\* The state ranges over its types, every reference names an existing record, and
\* the ordinals of a workflow's handoffs count them, so that no entry of
\* workflow_handoff_index is ever overwritten.
TypeOK ==
    /\ now \in Nat \ {0}
    /\ policies \in Seq(Policy)
    /\ workflows \in Seq(Workflow)
    /\ handoffs \in Seq(HandoffRecord)
    /\ \A w \in DOMAIN workflows : workflows[w].policy \in DOMAIN policies
    /\ \A h \in DOMAIN handoffs :
        /\ handoffs[h].workflow \in DOMAIN workflows
        /\ handoffs[h].dependencies \subseteq DOMAIN handoffs
        /\ handoffs[h].ordinal =
              Cardinality({g \in 1..(h - 1) : handoffs[g].workflow = handoffs[h].workflow})

\* A workflow rests on a sealed policy, and a sealed policy is still what its
\* fingerprint was computed from: nothing a case is judged by can change after the
\* first workflow could be created under it (seal_evidence_policy).  Its thresholds
\* can be met by independent parties: it approves as many issuers, and publishers on
\* as many different hosts, as it demands; folders of one host do not add up.
ThresholdsCanBeMet(p) ==
    /\ Cardinality(policies[p].issuers) >= policies[p].terms.minIssuers
    /\ Cardinality({OriginOf[prefix] : prefix \in policies[p].publishers})
           >= policies[p].terms.minPublishers

PolicyIsAsSealed ==
    /\ \A w \in DOMAIN workflows : Sealed(workflows[w].policy)
    /\ \A p \in DOMAIN policies : Sealed(p) =>
        /\ policies[p].fingerprint = Payload(p)
        /\ ThresholdsCanBeMet(p)

\* The dependencies of a workflow's handoffs have no cycle, in whatever order they
\* were added: in every set of handoffs one depends on none of the set
\* (docs/STATE_MACHINE.md:7).
DependenciesAcyclic ==
    \A S \in SUBSET (DOMAIN handoffs) :
        S # {} => \E h \in S : handoffs[h].dependencies \cap S = {}

\* The terms an active workflow works on are what HandoffRegistry, CaseAdjudicator
\* and EscrowVault take for granted about them.
ActiveTermsAreSound ==
    \A h \in DOMAIN handoffs :
        LET w == workflows[handoffs[h].workflow]
            t == handoffs[h].terms
            policy == policies[w.policy].terms
        IN  w.status = "ACTIVE" =>
                /\ t.requester # t.provider
                /\ 1 < t.fundingDeadline
                /\ t.fundingDeadline < t.recoveryDeadline
                /\ t.recoveryDeadline <= w.deadline
                /\ t.criteria \subseteq {2, 3}
                /\ 0 < policy.responseWindow
                /\ policy.responseWindow < policy.reviewRecovery

\* From its activation on a workflow, its handoffs and their dependencies are fixed:
\* no handoff is added to it and none of its terms is replaced.
ActiveWorkflowIsFixed ==
    [][\A w \in DOMAIN workflows :
        workflows[w].status = "ACTIVE" =>
            /\ workflows'[w] = workflows[w]
            /\ {h \in DOMAIN handoffs' : handoffs'[h].workflow = w} = HandoffsOf(w)
            /\ \A h \in HandoffsOf(w) : handoffs'[h] = handoffs[h]]_vars
=============================================================================
