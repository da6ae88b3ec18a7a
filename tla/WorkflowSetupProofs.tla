------------------------- MODULE WorkflowSetupProofs -------------------------
(***************************************************************************)
(* Theorems about WorkflowSetup, for every set of accounts, terms and      *)
(* prefixes and every bound.  The invariants are proved in layers: the     *)
(* types, then what holds of every policy, of every handoff, and of every  *)
(* dependency, each from the layers before.                                *)
(***************************************************************************)
EXTENDS WorkflowSetup, FiniteSetTheorems, SequenceTheorems, WellFoundedInduction, TLAPS

\* Steps leave the records that exist alone, or change one of them, or add one.
LEMMA AppendedSequence ==
    ASSUME NEW S, NEW s \in Seq(S), NEW e \in S, NEW t, t = Append(s, e)
    PROVE  /\ t \in Seq(S)
           /\ DOMAIN t = DOMAIN s \cup {Len(s) + 1}
           /\ Len(s) + 1 \notin DOMAIN s
           /\ \A i \in DOMAIN s : t[i] = s[i]
           /\ t[Len(s) + 1] = e
<1>1. DOMAIN s = 1..Len(s) /\ Len(s) \in Nat
  BY LenProperties
<1>2. /\ t \in Seq(S)
      /\ DOMAIN t = 1..(Len(s) + 1)
      /\ \A i \in 1..Len(s) : t[i] = s[i]
      /\ t[Len(s) + 1] = e
  BY AppendProperties, LenProperties
<1> QED BY <1>1, <1>2

LEMMA ChangedSequence ==
    ASSUME NEW S, NEW s \in Seq(S), NEW i \in DOMAIN s, NEW e \in S,
           NEW t, t = [s EXCEPT ![i] = e]
    PROVE  /\ t \in Seq(S)
           /\ DOMAIN t = DOMAIN s
           /\ \A j \in DOMAIN s : t[j] = IF j = i THEN e ELSE s[j]
           /\ s[i] \in S
<1>1. DOMAIN s = 1..Len(s) /\ Len(s) \in Nat /\ \A j \in DOMAIN s : s[j] \in S
  BY LenProperties, ElementOfSeq
<1>2. t \in Seq(S)
  BY ExceptSeq, <1>1
<1> QED BY <1>1, <1>2

-----------------------------------------------------------------------------
(* Types.                                                                  *)

Typed ==
    /\ now \in Nat \ {0}
    /\ policies \in Seq(Policy)
    /\ workflows \in Seq(Workflow)
    /\ handoffs \in Seq(HandoffRecord)

\* What a step does to the policies: nothing, a new one without issuers and
\* publishers, or a change of one that is not sealed, which keeps its owner and terms.
PolicyAdded ==
    \E who \in Account, t \in PolicyTerms :
        /\ 0 < t.responseWindow /\ t.responseWindow < t.reviewRecovery
        /\ policies' = Append(policies,
              [owner |-> who, terms |-> t, issuers |-> {}, publishers |-> {},
               fingerprint |-> Unsealed])

PolicyChanged(p) ==
    /\ ~Sealed(p)
    /\ \/ \E issuer \in Account :
             policies' = [policies EXCEPT ![p] =
                            [policies[p] EXCEPT !.issuers = @ \cup {issuer}]]
       \/ \E prefix \in Prefix :
             /\ NewOrigin(p, prefix)
             /\ policies' = [policies EXCEPT ![p] =
                               [policies[p] EXCEPT !.publishers = @ \cup {prefix}]]
       \/ /\ Cardinality(policies[p].issuers) >= policies[p].terms.minIssuers
          /\ Cardinality(policies[p].publishers) >= policies[p].terms.minPublishers
          /\ policies' = [policies EXCEPT ![p] =
                            [policies[p] EXCEPT !.fingerprint = Payload(p)]]

\* Every step is one of these, and one that touches the policies touches nothing else.
LEMMA StepsOfPolicies ==
    ASSUME Typed, [Next]_vars
    PROVE  \/ policies' = policies
           \/ /\ PolicyAdded \/ \E p \in DOMAIN policies : PolicyChanged(p)
              /\ UNCHANGED <<now, workflows, handoffs>>
<1>1. ASSUME NEW who \in Account, NEW t \in PolicyTerms, CreateEvidencePolicy(who, t)
      PROVE  PolicyAdded /\ UNCHANGED <<now, workflows, handoffs>>
  <2>1. t.responseWindow \in Nat /\ t.reviewRecovery \in Nat
    BY OfferedAssumption
  <2> QED BY <1>1, <2>1 DEF CreateEvidencePolicy, PolicyAdded
<1>2. ASSUME NEW who \in Account, NEW p \in DOMAIN policies, NEW issuer \in Account,
             AddPolicyIssuer(p, who, issuer)
      PROVE  PolicyChanged(p) /\ UNCHANGED <<now, workflows, handoffs>>
  BY <1>2 DEF AddPolicyIssuer, Extensible, PolicyChanged
<1>3. ASSUME NEW who \in Account, NEW p \in DOMAIN policies, NEW prefix \in Prefix,
             AddPolicyPublisher(p, who, prefix)
      PROVE  PolicyChanged(p) /\ UNCHANGED <<now, workflows, handoffs>>
  BY <1>3 DEF AddPolicyPublisher, Extensible, PolicyChanged
<1>4. ASSUME NEW who \in Account, NEW p \in DOMAIN policies, SealEvidencePolicy(p, who)
      PROVE  PolicyChanged(p) /\ UNCHANGED <<now, workflows, handoffs>>
  BY <1>4 DEF SealEvidencePolicy, Extensible, PolicyChanged
<1> QED
  BY <1>1, <1>2, <1>3, <1>4
  DEF Next, Tick, CreateWorkflow, AddHandoff, AddHandoffDependency, ActivateWorkflow, vars

\* Policies are never dropped; their terms stay, and a sealed one stays as it is.
LEMMA PoliciesKept ==
    ASSUME Typed, [Next]_vars
    PROVE  /\ policies' \in Seq(Policy)
           /\ \A p \in DOMAIN policies :
                /\ p \in DOMAIN policies'
                /\ policies'[p].terms = policies[p].terms
                /\ Sealed(p) => policies'[p] = policies[p]
<1>1. policies \in Seq(Policy) /\ DOMAIN policies = 1..Len(policies)
      /\ \A p \in DOMAIN policies : policies[p] \in Policy
  BY LenProperties, ElementOfSeq DEF Typed
<1>2. CASE PolicyAdded
  <2>1. PICK who \in Account, t \in PolicyTerms :
            policies' = Append(policies,
              [owner |-> who, terms |-> t, issuers |-> {}, publishers |-> {},
               fingerprint |-> Unsealed])
    BY <1>2 DEF PolicyAdded
  <2> DEFINE r == [owner |-> who, terms |-> t, issuers |-> {}, publishers |-> {},
                   fingerprint |-> Unsealed]
  <2>2. r \in Policy
    BY DEF Policy
  <2> HIDE DEF r
  <2>3. policies' = Append(policies, r)
    BY <2>1 DEF r
  <2> QED BY <1>1, <2>2, <2>3, AppendedSequence
<1>3. ASSUME NEW p \in DOMAIN policies, PolicyChanged(p)
      PROVE  /\ policies' \in Seq(Policy)
             /\ \A q \in DOMAIN policies :
                  /\ q \in DOMAIN policies'
                  /\ policies'[q].terms = policies[q].terms
                  /\ Sealed(q) => policies'[q] = policies[q]
  <2>1. PICK r \in Policy : /\ policies' = [policies EXCEPT ![p] = r]
                            /\ r.terms = policies[p].terms
    <3>1. policies[p] \in Policy
      BY <1>1
    <3>2. ASSUME NEW issuer \in Account
          PROVE  LET r == [policies[p] EXCEPT !.issuers = @ \cup {issuer}]
                 IN  r \in Policy /\ r.terms = policies[p].terms
      BY <3>1 DEF Policy
    <3>3. ASSUME NEW prefix \in Prefix
          PROVE  LET r == [policies[p] EXCEPT !.publishers = @ \cup {prefix}]
                 IN  r \in Policy /\ r.terms = policies[p].terms
      BY <3>1 DEF Policy
    <3>4. LET r == [policies[p] EXCEPT !.fingerprint = Payload(p)]
          IN  r \in Policy /\ r.terms = policies[p].terms
      <4>1. Payload(p) \in [policy : Nat, owner : Account, terms : PolicyTerms,
                            issuers : SUBSET Account, publishers : SUBSET Prefix]
        BY <1>1, <3>1 DEF Payload, Policy
      <4> HIDE DEF Payload
      <4> QED BY <3>1, <4>1 DEF Policy
    <3> QED BY <1>3, <3>2, <3>3, <3>4 DEF PolicyChanged
  <2>2. ~Sealed(p)
    BY <1>3 DEF PolicyChanged
  <2> QED BY <1>1, <2>1, <2>2, ChangedSequence
<1>4. CASE policies' = policies
  BY <1>1, <1>4
<1> QED BY <1>2, <1>3, <1>4, StepsOfPolicies

\* Workflows are never dropped; they keep their policy and deadline, and an active one
\* stays as it is.  A new one rests on a sealed policy.
LEMMA WorkflowsKept ==
    ASSUME Typed, [Next]_vars
    PROVE  /\ workflows' \in Seq(Workflow)
           /\ \A w \in DOMAIN workflows :
                /\ w \in DOMAIN workflows'
                /\ workflows'[w].policy = workflows[w].policy
                /\ workflows'[w].deadline = workflows[w].deadline
                /\ workflows[w].status = "ACTIVE" => workflows'[w] = workflows[w]
           /\ \A w \in DOMAIN workflows' \ DOMAIN workflows :
                /\ workflows'[w].policy \in DOMAIN policies
                /\ Sealed(workflows'[w].policy)
                /\ policies' = policies
                /\ handoffs' = handoffs
<1> DEFINE Kept ==
        /\ workflows' \in Seq(Workflow)
        /\ \A w \in DOMAIN workflows :
             /\ w \in DOMAIN workflows'
             /\ workflows'[w].policy = workflows[w].policy
             /\ workflows'[w].deadline = workflows[w].deadline
             /\ workflows[w].status = "ACTIVE" => workflows'[w] = workflows[w]
        /\ \A w \in DOMAIN workflows' \ DOMAIN workflows :
             /\ workflows'[w].policy \in DOMAIN policies
             /\ Sealed(workflows'[w].policy)
             /\ policies' = policies
             /\ handoffs' = handoffs
<1>1. /\ workflows \in Seq(Workflow) /\ DOMAIN workflows = 1..Len(workflows)
      /\ \A w \in DOMAIN workflows : workflows[w] \in Workflow
      /\ DOMAIN policies \subseteq Nat
  BY LenProperties, ElementOfSeq DEF Typed
<1>2. ASSUME NEW who \in Account, NEW p \in DOMAIN policies, NEW deadline \in WorkflowDeadlines,
             CreateWorkflow(who, p, deadline)
      PROVE  Kept
  <2> DEFINE r == [owner |-> who, policy |-> p, status |-> "DRAFT", deadline |-> deadline]
  <2>1. r \in Workflow /\ r.policy = p
    BY <1>1, OfferedAssumption DEF Workflow
  <2>2. workflows' = Append(workflows, r) /\ Sealed(p)
        /\ policies' = policies /\ handoffs' = handoffs
    BY <1>2 DEF CreateWorkflow
  <2> HIDE DEF r
  <2> QED BY <1>1, <2>1, <2>2, AppendedSequence
<1>3. ASSUME NEW who \in Account, NEW w \in DOMAIN workflows, ActivateWorkflow(w, who)
      PROVE  Kept
  <2> DEFINE r == [workflows[w] EXCEPT !.status = "ACTIVE"]
  <2>1. r \in Workflow /\ r.policy = workflows[w].policy /\ r.deadline = workflows[w].deadline
    BY <1>1 DEF Workflow
  <2>2. workflows' = [workflows EXCEPT ![w] = r] /\ workflows[w].status # "ACTIVE"
    BY <1>3 DEF ActivateWorkflow, Draftable
  <2> HIDE DEF r
  <2> QED BY <1>1, <2>1, <2>2, ChangedSequence
<1>4. CASE workflows' = workflows
  BY <1>1, <1>4
<1> QED
  BY <1>2, <1>3, <1>4
  DEF Next, Tick, CreateEvidencePolicy, AddPolicyIssuer, AddPolicyPublisher,
      SealEvidencePolicy, AddHandoff, AddHandoffDependency, vars

\* What a step does to the handoffs: nothing, a new one with the next ordinal, or a
\* new dependency, both in a draft workflow.
HandoffAdded(w, t) ==
    /\ workflows[w].status = "DRAFT"
    /\ NestedDeadlines(w, t)
    /\ t.requester # t.provider
    /\ ValidCriteria(t.criteria)
    /\ handoffs' = Append(handoffs,
            [workflow |-> w, ordinal |-> NextOrdinal(w), terms |-> t, dependencies |-> {}])

DependencyAdded(h, d) ==
    /\ workflows[handoffs[h].workflow].status = "DRAFT"
    /\ handoffs[d].workflow = handoffs[h].workflow
    /\ Precedes(d, h)
    /\ handoffs' = [handoffs EXCEPT ![h] = [handoffs[h] EXCEPT !.dependencies = @ \cup {d}]]

LEMMA StepsOfHandoffs ==
    ASSUME Typed, [Next]_vars
    PROVE  \/ handoffs' = handoffs
           \/ /\ \/ \E w \in DOMAIN workflows, t \in HandoffTerms : HandoffAdded(w, t)
                 \/ \E h, d \in DOMAIN handoffs : DependencyAdded(h, d)
              /\ UNCHANGED <<now, policies, workflows>>
<1>1. ASSUME NEW who \in Account, NEW w \in DOMAIN workflows, NEW t \in HandoffTerms,
             AddHandoff(w, who, t)
      PROVE  HandoffAdded(w, t) /\ UNCHANGED <<now, policies, workflows>>
  BY <1>1 DEF AddHandoff, HandoffAdded, Draftable
<1>2. ASSUME NEW who \in Account, NEW h \in DOMAIN handoffs, NEW d \in DOMAIN handoffs,
             AddHandoffDependency(h, d, who)
      PROVE  DependencyAdded(h, d) /\ UNCHANGED <<now, policies, workflows>>
  BY <1>2 DEF AddHandoffDependency, DependencyAdded, Draftable
<1> QED
  BY <1>1, <1>2
  DEF Next, Tick, CreateEvidencePolicy, AddPolicyIssuer, AddPolicyPublisher,
      SealEvidencePolicy, CreateWorkflow, ActivateWorkflow, vars

\* An ordinal is a number: a workflow has finitely many handoffs.
LEMMA OrdinalIsNat ==
    ASSUME Typed, NEW w
    PROVE  NextOrdinal(w) \in Nat
<1>1. DOMAIN handoffs = 1..Len(handoffs) /\ Len(handoffs) \in Nat
  BY LenProperties DEF Typed
<1>2. IsFiniteSet(DOMAIN handoffs)
  BY <1>1, FS_Interval
<1>3. HandoffsOf(w) \subseteq DOMAIN handoffs
  BY DEF HandoffsOf
<1> QED BY <1>2, <1>3, FS_Subset, FS_CardinalityType DEF NextOrdinal

\* Handoffs are never dropped; they keep everything but their dependencies, and a new
\* one has none.
LEMMA HandoffsKept ==
    ASSUME Typed, [Next]_vars
    PROVE  /\ handoffs' \in Seq(HandoffRecord)
           /\ DOMAIN handoffs \subseteq DOMAIN handoffs'
           /\ \A h \in DOMAIN handoffs :
                /\ handoffs'[h].workflow = handoffs[h].workflow
                /\ handoffs'[h].ordinal = handoffs[h].ordinal
                /\ handoffs'[h].terms = handoffs[h].terms
                /\ \/ handoffs'[h].dependencies = handoffs[h].dependencies
                   \/ \E d \in DOMAIN handoffs :
                        /\ handoffs'[h].dependencies = handoffs[h].dependencies \cup {d}
                        /\ Precedes(d, h)
                /\ \/ handoffs'[h] = handoffs[h]
                   \/ workflows[handoffs[h].workflow].status = "DRAFT"
           /\ \A h \in DOMAIN handoffs' \ DOMAIN handoffs :
                \E w \in DOMAIN workflows, t \in HandoffTerms :
                    /\ UNCHANGED <<now, policies, workflows>>
                    /\ h = Len(handoffs) + 1
                    /\ HandoffAdded(w, t)
                    /\ handoffs'[h] = [workflow |-> w, ordinal |-> NextOrdinal(w), terms |-> t,
                                       dependencies |-> {}]
<1> DEFINE Goal ==
        /\ handoffs' \in Seq(HandoffRecord)
        /\ DOMAIN handoffs \subseteq DOMAIN handoffs'
        /\ \A h \in DOMAIN handoffs :
             /\ handoffs'[h].workflow = handoffs[h].workflow
             /\ handoffs'[h].ordinal = handoffs[h].ordinal
             /\ handoffs'[h].terms = handoffs[h].terms
             /\ \/ handoffs'[h].dependencies = handoffs[h].dependencies
                \/ \E d \in DOMAIN handoffs :
                     /\ handoffs'[h].dependencies = handoffs[h].dependencies \cup {d}
                     /\ Precedes(d, h)
             /\ \/ handoffs'[h] = handoffs[h]
                \/ workflows[handoffs[h].workflow].status = "DRAFT"
        /\ \A h \in DOMAIN handoffs' \ DOMAIN handoffs :
             \E w \in DOMAIN workflows, t \in HandoffTerms :
                 /\ UNCHANGED <<now, policies, workflows>>
                 /\ h = Len(handoffs) + 1
                 /\ HandoffAdded(w, t)
                 /\ handoffs'[h] = [workflow |-> w, ordinal |-> NextOrdinal(w), terms |-> t,
                                    dependencies |-> {}]
<1>1. /\ handoffs \in Seq(HandoffRecord) /\ DOMAIN handoffs = 1..Len(handoffs)
      /\ \A h \in DOMAIN handoffs : handoffs[h] \in HandoffRecord
      /\ DOMAIN workflows \subseteq Nat
  BY LenProperties, ElementOfSeq DEF Typed
<1>2. ASSUME NEW w \in DOMAIN workflows, NEW t \in HandoffTerms, HandoffAdded(w, t),
             UNCHANGED <<now, policies, workflows>>
      PROVE  Goal
  <2> DEFINE r == [workflow |-> w, ordinal |-> NextOrdinal(w), terms |-> t, dependencies |-> {}]
  <2>1. r \in HandoffRecord
    BY <1>1, OrdinalIsNat DEF HandoffRecord
  <2>2. handoffs' = Append(handoffs, r)
    BY <1>2 DEF HandoffAdded
  <2> HIDE DEF r
  <2>3. /\ handoffs' \in Seq(HandoffRecord)
        /\ DOMAIN handoffs' = DOMAIN handoffs \cup {Len(handoffs) + 1}
        /\ \A h \in DOMAIN handoffs : handoffs'[h] = handoffs[h]
        /\ handoffs'[Len(handoffs) + 1] = r
    BY <1>1, <2>1, <2>2, AppendedSequence
  <2>4. \A h \in DOMAIN handoffs' \ DOMAIN handoffs : h = Len(handoffs) + 1
    BY <2>3
  <2> QED BY <1>2, <2>3, <2>4 DEF r
<1>3. ASSUME NEW h \in DOMAIN handoffs, NEW d \in DOMAIN handoffs, DependencyAdded(h, d)
      PROVE  Goal
  <2> DEFINE r == [handoffs[h] EXCEPT !.dependencies = @ \cup {d}]
  <2>1. /\ r \in HandoffRecord
        /\ r.workflow = handoffs[h].workflow /\ r.ordinal = handoffs[h].ordinal
        /\ r.terms = handoffs[h].terms
        /\ r.dependencies = handoffs[h].dependencies \cup {d}
    BY SMTT(30), <1>1 DEF HandoffRecord
  <2>2. handoffs' = [handoffs EXCEPT ![h] = r] /\ Precedes(d, h)
        /\ workflows[handoffs[h].workflow].status = "DRAFT"
    BY <1>3 DEF DependencyAdded
  <2> HIDE DEF r
  <2>3. /\ handoffs' \in Seq(HandoffRecord)
        /\ DOMAIN handoffs' = DOMAIN handoffs
        /\ \A g \in DOMAIN handoffs : handoffs'[g] = IF g = h THEN r ELSE handoffs[g]
    BY <1>1, <2>1, <2>2, ChangedSequence
  <2> QED BY <2>1, <2>2, <2>3
<1>4. CASE handoffs' = handoffs
  BY <1>1, <1>4
<1> QED BY <1>2, <1>3, <1>4, StepsOfHandoffs

LEMMA NextTyped == Typed /\ [Next]_vars => Typed'
<1> SUFFICES ASSUME Typed, [Next]_vars PROVE Typed'
  OBVIOUS
<1>1. now' = now \/ now' = now + 1
  <2>1. CASE Tick
    BY <2>1 DEF Tick
  <2>2. CASE Next /\ ~Tick
    BY <2>2 DEF Next, CreateEvidencePolicy, AddPolicyIssuer, AddPolicyPublisher,
                SealEvidencePolicy, CreateWorkflow, AddHandoff, AddHandoffDependency,
                ActivateWorkflow
  <2>3. CASE UNCHANGED vars
    BY <2>3 DEF vars
  <2> QED BY <2>1, <2>2, <2>3
<1>2. now' \in Nat \ {0}
  BY <1>1 DEF Typed
<1> QED BY <1>2, PoliciesKept, WorkflowsKept, HandoffsKept DEF Typed

-----------------------------------------------------------------------------
(* Type correctness.                                                       *)

References ==
    /\ \A w \in DOMAIN workflows : workflows[w].policy \in DOMAIN policies
    /\ \A h \in DOMAIN handoffs :
        /\ handoffs[h].workflow \in DOMAIN workflows
        /\ handoffs[h].dependencies \subseteq DOMAIN handoffs

\* The ordinal of a handoff counts the earlier handoffs of its workflow.
EarlierOf(h) == {g \in 1..(h - 1) : handoffs[g].workflow = handoffs[h].workflow}
OrdinalsCount == \A h \in DOMAIN handoffs : handoffs[h].ordinal = Cardinality(EarlierOf(h))

LEMMA NextReferences == Typed /\ References /\ [Next]_vars => References'
<1> SUFFICES ASSUME Typed, References, [Next]_vars PROVE References'
  OBVIOUS
<1>1. ASSUME NEW w \in DOMAIN workflows'
      PROVE  workflows'[w].policy \in DOMAIN policies'
  <2>1. CASE w \in DOMAIN workflows
    BY <2>1, WorkflowsKept, PoliciesKept DEF References
  <2>2. CASE w \notin DOMAIN workflows
    BY <2>2, WorkflowsKept
  <2> QED BY <2>1, <2>2
<1>2. ASSUME NEW h \in DOMAIN handoffs'
      PROVE  /\ handoffs'[h].workflow \in DOMAIN workflows'
             /\ handoffs'[h].dependencies \subseteq DOMAIN handoffs'
  <2>1. CASE h \in DOMAIN handoffs
    <3>1. handoffs'[h].workflow \in DOMAIN workflows'
      BY <2>1, HandoffsKept, WorkflowsKept DEF References
    <3>2. handoffs[h].dependencies \subseteq DOMAIN handoffs
          /\ DOMAIN handoffs \subseteq DOMAIN handoffs'
      BY <2>1, HandoffsKept DEF References
    <3>3. \/ handoffs'[h].dependencies = handoffs[h].dependencies
          \/ \E d \in DOMAIN handoffs :
                handoffs'[h].dependencies = handoffs[h].dependencies \cup {d}
      BY <2>1, HandoffsKept
    <3> QED BY <3>1, <3>2, <3>3
  <2>2. CASE h \notin DOMAIN handoffs
    <3>1. PICK w \in DOMAIN workflows, t \in HandoffTerms :
            /\ UNCHANGED <<now, policies, workflows>>
            /\ handoffs'[h] = [workflow |-> w, ordinal |-> NextOrdinal(w), terms |-> t,
                               dependencies |-> {}]
      BY <2>2, HandoffsKept
    <3> QED BY <3>1
  <2> QED BY <2>1, <2>2
<1> QED BY <1>1, <1>2 DEF References

LEMMA NextOrdinals == Typed /\ OrdinalsCount /\ [Next]_vars => OrdinalsCount'
<1> SUFFICES ASSUME Typed, OrdinalsCount, [Next]_vars, NEW h \in DOMAIN handoffs'
             PROVE  handoffs'[h].ordinal = Cardinality(EarlierOf(h)')
  BY DEF OrdinalsCount
<1>1. DOMAIN handoffs = 1..Len(handoffs) /\ Len(handoffs) \in Nat
  BY LenProperties DEF Typed
<1>2. CASE h \in DOMAIN handoffs
  <2>1. \A g \in 1..h : handoffs'[g].workflow = handoffs[g].workflow
    BY <1>1, <1>2, HandoffsKept
  <2>2. EarlierOf(h)' = EarlierOf(h)
    BY <1>1, <1>2, <2>1 DEF EarlierOf
  <2> QED BY <1>2, <2>2, HandoffsKept DEF OrdinalsCount
<1>3. CASE h \notin DOMAIN handoffs
  <2>1. PICK w \in DOMAIN workflows, t \in HandoffTerms :
          /\ h = Len(handoffs) + 1
          /\ handoffs'[h] = [workflow |-> w, ordinal |-> NextOrdinal(w), terms |-> t,
                             dependencies |-> {}]
    BY <1>3, HandoffsKept
  <2>2. \A g \in DOMAIN handoffs : handoffs'[g].workflow = handoffs[g].workflow
    BY HandoffsKept
  <2>3. EarlierOf(h)' = {g \in 1..(h - 1) : handoffs'[g].workflow = handoffs'[h].workflow}
    BY DEF EarlierOf
  <2>4. 1..(h - 1) = DOMAIN handoffs
    BY <1>1, <2>1
  <2>5. EarlierOf(h)' = HandoffsOf(w)
    BY <2>1, <2>2, <2>3, <2>4 DEF HandoffsOf
  <2> QED BY <2>1, <2>5 DEF NextOrdinal
<1> QED BY <1>2, <1>3

LEMMA InitTypes == Init => Typed /\ References /\ OrdinalsCount
<1> SUFFICES ASSUME Init PROVE Typed /\ References /\ OrdinalsCount
  OBVIOUS
<1>1. /\ policies \in Seq(Policy) /\ workflows \in Seq(Workflow)
      /\ handoffs \in Seq(HandoffRecord)
  BY EmptySeq DEF Init
<1>2. DOMAIN workflows = {} /\ DOMAIN handoffs = {}
  BY DEF Init
<1> QED BY <1>1, <1>2 DEF Init, Typed, References, OrdinalsCount

TypeInv == Typed /\ References /\ OrdinalsCount

LEMMA TypesHold == Spec => []TypeInv
<1>1. Init => TypeInv
  BY InitTypes DEF TypeInv
<1>2. TypeInv /\ [Next]_vars => TypeInv'
  BY NextTyped, NextReferences, NextOrdinals DEF TypeInv
<1> QED BY <1>1, <1>2, PTL DEF Spec

\* The state keeps its types, every reference names an existing record, and no two
\* handoffs of a workflow are ever given one ordinal (add_handoff).
THEOREM TypeCorrect == Spec => []TypeOK
<1>1. TypeInv => TypeOK
  BY DEF TypeInv, Typed, References, OrdinalsCount, EarlierOf, TypeOK
<1> QED BY <1>1, TypesHold, PTL

-----------------------------------------------------------------------------
(* Policies.                                                               *)

\* A policy collects publishers on different hosts, and keeps, once sealed, what its
\* fingerprint was computed from.
PolicySound(p) ==
    /\ IsFiniteSet(policies[p].publishers)
    /\ policies[p].publishers \subseteq Prefix
    /\ \A x, y \in policies[p].publishers : OriginOf[x] = OriginOf[y] => x = y
    /\ Sealed(p) =>
        /\ policies[p].fingerprint = Payload(p)
        /\ Cardinality(policies[p].issuers) >= policies[p].terms.minIssuers
        /\ Cardinality(policies[p].publishers) >= policies[p].terms.minPublishers

PoliciesSound ==
    /\ \A p \in DOMAIN policies : PolicySound(p)
    /\ \A w \in DOMAIN workflows : Sealed(workflows[w].policy)

\* As many different hosts as publishers.
LEMMA HostsAreDistinct ==
    ASSUME NEW P, P \subseteq Prefix, IsFiniteSet(P),
           \A x, y \in P : OriginOf[x] = OriginOf[y] => x = y
    PROVE  Cardinality({OriginOf[x] : x \in P}) = Cardinality(P)
<1> DEFINE T == {OriginOf[x] : x \in P}
           f == [x \in P |-> OriginOf[x]]
<1>1. f \in Bijection(P, T)
  BY DEF Bijection, Injection, Surjection, IsInjective
<1>2. ExistsBijection(P, T)
  BY <1>1 DEF ExistsBijection
<1> QED BY <1>2, FS_Bijection

LEMMA NextPolicySound ==
    ASSUME Typed, [Next]_vars, \A p \in DOMAIN policies : PolicySound(p),
           NEW q \in DOMAIN policies'
    PROVE  PolicySound(q)'
<1>1. policies \in Seq(Policy) /\ DOMAIN policies = 1..Len(policies)
      /\ \A p \in DOMAIN policies : policies[p] \in Policy
  BY LenProperties, ElementOfSeq DEF Typed
<1>2. CASE q \in DOMAIN policies /\ policies'[q] = policies[q]
  BY <1>2 DEF PolicySound, Sealed, Payload
<1>3. CASE PolicyAdded
  <2>1. PICK who \in Account, t \in PolicyTerms :
            policies' = Append(policies,
              [owner |-> who, terms |-> t, issuers |-> {}, publishers |-> {},
               fingerprint |-> Unsealed])
    BY <1>3 DEF PolicyAdded
  <2> DEFINE r == [owner |-> who, terms |-> t, issuers |-> {}, publishers |-> {},
                   fingerprint |-> Unsealed]
  <2>2. r \in Policy
    BY DEF Policy
  <2>3. r.publishers = {} /\ r.fingerprint = Unsealed
    OBVIOUS
  <2>4. policies' = Append(policies, r)
    BY <2>1
  <2> HIDE DEF r
  <2>5. \/ q \in DOMAIN policies /\ policies'[q] = policies[q]
        \/ policies'[q] = r
    BY <1>1, <2>2, <2>4, AppendedSequence
  <2>6. CASE policies'[q] = r
    BY <2>3, <2>6, FS_EmptySet DEF PolicySound, Sealed
  <2> QED BY <1>2, <2>5, <2>6
<1>4. ASSUME NEW p \in DOMAIN policies, PolicyChanged(p), q \in DOMAIN policies,
             policies'[q] # policies[q]
      PROVE  PolicySound(q)'
  <2> DEFINE o == policies[p]
  <2>1. o \in Policy /\ PolicySound(p) /\ ~Sealed(p)
    BY <1>1, <1>4 DEF PolicyChanged
  <2>2. ASSUME NEW r, policies' = [policies EXCEPT ![p] = r]
        PROVE  q = p /\ policies'[q] = r
    BY <1>1, <1>4, <2>2
  <2>3. ASSUME NEW issuer \in Account,
               policies' = [policies EXCEPT ![p] = [o EXCEPT !.issuers = @ \cup {issuer}]]
        PROVE  PolicySound(q)'
    <3>1. /\ policies'[q].publishers = o.publishers
          /\ policies'[q].fingerprint = o.fingerprint
          /\ q = p
      BY <2>1, <2>2, <2>3 DEF Policy
    <3> QED BY <2>1, <3>1 DEF PolicySound, Sealed
  <2>4. ASSUME NEW prefix \in Prefix, NewOrigin(p, prefix),
               policies' = [policies EXCEPT ![p] = [o EXCEPT !.publishers = @ \cup {prefix}]]
        PROVE  PolicySound(q)'
    <3>1. /\ policies'[q].publishers = o.publishers \cup {prefix}
          /\ policies'[q].fingerprint = o.fingerprint
          /\ q = p
      BY <2>1, <2>2, <2>4 DEF Policy
    <3>2. IsFiniteSet(o.publishers \cup {prefix})
      BY <2>1, FS_AddElement DEF PolicySound
    <3>3. \A x, y \in o.publishers \cup {prefix} : OriginOf[x] = OriginOf[y] => x = y
      BY <2>1, <2>4 DEF PolicySound, NewOrigin
    <3> QED BY <2>1, <3>1, <3>2, <3>3 DEF PolicySound, Sealed
  <2>5. ASSUME Cardinality(o.issuers) >= o.terms.minIssuers,
               Cardinality(o.publishers) >= o.terms.minPublishers,
               policies' = [policies EXCEPT ![p] = [o EXCEPT !.fingerprint = Payload(p)]]
        PROVE  PolicySound(q)'
    <3>1. policies'[q] = [o EXCEPT !.fingerprint = Payload(p)] /\ q = p
      BY <2>2, <2>5
    <3>2. /\ policies'[q].owner = o.owner
          /\ policies'[q].terms = o.terms
          /\ policies'[q].issuers = o.issuers
          /\ policies'[q].publishers = o.publishers
          /\ policies'[q].fingerprint = Payload(p)
      BY <2>1, <3>1 DEF Policy
    <3>3. Payload(q)' = Payload(p)
      BY <3>1, <3>2 DEF Payload
    <3> QED BY <2>1, <2>5, <3>1, <3>2, <3>3 DEF PolicySound
  <2> QED BY <1>4, <2>3, <2>4, <2>5 DEF PolicyChanged
<1>5. DOMAIN policies' = DOMAIN policies \/ PolicyAdded
  BY StepsOfPolicies DEF PolicyChanged
<1> QED BY <1>2, <1>3, <1>4, <1>5, StepsOfPolicies

\* A workflow rests on a sealed policy, and a sealed policy is what its fingerprint was
\* computed from and approves as many issuers and hosts as it demands
\* (seal_evidence_policy, create_workflow).
THEOREM SealedPolicies == Spec => []PolicyIsAsSealed
<1> DEFINE Inv == TypeInv /\ PoliciesSound
<1>1. Init => PoliciesSound
  <2>1. Init => DOMAIN policies = {} /\ DOMAIN workflows = {}
    BY DEF Init
  <2> QED BY <2>1 DEF PoliciesSound
<1>2. TypeInv /\ PoliciesSound /\ [Next]_vars => PoliciesSound'
  <2> SUFFICES ASSUME TypeInv, PoliciesSound, [Next]_vars PROVE PoliciesSound'
    OBVIOUS
  <2>1. Typed /\ References
    BY DEF TypeInv
  <2>2. ASSUME NEW p \in DOMAIN policies' PROVE PolicySound(p)'
    BY <2>1, NextPolicySound DEF PoliciesSound
  <2>3. ASSUME NEW w \in DOMAIN workflows' PROVE Sealed(workflows[w].policy)'
    <3>1. CASE w \in DOMAIN workflows
      BY <2>1, <3>1, WorkflowsKept, PoliciesKept DEF PoliciesSound, References, Sealed
    <3>2. CASE w \notin DOMAIN workflows
      BY <2>1, <3>2, WorkflowsKept DEF Sealed
    <3> QED BY <3>1, <3>2
  <2> QED BY <2>2, <2>3 DEF PoliciesSound
<1>3. PoliciesSound => PolicyIsAsSealed
  <2> SUFFICES ASSUME PoliciesSound, NEW p \in DOMAIN policies, Sealed(p)
               PROVE  policies[p].fingerprint = Payload(p) /\ ThresholdsCanBeMet(p)
    BY DEF PolicyIsAsSealed, PoliciesSound
  <2>1. PolicySound(p)
    BY DEF PoliciesSound
  <2>2. Cardinality({OriginOf[x] : x \in policies[p].publishers})
            = Cardinality(policies[p].publishers)
    BY <2>1, HostsAreDistinct DEF PolicySound
  <2> QED BY <2>1, <2>2 DEF PolicySound, ThresholdsCanBeMet
<1>4. TypeInv /\ [Next]_vars => TypeInv'
  BY NextTyped, NextReferences, NextOrdinals DEF TypeInv
<1>5. Init => TypeInv
  BY InitTypes DEF TypeInv
<1> QED BY <1>1, <1>2, <1>3, <1>4, <1>5, PTL DEF Spec

-----------------------------------------------------------------------------
(* Dependencies.                                                           *)

\* A dependency has a smaller ordinal than the handoff that depends on it.
DependenciesDescend ==
    \A h \in DOMAIN handoffs :
        /\ handoffs[h].ordinal \in Nat
        /\ \A d \in handoffs[h].dependencies : handoffs[d].ordinal < handoffs[h].ordinal

LEMMA NextDescend ==
    TypeInv /\ DependenciesDescend /\ [Next]_vars => DependenciesDescend'
<1> SUFFICES ASSUME TypeInv, DependenciesDescend, [Next]_vars, NEW h \in DOMAIN handoffs'
             PROVE  /\ handoffs'[h].ordinal \in Nat
                    /\ \A d \in handoffs'[h].dependencies :
                          handoffs'[d].ordinal < handoffs'[h].ordinal
  BY DEF DependenciesDescend
<1>1. Typed /\ References
  BY DEF TypeInv
<1>2. CASE h \in DOMAIN handoffs
  <2>1. handoffs[h].dependencies \subseteq DOMAIN handoffs
    BY <1>1, <1>2 DEF References
  <2>2. \A g \in DOMAIN handoffs : handoffs'[g].ordinal = handoffs[g].ordinal
    BY <1>1, HandoffsKept
  <2>3. \/ handoffs'[h].dependencies = handoffs[h].dependencies
        \/ \E d \in DOMAIN handoffs :
              /\ handoffs'[h].dependencies = handoffs[h].dependencies \cup {d}
              /\ handoffs[d].ordinal < handoffs[h].ordinal
    BY <1>1, <1>2, HandoffsKept DEF Precedes
  <2> QED BY <1>2, <2>1, <2>2, <2>3 DEF DependenciesDescend
<1>3. CASE h \notin DOMAIN handoffs
  <2>1. PICK w \in DOMAIN workflows, t \in HandoffTerms :
            handoffs'[h] = [workflow |-> w, ordinal |-> NextOrdinal(w), terms |-> t,
                            dependencies |-> {}]
    BY <1>1, <1>3, HandoffsKept
  <2> QED BY <1>1, <2>1, OrdinalIsNat
<1> QED BY <1>2, <1>3

\* In whatever order they were added, dependencies form no cycle: the handoff of the
\* smallest ordinal in a set depends on none of the set (add_handoff_dependency).
THEOREM NoDependencyCycle == Spec => []DependenciesAcyclic
<1>1. Init => DependenciesDescend
  BY DEF Init, DependenciesDescend
<1>2. DependenciesDescend => DependenciesAcyclic
  <2> SUFFICES ASSUME DependenciesDescend, NEW S \in SUBSET (DOMAIN handoffs), S # {}
               PROVE  \E h \in S : handoffs[h].dependencies \cap S = {}
    BY DEF DependenciesAcyclic
  <2> DEFINE T == {handoffs[h].ordinal : h \in S}
  <2>1. T \subseteq Nat /\ T # {}
    BY DEF DependenciesDescend
  <2>2. PICK x \in T : \A y \in T : ~ (<<y, x>> \in OpToRel(<, Nat))
    <3> HIDE DEF T
    <3> QED BY <2>1, WFMin, NatLessThanWellFounded
  <2>3. \A y \in T : ~ (y < x)
    BY <2>1, <2>2 DEF OpToRel
  <2>4. PICK h \in S : handoffs[h].ordinal = x
    BY <2>2
  <2>5. ASSUME NEW d \in handoffs[h].dependencies \cap S PROVE FALSE
    <3>1. handoffs[d].ordinal < x /\ handoffs[d].ordinal \in T
      BY <2>4, <2>5 DEF DependenciesDescend
    <3> QED BY <2>3, <3>1
  <2> QED BY <2>5
<1> QED BY <1>1, <1>2, NextDescend, TypesHold, PTL DEF Spec

-----------------------------------------------------------------------------
(* Terms.                                                                  *)

\* Policies and handoffs are sound from their creation on, whatever their workflow's
\* status is.
TermsSound ==
    /\ \A p \in DOMAIN policies :
        /\ 0 < policies[p].terms.responseWindow
        /\ policies[p].terms.responseWindow < policies[p].terms.reviewRecovery
    /\ \A h \in DOMAIN handoffs :
        LET t == handoffs[h].terms
        IN  /\ t.requester # t.provider
            /\ 1 < t.fundingDeadline
            /\ t.fundingDeadline < t.recoveryDeadline
            /\ t.recoveryDeadline <= workflows[handoffs[h].workflow].deadline
            /\ t.criteria \subseteq {2, 3}

LEMMA NextTermsSound == TypeInv /\ TermsSound /\ [Next]_vars => TermsSound'
<1> SUFFICES ASSUME TypeInv, TermsSound, [Next]_vars PROVE TermsSound'
  OBVIOUS
<1>1. Typed /\ References
  BY DEF TypeInv
<1>2. ASSUME NEW p \in DOMAIN policies'
      PROVE  /\ 0 < policies'[p].terms.responseWindow
             /\ policies'[p].terms.responseWindow < policies'[p].terms.reviewRecovery
  <2>1. CASE p \in DOMAIN policies
    BY <1>1, <2>1, PoliciesKept DEF TermsSound
  <2>2. CASE p \notin DOMAIN policies
    <3>1. policies \in Seq(Policy) /\ DOMAIN policies = 1..Len(policies)
      BY <1>1, LenProperties DEF Typed
    <3>2. PolicyAdded
      BY <1>1, <2>2, <3>1, StepsOfPolicies DEF PolicyChanged
    <3>3. PICK who \in Account, t \in PolicyTerms :
            /\ 0 < t.responseWindow /\ t.responseWindow < t.reviewRecovery
            /\ policies' = Append(policies,
                [owner |-> who, terms |-> t, issuers |-> {}, publishers |-> {},
                 fingerprint |-> Unsealed])
      BY <3>2 DEF PolicyAdded
    <3> DEFINE r == [owner |-> who, terms |-> t, issuers |-> {}, publishers |-> {},
                     fingerprint |-> Unsealed]
    <3>4. r \in Policy /\ r.terms = t
      BY DEF Policy
    <3>5. policies' = Append(policies, r)
      BY <3>3
    <3> HIDE DEF r
    <3>6. policies'[p] = r
      BY <2>2, <3>1, <3>4, <3>5, AppendedSequence
    <3> QED BY <3>3, <3>4, <3>6
  <2> QED BY <2>1, <2>2
<1>3. ASSUME NEW h \in DOMAIN handoffs'
      PROVE  LET t == handoffs'[h].terms
             IN  /\ t.requester # t.provider
                 /\ 1 < t.fundingDeadline
                 /\ t.fundingDeadline < t.recoveryDeadline
                 /\ t.recoveryDeadline <= workflows'[handoffs'[h].workflow].deadline
                 /\ t.criteria \subseteq {2, 3}
  <2>1. CASE h \in DOMAIN handoffs
    <3>1. /\ handoffs'[h].terms = handoffs[h].terms
          /\ handoffs'[h].workflow = handoffs[h].workflow
          /\ handoffs[h].workflow \in DOMAIN workflows
      BY <1>1, <2>1, HandoffsKept DEF References
    <3>2. workflows'[handoffs[h].workflow].deadline = workflows[handoffs[h].workflow].deadline
      BY <1>1, <3>1, WorkflowsKept
    <3> QED BY <2>1, <3>1, <3>2 DEF TermsSound
  <2>2. CASE h \notin DOMAIN handoffs
    <3>1. PICK w \in DOMAIN workflows, t \in HandoffTerms :
            /\ UNCHANGED <<now, policies, workflows>>
            /\ HandoffAdded(w, t)
            /\ handoffs'[h] = [workflow |-> w, ordinal |-> NextOrdinal(w), terms |-> t,
                               dependencies |-> {}]
      BY <1>1, <2>2, HandoffsKept
    <3>2. /\ t.requester # t.provider /\ t.criteria \subseteq {2, 3}
          /\ now < t.fundingDeadline /\ t.fundingDeadline < t.deadline
          /\ t.deadline < t.recoveryDeadline /\ t.recoveryDeadline <= workflows[w].deadline
      BY <3>1 DEF HandoffAdded, NestedDeadlines, ValidCriteria
    <3>3. /\ t.fundingDeadline \in Nat /\ t.deadline \in Nat /\ t.recoveryDeadline \in Nat
          /\ now \in Nat \ {0}
      BY <1>1, OfferedAssumption DEF Typed
    <3> QED BY <3>1, <3>2, <3>3
  <2> QED BY <2>1, <2>2
<1> QED BY <1>2, <1>3 DEF TermsSound

\* What the three contracts of an active workflow take for granted about its terms
\* (add_handoff, create_evidence_policy, activate_workflow).
THEOREM TermsAreSound == Spec => []ActiveTermsAreSound
<1>1. Init => TermsSound
  BY DEF Init, TermsSound
<1>2. TypeInv /\ TermsSound => ActiveTermsAreSound
  BY DEF TypeInv, References, TermsSound, ActiveTermsAreSound
<1> QED BY <1>1, <1>2, NextTermsSound, TypesHold, PTL DEF Spec

\* From its activation on, a workflow, its handoffs and their dependencies are fixed
\* (the status guard of add_handoff, add_handoff_dependency and activate_workflow).
THEOREM ActiveIsFixed == Spec => ActiveWorkflowIsFixed
<1>1. TypeInv /\ [Next]_vars =>
        [\A w \in DOMAIN workflows :
            workflows[w].status = "ACTIVE" =>
                /\ workflows'[w] = workflows[w]
                /\ {h \in DOMAIN handoffs' : handoffs'[h].workflow = w} = HandoffsOf(w)
                /\ \A h \in HandoffsOf(w) : handoffs'[h] = handoffs[h]]_vars
  <2> SUFFICES ASSUME TypeInv, [Next]_vars, NEW w \in DOMAIN workflows,
                      workflows[w].status = "ACTIVE"
               PROVE  /\ workflows'[w] = workflows[w]
                      /\ {h \in DOMAIN handoffs' : handoffs'[h].workflow = w} = HandoffsOf(w)
                      /\ \A h \in HandoffsOf(w) : handoffs'[h] = handoffs[h]
    OBVIOUS
  <2>1. Typed
    BY DEF TypeInv
  <2>2. workflows'[w] = workflows[w]
    BY <2>1, WorkflowsKept
  <2>3. ASSUME NEW h \in DOMAIN handoffs', h \notin DOMAIN handoffs
        PROVE  handoffs'[h].workflow # w
    <3>1. PICK v \in DOMAIN workflows, t \in HandoffTerms :
            /\ HandoffAdded(v, t)
            /\ handoffs'[h] = [workflow |-> v, ordinal |-> NextOrdinal(v), terms |-> t,
                               dependencies |-> {}]
      BY <2>1, <2>3, HandoffsKept
    <3>2. workflows[v].status = "DRAFT"
      BY <3>1 DEF HandoffAdded
    <3> QED BY <3>1, <3>2
  <2>4. ASSUME NEW h \in DOMAIN handoffs
        PROVE  /\ h \in DOMAIN handoffs'
               /\ handoffs'[h].workflow = handoffs[h].workflow
               /\ handoffs[h].workflow = w => handoffs'[h] = handoffs[h]
    BY <2>1, <2>4, HandoffsKept
  <2> QED BY <2>2, <2>3, <2>4 DEF HandoffsOf
<1> QED BY <1>1, TypesHold, PTL DEF Spec, ActiveWorkflowIsFixed
=============================================================================
