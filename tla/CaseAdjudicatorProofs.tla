------------------------ MODULE CaseAdjudicatorProofs ------------------------
(***************************************************************************)
(* Theorems about CaseAdjudicator, for every policy, every set of cases,   *)
(* sources and accounts, and any number of revisions: what is decided for  *)
(* a case is decided once and is what the Vault is told.                   *)
(***************************************************************************)
EXTENDS CaseAdjudicator, FiniteSetTheorems, SequenceTheorems, TLAPS

\* Only a reviewed case is queued, so what needs another status cannot touch it.
QueuedIsReviewed == \A c \in Case : cases[c].queued => cases[c].status = "REVIEWED"

\* The inductive invariant: a message in net names the rule of the queued verdict,
\* which stays current because queueing closes the case to new revisions.
IInv ==
    /\ TypeOK
    /\ VerdictIsCurrent
    /\ QueuedIsReviewed
    /\ OneConsequence

-----------------------------------------------------------------------------
(* Lemmas about the state's data.                                          *)

\* The lesser of two times is a time, and no later than either.
LEMMA LeastTime ==
    ASSUME NEW a \in Nat, NEW b \in Nat
    PROVE  Least(a, b) \in Nat
BY DEF Least

\* Replacing the current revision of a case changes nothing else.
LEMMA ReviseCurrent ==
    ASSUME revisions \in [Case -> Seq(Revision)], NEW c \in Case, revisions[c] # <<>>,
           NEW r \in Revision,
           revisions' = [revisions EXCEPT ![c][Current(c)] = r]
    PROVE  /\ Current(c) \in DOMAIN revisions[c]
           /\ revisions' \in [Case -> Seq(Revision)]
           /\ \A d \in Case : /\ Len(revisions'[d]) = Len(revisions[d])
                              /\ revisions'[d] = <<>> <=> revisions[d] = <<>>
                              /\ \A k \in DOMAIN revisions'[d] :
                                    revisions'[d][k] =
                                        IF d = c /\ k = Current(c) THEN r ELSE revisions[d][k]
<1> DEFINE q == revisions[c]
<1>1. q \in Seq(Revision) /\ Len(q) \in Nat /\ DOMAIN q = 1..Len(q)
  OBVIOUS
<1>2. Len(q) \in 1..Len(q)
  BY <1>1, EmptySeq
<1>3. /\ [q EXCEPT ![Len(q)] = r] \in Seq(Revision)
      /\ Len([q EXCEPT ![Len(q)] = r]) = Len(q)
      /\ \A j \in 1..Len(q) : [q EXCEPT ![Len(q)] = r][j] = IF j = Len(q) THEN r ELSE q[j]
  BY <1>1, <1>2, ExceptSeq
<1>4. revisions' = [revisions EXCEPT ![c] = [q EXCEPT ![Len(q)] = r]]
  BY DEF Current
<1> HIDE DEF q
<1>5. revisions' \in [Case -> Seq(Revision)]
  BY <1>3, <1>4
<1>6. \A d \in Case : d # c => revisions'[d] = revisions[d]
  BY <1>4
<1>7. revisions'[c] = [q EXCEPT ![Len(q)] = r]
  BY <1>4
<1>8. Len(revisions'[c]) = Len(q) /\ revisions'[c] # <<>>
  <2>1. Len(revisions'[c]) = Len(q)
    BY <1>3, <1>7
  <2>2. Len(q) # 0
    BY <1>1, <1>2
  <2> QED BY <2>1, <2>2
<1>9. \A k \in DOMAIN revisions'[c] : revisions'[c][k] = IF k = Len(q) THEN r ELSE q[k]
  BY <1>1, <1>3, <1>5, <1>7, <1>8
<1>10. Current(c) = Len(q) /\ revisions[c] = q /\ Current(c) \in DOMAIN revisions[c]
  BY <1>1, <1>2 DEF q, Current
<1>11. ASSUME NEW d \in Case
       PROVE  /\ Len(revisions'[d]) = Len(revisions[d])
              /\ revisions'[d] = <<>> <=> revisions[d] = <<>>
              /\ \A k \in DOMAIN revisions'[d] :
                    revisions'[d][k] = IF d = c /\ k = Current(c) THEN r ELSE revisions[d][k]
  <2>1. CASE d = c
    BY <1>8, <1>9, <1>10, <2>1
  <2>2. CASE d # c
    BY <1>6, <2>2
  <2> QED BY <2>1, <2>2
<1> QED BY <1>5, <1>10, <1>11

\* Evidence and revisions of an initialized case, from the type invariant.
LEMMA CurrentType ==
    ASSUME TypeOK, NEW c \in Case, cases[c].status # "NONE"
    PROVE  /\ revisions[c] # <<>>
           /\ Current(c) \in DOMAIN revisions[c]
           /\ CurrentRevision(c) \in Revision
           /\ CurrentRevision(c).evidence \subseteq DOMAIN evidence
           /\ cases[c] \in CaseRecord
<1>1. revisions[c] \in Seq(Revision) /\ revisions[c] # <<>> /\ cases[c] \in CaseRecord
  BY DEF TypeOK
<1>2. Len(revisions[c]) \in 1..Len(revisions[c]) /\ DOMAIN revisions[c] = 1..Len(revisions[c])
  BY <1>1, EmptySeq
<1>3. revisions[c][Len(revisions[c])] \in Revision
  BY <1>1, <1>2, ElementOfSeq
<1> QED BY <1>1, <1>2, <1>3 DEF Current, CurrentRevision, TypeOK

\* A step that rewrites one case record, and its current revision's fields other
\* than the evidence, keeps the state in its types.
LEMMA ReviseTypeOK ==
    ASSUME TypeOK, NEW c \in Case, cases[c].status # "NONE",
           NEW new \in CaseRecord, new.status # "NONE", new.verdict <= Len(verdicts'),
           cases' = [cases EXCEPT ![c] = new],
           NEW r \in Revision, r.evidence = CurrentRevision(c).evidence,
           revisions' = [revisions EXCEPT ![c][Current(c)] = r],
           verdicts' \in Seq(Verdict), Len(verdicts) <= Len(verdicts'),
           UNCHANGED <<now, net, boundVault, evidence, latest>>
    PROVE  TypeOK'
<1>1. /\ revisions[c] # <<>> /\ Current(c) \in DOMAIN revisions[c]
      /\ revisions \in [Case -> Seq(Revision)] /\ cases \in [Case -> CaseRecord]
  BY CurrentType DEF TypeOK
<1>2. /\ revisions' \in [Case -> Seq(Revision)]
      /\ \A d \in Case : /\ Len(revisions'[d]) = Len(revisions[d])
                         /\ revisions'[d] = <<>> <=> revisions[d] = <<>>
                         /\ \A k \in DOMAIN revisions'[d] :
                               revisions'[d][k] =
                                   IF d = c /\ k = Current(c) THEN r ELSE revisions[d][k]
  BY <1>1, ReviseCurrent
<1>3. cases' \in [Case -> CaseRecord]
  BY <1>1
<1>4. ASSUME NEW d \in Case
      PROVE  /\ cases'[d].status = "NONE" <=> revisions'[d] = <<>>
             /\ cases'[d].verdict <= Len(verdicts')
             /\ \A k \in DOMAIN revisions'[d] : revisions'[d][k].evidence \subseteq DOMAIN evidence'
  <2>1. cases'[d].status = "NONE" <=> revisions'[d] = <<>>
    BY <1>1, <1>2 DEF TypeOK
  <2>2. cases'[d].verdict <= Len(verdicts')
    <3>1. /\ cases[d].verdict \in Nat /\ cases[d].verdict <= Len(verdicts)
          /\ Len(verdicts) \in Nat /\ Len(verdicts') \in Nat
      <4>1. cases[d] \in CaseRecord
        BY <1>1
      <4>2. cases[d].verdict \in Nat
        BY <4>1 DEF CaseRecord
      <4>3. Len(verdicts) \in Nat /\ Len(verdicts') \in Nat
        BY DEF TypeOK
      <4> QED BY <4>2, <4>3 DEF TypeOK
    <3>2. CASE d = c
      BY <1>1, <3>2
    <3>3. CASE d # c
      BY <1>1, <3>1, <3>3
    <3> QED BY <3>2, <3>3
  <2>3. ASSUME NEW k \in DOMAIN revisions'[d]
        PROVE  revisions'[d][k].evidence \subseteq DOMAIN evidence'
    <3>1. k \in DOMAIN revisions[d]
      <4>1. revisions[d] \in Seq(Revision) /\ revisions'[d] \in Seq(Revision)
        BY <1>1, <1>2
      <4> QED BY <1>2, <4>1
    <3>2. revisions[d][k].evidence \subseteq DOMAIN evidence
      BY <3>1 DEF TypeOK
    <3> QED BY <1>2, <3>2 DEF CurrentRevision
  <2> QED BY <2>1, <2>2, <2>3
<1> QED BY <1>2, <1>3, <1>4 DEF TypeOK

\* A step that touches one case record, not its revisions.
LEMMA UpdateCaseTypeOK ==
    ASSUME TypeOK, NEW c \in Case, cases[c].status # "NONE",
           NEW new \in CaseRecord, new.status # "NONE", new.verdict <= Len(verdicts),
           cases' = [cases EXCEPT ![c] = new],
           net' \subseteq [type : {"verdict"}, handoff : Case, rule : Rule],
           UNCHANGED <<now, boundVault, revisions, evidence, latest, verdicts>>
    PROVE  TypeOK'
<1>1. cases' \in [Case -> CaseRecord] /\ cases'[c] = new
  BY DEF TypeOK
<1>2. \A d \in Case : d # c => cases'[d] = cases[d]
  BY DEF TypeOK
<1>3. \A d \in Case : /\ cases'[d].status = "NONE" <=> revisions'[d] = <<>>
                      /\ cases'[d].verdict <= Len(verdicts')
  BY <1>1, <1>2 DEF TypeOK
<1> QED BY <1>1, <1>3 DEF TypeOK

\* A new or repeated settlement message names a case and a rule.
LEMMA SettleType ==
    ASSUME TypeOK, NEW c \in Case, NEW r \in Rule, Settle(c, r)
    PROVE  net' \subseteq [type : {"verdict"}, handoff : Case, rule : Rule]
<1>1. ApplyVerdict(c, r) \in [type : {"verdict"}, handoff : Case, rule : Rule]
  BY DEF ApplyVerdict
<1> QED BY <1>1 DEF TypeOK, Settle

LEMMA InitTypeOK == Init => TypeOK
<1> SUFFICES ASSUME Init PROVE TypeOK
  OBVIOUS
<1> USE PolicyAssumption DEF Init
<1>1. NoCase \in CaseRecord
  BY DEF NoCase, CaseRecord, FailureCode
<1>2. cases \in [Case -> CaseRecord] /\ \A c \in Case : cases[c].status = "NONE" /\ cases[c].verdict = 0
  BY <1>1 DEF NoCase
<1>3. revisions \in [Case -> Seq(Revision)] /\ \A c \in Case : revisions[c] = <<>>
  BY EmptySeq
<1>4. evidence \in Seq(Evidence) /\ verdicts \in Seq(Verdict) /\ Len(evidence) = 0 /\ Len(verdicts) = 0
  BY EmptySeq
<1>5. latest \in [StableId -> 0..Len(evidence)]
  BY <1>4
<1> QED BY <1>2, <1>3, <1>4, <1>5 DEF TypeOK

LEMMA InitializeTypeOK ==
    ASSUME TypeOK, NEW c \in Case, NEW context \in Contexts, InitializeCase(c, context)
    PROVE  TypeOK'
<1> USE InputAssumption DEF InitializeCase
<1> DEFINE new == [NoCase EXCEPT !.status = "OPEN",
                                 !.responseDeadline = context.responseDeadline,
                                 !.recoveryDeadline = context.recoveryDeadline]
<1>1. new \in CaseRecord /\ new.status = "OPEN" /\ new.verdict = 0
  BY DEF NoCase, CaseRecord, FailureCode
<1>2. NewRevision({}) \in Revision /\ NewRevision({}).evidence = {}
  BY DEF NewRevision, Revision
<1> DEFINE first == NewRevision({})
<1> HIDE DEF new, first
<1>3. /\ <<first>> \in Seq(Revision) /\ <<first>> # <<>>
      /\ \A k \in DOMAIN <<first>> : <<first>>[k] = first
  BY <1>2 DEF first
<1>4. cases' = [cases EXCEPT ![c] = new] /\ revisions' = [revisions EXCEPT ![c] = <<first>>]
  BY DEF new, first
<1>5. cases' \in [Case -> CaseRecord] /\ revisions' \in [Case -> Seq(Revision)]
  BY <1>1, <1>3, <1>4 DEF TypeOK
<1>6. ASSUME NEW d \in Case
      PROVE  /\ cases'[d].status = "NONE" <=> revisions'[d] = <<>>
             /\ cases'[d].verdict <= Len(verdicts')
             /\ \A k \in DOMAIN revisions'[d] : revisions'[d][k].evidence \subseteq DOMAIN evidence'
  <2>1. CASE d = c
    <3>1. cases'[d] = new /\ revisions'[d] = <<first>> /\ verdicts' = verdicts
      BY <1>4, <2>1 DEF TypeOK
    <3>2. Len(verdicts) \in Nat
      BY DEF TypeOK
    <3>3. cases'[d].status # "NONE" /\ cases'[d].verdict <= Len(verdicts')
      <4>1. cases'[d].status = "OPEN" /\ cases'[d].verdict = 0
        BY <1>1, <3>1
      <4>2. Len(verdicts') = Len(verdicts)
        BY <3>1
      <4> QED BY <3>2, <4>1, <4>2
    <3>4. \A k \in DOMAIN revisions'[d] : revisions'[d][k].evidence = {}
      BY <1>2, <1>3, <3>1 DEF first
    <3> QED BY <1>3, <3>1, <3>3, <3>4
  <2>2. CASE d # c
    BY <1>4, <2>2 DEF TypeOK
  <2> QED BY <2>1, <2>2
<1> QED BY <1>5, <1>6 DEF TypeOK

LEMMA CollectTypeOK ==
    ASSUME TypeOK, NEW c \in Case, NEW who \in Account,
           SubmitResponse(c, who) \/ MarkRevisionReady(c, who)
    PROVE  TypeOK'
<1> DEFINE new == IF SubmitResponse(c, who)
                  THEN [cases[c] EXCEPT !.response = TRUE]
                  ELSE [cases[c] EXCEPT !.ready = @ \cup {who}]
<1>1. cases[c].status = "OPEN" /\ cases' = [cases EXCEPT ![c] = new]
  BY DEF SubmitResponse, MarkRevisionReady
<1>2. cases[c] \in CaseRecord /\ cases[c].verdict <= Len(verdicts)
  BY DEF TypeOK
<1>3. new \in CaseRecord /\ new.status = "OPEN" /\ new.verdict = cases[c].verdict
  BY <1>1, <1>2 DEF CaseRecord
<1>4. UNCHANGED <<now, net, boundVault, revisions, evidence, latest, verdicts>>
  BY DEF SubmitResponse, MarkRevisionReady
<1>5. net' \subseteq [type : {"verdict"}, handoff : Case, rule : Rule]
  BY <1>4 DEF TypeOK
<1> HIDE DEF new
<1> QED BY <1>1, <1>2, <1>3, <1>4, <1>5, UpdateCaseTypeOK

LEMMA RetryTypeOK ==
    ASSUME TypeOK, NEW c \in Case, NEW who \in Account, RetryCurrentRevision(c, who)
    PROVE  TypeOK'
<1> DEFINE new == [cases[c] EXCEPT !.status = "OPEN", !.failure = "",
                                   !.repairDeadline = 0, !.responseDeadline = now]
           r == [CurrentRevision(c) EXCEPT !.status = "OPEN", !.failed = 0]
<1>1. /\ cases[c].status # "NONE"
      /\ cases' = [cases EXCEPT ![c] = new]
      /\ revisions' = [revisions EXCEPT ![c][Current(c)] = r]
      /\ UNCHANGED <<now, net, boundVault, evidence, latest, verdicts>>
  BY DEF RetryCurrentRevision, CurrentRevision
<1>2. cases[c] \in CaseRecord /\ CurrentRevision(c) \in Revision
  BY <1>1, CurrentType
<1>3. new \in CaseRecord /\ new.status # "NONE" /\ new.verdict = cases[c].verdict
  BY <1>2 DEF CaseRecord, FailureCode, TypeOK
<1>4. r \in Revision /\ r.evidence = CurrentRevision(c).evidence
  BY <1>2 DEF Revision
<1>5. /\ new.verdict <= Len(verdicts') /\ verdicts' \in Seq(Verdict)
      /\ Len(verdicts) <= Len(verdicts')
  BY <1>1, <1>3 DEF TypeOK
<1> HIDE DEF new, r
<1> QED BY <1>1, <1>3, <1>4, <1>5, ReviseTypeOK

LEMMA RequireRepairTypeOK ==
    ASSUME TypeOK, NEW c \in Case, cases[c].status = "OPEN",
           NEW code \in FailureCode, NEW e \in Nat, RequireRepair(c, code, e),
           UNCHANGED <<now, net, boundVault, evidence, latest>>
    PROVE  TypeOK'
<1> DEFINE at == Least(now + RepairWindow, cases[c].recoveryDeadline)
           new == [cases[c] EXCEPT !.status = "REPAIR_REQUIRED", !.failure = code,
                                   !.repairDeadline = at]
           r == [CurrentRevision(c) EXCEPT !.status = "REPAIR_REQUIRED", !.failed = e]
<1>1. /\ cases' = [cases EXCEPT ![c] = new]
      /\ revisions' = [revisions EXCEPT ![c][Current(c)] = r]
      /\ verdicts' = verdicts
  BY DEF RequireRepair, CurrentRevision
<1>2. cases[c] \in CaseRecord /\ CurrentRevision(c) \in Revision
  BY CurrentType
<1>3. at \in Nat
  <2>1. now + RepairWindow \in Nat /\ cases[c].recoveryDeadline \in Nat
    BY <1>2, PolicyAssumption DEF TypeOK, CaseRecord
  <2> QED BY <2>1, LeastTime
<1> HIDE DEF at
<1>4. new \in CaseRecord /\ new.status # "NONE" /\ new.verdict = cases[c].verdict
  BY <1>2, <1>3 DEF CaseRecord
<1>5. r \in Revision /\ r.evidence = CurrentRevision(c).evidence
  BY <1>2 DEF Revision
<1>6. /\ new.verdict <= Len(verdicts') /\ verdicts' \in Seq(Verdict)
      /\ Len(verdicts) <= Len(verdicts')
  BY <1>1, <1>4 DEF TypeOK
<1> HIDE DEF new, r
<1> QED BY <1>1, <1>4, <1>5, <1>6, ReviseTypeOK

LEMMA RecordVerdictTypeOK ==
    ASSUME TypeOK, NEW c \in Case, cases[c].status = "OPEN",
           NEW rule \in Rule, NEW delivery \in Nat, RecordVerdict(c, rule, delivery),
           UNCHANGED <<now, net, boundVault, evidence, latest>>
    PROVE  TypeOK'
<1> DEFINE at == Least(now + ResponseWindow, cases[c].recoveryDeadline)
           new == [cases[c] EXCEPT !.status = "REVIEWED", !.verdict = Len(verdicts) + 1,
                                   !.queued = FALSE, !.settlementEarliestAt = at]
           r == [CurrentRevision(c) EXCEPT !.status = "REVIEWED"]
           v == [case |-> c, revision |-> Current(c), rule |-> rule,
                 delivery |-> delivery, at |-> now]
<1>1. /\ cases' = [cases EXCEPT ![c] = new]
      /\ revisions' = [revisions EXCEPT ![c][Current(c)] = r]
      /\ verdicts' = Append(verdicts, v)
  BY DEF RecordVerdict, CurrentRevision
<1>2. /\ cases[c] \in CaseRecord /\ CurrentRevision(c) \in Revision
      /\ revisions[c] \in Seq(Revision)
  BY CurrentType DEF TypeOK
<1>3. at \in Nat
  <2>1. now + ResponseWindow \in Nat /\ cases[c].recoveryDeadline \in Nat
    BY <1>2, PolicyAssumption DEF TypeOK, CaseRecord
  <2> QED BY <2>1, LeastTime
<1>4. v \in Verdict
  <2>1. Current(c) \in Nat /\ now \in Nat
    BY <1>2 DEF Current, TypeOK
  <2> QED BY <2>1 DEF Verdict
<1> HIDE DEF at, v
<1>5. verdicts' \in Seq(Verdict) /\ Len(verdicts') = Len(verdicts) + 1 /\ Len(verdicts) \in Nat
  BY <1>1, <1>4 DEF TypeOK
<1>6. new \in CaseRecord /\ new.status # "NONE" /\ new.verdict = Len(verdicts) + 1
  <2>1. Len(verdicts) + 1 \in Nat
    BY <1>5
  <2>2. new \in CaseRecord
    BY <1>2, <1>3, <2>1 DEF CaseRecord
  <2>3. new.status = "REVIEWED" /\ new.verdict = Len(verdicts) + 1
    BY <1>2 DEF CaseRecord
  <2> QED BY <2>2, <2>3
<1>7. r \in Revision /\ r.evidence = CurrentRevision(c).evidence
  BY <1>2 DEF Revision
<1>8. new.verdict <= Len(verdicts') /\ Len(verdicts) <= Len(verdicts')
  BY <1>5, <1>6
<1> HIDE DEF new, r
<1> QED BY <1>1, <1>5, <1>6, <1>7, <1>8, ReviseTypeOK

LEMMA ResolveTypeOK ==
    ASSUME TypeOK, NEW c \in Case, NEW delivery \in Nat, ResolveCase(c, delivery)
    PROVE  TypeOK'
<1> USE DEF ResolveCase
<1>1. cases[c].status = "OPEN" /\ UNCHANGED <<now, net, boundVault, evidence, latest>>
  BY DEF Reviewable
<1>2. CurrentRevision(c).evidence \subseteq Nat
  BY <1>1, CurrentType DEF Revision
<1>3. ASSUME NEW code \in FailureCode, NEW e \in Nat, RequireRepair(c, code, e)
      PROVE  TypeOK'
  BY <1>1, <1>3, RequireRepairTypeOK
<1>4. ASSUME NEW r \in ReviewRule, RecordVerdict(c, r, delivery)
      PROVE  TypeOK'
  <2>1. r \in Rule
    <3>1. r \in {1, 2, 3}
      BY PolicyAssumption DEF ReviewRule, RELEASE_PROVIDER, NEUTRAL_RECOVERY
    <3> QED BY <3>1 DEF Rule
  <2> QED BY <1>1, <1>4, <2>1, RecordVerdictTypeOK
<1>5. Stale(c) \subseteq Nat
  BY <1>2 DEF Stale
<1>6. \/ \E code \in FailureCode, e \in Nat : RequireRepair(c, code, e)
      \/ \E r \in ReviewRule : RecordVerdict(c, r, delivery)
  BY <1>2, <1>5 DEF FailureCode
<1> QED BY <1>3, <1>4, <1>6

LEMMA RegisterTypeOK ==
    ASSUME TypeOK, NEW c \in Case, NEW who \in Account, NEW source \in Source,
           NEW v \in 1..MaxEvidenceVersion, NEW f \in FreshUntil,
           RegisterEvidence(c, who, source, v, f)
    PROVE  TypeOK'
<1> DEFINE id == Len(evidence) + 1
           record == [case |-> c, revision |-> Current(c), issuer |-> who,
                      source |-> source, version |-> v, freshUntil |-> f]
           r == [CurrentRevision(c) EXCEPT !.evidence = @ \cup {id}]
<1>1. /\ cases[c].status # "NONE"
      /\ evidence' = Append(evidence, record)
      /\ revisions' = [revisions EXCEPT ![c][Current(c)] = r]
      /\ latest' = [latest EXCEPT ![source.stable] = id]
      /\ UNCHANGED <<now, net, boundVault, cases, verdicts>>
  BY DEF RegisterEvidence, CurrentRevision
<1>2. /\ CurrentRevision(c) \in Revision /\ revisions[c] \in Seq(Revision)
      /\ revisions[c] # <<>> /\ revisions \in [Case -> Seq(Revision)]
      /\ CurrentRevision(c).evidence \subseteq DOMAIN evidence
  BY <1>1, CurrentType DEF TypeOK
<1>3. record \in Evidence
  <2>1. Current(c) \in Nat
    BY <1>2 DEF Current
  <2>2. v \in Nat /\ f \in Nat
    BY InputAssumption
  <2> QED BY <2>1, <2>2 DEF Evidence
<1> HIDE DEF record
<1>4. /\ evidence' \in Seq(Evidence) /\ Len(evidence') = id
      /\ Len(evidence) \in Nat /\ id \in Nat
  BY <1>1, <1>3 DEF TypeOK
<1>5. DOMAIN evidence = 1..Len(evidence) /\ DOMAIN evidence' = 1..Len(evidence')
  BY <1>4 DEF TypeOK
<1>6. DOMAIN evidence \subseteq DOMAIN evidence' /\ id \in DOMAIN evidence'
  BY <1>4, <1>5
<1>7. r \in Revision /\ r.evidence = CurrentRevision(c).evidence \cup {id}
  <2>1. CurrentRevision(c).evidence \cup {id} \in SUBSET Nat
    BY <1>2, <1>4 DEF Revision
  <2> QED BY <1>2, <2>1 DEF Revision
<1> HIDE DEF r
<1>8. /\ revisions' \in [Case -> Seq(Revision)]
      /\ \A d \in Case : /\ Len(revisions'[d]) = Len(revisions[d])
                         /\ revisions'[d] = <<>> <=> revisions[d] = <<>>
                         /\ \A k \in DOMAIN revisions'[d] :
                               revisions'[d][k] =
                                   IF d = c /\ k = Current(c) THEN r ELSE revisions[d][k]
  BY <1>1, <1>2, <1>7, ReviseCurrent
<1>9. latest' \in [StableId -> 0..Len(evidence')]
  <2>1. source.stable \in StableId
    BY DEF StableId
  <2>2. id \in 0..Len(evidence') /\ 0..Len(evidence) \subseteq 0..Len(evidence')
    BY <1>4
  <2>3. latest \in [StableId -> 0..Len(evidence)]
    BY DEF TypeOK
  <2> HIDE DEF id
  <2> QED BY <1>1, <2>1, <2>2, <2>3
<1>10. ASSUME NEW d \in Case, NEW k \in DOMAIN revisions'[d]
       PROVE  revisions'[d][k].evidence \subseteq DOMAIN evidence'
  <2>1. k \in DOMAIN revisions[d]
    <3>1. revisions[d] \in Seq(Revision) /\ revisions'[d] \in Seq(Revision)
      BY <1>2, <1>8
    <3> QED BY <1>8, <3>1
  <2>2. revisions[d][k].evidence \subseteq DOMAIN evidence
    BY <2>1 DEF TypeOK
  <2>3. r.evidence \subseteq DOMAIN evidence'
    BY <1>2, <1>6, <1>7
  <2> QED BY <1>6, <1>8, <2>2, <2>3
<1>11. \A d \in Case : /\ cases'[d].status = "NONE" <=> revisions'[d] = <<>>
                       /\ cases'[d].verdict <= Len(verdicts')
  BY <1>1, <1>8 DEF TypeOK
<1>12. /\ now' \in Nat \ {0}
       /\ net' \subseteq [type : {"verdict"}, handoff : Case, rule : Rule]
       /\ boundVault' \in BOOLEAN
       /\ cases' \in [Case -> CaseRecord]
       /\ verdicts' \in Seq(Verdict)
  BY <1>1 DEF TypeOK
<1> QED BY <1>4, <1>8, <1>9, <1>10, <1>11, <1>12 DEF TypeOK

LEMMA BeginTypeOK ==
    ASSUME TypeOK, NEW c \in Case, NEW who \in Account, NEW response \in BOOLEAN,
           BeginRevision(c, who, response)
    PROVE  TypeOK'
<1> DEFINE new == [cases[c] EXCEPT !.status = "OPEN", !.verdict = 0,
                      !.settlementEarliestAt = 0, !.queued = FALSE,
                      !.responseDeadline = now + ResponseWindow, !.repairDeadline = 0,
                      !.response = response, !.ready = {}, !.failure = ""]
           r == NewRevision(Carried(c))
<1>1. /\ cases[c].status # "NONE"
      /\ cases' = [cases EXCEPT ![c] = new]
      /\ revisions' = [revisions EXCEPT ![c] = Append(revisions[c], r)]
      /\ UNCHANGED <<now, net, boundVault, evidence, latest, verdicts>>
  BY DEF BeginRevision, Revisable
<1>2. /\ cases[c] \in CaseRecord /\ CurrentRevision(c) \in Revision
      /\ revisions[c] \in Seq(Revision)
      /\ CurrentRevision(c).evidence \subseteq DOMAIN evidence
  BY <1>1, CurrentType DEF TypeOK
<1>3. new \in CaseRecord /\ new.status = "OPEN" /\ new.verdict = 0
  <2>1. now + ResponseWindow \in Nat
    BY PolicyAssumption DEF TypeOK
  <2>2. new \in CaseRecord
    BY <1>2, <2>1 DEF CaseRecord, FailureCode
  <2>3. new.status = "OPEN" /\ new.verdict = 0
    BY <1>2 DEF CaseRecord
  <2> QED BY <2>2, <2>3
<1>4. Carried(c) \subseteq DOMAIN evidence /\ Carried(c) \in SUBSET Nat
  BY <1>2 DEF Carried, Revision
<1>5. r \in Revision /\ r.evidence = Carried(c)
  BY <1>4 DEF NewRevision, Revision
<1> HIDE DEF new, r
<1>6. /\ Append(revisions[c], r) \in Seq(Revision) /\ Append(revisions[c], r) # <<>>
      /\ \A k \in DOMAIN Append(revisions[c], r) :
            \/ k \in DOMAIN revisions[c] /\ Append(revisions[c], r)[k] = revisions[c][k]
            \/ Append(revisions[c], r)[k] = r
  BY <1>2, <1>5, AppendProperties
<1>7. ASSUME NEW d \in Case
      PROVE  /\ cases'[d].status = "NONE" <=> revisions'[d] = <<>>
             /\ cases'[d].verdict <= Len(verdicts')
             /\ \A k \in DOMAIN revisions'[d] : revisions'[d][k].evidence \subseteq DOMAIN evidence'
  <2>1. CASE d = c
    <3>1. cases'[d] = new /\ revisions'[d] = Append(revisions[c], r)
      BY <1>1, <2>1 DEF TypeOK
    <3>2. cases'[d].status # "NONE" /\ revisions'[d] # <<>>
      BY <1>3, <1>6, <3>1
    <3>3. cases'[d].verdict <= Len(verdicts')
      <4>1. Len(verdicts) \in Nat /\ verdicts' = verdicts
        BY <1>1 DEF TypeOK
      <4> QED BY <1>3, <3>1, <4>1
    <3>4. \A k \in DOMAIN revisions'[d] : revisions'[d][k].evidence \subseteq DOMAIN evidence'
      BY <1>1, <1>4, <1>5, <1>6, <3>1 DEF TypeOK
    <3> QED BY <3>2, <3>3, <3>4
  <2>2. CASE d # c
    BY <1>1, <2>2 DEF TypeOK
  <2> QED BY <2>1, <2>2
<1>8. cases' \in [Case -> CaseRecord] /\ revisions' \in [Case -> Seq(Revision)]
  BY <1>1, <1>3, <1>6 DEF TypeOK
<1> QED BY <1>1, <1>7, <1>8 DEF TypeOK

LEMMA QueueTypeOK ==
    ASSUME TypeOK, NEW c \in Case, NEW expected \in DOMAIN verdicts, QueueSettlement(c, expected)
    PROVE  TypeOK'
<1> DEFINE new == IF FirstQueue(c) THEN [cases[c] EXCEPT !.queued = TRUE] ELSE cases[c]
<1>1. verdicts[expected].rule \in Rule
  <2>1. verdicts[expected] \in Verdict
    BY DEF TypeOK
  <2> QED BY <2>1 DEF Verdict
<1>2. cases[c].status = "REVIEWED" /\ cases[c] \in CaseRecord /\ cases \in [Case -> CaseRecord]
  BY DEF QueueSettlement, FirstQueue, Requeue, TypeOK
<1>3. /\ cases' = [cases EXCEPT ![c] = new]
      /\ UNCHANGED <<now, boundVault, revisions, evidence, latest, verdicts>>
  BY <1>2 DEF QueueSettlement, FirstQueue, Requeue
<1>4. new \in CaseRecord /\ new.status # "NONE" /\ new.verdict <= Len(verdicts)
  BY <1>2 DEF CaseRecord, TypeOK
<1>5. net' \subseteq [type : {"verdict"}, handoff : Case, rule : Rule]
  BY <1>1, SettleType DEF QueueSettlement, TypeOK
<1> HIDE DEF new
<1> QED BY <1>2, <1>3, <1>4, <1>5, UpdateCaseTypeOK

LEMMA RecoverTypeOK ==
    ASSUME TypeOK, NEW c \in Case, RecoverCase(c) \/ RecoverAgain(c)
    PROVE  TypeOK'
<1> DEFINE new == [cases[c] EXCEPT !.status = "RECOVERED"]
<1>1. net' \subseteq [type : {"verdict"}, handoff : Case, rule : Rule]
  BY SettleType DEF RecoverCase, RecoverAgain, NEUTRAL_RECOVERY, Rule, TypeOK
<1>2. CASE RecoverCase(c)
  <2>1. /\ cases[c].status # "NONE" /\ cases' = [cases EXCEPT ![c] = new]
        /\ UNCHANGED <<now, boundVault, revisions, evidence, latest, verdicts>>
    BY <1>2 DEF RecoverCase, Recoverable
  <2>2. new \in CaseRecord /\ new.status # "NONE" /\ new.verdict <= Len(verdicts)
    <3>1. cases[c] \in CaseRecord /\ cases[c].verdict <= Len(verdicts)
      BY DEF TypeOK
    <3>2. new.status = "RECOVERED" /\ new.verdict = cases[c].verdict /\ new \in CaseRecord
      BY <3>1 DEF CaseRecord
    <3> QED BY <3>1, <3>2
  <2> HIDE DEF new
  <2> QED BY <1>1, <2>1, <2>2, UpdateCaseTypeOK
<1>3. CASE RecoverAgain(c)
  BY <1>1, <1>3 DEF RecoverAgain, adjudicatorVars, TypeOK
<1> QED BY <1>2, <1>3

LEMMA NextTypeOK == TypeOK /\ [Next]_vars => TypeOK'
<1> SUFFICES ASSUME TypeOK, [Next]_vars PROVE TypeOK'
  OBVIOUS
<1>1. CASE Tick \/ BindVault \/ UNCHANGED vars \/ \E c \in Case : InitializationIgnored(c)
  <2> USE DEF Tick, BindVault, InitializationIgnored, vars, adjudicatorVars
  <2>1. UNCHANGED <<net, cases, revisions, evidence, latest, verdicts>>
    BY <1>1
  <2>2. now' = now \/ now' = now + 1
    BY <1>1
  <2>3. now' \in Nat \ {0}
    BY <2>2 DEF TypeOK
  <2>4. boundVault' = boundVault \/ boundVault' = TRUE
    BY <1>1
  <2>5. boundVault' \in BOOLEAN
    BY <2>4 DEF TypeOK
  <2> QED BY <2>1, <2>3, <2>5 DEF TypeOK
<1>2. ASSUME NEW c \in Case, NEW who \in Account,
             SubmitResponse(c, who) \/ MarkRevisionReady(c, who)
      PROVE  TypeOK'
  BY <1>2, CollectTypeOK
<1>3. ASSUME NEW c \in Case, NEW who \in Account, RetryCurrentRevision(c, who)
      PROVE  TypeOK'
  BY <1>3, RetryTypeOK
<1>4. ASSUME NEW c \in Case, NEW who \in Account, NEW response \in BOOLEAN,
             BeginRevision(c, who, response)
      PROVE  TypeOK'
  BY <1>4, BeginTypeOK
<1>5. ASSUME NEW c \in Case, NEW who \in Account, NEW source \in Source,
             NEW v \in 1..MaxEvidenceVersion, NEW f \in FreshUntil,
             RegisterEvidence(c, who, source, v, f)
      PROVE  TypeOK'
  BY <1>5, RegisterTypeOK
<1>6. ASSUME NEW c \in Case, NEW expected \in DOMAIN verdicts, QueueSettlement(c, expected)
      PROVE  TypeOK'
  BY <1>6, QueueTypeOK
<1>7. ASSUME NEW c \in Case, RecoverCase(c) \/ RecoverAgain(c)
      PROVE  TypeOK'
  BY <1>7, RecoverTypeOK
<1>8. ASSUME NEW c \in Case, NEW context \in Contexts, InitializeCase(c, context)
      PROVE  TypeOK'
  BY <1>8, InitializeTypeOK
<1>9. ASSUME NEW c \in Case, NEW delivery \in Deliveries, ResolveCase(c, delivery)
      PROVE  TypeOK'
  BY <1>9, InputAssumption, ResolveTypeOK
<1> QED
  BY <1>1, <1>2, <1>3, <1>4, <1>5, <1>6, <1>7, <1>8, <1>9 DEF Next, AdjudicatorStep

-----------------------------------------------------------------------------
(* The decision of a case.                                                 *)

\* A verdict once recorded is never rewritten.
LEMMA VerdictsKept ==
    ASSUME TypeOK, [Next]_vars
    PROVE  /\ Len(verdicts) \in Nat /\ Len(verdicts) <= Len(verdicts')
           /\ \A i \in 1..Len(verdicts) : verdicts'[i] = verdicts[i]
<1>1. verdicts \in Seq(Verdict) /\ Len(verdicts) \in Nat
  BY DEF TypeOK
<1>2. ASSUME NEW v, verdicts' = Append(verdicts, v)
      PROVE  /\ Len(verdicts) <= Len(verdicts')
             /\ \A i \in 1..Len(verdicts) : verdicts'[i] = verdicts[i]
  BY <1>1, <1>2
<1>3. ASSUME NEW c \in Case, NEW delivery \in Deliveries, ResolveCase(c, delivery)
      PROVE  verdicts' = verdicts \/ \E v : verdicts' = Append(verdicts, v)
  BY <1>3 DEF ResolveCase, RequireRepair, RecordVerdict
<1>4. ASSUME \A c \in Case, delivery \in Deliveries : ~ResolveCase(c, delivery)
      PROVE  verdicts' = verdicts
  <2>1. CASE Tick \/ UNCHANGED vars \/ \E c \in Case : InitializationIgnored(c)
    BY <2>1 DEF Tick, InitializationIgnored, vars, adjudicatorVars
  <2>2. CASE \E c \in Case, context \in Contexts : InitializeCase(c, context)
    BY <2>2 DEF InitializeCase
  <2>3. CASE AdjudicatorStep
    <3>1. ASSUME NEW c \in Case, NEW who \in Account,
                 \/ SubmitResponse(c, who)
                 \/ MarkRevisionReady(c, who)
                 \/ RetryCurrentRevision(c, who)
          PROVE  verdicts' = verdicts
      BY <3>1 DEF SubmitResponse, MarkRevisionReady, RetryCurrentRevision
    <3>2. ASSUME NEW c \in Case, NEW who \in Account, NEW response \in BOOLEAN,
                 BeginRevision(c, who, response)
          PROVE  verdicts' = verdicts
      BY <3>2 DEF BeginRevision
    <3>3. ASSUME NEW c \in Case, NEW who \in Account, NEW source \in Source,
                 NEW v \in 1..MaxEvidenceVersion, NEW f \in FreshUntil,
                 RegisterEvidence(c, who, source, v, f)
          PROVE  verdicts' = verdicts
      BY <3>3 DEF RegisterEvidence
    <3>4. ASSUME NEW c \in Case, NEW expected \in DOMAIN verdicts, QueueSettlement(c, expected)
          PROVE  verdicts' = verdicts
      BY <3>4 DEF QueueSettlement
    <3>5. ASSUME NEW c \in Case, RecoverCase(c) \/ RecoverAgain(c)
          PROVE  verdicts' = verdicts
      BY <3>5 DEF RecoverCase, RecoverAgain, adjudicatorVars
    <3> QED BY <2>3, <3>1, <3>2, <3>3, <3>4, <3>5 DEF AdjudicatorStep, BindVault
  <2> QED BY <1>4, <2>1, <2>2, <2>3 DEF Next
<1>5. verdicts' = verdicts \/ \E v : verdicts' = Append(verdicts, v)
  BY <1>3, <1>4
<1> QED BY <1>1, <1>2, <1>5

\* DecisionIsFinal, as a fact about one step.
Frozen(c) == cases'[c] = cases[c] /\ revisions'[c] = revisions[c]
Closed(c) == cases[c].queued \/ cases[c].status = "RECOVERED"

\* An action on one case leaves the others alone, and needs a case that is open to
\* it: no action but the repetition of a message is possible once it is closed.
LEMMA ClosedIsFrozen ==
    ASSUME TypeOK, QueuedIsReviewed, [Next]_vars, NEW d \in Case, Closed(d)
    PROVE  Frozen(d)
<1> USE DEF TypeOK, QueuedIsReviewed, Closed, Frozen
<1>1. CASE UNCHANGED <<cases, revisions>>
  BY <1>1
<1>2. ASSUME NEW c \in Case, NEW context \in Contexts, InitializeCase(c, context)
      PROVE  Frozen(d)
  BY <1>2 DEF InitializeCase
<1>3. ASSUME NEW c \in Case, NEW who \in Account,
             \/ SubmitResponse(c, who)
             \/ MarkRevisionReady(c, who)
             \/ RetryCurrentRevision(c, who)
      PROVE  Frozen(d)
  BY <1>3 DEF SubmitResponse, MarkRevisionReady, RetryCurrentRevision
<1>4. ASSUME NEW c \in Case, NEW who \in Account, NEW source \in Source,
             NEW v \in 1..MaxEvidenceVersion, NEW f \in FreshUntil,
             RegisterEvidence(c, who, source, v, f)
      PROVE  Frozen(d)
  BY <1>4 DEF RegisterEvidence
<1>5. ASSUME NEW c \in Case, NEW delivery \in Deliveries, ResolveCase(c, delivery)
      PROVE  Frozen(d)
  <2>1. c # d
    BY <1>5 DEF ResolveCase, Reviewable
  <2>2. \/ \E code, e : RequireRepair(c, code, e)
        \/ \E r : RecordVerdict(c, r, delivery)
    BY <1>5 DEF ResolveCase
  <2> QED BY <2>1, <2>2 DEF RequireRepair, RecordVerdict
<1>6. ASSUME NEW c \in Case, NEW who \in Account, NEW response \in BOOLEAN,
             BeginRevision(c, who, response)
      PROVE  Frozen(d)
  BY <1>6 DEF BeginRevision, Revisable
<1>7. ASSUME NEW c \in Case, NEW expected \in DOMAIN verdicts, QueueSettlement(c, expected)
      PROVE  Frozen(d)
  BY <1>7 DEF QueueSettlement, FirstQueue
<1>8. ASSUME NEW c \in Case, RecoverCase(c)
      PROVE  Frozen(d)
  BY <1>8 DEF RecoverCase, Recoverable
<1> QED
  BY <1>1, <1>2, <1>3, <1>4, <1>5, <1>6, <1>7, <1>8
  DEF Next, AdjudicatorStep, vars, adjudicatorVars, Tick, BindVault, InitializationIgnored,
      RecoverAgain

\* VerdictIsCurrent of one case.
VerdictIsCurrentFor(c) ==
    /\ cases[c].status = "REVIEWED" =>
          /\ cases[c].verdict > 0
          /\ verdicts[cases[c].verdict].case = c
          /\ verdicts[cases[c].verdict].revision = Current(c)
    /\ cases[c].status \in {"OPEN", "REPAIR_REQUIRED"} =>
          cases[c].verdict = 0 /\ ~cases[c].queued

\* The verdict of a reviewed case is one of those recorded.
LEMMA VerdictExists ==
    ASSUME TypeOK, NEW c \in Case, VerdictIsCurrentFor(c), cases[c].status = "REVIEWED"
    PROVE  cases[c].verdict \in 1..Len(verdicts)
<1>1. cases[c] \in CaseRecord /\ cases[c].verdict <= Len(verdicts) /\ Len(verdicts) \in Nat
  BY DEF TypeOK
<1>2. cases[c].verdict \in Nat /\ cases[c].verdict > 0
  BY <1>1 DEF CaseRecord, VerdictIsCurrentFor
<1> QED BY <1>1, <1>2

\* It stays so when the case keeps its status, verdict and revisions.
LEMMA VerdictKept ==
    ASSUME TypeOK, [Next]_vars, NEW c \in Case, VerdictIsCurrentFor(c),
           cases'[c].status = cases[c].status, cases'[c].verdict = cases[c].verdict,
           cases[c].status = "REVIEWED" \/ cases'[c].queued = cases[c].queued,
           cases[c].status = "REVIEWED" => revisions'[c] = revisions[c]
    PROVE  VerdictIsCurrentFor(c)'
<1>1. CASE cases[c].status = "REVIEWED"
  <2>1. verdicts'[cases[c].verdict] = verdicts[cases[c].verdict]
    BY <1>1, VerdictExists, VerdictsKept
  <2> QED BY <1>1, <2>1 DEF VerdictIsCurrentFor, Current
<1>2. CASE cases[c].status # "REVIEWED"
  BY <1>2 DEF VerdictIsCurrentFor
<1> QED BY <1>1, <1>2

\* A review gives the current revision its verdict, or fails it without one.
LEMMA ReviewVerdict ==
    ASSUME TypeOK, NEW c \in Case, VerdictIsCurrentFor(c), NEW delivery \in Nat,
           ResolveCase(c, delivery)
    PROVE  VerdictIsCurrentFor(c)'
<1>1. cases[c].status = "OPEN" /\ cases[c] \in CaseRecord /\ cases \in [Case -> CaseRecord]
  BY DEF ResolveCase, Reviewable, TypeOK
<1>2. \/ \E code, e : RequireRepair(c, code, e)
      \/ \E r : RecordVerdict(c, r, delivery)
  BY DEF ResolveCase
<1>3. ASSUME NEW code, NEW e, RequireRepair(c, code, e)
      PROVE  VerdictIsCurrentFor(c)'
  <2>1. /\ cases'[c].status = "REPAIR_REQUIRED" /\ cases'[c].verdict = cases[c].verdict
        /\ cases'[c].queued = cases[c].queued
    BY <1>1, <1>3 DEF RequireRepair, CaseRecord
  <2> QED BY <1>1, <2>1 DEF VerdictIsCurrentFor
<1>4. ASSUME NEW r, RecordVerdict(c, r, delivery)
      PROVE  VerdictIsCurrentFor(c)'
  <2> DEFINE v == [case |-> c, revision |-> Current(c), rule |-> r,
                   delivery |-> delivery, at |-> now]
             reviewed == [CurrentRevision(c) EXCEPT !.status = "REVIEWED"]
  <2>1. cases'[c].status = "REVIEWED" /\ cases'[c].verdict = Len(verdicts) + 1
    BY <1>1, <1>4 DEF RecordVerdict, CaseRecord
  <2>2. /\ verdicts' = Append(verdicts, v)
        /\ revisions' = [revisions EXCEPT ![c][Current(c)] = reviewed]
    BY <1>4 DEF RecordVerdict, CurrentRevision
  <2>3. /\ reviewed \in Revision /\ revisions[c] # <<>>
        /\ revisions \in [Case -> Seq(Revision)]
    BY <1>1, CurrentType DEF Revision, TypeOK
  <2>4. v.case = c /\ v.revision = Current(c)
    OBVIOUS
  <2> HIDE DEF v, reviewed
  <2>5. Len(verdicts) \in Nat /\ verdicts'[Len(verdicts) + 1] = v
    BY <2>2 DEF TypeOK
  <2>6. Current(c)' = Current(c)
    BY <2>2, <2>3, ReviseCurrent DEF Current
  <2> QED BY <2>1, <2>4, <2>5, <2>6 DEF VerdictIsCurrentFor
<1> QED BY <1>2, <1>3, <1>4

LEMMA NextVerdictIsCurrent ==
    ASSUME TypeOK, VerdictIsCurrent, [Next]_vars
    PROVE  VerdictIsCurrent'
<1> SUFFICES ASSUME NEW d \in Case
             PROVE  VerdictIsCurrentFor(d)'
  BY DEF VerdictIsCurrent, VerdictIsCurrentFor
<1>0. VerdictIsCurrentFor(d)
  BY DEF VerdictIsCurrent, VerdictIsCurrentFor
<1> USE DEF TypeOK, CaseRecord
<1>1. ASSUME cases'[d] = cases[d], revisions'[d] = revisions[d]
      PROVE  VerdictIsCurrentFor(d)'
  BY <1>0, <1>1, VerdictKept
<1>2. ASSUME NEW c \in Case, NEW context \in Contexts, InitializeCase(c, context)
      PROVE  VerdictIsCurrentFor(d)'
  <2>1. CASE d = c
    <3>1. cases'[d].status = "OPEN" /\ cases'[d].verdict = 0 /\ ~cases'[d].queued
      BY <1>2, <2>1 DEF InitializeCase, NoCase
    <3> QED BY <3>1 DEF VerdictIsCurrentFor
  <2>2. CASE d # c
    BY <1>1, <1>2, <2>2 DEF InitializeCase
  <2> QED BY <2>1, <2>2
<1>3. ASSUME NEW c \in Case, NEW who \in Account,
             SubmitResponse(c, who) \/ MarkRevisionReady(c, who)
      PROVE  VerdictIsCurrentFor(d)'
  <2>1. /\ cases'[d].status = cases[d].status /\ cases'[d].verdict = cases[d].verdict
        /\ cases'[d].queued = cases[d].queued /\ revisions' = revisions
    <3>1. CASE SubmitResponse(c, who)
      BY <3>1 DEF SubmitResponse
    <3>2. CASE MarkRevisionReady(c, who)
      BY <3>2 DEF MarkRevisionReady
    <3> QED BY <1>3, <3>1, <3>2
  <2> QED BY <1>0, <2>1, VerdictKept
<1>4. ASSUME NEW c \in Case, NEW who \in Account, NEW source \in Source,
             NEW v \in 1..MaxEvidenceVersion, NEW f \in FreshUntil,
             RegisterEvidence(c, who, source, v, f)
      PROVE  VerdictIsCurrentFor(d)'
  <2>1. cases' = cases /\ cases[c].status = "OPEN" /\ (d # c => revisions'[d] = revisions[d])
    BY <1>4 DEF RegisterEvidence
  <2> QED BY <1>0, <2>1, VerdictKept
<1>5. ASSUME NEW c \in Case, NEW delivery \in Deliveries, ResolveCase(c, delivery)
      PROVE  VerdictIsCurrentFor(d)'
  <2>1. CASE d = c
    BY <1>0, <1>5, <2>1, InputAssumption, ReviewVerdict
  <2>2. CASE d # c
    BY <1>1, <1>5, <2>2 DEF ResolveCase, RequireRepair, RecordVerdict
  <2> QED BY <2>1, <2>2
<1>6. ASSUME NEW c \in Case, NEW who \in Account, RetryCurrentRevision(c, who)
      PROVE  VerdictIsCurrentFor(d)'
  <2>1. CASE d = c
    <3>1. /\ cases[d].status = "REPAIR_REQUIRED" /\ cases'[d].status = "OPEN"
          /\ cases'[d].verdict = cases[d].verdict /\ cases'[d].queued = cases[d].queued
      BY <1>6, <2>1 DEF RetryCurrentRevision
    <3> QED BY <1>0, <3>1 DEF VerdictIsCurrentFor
  <2>2. CASE d # c
    BY <1>1, <1>6, <2>2 DEF RetryCurrentRevision
  <2> QED BY <2>1, <2>2
<1>7. ASSUME NEW c \in Case, NEW who \in Account, NEW response \in BOOLEAN,
             BeginRevision(c, who, response)
      PROVE  VerdictIsCurrentFor(d)'
  <2>1. CASE d = c
    <3>1. cases'[d].status = "OPEN" /\ cases'[d].verdict = 0 /\ ~cases'[d].queued
      BY <1>7, <2>1 DEF BeginRevision
    <3> QED BY <3>1 DEF VerdictIsCurrentFor
  <2>2. CASE d # c
    BY <1>1, <1>7, <2>2 DEF BeginRevision
  <2> QED BY <2>1, <2>2
<1>8. ASSUME NEW c \in Case, NEW expected \in DOMAIN verdicts, QueueSettlement(c, expected)
      PROVE  VerdictIsCurrentFor(d)'
  <2>1. /\ cases'[d].status = cases[d].status /\ cases'[d].verdict = cases[d].verdict
        /\ cases[d].status = "REVIEWED" \/ cases'[d].queued = cases[d].queued
        /\ revisions' = revisions
    <3>1. CASE d = c /\ FirstQueue(c)
      BY <1>8, <3>1 DEF QueueSettlement, FirstQueue, Requeue
    <3>2. CASE d # c \/ ~FirstQueue(c)
      BY <1>8, <3>2 DEF QueueSettlement
    <3> QED BY <3>1, <3>2
  <2> QED BY <1>0, <2>1, VerdictKept
<1>9. ASSUME NEW c \in Case, RecoverCase(c)
      PROVE  VerdictIsCurrentFor(d)'
  <2>1. CASE d = c
    <3>1. cases'[d].status = "RECOVERED"
      BY <1>9, <2>1 DEF RecoverCase, Recoverable
    <3> QED BY <3>1 DEF VerdictIsCurrentFor
  <2>2. CASE d # c
    BY <1>1, <1>9, <2>2 DEF RecoverCase, Recoverable
  <2> QED BY <2>1, <2>2
<1>10. CASE UNCHANGED <<cases, revisions>>
  BY <1>1, <1>10
<1> QED
  BY SMTT(30), <1>2, <1>3, <1>4, <1>5, <1>6, <1>7, <1>8, <1>9, <1>10
  DEF Next, AdjudicatorStep, vars, adjudicatorVars, Tick, BindVault, InitializationIgnored,
      RecoverAgain

\* Queueing needs a reviewed case, and what leaves that status needs it not queued.
LEMMA NextQueuedIsReviewed ==
    ASSUME TypeOK, QueuedIsReviewed, [Next]_vars
    PROVE  QueuedIsReviewed'
<1> SUFFICES ASSUME NEW d \in Case, cases'[d].queued
             PROVE  cases'[d].status = "REVIEWED"
  BY DEF QueuedIsReviewed
<1> USE DEF TypeOK, CaseRecord, QueuedIsReviewed
<1>1. ASSUME cases'[d] = cases[d]
      PROVE  cases'[d].status = "REVIEWED"
  BY <1>1
<1>2. ASSUME NEW c \in Case, NEW context \in Contexts, InitializeCase(c, context)
      PROVE  cases'[d].status = "REVIEWED"
  BY <1>1, <1>2 DEF InitializeCase, NoCase
<1>3. ASSUME NEW c \in Case, NEW who \in Account,
             \/ SubmitResponse(c, who)
             \/ MarkRevisionReady(c, who)
             \/ RetryCurrentRevision(c, who)
      PROVE  cases'[d].status = "REVIEWED"
  <2>1. CASE SubmitResponse(c, who)
    BY <1>1, <2>1 DEF SubmitResponse
  <2>2. CASE MarkRevisionReady(c, who)
    BY <1>1, <2>2 DEF MarkRevisionReady
  <2>3. CASE RetryCurrentRevision(c, who)
    BY <1>1, <2>3 DEF RetryCurrentRevision
  <2> QED BY <1>3, <2>1, <2>2, <2>3
<1>4. ASSUME NEW c \in Case, NEW delivery \in Deliveries, ResolveCase(c, delivery)
      PROVE  cases'[d].status = "REVIEWED"
  <2>1. cases[c].status = "OPEN"
    BY <1>4 DEF ResolveCase, Reviewable
  <2>2. \/ \E code, e : RequireRepair(c, code, e)
        \/ \E r : RecordVerdict(c, r, delivery)
    BY <1>4 DEF ResolveCase
  <2>3. ASSUME NEW code, NEW e, RequireRepair(c, code, e)
        PROVE  cases'[d].status = "REVIEWED"
    BY <1>1, <2>1, <2>3 DEF RequireRepair
  <2>4. ASSUME NEW r, RecordVerdict(c, r, delivery)
        PROVE  cases'[d].status = "REVIEWED"
    BY <1>1, <2>4 DEF RecordVerdict
  <2> QED BY <2>2, <2>3, <2>4
<1>5. ASSUME NEW c \in Case, NEW who \in Account, NEW response \in BOOLEAN,
             BeginRevision(c, who, response)
      PROVE  cases'[d].status = "REVIEWED"
  BY <1>1, <1>5 DEF BeginRevision
<1>6. ASSUME NEW c \in Case, NEW expected \in DOMAIN verdicts, QueueSettlement(c, expected)
      PROVE  cases'[d].status = "REVIEWED"
  BY SMTT(30), <1>1, <1>6 DEF QueueSettlement, FirstQueue
<1>7. ASSUME NEW c \in Case, RecoverCase(c)
      PROVE  cases'[d].status = "REVIEWED"
  BY <1>1, <1>7 DEF RecoverCase, Recoverable
<1>8. CASE UNCHANGED cases
  BY <1>1, <1>8
<1>9. ASSUME NEW c \in Case, NEW who \in Account, NEW source \in Source,
             NEW v \in 1..MaxEvidenceVersion, NEW f \in FreshUntil,
             RegisterEvidence(c, who, source, v, f)
      PROVE  UNCHANGED cases
  BY <1>9 DEF RegisterEvidence
<1> QED
  BY SMTT(30), <1>2, <1>3, <1>4, <1>5, <1>6, <1>7, <1>8, <1>9
  DEF Next, AdjudicatorStep, vars, adjudicatorVars, Tick, BindVault, InitializationIgnored,
      RecoverAgain

\* The messages a step adds to those already sent.
LEMMA NewMessage ==
    ASSUME [Next]_vars
    PROVE  \/ net' = net
           \/ \E c \in Case, expected \in DOMAIN verdicts :
                 QueueSettlement(c, expected) /\ Settle(c, verdicts[expected].rule)
           \/ \E c \in Case :
                 (RecoverCase(c) \/ RecoverAgain(c)) /\ Settle(c, NEUTRAL_RECOVERY)
<1>1. ASSUME NEW c \in Case, NEW expected \in DOMAIN verdicts, QueueSettlement(c, expected)
      PROVE  net' = net \/ Settle(c, verdicts[expected].rule)
  BY <1>1 DEF QueueSettlement
<1>2. ASSUME NEW c \in Case, RecoverCase(c) \/ RecoverAgain(c)
      PROVE  net' = net \/ Settle(c, NEUTRAL_RECOVERY)
  BY <1>2 DEF RecoverCase, RecoverAgain
<1>3. ASSUME NEW c \in Case, NEW delivery \in Deliveries, ResolveCase(c, delivery)
      PROVE  net' = net
  BY <1>3 DEF ResolveCase
<1>4. ASSUME NEW c \in Case, NEW who \in Account, NEW response \in BOOLEAN,
             \/ SubmitResponse(c, who)
             \/ MarkRevisionReady(c, who)
             \/ RetryCurrentRevision(c, who)
             \/ BeginRevision(c, who, response)
      PROVE  net' = net
  BY <1>4 DEF SubmitResponse, MarkRevisionReady, RetryCurrentRevision, BeginRevision
<1>5. ASSUME NEW c \in Case, NEW who \in Account, NEW source \in Source,
             NEW v \in 1..MaxEvidenceVersion, NEW f \in FreshUntil,
             RegisterEvidence(c, who, source, v, f)
      PROVE  net' = net
  BY <1>5 DEF RegisterEvidence
<1>6. ASSUME NEW c \in Case, NEW context \in Contexts, InitializeCase(c, context)
      PROVE  net' = net
  BY <1>6 DEF InitializeCase
<1> QED
  BY <1>1, <1>2, <1>3, <1>4, <1>5, <1>6
  DEF Next, AdjudicatorStep, vars, Tick, BindVault, InitializationIgnored

LEMMA NextOneConsequence ==
    ASSUME IInv, [Next]_vars
    PROVE  OneConsequence'
<1> SUFFICES ASSUME NEW c \in Case, NEW r \in Rule, ApplyVerdict(c, r) \in net'
             PROVE  \/ cases'[c].queued /\ r = verdicts'[cases'[c].verdict].rule
                    \/ cases'[c].status = "RECOVERED" /\ ~cases'[c].queued /\ r = NEUTRAL_RECOVERY
  BY DEF OneConsequence
<1>0. TypeOK /\ VerdictIsCurrentFor(c) /\ QueuedIsReviewed /\ OneConsequence
  BY DEF IInv, VerdictIsCurrent, VerdictIsCurrentFor
<1>1. CASE ApplyVerdict(c, r) \in net
  <2>1. Closed(c)
    BY <1>0, <1>1 DEF OneConsequence, Closed
  <2>2. cases'[c] = cases[c]
    BY <1>0, <2>1, ClosedIsFrozen DEF Frozen
  <2>3. cases[c].queued => verdicts'[cases[c].verdict] = verdicts[cases[c].verdict]
    BY <1>0, VerdictExists, VerdictsKept DEF QueuedIsReviewed
  <2> QED BY <1>0, <1>1, <2>2, <2>3 DEF OneConsequence
<1>2. ASSUME NEW k \in Case, NEW expected \in DOMAIN verdicts,
             QueueSettlement(k, expected), Settle(k, verdicts[expected].rule),
             ApplyVerdict(c, r) \notin net
      PROVE  cases'[c].queued /\ r = verdicts'[cases'[c].verdict].rule
  <2>1. k = c /\ r = verdicts[expected].rule
    BY <1>2 DEF Settle, ApplyVerdict
  <2>2. expected = cases[c].verdict /\ verdicts' = verdicts
    BY <1>2, <2>1 DEF QueueSettlement
  <2>3. cases'[c].queued /\ cases'[c].verdict = cases[c].verdict
    BY <1>0, <1>2, <2>1 DEF QueueSettlement, FirstQueue, Requeue, TypeOK, CaseRecord
  <2> QED BY <2>1, <2>2, <2>3
<1>3. ASSUME NEW k \in Case, RecoverCase(k) \/ RecoverAgain(k),
             Settle(k, NEUTRAL_RECOVERY), ApplyVerdict(c, r) \notin net
      PROVE  cases'[c].status = "RECOVERED" /\ ~cases'[c].queued /\ r = NEUTRAL_RECOVERY
  <2>1. k = c /\ r = NEUTRAL_RECOVERY
    BY <1>3 DEF Settle, ApplyVerdict
  <2>2. cases'[c].status = "RECOVERED"
    BY <1>0, <1>3, <2>1 DEF RecoverCase, RecoverAgain, adjudicatorVars, TypeOK, CaseRecord
  <2>3. QueuedIsReviewed'
    BY <1>0, NextQueuedIsReviewed
  <2>4. ~cases'[c].queued
    BY <2>2, <2>3 DEF QueuedIsReviewed
  <2> QED BY <2>1, <2>2, <2>4
<1> QED BY <1>1, <1>2, <1>3, NewMessage

-----------------------------------------------------------------------------
LEMMA InitIInv == Init => IInv
<1>1. ASSUME Init
      PROVE  VerdictIsCurrent /\ QueuedIsReviewed /\ OneConsequence
  BY <1>1 DEF Init, NoCase, VerdictIsCurrent, QueuedIsReviewed, OneConsequence
<1> QED BY <1>1, InitTypeOK DEF IInv

LEMMA NextIInv == IInv /\ [Next]_vars => IInv'
BY NextTypeOK, NextVerdictIsCurrent, NextQueuedIsReviewed, NextOneConsequence DEF IInv

LEMMA SpecIInv == Spec => []IInv
BY InitIInv, NextIInv, PTL DEF Spec

\* The adjudicator's state always ranges over its types, and the ids it keeps name
\* existing evidence and verdicts.
THEOREM TypeCorrect == Spec => []TypeOK
<1>1. IInv => TypeOK
  BY DEF IInv
<1> QED BY SpecIInv, <1>1, PTL

\* A reviewed case always points to the verdict of its current revision.
THEOREM VerdictAlwaysCurrent == Spec => []VerdictIsCurrent
<1>1. IInv => VerdictIsCurrent
  BY DEF IInv
<1> QED BY SpecIInv, <1>1, PTL

\* However often queue_settlement and recover_case are called, in whatever order
\* with reviews and new revisions, the Vault is told one consequence per case.
THEOREM ConsequenceIsUnique == Spec => []OneConsequence
<1>1. IInv => OneConsequence
  BY DEF IInv
<1> QED BY SpecIInv, <1>1, PTL

\* A queued or recovered case and its revisions never change again.
THEOREM DecisionNeverChanges == Spec => DecisionIsFinal
<1> DEFINE Final ==
      \A c \in Case :
        cases[c].queued \/ cases[c].status = "RECOVERED" =>
            cases'[c] = cases[c] /\ revisions'[c] = revisions[c]
<1>1. IInv /\ [Next]_vars => [Final]_vars
  BY ClosedIsFrozen DEF IInv, Closed, Frozen
<1> QED BY SpecIInv, <1>1, PTL DEF Spec, DecisionIsFinal

-----------------------------------------------------------------------------
(* The identity of evidence.                                               *)

\* latest names the last record under each stable id.
LatestIsLast ==
    \A i \in DOMAIN evidence : i <= latest[evidence[i].source.stable]
LatestIsNamed ==
    \A s \in StableId : latest[s] # 0 => evidence[latest[s]].source.stable = s

EvidenceInv == LatestIsLast /\ LatestIsNamed /\ StableIdentity

\* Only register_evidence changes the evidence and its index.
LEMMA EvidenceKept ==
    ASSUME [Next]_vars,
           \A c \in Case, who \in Account, source \in Source,
              v \in 1..MaxEvidenceVersion, f \in FreshUntil :
                ~RegisterEvidence(c, who, source, v, f)
    PROVE  evidence' = evidence /\ latest' = latest
<1>1. CASE Tick \/ UNCHANGED vars \/ \E c \in Case : InitializationIgnored(c)
  BY <1>1 DEF Tick, InitializationIgnored, vars, adjudicatorVars
<1>2. ASSUME NEW c \in Case, NEW context \in Contexts, InitializeCase(c, context)
      PROVE  evidence' = evidence /\ latest' = latest
  BY <1>2 DEF InitializeCase
<1>3. ASSUME NEW c \in Case, NEW delivery \in Deliveries, ResolveCase(c, delivery)
      PROVE  evidence' = evidence /\ latest' = latest
  BY <1>3 DEF ResolveCase
<1>4. CASE AdjudicatorStep
  <2>1. ASSUME NEW c \in Case, NEW who \in Account,
               \/ SubmitResponse(c, who)
               \/ MarkRevisionReady(c, who)
               \/ RetryCurrentRevision(c, who)
               \/ \E response \in BOOLEAN : BeginRevision(c, who, response)
        PROVE  evidence' = evidence /\ latest' = latest
    BY <2>1 DEF SubmitResponse, MarkRevisionReady, RetryCurrentRevision, BeginRevision
  <2>2. ASSUME NEW c \in Case, NEW expected \in DOMAIN verdicts, QueueSettlement(c, expected)
        PROVE  evidence' = evidence /\ latest' = latest
    BY <2>2 DEF QueueSettlement
  <2>3. ASSUME NEW c \in Case, RecoverCase(c) \/ RecoverAgain(c)
        PROVE  evidence' = evidence /\ latest' = latest
    BY <2>3 DEF RecoverCase, RecoverAgain, adjudicatorVars
  <2>4. CASE BindVault
    BY <2>4 DEF BindVault
  <2> QED BY <1>4, <2>1, <2>2, <2>3, <2>4 DEF AdjudicatorStep
<1> QED BY <1>1, <1>2, <1>3, <1>4 DEF Next

\* A new record has the case and the issuer of the last one under its stable id, and
\* a higher version, and by the invariant so it has compared with all before it.
LEMMA RegisterEvidenceInv ==
    ASSUME TypeOK, EvidenceInv, NEW c \in Case, NEW who \in Account, NEW source \in Source,
           NEW v \in 1..MaxEvidenceVersion, NEW f \in FreshUntil,
           RegisterEvidence(c, who, source, v, f)
    PROVE  EvidenceInv'
<1> DEFINE id == Len(evidence) + 1
           record == [case |-> c, revision |-> Current(c), issuer |-> who,
                      source |-> source, version |-> v, freshUntil |-> f]
           s == source.stable
<1>1. /\ evidence' = Append(evidence, record)
      /\ latest' = [latest EXCEPT ![s] = id]
      /\ StableIdAvailable(c, s, who, v)
  BY DEF RegisterEvidence
<1>2. /\ evidence \in Seq(Evidence) /\ Len(evidence) \in Nat
      /\ DOMAIN evidence = 1..Len(evidence)
      /\ latest \in [StableId -> 0..Len(evidence)]
      /\ s \in StableId /\ v \in Nat
  BY InputAssumption DEF TypeOK, StableId
<1>3. /\ record.case = c /\ record.issuer = who /\ record.version = v
      /\ record.source.stable = s
  OBVIOUS
<1> HIDE DEF record
<1>4. /\ DOMAIN evidence' = 1..id
      /\ \A i \in 1..Len(evidence) : evidence'[i] = evidence[i]
      /\ evidence'[id] = record
  BY <1>1, <1>2
<1>5. \A i \in 1..Len(evidence) : /\ evidence[i].source.stable \in StableId
                                  /\ evidence[i].version \in Nat
  <2>1. \A i \in 1..Len(evidence) : evidence[i] \in Evidence
    BY <1>2
  <2> QED BY <2>1 DEF Evidence, StableId
<1> HIDE DEF s
<1>6. \A t \in StableId : latest'[t] = IF t = s THEN id ELSE latest[t]
  BY <1>1, <1>2
<1>7. LatestIsLast'
  <2>1. ASSUME NEW i \in 1..id
        PROVE  i <= latest'[evidence'[i].source.stable]
    <3>1. CASE i = id
      BY <1>2, <1>3, <1>4, <1>6, <3>1
    <3>2. CASE i # id
      <4>1. i \in 1..Len(evidence)
        BY <1>2, <3>2
      <4>2. i <= latest[evidence[i].source.stable]
        BY <1>2, <4>1 DEF EvidenceInv, LatestIsLast
      <4> QED BY <1>2, <1>4, <1>5, <1>6, <4>1, <4>2
    <3> QED BY <3>1, <3>2
  <2> QED BY <1>4, <2>1 DEF LatestIsLast
<1>8. LatestIsNamed'
  <2>1. ASSUME NEW t \in StableId, latest'[t] # 0
        PROVE  evidence'[latest'[t]].source.stable = t
    <3>1. CASE t = s
      BY <1>3, <1>4, <1>6, <3>1
    <3>2. CASE t # s
      <4>1. latest'[t] = latest[t] /\ latest[t] \in 1..Len(evidence)
        BY <1>2, <1>6, <2>1, <3>2
      <4>2. evidence[latest[t]].source.stable = t
        BY <2>1, <4>1 DEF EvidenceInv, LatestIsNamed
      <4> QED BY <1>4, <4>1, <4>2
    <3> QED BY <3>1, <3>2
  <2> QED BY <2>1 DEF LatestIsNamed
<1>9. ASSUME NEW i \in 1..Len(evidence), evidence[i].source.stable = s
      PROVE  evidence[i].case = c /\ evidence[i].issuer = who /\ evidence[i].version < v
  <2> DEFINE j == latest[s]
  <2>1. i <= j /\ j \in 1..Len(evidence)
    <3>1. i <= j
      BY <1>2, <1>9 DEF EvidenceInv, LatestIsLast
    <3> QED BY <1>2, <3>1
  <2>2. evidence[j].case = c /\ evidence[j].issuer = who /\ evidence[j].version < v
    <3>1. j # 0 /\ evidence[j].version \in Nat
      BY <1>5, <2>1
    <3>2. evidence[j].case = c /\ evidence[j].issuer = who /\ v > evidence[j].version
      BY <1>1, <3>1 DEF StableIdAvailable
    <3> QED BY <1>2, <3>1, <3>2
  <2>3. evidence[j].source.stable = s
    BY <1>2, <2>1 DEF EvidenceInv, LatestIsNamed
  <2>4. CASE i = j
    BY <2>2, <2>4
  <2>5. CASE i # j
    <3>1. i < j
      BY <1>2, <2>1, <2>5
    <3>2. /\ evidence[i].case = evidence[j].case
          /\ evidence[i].issuer = evidence[j].issuer
          /\ evidence[i].version < evidence[j].version
      BY <1>2, <1>9, <2>1, <2>3, <3>1 DEF EvidenceInv, StableIdentity
    <3> QED BY <1>2, <1>5, <2>1, <2>2, <3>2
  <2> QED BY <2>4, <2>5
<1>10. StableIdentity'
  <2>1. ASSUME NEW i \in 1..id, NEW j \in 1..id, i < j,
               evidence'[i].source.stable = evidence'[j].source.stable
        PROVE  /\ evidence'[i].case = evidence'[j].case
               /\ evidence'[i].issuer = evidence'[j].issuer
               /\ evidence'[i].version < evidence'[j].version
    <3>1. i \in 1..Len(evidence) /\ evidence'[i] = evidence[i]
      BY <1>2, <1>4, <2>1
    <3>2. CASE j = id
      BY <1>3, <1>4, <1>9, <2>1, <3>1, <3>2
    <3>3. CASE j # id
      <4>1. j \in 1..Len(evidence) /\ evidence'[j] = evidence[j]
        BY <1>2, <1>4, <3>3
      <4> QED BY SMTT(30), <1>2, <2>1, <3>1, <4>1 DEF EvidenceInv, StableIdentity
    <3> QED BY <3>2, <3>3
  <2> QED BY <1>4, <2>1 DEF StableIdentity
<1> QED BY <1>7, <1>8, <1>10 DEF EvidenceInv

LEMMA NextEvidenceInv == TypeOK /\ EvidenceInv /\ [Next]_vars => EvidenceInv'
<1> SUFFICES ASSUME TypeOK, EvidenceInv, [Next]_vars
             PROVE  EvidenceInv'
  OBVIOUS
<1>1. CASE \E c \in Case, who \in Account, source \in Source,
              v \in 1..MaxEvidenceVersion, f \in FreshUntil :
                RegisterEvidence(c, who, source, v, f)
  BY <1>1, RegisterEvidenceInv
<1>2. CASE evidence' = evidence /\ latest' = latest
  BY <1>2 DEF EvidenceInv, LatestIsLast, LatestIsNamed, StableIdentity
<1> QED BY <1>1, <1>2, EvidenceKept

\* A stable record id never changes its case or its issuer, and its versions grow:
\* for any number of cases of one policy, carried evidence and repairs.
THEOREM IdentityIsStable == Spec => []StableIdentity
<1>1. Init => EvidenceInv
  BY DEF Init, EvidenceInv, LatestIsLast, LatestIsNamed, StableIdentity
<1>2. EvidenceInv => StableIdentity
  BY DEF EvidenceInv
<1> QED BY <1>1, <1>2, NextEvidenceInv, TypeCorrect, PTL DEF Spec

-----------------------------------------------------------------------------
(***************************************************************************)
(* The evidence of a case: what a revision starts from, that the records   *)
(* it cites are independent, what a verdict rests on, and how long it      *)
(* stood open before it was queued.                                        *)
(***************************************************************************)

Reviewing == {"OPEN", "REPAIR_REQUIRED", "REVIEWED"}

\* The current revision of a case under review has the status of the case.
StatusOf(c) == cases[c].status \in Reviewing => CurrentRevision(c).status = cases[c].status

\* A failure names a record of its revision, or none.
FailedCited(c) ==
    \A k \in DOMAIN revisions[c] :
        revisions[c][k].failed \in revisions[c][k].evidence \cup {0}

\* A case cites its own records only.
OwnEvidence(c) ==
    \A k \in DOMAIN revisions[c] : \A e \in revisions[c][k].evidence : evidence[e].case = c

\* A failed record is cited by no later revision.
FailedGone(c) ==
    \A j, k \in DOMAIN revisions[c] :
        j < k /\ revisions[c][j].status = "REPAIR_REQUIRED" =>
            revisions[c][j].failed \notin revisions[c][k].evidence

\* What the current revision cites is the last record under its stable id.
CitedIsLatest(c) ==
    revisions[c] # <<>> =>
        \A e \in CurrentRevision(c).evidence : latest[evidence[e].source.stable] = e

\* IndependentEvidence and CarriedForward of one revision and of one case.
Independent(cited) ==
    /\ Cardinality(cited) <= EvidenceLimit
    /\ \A i, j \in cited :
        i # j => /\ evidence[i].source.stable # evidence[j].source.stable
                 /\ evidence[i].source.digest # evidence[j].source.digest
                 /\ evidence[i].source.group = evidence[j].source.group
IndependentFor(c) == \A k \in DOMAIN revisions[c] : Independent(revisions[c][k].evidence)

Dropped(revision) == IF revision.status = "REPAIR_REQUIRED" THEN {revision.failed} ELSE {}
CarriedFor(c) ==
    \A k \in 1..(Current(c) - 1) :
        LET old == revisions[c][k]
        IN  /\ old.evidence \ Dropped(old) \subseteq revisions[c][k + 1].evidence
            /\ Dropped(old) \cap revisions[c][k + 1].evidence = {}

CaseInv(c) ==
    /\ StatusOf(c)
    /\ FailedCited(c)
    /\ OwnEvidence(c)
    /\ FailedGone(c)
    /\ CitedIsLatest(c)
    /\ IndependentFor(c)
    /\ CarriedFor(c)

\* A record was registered in a revision of its case.
Placed == \A e \in DOMAIN evidence : evidence[e].revision \in DOMAIN revisions[evidence[e].case]

\* A reviewed case can be settled once the response window after its verdict, or the
\* horizon of the case, has passed.
Timed(c) ==
    cases[c].status = "REVIEWED" =>
        cases[c].settlementEarliestAt =
            Least(verdicts[cases[c].verdict].at + ResponseWindow, cases[c].recoveryDeadline)

-----------------------------------------------------------------------------
(* The steps, by what they do to revisions, evidence and verdicts.         *)

\* Steps that only move deadlines, parties' marks or the settlement of a case.
Untouched ==
    /\ UNCHANGED <<revisions, evidence, latest, verdicts>>
    /\ \A c \in Case :
        /\ cases'[c].status \in {cases[c].status, "RECOVERED"}
        /\ cases'[c].verdict = cases[c].verdict
        /\ cases'[c].settlementEarliestAt = cases[c].settlementEarliestAt
        /\ cases'[c].recoveryDeadline = cases[c].recoveryDeadline

LEMMA StepShape ==
    ASSUME TypeOK, [Next]_vars
    PROVE  \/ Untouched
           \/ \E c \in Case, context \in Contexts : InitializeCase(c, context)
           \/ \E c \in Case, who \in Account, source \in Source,
                 v \in 1..MaxEvidenceVersion, f \in FreshUntil :
                   RegisterEvidence(c, who, source, v, f)
           \/ \E c \in Case, delivery \in Deliveries : ResolveCase(c, delivery)
           \/ \E c \in Case, who \in Account : RetryCurrentRevision(c, who)
           \/ \E c \in Case, who \in Account, response \in BOOLEAN :
                   BeginRevision(c, who, response)
<1>1. CASE UNCHANGED <<cases, revisions, evidence, latest, verdicts>>
  BY <1>1 DEF Untouched
<1>2. ASSUME NEW c \in Case, NEW new,
             cases' = [cases EXCEPT ![c] = new],
             new.status \in {cases[c].status, "RECOVERED"},
             new.verdict = cases[c].verdict,
             new.settlementEarliestAt = cases[c].settlementEarliestAt,
             new.recoveryDeadline = cases[c].recoveryDeadline,
             UNCHANGED <<revisions, evidence, latest, verdicts>>
      PROVE  Untouched
  BY <1>2 DEF Untouched, TypeOK
<1>3. \A c \in Case : cases[c] \in CaseRecord
  BY DEF TypeOK
<1>4. ASSUME NEW c \in Case, NEW who \in Account, SubmitResponse(c, who)
      PROVE  Untouched
  <2> DEFINE new == [cases[c] EXCEPT !.response = TRUE]
  <2>1. cases' = [cases EXCEPT ![c] = new]
    BY <1>4 DEF SubmitResponse
  <2>2. /\ new.status = cases[c].status /\ new.verdict = cases[c].verdict
        /\ new.settlementEarliestAt = cases[c].settlementEarliestAt
        /\ new.recoveryDeadline = cases[c].recoveryDeadline
    BY <1>3 DEF CaseRecord
  <2> HIDE DEF new
  <2> QED BY <1>2, <1>4, <2>1, <2>2 DEF SubmitResponse
<1>5. ASSUME NEW c \in Case, NEW who \in Account, MarkRevisionReady(c, who)
      PROVE  Untouched
  <2> DEFINE new == [cases[c] EXCEPT !.ready = @ \cup {who}]
  <2>1. cases' = [cases EXCEPT ![c] = new]
    BY <1>5 DEF MarkRevisionReady
  <2>2. /\ new.status = cases[c].status /\ new.verdict = cases[c].verdict
        /\ new.settlementEarliestAt = cases[c].settlementEarliestAt
        /\ new.recoveryDeadline = cases[c].recoveryDeadline
    BY <1>3 DEF CaseRecord
  <2> HIDE DEF new
  <2> QED BY <1>2, <1>5, <2>1, <2>2 DEF MarkRevisionReady
<1>6. ASSUME NEW c \in Case, NEW expected \in DOMAIN verdicts, QueueSettlement(c, expected)
      PROVE  Untouched
  <2> DEFINE new == [cases[c] EXCEPT !.queued = TRUE]
  <2>1. \/ cases' = [cases EXCEPT ![c] = new]
        \/ cases' = cases
    BY <1>6 DEF QueueSettlement
  <2>2. /\ new.status = cases[c].status /\ new.verdict = cases[c].verdict
        /\ new.settlementEarliestAt = cases[c].settlementEarliestAt
        /\ new.recoveryDeadline = cases[c].recoveryDeadline
    BY <1>3 DEF CaseRecord
  <2>3. UNCHANGED <<revisions, evidence, latest, verdicts>>
    BY <1>6 DEF QueueSettlement
  <2> HIDE DEF new
  <2>4. CASE cases' = cases
    BY <2>3, <2>4 DEF Untouched
  <2>5. CASE cases' = [cases EXCEPT ![c] = new]
    BY <1>2, <2>2, <2>3, <2>5
  <2> QED BY <2>1, <2>4, <2>5
<1>7. ASSUME NEW c \in Case, RecoverCase(c)
      PROVE  Untouched
  <2> DEFINE new == [cases[c] EXCEPT !.status = "RECOVERED"]
  <2>1. cases' = [cases EXCEPT ![c] = new]
    BY <1>7 DEF RecoverCase
  <2>2. /\ new.status = "RECOVERED" /\ new.verdict = cases[c].verdict
        /\ new.settlementEarliestAt = cases[c].settlementEarliestAt
        /\ new.recoveryDeadline = cases[c].recoveryDeadline
    BY <1>3 DEF CaseRecord
  <2> HIDE DEF new
  <2> QED BY <1>2, <1>7, <2>1, <2>2 DEF RecoverCase
<1>8. CASE \/ Tick \/ BindVault \/ UNCHANGED vars
           \/ \E c \in Case : InitializationIgnored(c) \/ RecoverAgain(c)
  BY <1>1, <1>8 DEF Tick, BindVault, InitializationIgnored, RecoverAgain, vars, adjudicatorVars
<1>9. CASE AdjudicatorStep
  BY <1>4, <1>5, <1>6, <1>7, <1>8, <1>9 DEF AdjudicatorStep
<1> QED BY <1>8, <1>9 DEF Next

-----------------------------------------------------------------------------
(* What a step does to the evidence of one case.                           *)

\* What a revision cites are recorded and finitely many records.
LEMMA CitedType ==
    ASSUME TypeOK, NEW c \in Case, NEW k \in DOMAIN revisions[c]
    PROVE  /\ revisions[c][k] \in Revision
           /\ revisions[c][k].evidence \subseteq 1..Len(evidence)
           /\ IsFiniteSet(revisions[c][k].evidence)
<1>1. revisions[c] \in Seq(Revision) /\ evidence \in Seq(Evidence)
  BY DEF TypeOK
<1>2. revisions[c][k] \in Revision
  BY <1>1, ElementOfSeq
<1>3. revisions[c][k].evidence \subseteq 1..Len(evidence) /\ Len(evidence) \in Nat
  BY <1>1 DEF TypeOK
<1>4. IsFiniteSet(1..Len(evidence))
  BY <1>3, FS_Interval
<1> QED BY <1>2, <1>3, <1>4, FS_Subset

\* A step on another case, or one that leaves the revisions alone.
LEMMA OtherCase ==
    ASSUME TypeOK, NEW d \in Case, CaseInv(d),
           cases'[d].status \in {cases[d].status, "RECOVERED"},
           revisions'[d] = revisions[d],
           \A e \in DOMAIN evidence : evidence'[e] = evidence[e],
           revisions[d] # <<>> =>
               \A e \in CurrentRevision(d).evidence :
                   latest'[evidence[e].source.stable] = latest[evidence[e].source.stable]
    PROVE  CaseInv(d)'
<1>1. \A k \in DOMAIN revisions[d] : \A e \in revisions[d][k].evidence : evidence'[e] = evidence[e]
  BY DEF TypeOK
<1>2. revisions[d] # <<>> => \A e \in CurrentRevision(d).evidence : evidence'[e] = evidence[e]
  <2>1. revisions[d] # <<>> => Current(d) \in DOMAIN revisions[d]
    BY EmptySeq DEF TypeOK, Current
  <2> QED BY <1>1, <2>1 DEF CurrentRevision
<1>3. StatusOf(d)'
  BY DEF CaseInv, StatusOf, CurrentRevision, Current, Reviewing
<1>4. FailedCited(d)' /\ FailedGone(d)'
  BY DEF CaseInv, FailedCited, FailedGone
<1>5. OwnEvidence(d)'
  BY <1>1 DEF CaseInv, OwnEvidence
<1>6. CitedIsLatest(d)'
  BY <1>2 DEF CaseInv, CitedIsLatest, CurrentRevision, Current
<1>7. IndependentFor(d)'
  BY <1>1 DEF CaseInv, IndependentFor, Independent
<1>8. CarriedFor(d)'
  BY DEF CaseInv, CarriedFor, Dropped, Current
<1> QED BY <1>3, <1>4, <1>5, <1>6, <1>7, <1>8 DEF CaseInv

\* A case is opened on a revision without evidence.
LEMMA OpenCase ==
    ASSUME NEW c \in Case, cases'[c].status = "OPEN", revisions'[c] = <<NewRevision({})>>,
           UNCHANGED <<evidence, latest>>
    PROVE  CaseInv(c)'
<1>1. /\ DOMAIN revisions'[c] = {1} /\ Len(revisions'[c]) = 1
      /\ revisions'[c][1] = NewRevision({})
  OBVIOUS
<1>2. NewRevision({}).evidence = {} /\ NewRevision({}).failed = 0 /\ NewRevision({}).status = "OPEN"
  BY DEF NewRevision
<1>3. StatusOf(c)' /\ CitedIsLatest(c)' /\ FailedCited(c)' /\ OwnEvidence(c)'
  BY <1>1, <1>2 DEF StatusOf, CitedIsLatest, FailedCited, OwnEvidence, CurrentRevision, Current
<1>4. FailedGone(c)' /\ CarriedFor(c)'
  BY <1>1, <1>2 DEF FailedGone, CarriedFor, Current
<1>5. IndependentFor(c)'
  <2>1. Cardinality({}) = 0
    BY FS_EmptySet
  <2> QED BY <1>1, <1>2, <2>1, PolicyAssumption DEF IndependentFor, Independent
<1> QED BY <1>3, <1>4, <1>5 DEF CaseInv

\* A review or a retry rewrites the finding of the current revision.
LEMMA ReviewCase ==
    ASSUME TypeOK, NEW c \in Case, CaseInv(c), revisions[c] # <<>>,
           NEW r \in Revision, r.evidence = CurrentRevision(c).evidence,
           r.failed \in r.evidence \cup {0}, cases'[c].status = r.status,
           revisions'[c] \in Seq(Revision), Len(revisions'[c]) = Len(revisions[c]),
           \A k \in DOMAIN revisions'[c] :
               revisions'[c][k] = IF k = Current(c) THEN r ELSE revisions[c][k],
           UNCHANGED <<evidence, latest>>
    PROVE  CaseInv(c)'
<1> DEFINE n == Current(c)
<1>1. /\ revisions[c] \in Seq(Revision) /\ n \in Nat /\ n \in 1..n
      /\ DOMAIN revisions[c] = 1..n /\ DOMAIN revisions'[c] = 1..n
      /\ Current(c)' = n
  <2>1. revisions[c] \in Seq(Revision) /\ n \in Nat
    BY DEF TypeOK, Current
  <2>2. n # 0
    BY <2>1, EmptySeq DEF Current
  <2> QED BY <2>1, <2>2 DEF Current
<1>2. /\ revisions'[c][n] = r
      /\ \A k \in 1..n : k # n => revisions'[c][k] = revisions[c][k]
      /\ \A k \in 1..n : revisions'[c][k].evidence = revisions[c][k].evidence
  BY <1>1 DEF CurrentRevision
<1> HIDE DEF n
<1>3. StatusOf(c)'
  BY <1>1, <1>2 DEF StatusOf, CurrentRevision
<1>4. FailedCited(c)' /\ OwnEvidence(c)' /\ IndependentFor(c)'
  BY <1>1, <1>2 DEF CaseInv, FailedCited, OwnEvidence, IndependentFor, Independent
<1>5. FailedGone(c)'
  <2>1. ASSUME NEW j \in 1..n, NEW k \in 1..n, j < k,
               revisions'[c][j].status = "REPAIR_REQUIRED"
        PROVE  revisions'[c][j].failed \notin revisions'[c][k].evidence
    <3>1. j # n
      BY <1>1, <2>1
    <3> QED BY <1>1, <1>2, <2>1, <3>1 DEF CaseInv, FailedGone
  <2> QED BY <1>1, <2>1 DEF FailedGone
<1>6. CitedIsLatest(c)'
  BY <1>1, <1>2 DEF CaseInv, CitedIsLatest, CurrentRevision
<1>7. CarriedFor(c)'
  <2>1. ASSUME NEW k \in 1..(n - 1)
        PROVE  LET old == revisions'[c][k]
               IN  /\ old.evidence \ Dropped(old) \subseteq revisions'[c][k + 1].evidence
                   /\ Dropped(old) \cap revisions'[c][k + 1].evidence = {}
    <3>1. k \in 1..n /\ k + 1 \in 1..n /\ k # n
      BY <1>1, <2>1
    <3>2. revisions'[c][k] = revisions[c][k]
          /\ revisions'[c][k + 1].evidence = revisions[c][k + 1].evidence
      BY <1>2, <3>1
    <3>3. n = Current(c)
      BY DEF n
    <3> QED BY <2>1, <3>2, <3>3 DEF CaseInv, CarriedFor
  <2> QED BY <1>1, <2>1 DEF CarriedFor, Dropped
<1> QED BY <1>3, <1>4, <1>5, <1>6, <1>7 DEF CaseInv

\* A stable id that may be used again is cited by no current revision: its last record
\* failed in an earlier revision of the case and was left behind then.
LEMMA NewStableId ==
    ASSUME TypeOK, NEW c \in Case, CaseInv(c), Placed, cases[c].status = "OPEN",
           NEW stable, NEW who, NEW v, StableIdAvailable(c, stable, who, v),
           NEW d \in Case, CaseInv(d), revisions[d] # <<>>,
           NEW e \in CurrentRevision(d).evidence
    PROVE  evidence[e].source.stable # stable
<1> SUFFICES ASSUME evidence[e].source.stable = stable PROVE FALSE
  OBVIOUS
<1>1. /\ Current(d) \in DOMAIN revisions[d]
      /\ e \in 1..Len(evidence) /\ Len(evidence) \in Nat /\ e \in DOMAIN evidence
  <2>1. Current(d) \in DOMAIN revisions[d]
    BY EmptySeq DEF TypeOK, Current
  <2>2. CurrentRevision(d).evidence \subseteq 1..Len(evidence)
    BY <2>1, CitedType DEF CurrentRevision
  <2> QED BY <2>1, <2>2 DEF TypeOK
<1>2. latest[stable] = e
  BY DEF CaseInv, CitedIsLatest
<1> DEFINE p == evidence[e].revision
<1>3. /\ evidence[e].case = c /\ revisions[c][p].status = "REPAIR_REQUIRED"
      /\ revisions[c][p].failed = e
  <2>1. latest[stable] # 0
    BY <1>1, <1>2
  <2> QED BY <1>2, <2>1 DEF StableIdAvailable
<1>4. d = c
  BY <1>1, <1>3 DEF CaseInv, OwnEvidence, CurrentRevision
<1>5. p \in DOMAIN revisions[c]
  BY <1>1, <1>3 DEF Placed
<1>6. p # Current(c)
  BY <1>3 DEF CaseInv, StatusOf, Reviewing, CurrentRevision
<1>7. p < Current(c)
  <2>1. DOMAIN revisions[c] = 1..Current(c) /\ Current(c) \in Nat
    BY DEF TypeOK, Current
  <2> QED BY <1>5, <1>6, <2>1
<1> QED BY <1>1, <1>3, <1>4, <1>5, <1>7 DEF CaseInv, FailedGone, CurrentRevision

\* A new record joins the evidence of the current revision.
LEMMA CiteCase ==
    ASSUME TypeOK, NEW c \in Case, CaseInv(c), Placed, NEW who \in Account,
           NEW source \in Source, NEW v \in 1..MaxEvidenceVersion, NEW f \in FreshUntil,
           RegisterEvidence(c, who, source, v, f)
    PROVE  CaseInv(c)'
<1> DEFINE n == Current(c)
           id == Len(evidence) + 1
           cited == CurrentRevision(c).evidence
           record == [case |-> c, revision |-> Current(c), issuer |-> who,
                      source |-> source, version |-> v, freshUntil |-> f]
           r == [CurrentRevision(c) EXCEPT !.evidence = @ \cup {id}]
<1>1. /\ cases[c].status = "OPEN" /\ revisions[c] # <<>>
      /\ evidence' = Append(evidence, record)
      /\ revisions' = [revisions EXCEPT ![c][n] = r]
      /\ latest' = [latest EXCEPT ![source.stable] = id]
      /\ cases' = cases
      /\ StableIdAvailable(c, source.stable, who, v) /\ Corroborates(cited, source)
      /\ Cardinality(cited) < EvidenceLimit
  BY CurrentType DEF RegisterEvidence, CurrentRevision
<1>2. /\ n \in DOMAIN revisions[c] /\ n \in Nat /\ DOMAIN revisions[c] = 1..n
      /\ CurrentRevision(c) \in Revision /\ revisions \in [Case -> Seq(Revision)]
      /\ cited \subseteq 1..Len(evidence) /\ IsFiniteSet(cited) /\ Len(evidence) \in Nat
      /\ evidence \in Seq(Evidence) /\ cited \subseteq Nat
  <2>1. n \in DOMAIN revisions[c] /\ CurrentRevision(c) \in Revision
    BY <1>1, CurrentType
  <2> QED BY <2>1, CitedType DEF CurrentRevision, TypeOK, Current, Revision
<1>3. /\ r \in Revision /\ r.evidence = cited \cup {id}
      /\ r.status = CurrentRevision(c).status /\ r.failed = CurrentRevision(c).failed
  <2>1. cited \cup {id} \in SUBSET Nat
    BY <1>2
  <2> QED BY <1>2, <2>1 DEF Revision
<1>4. record.case = c /\ record.source = source
  OBVIOUS
<1> HIDE DEF record, r
<1>5. /\ \A e \in 1..Len(evidence) : evidence'[e] = evidence[e]
      /\ evidence'[id] = record
  BY <1>1, <1>2
<1>6. \A t \in StableId : latest'[t] = IF t = source.stable THEN id ELSE latest[t]
  BY <1>1 DEF TypeOK
<1>7. /\ Len(revisions'[c]) = n /\ DOMAIN revisions'[c] = 1..n /\ Current(c)' = n
      /\ \A k \in 1..n : revisions'[c][k] = IF k = n THEN r ELSE revisions[c][k]
  <2>1. /\ revisions'[c] \in Seq(Revision) /\ Len(revisions'[c]) = Len(revisions[c])
        /\ \A k \in DOMAIN revisions'[c] :
              revisions'[c][k] = IF k = n THEN r ELSE revisions[c][k]
    BY <1>1, <1>2, <1>3, ReviseCurrent
  <2>2. Len(revisions'[c]) = n
    BY <2>1 DEF Current
  <2>3. DOMAIN revisions'[c] = 1..n
    BY <2>1, <2>2
  <2> QED BY <2>1, <2>2, <2>3 DEF Current
<1>8. /\ revisions[c][n] = CurrentRevision(c) /\ n = Current(c)
      /\ \A k \in 1..n : revisions[c][k].evidence \subseteq 1..Len(evidence)
  BY <1>2, CitedType DEF CurrentRevision
<1> HIDE DEF n
<1>9. \A e \in cited : evidence[e].source.stable # source.stable
  BY <1>1, NewStableId
<1>10. \A e \in 1..Len(evidence) : evidence[e].source.stable \in StableId
  <2>1. \A e \in 1..Len(evidence) : evidence[e] \in Evidence
    BY <1>2
  <2> QED BY <2>1 DEF Evidence, StableId
<1> HIDE DEF cited
<1>11. StatusOf(c)'
  BY <1>1, <1>2, <1>3, <1>7 DEF CaseInv, StatusOf, CurrentRevision
<1>12. FailedCited(c)'
  BY <1>2, <1>3, <1>7, <1>8 DEF CaseInv, FailedCited, cited
<1>13. OwnEvidence(c)'
  <2>1. ASSUME NEW k \in 1..n, NEW e \in revisions'[c][k].evidence
        PROVE  evidence'[e].case = c
    <3>1. CASE e = id
      BY <1>4, <1>5, <3>1
    <3>2. CASE e # id
      <4>1. e \in revisions[c][k].evidence
        BY <1>3, <1>7, <1>8, <2>1, <3>2 DEF cited
      <4> QED BY <1>2, <1>5, <1>8, <4>1 DEF CaseInv, OwnEvidence
    <3> QED BY <3>1, <3>2
  <2> QED BY <1>7, <2>1 DEF OwnEvidence
<1>14. FailedGone(c)'
  <2>1. ASSUME NEW j \in 1..n, NEW k \in 1..n, j < k,
               revisions'[c][j].status = "REPAIR_REQUIRED"
        PROVE  revisions'[c][j].failed \notin revisions'[c][k].evidence
    <3>1. j # n /\ revisions'[c][j] = revisions[c][j]
      BY <1>2, <1>7, <2>1
    <3>2. revisions[c][j].failed \notin revisions[c][k].evidence
      BY <1>2, <2>1, <3>1 DEF CaseInv, FailedGone
    <3>3. revisions[c][j].failed \in 0..Len(evidence)
      BY <1>2, <1>8 DEF CaseInv, FailedCited
    <3>4. revisions[c][j].failed # id
      BY <1>2, <3>3
    <3> QED BY <1>3, <1>7, <1>8, <3>1, <3>2, <3>4 DEF cited
  <2> QED BY <1>7, <2>1 DEF FailedGone
<1>15. CitedIsLatest(c)'
  <2>1. ASSUME NEW e \in r.evidence
        PROVE  latest'[evidence'[e].source.stable] = e
    <3>1. CASE e = id
      BY <1>4, <1>5, <1>6, <3>1 DEF StableId
    <3>2. CASE e # id
      <4>1. e \in cited /\ e \in 1..Len(evidence)
        BY <1>2, <1>3, <3>2
      <4>2. latest[evidence[e].source.stable] = e
        BY <1>1, <4>1 DEF CaseInv, CitedIsLatest, cited
      <4> QED BY <1>5, <1>6, <1>9, <1>10, <4>1, <4>2
    <3> QED BY <3>1, <3>2
  <2> QED BY <1>2, <1>7, <2>1 DEF CitedIsLatest, CurrentRevision
<1>16. IndependentFor(c)'
  <2>1. ASSUME NEW k \in 1..n, k # n
        PROVE  /\ Cardinality(revisions'[c][k].evidence) <= EvidenceLimit
               /\ \A i, j \in revisions'[c][k].evidence :
                    i # j => /\ evidence'[i].source.stable # evidence'[j].source.stable
                             /\ evidence'[i].source.digest # evidence'[j].source.digest
                             /\ evidence'[i].source.group = evidence'[j].source.group
    <3>1. /\ revisions'[c][k].evidence = revisions[c][k].evidence
          /\ \A e \in revisions[c][k].evidence : evidence'[e] = evidence[e]
      BY <1>5, <1>7, <1>8, <2>1
    <3>2. Independent(revisions[c][k].evidence)
      BY <1>2 DEF CaseInv, IndependentFor
    <3> QED BY <3>1, <3>2 DEF Independent
  <2>2. /\ Cardinality(cited \cup {id}) <= EvidenceLimit
    <3>1. Cardinality(cited) \in Nat /\ id \notin cited
      BY <1>2, FS_CardinalityType
    <3>2. Cardinality(cited \cup {id}) = Cardinality(cited) + 1
      BY <1>2, <3>1, FS_AddElement
    <3> HIDE DEF id
    <3> QED BY <1>1, <3>1, <3>2, PolicyAssumption
  <2>3. ASSUME NEW i \in cited, NEW j \in cited, i # j
        PROVE  /\ evidence'[i].source.stable # evidence'[j].source.stable
               /\ evidence'[i].source.digest # evidence'[j].source.digest
               /\ evidence'[i].source.group = evidence'[j].source.group
    <3>1. Independent(cited)
      BY <1>2, <1>8 DEF CaseInv, IndependentFor, cited
    <3> QED BY <1>2, <1>5, <2>3, <3>1 DEF Independent
  <2>4. ASSUME NEW i \in cited
        PROVE  /\ evidence'[i].source.stable # evidence'[id].source.stable
               /\ evidence'[i].source.digest # evidence'[id].source.digest
               /\ evidence'[i].source.group = evidence'[id].source.group
    <3>1. evidence'[i] = evidence[i] /\ evidence'[id].source = source
      BY <1>2, <1>4, <1>5, <2>4
    <3> QED BY <1>1, <1>9, <2>4, <3>1 DEF Corroborates
  <2>5. Cardinality(r.evidence) <= EvidenceLimit
    BY <1>3, <2>2
  <2>6. \A i, j \in r.evidence :
            i # j => /\ evidence'[i].source.stable # evidence'[j].source.stable
                     /\ evidence'[i].source.digest # evidence'[j].source.digest
                     /\ evidence'[i].source.group = evidence'[j].source.group
    BY <1>3, <2>3, <2>4
  <2>7. \A k \in 1..n :
            /\ Cardinality(revisions'[c][k].evidence) <= EvidenceLimit
            /\ \A i, j \in revisions'[c][k].evidence :
                i # j => /\ evidence'[i].source.stable # evidence'[j].source.stable
                         /\ evidence'[i].source.digest # evidence'[j].source.digest
                         /\ evidence'[i].source.group = evidence'[j].source.group
    BY <1>7, <2>1, <2>5, <2>6
  <2> QED BY <1>7, <2>7 DEF IndependentFor, Independent
<1>17. CarriedFor(c)'
  <2>1. ASSUME NEW k \in 1..(n - 1)
        PROVE  LET old == revisions'[c][k]
               IN  /\ old.evidence \ Dropped(old) \subseteq revisions'[c][k + 1].evidence
                   /\ Dropped(old) \cap revisions'[c][k + 1].evidence = {}
    <3>1. k \in 1..n /\ k + 1 \in 1..n /\ k # n
      BY <1>2, <2>1
    <3>2. /\ revisions'[c][k] = revisions[c][k]
          /\ revisions[c][k + 1].evidence \subseteq revisions'[c][k + 1].evidence
          /\ revisions'[c][k + 1].evidence \subseteq revisions[c][k + 1].evidence \cup {id}
      BY <1>3, <1>7, <1>8, <3>1 DEF cited
    <3>3. revisions[c][k].failed \in 0..Len(evidence)
      BY <1>2, <1>8, <3>1 DEF CaseInv, FailedCited
    <3>4. id \notin Dropped(revisions[c][k])
      BY <1>2, <3>3 DEF Dropped
    <3> QED BY <1>8, <2>1, <3>2, <3>4 DEF CaseInv, CarriedFor, Dropped
  <2> QED BY <1>7, <2>1 DEF CarriedFor, Dropped
<1> QED BY <1>11, <1>12, <1>13, <1>14, <1>15, <1>16, <1>17 DEF CaseInv

\* A new revision carries the evidence of the current one, less the failed record.
LEMMA ReviseCase ==
    ASSUME TypeOK, NEW c \in Case, CaseInv(c), NEW who \in Account,
           NEW response \in BOOLEAN, BeginRevision(c, who, response)
    PROVE  CaseInv(c)'
<1> DEFINE n == Current(c)
           old == CurrentRevision(c)
           r == NewRevision(Carried(c))
<1>1. /\ cases[c].status \in {"REVIEWED", "REPAIR_REQUIRED"} /\ revisions[c] # <<>>
      /\ revisions'[c] = Append(revisions[c], r)
      /\ cases'[c].status = "OPEN"
      /\ UNCHANGED <<evidence, latest>>
  <2>1. cases[c].status \in {"REVIEWED", "REPAIR_REQUIRED"}
    BY DEF BeginRevision, Revisable
  <2>2. cases'[c].status = "OPEN"
    BY DEF BeginRevision, TypeOK, CaseRecord
  <2> QED BY <2>1, <2>2, CurrentType DEF BeginRevision, TypeOK
<1>2. /\ n \in DOMAIN revisions[c] /\ n \in Nat /\ DOMAIN revisions[c] = 1..n
      /\ old \in Revision /\ revisions[c] \in Seq(Revision)
      /\ old.evidence \subseteq 1..Len(evidence) /\ IsFiniteSet(old.evidence)
      /\ Len(evidence) \in Nat /\ revisions[c][n] = old
  <2>1. n \in DOMAIN revisions[c] /\ old \in Revision
    BY <1>1, CurrentType
  <2> QED BY <2>1, CitedType DEF CurrentRevision, TypeOK, Current
<1>3. old.status = cases[c].status
  BY <1>1 DEF CaseInv, StatusOf, Reviewing
<1>4. /\ r.evidence = old.evidence \ Dropped(old) /\ r.failed = 0 /\ r.status = "OPEN"
  BY <1>3 DEF NewRevision, Carried, Dropped
<1> HIDE DEF r
<1>5. /\ DOMAIN revisions'[c] = 1..(n + 1) /\ Current(c)' = n + 1
      /\ revisions'[c][n + 1] = r
      /\ \A k \in 1..n : revisions'[c][k] = revisions[c][k]
  BY <1>1, <1>2 DEF Current
<1>6. n = Current(c) /\ \A k \in 1..n : revisions[c][k].evidence \subseteq 1..Len(evidence)
  BY <1>2, CitedType
<1> HIDE DEF n
<1>7. ASSUME NEW k \in 1..(n + 1), k # n + 1
      PROVE  k \in 1..n
  BY <1>2, <1>7
<1>8. StatusOf(c)'
  BY <1>1, <1>4, <1>5 DEF StatusOf, CurrentRevision
<1>9. FailedCited(c)' /\ OwnEvidence(c)'
  <2>1. \A k \in 1..n : /\ revisions[c][k].failed \in revisions[c][k].evidence \cup {0}
                        /\ \A e \in revisions[c][k].evidence : evidence[e].case = c
    BY <1>2 DEF CaseInv, FailedCited, OwnEvidence
  <2>2. \A k \in 1..(n + 1) : k # n + 1 => k \in 1..n
    BY <1>7
  <2>3. \A k \in 1..(n + 1) : /\ revisions'[c][k].failed \in revisions'[c][k].evidence \cup {0}
                              /\ \A e \in revisions'[c][k].evidence : evidence'[e].case = c
    BY <1>1, <1>2, <1>4, <1>5, <2>1, <2>2
  <2> QED BY <1>5, <2>3 DEF FailedCited, OwnEvidence
<1>10. FailedGone(c)'
  <2>1. ASSUME NEW j \in 1..(n + 1), NEW k \in 1..(n + 1), j < k,
               revisions'[c][j].status = "REPAIR_REQUIRED"
        PROVE  revisions'[c][j].failed \notin revisions'[c][k].evidence
    <3>0. j \in 1..n
      BY <1>2, <2>1
    <3>1. j \in 1..n /\ revisions'[c][j] = revisions[c][j]
      BY <1>5, <3>0
    <3>2. CASE k # n + 1
      BY <1>2, <1>5, <1>7, <2>1, <3>1, <3>2 DEF CaseInv, FailedGone
    <3>3. CASE k = n + 1 /\ j = n
      BY <1>2, <1>4, <1>5, <2>1, <3>1, <3>3 DEF Dropped
    <3>4. CASE k = n + 1 /\ j # n
      <4>1. j < n /\ n \in 1..n
        BY <1>2, <3>1, <3>4
      <4>2. revisions[c][j].failed \notin old.evidence
        BY <1>2, <2>1, <3>1, <4>1 DEF CaseInv, FailedGone
      <4> QED BY <1>4, <1>5, <3>1, <3>4, <4>2
    <3> QED BY <3>2, <3>3, <3>4
  <2> QED BY <1>5, <2>1 DEF FailedGone
<1>11. CitedIsLatest(c)'
  <2>1. \A e \in old.evidence : latest[evidence[e].source.stable] = e
    BY <1>1 DEF CaseInv, CitedIsLatest
  <2>2. CurrentRevision(c)'.evidence \subseteq old.evidence
    BY <1>4, <1>5 DEF CurrentRevision
  <2> QED BY <1>1, <2>1, <2>2 DEF CitedIsLatest
<1>12. IndependentFor(c)'
  <2>1. \A k \in 1..n : Independent(revisions[c][k].evidence)
    BY <1>2 DEF CaseInv, IndependentFor
  <2>2. Cardinality(r.evidence) <= EvidenceLimit
    <3>1. r.evidence \subseteq old.evidence
      BY <1>4
    <3>2. /\ Cardinality(r.evidence) <= Cardinality(old.evidence)
          /\ IsFiniteSet(r.evidence)
      BY <1>2, <3>1, FS_Subset
    <3>3. Cardinality(r.evidence) \in Nat /\ Cardinality(old.evidence) \in Nat
      BY <1>2, <3>2, FS_CardinalityType
    <3>4. Cardinality(old.evidence) <= EvidenceLimit
      BY <1>2, <2>1 DEF Independent
    <3> QED BY <3>2, <3>3, <3>4, PolicyAssumption
  <2>3. Independent(old.evidence)
    BY <1>2, <2>1
  <2>4. ASSUME NEW k \in 1..(n + 1)
        PROVE  /\ Cardinality(revisions'[c][k].evidence) <= EvidenceLimit
               /\ \A i, j \in revisions'[c][k].evidence :
                    i # j => /\ evidence'[i].source.stable # evidence'[j].source.stable
                             /\ evidence'[i].source.digest # evidence'[j].source.digest
                             /\ evidence'[i].source.group = evidence'[j].source.group
    <3>1. CASE k = n + 1
      <4>1. revisions'[c][k] = r /\ r.evidence \subseteq old.evidence
        BY <1>4, <1>5, <3>1
      <4> QED BY <1>1, <2>2, <2>3, <4>1 DEF Independent
    <3>2. CASE k # n + 1
      <4>1. k \in 1..n
        BY <1>7, <3>2
      <4>2. revisions'[c][k] = revisions[c][k] /\ Independent(revisions[c][k].evidence)
        BY <1>5, <2>1, <4>1
      <4> QED BY <1>1, <4>2 DEF Independent
    <3> QED BY <3>1, <3>2
  <2> QED BY <1>5, <2>4 DEF IndependentFor, Independent
<1>13. CarriedFor(c)'
  <2>1. ASSUME NEW k \in 1..n
        PROVE  LET past == revisions'[c][k]
               IN  /\ past.evidence \ Dropped(past) \subseteq revisions'[c][k + 1].evidence
                   /\ Dropped(past) \cap revisions'[c][k + 1].evidence = {}
    <3>1. CASE k = n
      BY <1>2, <1>4, <1>5, <2>1, <3>1
    <3>2. CASE k # n
      <4>1. k \in 1..(n - 1) /\ k + 1 \in 1..n
        BY <1>2, <2>1, <3>2
      <4> QED BY <1>5, <1>6, <2>1, <4>1 DEF CaseInv, CarriedFor
    <3> QED BY <3>1, <3>2
  <2>2. (n + 1) - 1 = n
    BY <1>2
  <2> QED BY <1>5, <2>1, <2>2 DEF CarriedFor, Dropped
<1> QED BY <1>8, <1>9, <1>10, <1>11, <1>12, <1>13 DEF CaseInv

-----------------------------------------------------------------------------
(* Every step, for every case.                                             *)

\* The finding on the current revision of c, which was not reviewed, becomes r's.
Rewrites(c, r) ==
    /\ cases[c].status \in {"OPEN", "REPAIR_REQUIRED"}
    /\ r.evidence = CurrentRevision(c).evidence
    /\ r.failed \in r.evidence \cup {0}
    /\ cases'[c].status = r.status
    /\ revisions' = [revisions EXCEPT ![c][Current(c)] = r]
    /\ \A d \in Case : d # c => cases'[d] = cases[d]
    /\ UNCHANGED <<evidence, latest>>

LEMMA ReviewRewrites ==
    ASSUME TypeOK, NEW c \in Case, CaseInv(c), NEW delivery \in Deliveries,
           ResolveCase(c, delivery)
    PROVE  \E r \in Revision : Rewrites(c, r)
<1> DEFINE old == CurrentRevision(c)
<1>1. /\ cases[c].status = "OPEN" /\ cases \in [Case -> CaseRecord] /\ cases[c] \in CaseRecord
      /\ UNCHANGED <<evidence, latest>>
  BY DEF ResolveCase, Reviewable, TypeOK
<1>2. old \in Revision /\ old.evidence \subseteq Nat
  BY <1>1, CurrentType DEF Revision
<1>3. old.failed \in old.evidence \cup {0}
  BY <1>1, CurrentType DEF CaseInv, FailedCited, CurrentRevision
<1>4. ASSUME NEW code, NEW e \in old.evidence \cup {0}, RequireRepair(c, code, e)
      PROVE  \E r \in Revision : Rewrites(c, r)
  <2> DEFINE r == [old EXCEPT !.status = "REPAIR_REQUIRED", !.failed = e]
  <2>1. /\ r \in Revision /\ r.evidence = old.evidence /\ r.failed = e
        /\ r.status = "REPAIR_REQUIRED"
    <3>1. e \in Nat
      BY <1>2, <1>4
    <3> QED BY <1>2, <3>1 DEF Revision
  <2>2. revisions' = [revisions EXCEPT ![c][Current(c)] = r]
    BY <1>4 DEF RequireRepair, CurrentRevision
  <2>3. cases'[c].status = "REPAIR_REQUIRED" /\ \A d \in Case : d # c => cases'[d] = cases[d]
    BY <1>1, <1>4 DEF RequireRepair, CaseRecord
  <2> HIDE DEF r
  <2> QED BY <1>1, <1>4, <2>1, <2>2, <2>3 DEF Rewrites
<1>5. ASSUME NEW rule, RecordVerdict(c, rule, delivery)
      PROVE  \E r \in Revision : Rewrites(c, r)
  <2> DEFINE r == [old EXCEPT !.status = "REVIEWED"]
  <2>1. /\ r \in Revision /\ r.evidence = old.evidence /\ r.failed = old.failed
        /\ r.status = "REVIEWED"
    BY <1>2 DEF Revision
  <2>2. revisions' = [revisions EXCEPT ![c][Current(c)] = r]
    BY <1>5 DEF RecordVerdict, CurrentRevision
  <2>3. cases'[c].status = "REVIEWED" /\ \A d \in Case : d # c => cases'[d] = cases[d]
    BY <1>1, <1>5 DEF RecordVerdict, CaseRecord
  <2> HIDE DEF r
  <2> QED BY <1>1, <1>3, <2>1, <2>2, <2>3 DEF Rewrites
<1>6. CASE \E e \in Stale(c) : RequireRepair(c, "EVIDENCE_STALE", e)
  BY <1>4, <1>6 DEF Stale
<1>7. CASE \E e \in old.evidence, code \in SourceFailure : RequireRepair(c, code, e)
  BY <1>4, <1>7
<1>8. CASE \E code \in DeliveryFailure \cup ResponseFailure : RequireRepair(c, code, 0)
  BY <1>4, <1>8
<1>9. CASE \E rule \in ReviewRule : RecordVerdict(c, rule, delivery)
  BY <1>5, <1>9
<1> QED BY <1>6, <1>7, <1>8, <1>9 DEF ResolveCase

LEMMA RetryRewrites ==
    ASSUME TypeOK, NEW c \in Case, NEW who \in Account, RetryCurrentRevision(c, who)
    PROVE  \E r \in Revision : Rewrites(c, r)
<1> DEFINE old == CurrentRevision(c)
           r == [old EXCEPT !.status = "OPEN", !.failed = 0]
<1>1. /\ cases[c].status = "REPAIR_REQUIRED" /\ cases \in [Case -> CaseRecord]
      /\ cases[c] \in CaseRecord /\ UNCHANGED <<evidence, latest>>
  BY DEF RetryCurrentRevision, TypeOK
<1>2. old \in Revision
  BY <1>1, CurrentType
<1>3. r \in Revision /\ r.evidence = old.evidence /\ r.failed = 0 /\ r.status = "OPEN"
  BY <1>2 DEF Revision
<1>4. revisions' = [revisions EXCEPT ![c][Current(c)] = r]
  BY DEF RetryCurrentRevision, CurrentRevision
<1>5. cases'[c].status = "OPEN" /\ \A d \in Case : d # c => cases'[d] = cases[d]
  BY <1>1 DEF RetryCurrentRevision, CaseRecord
<1> HIDE DEF r
<1> QED BY <1>1, <1>3, <1>4, <1>5 DEF Rewrites

\* A rewritten revision, record by record.
LEMMA RewriteShape ==
    ASSUME TypeOK, NEW c \in Case, NEW r \in Revision, Rewrites(c, r)
    PROVE  /\ revisions[c] # <<>> /\ revisions'[c] \in Seq(Revision)
           /\ \A d \in Case : d # c => revisions'[d] = revisions[d]
           /\ Len(revisions'[c]) = Len(revisions[c])
           /\ \A k \in DOMAIN revisions'[c] :
                 revisions'[c][k] = IF k = Current(c) THEN r ELSE revisions[c][k]
<1>1. revisions \in [Case -> Seq(Revision)] /\ revisions[c] # <<>>
  BY CurrentType DEF Rewrites, TypeOK
<1>2. revisions' = [revisions EXCEPT ![c][Current(c)] = r]
  BY DEF Rewrites
<1>3. \A d \in Case : d # c => revisions'[d] = revisions[d]
  BY <1>1, <1>2
<1> QED BY <1>1, <1>2, <1>3, ReviseCurrent

\* Recorded evidence never changes.
LEMMA EvidenceExtends ==
    ASSUME TypeOK, [Next]_vars
    PROVE  \A e \in DOMAIN evidence : e \in DOMAIN evidence' /\ evidence'[e] = evidence[e]
<1>1. CASE \E c \in Case, who \in Account, source \in Source,
              v \in 1..MaxEvidenceVersion, f \in FreshUntil :
                RegisterEvidence(c, who, source, v, f)
  <2>1. evidence \in Seq(Evidence) /\ \E record : evidence' = Append(evidence, record)
    BY <1>1 DEF RegisterEvidence, TypeOK
  <2> QED BY <2>1
<1>2. CASE evidence' = evidence
  BY <1>2
<1> QED BY <1>1, <1>2, EvidenceKept

LEMMA NextCaseInv ==
    ASSUME TypeOK, \A c \in Case : CaseInv(c), Placed, [Next]_vars
    PROVE  \A c \in Case : CaseInv(c)'
<1>0. \A e \in DOMAIN evidence : evidence'[e] = evidence[e]
  BY EvidenceExtends
<1>1. CASE Untouched
  BY <1>0, <1>1, OtherCase DEF Untouched
<1>2. ASSUME NEW c \in Case, NEW context \in Contexts, InitializeCase(c, context), NEW d \in Case
      PROVE  CaseInv(d)'
  <2>1. CASE d = c
    <3>1. cases'[c].status = "OPEN" /\ revisions'[c] = <<NewRevision({})>>
      BY <1>2 DEF InitializeCase, TypeOK, NoCase
    <3> QED BY <1>2, <2>1, <3>1, OpenCase DEF InitializeCase
  <2>2. CASE d # c
    <3>1. cases'[d] = cases[d] /\ revisions'[d] = revisions[d] /\ latest' = latest
      BY <1>2, <2>2 DEF InitializeCase, TypeOK
    <3> QED BY <1>0, <3>1, OtherCase
  <2> QED BY <2>1, <2>2
<1>3. ASSUME NEW c \in Case, NEW who \in Account, NEW source \in Source,
             NEW v \in 1..MaxEvidenceVersion, NEW f \in FreshUntil,
             RegisterEvidence(c, who, source, v, f), NEW d \in Case
      PROVE  CaseInv(d)'
  <2>1. CASE d = c
    BY <1>3, <2>1, CiteCase
  <2>2. CASE d # c
    <3>1. cases'[d] = cases[d] /\ revisions'[d] = revisions[d] /\ cases[c].status = "OPEN"
      BY <1>3, <2>2 DEF RegisterEvidence, TypeOK
    <3>2. ASSUME revisions[d] # <<>>, NEW e \in CurrentRevision(d).evidence
          PROVE  latest'[evidence[e].source.stable] = latest[evidence[e].source.stable]
      <4>1. evidence[e].source.stable # source.stable
        BY <1>3, <3>1, <3>2, NewStableId DEF RegisterEvidence
      <4>2. latest' = [latest EXCEPT ![source.stable] = Len(evidence) + 1]
        BY <1>3 DEF RegisterEvidence
      <4>3. latest \in [StableId -> 0..Len(evidence)]
        BY DEF TypeOK
      <4>4. evidence[e].source.stable \in StableId
        <5>1. Current(d) \in DOMAIN revisions[d]
          BY <3>2, EmptySeq DEF TypeOK, Current
        <5>2. e \in 1..Len(evidence) /\ evidence \in Seq(Evidence)
          BY <3>2, <5>1, CitedType DEF CurrentRevision, TypeOK
        <5>3. evidence[e] \in Evidence
          BY <5>2, ElementOfSeq
        <5> QED BY <5>3 DEF Evidence, StableId
      <4> QED BY <4>1, <4>2, <4>3, <4>4
    <3> QED BY <1>0, <3>1, <3>2, OtherCase
  <2> QED BY <2>1, <2>2
<1>4. ASSUME NEW c \in Case, NEW r \in Revision, Rewrites(c, r), NEW d \in Case
      PROVE  CaseInv(d)'
  <2>1. /\ revisions[c] # <<>> /\ revisions'[c] \in Seq(Revision)
        /\ \A b \in Case : b # c => revisions'[b] = revisions[b]
        /\ Len(revisions'[c]) = Len(revisions[c])
        /\ \A k \in DOMAIN revisions'[c] :
              revisions'[c][k] = IF k = Current(c) THEN r ELSE revisions[c][k]
    BY <1>4, RewriteShape
  <2>2. CASE d = c
    BY <1>4, <2>1, <2>2, ReviewCase DEF Rewrites
  <2>3. CASE d # c
    <3>1. revisions'[d] = revisions[d] /\ cases'[d] = cases[d] /\ latest' = latest
      BY <1>4, <2>1, <2>3 DEF Rewrites
    <3> QED BY <1>0, <3>1, OtherCase
  <2> QED BY <2>2, <2>3
<1>5. ASSUME NEW c \in Case, NEW delivery \in Deliveries, ResolveCase(c, delivery), NEW d \in Case
      PROVE  CaseInv(d)'
  BY <1>4, <1>5, ReviewRewrites
<1>6. ASSUME NEW c \in Case, NEW who \in Account, RetryCurrentRevision(c, who), NEW d \in Case
      PROVE  CaseInv(d)'
  BY <1>4, <1>6, RetryRewrites
<1>7. ASSUME NEW c \in Case, NEW who \in Account, NEW response \in BOOLEAN,
             BeginRevision(c, who, response), NEW d \in Case
      PROVE  CaseInv(d)'
  <2>1. CASE d = c
    BY <1>7, <2>1, ReviseCase
  <2>2. CASE d # c
    <3>1. cases'[d] = cases[d] /\ revisions'[d] = revisions[d] /\ latest' = latest
      BY <1>7, <2>2 DEF BeginRevision, TypeOK
    <3> QED BY <1>0, <3>1, OtherCase
  <2> QED BY <2>1, <2>2
<1> QED BY <1>1, <1>2, <1>3, <1>5, <1>6, <1>7, StepShape

\* No step removes a revision, and none changes a reviewed one.
LEMMA ReviewedIsKept ==
    ASSUME TypeOK, \A c \in Case : CaseInv(c), [Next]_vars, NEW d \in Case,
           NEW k \in DOMAIN revisions[d]
    PROVE  /\ k \in DOMAIN revisions'[d]
           /\ revisions[d][k].status = "REVIEWED" => revisions'[d][k] = revisions[d][k]
<1> DEFINE Kept == /\ k \in DOMAIN revisions'[d]
                   /\ revisions[d][k].status = "REVIEWED" => revisions'[d][k] = revisions[d][k]
<1>0. revisions \in [Case -> Seq(Revision)] /\ k \in 1..Len(revisions[d])
  BY DEF TypeOK
<1>1. CASE revisions'[d] = revisions[d]
  BY <1>1
<1>2. ASSUME NEW c \in Case, NEW context \in Contexts, InitializeCase(c, context)
      PROVE  Kept
  <2>1. revisions[c] = <<>>
    BY <1>2 DEF InitializeCase, TypeOK
  <2>2. d # c
    BY <1>0, <2>1
  <2> QED BY <1>0, <1>2, <2>2 DEF InitializeCase
<1>3. ASSUME NEW c \in Case, NEW r, CurrentRevision(c).status # "REVIEWED", revisions[c] # <<>>,
             \A b \in Case : b # c => revisions'[b] = revisions[b],
             revisions'[c] \in Seq(Revision), Len(revisions'[c]) = Len(revisions[c]),
             \A j \in DOMAIN revisions'[c] :
                revisions'[c][j] = IF j = Current(c) THEN r ELSE revisions[c][j]
      PROVE  Kept
  <2>1. CASE d # c
    BY <1>3, <2>1
  <2>2. CASE d = c
    <3>1. DOMAIN revisions'[c] = 1..Len(revisions[c])
      BY <1>3
    <3> QED BY <1>0, <1>3, <2>2, <3>1 DEF CurrentRevision
  <2> QED BY <2>1, <2>2
<1>4. ASSUME NEW c \in Case, NEW who \in Account, NEW source \in Source,
             NEW v \in 1..MaxEvidenceVersion, NEW f \in FreshUntil,
             RegisterEvidence(c, who, source, v, f)
      PROVE  Kept
  <2> DEFINE id == Len(evidence) + 1
             r == [CurrentRevision(c) EXCEPT !.evidence = @ \cup {id}]
  <2>1. cases[c].status = "OPEN" /\ revisions' = [revisions EXCEPT ![c][Current(c)] = r]
    BY <1>4 DEF RegisterEvidence, CurrentRevision
  <2>2. revisions[c] # <<>> /\ CurrentRevision(c) \in Revision
    BY <2>1, CurrentType
  <2>3. r \in Revision
    <3>1. Len(evidence) \in Nat
      BY DEF TypeOK
    <3>2. CurrentRevision(c).evidence \cup {id} \in SUBSET Nat
      BY <2>2, <3>1 DEF Revision
    <3> QED BY <2>2, <3>2 DEF Revision
  <2> HIDE DEF r
  <2>4. CurrentRevision(c).status = "OPEN"
    BY <2>1 DEF CaseInv, StatusOf, Reviewing
  <2>5. \A b \in Case : b # c => revisions'[b] = revisions[b]
    BY <1>0, <2>1
  <2>6. /\ revisions' \in [Case -> Seq(Revision)]
        /\ Len(revisions'[c]) = Len(revisions[c])
        /\ \A j \in DOMAIN revisions'[c] :
              revisions'[c][j] = IF j = Current(c) THEN r ELSE revisions[c][j]
    BY <1>0, <2>1, <2>2, <2>3, ReviseCurrent
  <2>7. revisions'[c] \in Seq(Revision) /\ CurrentRevision(c).status # "REVIEWED"
    BY <2>4, <2>6
  <2> HIDE DEF Kept
  <2> QED BY <1>3, <2>2, <2>5, <2>6, <2>7
<1>5. ASSUME NEW c \in Case, NEW r \in Revision, Rewrites(c, r)
      PROVE  Kept
  <2>1. CurrentRevision(c).status # "REVIEWED"
    BY <1>5 DEF CaseInv, StatusOf, Reviewing, Rewrites
  <2> HIDE DEF Kept
  <2> QED BY <1>3, <1>5, <2>1, RewriteShape
<1>6. ASSUME NEW c \in Case, NEW delivery \in Deliveries, ResolveCase(c, delivery)
      PROVE  Kept
  BY <1>5, <1>6, ReviewRewrites
<1>7. ASSUME NEW c \in Case, NEW who \in Account, RetryCurrentRevision(c, who)
      PROVE  Kept
  BY <1>5, <1>7, RetryRewrites
<1>8. ASSUME NEW c \in Case, NEW who \in Account, NEW response \in BOOLEAN,
             BeginRevision(c, who, response)
      PROVE  Kept
  <2>1. CASE d # c
    BY <1>0, <1>8, <2>1 DEF BeginRevision
  <2>2. CASE d = c
    <3>1. revisions'[c] = Append(revisions[c], NewRevision(Carried(c)))
      BY <1>0, <1>8 DEF BeginRevision
    <3> QED BY <1>0, <2>2, <3>1
  <2> QED BY <2>1, <2>2
<1> QED BY <1>1, <1>2, <1>4, <1>6, <1>7, <1>8, StepShape DEF Untouched

LEMMA NextPlaced ==
    ASSUME TypeOK, \A c \in Case : CaseInv(c), Placed, [Next]_vars
    PROVE  Placed'
<1>0. evidence \in Seq(Evidence) /\ DOMAIN evidence = 1..Len(evidence) /\ Len(evidence) \in Nat
  BY DEF TypeOK
<1>1. ASSUME NEW e \in DOMAIN evidence
      PROVE  evidence'[e].revision \in DOMAIN revisions'[evidence'[e].case]
  <2>1. evidence[e].case \in Case
    <3>1. evidence[e] \in Evidence
      BY <1>0, <1>1, ElementOfSeq
    <3> QED BY <3>1 DEF Evidence
  <2>2. evidence'[e] = evidence[e]
    BY <1>1, EvidenceExtends
  <2>3. evidence[e].revision \in DOMAIN revisions[evidence[e].case]
    BY <1>1 DEF Placed
  <2> QED BY <2>1, <2>2, <2>3, ReviewedIsKept
<1>2. CASE evidence' = evidence
  BY <1>1, <1>2 DEF Placed
<1>3. ASSUME NEW c \in Case, NEW who \in Account, NEW source \in Source,
             NEW v \in 1..MaxEvidenceVersion, NEW f \in FreshUntil,
             RegisterEvidence(c, who, source, v, f)
      PROVE  Placed'
  <2> DEFINE record == [case |-> c, revision |-> Current(c), issuer |-> who,
                        source |-> source, version |-> v, freshUntil |-> f]
  <2>1. evidence' = Append(evidence, record) /\ cases[c].status # "NONE"
    BY <1>3 DEF RegisterEvidence
  <2>2. record.case = c /\ record.revision = Current(c)
    OBVIOUS
  <2> HIDE DEF record
  <2>3. /\ DOMAIN evidence' = 1..(Len(evidence) + 1)
        /\ evidence'[Len(evidence) + 1] = record
    BY <1>0, <2>1
  <2>4. Current(c) \in DOMAIN revisions'[c]
    BY <2>1, CurrentType, ReviewedIsKept
  <2>5. ASSUME NEW e \in DOMAIN evidence'
        PROVE  evidence'[e].revision \in DOMAIN revisions'[evidence'[e].case]
    <3>1. CASE e = Len(evidence) + 1
      BY <2>2, <2>3, <2>4, <3>1
    <3>2. CASE e # Len(evidence) + 1
      BY <1>0, <1>1, <2>3, <3>2
    <3> QED BY <3>1, <3>2
  <2> QED BY <2>5 DEF Placed
<1> QED BY <1>2, <1>3, EvidenceKept

-----------------------------------------------------------------------------
(* What a verdict rests on, and the window after it.                       *)

\* VerdictBasis of one verdict, with the place of its revision.
BasisOf(v) ==
    LET revision == revisions[verdicts[v].case][verdicts[v].revision]
        cited == {evidence[e] : e \in revision.evidence}
    IN  /\ verdicts[v].revision \in DOMAIN revisions[verdicts[v].case]
        /\ revision.status = "REVIEWED"
        /\ Cardinality({e.issuer : e \in cited}) >= MinIssuers
        /\ Cardinality({e.source.publisher : e \in cited}) >= MinPublishers
        /\ \A e \in cited : e.freshUntil >= verdicts[v].at

\* A recorded verdict keeps what it rests on: its revision is never changed.
LEMMA BasisKept ==
    ASSUME TypeOK, \A c \in Case : CaseInv(c), [Next]_vars,
           NEW v \in DOMAIN verdicts, BasisOf(v)
    PROVE  BasisOf(v)'
<1> DEFINE c == verdicts[v].case
           k == verdicts[v].revision
           S == revisions[c][k].evidence
<1>1. c \in Case /\ verdicts'[v] = verdicts[v]
  <2>1. verdicts \in Seq(Verdict) /\ v \in 1..Len(verdicts)
    BY DEF TypeOK
  <2>2. verdicts[v] \in Verdict
    BY <2>1, ElementOfSeq
  <2> QED BY <2>1, <2>2, VerdictsKept DEF Verdict
<1>2. k \in DOMAIN revisions[c] /\ revisions[c][k].status = "REVIEWED"
  BY DEF BasisOf
<1>3. k \in DOMAIN revisions'[c] /\ revisions'[c][k] = revisions[c][k]
  <2> HIDE DEF c, k
  <2> QED BY <1>1, <1>2, ReviewedIsKept
<1>4. \A e \in S : evidence'[e] = evidence[e]
  <2>1. S \subseteq DOMAIN evidence
    BY <1>1, <1>2 DEF TypeOK
  <2> QED BY <2>1, EvidenceExtends
<1>5. {evidence'[e] : e \in S} = {evidence[e] : e \in S}
  <2> HIDE DEF S
  <2> QED BY <1>4
<1>6. /\ Cardinality({e.issuer : e \in {evidence[x] : x \in S}}) >= MinIssuers
      /\ Cardinality({e.source.publisher : e \in {evidence[x] : x \in S}}) >= MinPublishers
      /\ \A e \in {evidence[x] : x \in S} : e.freshUntil >= verdicts[v].at
  BY DEF BasisOf
<1>7. /\ revisions'[verdicts'[v].case][verdicts'[v].revision] = revisions[c][k]
      /\ verdicts'[v].revision \in DOMAIN revisions'[verdicts'[v].case]
      /\ verdicts'[v].at = verdicts[v].at
  BY <1>1, <1>3
<1> HIDE DEF c, k
<1> QED BY <1>2, <1>5, <1>6, <1>7 DEF BasisOf

\* A new verdict rests on a revision that was reviewable and not stale.
LEMMA BasisRecorded ==
    ASSUME TypeOK, NEW c \in Case, NEW delivery \in Deliveries, ResolveCase(c, delivery),
           NEW rule, RecordVerdict(c, rule, delivery), Stale(c) = {},
           NEW v, v = Len(verdicts) + 1
    PROVE  BasisOf(v)'
<1> DEFINE n == Current(c)
           r == [CurrentRevision(c) EXCEPT !.status = "REVIEWED"]
           S == CurrentRevision(c).evidence
           w == [case |-> c, revision |-> n, rule |-> rule, delivery |-> delivery, at |-> now]
<1>1. /\ cases[c].status = "OPEN" /\ evidence' = evidence
      /\ Cardinality(Issuers(c)) >= MinIssuers /\ Cardinality(Publishers(c)) >= MinPublishers
  BY DEF ResolveCase, Reviewable
<1>2. /\ CurrentRevision(c) \in Revision /\ revisions[c] # <<>>
      /\ n \in DOMAIN revisions[c] /\ S \subseteq DOMAIN evidence
  BY <1>1, CurrentType
<1>3. r \in Revision /\ r.evidence = S /\ r.status = "REVIEWED"
  BY <1>2 DEF Revision
<1>4. /\ revisions' = [revisions EXCEPT ![c][n] = r]
      /\ verdicts' = Append(verdicts, w)
  BY DEF RecordVerdict, CurrentRevision
<1>5. n \in DOMAIN revisions'[c] /\ revisions'[c][n] = r
  <2>1. revisions \in [Case -> Seq(Revision)]
    BY DEF TypeOK
  <2> HIDE DEF r
  <2>2. /\ revisions' \in [Case -> Seq(Revision)] /\ Len(revisions'[c]) = Len(revisions[c])
        /\ \A k \in DOMAIN revisions'[c] :
              revisions'[c][k] = IF k = Current(c) THEN r ELSE revisions[c][k]
    BY <1>2, <1>3, <1>4, <2>1, ReviseCurrent
  <2>3. DOMAIN revisions'[c] = 1..Len(revisions'[c]) /\ DOMAIN revisions[c] = 1..Len(revisions[c])
    BY <2>1, <2>2
  <2> QED BY <1>2, <2>2, <2>3
<1>6. verdicts'[v] = w /\ w.case = c /\ w.revision = n /\ w.at = now
  BY <1>4 DEF TypeOK
<1>7. /\ {e.issuer : e \in {evidence[x] : x \in S}} = Issuers(c)
      /\ {e.source.publisher : e \in {evidence[x] : x \in S}} = Publishers(c)
  BY DEF Issuers, Publishers
<1>8. \A e \in {evidence[x] : x \in S} : e.freshUntil >= now
  <2>1. ASSUME NEW x \in S
        PROVE  evidence[x].freshUntil >= now
    <3>1. ~(evidence[x].freshUntil < now)
      BY <2>1 DEF Stale
    <3>2. evidence[x] \in Evidence /\ now \in Nat
      BY <1>2, <2>1, ElementOfSeq DEF TypeOK
    <3> QED BY <3>1, <3>2 DEF Evidence
  <2> QED BY <2>1
<1> HIDE DEF r, w, n
<1>9. /\ revisions'[verdicts'[v].case][verdicts'[v].revision] = r
      /\ verdicts'[v].revision \in DOMAIN revisions'[verdicts'[v].case]
      /\ verdicts'[v].at = now
  BY <1>5, <1>6
<1> QED BY ZenonT(30), <1>1, <1>3, <1>7, <1>8, <1>9 DEF BasisOf

LEMMA NextBasis ==
    ASSUME TypeOK, \A c \in Case : CaseInv(c), [Next]_vars, \A v \in DOMAIN verdicts : BasisOf(v)
    PROVE  \A v \in DOMAIN verdicts' : BasisOf(v)'
<1>0. verdicts \in Seq(Verdict) /\ DOMAIN verdicts = 1..Len(verdicts) /\ Len(verdicts) \in Nat
  BY DEF TypeOK
<1>1. \A v \in DOMAIN verdicts : BasisOf(v)'
  BY BasisKept
<1>2. CASE verdicts' = verdicts
  BY <1>1, <1>2
<1>3. ASSUME NEW c \in Case, NEW delivery \in Deliveries, ResolveCase(c, delivery),
             verdicts' # verdicts
      PROVE  \A v \in DOMAIN verdicts' : BasisOf(v)'
  <2>1. PICK rule \in ReviewRule : RecordVerdict(c, rule, delivery) /\ Stale(c) = {}
    BY <1>3 DEF ResolveCase, RequireRepair
  <2>2. DOMAIN verdicts' = 1..(Len(verdicts) + 1)
    BY <1>0, <2>1 DEF RecordVerdict
  <2>3. \A v \in 1..(Len(verdicts) + 1) : v = Len(verdicts) + 1 \/ v \in DOMAIN verdicts
    BY <1>0
  <2>4. \A v : v = Len(verdicts) + 1 => BasisOf(v)'
    BY <1>3, <2>1, BasisRecorded
  <2> QED BY <1>1, <2>2, <2>3, <2>4
<1>4. ASSUME \A c \in Case, delivery \in Deliveries : ~ResolveCase(c, delivery)
      PROVE  verdicts' = verdicts
  BY ZenonT(30), <1>4, StepShape
  DEF Untouched, InitializeCase, RegisterEvidence, RetryCurrentRevision, BeginRevision
<1> QED BY <1>2, <1>3, <1>4

\* The settlement time of a reviewed case is set with its verdict and moves no more.
LEMMA NextTimed ==
    ASSUME IInv, \A c \in Case : Timed(c), [Next]_vars
    PROVE  \A c \in Case : Timed(c)'
<1>0. TypeOK /\ cases \in [Case -> CaseRecord] /\ verdicts \in Seq(Verdict)
  BY DEF IInv, TypeOK
<1>1. ASSUME NEW d \in Case, cases'[d].status = "REVIEWED" => cases[d].status = "REVIEWED",
             cases'[d].verdict = cases[d].verdict,
             cases'[d].settlementEarliestAt = cases[d].settlementEarliestAt,
             cases'[d].recoveryDeadline = cases[d].recoveryDeadline
      PROVE  Timed(d)'
  <2>1. ASSUME cases[d].status = "REVIEWED"
        PROVE  verdicts'[cases[d].verdict] = verdicts[cases[d].verdict]
    <3>1. VerdictIsCurrentFor(d)
      BY DEF IInv, VerdictIsCurrent, VerdictIsCurrentFor
    <3>2. cases[d].verdict \in 1..Len(verdicts)
      BY <1>0, <2>1, <3>1, VerdictExists
    <3> QED BY <1>0, <3>2, VerdictsKept
  <2> QED BY <1>1, <2>1 DEF Timed
<1>2. ASSUME NEW d \in Case, cases'[d] = cases[d]
      PROVE  Timed(d)'
  BY <1>1, <1>2
<1>3. CASE Untouched
  BY <1>1, <1>3 DEF Untouched
<1>4. ASSUME NEW c \in Case, NEW context \in Contexts, InitializeCase(c, context), NEW d \in Case
      PROVE  Timed(d)'
  <2>1. CASE d = c
    <3>1. cases'[c].status = "OPEN"
      BY <1>0, <1>4 DEF InitializeCase, NoCase
    <3> QED BY <2>1, <3>1 DEF Timed
  <2>2. CASE d # c
    BY <1>0, <1>2, <1>4, <2>2 DEF InitializeCase
  <2> QED BY <2>1, <2>2
<1>5. ASSUME NEW c \in Case, NEW who \in Account, NEW source \in Source,
             NEW v \in 1..MaxEvidenceVersion, NEW f \in FreshUntil,
             RegisterEvidence(c, who, source, v, f), NEW d \in Case
      PROVE  Timed(d)'
  BY <1>2, <1>5 DEF RegisterEvidence
<1>6. ASSUME NEW c \in Case, NEW delivery \in Deliveries, ResolveCase(c, delivery), NEW d \in Case
      PROVE  Timed(d)'
  <2>1. ASSUME NEW code, NEW e, RequireRepair(c, code, e)
        PROVE  Timed(d)'
    <3>1. CASE d = c
      <4>1. cases'[c].status = "REPAIR_REQUIRED"
        BY <1>0, <2>1 DEF RequireRepair, CaseRecord
      <4> QED BY <3>1, <4>1 DEF Timed
    <3>2. CASE d # c
      BY <1>0, <1>2, <2>1, <3>2 DEF RequireRepair
    <3> QED BY <3>1, <3>2
  <2>2. ASSUME NEW rule, RecordVerdict(c, rule, delivery)
        PROVE  Timed(d)'
    <3>1. CASE d = c
      <4>1. /\ cases'[c].settlementEarliestAt =
                   Least(now + ResponseWindow, cases[c].recoveryDeadline)
            /\ cases'[c].verdict = Len(verdicts) + 1
            /\ cases'[c].recoveryDeadline = cases[c].recoveryDeadline
        BY <1>0, <2>2 DEF RecordVerdict, CaseRecord
      <4>2. verdicts'[Len(verdicts) + 1].at = now
        BY <1>0, <2>2 DEF RecordVerdict
      <4> QED BY <3>1, <4>1, <4>2 DEF Timed
    <3>2. CASE d # c
      BY <1>0, <1>2, <2>2, <3>2 DEF RecordVerdict
    <3> QED BY <3>1, <3>2
  <2>3. \/ \E code, e : RequireRepair(c, code, e)
        \/ \E rule : RecordVerdict(c, rule, delivery)
    BY <1>6 DEF ResolveCase
  <2> QED BY <2>1, <2>2, <2>3
<1>7. ASSUME NEW c \in Case, NEW who \in Account, NEW d \in Case,
             \/ RetryCurrentRevision(c, who)
             \/ \E response \in BOOLEAN : BeginRevision(c, who, response)
      PROVE  Timed(d)'
  <2>1. CASE d = c
    <3>1. CASE RetryCurrentRevision(c, who)
      <4>1. cases'[c].status = "OPEN"
        BY <1>0, <3>1 DEF RetryCurrentRevision, CaseRecord
      <4> QED BY <2>1, <4>1 DEF Timed
    <3>2. ASSUME NEW response \in BOOLEAN, BeginRevision(c, who, response)
          PROVE  Timed(d)'
      <4>1. cases'[c].status = "OPEN"
        BY <1>0, <3>2 DEF BeginRevision, CaseRecord
      <4> QED BY <2>1, <4>1 DEF Timed
    <3> QED BY <1>7, <3>1, <3>2
  <2>2. CASE d # c
    BY <1>0, <1>2, <1>7, <2>2 DEF RetryCurrentRevision, BeginRevision
  <2> QED BY <2>1, <2>2
<1> QED BY <1>0, <1>3, <1>4, <1>5, <1>6, <1>7, StepShape

\* Only the first call of queue_settlement queues a case.
LEMMA NewlyQueued ==
    ASSUME TypeOK, [Next]_vars, NEW d \in Case, cases'[d].queued, ~cases[d].queued
    PROVE  FirstQueue(d)
<1>0. cases \in [Case -> CaseRecord]
  BY DEF TypeOK
<1>1. ASSUME NEW c \in Case, NEW expected \in DOMAIN verdicts, QueueSettlement(c, expected)
      PROVE  FirstQueue(d)
  BY <1>0, <1>1 DEF QueueSettlement
<1>2. ASSUME NEW c \in Case, NEW delivery \in Deliveries, ResolveCase(c, delivery)
      PROVE  FALSE
  <2>1. ASSUME NEW code, NEW e, RequireRepair(c, code, e)
        PROVE  FALSE
    BY <1>0, <2>1 DEF RequireRepair, CaseRecord
  <2>2. ASSUME NEW rule, RecordVerdict(c, rule, delivery)
        PROVE  FALSE
    BY <1>0, <2>2 DEF RecordVerdict, CaseRecord
  <2> QED BY <1>2, <2>1, <2>2 DEF ResolveCase
<1>3. ASSUME NEW c \in Case, NEW who \in Account, NEW response \in BOOLEAN,
             \/ SubmitResponse(c, who)
             \/ MarkRevisionReady(c, who)
             \/ RetryCurrentRevision(c, who)
             \/ BeginRevision(c, who, response)
      PROVE  FALSE
  <2>1. CASE SubmitResponse(c, who) \/ MarkRevisionReady(c, who)
    BY <1>0, <2>1 DEF SubmitResponse, MarkRevisionReady, CaseRecord
  <2>2. CASE RetryCurrentRevision(c, who)
    BY <1>0, <2>2 DEF RetryCurrentRevision, CaseRecord
  <2>3. CASE BeginRevision(c, who, response)
    BY <1>0, <2>3 DEF BeginRevision, CaseRecord
  <2> QED BY <1>3, <2>1, <2>2, <2>3
<1>4. ASSUME NEW c \in Case, NEW who \in Account, NEW source \in Source,
             NEW v \in 1..MaxEvidenceVersion, NEW f \in FreshUntil,
             RegisterEvidence(c, who, source, v, f)
      PROVE  FALSE
  BY <1>4 DEF RegisterEvidence
<1>5. ASSUME NEW c \in Case, NEW context \in Contexts, InitializeCase(c, context)
      PROVE  FALSE
  BY <1>0, <1>5 DEF InitializeCase, NoCase
<1>6. ASSUME NEW c \in Case, RecoverCase(c)
      PROVE  FALSE
  BY <1>0, <1>6 DEF RecoverCase, CaseRecord
<1>7. CASE \/ Tick \/ BindVault \/ UNCHANGED vars
           \/ \E c \in Case : InitializationIgnored(c) \/ RecoverAgain(c)
  BY <1>7 DEF Tick, BindVault, InitializationIgnored, RecoverAgain, vars, adjudicatorVars
<1>8. CASE AdjudicatorStep
  BY <1>1, <1>3, <1>4, <1>6, <1>7, <1>8 DEF AdjudicatorStep
<1> QED BY <1>2, <1>5, <1>7, <1>8 DEF Next

-----------------------------------------------------------------------------
\* The inductive invariant.
RInv ==
    /\ \A c \in Case : CaseInv(c) /\ Timed(c)
    /\ Placed
    /\ \A v \in DOMAIN verdicts : BasisOf(v)

LEMMA InitRInv == Init => RInv
<1> SUFFICES ASSUME Init PROVE RInv
  OBVIOUS
<1>1. \A c \in Case : revisions[c] = <<>> /\ cases[c].status = "NONE"
  BY DEF Init, NoCase
<1>2. \A c \in Case : Current(c) = 0 /\ DOMAIN revisions[c] = {}
  BY <1>1 DEF Current
<1>3. \A c \in Case : CaseInv(c) /\ Timed(c)
  BY <1>1, <1>2 DEF CaseInv, Timed, StatusOf, Reviewing, FailedCited, OwnEvidence, FailedGone,
                    CitedIsLatest, IndependentFor, CarriedFor
<1>4. DOMAIN evidence = {} /\ DOMAIN verdicts = {}
  BY DEF Init
<1> QED BY <1>3, <1>4 DEF RInv, Placed

LEMMA NextRInv == IInv /\ RInv /\ [Next]_vars => RInv'
<1> SUFFICES ASSUME IInv, RInv, [Next]_vars PROVE RInv'
  OBVIOUS
<1>1. TypeOK
  BY DEF IInv
<1> QED BY <1>1, NextCaseInv, NextTimed, NextPlaced, NextBasis DEF RInv

LEMMA SpecRInv == Spec => []RInv
BY InitRInv, NextRInv, SpecIInv, PTL DEF Spec

\* No revision ever cites two records with one stable id or with the same bytes, records
\* of two groups, or more than the limit, however records are carried and repaired: the
\* failure branches of begin_revision's carry loop are never taken.
THEOREM CitationsAreIndependent == Spec => []IndependentEvidence
<1>1. RInv => IndependentEvidence
  BY DEF RInv, CaseInv, IndependentFor, Independent, IndependentEvidence
<1> QED BY SpecRInv, <1>1, PTL

\* A revision starts from all of its predecessor's evidence but the failed record.
THEOREM EvidenceIsCarried == Spec => []CarriedForward
<1>1. RInv => CarriedForward
  BY DEF RInv, CaseInv, CarriedFor, Dropped, CarriedForward
<1> QED BY SpecRInv, <1>1, PTL

\* A verdict rests for ever on enough independent sources that were fresh when it was
\* reached.
THEOREM VerdictsAreFounded == Spec => []VerdictBasis
<1>1. RInv => VerdictBasis
  BY DEF RInv, BasisOf, VerdictBasis
<1> QED BY SpecRInv, <1>1, PTL

\* A verdict is queued only after the response window that follows it, or at the
\* horizon of its case.
THEOREM WindowIsKept == Spec => ResponseWindowKept
<1> DEFINE Kept ==
      \A c \in Case :
        cases'[c].queued /\ ~cases[c].queued =>
            LET v == verdicts[cases[c].verdict]
            IN  /\ now >= Least(v.at + ResponseWindow, cases[c].recoveryDeadline)
                /\ now <= cases[c].recoveryDeadline
<1>1. IInv /\ RInv /\ [Next]_vars => [Kept]_vars
  <2> SUFFICES ASSUME IInv, RInv, [Next]_vars, NEW c \in Case,
                      cases'[c].queued, ~cases[c].queued
               PROVE  LET v == verdicts[cases[c].verdict]
                      IN  /\ now >= Least(v.at + ResponseWindow, cases[c].recoveryDeadline)
                          /\ now <= cases[c].recoveryDeadline
    OBVIOUS
  <2>1. FirstQueue(c)
    BY NewlyQueued DEF IInv
  <2>2. Timed(c)
    BY DEF RInv
  <2> QED BY <2>1, <2>2 DEF FirstQueue, Timed
<1> QED BY SpecIInv, SpecRInv, <1>1, PTL DEF Spec, ResponseWindowKept
=============================================================================
