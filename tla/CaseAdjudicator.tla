--------------------------- MODULE CaseAdjudicator ---------------------------
(***************************************************************************)
(* contracts/verdict_graph_adjudicator.py: cases and their revisions,      *)
(* evidence with stable identities, repair, review, settlement, recovery.  *)
(*                                                                         *)
(* The nondeterministic review (HTTP fetches and the model prompt, agreed  *)
(* by validators) is a free choice among the results evaluate_once can     *)
(* return; a transaction without consensus changes nothing.  The freshness *)
(* rules of a record (age, expiry, remaining validity) hold exactly up to  *)
(* one instant, its freshUntil.  A call that fails is a disabled action.   *)
(***************************************************************************)
EXTENDS Integers, Sequences, FiniteSets

CONSTANTS
    Case,              \* case ids; a case is named by its handoff
    Account,           \* addresses
    Requester,         \* per case, the requester in its context
    Provider,          \* per case, the provider in its context
    Issuer,            \* accounts the bound policy approves as issuers
    Contexts,          \* contexts the Registry may hand over, when it stands alone
    Deliveries,        \* delivery versions the Registry may show, when it stands alone
    FreshUntil,        \* instants up to which a record offered may be fresh
    Source,            \* what may be cited: stable id, approved publisher, digest, group
    MinIssuers,        \* policy.minimum_distinct_issuers
    MinPublishers,     \* policy.minimum_distinct_publishers
    BreachRule,        \* consequences of the registered criteria
    ResponseWindow,    \* policy.response_window_seconds
    RepairWindow,      \* policy.repair_window_seconds
    EvidenceLimit,     \* MAX_EVIDENCE_ITEMS
    Deployed,          \* whether the Vault was bound before the first step
    MaxEvidence,       \* bound: evidence records in all
    MaxEvidenceVersion,\* bound: version of an evidence record
    MaxRevision,       \* bound: revisions per case
    MaxTime            \* bound: the clock stops here

\* create_evidence_policy, add_handoff and _normalize_criteria.
ASSUME PolicyAssumption ==
    /\ ResponseWindow \in Nat \ {0}
    /\ RepairWindow \in Nat \ {0}
    /\ MinIssuers \in Nat \ {0, 1}
    /\ MinPublishers \in Nat \ {0, 1}
    /\ BreachRule \subseteq {2, 3}
    /\ Issuer \subseteq Account
    /\ EvidenceLimit \in Nat \ {0}
    /\ Deployed \in BOOLEAN

\* What the Registry may hand over and show, and the bounds.
ASSUME InputAssumption ==
    /\ Contexts \subseteq [responseDeadline : Nat, recoveryDeadline : Nat]
    /\ Deliveries \subseteq Nat
    /\ FreshUntil \subseteq Nat
    /\ MaxEvidenceVersion \in Nat

ASSUME PartiesAssumption ==
    /\ Requester \in [Case -> Account]
    /\ Provider \in [Case -> Account]
    /\ \A c \in Case : Requester[c] # Provider[c]

VARIABLES
    now,        \* block time
    net,        \* every finalized message ever emitted
    boundVault, \* vault_address is set
    cases,      \* cases[c]
    revisions,  \* revisions[c], the case's revisions in order
    evidence,   \* evidence, by evidence id
    latest,     \* stable_record_latest_evidence, 0 for an unused stable id
    verdicts    \* verdicts, by verdict id

adjudicatorVars == <<boundVault, cases, revisions, evidence, latest, verdicts>>
vars == <<now, net, adjudicatorVars>>

StableId == {s.stable : s \in Source}
Publisher == {s.publisher : s \in Source}
Rule == 1..3
RELEASE_PROVIDER == 1
NEUTRAL_RECOVERY == 3

\* Failure codes, one for each way they are told apart: a failed fetch can be
\* retried, the other codes cannot, and Registry repairs those about a delivery.
DeliveryFailure == {"DELIVERY_FETCH_FAILED", "DELIVERY_UNUSABLE"}
ResponseFailure == {"RESPONSE_FETCH_FAILED", "RESPONSE_UNUSABLE"}
SourceFailure == {"FETCH_FAILED", "SOURCE_UNUSABLE"}
TransientFailure == {"FETCH_FAILED", "RESPONSE_FETCH_FAILED", "DELIVERY_FETCH_FAILED"}
FailureCode == {"", "EVIDENCE_STALE"} \cup DeliveryFailure \cup ResponseFailure \cup SourceFailure

\* response, ready and failure are fields of the current revision: those of a
\* superseded one are never read again.  status, evidence and failed are, so the
\* revisions keep them.
CaseRecord ==
    [status : {"NONE", "OPEN", "REPAIR_REQUIRED", "REVIEWED", "RECOVERED"},
     responseDeadline : Nat, repairDeadline : Nat, recoveryDeadline : Nat,
     settlementEarliestAt : Nat, queued : BOOLEAN, verdict : Nat,
     response : BOOLEAN, ready : SUBSET Account, failure : FailureCode]

Revision ==
    [status : {"OPEN", "REPAIR_REQUIRED", "REVIEWED"},
     evidence : SUBSET Nat, failed : Nat]

Evidence == [case : Case, revision : Nat, issuer : Account, source : Source,
             version : Nat, freshUntil : Nat]

\* rule is what apply_final_verdict will carry, delivery the version reviewed.
Verdict == [case : Case, revision : Nat, rule : Rule, delivery : Nat, at : Nat]

NoCase ==
    [status |-> "NONE", responseDeadline |-> 0, repairDeadline |-> 0,
     recoveryDeadline |-> 0, settlementEarliestAt |-> 0, queued |-> FALSE, verdict |-> 0,
     response |-> FALSE, ready |-> {}, failure |-> ""]

NewRevision(carried) == [status |-> "OPEN", evidence |-> carried, failed |-> 0]

ApplyVerdict(c, r) == [type |-> "verdict", handoff |-> c, rule |-> r]

Init ==
    /\ now = 1
    /\ net = {}
    /\ boundVault = Deployed
    /\ cases = [c \in Case |-> NoCase]
    /\ revisions = [c \in Case |-> <<>>]
    /\ evidence = <<>>
    /\ latest = [s \in StableId |-> 0]
    /\ verdicts = <<>>

Current(c) == Len(revisions[c])
CurrentRevision(c) == revisions[c][Current(c)]
Participants(c) == {Requester[c], Provider[c]}

Least(a, b) == IF a <= b THEN a ELSE b

\* Emission of a settlement message; without a bound Vault nothing is sent.
Settle(c, r) == net' = net \cup {ApplyVerdict(c, r)}

Tick ==
    /\ now < MaxTime
    /\ now' = now + 1
    /\ UNCHANGED <<net, adjudicatorVars>>

BindVault ==
    /\ ~boundVault
    /\ boundVault' = TRUE
    /\ UNCHANGED <<now, net, cases, revisions, evidence, latest, verdicts>>

-----------------------------------------------------------------------------
(* The Registry's message, with the context read back from the Registry.   *)

InitializeCase(c, context) ==
    /\ cases[c].status = "NONE"
    /\ context.recoveryDeadline > now
    /\ cases' = [cases EXCEPT ![c] =
            [NoCase EXCEPT !.status = "OPEN",
                           !.responseDeadline = context.responseDeadline,
                           !.recoveryDeadline = context.recoveryDeadline]]
    /\ revisions' = [revisions EXCEPT ![c] = <<NewRevision({})>>]
    /\ UNCHANGED <<now, net, boundVault, evidence, latest, verdicts>>

\* A repeated initialization of a known case returns without effect.
InitializationIgnored(c) ==
    /\ cases[c].status # "NONE"
    /\ UNCHANGED vars

-----------------------------------------------------------------------------
(* Collecting a revision.                                                  *)

SubmitResponse(c, who) ==
    /\ cases[c].status = "OPEN"
    /\ who \in Participants(c)
    /\ ~cases[c].response
    /\ cases' = [cases EXCEPT ![c].response = TRUE]
    /\ UNCHANGED <<now, net, boundVault, revisions, evidence, latest, verdicts>>

MarkRevisionReady(c, who) ==
    /\ cases[c].status = "OPEN"
    /\ who \in Participants(c)
    /\ cases' = [cases EXCEPT ![c].ready = @ \cup {who}]
    /\ UNCHANGED <<now, net, boundVault, revisions, evidence, latest, verdicts>>

\* Faulty variant: the failed record may come back from another issuer.
StableIdOfAnyIssuer(c, stable, who, v) ==
    latest[stable] # 0 =>
        LET prior == evidence[latest[stable]]
            revision == revisions[prior.case][prior.revision]
        IN  /\ prior.case = c
            /\ revision.status = "REPAIR_REQUIRED"
            /\ revision.failed = latest[stable]
            /\ v > prior.version

\* Whether `who` may use a stable id at version v in case c: it is unused, or
\* its latest record is of this case and issuer, has a lower version and is the
\* recorded failure of the revision it was registered in.
StableIdAvailable(c, stable, who, v) ==
    latest[stable] # 0 =>
        LET prior == evidence[latest[stable]]
            revision == revisions[prior.case][prior.revision]
        IN  /\ prior.case = c
            /\ prior.issuer = who
            /\ revision.status = "REPAIR_REQUIRED"
            /\ revision.failed = latest[stable]
            /\ v > prior.version

\* A source is independent of the records cited so far: other bytes, about the
\* same matter.  Faulty variant: equal bytes are not noticed.
SameGroup(cited, source) == \A e \in cited : evidence[e].source.group = source.group
Corroborates(cited, source) ==
    \A e \in cited : /\ evidence[e].source.digest # source.digest
                     /\ evidence[e].source.group = source.group

RegisterEvidence(c, who, source, v, freshUntil) ==
    LET cited == CurrentRevision(c).evidence
        id == Len(evidence) + 1
    IN  /\ cases[c].status = "OPEN"
        /\ Cardinality(cited) < EvidenceLimit
        /\ who \in Issuer
        /\ StableIdAvailable(c, source.stable, who, v)
        /\ Corroborates(cited, source)
        /\ freshUntil >= now
        /\ id <= MaxEvidence
        /\ evidence' = Append(evidence,
               [case |-> c, revision |-> Current(c), issuer |-> who, source |-> source,
                version |-> v, freshUntil |-> freshUntil])
        /\ revisions' = [revisions EXCEPT ![c][Current(c)].evidence = @ \cup {id}]
        /\ latest' = [latest EXCEPT ![source.stable] = id]
        /\ UNCHANGED <<now, net, boundVault, cases, verdicts>>

-----------------------------------------------------------------------------
(* Review.                                                                 *)

Issuers(c) == {evidence[e].issuer : e \in CurrentRevision(c).evidence}
Publishers(c) == {evidence[e].source.publisher : e \in CurrentRevision(c).evidence}
Stale(c) == {e \in CurrentRevision(c).evidence : evidence[e].freshUntil < now}

\* Faulty variants: a reviewed case is reviewed again; publishers are not counted.
ReviewableAgain(c) ==
    /\ cases[c].status \in {"OPEN", "REVIEWED"}
    /\ now >= cases[c].responseDeadline \/ cases[c].ready = Participants(c)
    /\ Cardinality(Issuers(c)) >= MinIssuers
    /\ Cardinality(Publishers(c)) >= MinPublishers
ReviewableByIssuers(c) ==
    /\ cases[c].status = "OPEN"
    /\ now >= cases[c].responseDeadline \/ cases[c].ready = Participants(c)
    /\ Cardinality(Issuers(c)) >= MinIssuers

Reviewable(c) ==
    /\ cases[c].status = "OPEN"
    /\ now >= cases[c].responseDeadline \/ cases[c].ready = Participants(c)
    /\ Cardinality(Issuers(c)) >= MinIssuers
    /\ Cardinality(Publishers(c)) >= MinPublishers

\* What the model's answer may mean: no breach, undetermined, or a breach of a
\* registered criterion with that criterion's consequence.
ReviewRule == {RELEASE_PROVIDER, NEUTRAL_RECOVERY} \cup BreachRule

RequireRepair(c, code, e) ==
    /\ revisions' = [revisions EXCEPT ![c][Current(c)] =
            [@ EXCEPT !.status = "REPAIR_REQUIRED", !.failed = e]]
    /\ cases' = [cases EXCEPT ![c] =
            [@ EXCEPT !.status = "REPAIR_REQUIRED", !.failure = code,
                      !.repairDeadline = Least(now + RepairWindow, cases[c].recoveryDeadline)]]
    /\ UNCHANGED verdicts

RecordVerdict(c, r, delivery) ==
    /\ verdicts' = Append(verdicts,
            [case |-> c, revision |-> Current(c), rule |-> r, delivery |-> delivery, at |-> now])
    /\ revisions' = [revisions EXCEPT ![c][Current(c)].status = "REVIEWED"]
    /\ cases' = [cases EXCEPT ![c] =
            [@ EXCEPT !.status = "REVIEWED", !.verdict = Len(verdicts) + 1, !.queued = FALSE,
                      !.settlementEarliestAt =
                          Least(now + ResponseWindow, cases[c].recoveryDeadline)]]

\* delivery is the version in the Registry's snapshot, 0 when nothing was
\* delivered.  The first stale record, in index order, fails the review before
\* anything is fetched; ids grow with the index, carried records first.
ResolveCase(c, delivery) ==
    /\ Reviewable(c)
    /\ \/ /\ Stale(c) # {}
          /\ \E e \in Stale(c) : /\ \A other \in Stale(c) : e <= other
                                 /\ RequireRepair(c, "EVIDENCE_STALE", e)
       \/ /\ Stale(c) = {}
          /\ \/ delivery > 0 /\ \E code \in DeliveryFailure : RequireRepair(c, code, 0)
             \/ cases[c].response /\ \E code \in ResponseFailure : RequireRepair(c, code, 0)
             \/ \E e \in CurrentRevision(c).evidence, code \in SourceFailure :
                    RequireRepair(c, code, e)
             \/ \E r \in ReviewRule : RecordVerdict(c, r, delivery)
    /\ UNCHANGED <<now, net, boundVault, evidence, latest>>

-----------------------------------------------------------------------------
(* Repair and new revisions.                                               *)

RetryCurrentRevision(c, who) ==
    /\ cases[c].status = "REPAIR_REQUIRED"
    /\ who \in Participants(c)
    /\ now <= cases[c].recoveryDeadline
    /\ cases[c].repairDeadline > 0 => now <= cases[c].repairDeadline
    /\ cases[c].failure \in TransientFailure
    /\ revisions' = [revisions EXCEPT ![c][Current(c)] =
            [@ EXCEPT !.status = "OPEN", !.failed = 0]]
    /\ cases' = [cases EXCEPT ![c] =
            [@ EXCEPT !.status = "OPEN", !.failure = "",
                      !.repairDeadline = 0, !.responseDeadline = now]]
    /\ UNCHANGED <<now, net, boundVault, evidence, latest, verdicts>>

\* Faulty variant: a queued case can be revised.
RevisableQueued(c) ==
    /\ cases[c].status \in {"REVIEWED", "REPAIR_REQUIRED"}
    /\ now <= cases[c].recoveryDeadline
    /\ cases[c].status = "REVIEWED" => now <= cases[c].settlementEarliestAt

\* The conditions of begin_revision, but for who calls it.
Revisable(c) ==
    /\ cases[c].status \in {"REVIEWED", "REPAIR_REQUIRED"}
    /\ now <= cases[c].recoveryDeadline
    /\ ~cases[c].queued
    /\ cases[c].status = "REVIEWED" => now <= cases[c].settlementEarliestAt

\* All evidence is carried forward but the record a repair finding names.  Faulty
\* variant: that record too.
CarriedAll(c) == CurrentRevision(c).evidence
Carried(c) ==
    CurrentRevision(c).evidence
    \ (IF cases[c].status = "REPAIR_REQUIRED" THEN {CurrentRevision(c).failed} ELSE {})

\* Counter-evidence needs a response, an evidence repair does not.
BeginRevision(c, who, response) ==
    /\ Revisable(c)
    /\ who \in Participants(c)
    /\ cases[c].status = "REVIEWED" => response
    /\ Current(c) < MaxRevision
    /\ revisions' = [revisions EXCEPT ![c] = Append(@, NewRevision(Carried(c)))]
    /\ cases' = [cases EXCEPT ![c] =
            [@ EXCEPT !.status = "OPEN", !.verdict = 0, !.settlementEarliestAt = 0,
                      !.queued = FALSE, !.responseDeadline = now + ResponseWindow,
                      !.repairDeadline = 0, !.response = response, !.ready = {}, !.failure = ""]]
    /\ UNCHANGED <<now, net, boundVault, evidence, latest, verdicts>>

-----------------------------------------------------------------------------
(* Settlement and recovery.                                                *)

\* The first call fixes the verdict; a later one only sends its message again.
\* Faulty variant: it does not wait.
QueueAtOnce(c) ==
    /\ cases[c].status = "REVIEWED"
    /\ ~cases[c].queued
    /\ now <= cases[c].recoveryDeadline
FirstQueue(c) ==
    /\ cases[c].status = "REVIEWED"
    /\ ~cases[c].queued
    /\ now >= cases[c].settlementEarliestAt
    /\ now <= cases[c].recoveryDeadline

Requeue(c) ==
    /\ cases[c].status = "REVIEWED"
    /\ cases[c].queued
    /\ boundVault
    /\ now <= cases[c].recoveryDeadline

QueueSettlement(c, expected) ==
    /\ expected = cases[c].verdict
    /\ expected > 0
    /\ verdicts[expected].case = c
    /\ verdicts[expected].revision = Current(c)
    /\ \/ /\ FirstQueue(c)
          /\ cases' = [cases EXCEPT ![c].queued = TRUE]
          /\ IF boundVault THEN Settle(c, verdicts[expected].rule) ELSE UNCHANGED net
       \/ /\ Requeue(c)
          /\ Settle(c, verdicts[expected].rule)
          /\ UNCHANGED cases
    /\ UNCHANGED <<now, boundVault, revisions, evidence, latest, verdicts>>

\* Faulty variants: an unknown case, whose deadlines are zero, is recovered; a
\* queued one is; a reviewed one that nobody queued is not.
RecoverableUnknown(c) == ~cases[c].queued /\ now > cases[c].recoveryDeadline
RecoverableQueued(c) ==
    /\ cases[c].status \in {"OPEN", "REVIEWED", "REPAIR_REQUIRED"}
    /\ now > cases[c].recoveryDeadline
RecoverableUnreviewed(c) ==
    \/ /\ cases[c].status = "REPAIR_REQUIRED"
       /\ cases[c].repairDeadline > 0
       /\ now > cases[c].repairDeadline
    \/ /\ cases[c].status = "OPEN"
       /\ now > cases[c].recoveryDeadline

Recoverable(c) ==
    \/ /\ cases[c].status = "REPAIR_REQUIRED"
       /\ cases[c].repairDeadline > 0
       /\ now > cases[c].repairDeadline
    \/ /\ cases[c].status = "OPEN"
       /\ now > cases[c].recoveryDeadline
    \/ /\ cases[c].status = "REVIEWED"
       /\ ~cases[c].queued
       /\ now > cases[c].recoveryDeadline

RecoverCase(c) ==
    /\ Recoverable(c)
    /\ cases' = [cases EXCEPT ![c].status = "RECOVERED"]
    /\ IF boundVault THEN Settle(c, NEUTRAL_RECOVERY) ELSE UNCHANGED net
    /\ UNCHANGED <<now, boundVault, revisions, evidence, latest, verdicts>>

\* Recovery of a recovered case sends its message again.
RecoverAgain(c) ==
    /\ cases[c].status = "RECOVERED"
    /\ boundVault
    /\ Settle(c, NEUTRAL_RECOVERY)
    /\ UNCHANGED <<now, adjudicatorVars>>
-----------------------------------------------------------------------------
\* Everything but the message of the Registry and the call that reads it.
AdjudicatorStep ==
    \/ BindVault
    \/ \E c \in Case :
        \/ \E who \in Account :
            \/ SubmitResponse(c, who)
            \/ MarkRevisionReady(c, who)
            \/ RetryCurrentRevision(c, who)
            \/ \E response \in BOOLEAN : BeginRevision(c, who, response)
            \/ \E source \in Source, v \in 1..MaxEvidenceVersion, f \in FreshUntil :
                    RegisterEvidence(c, who, source, v, f)
        \/ \E expected \in DOMAIN verdicts : QueueSettlement(c, expected)
        \/ RecoverCase(c)
        \/ RecoverAgain(c)

Next ==
    \/ Tick
    \/ AdjudicatorStep
    \/ \E c \in Case :
        \/ \E context \in Contexts : InitializeCase(c, context)
        \/ InitializationIgnored(c)
        \/ \E delivery \in Deliveries : ResolveCase(c, delivery)

Spec == Init /\ [][Next]_vars

\* Time passes, and somebody sends the permissionless recover_case once it can
\* succeed.  Nobody is assumed to respond, review or settle.
FairSpec == Spec /\ WF_vars(Tick) /\ \A c \in Case : WF_vars(RecoverCase(c))

-----------------------------------------------------------------------------
(* Properties.                                                             *)

\* The state ranges over its types; a known case has a revision, and evidence
\* and verdict ids name existing records.
TypeOK ==
    /\ now \in Nat \ {0}
    /\ net \subseteq [type : {"verdict"}, handoff : Case, rule : Rule]
    /\ boundVault \in BOOLEAN
    /\ cases \in [Case -> CaseRecord]
    /\ revisions \in [Case -> Seq(Revision)]
    /\ evidence \in Seq(Evidence)
    /\ latest \in [StableId -> 0..Len(evidence)]
    /\ verdicts \in Seq(Verdict)
    /\ \A c \in Case :
        /\ cases[c].status = "NONE" <=> revisions[c] = <<>>
        /\ cases[c].verdict <= Len(verdicts)
        /\ \A k \in DOMAIN revisions[c] : revisions[c][k].evidence \subseteq DOMAIN evidence

\* A stable record id belongs to one case and one issuer for ever, and each later
\* record under it has a strictly higher version, across repairs, carried
\* evidence and concurrent cases of one policy (docs/TRUST_MODEL.md: identity is
\* preserved without arbitrary replay).
StableIdentity ==
    \A i, j \in DOMAIN evidence :
        i < j /\ evidence[i].source.stable = evidence[j].source.stable =>
            /\ evidence[i].case = evidence[j].case
            /\ evidence[i].issuer = evidence[j].issuer
            /\ evidence[i].version < evidence[j].version

\* Within any revision the records have pairwise distinct stable ids and digests
\* and one corroboration group: neither a carried record and its repaired
\* successor, nor the same bytes twice, corroborate each other.  The failure
\* branches of begin_revision's carry loop are therefore unreachable.
IndependentEvidence ==
    \A c \in Case : \A k \in DOMAIN revisions[c] :
        /\ Cardinality(revisions[c][k].evidence) <= EvidenceLimit
        /\ \A i, j \in revisions[c][k].evidence :
            i # j => /\ evidence[i].source.stable # evidence[j].source.stable
                     /\ evidence[i].source.digest # evidence[j].source.digest
                     /\ evidence[i].source.group = evidence[j].source.group

\* A revision starts from all evidence of its predecessor except the record whose
\* failure was found, which never comes back under its old id.
CarriedForward ==
    \A c \in Case : \A k \in 1..(Current(c) - 1) :
        LET old == revisions[c][k]
            dropped == IF old.status = "REPAIR_REQUIRED" THEN {old.failed} ELSE {}
        IN  /\ old.evidence \ dropped \subseteq revisions[c][k + 1].evidence
            /\ dropped \cap revisions[c][k + 1].evidence = {}

\* Every verdict ever recorded still rests on the evidence it was reviewed on: its
\* revision is closed as reviewed, with enough distinct issuers and publishers.
VerdictBasis ==
    \A v \in DOMAIN verdicts :
        LET revision == revisions[verdicts[v].case][verdicts[v].revision]
            cited == {evidence[e] : e \in revision.evidence}
        IN  /\ revision.status = "REVIEWED"
            /\ Cardinality({e.issuer : e \in cited}) >= MinIssuers
            /\ Cardinality({e.source.publisher : e \in cited}) >= MinPublishers
            /\ \A e \in cited : e.freshUntil >= verdicts[v].at

\* A reviewed case points to the verdict of its current revision, and an open or
\* failed one to none, so no superseded verdict can be taken for the consequence.
VerdictIsCurrent ==
    \A c \in Case :
        /\ cases[c].status = "REVIEWED" =>
              /\ cases[c].verdict > 0
              /\ verdicts[cases[c].verdict].case = c
              /\ verdicts[cases[c].verdict].revision = Current(c)
        /\ cases[c].status \in {"OPEN", "REPAIR_REQUIRED"} =>
              cases[c].verdict = 0 /\ ~cases[c].queued

\* All settlement messages ever sent for a case carry one rule: that of the queued
\* verdict, or neutral recovery of a recovered case that was never queued.  Retries,
\* new revisions and late recoveries can never send the Vault two different
\* consequences.
OneConsequence ==
    \A c \in Case, r \in Rule :
        ApplyVerdict(c, r) \in net =>
            \/ cases[c].queued /\ r = verdicts[cases[c].verdict].rule
            \/ cases[c].status = "RECOVERED" /\ ~cases[c].queued /\ r = NEUTRAL_RECOVERY

\* Once a settlement is queued or the case recovered, the case and its revisions
\* never change again, whoever calls what.
DecisionIsFinal ==
    [][\A c \in Case :
        cases[c].queued \/ cases[c].status = "RECOVERED" =>
            cases'[c] = cases[c] /\ revisions'[c] = revisions[c]]_vars

\* A verdict is first queued only after the parties had the whole response window
\* following the review of that very revision (or, at the end of the case's
\* horizon, what was left of it), and never after the recovery deadline.
ResponseWindowKept ==
    [][\A c \in Case :
        cases'[c].queued /\ ~cases[c].queued =>
            LET v == verdicts[cases[c].verdict]
            IN  /\ now >= Least(v.at + ResponseWindow, cases[c].recoveryDeadline)
                /\ now <= cases[c].recoveryDeadline]_vars

\* Every initialized case is decided: queued, or recovered by recover_case, even
\* when it is reviewed, fails or is revised at the very last moment.
CaseIsDecided ==
    \A c \in Case : cases[c].status # "NONE" ~> cases[c].queued \/ cases[c].status = "RECOVERED"

\* A record whose failure a repair finding names can come back under its stable id:
\* in the next revision its issuer may register a higher version.
\* docs/TRUST_MODEL.md:32 and README.md:86 promise it for every persisted failure.
FailedRecordIsRepairable ==
    \A c \in Case :
        cases[c].status = "OPEN" /\ Current(c) > 1 =>
            LET prior == revisions[c][Current(c) - 1]
                failed == evidence[prior.failed]
            IN  prior.status = "REPAIR_REQUIRED" /\ prior.failed > 0
                    /\ latest[failed.source.stable] = prior.failed =>
                  StableIdAvailable(c, failed.source.stable, failed.issuer, failed.version + 1)
=============================================================================
