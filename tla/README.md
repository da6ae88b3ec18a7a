# Verification of VerdictGraph

TLA+ models of the VerdictGraph contracts, the TLC instances that check them
and TLAPS proofs of their main safety properties. Everything is read from the
sources in `contracts/` and `evm/contracts/`; file and line of each definition
are in `PROJECT.json` under `map`.

    tlc -workers 2 -config MCEscrowVault.cfg MCEscrowVault      # any run below
    tlapm EscrowVaultProofs.tla                                 # any *Proofs module

## 1. The system

VerdictGraph lets two parties agree on a delivery for an escrowed principal and
bond, and settles it by acceptance or by a verdict reached from registered
evidence. It exists in two protocols, each in a split and an older
single-contract form.

| Component | State it keeps | Operations |
|---|---|---|
| **Registry** `verdict_graph_registry.py`, draft phase | evidence policies, workflows, handoffs with ordinals and dependencies | create, add issuers and publishers, seal; create, add handoffs and dependencies, activate, close |
| **Registry**, active workflow | versioned deliveries, the dispute lock `handoff_case_id`, immutable case contexts, two one-shot endpoint bindings | submit, accept, repair a delivery; register, complete (retryable) in the Vault; `open_case`, `retry_case_initialization`; close |
| **Adjudicator** `verdict_graph_adjudicator.py` | cases, revisions, evidence records, stable-id table, verdicts | `initialize_case`, responses, evidence, ready flags, `resolve_case`, `retry_current_revision`, `begin_revision`, `queue_settlement`, `recover_case` |
| **Vault** `VerdictGraphVault.sol` | per-handoff escrow with status, `processedCases`, `claimable`, native balance | controller messages; fund, bond, two recoveries, `withdraw` |
| **Milestone Authority** `verdict_graph_milestone_authority.py` | accepted projects | `register_accepted_project` |
| **Milestone Registry** `verdict_graph_milestone_registry.py` | milestones, submissions, challenges, reviews, endpoint bindings | create, submit, challenge, request and retry a review, record its answer, settle, recover |
| **Milestone Adjudicator** `verdict_graph_milestone_adjudicator.py` | one result per request, receipts | `review_milestone` |
| **Milestone Vault** `VerdictGraphMilestoneVault.sol` | escrows as in the Vault, by milestone | register, apply outcome, recover; fund, bond, `withdraw` |
| **Case core** `verdict_graph_core.py` | what Registry and Adjudicator keep, and a copy of the escrow's final status | theirs, and the synchronization with the Vault |
| **Single milestone contract** `verdict_graph_milestone.py` | what the three milestone contracts keep | theirs, with the review inside the requesting transaction |
| **Deploy artifacts** `*_deploy.py` | generated, compacted copies | — |
| **Frontend** `frontend/` | wallet session, one pending transaction per browser, cached reads | sends transactions, renders finalized state |
| **Scripts, verification logs, docs** | files | gates, manifests, deployment estimates |

### How they interact

* Registry → Vault: `register_handoff`, `apply_handoff_completion`.
  Registry → Adjudicator: `initialize_case`. Adjudicator → Vault:
  `apply_final_verdict`. All are emitted by a transaction and executed later as
  transactions of their own; one may fail, and the sender can emit it again
  when somebody calls it once more.
* Milestone Registry → Adjudicator: `review_milestone`; back: `record_review`.
  Registry → Vault: registration, outcome, recovery. The same rules of delivery.
  A review whose result cannot be normalized, or on which validators disagree,
  spends its message without an answer; only a participant's
  `retry_milestone_review` sends it again, and only until the recovery deadline.
* Synchronous views inside a transaction: the Adjudicator reads the case
  context, the issuer and publisher lists and the delivery snapshot of the
  Registry; the Registry reads the repair snapshot of the Adjudicator; the
  Milestone Registry reads the Authority; the core reads the Vault's status.
* `withdraw()` calls the receiver in the middle of the Vault's transaction.
* Everything else couples through time: funding, recovery, response, repair,
  challenge and settlement deadlines are compared with the block time in
  several contracts.

### What is hard about it

Messages overtake each other and deadlines; two contracts race on one handoff
(accept against dispute, verdict against expiry); an answer returns after what
it is about was resubmitted or challenged; a party acts at the same instant as
the permissionless recovery; evidence moves between revisions and its identity
must survive; a receiver re-enters the Vault. No unit test of the repository
exercises more than one contract at a time against a message that is late.
`PROJECT.json` lists each hazard at its line with the property that covers it.

### What makes each component correct

* **Vaults**: they hold exactly what they owe; each escrow pays out exactly
  once, exactly as its terminal event says; a case is consumed only by a
  consequence that executed; nothing stays locked.
* **Registry**: what running cases rely on is fixed once sealed or active; a
  handoff is accepted or disputed, never both; a completion names the delivery
  that was accepted; a case's horizon lies within its handoff's; closing
  strands nobody.
* **Adjudicator**: one consequence per case, final once sent; only the verdict
  of the current revision can be sent, after a full response window; evidence
  of a revision is independent and carried forward faithfully; a stable id
  belongs to one case and issuer; every case is decided.
* **Milestone contracts**: one review per request; the recorded review is of the
  submission and challenge that stand, and is what is paid; an answer the
  Registry waits for is never one it refuses.
* **Together**: an escrow ends as was decided for it, or by expiry.

## 2. The modules

| Module | Models |
|---|---|
| `EscrowVault` | the Vault |
| `WorkflowSetup` | the Registry up to the activation of a workflow |
| `HandoffRegistry` | the Registry from activation on |
| `CaseAdjudicator` | the Adjudicator |
| `SettlementPromise` | what the case protocol promises (abstract) |
| `DisputeSystem` | `HandoffRegistry`, `CaseAdjudicator`, `EscrowVault` composed; implements `SettlementPromise` |
| `CoreSystem` | the single-contract core with its Vault; implements `SettlementPromise` |
| `MilestoneVault` | the Milestone Vault, over the transitions of `EscrowVault` |
| `MilestoneRegistry` | the Milestone Registry with the Authority |
| `MilestoneAdjudicator` | the Milestone Adjudicator |
| `MilestonePromise` | what the milestone protocol promises (abstract) |
| `MilestoneSystem` | the milestone contracts composed; implements `MilestonePromise` |
| `SingleMilestone` | the single milestone contract with the Milestone Vault; implements `MilestonePromise` |
| `MC*` | TLC instances: accounts, terms, sources, bounds |
| `*Proofs` | theorems (section 4) |

An action is one successful transaction; a call that fails changes nothing and
is a disabled action. The guards follow the order of the code's checks, less
those on the form of text arguments (length, `https://`, hexadecimal digits).
Operators headed "faulty variant" are single plausible mistakes in the code.
No specification uses them; substituted for the operator that follows, each
makes a named property fail (`PROJECT.json`, `mutants`), which shows that the
property depends on that line of code.

### EscrowVault

`status` and `terms` are the fields of `handoffs[h]`, `processed` the set of
`processedCases`, `claimable` as is. Three variables observe: `balance`
(the contract's native balance), `paid` (all transfers made) and `log` (terminal events
of each escrow). `withdraw()` is split at its external call: `Withdraw(a)`
clears the claim and sends, `frames` then holds the open call with the state a
failure restores, and `WithdrawReturns` or `WithdrawReverts` ends it. While it
is open, fund, bond and the two recoveries may run re-entrantly, and only
they: the messages of controllers and the clock need `TopLevel`. The lock
`_withdrawLock` is `NonReentrant`. Each controller message has an effective and an ignored
form (`RegistrationIgnored`, `CompletionIgnored`, `VerdictIgnored`), the latter
the code's early returns with an event. Here the controllers are arbitrary; `Binding` is the pair of workflow
and policy fingerprint they must match. Amounts are naturals: sums are bounded
by the native supply, so `uint256` cannot overflow.

### WorkflowSetup and HandoffRegistry

`WorkflowSetup` is the draft phase for any number of owners: ids are places in
the order of creation, a policy's fingerprint is the payload it digests, a
publisher prefix belongs to an origin (`OriginOf`). Its invariants discharge
what the next module assumes of its constants.

`HandoffRegistry` is one active workflow with fixed handoffs. `acceptedAt` stands for the three
fields acceptance sets together (`delivery_accepted_at`, `completion_queued`,
`active`), `version` for the delivery (records are immutable per version),
`context` for `handoff_case_id` and `case_context_json`: a handoff has at most
one case for life, so the case is named by its handoff. `net` is the set of
all messages ever emitted; a retry adds nothing new, and delivery is the
receiver's action. The attempt counters guard nothing and are left out. `RepairHandoffDelivery` takes the Adjudicator's
snapshot as an argument: arbitrary in `MCHandoffRegistry`, the real one in
`DisputeSystem`.

### CaseAdjudicator

`cases`, `revisions`, `evidence`, `latest` (`stable_record_latest_evidence`)
and `verdicts` are the storage maps. Fields of a revision that only matter while
it is current (response, ready flags, failure code) are kept in the case;
status, evidence and `failed` are read later and stay with the revision.
Counts and seen-tables are derived from the evidence set;
`IndependentEvidence` shows that this loses nothing, because the branches that
would tell them apart are unreachable.

`ResolveCase` is the whole of `resolve_case`: guards, the deterministic
freshness pass that fails on the first stale record, then any result
`evaluate_once` can return on which validators agree: a delivery failure if
something was delivered, a response failure if there is a response, a failure
of any cited record, or a verdict with a consequence `_normalize_model_result`
allows. A record's age limit, expiry and remaining validity hold exactly up to
one instant, `freshUntil`. Failure codes are grouped by what the code does
with them: transient or not; about delivery, response or a record.

### DisputeSystem, CoreSystem and SettlementPromise

`DisputeSystem` instantiates the three modules over one clock and one `net`
and adds the deliveries. A message in `net` may be delivered at any later time,
any number of times, or never: that includes one emitted while an endpoint was
not bound. The refinement mapping reads a handoff's *fate*
from the Registry (accepted, disputed) and the Adjudicator (rule of the queued
verdict, or neutral when recovered), and the *outcome* from the Vault's
committed terminal event. `KeepsPromise` says every behaviour is one of
`SettlementPromise`: open → accepted, or open → disputed → one consequence;
the outcome, once, is that fate or "expired".

`CoreSystem` runs from the first policy to the last payout. The core shares
most functions with the split contracts statement for statement; these are
taken from `WorkflowSetup`, `HandoffRegistry` and `CaseAdjudicator`. What
differs is spelled out: opening and initializing a case is one transaction, the
Vault's status is read before an acceptance, a dispute and a repeated
settlement, and copied back by the two `sync_*` functions. The Vault that
belongs to the core is not in the repository; it is taken to be `EscrowVault`.

### The milestone modules

A milestone is named by its reference. `milestones[m]` is its record with
status, submission version, request number, challenges, standing review;
`reviews` the stored reviews. A request for a review and its answer leave `net`
when they are executed, so that two executions mean two emissions; instructions
to the Vault stay, as in the case protocol. `RecordReview` compares the answer
exactly as the code does (`Awaited`, `ResultAccepted`, `RepairAccepted`); an
answer it turns away is `AnswerIgnored`. `MilestoneAdjudicator` keeps one
result per request: a repeated request returns the cached one (`ReviewRepeated`),
and an execution that fails leaves nothing but a spent message (`ReviewAborted`).

`MilestonePromise` has a verdict that can be challenged a bounded number of
times and reviewed afresh, that stands once it is final, and an escrow that
ends once, as the final verdict says or by expiry. `MilestoneSystem` implements
it, reading *final* as "an outcome was sent to the Vault". `SingleMilestone`
implements the same promise; its review is part of the requesting transaction,
so nothing can come between request and answer.

## 3. The runs

| Run | Module, cfg | Shows | States |
|---|---|---|---|
| `vault` | `MCEscrowVault` | solvency, exact payment, one ending; nothing stays locked | 15 thousand |
| `registry` | `MCHandoffRegistry` | accept xor dispute, completions, horizons | 14 thousand |
| `case` | `MCCaseAdjudicator` | one final consequence, response window; every case is decided | 429 thousand |
| `case_evidence` | `MCCaseEvidence.cfg` | evidence over three revisions, verdicts included | 1.5 million |
| `system` | `MCDisputeSystem` | the case protocol implements its promise | 525 thousand |
| `milestone` | `MCMilestoneSystem` | the milestone protocol implements its promise; reviews are current and unique, and an awaited answer is taken | 372 thousand |
| `setup` | `MCWorkflowSetup` | sealed policies and active workflows are fixed; dependencies have no cycle | 263 thousand |
| `core` | `MCCoreSystem` | the core implements the same promise; its copy of the Vault's status is true | 344 thousand |
| `single_milestone` | `MCSingleMilestone` | the single contract implements the same promise | 85 thousand |
| `failed_record` | `MCCaseRepairable.cfg` | **violated**, see below | |
| `requeue` | `MCDisputeRequeue.cfg` | **violated**, see below | |
| `late_repair` | `MCMilestoneRepair.cfg` | **violated**, see below | |

Deadlock checking is off where the bounded clock lets a behaviour end.

### Bounds, and why they are enough

* `MaxTime` is at least every deadline plus one, so before, at and after each
  deadline are all reached; only the order of instants matters to the code.
* `vault`: two escrows with roles swapped let one account be payer in one and
  payee in the other; two cases let each verdict be claimed by a second case;
  every account withdraws, re-entrantly and with failing receivers.
* `case`, `case_evidence`: two issuers, publishers and records are the smallest
  set that can meet the thresholds (the code requires at least two of each);
  the third and fourth source of `case_evidence` repeat a digest and change the
  group. `MaxRevision` 3 and `MaxEvidenceVersion` 2 let a record fail, be
  replaced by a higher version, be carried on and fail again. `EvidenceLimit` 2
  or 3 instead of 8 lets the limit be met. Cases of different handoffs share
  only the stable-id table: for any number of them see `IdentityIsStable`.
* `system`: one handoff, two revisions, two deliveries, and the provider's
  withdrawals; several handoffs at once are covered by the proofs, whose
  theorems have no bound.
* `milestone`: one milestone, two challenges allowed, two submissions, two
  requests of two emissions each: enough for an answer to meet a resubmission,
  a challenge and a repeated copy of itself. The endpoints are bound late, so
  messages to an unbound contract are lost ones.
* `setup`: two owners, one policy, two workflows, three handoffs, two
  dependencies each: the shortest cycle that no single step shows has three.
* `core`: one policy and workflow of one owner, two revisions; records do not
  go stale there (`EVIDENCE_STALE` happens in the case runs), and withdrawals
  are left to `vault` and `system`.
* Issuers and sources are symmetric in `system` and `core` (`SYMMETRY`); no
  liveness is checked with symmetry.
* The workflow's owner is the requester: the owner only adds a caller.

### Fairness

* `vault`, `case`: the clock ticks. The Vault's two recoveries and the Adjudicator's `recover_case` are
  permissionless, so somebody interested will send each until it succeeds; each
  is assumed included eventually (`SF` in the Vault because a re-entrant
  withdrawal can disable and undo them). An open withdrawal ends, because gas
  does. Nothing is assumed of parties, reviewers or message delivery.
* `milestone`: an answer the Adjudicator emitted is executed (`SF`, again because
  of withdrawals), as a finalized message between contracts of one chain is;
  `record_review` is deterministic, and that it fails counts as executed
  (`AnswerIgnored`). An open withdrawal ends. Nothing is assumed of accounts, of
  the messages to the Vault, or of review requests: each of these may fail
  (`ReviewAborted`), and no participant need send it again. A milestone can
  therefore stay `REVIEW_PENDING` for ever, in the model as in the code; its
  money is then freed by the Vault's permissionless recovery (`NothingStaysLocked`,
  of the same transitions). `AnswerIsTaken` says what the contracts do ensure:
  once there is an answer to the request under way, the Registry takes it.

### What the violated runs show

* `failed_record`: `register_evidence` looks for the failure in the revision a
  record was *registered* in (line 695). A record carried forward by
  `begin_revision` that fails in a later revision is named by that later
  revision, so it can never return at a higher version, against
  `docs/TRUST_MODEL.md:32`.
* `requeue`: a queued settlement is re-emitted without asking the Vault,
  against `docs/STATE_MACHINE.md:68`. It does no harm (`SettledAsDecided`,
  `EndsOnce`). The sentence is true of the core, which does ask.
* `late_repair`: `record_review` compares a repair answer with the request only,
  not with the submission. When a request was sent twice, the second copy of
  "needs repair" puts a milestone back that was resubmitted after the first,
  against `docs/MILESTONE_SETTLEMENT.md:35`.

Two observations without a run of their own. At `now == settlement_earliest_at`
both `queue_settlement` (line 1284) and `begin_revision` (line 521) succeed, while
`docs/STATE_MACHINE.md:64` says the window *has closed*; `ResponseWindowKept` and
`DecisionIsFinal` hold nevertheless: whichever comes first wins. And
`docs/STATE_MACHINE.md:56` names a function `sync_disputed_handoff_vault_status`
that exists in the core and not in the split Registry.

## 4. The proofs

For every value of the constants that satisfies the named assumptions, without
bounds on the clock or the number of handoffs, milestones, accounts, records,
revisions or requests. `EscrowVault`, `DisputeSystem` and `MilestoneSystem`
include any number of withdrawals, re-entrant and failing ones too. `CoreSystem`
and `SingleMilestone` include none: what is proved of their Vaults is about what
the contract instructs, funding and recoveries, with every claim still unpaid.

| Module | Theorem | Says |
|---|---|---|
| `HandoffRegistryProofs` | `TypeCorrect` | types |
| | `AcceptanceExcludesDispute` | `[]AcceptXorDispute` |
| | `CompletionIsUnique` | `[]CompletionNamesAcceptedDelivery` |
| | `HorizonsAreNested` | `[]CaseWithinHandoff`, `[]ClosedAfterEveryHorizon` |
| | `FateNeverChanges` | `FateIsFixed` |
| `EscrowVaultProofs` | `TypeCorrect` | types, at most one open withdrawal |
| | `EscrowEndsOnce` | `[]EndsOnce` |
| | `EndingIsFinal` | `EndIsFinal` |
| | `VaultIsSolvent` | `[]Solvent` |
| | `EntitlementIsExact` | `[]ExactEntitlement` |
| | `CaseSettlesOne` | `[]ProcessedCaseSettledOne` |
| `CaseAdjudicatorProofs` | `TypeCorrect` | types |
| | `VerdictAlwaysCurrent` | `[]VerdictIsCurrent` |
| | `ConsequenceIsUnique` | `[]OneConsequence` |
| | `DecisionNeverChanges` | `DecisionIsFinal` |
| | `IdentityIsStable` | `[]StableIdentity` |
| | `CitationsAreIndependent` | `[]IndependentEvidence` |
| | `EvidenceIsCarried` | `[]CarriedForward` |
| | `VerdictsAreFounded` | `[]VerdictBasis` |
| | `WindowIsKept` | `ResponseWindowKept` |
| `DisputeSystemProofs` | `InstructionsNeverRival` | `[]NoRivalInstructions` |
| | `PaidAsDecided` | `[]SettledAsDecided` |
| | `ReviewStaysCurrent` | `[]ReviewedDeliveryIsCurrent` |
| | `ExpiryClosesTheCase` | `[]NoDecisionAfterExpiry` |
| | `PromiseIsKept` | the case protocol implements `SettlementPromise` |
| | `RegistryIsItself`, `VaultIsItself`, `AdjudicatorIsItself` | each contract inside the system implements its own module |
| | `SystemIsSolvent` | `[]Solvent`, `[]ExactEntitlement` of the composed system |
| | `SystemEscrowEndsOnce` | `[]EndsOnce`, `[]ProcessedCaseSettledOne`, `EndIsFinal` of it |
| | `SystemFateIsFixed` | `FateIsFixed`, `[]CompletionNamesAcceptedDelivery`, nested horizons of it |
| | `SystemEvidenceIsSound` | `[]StableIdentity`, `[]IndependentEvidence`, `[]CarriedForward` of it |
| | `SystemDecisionIsFinal` | `DecisionIsFinal`, `ResponseWindowKept`, `[]OneConsequence` of it |
| | `PaymentsAreFounded` | `[]PaymentsFounded` |
| `WorkflowSetupProofs` | `TypeCorrect` | types, ordinals |
| | `SealedPolicies` | `[]PolicyIsAsSealed` |
| | `NoDependencyCycle` | `[]DependenciesAcyclic` |
| | `TermsAreSound` | `[]ActiveTermsAreSound` |
| | `ActiveIsFixed` | `ActiveWorkflowIsFixed` |
| `MilestoneSystemProofs` | `TypeCorrect` | types, every message one its sender emits |
| | `ReviewAlwaysCurrent` | `[]ReviewIsCurrent` |
| | `ReviewIsUnique` | `[]OneReviewPerRequest` |
| | `BaselineIsAgreed` | `[]ReviewedAgainstAgreedBaseline` |
| | `OutcomeIsReviewed` | `[]PaidAsReviewed` |
| | `PromiseIsKept` | the milestone protocol implements `MilestonePromise` |
| | `AwaitedAnswersStand` | `[]AwaitedAnswerStands` |
| | `MilestonePaymentsAreFounded` | `[]MilestonePaymentsFounded` |
| | `VaultIsEscrow` | the Milestone Vault implements `EscrowVault` |
| | `MilestonesAreSolvent` | `[]Solvent`, `[]ExactEntitlement` of that Vault |
| | `MilestoneEndsOnce` | `[]EndsOnce`, `[]ProcessedCaseSettledOne`, `EndIsFinal` of it |
| `CoreSystemProofs` | `CopiesAreTrue` | `[]SyncedStatusIsTrue` |
| | `CorePromiseIsKept` | the single-contract core implements `SettlementPromise` |
| | `CoreIsAdjudicator` | its cases implement `CaseAdjudicator` |
| | `CoreEvidenceIsSound` | `[]StableIdentity`, `[]IndependentEvidence`, `[]CarriedForward` of them |
| | `CoreDecisionIsFinal` | `DecisionIsFinal`, `ResponseWindowKept`, `[]OneConsequence` of them |
| | `CoreCompletionIsUnique` | `[]CompletionNamesAcceptedDelivery` |
| | `CorePaymentsAreFounded` | `[]PaymentsFounded` |
| | `CoreDraftIsSetup` | its drafts implement `WorkflowSetup` |
| | `CoreDraftIsSound` | `[]PolicyIsAsSealed`, `[]DependenciesAcyclic`, `[]ActiveTermsAreSound`, `ActiveWorkflowIsFixed` of them |
| | `CoreVaultIsEscrow` | its Vault, from which nobody withdraws here, implements `EscrowVault` |
| | `CoreIsSolvent` | `[]Solvent`, `[]ExactEntitlement`, `[]EndsOnce`, `EndIsFinal` of it, withdrawals aside |
| | `EscrowsAreAsDrafted` | `[]EscrowIsAsDrafted` |
| `SingleMilestoneProofs` | `SinglePromiseIsKept` | the single milestone contract implements `MilestonePromise` |
| | `SingleVaultIsEscrow` | its Vault, from which nobody withdraws here, implements `EscrowVault` |
| | `SingleIsSolvent` | `[]Solvent`, `[]ExactEntitlement`, `[]EndsOnce`, `[]ProcessedCaseSettledOne`, `EndIsFinal` of it, withdrawals aside |

The assumptions: `PolicyAssumption` and `AgreedAssumption` (`HandoffRegistry`;
what the draft phase checked, and `WorkflowSetup` shows it does),
`PolicyAssumption`, `InputAssumption`, `PartiesAssumption` (`CaseAdjudicator`),
`OfferedAssumption` (`EscrowVault`, `WorkflowSetup`: types of the terms
offered), `FiniteAssumption` (`EscrowVault`: finitely many handoffs and
accounts, as any deployed contract has; a sum over infinitely many says
nothing), and, for what is composed of them:

* `SystemAssumption` (`DisputeSystem`): the assumptions of the three contracts
  together. The Registry hands its handoffs and policy over as they are, so what
  the draft phase checked is what all three were given. The accounts that
  withdraw are among the finitely many accounts.
* `SystemAssumption` (`MilestoneSystem`): `AgreedAssumption` (the terms
  `create_milestone` lets through), finitely many milestones and accounts, a
  bound on requests that is a natural number (`TypeCorrect` and all that rests
  on it hold for each such bound), and answers drawn from the repair codes and
  decisions the Adjudicator can store.
* `FiniteAssumption` (`SingleMilestone`): finitely many milestones and accounts.
* `CoreAssumption` (`CoreSystem`): types of what the owner offers, what
  `create_evidence_policy`, `add_handoff` and `_normalize_criteria` let through,
  an owner that is an account, and the Vault's finiteness.

TLC evaluates each on a run.

Each module proves `Init => Inv`, `Inv /\ [Next]_vars => Inv'` action by
action, and that `Inv` implies the properties.

* **Registry**: `IInv` adds to the properties that an accepted handoff has a
  delivery and that every completion in `net` carries the *current* version.
  The latter is inductive only together with `AcceptXorDispute`: a delivery
  repair needs a case, and a handoff with a case has no completions.
* **Vault**: `EndsOnce` alone is not inductive, because a rollback restores an
  earlier state. `RollbackOK` says the saved state satisfies it too, and that
  what ran since only extended its log; `EndIsFinal` follows from that.
* **Vault's books**: `BooksInv` says that the state, and the one an open
  `withdraw()` would restore, is balanced: what is held equals what is claimable
  and locked, and what an account got or can claim equals what ended escrows owe it. A
  payout changes one summand of each sum, a `withdraw()` moves one from
  `claimable` to `paid`. That a sum changes by what its one summand changes by
  (`SumChanged`) holds whatever order the recursive definition adds them in:
  `SummingUnique` and `SummingExists` show by a smallest subset on which it
  would fail that there is one value, so no induction over data is needed.
  `CaseInv` says the same of cases: a processed case settled one escrow now and
  in the state that would be restored, because no verdict is applied inside a call.
* **Adjudicator**: a message in `net` is tied to the decision by
  `OneConsequence`; it stays true through retries because a queued case is
  `REVIEWED` (`QueuedIsReviewed`), so no revision, failure or recovery applies,
  and because the current verdict (`VerdictIsCurrent`) is never rewritten.
* **Evidence**: that two records of one revision have different stable ids
  follows from two facts about the past: what the current revision cites is the
  last record under its id (`CitedIsLatest`), and a failed record is cited by no
  later revision (`FailedGone`). A stable id that may be used again belongs to a
  record that failed in an earlier revision, so it is not cited now
  (`NewStableId`). A verdict keeps its basis because no step changes a revision
  that was reviewed (`ReviewedIsKept`).
* **Draft phase**: dependencies point from a handoff to one with a smaller
  ordinal, so along a chain ordinals fall.
* **Case protocol**: `DInv` has three parts. *Fates*: every message under way has
  its reason in the contract that sent it, and case and context agree. *Escrow*:
  whatever ended an escrow is backed by an acceptance, a decision or expiry.
  *Frames*: the state an open `withdraw()` would restore is as sound, and only
  expiry can have happened since. What is accepted or decided persists
  (`Persists`), so a step of any contract leaves the backing of earlier endings
  alone; the refinement then maps each step to one of the promise or a stutter.
* **Each part inside the system**: a theorem about one contract speaks of the
  protocol only if nothing around that contract makes it step otherwise.
  `StepInParts` shows that it does not: what the Adjudicator reads of a handoff,
  what the Registry is shown of a case and every message the Vault takes are
  among those each module allows for on its own, which needs `DInv` (a repaired
  delivery belongs to a case that waits for one; a verdict instruction names a
  case of the handoff). So every step of the system is a step or a stutter of
  each contract's module, whose theorems carry over.
* **Payments**: no single contract sees why money moves. `PaymentsFounded` joins
  what the Vault logged (`SettledAsDecided`), that the verdict behind it is the
  case's last (`VerdictIsCurrent`), what the verdict rests on (`VerdictBasis`) and
  that the Registry still shows the delivery it is about
  (`ReviewedDeliveryIsCurrent`): money that was paid was paid on a fresh,
  corroborated verdict about the delivery that stands.
* **Milestones**: `IInv` says that every answer under way is a result the
  Adjudicator stored, every result has one receipt, and a request has one
  review; that ids never run out is a pigeonhole argument over the finitely many
  requests (`ReceiptsFit`). A review that *stands* (settlement queued) survives every step:
  a challenge needs a settlement not queued, and an answer is taken only while
  one is awaited. Escrow and rollback are argued as in the case protocol.
  `MilestonePaymentsFounded` joins `PaidAsReviewed` and `ReviewIsCurrent`: money was
  paid on a review of the last submission that saw the last challenge.
* **Awaited answers**: `AInv` adds to `IInv` that no request under way and no
  result is of a later request than the milestone's own, that those of the
  request it waits for are about the submission and challenges that stand
  (`Requested`), and that a review the Registry holds is the Adjudicator's of
  that id (`ReviewsGiven`), so the id of an awaited result is still free. A
  milestone that waits changes neither submission nor challenges (`Rests`), and
  a new request raises the number past every result there is.
* **Milestone Vault**: it keeps no set of processed cases, because an escrow can
  receive one outcome only. With that set read off the log (`Applied`) its steps
  are those of `EscrowVault`, a milestone being a handoff and a review a case: an
  outcome it takes names a review of that milestone, and no other escrow can have
  been ended by it, so it was not processed. Its solvency is then `EscrowVault`'s.
* **Core**: `CInv` needs nothing of deadlines, deliveries or drafts, only who
  decided what. A queued case keeps its verdict when the Vault's final status is
  copied over its own status (`CaseSound`), so a decision survives the
  synchronization (`Persists`). Every call moves the fate of at most one
  handoff, forwards (`Progress`). A copy is true because terminal statuses do
  not change and each has the event that explains it (`SyncSound`).
* **Core, seen as the split contracts**: the core overwrites a case's status with
  the Vault's, which the Adjudicator never does, and has no message between
  Registry and Adjudicator. `View` puts the status back that the verdict implies
  and `VerdictNet` picks out the verdict instructions; so seen, each step is one of
  `CaseAdjudicator`. In the draft phase a closed workflow is seen as the active one
  it was, for `WorkflowSetup` has no closing. `CaseAdjudicator` is shown a
  delivery that may change; `DeliverySound` says that in the core the delivery of
  a reviewed or completed handoff no longer does, which `CorePaymentsAreFounded`
  and `CoreCompletionIsUnique` rest on. The Vault is told a handoff's terms by a
  message and later messages carry the policy's fingerprint again;
  `EscrowsAreAsDrafted` says the two can never have come apart, because handoffs
  are drafted under a sealed policy only and a sealed policy does not change.
* **Single milestone**: its `SInv` has no request or answer to account for, but
  it writes a review under an id counted from those that exist. Were that id
  taken, an instructed verdict would change under the Vault's eyes; it is free
  because ids are handed out without a gap (`InOrder`, `NextIsFree`). That its Vault
  is an `EscrowVault` needs `OwnTerms` beside it: what the Vault is told of a
  milestone are its own terms and a review of its own.

**Only model-checked.** Liveness (`NothingStaysLocked`, `CaseIsDecided`,
`AnswerIsTaken`) is out of the prover's reach; of the last, the safety half is
proved (`AwaitedAnswersStand`). Every invariant and action
property of a passing run, and the four refinements the runs check, are proved.
Conversely no run repeats `ClosedAfterEveryHorizon`,
`ReviewedAgainstAgreedBaseline`, `AwaitedAnswerStands`, `PaymentsFounded`, `MilestonePaymentsFounded`,
`EscrowIsAsDrafted`, or that a part of a composed system implements its own
module: those are proved only.

## 5. What is not modelled

* Text, URIs, digests and JSON: values a property does not tell apart are one
  value. Consensus on the review is a free choice; that validators agree on
  every field that matters is not a property of this model.
* Finality: a transaction is modelled once final; reorganisation of accepted
  but not final ones is left to the chain.
* A payout's `uint256` overflow and native transfers forced onto the contract.
* The deploy artifacts: generated from the modelled sources, in compacted text.
* The frontend: it reads finalized state, sends transactions the contracts
  check again, and keeps one pending-transaction record; no contract relies on
  it.
* Withdrawals from the Vaults of the two single contracts: they are checked and
  proved where the Vault is on its own and in the two composed systems.
* Scripts and logs: file and RPC work run by hand.

## 6. Plan

1. *Done*: the case protocol, the draft phase, the milestone protocol and both
   predecessors, with the two promises they implement; proofs of every
   invariant, action property and refinement the passing runs check.
2. *Proofs left*: facts no run states, such as that in the single milestone
   contract, too, a payment's review is of the last submission and challenge, and
   how far an expired escrow can lag behind its handoff.
3. *Withdrawals* in `CoreSystem` and `SingleMilestone`, as in `DisputeSystem`
   and `MilestoneSystem`: their invariants then need the rollback of an open call.
4. *Larger instances*: two milestones of one project, and two disputed handoffs
   whose cases cite the same sources.
5. *Frontend*: the pending-transaction record and the wallet session as
   interleaved callbacks.
