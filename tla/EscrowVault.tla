----------------------------- MODULE EscrowVault -----------------------------
(***************************************************************************)
(* The native-GEN escrow of evm/contracts/VerdictGraphVault.sol.           *)
(*                                                                         *)
(* An action is one successful external call; a call that reverts is a     *)
(* disabled action.  The one call that hands control to foreign code,      *)
(* withdraw(), is split at its external call: while the receiver runs,     *)
(* `frames` holds the open call and every public function may be entered   *)
(* again before it returns or fails.  block.timestamp is `now`, which      *)
(* stands still inside a transaction.                                      *)
(***************************************************************************)
EXTENDS Integers, Sequences, FiniteSets, Functions

CONSTANTS
    Handoff,   \* handoff ids
    Case,      \* dispute case ids
    Account,   \* addresses other than zero
    Binding,   \* pairs of workflow id and policy fingerprint
    Offered,   \* the terms the Registry may ask to register
    MaxTime    \* bound: the clock stops here

VARIABLES
    now,        \* block.timestamp
    status,     \* handoffs[h].status
    terms,      \* the other fields of handoffs[h], <<>> before registration
    processed,  \* the cases c with processedCases[c]
    claimable,  \* claimable[a]
    balance,    \* native balance of the contract
    paid,       \* what the contract ever transferred to each account
    log,        \* per handoff, the terminal events emitted for it
    frames      \* the open withdraw() call, if any; _withdrawLock is Len(frames) + 1

vars == <<now, status, terms, processed, claimable, balance, paid, log, frames>>

Status == {"NONE", "REGISTERED", "FUNDED", "ACTIVE", "SETTLED", "RECOVERED"}
Terminal == {"SETTLED", "RECOVERED"}
Rule == 1..3
RELEASE_PROVIDER == 1
PROVIDER_BREACH == 2
NEUTRAL_RECOVERY == 3

Terms == [binding : Binding, requester : Account, provider : Account,
          principal : Nat, bond : Nat,
          fundingDeadline : Nat, recoveryDeadline : Nat]

ASSUME OfferedAssumption == Offered \subseteq Terms

\* Ids are bytes32 and addresses 160 bits wide.
ASSUME FiniteAssumption == IsFiniteSet(Handoff) /\ IsFiniteSet(Account)

HandoffCompleted == [kind |-> "HandoffCompleted"]
VerdictApplied(c, r) == [kind |-> "VerdictApplied", case |-> c, rule |-> r]
EscrowRecovered(why) == [kind |-> "EscrowRecovered", reason |-> why]
TerminalEvent ==
    {HandoffCompleted}
    \cup {VerdictApplied(c, r) : c \in Case, r \in Rule}
    \cup {EscrowRecovered(w) : w \in {"UNFUNDED_EXPIRED", "BOND_NOT_POSTED",
                                      "FINAL_VERDICT_DEADLINE_EXPIRED"}}

\* What a failing withdraw() rolls back: everything a re-entrant call can change.
Saved == [status |-> status, claimable |-> claimable, balance |-> balance,
          paid |-> paid, log |-> log]
SavedState == [status : [Handoff -> Status], claimable : [Account -> Nat],
               balance : Int, paid : [Account -> Nat],
               log : [Handoff -> Seq(TerminalEvent)]]

Init ==
    /\ now = 1
    /\ status = [h \in Handoff |-> "NONE"]
    /\ terms = [h \in Handoff |-> <<>>]
    /\ processed = {}
    /\ claimable = [a \in Account |-> 0]
    /\ balance = 0
    /\ paid = [a \in Account |-> 0]
    /\ log = [h \in Handoff |-> <<>>]
    /\ frames = <<>>

\* No transaction is in the middle of an external call.
TopLevel == frames = <<>>

Credit(claims, a, amount) == [claims EXCEPT ![a] = @ + amount]

\* A terminal transition: the status it stores and the event it emits.
Close(h, s, event) ==
    /\ status' = [status EXCEPT ![h] = s]
    /\ log' = [log EXCEPT ![h] = Append(@, event)]

Tick ==
    /\ TopLevel
    /\ now < MaxTime
    /\ now' = now + 1
    /\ UNCHANGED <<status, terms, processed, claimable, balance, paid, log, frames>>

-----------------------------------------------------------------------------
(* Messages from the two controllers: each a transaction of its own.       *)

ValidTerms(t) ==
    /\ t.requester # t.provider
    /\ t.principal > 0
    /\ t.bond > 0
    /\ t.fundingDeadline > now
    /\ t.recoveryDeadline > t.fundingDeadline

RegisterHandoff(h, t) ==
    /\ TopLevel
    /\ status[h] = "NONE"
    /\ ValidTerms(t)
    /\ terms' = [terms EXCEPT ![h] = t]
    /\ status' = [status EXCEPT ![h] = "REGISTERED"]
    /\ UNCHANGED <<now, processed, claimable, balance, paid, log, frames>>

\* A second registration with identical terms is ignored, with others it reverts.
RegistrationIgnored(h, t) ==
    /\ TopLevel
    /\ status[h] # "NONE"
    /\ terms[h] = t
    /\ UNCHANGED vars

ApplyHandoffCompletion(h, b) ==
    /\ TopLevel
    /\ status[h] = "ACTIVE"
    /\ terms[h].binding = b
    /\ claimable' = Credit(claimable, terms[h].provider, terms[h].principal + terms[h].bond)
    /\ Close(h, "SETTLED", HandoffCompleted)
    /\ UNCHANGED <<now, terms, processed, balance, paid, frames>>

CompletionIgnored(h, b) ==
    /\ TopLevel
    /\ status[h] \notin {"NONE", "ACTIVE"}
    /\ terms[h].binding = b
    /\ UNCHANGED vars

\* Faulty variants: the bond stays behind on a release; a breach pays the provider.
ConsequenceWithoutBond(claims, t, r) ==
    CASE r = RELEASE_PROVIDER -> Credit(claims, t.provider, t.principal)
      [] r = PROVIDER_BREACH -> Credit(claims, t.requester, t.principal + t.bond)
      [] OTHER -> Credit(Credit(claims, t.requester, t.principal), t.provider, t.bond)
ConsequenceSwapped(claims, t, r) ==
    IF r \in {RELEASE_PROVIDER, PROVIDER_BREACH}
    THEN Credit(claims, t.provider, t.principal + t.bond)
    ELSE Credit(Credit(claims, t.requester, t.principal), t.provider, t.bond)

\* The claims after consequence r is applied to an escrow with terms t.
Consequence(claims, t, r) ==
    CASE r = RELEASE_PROVIDER -> Credit(claims, t.provider, t.principal + t.bond)
      [] r = PROVIDER_BREACH -> Credit(claims, t.requester, t.principal + t.bond)
      [] OTHER -> Credit(Credit(claims, t.requester, t.principal), t.provider, t.bond)

ApplyFinalVerdict(c, h, b, r) ==
    /\ TopLevel
    /\ status[h] = "ACTIVE"
    /\ terms[h].binding = b
    /\ c \notin processed
    /\ processed' = processed \cup {c}
    /\ claimable' = Consequence(claimable, terms[h], r)
    /\ Close(h, "SETTLED", VerdictApplied(c, r))
    /\ UNCHANGED <<now, terms, balance, paid, frames>>

\* Faulty variant: a premature message consumes the case.
VerdictConsumed(c, h, b) ==
    /\ TopLevel
    /\ status[h] # "NONE"
    /\ terms[h].binding = b
    /\ c \in processed \/ status[h] # "ACTIVE"
    /\ processed' = processed \cup {c}
    /\ UNCHANGED <<now, status, terms, claimable, balance, paid, log, frames>>

\* A processed case, or an escrow that is not ACTIVE: the case is not consumed.
VerdictIgnored(c, h, b) ==
    /\ TopLevel
    /\ status[h] # "NONE"
    /\ terms[h].binding = b
    /\ c \in processed \/ status[h] # "ACTIVE"
    /\ UNCHANGED vars

-----------------------------------------------------------------------------
(* Calls of accounts: at top level or from inside a receiver's code.       *)

FundHandoff(h, a) ==
    /\ status[h] = "REGISTERED"
    /\ a = terms[h].requester
    /\ now <= terms[h].fundingDeadline
    /\ status' = [status EXCEPT ![h] = "FUNDED"]
    /\ balance' = balance + terms[h].principal
    /\ UNCHANGED <<now, terms, processed, claimable, paid, log, frames>>

PostBond(h, a) ==
    /\ status[h] = "FUNDED"
    /\ a = terms[h].provider
    /\ now <= terms[h].fundingDeadline
    /\ status' = [status EXCEPT ![h] = "ACTIVE"]
    /\ balance' = balance + terms[h].bond
    /\ UNCHANGED <<now, terms, processed, claimable, paid, log, frames>>

\* Faulty variant: an escrow that was never funded is forgotten.
RecoverFundedOnly(h) ==
    /\ status[h] = "FUNDED"
    /\ Close(h, "RECOVERED", EscrowRecovered("BOND_NOT_POSTED"))
    /\ claimable' = Credit(claimable, terms[h].requester, terms[h].principal)
    /\ now > terms[h].fundingDeadline
    /\ UNCHANGED <<now, terms, processed, balance, paid, frames>>

RecoverUnactivated(h) ==
    /\ \/ /\ status[h] = "REGISTERED"
          /\ Close(h, "RECOVERED", EscrowRecovered("UNFUNDED_EXPIRED"))
          /\ UNCHANGED claimable
       \/ /\ status[h] = "FUNDED"
          /\ Close(h, "RECOVERED", EscrowRecovered("BOND_NOT_POSTED"))
          /\ claimable' = Credit(claimable, terms[h].requester, terms[h].principal)
    /\ now > terms[h].fundingDeadline
    /\ UNCHANGED <<now, terms, processed, balance, paid, frames>>

\* Faulty variant: the status test lets a settled escrow through.
RecoverActiveOrSettled(h) ==
    /\ status[h] \in {"ACTIVE", "SETTLED"}
    /\ now > terms[h].recoveryDeadline
    /\ claimable' = Credit(Credit(claimable, terms[h].requester, terms[h].principal),
                           terms[h].provider, terms[h].bond)
    /\ Close(h, "RECOVERED", EscrowRecovered("FINAL_VERDICT_DEADLINE_EXPIRED"))
    /\ UNCHANGED <<now, terms, processed, balance, paid, frames>>

RecoverActive(h) ==
    /\ status[h] = "ACTIVE"
    /\ now > terms[h].recoveryDeadline
    /\ claimable' = Credit(Credit(claimable, terms[h].requester, terms[h].principal),
                           terms[h].provider, terms[h].bond)
    /\ Close(h, "RECOVERED", EscrowRecovered("FINAL_VERDICT_DEADLINE_EXPIRED"))
    /\ UNCHANGED <<now, terms, processed, balance, paid, frames>>

\* The nonReentrant modifier, and a faulty variant that never locks.
Reentrant == TRUE
NonReentrant == frames = <<>>

\* withdraw() up to its external call: the claim is cleared, the value is sent.
Withdraw(a) ==
    /\ NonReentrant
    /\ claimable[a] > 0
    /\ claimable' = [claimable EXCEPT ![a] = 0]
    /\ balance' = balance - claimable[a]
    /\ paid' = [paid EXCEPT ![a] = @ + claimable[a]]
    /\ frames' = <<[account |-> a, saved |-> Saved]>> \o frames
    /\ UNCHANGED <<now, status, terms, processed, log>>

\* The receiver returns: the transaction commits.
WithdrawReturns ==
    /\ frames # <<>>
    /\ frames' = Tail(frames)
    /\ UNCHANGED <<now, status, terms, processed, claimable, balance, paid, log>>

\* The receiver fails: WithdrawalFailed rolls the whole transaction back.
WithdrawReverts ==
    /\ frames # <<>>
    /\ LET s == Head(frames).saved
       IN  /\ status' = s.status
           /\ claimable' = s.claimable
           /\ balance' = s.balance
           /\ paid' = s.paid
           /\ log' = s.log
    /\ frames' = Tail(frames)
    /\ UNCHANGED <<now, terms, processed>>

-----------------------------------------------------------------------------
\* The controllers' messages, in any order: what the Registry and the
\* Adjudicator guarantee about them is not assumed here.
ControllerMessage(h) ==
    \/ \E t \in Offered : RegisterHandoff(h, t) \/ RegistrationIgnored(h, t)
    \/ \E b \in Binding : ApplyHandoffCompletion(h, b) \/ CompletionIgnored(h, b)
    \/ \E c \in Case, b \in Binding :
          VerdictIgnored(c, h, b) \/ \E r \in Rule : ApplyFinalVerdict(c, h, b, r)

AccountCall(h) ==
    \/ \E a \in Account : FundHandoff(h, a) \/ PostBond(h, a)
    \/ RecoverUnactivated(h)
    \/ RecoverActive(h)

Next ==
    \/ Tick
    \/ \E h \in Handoff : ControllerMessage(h) \/ AccountCall(h)
    \/ \E a \in Account : Withdraw(a)
    \/ WithdrawReturns
    \/ WithdrawReverts

Spec == Init /\ [][Next]_vars

\* The wall clock does not stop, every call ends (gas), and somebody who keeps
\* sending the two permissionless recovery transactions gets each included
\* eventually.  Strong fairness, because an open withdraw() keeps disabling a
\* top-level call and a recovery made inside it may be rolled back.
Recover(h) == TopLevel /\ (RecoverUnactivated(h) \/ RecoverActive(h))
Fairness ==
    /\ SF_vars(Tick)
    /\ WF_vars(WithdrawReturns \/ WithdrawReverts)
    /\ \A h \in Handoff : SF_vars(Recover(h))

FairSpec == Spec /\ Fairness

-----------------------------------------------------------------------------
(* Properties.                                                             *)

\* The state ranges over its types; a status other than NONE has its terms, and
\* at most one withdraw() is open (the reentrancy lock).
TypeOK ==
    /\ now \in Nat
    /\ status \in [Handoff -> Status]
    /\ terms \in [Handoff -> Terms \cup {<<>>}]
    /\ processed \subseteq Case
    /\ claimable \in [Account -> Nat]
    /\ balance \in Int
    /\ paid \in [Account -> Nat]
    /\ log \in [Handoff -> Seq(TerminalEvent)]
    /\ frames \in Seq([account : Account, saved : SavedState])
    /\ Len(frames) <= 1
    /\ \A h \in Handoff : status[h] # "NONE" => terms[h] \in Terms

\* What an escrow of status s with terms t holds: the principal once funded, and
\* the bond once active.
Locked(s, t) ==
    CASE s = "FUNDED" -> t.principal
      [] s = "ACTIVE" -> t.principal + t.bond
      [] OTHER -> 0

\* The contract holds exactly what it owes: every claimable amount and every
\* locked escrow is covered, and nothing is stranded, also in the middle of a
\* withdrawal's external call and after its rollback (withdraw, fund_handoff,
\* post_bond and the four payout paths together).
Solvent ==
    balance = SumFunction(claimable)
              + SumFunction([h \in Handoff |-> Locked(status[h], terms[h])])

\* What event e, closing an escrow with terms t, gives back of it, and the part
\* due to the requester (docs/ARCHITECTURE.md: release, breach, neutral; an escrow
\* that expired with only its principal funded returns just that).
Escrowed(t, e) ==
    IF e.kind = "EscrowRecovered"
    THEN CASE e.reason = "UNFUNDED_EXPIRED" -> 0
           [] e.reason = "BOND_NOT_POSTED" -> t.principal
           [] OTHER -> t.principal + t.bond
    ELSE t.principal + t.bond

ToRequester(t, e) ==
    CASE e.kind = "HandoffCompleted" -> 0
      [] e.kind = "VerdictApplied" ->
            (CASE e.rule = RELEASE_PROVIDER -> 0
               [] e.rule = PROVIDER_BREACH -> t.principal + t.bond
               [] OTHER -> t.principal)
      [] OTHER -> IF e.reason = "UNFUNDED_EXPIRED" THEN 0 ELSE t.principal

DueTo(a, t, e) ==
    (IF a = t.requester THEN ToRequester(t, e) ELSE 0)
    + (IF a = t.provider THEN Escrowed(t, e) - ToRequester(t, e) ELSE 0)

\* What the escrow with these terms and terminal events has brought account a.
Share(a, t, events) == IF events = <<>> THEN 0 ELSE DueTo(a, t, Head(events))

\* Every account has received or can claim exactly what the terminal events of
\* all escrows entitle it to: nobody is paid twice, short or for another, through
\* any sequence of payouts, re-entrant withdrawals and rolled-back transfers.
ExactEntitlement ==
    \A a \in Account :
        claimable[a] + paid[a] = SumFunction([h \in Handoff |-> Share(a, terms[h], log[h])])

\* An escrow ends at most once, and it is terminal exactly when its one terminal
\* event was emitted, whatever duplicates, late messages and recoveries arrive.
EndsOnce ==
    \A h \in Handoff : Len(log[h]) = IF status[h] \in Terminal THEN 1 ELSE 0

\* processedCases is consumed only by a consequence that executed: each processed
\* case settled exactly one escrow, and every applied verdict is marked processed,
\* so a premature message stays retryable and a case never pays two escrows.
ProcessedCaseSettledOne ==
    \A c \in Case :
        LET settled == {h \in Handoff : \E r \in Rule : log[h] = <<VerdictApplied(c, r)>>}
        IN  Cardinality(settled) = IF c \in processed THEN 1 ELSE 0

\* The terminal events of committed transactions only.
CommittedLog == IF frames = <<>> THEN log ELSE Head(frames).saved.log

\* Once a transaction that ended an escrow has committed, its event is never
\* replaced or withdrawn: rollbacks undo only what their own call did.
EndIsFinal ==
    [][\A h \in Handoff : CommittedLog[h] # <<>> => CommittedLog'[h] = CommittedLog[h]]_vars

\* Funds never stay locked: a registered escrow reaches a committed terminal state
\* even if no controller message ever arrives and receivers keep re-entering the
\* contract and failing (recover_unactivated, recover_active).
NothingStaysLocked ==
    \A h \in Handoff : status[h] # "NONE" ~> TopLevel /\ status[h] \in Terminal
=============================================================================
