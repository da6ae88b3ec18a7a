---------------------------- MODULE MilestoneVault ----------------------------
(***************************************************************************)
(* The escrow of evm/contracts/VerdictGraphMilestoneVault.sol.  It differs *)
(* from the escrow of EscrowVault in its single controller and the one     *)
(* kind of payout message; funding, expiry and the re-entrant withdrawal   *)
(* are statement for statement the same, so their actions are taken from   *)
(* there: owner and beneficiary are the requester and the provider, and    *)
(* termsSha256 is the binding.                                             *)
(*                                                                         *)
(* processedMilestones[m] is set by exactly the two statements that make   *)
(* an ACTIVE escrow terminal, so it says nothing the status does not.      *)
(***************************************************************************)
EXTENDS Integers, Sequences

CONSTANTS
    Milestone,  \* milestone ids
    ReviewId,   \* review ids
    Account,    \* addresses other than zero
    Digest,     \* terms digests
    MaxTime     \* bound: the clock stops here

VARIABLES now, status, terms, claimable, balance, paid, log, frames

vaultVars == <<status, terms, claimable, balance, paid, log, frames>>
vars == <<now, vaultVars>>

E == INSTANCE EscrowVault
    WITH Handoff <- Milestone, Case <- ReviewId, Binding <- Digest,
         Offered <- {}, processed <- {}

Rule == 1..3

Init == E!Init
Tick == E!Tick
TopLevel == E!TopLevel

-----------------------------------------------------------------------------
(* Messages of the Registry.                                               *)

RegisterMilestone(m, t) == E!RegisterHandoff(m, t)

\* Identical terms are ignored; the terms are validated before, so after the
\* funding deadline the call reverts instead.
RegistrationIgnored(m, t) ==
    /\ E!ValidTerms(t)
    /\ E!RegistrationIgnored(m, t)

Applicable(m) ==
    /\ status[m] = "ACTIVE"
    /\ now <= terms[m].recoveryDeadline

ApplyFinalOutcome(m, digest, review, r) ==
    /\ TopLevel
    /\ Applicable(m)
    /\ terms[m].binding = digest
    /\ claimable' = E!Consequence(claimable, terms[m], r)
    /\ E!Close(m, "SETTLED", E!VerdictApplied(review, r))
    /\ UNCHANGED <<now, terms, balance, paid, frames>>

OutcomeIgnored(m, digest) ==
    /\ TopLevel
    /\ status[m] # "NONE"
    /\ ~Applicable(m)
    /\ terms[m].binding = digest
    /\ UNCHANGED vars

-----------------------------------------------------------------------------
(* Calls of accounts; recover_active is also a message of the Registry.    *)

FundMilestone(m, a) == E!FundHandoff(m, a)
PostBond(m, a) == E!PostBond(m, a)
RecoverUnactivated(m) == E!RecoverUnactivated(m)
RecoverActive(m) == E!RecoverActive(m)
Withdraw(a) == E!Withdraw(a)
WithdrawReturns == E!WithdrawReturns
WithdrawReverts == E!WithdrawReverts
=============================================================================
