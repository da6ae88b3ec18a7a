--------------------------- MODULE MCEscrowVault ---------------------------
(***************************************************************************)
(* Instance of EscrowVault: two escrows between the same two accounts with *)
(* swapped roles, so that one account's withdrawal can re-enter an escrow  *)
(* it funds and one it is owed from.                                       *)
(***************************************************************************)
EXTENDS EscrowVault

CONSTANTS alice, bob

MCTerms(b, r, p) ==
    [binding |-> b, requester |-> r, provider |-> p, principal |-> 2, bond |-> 1,
     fundingDeadline |-> 2, recoveryDeadline |-> 3]

MCOffered == {MCTerms(1, alice, bob), MCTerms(2, bob, alice)}
=============================================================================
