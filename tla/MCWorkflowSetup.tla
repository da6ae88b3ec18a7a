--------------------------- MODULE MCWorkflowSetup ---------------------------
(***************************************************************************)
(* Instance of WorkflowSetup: two accounts that own policies and workflows *)
(* side by side, four prefixes on three hosts, and handoff terms of which  *)
(* some reach beyond a workflow's deadline.                                *)
(***************************************************************************)
EXTENDS WorkflowSetup

CONSTANTS alice, bob, p1, p2, p3, p4

MCOriginOf == [prefix \in Prefix |-> IF prefix = p3 THEN p2 ELSE prefix]

MCPolicyTerms ==
    {[minIssuers |-> 2, minPublishers |-> 2, responseWindow |-> 1, repairWindow |-> 1,
      reviewRecovery |-> 2]}

TermsUntil(funding, recovery) ==
    [requester |-> alice, provider |-> bob, principal |-> 1, bond |-> 1, criteria |-> {2},
     fundingDeadline |-> funding, deadline |-> recovery - 1, recoveryDeadline |-> recovery]

MCHandoffTerms == {TermsUntil(2, 4), TermsUntil(3, 5)}
=============================================================================
