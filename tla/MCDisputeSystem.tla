-------------------------- MODULE MCDisputeSystem --------------------------
(***************************************************************************)
(* Instance of DisputeSystem: handoffs between two accounts, one of which  *)
(* owns the workflow, and two issuers with one record each.                *)
(***************************************************************************)
EXTENDS DisputeSystem, TLC

CONSTANTS requester, provider, issuer1, issuer2, s1, s2

MCAgreed ==
    [h \in Handoff |->
        [binding |-> 1, requester |-> requester, provider |-> provider,
         principal |-> 2, bond |-> 1, fundingDeadline |-> 2, recoveryDeadline |-> 3]]

\* A source's stable id also stands for its publisher and its digest.
Cite(s) == [stable |-> s, publisher |-> s, digest |-> s, group |-> "g"]
MCSource == {Cite(s1), Cite(s2)}

Interchangeable == Permutations({issuer1, issuer2}) \cup Permutations({s1, s2})
=============================================================================
