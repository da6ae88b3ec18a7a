--------------------------- MODULE MCCoreSystem ---------------------------
(***************************************************************************)
(* Instance of CoreSystem: one handoff between the owner and a provider,   *)
(* who are also the two issuers, each source with a publisher of its own.  *)
(***************************************************************************)
EXTENDS CoreSystem, TLC

CONSTANTS requester, provider, s1, s2

MCAgreed ==
    [h \in Handoff |->
        [requester |-> requester, provider |-> provider, principal |-> 2, bond |-> 1,
         criteria |-> {2}, fundingDeadline |-> 2, deadline |-> 3, recoveryDeadline |-> 4]]

MCPolicy == [minIssuers |-> 2, minPublishers |-> 2, responseWindow |-> 1, repairWindow |-> 1,
             reviewRecovery |-> 2]

Cite(s) == [stable |-> s, publisher |-> s, digest |-> s, group |-> "g"]
MCSource == {Cite(s1), Cite(s2)}
Interchangeable == Permutations({s1, s2})
=============================================================================
