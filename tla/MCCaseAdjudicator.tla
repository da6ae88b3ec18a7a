------------------------- MODULE MCCaseAdjudicator -------------------------
(***************************************************************************)
(* Instance of CaseAdjudicator: two parties, two issuers, and two sources  *)
(* that corroborate each other.                                            *)
(***************************************************************************)
EXTENDS CaseAdjudicator

CONSTANTS requester, provider, issuer1, issuer2

Cite(s, p, d) == [stable |-> s, publisher |-> p, digest |-> d, group |-> "g"]
MCSource == {Cite("s1", "p1", "d1"), Cite("s2", "p2", "d2")}

\* A third source repeats the first one's bytes under an id of its own, and a
\* fourth is about another corroboration group.
MCManySources ==
    MCSource \cup {Cite("s3", "p2", "d1"), [Cite("s2", "p1", "d3") EXCEPT !.group = "other"]}

MCRequester == [c \in Case |-> requester]
MCProvider == [c \in Case |-> provider]
MCContexts == {[responseDeadline |-> 2, recoveryDeadline |-> 4]}
MCShortContexts == {[responseDeadline |-> 2, recoveryDeadline |-> 3]}
=============================================================================
