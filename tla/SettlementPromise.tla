-------------------------- MODULE SettlementPromise --------------------------
(***************************************************************************)
(* What the three contracts together promise for each handoff: its fate is *)
(* decided once, by the requester's acceptance or, after a dispute locked  *)
(* it, by one verdict; its escrow ends once, either as decided or by       *)
(* expiry.  Messages, revisions, retries and deadlines do not appear.      *)
(***************************************************************************)
CONSTANT Handoff

VARIABLES
    fate,     \* how the handoff is to end, as far as it is decided
    outcome   \* how its escrow has ended

vars == <<fate, outcome>>

Consequence == {"release", "breach", "neutral"}
Decided == {"accepted"} \cup Consequence
Fate == {"open", "disputed"} \cup Decided
Outcome == {"pending", "expired"} \cup Decided

TypeOK ==
    /\ fate \in [Handoff -> Fate]
    /\ outcome \in [Handoff -> Outcome]

Init ==
    /\ fate = [h \in Handoff |-> "open"]
    /\ outcome = [h \in Handoff |-> "pending"]

Accept(h) ==
    /\ fate[h] = "open"
    /\ fate' = [fate EXCEPT ![h] = "accepted"]
    /\ UNCHANGED outcome

Dispute(h) ==
    /\ fate[h] = "open"
    /\ fate' = [fate EXCEPT ![h] = "disputed"]
    /\ UNCHANGED outcome

Decide(h, consequence) ==
    /\ fate[h] = "disputed"
    /\ fate' = [fate EXCEPT ![h] = consequence]
    /\ UNCHANGED outcome

Settle(h) ==
    /\ fate[h] \in Decided
    /\ outcome[h] = "pending"
    /\ outcome' = [outcome EXCEPT ![h] = fate[h]]
    /\ UNCHANGED fate

\* One transaction may recover several expired escrows, whatever their fate.
Expire(S) ==
    /\ \A h \in S : outcome[h] = "pending"
    /\ outcome' = [h \in Handoff |-> IF h \in S THEN "expired" ELSE outcome[h]]
    /\ UNCHANGED fate

Next ==
    \/ \E h \in Handoff :
        \/ Accept(h)
        \/ Dispute(h)
        \/ \E consequence \in Consequence : Decide(h, consequence)
        \/ Settle(h)
    \/ \E S \in SUBSET Handoff : Expire(S)

Spec == Init /\ [][Next]_vars
=============================================================================
