--------------------------- MODULE MilestonePromise ---------------------------
(***************************************************************************)
(* What the milestone contracts promise for each milestone: a verdict can  *)
(* be challenged a bounded number of times and is reviewed afresh each     *)
(* time; once it is final it stands, and its escrow ends once, either as   *)
(* the final verdict says or by expiry.                                    *)
(***************************************************************************)
EXTENDS Naturals

CONSTANTS Milestone, MaxChallenges

VARIABLES
    verdict,     \* the standing verdict, "none" while there is none
    challenges,  \* how often a verdict was challenged
    final,       \* whether the standing verdict is instructed to the escrow
    outcome      \* how the escrow has ended

vars == <<verdict, challenges, final, outcome>>

Verdict == {"pass", "fail", "neutral"}

Init ==
    /\ verdict = [m \in Milestone |-> "none"]
    /\ challenges = [m \in Milestone |-> 0]
    /\ final = [m \in Milestone |-> FALSE]
    /\ outcome = [m \in Milestone |-> "pending"]

Review(m, v) ==
    /\ verdict[m] = "none"
    /\ verdict' = [verdict EXCEPT ![m] = v]
    /\ UNCHANGED <<challenges, final, outcome>>

Challenge(m) ==
    /\ verdict[m] # "none"
    /\ ~final[m]
    /\ challenges[m] < MaxChallenges
    /\ verdict' = [verdict EXCEPT ![m] = "none"]
    /\ challenges' = [challenges EXCEPT ![m] = @ + 1]
    /\ UNCHANGED <<final, outcome>>

Finalize(m) ==
    /\ verdict[m] # "none"
    /\ ~final[m]
    /\ final' = [final EXCEPT ![m] = TRUE]
    /\ UNCHANGED <<verdict, challenges, outcome>>

Settle(m) ==
    /\ final[m]
    /\ outcome[m] = "pending"
    /\ outcome' = [outcome EXCEPT ![m] = verdict[m]]
    /\ UNCHANGED <<verdict, challenges, final>>

\* One transaction may recover several expired escrows, whatever was decided.
Expire(S) ==
    /\ \A m \in S : outcome[m] = "pending"
    /\ outcome' = [m \in Milestone |-> IF m \in S THEN "expired" ELSE outcome[m]]
    /\ UNCHANGED <<verdict, challenges, final>>

Next ==
    \/ \E m \in Milestone :
        \/ \E v \in Verdict : Review(m, v)
        \/ Challenge(m)
        \/ Finalize(m)
        \/ Settle(m)
    \/ \E S \in SUBSET Milestone : Expire(S)

Spec == Init /\ [][Next]_vars
=============================================================================
