------------------------- MODULE MilestoneAdjudicator -------------------------
(***************************************************************************)
(* contracts/verdict_graph_milestone_adjudicator.py: one review per        *)
(* request of the Registry, its result cached and sent back.               *)
(*                                                                         *)
(* What the validators agree on is a free choice among the results the     *)
(* evaluation can return, or nothing: then the execution fails and the     *)
(* request is gone without an answer, until a participant sends it again.  *)
(* A result that asks for repair has a code.                               *)
(***************************************************************************)
EXTENDS Integers, Sequences

CONSTANTS
    Milestone,   \* milestone ids
    MaxRequest,  \* bound: review requests per milestone
    Failures,    \* bound: the repair codes explored
    Decisions    \* bound: the decisions explored

VARIABLES
    net,       \* finalized messages under way
    results,   \* request_results, <<>> when there is none
    receipts   \* reviews, by review id; next_review_id is one more than their number

adjudicatorVars == <<results, receipts>>
vars == <<net, adjudicatorVars>>

Init ==
    /\ results = [m \in Milestone |-> [request \in 1..MaxRequest |-> <<>>]]
    /\ receipts = <<>>

Answer(m, request, attempt, result) ==
    [type |-> "answer", milestone |-> m, request |-> request, attempt |-> attempt,
     result |-> result]

\* The message is executed and leaves the net; its answer takes its place.
Reply(msg, result) ==
    net' = (net \ {msg}) \cup {Answer(msg.milestone, msg.request, msg.attempt, result)}

\* A source that cannot be fetched, from its mirror neither, is too large or does
\* not have its digest fails the review before the model sees anything.
RepairResult(context, code) ==
    [code |-> code, review |-> 0, version |-> context.version,
     challenges |-> context.challenges, decision |-> "UNDETERMINED", rule |-> 3]

\* The model's decision, with the consequence it is normalized to.
Consequence(decision) ==
    IF decision = "FAIL" THEN 2 ELSE IF decision = "PASS" THEN 1 ELSE 3

ReviewResult(context, id, decision) ==
    [code |-> "", review |-> id, version |-> context.version,
     challenges |-> context.challenges, decision |-> decision,
     rule |-> Consequence(decision)]

\* Faulty variant: the result is reviewed again for every message.
Unanswered(m, request) == TRUE
NotYetAnswered(m, request) == results[m][request] = <<>>

Record(msg, result) ==
    /\ results' = [results EXCEPT ![msg.milestone][msg.request] = result]
    /\ Reply(msg, result)

ReviewFails(msg) ==
    /\ NotYetAnswered(msg.milestone, msg.request)
    /\ \E code \in Failures : Record(msg, RepairResult(msg.context, code))
    /\ UNCHANGED receipts

ReviewSucceeds(msg) ==
    /\ NotYetAnswered(msg.milestone, msg.request)
    /\ \E decision \in Decisions :
        /\ Record(msg, ReviewResult(msg.context, Len(receipts) + 1, decision))
        /\ receipts' = Append(receipts,
               [milestone |-> msg.milestone, request |-> msg.request,
                version |-> msg.context.version, challenges |-> msg.context.challenges,
                rule |-> Consequence(decision)])

\* The model returns what cannot be normalized, or the validators do not agree: the
\* message is spent, nothing is stored and nothing is sent back.
ReviewAborted(msg) ==
    /\ NotYetAnswered(msg.milestone, msg.request)
    /\ net' = net \ {msg}
    /\ UNCHANGED adjudicatorVars

\* A repeated request is answered with the cached result.
ReviewRepeated(msg) ==
    /\ ~NotYetAnswered(msg.milestone, msg.request)
    /\ Reply(msg, results[msg.milestone][msg.request])
    /\ UNCHANGED adjudicatorVars

ReviewMilestone(msg) ==
    \/ ReviewFails(msg)
    \/ ReviewSucceeds(msg)
    \/ ReviewAborted(msg)
    \/ ReviewRepeated(msg)
=============================================================================
