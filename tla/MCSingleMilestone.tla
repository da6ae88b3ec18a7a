-------------------------- MODULE MCSingleMilestone --------------------------
(***************************************************************************)
(* Instance of SingleMilestone: a sponsor, who also deployed the contract, *)
(* and a beneficiary.                                                      *)
(***************************************************************************)
EXTENDS SingleMilestone

CONSTANTS sponsor, beneficiary, project

MCAgreed ==
    [m \in Milestone |->
        [project |-> project, beneficiary |-> beneficiary, principal |-> 2, bond |-> 1,
         fundingDeadline |-> 2, submissionDeadline |-> 3, recoveryDeadline |-> 4,
         challengeWindow |-> 1]]
=============================================================================
