-------------------------- MODULE MCMilestoneSystem --------------------------
(***************************************************************************)
(* Instance of MilestoneSystem: one project and its milestones between a   *)
(* sponsor, who also deployed the Registry, and a beneficiary.             *)
(***************************************************************************)
EXTENDS MilestoneSystem

CONSTANTS sponsor, beneficiary, project

MCAgreed ==
    [m \in Milestone |->
        [project |-> project, beneficiary |-> beneficiary, principal |-> 2, bond |-> 1,
         fundingDeadline |-> 2, submissionDeadline |-> 3, recoveryDeadline |-> 4,
         challengeWindow |-> 1]]
=============================================================================
