------------------------- MODULE MCHandoffRegistry -------------------------
(***************************************************************************)
(* Instance of HandoffRegistry: one handoff with a long recovery horizon   *)
(* and one whose horizon closes early, any answer of the Adjudicator.      *)
(***************************************************************************)
EXTENDS HandoffRegistry

CONSTANTS alice, bob, carol

MCAgreed ==
    [h \in {1, 2} |->
        [requester |-> IF h = 1 THEN alice ELSE bob,
         provider |-> IF h = 1 THEN bob ELSE carol,
         fundingDeadline |-> 2,
         recoveryDeadline |-> IF h = 1 THEN 5 ELSE 3]]

MCSnapshots ==
    [status : {"REPAIR_REQUIRED", "REVIEWED"}, queued : BOOLEAN, recoveryDeadline : {3, 5},
     failure : {"DELIVERY_UNUSABLE", "SOURCE_UNUSABLE"}]
=============================================================================
