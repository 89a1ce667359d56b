------------------------ MODULE MCRemediationExecution ------------------------
(***************************************************************************)
(* Instances of RemediationExecution for TLC.  execution_id is a sequence: *)
(* identities are handed out in order, which stands in for a symmetry that *)
(* liveness would not allow.  Findings share nothing else, so the runs     *)
(* look at all the executions on one finding, and on two findings leave    *)
(* one execution unused.                                                   *)
(***************************************************************************)
EXTENDS RemediationExecution

HandedOutInOrder ==
  \A d, e \in Execution : d < e /\ status'[e] # "none" => status'[d] # "none"

OneUnusedOnTwoFindings ==
  \/ \E f \in Finding : \A e \in Execution : findingOf'[e] \in {f, NoFinding}
  \/ \E e \in Execution : status'[e] = "none"

MCNext == Next /\ HandedOutInOrder /\ OneUnusedOnTwoFindings

MCSpec == Init /\ [][MCNext]_vars /\ Fairness

=============================================================================
