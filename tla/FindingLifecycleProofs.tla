------------------------ MODULE FindingLifecycleProofs ------------------------
(***************************************************************************)
(* What the abstract lifecycle of a finding guarantees, for any findings   *)
(* and executions: RemediationExecution inherits it by implementing it.    *)
(***************************************************************************)
EXTENDS FindingLifecycle, TLAPS

(* The lifecycle's variables keep their types, and exactly the executions  *)
(* that have begun have a finding (001_schema.sql: finding_id is NOT NULL).*)
THEOREM LifecycleTypeCorrect ==
  ASSUME NoFinding \notin Finding
  PROVE  Spec => []LifecycleTypeOK
<1>1. Init => LifecycleTypeOK
  BY DEF Init, LifecycleTypeOK
<1>2. LifecycleTypeOK /\ [Next]_abstractVars => LifecycleTypeOK'
  <2> SUFFICES ASSUME LifecycleTypeOK, [Next]_abstractVars
               PROVE  LifecycleTypeOK'
    OBVIOUS
  <2> USE DEF LifecycleTypeOK
  <2>1. ASSUME NEW f \in Finding, Reassert(f) PROVE LifecycleTypeOK'
    BY <2>1 DEF Reassert
  <2>2. ASSUME NEW f \in Finding, Recur(f) PROVE LifecycleTypeOK'
    BY <2>2 DEF Recur
  <2>3. ASSUME NEW f \in Finding, NEW e \in Execution, Admit(f, e) PROVE LifecycleTypeOK'
    BY <2>3 DEF Admit
  <2>4. ASSUME NEW e \in Execution, Confirm(e) PROVE LifecycleTypeOK'
    BY <2>4 DEF Confirm, Live
  <2>5. ASSUME NEW e \in Execution, Abandon(e) PROVE LifecycleTypeOK'
    BY <2>5 DEF Abandon, Live
  <2>6. CASE UNCHANGED abstractVars
    BY <2>6 DEF abstractVars
  <2> QED
    BY <2>1, <2>2, <2>3, <2>4, <2>5, <2>6 DEF Next
<1> QED
  BY <1>1, <1>2, PTL DEF Spec

(* A finding that is IN_REMEDIATION always has a live execution: the two   *)
(* ways an execution ends take its finding out of that state, even when a  *)
(* second execution of the finding still lives (resolve_finding and        *)
(* reopen_failed_remediation of migration 014).                            *)
THEOREM ClaimsAreWorked ==
  ASSUME NoFinding \notin Finding
  PROVE  Spec => []ClaimIsWorked
<1>1. Init => ClaimIsWorked
  BY DEF Init, ClaimIsWorked
<1>2. LifecycleTypeOK /\ ClaimIsWorked /\ [Next]_abstractVars => ClaimIsWorked'
  <2> SUFFICES ASSUME LifecycleTypeOK, ClaimIsWorked, [Next]_abstractVars,
                      NEW g \in Finding, lifecycle'[g] = "IN_REMEDIATION"
               PROVE  Worked(g)'
    BY DEF ClaimIsWorked
  <2> USE DEF LifecycleTypeOK, Worked, Live
  <2>1. ASSUME NEW f \in Finding, Reassert(f) PROVE Worked(g)'
    BY <2>1 DEF Reassert, ClaimIsWorked
  <2>2. ASSUME NEW f \in Finding, Recur(f) PROVE Worked(g)'
    BY <2>2 DEF Recur, ClaimIsWorked
  <2>3. ASSUME NEW f \in Finding, NEW e \in Execution, Admit(f, e) PROVE Worked(g)'
    <3>1. CASE g = f
      BY <2>3, <3>1 DEF Admit
    <3>2. CASE g # f
      BY <2>3, <3>2 DEF Admit, ClaimIsWorked
    <3> QED
      BY <3>1, <3>2
  <2>4. ASSUME NEW e \in Execution, Confirm(e) PROVE Worked(g)'
    <3>1. findingOf[e] \in Finding /\ findingOf[e] # g
      BY <2>4 DEF Confirm
    <3> QED
      BY <2>4, <3>1 DEF Confirm, ClaimIsWorked
  <2>5. ASSUME NEW e \in Execution, Abandon(e) PROVE Worked(g)'
    <3>1. findingOf[e] \in Finding /\ findingOf[e] # g
      BY <2>5 DEF Abandon
    <3> QED
      BY <2>5, <3>1 DEF Abandon, ClaimIsWorked
  <2>6. CASE UNCHANGED abstractVars
    BY <2>6 DEF abstractVars, ClaimIsWorked
  <2> QED
    BY <2>1, <2>2, <2>3, <2>4, <2>5, <2>6 DEF Next
<1> QED
  BY <1>1, <1>2, LifecycleTypeCorrect, PTL DEF Spec

=============================================================================
