--------------------------- MODULE FindingLifecycle ---------------------------
(***************************************************************************)
(* What the platform promises about a security finding, with no controller *)
(* thread, verification row, approval or job in sight: README section 12   *)
(* and the SQL functions of database/migrations/014 and 025 that move      *)
(* unified_security_findings.lifecycle_status.                             *)
(*                                                                         *)
(* A remediation execution belongs to one finding, is live for a while and *)
(* ends once, with the finding confirmed gone or with the attempt          *)
(* abandoned.  A finding is RESOLVED only by an execution that ends        *)
(* confirmed, and is IN_REMEDIATION only while a live execution works on   *)
(* it.  RemediationExecution is shown to implement this module.            *)
(***************************************************************************)

CONSTANTS Finding, Execution, NoFinding

VARIABLES lifecycle,    \* lifecycle_status of each finding
          findingOf,    \* finding_id of each execution row
          phase         \* how far each execution is

abstractVars == <<lifecycle, findingOf, phase>>

Live(e) == phase[e] = "live"

Worked(f) == \E e \in Execution : findingOf[e] = f /\ Live(e)

Init == /\ lifecycle = [f \in Finding |-> "OPEN"]
        /\ findingOf = [e \in Execution |-> NoFinding]
        /\ phase = [e \in Execution |-> "unborn"]

(* An execution is admitted for a finding that is not RESOLVED, which is   *)
(* IN_REMEDIATION from then on.                                            *)
Admit(f, e) ==
  /\ lifecycle[f] # "RESOLVED"
  /\ phase[e] = "unborn"
  /\ lifecycle' = [lifecycle EXCEPT ![f] = "IN_REMEDIATION"]
  /\ findingOf' = [findingOf EXCEPT ![e] = f]
  /\ phase' = [phase EXCEPT ![e] = "live"]

(* An execution that starts to run claims its finding again if it was      *)
(* reopened in the meantime.                                               *)
Reassert(f) ==
  /\ lifecycle[f] = "OPEN"
  /\ Worked(f)
  /\ lifecycle' = [lifecycle EXCEPT ![f] = "IN_REMEDIATION"]
  /\ UNCHANGED <<findingOf, phase>>

(* The finding is gone: only a claimed finding is resolved.                *)
Confirm(e) ==
  /\ Live(e)
  /\ lifecycle[findingOf[e]] = "IN_REMEDIATION"
  /\ lifecycle' = [lifecycle EXCEPT ![findingOf[e]] = "RESOLVED"]
  /\ phase' = [phase EXCEPT ![e] = "confirmed"]
  /\ UNCHANGED findingOf

(* The execution failed or was cancelled: a claimed finding is reopened, a *)
(* finding in another state is left as it is.                              *)
Abandon(e) ==
  /\ Live(e)
  /\ lifecycle' = [lifecycle EXCEPT ![findingOf[e]] =
                     IF @ = "IN_REMEDIATION" THEN "OPEN" ELSE @]
  /\ phase' = [phase EXCEPT ![e] = "abandoned"]
  /\ UNCHANGED findingOf

(* A scanner reports a resolved finding again.                             *)
Recur(f) ==
  /\ lifecycle[f] = "RESOLVED"
  /\ lifecycle' = [lifecycle EXCEPT ![f] = "OPEN"]
  /\ UNCHANGED <<findingOf, phase>>

Next == \/ \E f \in Finding : Reassert(f) \/ Recur(f)
        \/ \E f \in Finding, e \in Execution : Admit(f, e)
        \/ \E e \in Execution : Confirm(e) \/ Abandon(e)

Spec == Init /\ [][Next]_abstractVars

-----------------------------------------------------------------------------

(* The values the three variables range over.                              *)
LifecycleTypeOK ==
  /\ lifecycle \in [Finding -> {"OPEN", "IN_REMEDIATION", "RESOLVED"}]
  /\ findingOf \in [Execution -> Finding \cup {NoFinding}]
  /\ phase \in [Execution -> {"unborn", "live", "confirmed", "abandoned"}]
  /\ \A e \in Execution : phase[e] = "unborn" <=> findingOf[e] = NoFinding

(* No finding is left IN_REMEDIATION with nobody working on it: nothing    *)
(* would ever take it out of that state again (claim_finding and the       *)
(* remediation queue only consider OPEN findings).                         *)
ClaimIsWorked ==
  \A f \in Finding : lifecycle[f] = "IN_REMEDIATION" => Worked(f)

=============================================================================
