----------------------------- MODULE ScanAttempts -----------------------------
(***************************************************************************)
(* What scan coordination promises about the rows of scan_executions, with *)
(* no scheduler, agent, lease token, late request or clock in sight:       *)
(* migration 018 (lines 6-20, "PENDING -> LEASED -> RUNNING -> SUCCEEDED / *)
(* FAILED \-> EXPIRED", "never recycled") and the unique index of          *)
(* migration 017.  A row is one attempt to scan one occurrence of a        *)
(* policy: the attempts of a policy follow one another, its scanner runs   *)
(* once, and the row ends once, by a report of what the scanner did or for *)
(* want of one.  ScanCoordination is shown to implement this module.       *)
(***************************************************************************)
EXTENDS Naturals

CONSTANTS Policy, Occurrence

VARIABLES attempt,  \* the status of each row
          scan      \* its scanner: none, running, or how it ended

attemptVars == <<attempt, scan>>

Attempt == Policy \X Occurrence

Live == {"PENDING", "LEASED", "RUNNING"}

Init ==
  /\ attempt = [x \in Attempt |-> "none"]
  /\ scan = [x \in Attempt |-> "none"]

(* The attempt before has ended, and was of an earlier occurrence.         *)
Create(p, o) ==
  /\ \A i \in Occurrence : attempt[<<p, i>>] # "none" => i < o /\ attempt[<<p, i>>] \notin Live
  /\ attempt' = [attempt EXCEPT ![<<p, o>>] = "PENDING"]
  /\ UNCHANGED scan

Lease(x) ==
  /\ attempt[x] = "PENDING"
  /\ attempt' = [attempt EXCEPT ![x] = "LEASED"]
  /\ UNCHANGED scan

(* The scanner runs, could not be started, or is given up with the request *)
(* that announced it.                                                      *)
Begin(x) ==
  /\ attempt[x] = "LEASED" /\ scan[x] = "none"
  /\ attempt' = [attempt EXCEPT ![x] = "RUNNING"]
  /\ \E s \in {"none", "running", "failed"} : scan' = [scan EXCEPT ![x] = s]

EndScan(x) ==
  /\ scan[x] = "running"
  /\ \E s \in {"ok", "failed", "killed"} : scan' = [scan EXCEPT ![x] = s]
  /\ UNCHANGED attempt

(* What is reported is what the scanner did, and it has ended.             *)
Complete(x) ==
  /\ attempt[x] = "RUNNING" /\ scan[x] \notin {"none", "running"}
  /\ attempt' = [attempt EXCEPT ![x] = IF scan[x] = "ok" THEN "SUCCEEDED" ELSE "FAILED"]
  /\ UNCHANGED scan

Leased == {x \in Attempt : attempt[x] \in {"LEASED", "RUNNING"}}

(* Nobody reports on these any more.                                       *)
Abandon(rows) ==
  /\ rows # {}
  /\ attempt' = [x \in Attempt |-> IF x \notin rows THEN attempt[x]
                                   ELSE IF attempt[x] = "LEASED" THEN "EXPIRED" ELSE "FAILED"]
  /\ UNCHANGED scan

Next ==
  \/ \E p \in Policy, o \in Occurrence : Create(p, o)
  \/ \E x \in Attempt : Lease(x) \/ Begin(x) \/ EndScan(x) \/ Complete(x)
  \/ \E rows \in SUBSET Leased : Abandon(rows)

Spec == Init /\ [][Next]_attemptVars
===============================================================================
