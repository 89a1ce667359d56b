------------------------- MODULE OpenVASOrchestrator -------------------------
(***************************************************************************)
(* scanner_orchestrators/openvas_orchestrator.py: the findings filed for   *)
(* the report of a completed task, and what Stage 2 concludes from the     *)
(* report of a run of the same task.  Constant-level: ScannerVerification  *)
(* supplies the state.                                                     *)
(*                                                                         *)
(* A result is a record                                                    *)
(*   host, port   where it was found; the port may be "general"            *)
(*   oid          the test (NVT) that found it, "" if unknown              *)
(*   cves         its CVE ids, sorted                                      *)
(*   vuln         its name                                                 *)
(*   name, text   the class markers that occur in it                       *)
(***************************************************************************)
EXTENDS ScannerCommon

ClassRules == <<
  Rule("default_credentials",      {}, {"default credential", "default password", "factory password"}, {}),
  Rule("authentication_weakness",  {}, {"authentication bypass", "anonymous login", "no authentication"}, {}),
  Rule("certificate_issue",        {}, {"expired certificate", "self-signed certificate", "untrusted certificate"}, {}),
  Rule("weak_cryptography",        {}, {"weak cipher", "weak encryption", "rc4", "3des"}, {}),
  Rule("insecure_protocol",        {}, {"sslv3", "tls 1.0", "tls 1.1", "telnet", "cleartext protocol"}, {}),
  Rule("unsupported_software",     {}, {"end of life", "unsupported version"}, {}),
  Rule("network_service_exposure", {}, {"service exposed", "database exposed", "unrestricted access"}, {}),
  Rule("service_misconfiguration", {}, {"misconfiguration", "directory listing", "http trace enabled"}, {}) >>

FindingClass(r) ==
    FirstClass(ClassRules, r,
               IF r.port \notin {"general", "0"} \/ r.cves = <<>> THEN "network_service_vulnerability" ELSE "cve")

FindingClasses == Classes(ClassRules) \cup {"network_service_vulnerability", "cve"}

\* The first CVE alone, whatever the port and the test; else the test and the port.
FindingKey(r) ==
    CASE r.cves # <<>>               -> <<r.cves[1]>>
      [] r.cves = <<>> /\ r.oid # "" -> <<"OPENVAS-NVT", r.oid, r.port>>
      [] OTHER                       -> <<"OPENVAS", r.vuln, r.port>>

\* Tasks are named TENANT__TIER__SCAN; any other name is refused, for a scan, for a webhook
\* call and for a verification.
TaskNameParses(task) == task.tenant # "" /\ task.tier \in {"GOLD", "STANDARD", "BRONZE"} /\ task.scan # ""

\* A result without a host is skipped as malformed.
Filed(task, r) ==
    IF r.host = "" THEN {}
    ELSE {[host |-> r.host, key |-> FindingKey(r), class |-> FindingClass(r),
           meta |-> [task |-> task, oid |-> r.oid, port |-> r.port]]}

CvesOf(r) == {r.cves[i] : i \in DOMAIN r.cves}

\* A key of one element that is no NVT key is a CVE.
RequestedCve(req) == IF Len(req.key) = 1 THEN {req.key[1]} ELSE {}

\* Host and, if known, port must be those of the finding; then the test, and the CVE of the
\* key if there is one; then the CVE; then the key.
ResultMatches(req, r) ==
    /\ r.host = req.host
    /\ r.port = req.meta.port
    /\ IF req.meta.oid # ""
       THEN r.oid = req.meta.oid /\ RequestedCve(req) \subseteq CvesOf(r)
       ELSE IF RequestedCve(req) # {} THEN RequestedCve(req) \subseteq CvesOf(r)
       ELSE FindingKey(r) = req.key

\* The poll after start_task: the report of a task seen Done is the last one of the very
\* answer that said so; a task that was stopped, or is not done in time, raises.
RunReport(run) ==
    CASE run.status = "Done" -> "report"
      [] run.status \in {"Stopped", "Interrupted", "Delete Requested"} -> "error"
      [] OTHER -> "error"

Verify(req, run) ==
    IF req.class \notin FindingClasses \/ ~TaskNameParses(req.meta.task) \/ RunReport(run) = "error"
    THEN "error"
    ELSE IF \E r \in run.results : ResultMatches(req, r) THEN "present" ELSE "absent"

\* What the webhook or a scan on the command line writes for the task's last report.
Written(options, results) ==
    IF TaskNameParses(options.task) THEN UNION {Filed(options.task, r) : r \in results} ELSE {}

Main(req, verdict) == Answered(IF req.class # "" THEN verdict ELSE "error")
=============================================================================
