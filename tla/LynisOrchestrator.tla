-------------------------- MODULE LynisOrchestrator --------------------------
(***************************************************************************)
(* scanner_orchestrators/lynis_orchestrator.py: a local audit writes its   *)
(* warnings and suggestions to a report file, and both the scan and Stage  *)
(* 2 read that file after they have run an audit.  Constant-level:         *)
(* ScannerVerification supplies the state.                                 *)
(*                                                                         *)
(* A record of the report is                                               *)
(*   id     the Lynis test id                                              *)
(*   type   "warning", "suggestion" or another kind of line                *)
(*   name, text  the classification patterns in its id and description     *)
(***************************************************************************)
EXTENDS ScannerCommon

\* The classes in the order they are tried.
ClassRules == <<
  Rule("authentication_configuration", {}, {"authentication", "password", "pam", "login", "lockout"}, {}),
  Rule("logging_configuration",        {}, {"logging", "syslog", "journald", "auditd", "logrotate"}, {}),
  Rule("filesystem_configuration",     {}, {"filesystem", "mount", "/tmp", "nosuid", "permissions", "umask"}, {}),
  Rule("access_control_configuration", {}, {"access control", "acl", "ownership", "sudoers", "privilege"}, {}),
  Rule("network_configuration",        {}, {"network", "sysctl", "ipv6", "firewall", "redirect"}, {}),
  Rule("service_configuration",        {}, {"service", "daemon", "sshd", "nginx", "ntp", "ftp", "telnet"}, {}),
  Rule("security_configuration",       {}, {"kernel parameter", "core dump", "selinux", "apparmor"}, {}) >>

FindingClass(e) == FirstClass(ClassRules, e, "lynis_hardening")

FindingClasses == Classes(ClassRules) \cup {"lynis_hardening"}

\* Mutant: an audit that ran into its time limit is not told from one that ended.
MutantAuditUsable(run) == run.reportExists

\* An audit that runs into its time limit or cannot be started raises.  Its exit code is only
\* logged: any report that is there afterwards counts as its result, whichever audit wrote it.
AuditUsable(run) == run.exit # "timeout" /\ run.reportExists

\* Lines other than warnings and suggestions are skipped.
ParsedReport(report) == {e \in report : e.type \in {"warning", "suggestion"}}

Filed(e) ==
    {[key |-> <<e.id>>, class |-> FindingClass(e), meta |-> [testId |-> e.id]]}

ModeSelects(mode, report) ==
    {e \in ParsedReport(report) : mode = "warnings_only" => e.type = "warning"}

\* Mutant: the verification applies the default filter of a scan.
MutantVerify(req, run) ==
    IF <<req.meta.testId>> # req.key \/ ~AuditUsable(run) THEN "error"
    ELSE IF \E e \in ModeSelects("warnings_only", run.report) : <<e.id>> = req.key THEN "present" ELSE "absent"

\* The test id is the identity; the filter of the scan and the class of a line are ignored.
Verify(req, run) ==
    IF <<req.meta.testId>> # req.key \/ ~AuditUsable(run) THEN "error"
    ELSE IF \E e \in ParsedReport(run.report) : <<e.id>> = req.key THEN "present" ELSE "absent"

Written(options, report) == UNION {Filed(e) : e \in ModeSelects(options.mode, report)}

\* The program's answer: a class it does not know is refused.
Main(req, verdict) == Answered(IF req.class \in FindingClasses THEN verdict ELSE "error")
=============================================================================
