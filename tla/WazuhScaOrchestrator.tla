------------------------ MODULE WazuhScaOrchestrator ------------------------
(***************************************************************************)
(* scanner_orchestrators/wazuh_sca_orchestrator.py: the findings filed for *)
(* the checks of Wazuh's configuration policies, and what a direct Stage 2 *)
(* call concludes from the state Wazuh keeps of a check.  The refresh that *)
(* deferred verification relies on is RefreshIngestion's.  Constant-level: *)
(* ScannerVerification supplies the state.                                 *)
(*                                                                         *)
(* A check is a record                                                     *)
(*   agent, policy, check   its identity                                   *)
(*   result                 "failed", "passed", "not applicable" or other  *)
(*   name, text             the class markers in its texts                 *)
(***************************************************************************)
EXTENDS ScannerCommon

ClassRules == <<
  Rule("logging_configuration",        {}, {"auditd", "audit log", "logging", "journald", "syslog"}, {}),
  Rule("authentication_configuration", {}, {"authentication", "password", "pam", "login", "lockout"}, {}),
  Rule("access_control_configuration", {}, {"access control", "permissions", "ownership", "sudo"}, {}),
  Rule("filesystem_configuration",     {}, {"filesystem", "mount", "partition", "nodev", "nosuid"}, {}),
  Rule("network_configuration",        {}, {"network", "sysctl", "icmp", "firewall", "wireless"}, {}),
  Rule("service_configuration",        {}, {"service", "daemon", "sshd", "cron", "telnet", "ftp"}, {}),
  Rule("cis_control",                  {}, {"cis", "center for internet security"}, {}) >>

FindingClass(c) == FirstClass(ClassRules, c, "security_configuration")

FindingClasses == Classes(ClassRules) \cup {"security_configuration"}

\* Only failed checks are filed; the others are known by their absence.  The agent is not
\* part of the key.
Filed(c) ==
    IF c.result # "failed" THEN {}
    ELSE {[key |-> <<c.policy, c.check>>, class |-> FindingClass(c),
           meta |-> [agent |-> c.agent, policy |-> c.policy, check |-> c.check]]}

Written(options, checks) == UNION {Filed(c) : c \in checks}

\* What the metadata says goes before what the key says; the key never names the agent.
VerificationIdentity(req) ==
    [agent  |-> req.meta.agent,
     policy |-> IF req.meta.policy # "" THEN req.meta.policy ELSE req.key[1],
     check  |-> IF req.meta.check # "" THEN req.meta.check ELSE req.key[2]]

IdentityKnown(id) == "" \notin {id.agent, id.policy, id.check}

ExactCheck(checks, id) ==
    {c \in checks : c.agent = id.agent /\ c.policy = id.policy /\ c.check = id.check}

\* Wazuh's stored state decides; no new evaluation is asked for.  A check that is no longer
\* there, or has no known result, is no answer.
Verify(req, run) ==
    LET found == ExactCheck(run.checks, VerificationIdentity(req))
    IN  IF \/ req.class \notin FindingClasses
           \/ ~IdentityKnown(VerificationIdentity(req))
           \/ ~run.authenticated THEN "error"
        ELSE IF found = {} \/ \E c \in found : c.result \notin {"failed", "passed", "not applicable"}
             THEN "error"
        ELSE IF \E c \in found : c.result = "failed" THEN "present" ELSE "absent"

Main(req, verdict) == Answered(verdict)
=============================================================================
