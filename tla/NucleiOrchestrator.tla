-------------------------- MODULE NucleiOrchestrator --------------------------
(***************************************************************************)
(* scanner_orchestrators/nuclei_orchestrator.py: the findings a scan files *)
(* for the JSON lines Nuclei prints, and what Stage 2 concludes from a new *)
(* run of one template against one target.  Constant-level:                *)
(* ScannerVerification supplies the state.                                 *)
(*                                                                         *)
(* A result is a record                                                    *)
(*   template     the template's id                                        *)
(*   base, path   the matched URL: authority and path                      *)
(*   matcher      the name of the matcher that fired, "" if not given      *)
(*   cve          the CVE of the template, "" if none                      *)
(*   severity     what the filter of a scan looks at                       *)
(*   name, text   the class markers in template id and tags, and elsewhere *)
(***************************************************************************)
EXTENDS ScannerCommon

ClassRules == <<
  Rule("xss_vulnerability",             {"xss"}, {"cross-site scripting", "reflected xss"}, {}),
  Rule("ssrf_vulnerability",            {"ssrf"}, {"server-side request forgery"}, {}),
  Rule("injection_vulnerability",       {"sqli", "injection", "ssti"}, {"sql injection", "command injection"}, {}),
  Rule("path_traversal",                {"lfi", "traversal"}, {"path traversal", "local file inclusion"}, {}),
  Rule("security_header_missing",       {}, {"missing security header", "x-frame-options missing"}, {}),
  Rule("tls_configuration",             {"ssl", "tls"}, {}, {"tls", "ssl", "cipher", "certificate", "protocol"}),
  Rule("tls_configuration",             {}, {"weak tls", "deprecated tls", "insecure cipher"}, {}),
  Rule("misconfigured_cloud_service",   {}, {"aws", "azure", "gcp", "s3 bucket"}, {"misconfiguration", "public access", "exposed"}),
  Rule("exposed_sensitive_information", {}, {"information disclosure", "api key", "access token"}, {}),
  Rule("exposed_sensitive_information", {"token", "secret", "exposure"}, {}, {"credential", "password", "token", "secret"}),
  Rule("file_exposure",                 {}, {".git/config", ".env exposure", "backup file exposed"}, {}),
  Rule("file_exposure",                 {"exposure"}, {}, {"file", ".git", ".env", "backup", "config"}),
  Rule("exposed_service",               {}, {"panel exposed", "admin panel", "service exposed"}, {}),
  Rule("web_misconfiguration",          {"misconfig"}, {"misconfiguration", "directory listing"}, {}) >>

FindingClass(r) == FirstClass(ClassRules, r, "web_application_vulnerability")

FindingClasses == Classes(ClassRules) \cup {"web_application_vulnerability"}

\* Template and place are the identity, and the CVE is put in front; the matcher is not part
\* of it.
FindingKey(r) ==
    LET place == <<"NUCLEI", r.template, <<r.base, r.path>>>>
    IN  IF r.cve # "" THEN <<r.cve>> \o place ELSE place

\* The narrowest target to scan again: the authority of the result, not the path.
VerificationTarget(r) == r.base

Filed(r) ==
    {[key |-> FindingKey(r), class |-> FindingClass(r),
      meta |-> [template |-> r.template, matcher |-> r.matcher, target |-> VerificationTarget(r)]]}

\* A default scan filters by severity and tag, a specific one runs one template.
Selected(options, results) ==
    {r \in results : IF options.mode = "specific" THEN r.template = options.template
                     ELSE r.severity \in options.severity /\ r.name \cap options.tags # {}}

\* Lines that are no JSON are dropped with a warning, in a scan and in a verification.
Parsed(run) == run.results \ run.garbled

\* Neither may end in a time-out or with an exit code other than 0.
Usable(run) == run.exit = "ok"

\* The template must be the same, and the matcher if both are known.
CorrespondsToOriginal(req, r) ==
    /\ r.template = req.meta.template
    /\ req.meta.matcher # "" /\ r.matcher # "" => r.matcher = req.meta.matcher

\* The command runs the finding's template against its target, with no filter; for a class it
\* does not know, without a template or without the file of the template it is not run.
VerifyRun(req, results) == {r \in results : r.template = req.meta.template /\ r.base = req.meta.target}

Verify(req, run) ==
    IF \/ req.class \notin FindingClasses \/ req.meta.template = ""
       \/ ~run.templateExists \/ ~Usable(run) THEN "error"
    ELSE IF \E r \in Parsed(run) : CorrespondsToOriginal(req, r) THEN "present" ELSE "absent"

Written(options, results) == UNION {Filed(r) : r \in Selected(options, results)}

Main(req, verdict) == Answered(verdict)
=============================================================================
