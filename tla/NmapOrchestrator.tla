-------------------------- MODULE NmapOrchestrator --------------------------
(***************************************************************************)
(* scanner_orchestrators/nmap_orchestrator.py: what a scan files for the   *)
(* output of an NSE script, and what Stage 2 concludes from a new run of   *)
(* that script.  Constant-level: ScannerVerification supplies the state.   *)
(*                                                                         *)
(* A script result is a record                                             *)
(*   script   the NSE script's id                                          *)
(*   name     the class markers that occur in that id                      *)
(*   text     the markers that occur in its output                         *)
(*   states   the verdicts of the output's "State:" lines                  *)
(*   cves     the CVE ids in the output                                    *)
(*   service  the service nmap recognised on the port                      *)
(*   port     the port, HostScript for a host script                       *)
(*   state    nmap's state of that port                                    *)
(***************************************************************************)
EXTENDS ScannerCommon

HostScript == 0

PositiveMarkers ==
    {"authentication bypass", "anonymous login allowed", "default credential", "weak cipher",
     "weak encryption", "expired certificate", "self-signed certificate", "hostname mismatch",
     "directory traversal", "path traversal", "cross-site scripting", "sql injection",
     "command injection", "ssrf", "sensitive information", "exposed"}

\* Verdict lines decide alone; an output that starts by reporting an error proves nothing.
IndicatesPositive(r) ==
    IF r.states # {} THEN r.states \cap {"vulnerable", "likely vulnerable"} # {}
    ELSE /\ "error" \notin r.text
         /\ r.text \cap PositiveMarkers # {} \/ r.cves # {}

\* The classes in the order they are tried.
ClassRules == <<
  Rule("xss_vulnerability",             {"xss"}, {"cross-site scripting"}, {}),
  Rule("ssrf_vulnerability",            {"ssrf"}, {"server-side request forgery"}, {}),
  Rule("injection_vulnerability",       {"sql-injection"}, {"sql injection", "command injection", "template injection"}, {}),
  Rule("path_traversal",                {}, {"path traversal", "directory traversal", "../"}, {}),
  Rule("file_exposure",                 {}, {".env", ".git/config", "backup file", "sensitive file"}, {}),
  Rule("security_header_missing",       {}, {"missing security header", "x-frame-options"}, {}),
  Rule("exposed_sensitive_information", {}, {"sensitive information", "credentials exposed"}, {}),
  Rule("misconfigured_cloud_service",   {"cloud"}, {}, {"misconfig", "public", "exposed"}),
  Rule("default_credentials",           {}, {"default credential", "default password"}, {}),
  Rule("authentication_weakness",       {"brute"}, {"authentication bypass", "weak authentication"}, {}),
  Rule("unsupported_software",          {}, {"unsupported version", "end of life"}, {}),
  Rule("certificate_issue",             {"ssl-cert", "certificate"}, {}, {"expired", "self-signed", "hostname mismatch"}),
  Rule("weak_cryptography",             {"ssl-enum-ciphers", "ssl-dh-params"}, {"weak cipher", "rc4", "3des"}, {}),
  Rule("insecure_protocol",             {}, {"sslv2", "sslv3", "tlsv1.0", "telnet", "cleartext protocol"}, {}),
  Rule("tls_configuration",             {"ssl", "tls"}, {}, {"protocol", "cipher", "tls", "ssl"}),
  Rule("exposed_service",               {}, {"management interface exposed", "service exposed"}, {}),
  Rule("service_misconfiguration",      {}, {"anonymous login allowed", "http trace enabled", "directory listing"}, {}),
  Rule("web_application_vulnerability", {"http-"}, {}, {}) >>

IsWeb(r) == r.service \in {"http", "https", "http-proxy"}

\* Without a marker the port, then a CVE, then the service decide.
GenericClass(r) ==
    CASE r.port # HostScript -> "network_service_vulnerability"
      [] r.port = HostScript /\ r.cves # {} -> "cve"
      [] r.port = HostScript /\ r.cves = {} /\ IsWeb(r) -> "web_application_vulnerability"
      [] OTHER -> "network_service_vulnerability"

FindingClass(r) ==
    LET class == FirstClass(ClassRules, r, GenericClass(r))
    IN  IF class = "service_misconfiguration" /\ IsWeb(r) THEN "web_misconfiguration" ELSE class

\* CVE ids are stable across scans; without one the identity is the script and its port.
FindingKeys(r) ==
    IF r.cves # {} THEN {<<cve>> : cve \in r.cves} ELSE {<<"NMAP-NSE", r.script, r.port>>}

\* Scripts of closed and filtered ports are not collected.
Collected(results) ==
    {r \in results : r.port = HostScript \/ r.state \in {"open", "open|filtered"}}

\* What a scan files for one script result: no more than the script and port go into the
\* metadata that Stage 2 gets back.
Filed(r) ==
    IF ~IndicatesPositive(r) \/ Collected({r}) = {} THEN {}
    ELSE {[key |-> k, class |-> FindingClass(r), meta |-> [script |-> r.script, port |-> r.port]] :
            k \in FindingKeys(r)}

\* A run of the finding's own script against its own port, as nmap's XML reports it: `host`
\* says which host the XML describes, `open` the ports it reports open.
ScriptRun(req, results, host, open) ==
    [host |-> host, open |-> open,
     results |-> {r \in results : /\ r.script = req.meta.script
                                  /\ req.meta.port \in {HostScript, r.port}}]

HasHostEvidence(run) == run.host = "requested"

IsFtp(req) == req.meta.script = "ftp-anon"

\* The FTP check asks the server itself, and only about the very finding it knows how to
\* check, on a port the new run confirms open.
FtpProbeAllowed(req, run) ==
    /\ req.meta.port # HostScript
    /\ req.key = <<"NMAP-NSE", "ftp-anon", req.meta.port>>
    /\ req.class = "service_misconfiguration"
    /\ req.meta.port \in run.open

\* A reply of 230 or 530 decides; any other, or none, does not.
FtpLogin(reply) == CASE reply = "230" -> "present" [] reply = "530" -> "absent" [] OTHER -> "error"

ContainsKey(results, key) == \E r \in Collected(results) : IndicatesPositive(r) /\ key \in FindingKeys(r)

\* Outside FTP a run can confirm a finding; it can never show that it is gone.
Verify(req, run) ==
    IF ~HasHostEvidence(run) THEN "error"
    ELSE IF IsFtp(req) THEN IF FtpProbeAllowed(req, run) THEN "probe" ELSE "error"
    ELSE IF ContainsKey(run.results, req.key) THEN "present"
    ELSE "error"

\* The findings a scan writes: of the one script it runs, or of the category "vuln", and of
\* the one key it was asked for, if any.
Written(options, results) ==
    {f \in UNION {Filed(r) : r \in {x \in results : options.script \in {"vuln", x.script}}} :
        options.key # <<>> => f.key = options.key}

FindingClasses ==
    Classes(ClassRules) \cup {"web_misconfiguration", "network_service_vulnerability",
                              "network_service_exposure", "cve"}

\* The program's answer: a class it does not know is refused.
Main(req, verdict) == Answered(IF req.class \in FindingClasses THEN verdict ELSE "error")
=============================================================================
