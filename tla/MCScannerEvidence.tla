-------------------------- MODULE MCScannerEvidence --------------------------
(* The two ways scanner evidence gets to a verdict, for TLC: refreshes that *)
(* are ingested, and verifications on the spot.  They share no state, so a  *)
(* behaviour follows one of them.                                           *)
EXTENDS RefreshIngestion, ScannerVerification, TLC

V == INSTANCE WazuhVulnOrchestrator

\* A vulnerability of a package and, under the same key, of the kernel; and a document
\* that does not say which host it is about.
Document(f, package, severity, host) ==
  [cve |-> f, host |-> host, package |-> package, severity |-> severity, name |-> {}, text |-> {}]

Documents ==
  {Document(f, "openssl", "HIGH", "h1") : f \in Finding}
    \cup {Document(f, "linux-image", "negligible", "h1") : f \in Finding}
    \cup {Document(f, "openssl", "HIGH", "") : f \in Finding}

Inventories == {documents \in SUBSET Documents : Cardinality(documents) <= 2}

\* A scroll that is cut short brings a part of the inventory.
VulnerabilityReports ==
  UNION {UNION {V!RunScan(documents, retrieved, severities) :
                  retrieved \in SUBSET documents, severities \in {{}, {"HIGH", "CRITICAL"}}} :
           documents \in Inventories}

\* wazuh_sca reports all failed checks, or fails.
CheckReports ==
  {[found |-> s, listed |-> s, expected |-> Cardinality(s), status |-> "SUCCESS", filtered |-> FALSE] :
     s \in SUBSET Finding}
    \cup {[found |-> s, listed |-> Finding, expected |-> Cardinality(s), status |-> "FAILED", filtered |-> FALSE] :
             s \in SUBSET Finding}

EngineReports == VulnerabilityReports \cup CheckReports

NmapResult(script, name, text, states, cves, service, port, state) ==
  [script |-> script, name |-> name, text |-> text, states |-> states, cves |-> cves,
   service |-> service, port |-> port, state |-> state]

\* An anonymous FTP server, one CVE found by two scripts, and a script that finds nothing.
NmapItems == {
  NmapResult("ftp-anon", {}, {"anonymous login allowed"}, {}, {}, "ftp", 21, "open"),
  NmapResult("http-vuln-x", {"http-"}, {"sql injection"}, {"vulnerable"}, {"CVE-1"}, "http", 80, "open"),
  NmapResult("ssl-x", {"ssl"}, {"cipher"}, {}, {"CVE-1"}, "https", 443, "open"),
  NmapResult("smb-x", {}, {}, {"not vulnerable"}, {"CVE-2"}, "smb", 0, "none") }

TrivyEntry(scanner, id, pkg, target, kind, severity) ==
  [scanner |-> scanner, id |-> id, pkg |-> pkg, target |-> target, line |-> "1", kind |-> kind,
   severity |-> severity, fixed |-> TRUE, full |-> scanner = "license"]

\* One CVE in a package of the system and in one of the same name of an application.
TrivyItems == {
  TrivyEntry("vuln", "CVE-1", "openssl", "image", {"debian"}, "HIGH"),
  TrivyEntry("vuln", "CVE-1", "openssl", "package.json", {"node"}, "LOW"),
  TrivyEntry("secret", "aws-key", "", "config.env", {}, "HIGH") }

\* A test that warns and suggests, and another that suggests.
LynisItems == {
  [id |-> "SSH-1", type |-> "warning", name |-> {}, text |-> {"login"}],
  [id |-> "SSH-1", type |-> "suggestion", name |-> {}, text |-> {"sshd"}],
  [id |-> "KRNL-1", type |-> "suggestion", name |-> {}, text |-> {"sysctl"}],
  [id |-> "OS-1", type |-> "note", name |-> {}, text |-> {}] }

Task == [tenant |-> "T1", tier |-> "GOLD", scan |-> "daily"]

OpenVASResult(host, port, oid, cves, text) ==
  [host |-> host, port |-> port, oid |-> oid, cves |-> cves, vuln |-> "v", name |-> {}, text |-> text]

\* One CVE found by two tests, a test without a CVE, a result without a test or a host.
OpenVASItems == {
  OpenVASResult("h1", "443/tcp", "oid1", <<"CVE-1", "CVE-2">>, {"weak cipher"}),
  OpenVASResult("h1", "general", "oid2", <<"CVE-1">>, {}),
  OpenVASResult("h1", "23/tcp", "oid3", <<>>, {"telnet"}),
  OpenVASResult("", "80/tcp", "", <<>>, {}) }

NucleiResult(template, path, matcher, cve, name) ==
  [template |-> template, base |-> "https://h1", path |-> path, matcher |-> matcher, cve |-> cve,
   severity |-> "high", name |-> name, text |-> {}]

\* Two matchers of a template on one page, the template on another page, and a CVE.
NucleiItems == {
  NucleiResult("exposure", "/a", "m1", "", {"exposure"}),
  NucleiResult("exposure", "/a", "m2", "", {"exposure"}),
  NucleiResult("exposure", "/b", "m1", "", {"exposure"}),
  NucleiResult("rce", "/", "", "CVE-1", {"injection"}) }

WazuhItems == {
  [agent |-> "001", policy |-> "cis", check |-> "1", result |-> "failed", name |-> {}, text |-> {"sshd"}],
  [agent |-> "001", policy |-> "cis", check |-> "2", result |-> "failed", name |-> {}, text |-> {}] }

EngineItems ==
  [e \in Engines |->
     CASE e = "nmap_nse" -> NmapItems [] e = "trivy" -> TrivyItems [] e = "lynis" -> LynisItems
       [] e = "openvas" -> OpenVASItems [] e = "nuclei" -> NucleiItems [] e = "wazuh_sca" -> WazuhItems]

EngineScanOptions ==
  [e \in Engines |->
     CASE e = "nmap_nse" -> {[script |-> "vuln", key |-> <<>>], [script |-> "ftp-anon", key |-> <<>>],
                             [script |-> "vuln", key |-> <<"CVE-1">>]}
       [] e = "trivy" -> {[scanType |-> "image", scanners |-> {"vuln", "secret"}, severity |-> s,
                           ignoreUnfixed |-> TRUE, licenseFull |-> FALSE] : s \in {{"HIGH"}, {}}}
       [] e = "lynis" -> {[mode |-> "warnings_only"], [mode |-> "all"]}
       [] e = "openvas" -> {[task |-> Task]}
       [] e = "nuclei" -> {[mode |-> "default", severity |-> {"high"}, tags |-> {"exposure"}],
                           [mode |-> "specific", template |-> "rce"]}
       [] e = "wazuh_sca" -> {[mode |-> "all"]}]

VARIABLE part

EvidenceInit ==
  /\ IngestionInit
  /\ \/ part = "refreshes" /\ engine = "lynis" /\ world = {} /\ report = NoReport /\ findings = {} /\ job = NoRequest /\ lasting = {}
     \/ part = "verification" /\ VerificationInit

EvidenceNext ==
  \/ part = "refreshes" /\ IngestionNext /\ UNCHANGED <<verificationVars, part>>
  \/ part = "verification" /\ VerificationNext /\ UNCHANGED <<ingestionVars, part>>

EvidenceSpec == EvidenceInit /\ [][EvidenceNext]_<<ingestionVars, verificationVars, part>>

Symmetry == Permutations(Finding)

=============================================================================
