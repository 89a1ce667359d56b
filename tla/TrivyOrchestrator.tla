-------------------------- MODULE TrivyOrchestrator --------------------------
(***************************************************************************)
(* scanner_orchestrators/trivy_orchestrator.py: the findings a scan files  *)
(* for a Trivy report, and what Stage 2 concludes from a new report.       *)
(* Constant-level: ScannerVerification supplies the state.                 *)
(*                                                                         *)
(* An entry of a report is a record                                        *)
(*   scanner   "vuln", "misconfig", "secret" or "license"                  *)
(*   id        the CVE, check id, rule or licence name                     *)
(*   pkg       the package ("" for a misconfiguration or a secret)         *)
(*   target    the Results[].Target that holds it                          *)
(*   line      the line of a secret                                        *)
(*   kind      the markers of the result's Class, Type and Target          *)
(*   severity, fixed, full   what the filters of a scan look at            *)
(***************************************************************************)
EXTENDS ScannerCommon

OsTypes == {"os-pkgs", "alpine", "debian", "ubuntu", "redhat", "fedora", "suse"}

VulnerabilityClass(scanType, e) ==
    IF scanType = "image" /\ e.kind \cap OsTypes # {} THEN "container_image_vulnerability"
    ELSE "container_dependency_vulnerability"

MisconfigurationClass(e) ==
    CASE e.kind \cap {"dockerfile", "containerfile"} # {} -> "dockerfile_misconfiguration"
      [] /\ e.kind \cap {"dockerfile", "containerfile"} = {}
         /\ e.kind \cap {"terraform", "cloudformation", "kubernetes", "helm", ".tf", ".yaml"} # {}
           -> "iac_misconfiguration"
      [] OTHER -> "container_misconfiguration"

ScannerFor(class) ==
    CASE class \in {"container_image_vulnerability", "container_dependency_vulnerability"} -> "vuln"
      [] class \in {"container_misconfiguration", "dockerfile_misconfiguration", "iac_misconfiguration"}
           -> "misconfig"
      [] class = "container_secret_exposure" -> "secret"
      [] class = "container_license_issue" -> "license"

\* The parts a finding key is made of.  The path is part of a secret's and of a licence's
\* identity, and so is the line of a secret; a vulnerability is known by its package alone.
Vulnerability(scanType, e)    == [key |-> <<e.id, e.pkg>>, class |-> VulnerabilityClass(scanType, e)]
Misconfiguration(scanType, e) == [key |-> <<e.id>>, class |-> MisconfigurationClass(e)]
Secret(scanType, e)           == [key |-> <<"TRIVY-SECRET", e.id, e.target, e.line>>,
                                  class |-> "container_secret_exposure"]
License(scanType, e)          == [key |-> <<"TRIVY-LICENSE", e.id, e.pkg, e.target>>,
                                  class |-> "container_license_issue"]

Identity(scanType, e) ==
    CASE e.scanner = "vuln"      -> Vulnerability(scanType, e)
      [] e.scanner = "misconfig" -> Misconfiguration(scanType, e)
      [] e.scanner = "secret"    -> Secret(scanType, e)
      [] e.scanner = "license"   -> License(scanType, e)

\* What Trivy reports under the options of a command; without severities, all of them.
Reported(options, entries) ==
    {e \in entries : /\ e.scanner \in options.scanners
                     /\ options.severity # {} => e.severity \in options.severity
                     /\ options.ignoreUnfixed /\ e.scanner = "vuln" => e.fixed
                     /\ e.full /\ e.scanner = "license" => options.licenseFull}

\* A report is read only after a run that ended with 0 and printed a JSON object.
Usable(run) == run.exit = "ok"

Filed(scanType, e) ==
    {[key   |-> Identity(scanType, e).key,
      class |-> Identity(scanType, e).class,
      meta  |-> [scanner |-> e.scanner, scanType |-> scanType]]}

\* Mutant: a filter of the scan is left in the command.
MutantVerificationOptions(req) ==
    [scanners |-> {ScannerFor(req.class)}, severity |-> {"HIGH"},
     ignoreUnfixed |-> FALSE, licenseFull |-> ScannerFor(req.class) = "license"]

\* Stage 2 runs the one scanner of the finding's class, on the scan type of the finding and
\* without the filters a scan may have had.
VerificationOptions(req) ==
    [scanners |-> {ScannerFor(req.class)}, severity |-> {},
     ignoreUnfixed |-> FALSE, licenseFull |-> ScannerFor(req.class) = "license"]

MetadataAgrees(req) == req.meta.scanner = ScannerFor(req.class)

\* Key and class must both be those of the finding.
IdentityMatches(req, e) ==
    LET identity == Identity(req.meta.scanType, e)
    IN  identity.key = req.key /\ identity.class = req.class

Verify(req, run) ==
    IF ~MetadataAgrees(req) \/ ~Usable(run) THEN "error"
    ELSE IF \E e \in Reported(VerificationOptions(req), run.entries) : IdentityMatches(req, e)
         THEN "present" ELSE "absent"

Written(options, entries) == UNION {Filed(options.scanType, e) : e \in Reported(options, entries)}

Main(req, verdict) == Answered(verdict)
=============================================================================
