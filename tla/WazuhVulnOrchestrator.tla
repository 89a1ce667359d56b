------------------------ MODULE WazuhVulnOrchestrator ------------------------
(***************************************************************************)
(* scanner_orchestrators/wazuh_vuln_orchestrator.py: a refresh reads the   *)
(* whole vulnerability inventory of an agent from the Wazuh indexer, files *)
(* a finding for each document and ends with a completion event that says  *)
(* how many findings to expect and whether their absence means anything.   *)
(* Constant-level: RefreshIngestion takes its reports as what a refresh    *)
(* may find.  The engine has no Stage 2 of its own; DeferredReconciler     *)
(* decides from the refreshes.                                             *)
(*                                                                         *)
(* A document of the inventory is a record                                 *)
(*   cve         the vulnerability, "" if the document names none          *)
(*   host        the agent's address or name, "" if the document has none  *)
(*   package     the installed package, "" if the document has none        *)
(*   severity    the vendor's word                                         *)
(*   name, text  the class indicators in its texts; name is {}             *)
(***************************************************************************)
EXTENDS ScannerCommon, FiniteSets

KernelPackages == {"kernel", "linux-image", "linux-headers", "linux-modules", "linux-generic",
                   "linux-kernel"}

IsKernelPackage(package) == package \in KernelPackages

ClassRules == <<
  Rule("unsupported_software",    {}, {"end of life", "eol", "unsupported version", "no longer supported"}, {}),
  Rule("missing_security_update", {}, {"missing security update", "security patch available"}, {}) >>

FindingClass(d) ==
    IF IsKernelPackage(d.package) THEN "kernel_vulnerability"
    ELSE FirstClass(ClassRules, d, IF d.package # "" THEN "package_vulnerability" ELSE "cve")

SeverityLevel(raw) ==
    CASE raw \in {"CRITICAL", "CRIT"}                      -> "CRITICAL"
      [] raw \in {"HIGH", "IMPORTANT"}                     -> "HIGH"
      [] raw \in {"LOW", "INFO", "INFORMATIONAL", "NEGLIGIBLE"} -> "LOW"
      [] OTHER                                             -> "MEDIUM"

FindingKey(d) == IF d.cve = "" THEN "UNKNOWN-VULNERABILITY" ELSE d.cve

\* Normalisation raises on a document that does not say which host it is about.
Malformed(d) == d.host = ""

Filed(d) == [host |-> d.host, key |-> FindingKey(d), class |-> FindingClass(d)]

Selected(d, severities) == severities # {} => SeverityLevel(d.severity) \in severities

\* Documents that would file the same host, class and key are written once.
Written(documents, severities) ==
    {Filed(d) : d \in {e \in documents : ~Malformed(e) /\ Selected(e, severities)}}

RefreshStatus(documents) == IF \E d \in documents : Malformed(d) THEN "FAILED" ELSE "SUCCESS"

\* The findings of a refresh by key, which is all the receipts tell apart, and what its
\* completion event says of them.  listed, for the properties: the keys in the inventory.
Report(documents, severities) ==
    [found    |-> {f.key : f \in Written(documents, severities)},
     listed   |-> {FindingKey(d) : d \in documents},
     expected |-> Cardinality(Written(documents, severities)),
     status   |-> RefreshStatus(documents),
     filtered |-> severities # {}]

\* A scroll that brings fewer documents than the indexer has counted raises, and nothing is
\* written, no completion event either.
RunScan(documents, retrieved, severities) ==
    IF Cardinality(retrieved) # Cardinality(documents) THEN {} ELSE {Report(retrieved, severities)}
=============================================================================
