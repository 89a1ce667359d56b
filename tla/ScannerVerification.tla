------------------------- MODULE ScannerVerification -------------------------
(***************************************************************************)
(* Stage 2 of the scanners that verify on the spot: the verification       *)
(* gateway and its dispatcher, the six orchestrators they start, and the   *)
(* scanned subject, which changes while all that goes on.  One behaviour   *)
(* is about one engine, one subject and at most one verification at a time.*)
(*                                                                         *)
(* What a scan files and what a verification concludes are the operators   *)
(* of the orchestrators' modules.  Faults are what may go wrong with the   *)
(* run of the scanner.  Lynis hands its results over in a file, which      *)
(* stays when the audit that wrote it is long over.                        *)
(***************************************************************************)
EXTENDS Naturals, Sequences

CONSTANTS
  Engine,       \* the engines looked at
  Items,        \* [Engine -> SUBSET results]: what may be wrong with the subject
  ScanOptions,  \* [Engine -> SUBSET options]: how the subject may be scanned
  NoRequest

N == INSTANCE NmapOrchestrator
T == INSTANCE TrivyOrchestrator
L == INSTANCE LynisOrchestrator
O == INSTANCE OpenVASOrchestrator
U == INSTANCE NucleiOrchestrator
W == INSTANCE WazuhScaOrchestrator

Engines == {"nmap_nse", "trivy", "lynis", "openvas", "nuclei", "wazuh_sca"}

ASSUME EnginesAssumption == Engine \subseteq Engines

(* What the results of an engine are, as far as the proofs look: a Trivy   *)
(* entry is of one of the four scanners, OpenVAS lists the CVEs of a       *)
(* result, and the checks of a subject are those of its one Wazuh agent.   *)
ASSUME ItemsAssumption ==
  /\ "trivy" \in Engine => \A i \in Items["trivy"] :
       i.scanner \in {"vuln", "misconfig", "secret", "license"}
  /\ "openvas" \in Engine => \A i \in Items["openvas"] : i.cves \in Seq(STRING)
  /\ "wazuh_sca" \in Engine => \A i, j \in Items["wazuh_sca"] :
       {"agent", "policy", "check", "result"} \subseteq DOMAIN i /\ i.agent = j.agent

VARIABLES
  engine,    \* the engine of this behaviour
  world,     \* what is wrong with the subject now
  report,    \* the file LYNIS_REPORT_PATH names: whether it exists, and its lines
  findings,  \* unified_security_findings of the subject and engine
  job,       \* the verification under way
  lasting    \* history: what has been wrong at every instant since it began

verificationVars == <<engine, world, report, findings, job, lasting>>

-----------------------------------------------------------------------------
(* Faults *)

Fault ==
  [e \in Engines |-> {"none", "timeout"} \cup
     CASE e = "nmap_nse"  -> {"exit", "no host", "other host", "port closed"}
       [] e = "trivy"     -> {"exit", "no json"}
       [] e = "lynis"     -> {"killed", "no report"}
       [] e = "openvas"   -> {"stopped", "unreachable", "busy"}
       [] e = "nuclei"    -> {"exit", "no template", "unreachable", "garbled"}
       [] e = "wazuh_sca" -> {"no login", "no check", "no result", "stale"}]

Report(lines) == [exists |-> TRUE, lines |-> lines]

NoReport == [exists |-> FALSE, lines |-> {}]

(* The report after an audit: nobody removes an earlier one.  An audit     *)
(* that is killed leaves part of its own, if it has begun to write.        *)
ReportsLeft(fault) ==
  CASE fault = "none"                   -> {Report(world)}
    [] fault = "no report"              -> {report}
    [] fault \in {"killed", "timeout"}  -> {report} \cup {Report(lines) : lines \in SUBSET world}

(* What the scanner sees: Lynis, the report; a task that is already        *)
(* running and a state that was not evaluated anew tell of some earlier    *)
(* time.                                                                   *)
Seen(fault) ==
  CASE engine = "lynis"                                 -> ReportsLeft(fault)
    [] engine # "lynis" /\ fault \in {"busy", "stale"}  -> SUBSET Items[engine]
    [] engine # "lynis" /\ fault = "unreachable"        -> {{}}
    [] OTHER                                            -> {world}

NmapVerdict(req, fault, seen) ==
  LET host == CASE fault = "no host" -> "none" [] fault = "other host" -> "other" [] OTHER -> "requested"
      open == IF fault = "port closed" THEN {} ELSE {r.port : r \in Items[engine]}
      of   == {r \in seen : r.port = N!HostScript \/ r.port \in open}
  IN  IF fault \in {"timeout", "exit"} THEN "error" ELSE N!Verify(req, N!ScriptRun(req, of, host, open))

TrivyVerdict(req, fault, seen) ==
  T!Verify(req, [exit |-> IF fault = "none" THEN "ok" ELSE fault, entries |-> seen])

LynisVerdict(req, fault, seen) ==
  L!Verify(req, [exit |-> fault, reportExists |-> seen.exists, report |-> seen.lines])

OpenVASVerdict(req, fault, seen) ==
  O!Verify(req, [status |-> CASE fault = "stopped" -> "Stopped" [] fault = "timeout" -> "Running" [] OTHER -> "Done",
                 results |-> seen])

NucleiVerdict(req, fault, seen) ==
  U!Verify(req, [exit |-> IF fault \in {"timeout", "exit"} THEN fault ELSE "ok",
                 templateExists |-> fault # "no template",
                 results |-> U!VerifyRun(req, seen),
                 garbled |-> IF fault = "garbled" THEN seen ELSE {}])

(* Wazuh keeps a result of every check, failed or not.                     *)
WazuhResult(fault, seen, c) ==
  IF fault = "no result" THEN "unknown" ELSE IF c \in seen THEN "failed" ELSE "passed"

WazuhChecks(fault, seen) ==
  {[c EXCEPT !.result = WazuhResult(fault, seen, c)] : c \in IF fault = "no check" THEN {} ELSE Items[engine]}

WazuhVerdict(req, fault, seen) ==
  W!Verify(req, [authenticated |-> fault \notin {"no login", "timeout"}, checks |-> WazuhChecks(fault, seen)])

Verdict(req, fault, seen) ==
  CASE engine = "nmap_nse"  -> NmapVerdict(req, fault, seen)
    [] engine = "trivy"     -> TrivyVerdict(req, fault, seen)
    [] engine = "lynis"     -> LynisVerdict(req, fault, seen)
    [] engine = "openvas"   -> OpenVASVerdict(req, fault, seen)
    [] engine = "nuclei"    -> NucleiVerdict(req, fault, seen)
    [] engine = "wazuh_sca" -> WazuhVerdict(req, fault, seen)

Answer(req, verdict) ==
  CASE engine = "nmap_nse"  -> N!Main(req, verdict)
    [] engine = "trivy"     -> T!Main(req, verdict)
    [] engine = "lynis"     -> L!Main(req, verdict)
    [] engine = "openvas"   -> O!Main(req, verdict)
    [] engine = "nuclei"    -> U!Main(req, verdict)
    [] engine = "wazuh_sca" -> W!Main(req, verdict)

Written(options, items) ==
  CASE engine = "nmap_nse"  -> N!Written(options, items)
    [] engine = "trivy"     -> T!Written(options, items)
    [] engine = "lynis"     -> L!Written(options, items)
    [] engine = "openvas"   -> O!Written(options, items)
    [] engine = "nuclei"    -> U!Written(options, items)
    [] engine = "wazuh_sca" -> W!Written(options, items)

(* The keys an item is filed under by some scan.                           *)
KeysOf(i) == {f.key : f \in UNION {Written(options, {i}) : options \in ScanOptions[engine]}}

-----------------------------------------------------------------------------

Phase == {"requested", "probing", "answered", "concluded"}

VerificationTypeOK ==
  /\ engine \in Engine
  /\ world \subseteq Items[engine]
  /\ lasting \subseteq world
  /\ report.exists \in BOOLEAN /\ report.lines \subseteq Items[engine]
  /\ \A f \in findings : f.item \in Items[engine] /\ f.row.key \in KeysOf(f.item)
  /\ \A f, g \in findings : f.row.key = g.row.key => f = g
  /\ job = NoRequest \/ /\ job.phase \in Phase
                        /\ job.fault \in Fault[engine] \cup {"odd reply"}
                        /\ job.verdict \in {"none", "probe", "present", "absent", "error"}
                        /\ job.phase = "concluded" <=> job.status \in {"PASSED", "FAILED"}

VerificationInit ==
  /\ engine \in Engine
  /\ world \in SUBSET Items[engine]
  /\ report = NoReport
  /\ findings = {}
  /\ job = NoRequest
  /\ lasting = {}

-----------------------------------------------------------------------------
(* The subject *)

Breaks(i) ==
  /\ i \notin world
  /\ world' = world \cup {i}
  /\ UNCHANGED <<engine, report, findings, job, lasting>>

IsFixed(i) ==
  /\ i \in world
  /\ world' = world \ {i}
  /\ lasting' = lasting \ {i}
  /\ UNCHANGED <<engine, report, findings, job>>

-----------------------------------------------------------------------------
(* A scan, and the ingestion of what it writes *)

(* Mutant: the class is part of what a finding is known by.                *)
MutantUpsertAll(written) ==
  findings' = {f \in findings : \A g \in written : f.row.key = g.row.key => f.row.class # g.row.class}
                \cup written

(* A finding is known by its host, engine and key, the class is not part   *)
(* of it: of two results with the same key the one that is ingested last   *)
(* leaves its class and metadata.  Rows are never deleted.                 *)
UpsertAll(written) ==
  LET keys == {f.row.key : f \in written}
  IN  \E last \in SUBSET written :
        /\ \A f, g \in last : f.row.key = g.row.key => f = g
        /\ keys \subseteq {f.row.key : f \in last}
        /\ findings' = {f \in findings : f.row.key \notin keys} \cup last

Scan ==
  /\ \E options \in ScanOptions[engine] :
       UpsertAll(UNION {{[row |-> f, item |-> i] : f \in Written(options, {i})} : i \in world})
  /\ report' = IF engine = "lynis" THEN Report(world) ELSE report
  /\ UNCHANGED <<engine, world, job, lasting>>

-----------------------------------------------------------------------------
(* A verification *)

(* The controller posts the finding as it is stored at this moment.        *)
Request(f) ==
  /\ job # NoRequest => job.phase = "concluded"
  /\ job' = [phase |-> "requested", req |-> f.row, item |-> f.item,
             fault |-> "none", verdict |-> "none", status |-> "none"]
  /\ lasting' = world
  /\ UNCHANGED <<engine, world, report, findings>>

(* The orchestrator runs the scanner and looks for the finding.            *)
RunScanner(fault) ==
  /\ job # NoRequest /\ job.phase = "requested"
  /\ \E seen \in Seen(fault) :
       LET verdict == Verdict(job.req, fault, seen)
       IN  /\ job' = [job EXCEPT !.fault = fault, !.verdict = verdict,
                                 !.phase = IF verdict = "probe" THEN "probing" ELSE "answered"]
           /\ report' = IF engine = "lynis" THEN seen ELSE report
  /\ UNCHANGED <<engine, world, findings, lasting>>

(* What ftp-anon finds on a port is that the server lets anybody in.       *)
AnonymousLogin(port) ==
  \E i \in world : i.script = "ftp-anon" /\ i.port = port /\ N!IndicatesPositive(i)

(* The FTP server is asked some time after the run has found its port open.*)
Probe(reply) ==
  /\ job # NoRequest /\ job.phase = "probing"
  /\ reply \in {"230", "530"} => (reply = "230" <=> AnonymousLogin(job.req.meta.port))
  /\ job' = [job EXCEPT !.verdict = N!FtpLogin(reply), !.phase = "answered",
                        !.fault = IF reply \in {"230", "530"} THEN job.fault ELSE "odd reply"]
  /\ UNCHANGED <<engine, world, report, findings, lasting>>

(* An exit code other than 0 fails the verification, whatever was printed; *)
(* it passes only on a printed "present": false.                           *)
Dispatched(answer) == IF answer.rc # 0 \/ answer.present THEN "FAILED" ELSE "PASSED"

Conclude ==
  /\ job # NoRequest /\ job.phase = "answered"
  /\ job' = [job EXCEPT !.phase = "concluded", !.status = Dispatched(Answer(job.req, job.verdict))]
  /\ UNCHANGED <<engine, world, report, findings, lasting>>

(* The dispatcher raises: the orchestrator takes too long, or prints no    *)
(* JSON object with a Boolean.  The gateway answers that with a failure.   *)
(* An audit that was running meanwhile leaves what it has written.         *)
GatewayRaises ==
  /\ job # NoRequest /\ job.phase \in {"requested", "probing"}
  /\ job' = [job EXCEPT !.phase = "concluded", !.fault = "timeout", !.status = "FAILED"]
  /\ report' \in IF engine = "lynis" THEN ReportsLeft("timeout") ELSE {report}
  /\ UNCHANGED <<engine, world, findings, lasting>>

VerificationNext ==
  \/ \E i \in Items[engine] : Breaks(i) \/ IsFixed(i)
  \/ Scan
  \/ \E f \in findings : Request(f)
  \/ \E fault \in Fault[engine] : RunScanner(fault)
  \/ \E reply \in {"230", "530", "other", "none"} : Probe(reply)
  \/ Conclude
  \/ GatewayRaises

VerificationSpec == VerificationInit /\ [][VerificationNext]_verificationVars

-----------------------------------------------------------------------------
Passed == job # NoRequest /\ job.status = "PASSED"

(* No failure counts as absence, as Lynis, OpenVAS and Nuclei say of       *)
(* themselves: failure to perform verification must never be interpreted   *)
(* as "finding absent" (lynis_orchestrator.py:1876), scanner errors never  *)
(* produce present=false (openvas_orchestrator.py:97), any inability to    *)
(* run the check can never become a false PASS                             *)
(* (nuclei_orchestrator.py:2149).  It does not hold of any of the three.   *)
NoFailureIsAbsence == Passed => job.fault = "none"

(* What does hold: with Nmap and Trivy no verification passes after        *)
(* anything went wrong with the scanner, and with no engine after the      *)
(* scanner, the orchestrator or the dispatcher ran into its time limit,    *)
(* whatever the limit left behind.                                         *)
FailClosed ==
  Passed => /\ engine \in {"nmap_nse", "trivy"} => job.fault = "none"
            /\ job.fault # "timeout"

(* The result that left its metadata on the stored finding is recognised   *)
(* when the scanner reports it again: no verification passes on a run      *)
(* without a fault while that result has been there all along, whatever    *)
(* filters the scan used, whatever other results share the key, and however*)
(* the row has been overwritten since the request.                         *)
KnownItemRecognised == Passed /\ job.fault = "none" => job.item \notin lasting

(* For these engines the verification looks for whatever ingestion files   *)
(* under the key: a pass means that no such result has been there all      *)
(* along.  (Trivy asks for the class of the finding as well, OpenVAS for   *)
(* its test and port, Nuclei for its matcher, though two results that      *)
(* differ in these share one row: see hazards.)                            *)
PassMatchesIngestion ==
  Passed /\ job.fault = "none" /\ engine \in {"nmap_nse", "lynis", "wazuh_sca"} =>
    \A i \in lasting : job.req.key \notin KeysOf(i)
=============================================================================
