---------------------- MODULE ScannerVerificationProofs ----------------------
(***************************************************************************)
(* Proofs about ScannerVerification, for any results, any ways to scan and *)
(* any order in which the subject changes, is scanned and verified.        *)
(*                                                                         *)
(* Everything is decided in the step that runs the scanner.  One lemma per *)
(* orchestrator says which faults its verdicts betray, and one which       *)
(* results it cannot miss; what follows in the protocol keeps the verdict, *)
(* and what has been there all along is never more than it was.            *)
(***************************************************************************)
EXTENDS ScannerVerification, TLAPS

USE EnginesAssumption

Conclusions == {"present", "absent", "error"}

(* A row as some scan files it for an item.                                *)
FiledAs(row, i) == \E options \in ScanOptions[engine] : row \in Written(options, {i})

-----------------------------------------------------------------------------
(* The faults an orchestrator notices *)

LEMMA NmapNotices ==
  ASSUME engine = "nmap_nse", NEW req, NEW fault \in Fault[engine], NEW seen
  PROVE  /\ NmapVerdict(req, fault, seen) \in {"probe", "present", "error"}
         /\ NmapVerdict(req, fault, seen) = "probe" =>
              fault = "none" /\ req.key = <<"NMAP-NSE", "ftp-anon", req.meta.port>>
BY DEF Fault, Engines, NmapVerdict, N!Verify, N!ScriptRun, N!HasHostEvidence, N!FtpProbeAllowed

LEMMA TrivyNotices ==
  ASSUME engine = "trivy", NEW req, NEW fault \in Fault[engine], NEW seen
  PROVE  /\ TrivyVerdict(req, fault, seen) \in Conclusions
         /\ TrivyVerdict(req, fault, seen) = "absent" => fault = "none"
BY DEF Conclusions, Fault, Engines, TrivyVerdict, T!Verify, T!Usable

LEMMA LynisNotices ==
  ASSUME engine = "lynis", NEW req, NEW fault \in Fault[engine], NEW seen
  PROVE  /\ LynisVerdict(req, fault, seen) \in Conclusions
         /\ LynisVerdict(req, fault, seen) = "absent" => fault # "timeout"
BY DEF Conclusions, Fault, Engines, LynisVerdict, L!Verify, L!AuditUsable

LEMMA OpenVASNotices ==
  ASSUME engine = "openvas", NEW req, NEW fault \in Fault[engine], NEW seen
  PROVE  /\ OpenVASVerdict(req, fault, seen) \in Conclusions
         /\ OpenVASVerdict(req, fault, seen) = "absent" => fault # "timeout"
BY DEF Conclusions, Fault, Engines, OpenVASVerdict, O!Verify, O!RunReport

LEMMA NucleiNotices ==
  ASSUME engine = "nuclei", NEW req, NEW fault \in Fault[engine], NEW seen
  PROVE  /\ NucleiVerdict(req, fault, seen) \in Conclusions
         /\ NucleiVerdict(req, fault, seen) = "absent" => fault # "timeout"
BY DEF Conclusions, Fault, Engines, NucleiVerdict, U!Verify, U!Usable

LEMMA WazuhKeeps ==
  ASSUME engine = "wazuh_sca", engine \in Engine, NEW seen, NEW c \in Items[engine] \cap seen
  PROVE  \E d \in WazuhChecks("none", seen) :
           d.result = "failed" /\ d.agent = c.agent /\ d.policy = c.policy /\ d.check = c.check
<1> DEFINE d == [c EXCEPT !.result = "failed"]
<1>1. d \in WazuhChecks("none", seen)
  BY DEF WazuhChecks, WazuhResult
<1>2. d.result = "failed" /\ d.agent = c.agent /\ d.policy = c.policy /\ d.check = c.check
  BY ItemsAssumption
<1> QED
  BY <1>1, <1>2

LEMMA WazuhNotices ==
  ASSUME engine = "wazuh_sca", engine \in Engine, NEW req, NEW fault \in Fault[engine], NEW seen
  PROVE  /\ WazuhVerdict(req, fault, seen) \in Conclusions
         /\ WazuhVerdict(req, fault, seen) = "absent" => fault # "timeout"
BY DEF Conclusions, WazuhVerdict, W!Verify

(* A verdict of absence rests on no run that exceeded its limit, with Nmap *)
(* and Trivy on none that failed; only Nmap asks the subject again, after  *)
(* a run without a fault.                                                  *)
LEMMA FaultsNoticed ==
  ASSUME engine \in Engine, NEW req, NEW fault \in Fault[engine], NEW seen
  PROVE  /\ Verdict(req, fault, seen) \in Conclusions \cup {"probe"}
         /\ Verdict(req, fault, seen) = "absent" => fault # "timeout"
         /\ Verdict(req, fault, seen) = "absent" /\ engine = "trivy" => fault = "none"
         /\ Verdict(req, fault, seen) = "absent" => engine # "nmap_nse"
         /\ Verdict(req, fault, seen) = "probe" =>
              /\ engine = "nmap_nse" /\ fault = "none"
              /\ req.key = <<"NMAP-NSE", "ftp-anon", req.meta.port>>
BY NmapNotices, TrivyNotices, LynisNotices, OpenVASNotices, NucleiNotices, WazuhNotices
   DEF Verdict, Engines, Conclusions

-----------------------------------------------------------------------------
(* The results an orchestrator cannot miss *)

LEMMA TrivySees ==
  ASSUME engine = "trivy", engine \in Engine, NEW row, NEW i \in Items[engine], FiledAs(row, i), NEW seen, i \in seen
  PROVE  TrivyVerdict(row, "none", seen) # "absent"
<1>1. PICK options \in ScanOptions[engine] :
        /\ i \in T!Reported(options, {i})
        /\ row = [key   |-> T!Identity(options.scanType, i).key,
                  class |-> T!Identity(options.scanType, i).class,
                  meta  |-> [scanner |-> i.scanner, scanType |-> options.scanType]]
  BY DEF FiledAs, Written, T!Written, T!Filed, T!Reported
<1>2. i.scanner \in {"vuln", "misconfig", "secret", "license"}
  BY ItemsAssumption
<1>3. T!ScannerFor(row.class) = i.scanner
  BY <1>1, <1>2 DEF T!Identity, T!Vulnerability, T!Misconfiguration, T!Secret, T!License, T!ScannerFor,
                    T!VulnerabilityClass, T!MisconfigurationClass
<1>4. i \in T!Reported(T!VerificationOptions(row), seen)
  BY <1>2, <1>3 DEF T!Reported, T!VerificationOptions
<1>5. T!IdentityMatches(row, i)
  BY <1>1 DEF T!IdentityMatches
<1> QED
  BY <1>4, <1>5 DEF TrivyVerdict, T!Verify

LEMMA OpenVASSees ==
  ASSUME engine = "openvas", engine \in Engine, NEW row, NEW i \in Items[engine], FiledAs(row, i), NEW seen, i \in seen
  PROVE  OpenVASVerdict(row, "none", seen) # "absent"
<1>1. PICK options \in ScanOptions[engine] :
        row = [host |-> i.host, key |-> O!FindingKey(i), class |-> O!FindingClass(i),
               meta |-> [task |-> options.task, oid |-> i.oid, port |-> i.port]]
  BY DEF FiledAs, Written, O!Written, O!Filed
<1>2. O!RequestedCve(row) \subseteq O!CvesOf(i)
  <2>1. CASE i.cves = <<>>
    <3>1. PICK x, y, z : row.key = <<x, y, z>>
      BY <1>1, <2>1 DEF O!FindingKey
    <3> QED
      BY <3>1 DEF O!RequestedCve
  <2>2. CASE i.cves # <<>>
    <3>1. i.cves \in Seq(STRING)
      BY ItemsAssumption
    <3>2. 1 \in DOMAIN i.cves
      BY <2>2, <3>1
    <3> QED
      BY <1>1, <2>2, <3>2 DEF O!FindingKey, O!RequestedCve, O!CvesOf
  <2> QED
    BY <2>1, <2>2
<1>3. O!ResultMatches(row, i)
  BY <1>1, <1>2 DEF O!ResultMatches
<1> QED
  BY <1>3 DEF OpenVASVerdict, O!Verify

LEMMA NucleiSees ==
  ASSUME engine = "nuclei", NEW row, NEW i, FiledAs(row, i), NEW seen, i \in seen
  PROVE  NucleiVerdict(row, "none", seen) # "absent"
<1>1. row.meta = [template |-> i.template, matcher |-> i.matcher, target |-> i.base]
  BY DEF FiledAs, Written, U!Written, U!Filed, U!Selected, U!VerificationTarget
<1>2. i \in U!VerifyRun(row, seen) /\ U!CorrespondsToOriginal(row, i)
  BY <1>1 DEF U!VerifyRun, U!CorrespondsToOriginal
<1> QED
  BY <1>2 DEF NucleiVerdict, U!Verify, U!Parsed

(* Lynis and Wazuh do not miss any result that is filed under the same key.*)
LEMMA LynisSees ==
  ASSUME engine = "lynis", NEW row, NEW i, FiledAs(row, i), NEW seen, NEW j \in seen, row.key \in KeysOf(j)
  PROVE  LynisVerdict(row, "none", Report(seen)) # "absent"
<1>1. j \in L!ParsedReport(seen) /\ row.key = <<j.id>>
  BY DEF KeysOf, Written, L!Written, L!Filed, L!ModeSelects, L!ParsedReport
<1> QED
  BY <1>1 DEF LynisVerdict, L!Verify, Report

LEMMA WazuhSees ==
  ASSUME engine = "wazuh_sca", engine \in Engine, NEW row, NEW i \in Items[engine], FiledAs(row, i),
         NEW seen, NEW j \in Items[engine] \cap seen, row.key \in KeysOf(j)
  PROVE  WazuhVerdict(row, "none", seen) # "absent"
<1>1. /\ row.key = <<i.policy, i.check>>
      /\ row.meta = [agent |-> i.agent, policy |-> i.policy, check |-> i.check]
  BY DEF FiledAs, Written, W!Written, W!Filed
<1>2. row.key = <<j.policy, j.check>>
  BY DEF KeysOf, Written, W!Written, W!Filed
<1>3. i.agent = j.agent
  BY ItemsAssumption
<1>4. W!VerificationIdentity(row) = [agent |-> j.agent, policy |-> j.policy, check |-> j.check]
  BY <1>1, <1>2, <1>3 DEF W!VerificationIdentity
<1>5. PICK d \in WazuhChecks("none", seen) :
        d.result = "failed" /\ d.agent = j.agent /\ d.policy = j.policy /\ d.check = j.check
  BY WazuhKeeps
<1>6. d \in W!ExactCheck(WazuhChecks("none", seen), W!VerificationIdentity(row))
  BY <1>4, <1>5 DEF W!ExactCheck
<1> QED
  BY <1>5, <1>6 DEF WazuhVerdict, W!Verify

(* Whoever asks an FTP server after a run of ftp-anon sees what that script*)
(* files.                                                                  *)
LEMMA NmapSees ==
  ASSUME engine = "nmap_nse", NEW req, req.key = <<"NMAP-NSE", "ftp-anon", req.meta.port>>,
         NEW i \in world, req.key \in KeysOf(i)
  PROVE  AnonymousLogin(req.meta.port)
<1>1. PICK options \in ScanOptions[engine] : \E f \in Written(options, {i}) : f.key = req.key
  BY DEF KeysOf
<1>2. PICK f \in N!Filed(i) : f.key = req.key
  BY <1>1 DEF Written, N!Written
<1>3. N!IndicatesPositive(i) /\ req.key \in N!FindingKeys(i)
  BY <1>2 DEF N!Filed
<1>4. req.key = <<"NMAP-NSE", i.script, i.port>>
  BY <1>3 DEF N!FindingKeys
<1> QED
  BY <1>3, <1>4 DEF AnonymousLogin

LEMMA FiledUnderItsKey ==
  ASSUME NEW row, NEW i, FiledAs(row, i)
  PROVE  row.key \in KeysOf(i)
BY DEF FiledAs, KeysOf

-----------------------------------------------------------------------------
(* The inductive invariant *)

(* What a verification that passes has found out.                          *)
Gone(req, item) ==
  /\ item \notin lasting
  /\ engine \in {"nmap_nse", "lynis", "wazuh_sca"} => \A i \in lasting : req.key \notin KeysOf(i)

Subject ==
  /\ engine \in Engine
  /\ world \subseteq Items[engine]
  /\ lasting \subseteq world
  /\ report.exists \in BOOLEAN /\ report.lines \subseteq Items[engine]

(* A finding is a row some scan has filed, and known by its key.           *)
Stored ==
  /\ \A f \in findings : f.item \in Items[engine] /\ FiledAs(f.row, f.item)
  /\ \A f, g \in findings : f.row.key = g.row.key => f = g

(* A verification keeps the row it was requested for; only Nmap's asks     *)
(* twice; a verdict of absence rests on a run without a detected fault,    *)
(* and if it had none at all, on the finding's having gone.                *)
Sound(j) ==
  /\ j = [phase |-> j.phase, req |-> j.req, item |-> j.item,
          fault |-> j.fault, verdict |-> j.verdict, status |-> j.status]
  /\ j.phase \in Phase
  /\ j.item \in Items[engine] /\ FiledAs(j.req, j.item)
  /\ j.fault \in Fault[engine] \cup {"odd reply"}
  /\ j.verdict \in {"none", "probe"} \cup Conclusions
  /\ j.phase = "concluded" <=> j.status \in {"PASSED", "FAILED"}
  /\ j.phase = "probing" => /\ engine = "nmap_nse" /\ j.fault = "none"
                            /\ j.req.key = <<"NMAP-NSE", "ftp-anon", j.req.meta.port>>
  /\ j.phase = "answered" => j.verdict \in Conclusions
  /\ j.status = "PASSED" => j.verdict = "absent"
  /\ j.verdict = "absent" /\ j.status # "FAILED" =>
       /\ j.fault # "timeout"
       /\ engine \in {"nmap_nse", "trivy"} => j.fault = "none"
       /\ j.fault = "none" => Gone(j.req, j.item)

VerificationInv == Subject /\ Stored /\ (job # NoRequest => Sound(job))

LEMMA InitiallyUnverified == VerificationInit => VerificationInv
BY DEF VerificationInit, VerificationInv, Subject, Stored, NoReport

(* What an audit leaves tells of nothing else than the subject.            *)
LEMMA ReportsStay ==
  ASSUME Subject, NEW fault, NEW left \in ReportsLeft(fault), fault \in {"none", "no report", "killed", "timeout"}
  PROVE  left.exists \in BOOLEAN /\ left.lines \subseteq Items[engine]
<1>1. ASSUME NEW lines \in SUBSET world, left = Report(lines)
      PROVE  left.exists \in BOOLEAN /\ left.lines \subseteq Items[engine]
  BY <1>1 DEF Subject, Report
<1>2. left = report \/ \E lines \in SUBSET world : left = Report(lines)
  BY DEF ReportsLeft
<1> QED
  BY <1>1, <1>2 DEF Subject

(* A run without a fault sees the subject as it is, and so the finding.    *)
LEMMA AbsenceMeansGone ==
  ASSUME Subject, NEW req, NEW item \in Items[engine], FiledAs(req, item),
         NEW seen \in Seen("none"), Verdict(req, "none", seen) = "absent", engine # "nmap_nse"
  PROVE  Gone(req, item)
<1>1. req.key \in KeysOf(item)
  BY FiledUnderItsKey
<1>2. engine \in Engines \ {"nmap_nse"}
  BY DEF Subject
<1>0. seen = IF engine = "lynis" THEN Report(world) ELSE world
  BY DEF Seen, ReportsLeft
<1>3. CASE engine = "trivy"
  BY <1>0, <1>3, TrivySees DEF Subject, Verdict, Gone
<1>4. CASE engine = "openvas"
  BY <1>0, <1>4, OpenVASSees DEF Subject, Verdict, Gone
<1>5. CASE engine = "nuclei"
  BY <1>0, <1>5, NucleiSees DEF Subject, Verdict, Gone
<1>6. CASE engine = "lynis"
  <2>1. \A j \in lasting : req.key \notin KeysOf(j)
    BY <1>0, <1>6, LynisSees DEF Subject, Verdict
  <2> QED
    BY <1>1, <2>1 DEF Gone
<1>7. CASE engine = "wazuh_sca"
  <2>1. \A j \in lasting : req.key \notin KeysOf(j)
    BY <1>0, <1>7, WazuhSees DEF Subject, Verdict
  <2> QED
    BY <1>1, <2>1 DEF Gone
<1> QED
  BY <1>2, <1>3, <1>4, <1>5, <1>6, <1>7 DEF Engines

(* The engine stays, and with it what its scans file.                      *)
LEMMA FilingStays ==
  ASSUME UNCHANGED engine
  PROVE  /\ \A row, i : FiledAs(row, i)' <=> FiledAs(row, i)
         /\ \A i : KeysOf(i)' = KeysOf(i)
<1>1. \A options, items : Written(options, items)' = Written(options, items)
  BY DEF Written
<1> QED
  BY <1>1 DEF FiledAs, KeysOf

(* What has been there all along only gets less.                           *)
LEMMA GoneStays ==
  ASSUME UNCHANGED engine, lasting' \subseteq lasting
  PROVE  \A req, item : Gone(req, item) => Gone(req, item)'
BY FilingStays DEF Gone

LEMMA SoundStays ==
  ASSUME Sound(job), UNCHANGED <<engine, job>>, lasting' \subseteq lasting
  PROVE  Sound(job)'
BY GoneStays, FilingStays DEF Sound

-----------------------------------------------------------------------------
(* Steps *)

LEMMA SubjectChanges ==
  ASSUME VerificationInv, NEW i \in Items[engine], Breaks(i) \/ IsFixed(i)
  PROVE  VerificationInv'
<1>1. UNCHANGED <<engine, findings, job>> /\ lasting' \subseteq lasting
  BY DEF Breaks, IsFixed
<1>2. Subject'
  BY DEF VerificationInv, Subject, Breaks, IsFixed
<1>3. Stored'
  BY <1>1, FilingStays DEF VerificationInv, Stored
<1> QED
  BY <1>1, <1>2, <1>3, SoundStays DEF VerificationInv

LEMMA ScanFiles ==
  ASSUME VerificationInv, Scan
  PROVE  VerificationInv'
<1> USE DEF Scan
<1>1. PICK options \in ScanOptions[engine] :
        UpsertAll(UNION {{[row |-> f, item |-> i] : f \in Written(options, {i})} : i \in world})
  OBVIOUS
<1> DEFINE written == UNION {{[row |-> f, item |-> i] : f \in Written(options, {i})} : i \in world}
<1>2. ASSUME NEW f \in written PROVE f.item \in Items[engine] /\ FiledAs(f.row, f.item)
  <2>1. PICK i \in world : f \in {[row |-> r, item |-> i] : r \in Written(options, {i})}
    OBVIOUS
  <2>2. PICK r \in Written(options, {i}) : f = [row |-> r, item |-> i]
    BY <2>1
  <2> QED
    BY <2>2 DEF FiledAs, VerificationInv, Subject
<1>3. PICK last \in SUBSET written :
        /\ \A f, g \in last : f.row.key = g.row.key => f = g
        /\ {f.row.key : f \in written} \subseteq {f.row.key : f \in last}
        /\ findings' = {f \in findings : f.row.key \notin {g.row.key : g \in written}} \cup last
  BY <1>1 DEF UpsertAll
<1> HIDE DEF written
<1>4. \A f \in findings' : f.item \in Items[engine] /\ FiledAs(f.row, f.item)
  BY <1>2, <1>3 DEF VerificationInv, Stored
<1>5. \A f, g \in findings' : f.row.key = g.row.key => f = g
  BY <1>3 DEF VerificationInv, Stored
<1>6. Stored'
  BY <1>4, <1>5, FilingStays DEF Stored
<1> QED
  BY <1>6, SoundStays DEF VerificationInv, Subject, Report

LEMMA RequestKeeps ==
  ASSUME VerificationInv, NEW f \in findings, Request(f)
  PROVE  VerificationInv'
<1>1. Subject' /\ Stored'
  BY FilingStays DEF Request, VerificationInv, Subject, Stored
<1>2. Sound(job)'
  BY FilingStays DEF Request, Sound, Phase, Conclusions, Fault, VerificationInv, Subject, Stored
<1> QED
  BY <1>1, <1>2 DEF VerificationInv

LEMMA RunKeeps ==
  ASSUME VerificationInv, NEW fault \in Fault[engine], RunScanner(fault)
  PROVE  VerificationInv'
<1> USE DEF RunScanner
<1>2. PICK seen \in Seen(fault) :
        LET verdict == Verdict(job.req, fault, seen)
        IN  /\ job' = [job EXCEPT !.fault = fault, !.verdict = verdict,
                                  !.phase = IF verdict = "probe" THEN "probing" ELSE "answered"]
            /\ report' = IF engine = "lynis" THEN seen ELSE report
  OBVIOUS
<1>0. engine = "lynis" => fault \in {"none", "no report", "killed", "timeout"}
  BY DEF Fault, Engines
<1>1. Subject' /\ Stored'
  BY <1>0, <1>2, ReportsStay, FilingStays DEF VerificationInv, Subject, Stored, Seen
<1> DEFINE verdict == Verdict(job.req, fault, seen)
<1>3. job.status \notin {"PASSED", "FAILED"} /\ Sound(job) /\ UNCHANGED <<engine, lasting>>
  BY DEF VerificationInv, Sound
<1>4. job' = [phase |-> IF verdict = "probe" THEN "probing" ELSE "answered", req |-> job.req,
              item |-> job.item, fault |-> fault, verdict |-> verdict, status |-> job.status]
  BY <1>2, <1>3 DEF Sound
<1>5. /\ verdict \in Conclusions \cup {"probe"}
      /\ verdict = "absent" => /\ fault # "timeout" /\ engine # "nmap_nse"
                               /\ engine = "trivy" => fault = "none"
      /\ verdict = "probe" => /\ engine = "nmap_nse" /\ fault = "none"
                              /\ job.req.key = <<"NMAP-NSE", "ftp-anon", job.req.meta.port>>
  <2>1. engine \in Engine
    BY DEF VerificationInv, Subject
  <2> QED
    BY <2>1, FaultsNoticed
<1>6. ASSUME verdict = "absent", fault = "none" PROVE Gone(job.req, job.item)
  <2>1. seen \in Seen("none") /\ Verdict(job.req, "none", seen) = "absent" /\ engine # "nmap_nse"
    BY <1>5, <1>6
  <2>2. job.item \in Items[engine] /\ FiledAs(job.req, job.item)
    BY <1>3 DEF Sound
  <2> QED
    BY <2>1, <2>2, AbsenceMeansGone DEF VerificationInv
<1> HIDE DEF verdict
<1>8. Sound(job)'
  BY <1>3, <1>4, <1>5, <1>6, GoneStays, FilingStays DEF Sound, Phase, Conclusions
<1> QED
  BY <1>1, <1>8 DEF VerificationInv

LEMMA ProbeKeeps ==
  ASSUME VerificationInv, NEW reply \in {"230", "530", "other", "none"}, Probe(reply)
  PROVE  VerificationInv'
<1> USE DEF Probe
<1>1. Subject' /\ Stored'
  BY FilingStays DEF VerificationInv, Subject, Stored
<1>2. Sound(job) /\ job.status \notin {"PASSED", "FAILED"}
  BY DEF VerificationInv, Sound
<1>3. /\ engine = "nmap_nse" /\ job.fault = "none"
      /\ job.req.key = <<"NMAP-NSE", "ftp-anon", job.req.meta.port>>
  BY <1>2 DEF Sound
<1> DEFINE fault == IF reply \in {"230", "530"} THEN job.fault ELSE "odd reply"
<1>4. job' = [phase |-> "answered", req |-> job.req, item |-> job.item,
              fault |-> fault, verdict |-> N!FtpLogin(reply), status |-> job.status]
  BY <1>2 DEF Sound
<1>5. N!FtpLogin(reply) \in Conclusions /\ (N!FtpLogin(reply) = "absent" => reply = "530")
  BY DEF N!FtpLogin, Conclusions
<1>6. ASSUME reply = "530" PROVE Gone(job.req, job.item)
  <2>1. \A i \in lasting : job.req.key \notin KeysOf(i)
    BY <1>3, <1>6, NmapSees DEF VerificationInv, Subject
  <2> QED
    BY <1>2, <2>1, FiledUnderItsKey DEF Gone, Sound
<1>8. Sound(job)'
  BY <1>2, <1>3, <1>4, <1>5, <1>6, GoneStays, FilingStays DEF Sound, Phase
<1> QED
  BY <1>1, <1>8 DEF VerificationInv

(* Only a verdict of absence is answered with "present": false and 0.      *)
LEMMA OnlyAbsencePasses ==
  ASSUME engine \in Engine, NEW req, NEW verdict \in Conclusions
  PROVE  /\ Dispatched(Answer(req, verdict)) \in {"PASSED", "FAILED"}
         /\ Dispatched(Answer(req, verdict)) = "PASSED" => verdict = "absent"
BY DEF Conclusions, Engines, Dispatched, Answer, N!Main, T!Main, L!Main, O!Main, U!Main, W!Main,
       N!Answered, T!Answered, L!Answered, O!Answered, U!Answered, W!Answered

LEMMA ConclusionKeeps ==
  ASSUME VerificationInv, Conclude \/ GatewayRaises
  PROVE  VerificationInv'
<1>1. Subject' /\ Stored'
  BY FilingStays, ReportsStay DEF VerificationInv, Subject, Stored, Conclude, GatewayRaises
<1>2. Sound(job) /\ UNCHANGED <<engine, lasting>>
  BY DEF VerificationInv, Conclude, GatewayRaises
<1>3. ASSUME Conclude PROVE Sound(job)'
  <2> DEFINE status == Dispatched(Answer(job.req, job.verdict))
  <2>1. job' = [phase |-> "concluded", req |-> job.req, item |-> job.item,
                fault |-> job.fault, verdict |-> job.verdict, status |-> status]
    BY <1>2, <1>3 DEF Conclude, Sound
  <2>2. status \in {"PASSED", "FAILED"} /\ (status = "PASSED" => job.verdict = "absent")
    BY <1>2, <1>3, OnlyAbsencePasses DEF Conclude, Sound, VerificationInv, Subject
  <2>3. job.status # "FAILED"
    BY <1>2, <1>3 DEF Conclude, Sound
  <2> HIDE DEF status
  <2> QED
    BY <1>2, <2>1, <2>2, <2>3, GoneStays, FilingStays DEF Sound, Phase
<1>4. ASSUME GatewayRaises PROVE Sound(job)'
  <2>1. job' = [phase |-> "concluded", req |-> job.req, item |-> job.item,
                fault |-> "timeout", verdict |-> job.verdict, status |-> "FAILED"]
    BY <1>2, <1>4 DEF GatewayRaises, Sound
  <2>2. "timeout" \in Fault[engine]
    BY DEF VerificationInv, Subject, Fault
  <2> QED
    BY <1>2, <2>1, <2>2, FilingStays DEF Sound, Phase
<1> QED
  BY <1>1, <1>3, <1>4 DEF VerificationInv

LEMMA VerificationStep ==
  VerificationInv /\ [VerificationNext]_verificationVars => VerificationInv'
<1> SUFFICES ASSUME VerificationInv, [VerificationNext]_verificationVars PROVE VerificationInv'
  OBVIOUS
<1>1. CASE UNCHANGED verificationVars
  BY <1>1, FilingStays, SoundStays DEF verificationVars, VerificationInv, Subject, Stored
<1> QED
  BY <1>1, SubjectChanges, ScanFiles, RequestKeeps, RunKeeps, ProbeKeeps, ConclusionKeeps
     DEF VerificationNext

-----------------------------------------------------------------------------
(* What the rows, the faults and the verdicts of a verification are, at    *)
(* every instant, is what the invariant says.                              *)
THEOREM VerificationHolds == VerificationSpec => []VerificationInv
BY InitiallyUnverified, VerificationStep, PTL DEF VerificationSpec

(* Findings are known by their key, and a verification is of one of them.  *)
THEOREM VerificationTypeCorrect == VerificationSpec => []VerificationTypeOK
<1>1. VerificationInv => VerificationTypeOK
  BY FiledUnderItsKey DEF VerificationInv, Subject, Stored, Sound, Conclusions, VerificationTypeOK
<1> QED
  BY <1>1, VerificationHolds, PTL

(* For any subject: no verification passes on a run that exceeded its      *)
(* limit, and with Nmap and Trivy none on a run that failed in any way.    *)
THEOREM VerificationFailsClosed == VerificationSpec => []FailClosed
<1>1. VerificationInv => FailClosed
  BY DEF VerificationInv, Sound, Passed, FailClosed
<1> QED
  BY <1>1, VerificationHolds, PTL

(* A finding whose result has been there all along is not verified as gone *)
(* by a run without a fault, whatever the results and the filters.         *)
THEOREM KnownItemsRecognised == VerificationSpec => []KnownItemRecognised
<1>1. VerificationInv => KnownItemRecognised
  BY DEF VerificationInv, Sound, Gone, Passed, KnownItemRecognised
<1> QED
  BY <1>1, VerificationHolds, PTL

(* For Nmap, Lynis and the checks of Wazuh neither is a finding that any   *)
(* result under its key keeps alive.                                       *)
THEOREM PassesMatchIngestion == VerificationSpec => []PassMatchesIngestion
<1>1. VerificationInv => PassMatchesIngestion
  BY DEF VerificationInv, Sound, Gone, Passed, PassMatchesIngestion
<1> QED
  BY <1>1, VerificationHolds, PTL
=============================================================================
