--------------------------- MODULE RefreshIngestion ---------------------------
(***************************************************************************)
(* How a Wazuh refresh becomes evidence: the orchestrator writes the       *)
(* findings of a refresh and then its completion event                     *)
(* (scanner_orchestrators/wazuh_sca_orchestrator.py), the integration puts *)
(* findings and completion events into two rq queues, and a worker of each *)
(* queue (deployment/systemd/ollama-wazuh-enricher.service and             *)
(* scanner-control.service) runs worker/enricher_worker.py: a finding is   *)
(* upserted and its receipt recorded, a completion is stored, and either   *)
(* promotes the refresh to a watermark once everything expected is in.     *)
(*                                                                         *)
(* The two workers are concurrent and PostgreSQL runs their transactions   *)
(* READ COMMITTED: a transaction sees what is committed when its statement *)
(* starts and its own writes.  A transaction is therefore two steps here,  *)
(* one that reads and decides and one that commits.                        *)
(*                                                                         *)
(* One engine, one scanner subject and one tenant: rows of others never    *)
(* match the queries below.                                                *)
(***************************************************************************)
EXTENDS Naturals, FiniteSets, SequencesExt

CONSTANTS
  Finding,        \* finding keys of the subject
  Refresh,        \* refresh_id of the refreshes the orchestrator starts
  NoRefresh,      \* the refresh_id of a finding never ingested
  ScanReports,    \* what a refresh of an orchestrator may bring
  Filtered,       \* refreshes started with a severity filter
  Idle,           \* no open transaction
  Overlap,        \* refreshes of the subject may overlap in time
  Losses,         \* a worker may fail and its message be lost
  MaxRedeliveries \* bound on messages an operator requeues

ASSUME NoRefreshAssumption == NoRefresh \notin Refresh
ASSUME IngestionAssumption ==
  /\ {Overlap, Losses} \subseteq BOOLEAN
  /\ MaxRedeliveries \in Nat
  /\ Filtered \subseteq Refresh

(* A report: the keys of the findings written and of all the scanner has   *)
(* listed, how many findings the completion event says to expect, its      *)
(* status, and whether findings of some severities were left out.  Several *)
(* findings may share a key, never fewer than it takes; and a report that  *)
(* is not filtered succeeds only if nothing has been left out.             *)
ASSUME ReportsAssumption ==
  \A report \in ScanReports :
    /\ report.found \subseteq Finding /\ report.listed \subseteq Finding
    /\ report.expected \in Nat
    /\ report.status \in {"SUCCESS", "FAILED"}
    /\ report.filtered \in BOOLEAN
    /\ IsFiniteSet(report.found) /\ report.expected >= Cardinality(report.found)
    /\ report.status = "SUCCESS" /\ ~report.filtered => report.listed \subseteq report.found

VARIABLES
  clock,          \* microseconds of the hosts' clocks, one per event
  \* the orchestrator's refreshes; 0 is "not yet"
  observed,       \* detected_at of the findings
  completed,      \* refresh_completed_at
  content,        \* the findings reported
  expected,       \* expected_findings
  inventory,      \* history: what the scanner listed
  outcome,        \* refresh_status
  \* Redis
  findingQueue, controlQueue, redeliveries,
  \* committed rows
  metadata,       \* refresh_id in engine_metadata of the finding
  lastSeen,       \* last_seen_at
  receipts,       \* scanner_refresh_finding_receipts
  completions,    \* scanner_refresh_completions
  watermark,      \* scanner_refresh_watermarks: watermark_id, 0 for no row
  lastId,         \* the sequence of watermark_id
  \* open transactions of the two workers
  txn

refreshVars  == <<observed, completed, content, expected, inventory, outcome>>
queueVars    == <<findingQueue, controlQueue, redeliveries>>
evidenceRows == <<metadata, lastSeen, receipts, completions, watermark>>
ingestionVars == <<clock, observed, completed, content, expected, inventory, outcome,
                   findingQueue, controlQueue, redeliveries, metadata, lastSeen, receipts,
                   completions, watermark, lastId, txn>>

Worker == {"findings", "control"}

Message == Refresh \X Finding

(* watermark: the id of the watermark inserted, 0 if there is none; locks: *)
(* the completion row is locked.                                           *)
Transaction == [refresh : Refresh, stores : SUBSET Finding,
                watermark : Nat, locks : BOOLEAN]

IngestionTypeOK ==
  /\ clock \in Nat
  /\ observed \in [Refresh -> 0..clock]
  /\ completed \in [Refresh -> 0..clock]
  /\ content \in [Refresh -> SUBSET Finding]
  /\ expected \in [Refresh -> Nat]
  /\ inventory \in [Refresh -> SUBSET Finding]
  /\ outcome \in [Refresh -> {"SUCCESS", "FAILED"}]
  /\ findingQueue \in Seq(Message)
  /\ controlQueue \in Seq(Refresh)
  /\ redeliveries \in 0..MaxRedeliveries
  /\ metadata \in [Finding -> Refresh \cup {NoRefresh}]
  /\ lastSeen \in [Finding -> 0..clock]
  /\ receipts \subseteq Message
  /\ completions \subseteq Refresh
  /\ watermark \in [Refresh -> Nat]
  /\ lastId \in Nat
  /\ txn \in [Worker -> Transaction \cup {Idle}]
  /\ \A w \in Worker : txn[w] # Idle /\ txn[w].watermark # 0 => txn[w].locks
  /\ \A m \in receipts : m[2] \in content[m[1]]

IngestionInit ==
  /\ clock = 0
  /\ observed = [r \in Refresh |-> 0]
  /\ completed = [r \in Refresh |-> 0]
  /\ content = [r \in Refresh |-> {}]
  /\ expected = [r \in Refresh |-> 0]
  /\ inventory = [r \in Refresh |-> {}]
  /\ outcome = [r \in Refresh |-> "FAILED"]
  /\ findingQueue = <<>> /\ controlQueue = <<>> /\ redeliveries = 0
  /\ metadata = [f \in Finding |-> NoRefresh]
  /\ lastSeen = [f \in Finding |-> 0]
  /\ receipts = {} /\ completions = {}
  /\ watermark = [r \in Refresh |-> 0] /\ lastId = 0
  /\ txn = [w \in Worker |-> Idle]

-----------------------------------------------------------------------------
(* The orchestrator *)

InProgress(r) == observed[r] # 0 /\ completed[r] = 0

(* A refresh reads what the scanner reports about its subject.  The        *)
(* microseconds its findings differ in do not matter: one detected_at.     *)
Observe(r) ==
  /\ observed[r] = 0
  /\ Overlap \/ \A q \in Refresh : ~InProgress(q)
  /\ clock' = clock + 1
  /\ observed' = [observed EXCEPT ![r] = clock']
  /\ \E report \in ScanReports :
       /\ report.filtered <=> r \in Filtered
       /\ content' = [content EXCEPT ![r] = report.found]
       /\ expected' = [expected EXCEPT ![r] = report.expected]
       /\ inventory' = [inventory EXCEPT ![r] = report.listed]
       /\ outcome' = [outcome EXCEPT ![r] = report.status]
  /\ UNCHANGED <<completed, queueVars, evidenceRows, lastId, txn>>

(* The findings are written first and the completion event last; each goes *)
(* to its queue.  (Of findings that share a key one message stands for     *)
(* all: the second finds the receipt of the first.)                        *)
CompleteRefresh(r) ==
  /\ InProgress(r)
  /\ clock' = clock + 1
  /\ completed' = [completed EXCEPT ![r] = clock']
  /\ \E order \in SetToSeqs({r} \X content[r]) : findingQueue' = findingQueue \o order
  /\ controlQueue' = Append(controlQueue, r)
  /\ UNCHANGED <<observed, content, expected, inventory, outcome, redeliveries, evidenceRows,
                 lastId, txn>>

-----------------------------------------------------------------------------
(* The workers *)

Promoted(r) == watermark[r] # 0

Received(r) == {f \in Finding : <<r, f>> \in receipts}

(* SELECT ... FOR UPDATE and the upsert of a committed completion row wait *)
(* for the other worker's lock on it.                                      *)
RowFree(r) ==
  r \in completions => \A w \in Worker : txn[w] # Idle => ~(txn[w].locks /\ txn[w].refresh = r)

(* Mutant: one finding short of expected_findings is taken for complete.   *)
MutantComplete(r, received) ==
  outcome[r] = "FAILED" \/ Cardinality(received) + 1 >= expected[r]

(* try_promote_refresh: a failed refresh is promoted as it is, a           *)
(* successful one when its receipts reach expected_findings.               *)
Complete(r, received) ==
  outcome[r] = "FAILED" \/ Cardinality(received) >= expected[r]

(* Mutant: whether the completion is there is not asked.                   *)
MutantPromotes(r, stored, received) ==
  /\ ~Promoted(r)
  /\ Complete(r, received)

(* Whether try_promote_refresh writes the watermark: the completion is     *)
(* stored, not yet promoted, and complete.                                 *)
Promotes(r, stored, received) ==
  /\ stored
  /\ ~Promoted(r)
  /\ Complete(r, received)

(* write_refresh_watermark draws the watermark_id when it inserts the row. *)
(* Others see the row when the transaction commits, which may be after a   *)
(* row with a greater id.                                                  *)
DrawId(promotes) == lastId' = IF promotes THEN lastId + 1 ELSE lastId

(* A finding is upserted and its receipt written; the completion counts    *)
(* only if it is committed.  Enrichment and asset resolution come before.  *)
BeginFinding ==
  /\ txn["findings"] = Idle
  /\ findingQueue # <<>>
  /\ LET r == Head(findingQueue)[1]
         f == Head(findingQueue)[2]
         seen == r \in completions
         promotes == Promotes(r, seen, Received(r) \cup {f})
     IN  /\ RowFree(r)
         /\ DrawId(promotes)
         /\ txn' = [txn EXCEPT !["findings"] =
                      [refresh |-> r, stores |-> {f}, locks |-> seen,
                       watermark |-> IF promotes THEN lastId + 1 ELSE 0]]
  /\ findingQueue' = Tail(findingQueue)
  /\ UNCHANGED <<clock, refreshVars, controlQueue, redeliveries, evidenceRows>>

(* A completion event is stored, and the receipts committed so far count.  *)
BeginCompletion ==
  /\ txn["control"] = Idle
  /\ controlQueue # <<>>
  /\ LET r == Head(controlQueue)
         promotes == Promotes(r, TRUE, Received(r))
     IN  /\ RowFree(r)
         /\ DrawId(promotes)
         /\ txn' = [txn EXCEPT !["control"] =
                      [refresh |-> r, stores |-> {}, locks |-> TRUE,
                       watermark |-> IF promotes THEN lastId + 1 ELSE 0]]
  /\ controlQueue' = Tail(controlQueue)
  /\ UNCHANGED <<clock, refreshVars, findingQueue, redeliveries, evidenceRows>>

(* Mutant: engine_metadata is kept once it is set.                         *)
MutantUpsert(r, stored) ==
  /\ metadata' = [f \in Finding |->
                    IF f \in stored /\ metadata[f] = NoRefresh THEN r ELSE metadata[f]]
  /\ lastSeen' = [f \in Finding |->
                    IF f \in stored /\ observed[r] > lastSeen[f] THEN observed[r] ELSE lastSeen[f]]

(* The upsert of a finding overwrites engine_metadata; last_seen_at is the *)
(* GREATEST of the two.                                                    *)
Upsert(r, stored) ==
  /\ metadata' = [f \in Finding |-> IF f \in stored THEN r ELSE metadata[f]]
  /\ lastSeen' = [f \in Finding |->
                    IF f \in stored /\ observed[r] > lastSeen[f] THEN observed[r] ELSE lastSeen[f]]

Commit(w) ==
  /\ txn[w] # Idle
  /\ LET t == txn[w]
     IN  /\ Upsert(t.refresh, t.stores)
         /\ receipts' = receipts \cup ({t.refresh} \X t.stores)
         /\ completions' = IF w = "control" THEN completions \cup {t.refresh} ELSE completions
         /\ watermark' = IF t.watermark = 0 THEN watermark
                         ELSE [watermark EXCEPT ![t.refresh] = t.watermark]
  /\ txn' = [txn EXCEPT ![w] = Idle]
  /\ UNCHANGED <<clock, refreshVars, queueVars, lastId>>

(* The worker is killed or the database refuses: rq does not try again,    *)
(* and an id drawn is lost.                                                *)
Abort(w) ==
  /\ Losses
  /\ txn[w] # Idle
  /\ txn' = [txn EXCEPT ![w] = Idle]
  /\ UNCHANGED <<clock, refreshVars, queueVars, evidenceRows, lastId>>

InFlight(r) ==
  \/ \E i \in DOMAIN findingQueue : findingQueue[i][1] = r
  \/ r \in ToSet(controlQueue)
  \/ \E w \in Worker : txn[w] # Idle /\ txn[w].refresh = r

(* An operator requeues a job of rq's registry of failed jobs, whether its *)
(* transaction had committed or not.                                       *)
Redeliver(r) ==
  /\ completed[r] # 0
  /\ redeliveries < MaxRedeliveries
  /\ redeliveries' = redeliveries + 1
  /\ \/ /\ \E f \in content[r] :
             /\ <<r, f>> \notin ToSet(findingQueue)
             /\ findingQueue' = Append(findingQueue, <<r, f>>)
        /\ UNCHANGED controlQueue
     \/ /\ r \notin ToSet(controlQueue)
        /\ controlQueue' = Append(controlQueue, r)
        /\ UNCHANGED findingQueue
  /\ UNCHANGED <<clock, refreshVars, evidenceRows, lastId, txn>>

IngestionNext ==
  \/ \E r \in Refresh : Observe(r) \/ CompleteRefresh(r) \/ Redeliver(r)
  \/ BeginFinding
  \/ BeginCompletion
  \/ \E w \in Worker : Commit(w) \/ Abort(w)

IngestionSpec == IngestionInit /\ [][IngestionNext]_ingestionVars

-----------------------------------------------------------------------------

(* A watermark of a successful refresh is there only after its completion  *)
(* and every finding it reported are committed, and if it is unfiltered,   *)
(* every finding the scanner had listed, though the completion only counts *)
(* and counts findings that share a key apart: whatever the interleaving,  *)
(* the losses and the repetitions.  README.md:259 promises it, and the     *)
(* reconciler takes it for granted when it concludes from an absence.      *)
WatermarkIsComplete ==
  \A r \in Refresh : Promoted(r) =>
    /\ r \in completions
    /\ outcome[r] = "SUCCESS" => content[r] \subseteq Received(r)
    /\ outcome[r] = "SUCCESS" /\ r \notin Filtered => inventory[r] \subseteq Received(r)

(* Messages of a queue are processed in order, so as long as none is       *)
(* requeued a finding carries the refresh_id of the newest refresh that    *)
(* has reported it, however refreshes overlap and messages are lost:       *)
(* evaluate_presence compares it with the one of the newest watermark.     *)
NewestReportWins ==
  redeliveries = 0 => \A m \in receipts :
                         completed[m[1]] <= completed[metadata[m[2]]]

(* A refresh all of whose messages have been processed and whose rows are  *)
(* all there is promoted: the completion is "staged until all expected     *)
(* findings have committed" (wazuh_sca_orchestrator.py:1792), not longer.  *)
NoLostPromotion ==
  \A r \in completions :
    Complete(r, Received(r)) /\ ~InFlight(r) => Promoted(r)

=============================================================================
