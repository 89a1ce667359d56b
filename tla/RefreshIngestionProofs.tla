------------------------ MODULE RefreshIngestionProofs ------------------------
(***************************************************************************)
(* Proofs about RefreshIngestion: the types, that a watermark is complete  *)
(* and written once, and that a finding carries the newest refresh that    *)
(* has reported it, for any findings, refreshes, reports and faults.       *)
(*                                                                         *)
(* A transaction decides to promote before it commits.  The invariant says *)
(* that whatever is under way is about findings a refresh has reported,    *)
(* and that what a transaction has counted is all there will ever be: the  *)
(* report of a refresh does not change once it is observed.                *)
(***************************************************************************)
EXTENDS RefreshIngestion, FiniteSetTheorems, SequenceTheorems, TLAPS

Reported == {m \in Message : observed[m[1]] # 0 /\ m[2] \in content[m[1]]}

WellReported(r) ==
  /\ IsFiniteSet(content[r]) /\ expected[r] >= Cardinality(content[r])
  /\ outcome[r] = "SUCCESS" /\ r \notin Filtered => inventory[r] \subseteq content[r]
  /\ completed[r] # 0 => observed[r] # 0

(* Everything in flight or stored is of a refresh that has been observed,  *)
(* and of findings it has reported.                                        *)
Provenance ==
  /\ \A r \in Refresh : WellReported(r)
  /\ findingQueue \in Seq(Reported)
  /\ controlQueue \in Seq({r \in Refresh : observed[r] # 0})
  /\ receipts \subseteq Reported
  /\ \A r \in completions : observed[r] # 0
  /\ \A w \in Worker : txn[w] # Idle => /\ observed[txn[w].refresh] # 0
                                        /\ txn[w].stores \subseteq content[txn[w].refresh]

Counted(r, received) == outcome[r] = "SUCCESS" => content[r] \subseteq received

(* A decision to promote is right when the transaction commits.            *)
Decided ==
  /\ \A w \in Worker : txn[w] # Idle /\ txn[w].watermark # 0 =>
       /\ w = "control" \/ txn[w].refresh \in completions
       /\ Counted(txn[w].refresh, Received(txn[w].refresh) \cup txn[w].stores)
  /\ \A r \in Refresh : Promoted(r) => r \in completions /\ Counted(r, Received(r))

IngestionInv == IngestionTypeOK /\ Provenance /\ Decided

-----------------------------------------------------------------------------

(* All receipts of a refresh are of its report, so that as many as it      *)
(* reports are all of them.                                                *)
LEMMA CountingSuffices ==
  ASSUME IngestionInv, NEW r \in Refresh, NEW received \in SUBSET content[r], Complete(r, received)
  PROVE  Counted(r, received)
<1>1. IsFiniteSet(content[r]) /\ expected[r] >= Cardinality(content[r]) /\ expected[r] \in Nat
  BY DEF IngestionInv, IngestionTypeOK, Provenance, WellReported
<1>2. /\ Cardinality(content[r]) \in Nat /\ Cardinality(received) \in Nat
      /\ Cardinality(received) <= Cardinality(content[r])
      /\ Cardinality(received) = Cardinality(content[r]) => received = content[r]
  BY <1>1, FS_Subset, FS_CardinalityType
<1>3. outcome[r] = "SUCCESS" => Cardinality(received) >= expected[r]
  BY DEF Complete
<1>4. outcome[r] = "SUCCESS" => received = content[r]
  BY <1>1, <1>2, <1>3
<1> QED
  BY <1>4 DEF Counted

LEMMA ReceivedIsReported ==
  ASSUME IngestionInv, NEW r \in Refresh
  PROVE  Received(r) \subseteq content[r]
<1> SUFFICES ASSUME NEW f \in Finding, <<r, f>> \in receipts PROVE f \in content[r]
  BY DEF Received
<1> DEFINE m == <<r, f>>
<1>1. m \in Reported /\ m[1] = r /\ m[2] = f
  BY DEF IngestionInv, Provenance
<1> QED
  BY <1>1 DEF Reported

LEMMA InitiallySound == IngestionInit => IngestionInv
<1> SUFFICES ASSUME IngestionInit PROVE IngestionInv
  OBVIOUS
<1>1. IngestionTypeOK
  BY IngestionAssumption DEF IngestionInit, IngestionTypeOK, Worker
<1>2. \A r \in Refresh : WellReported(r)
  BY FS_EmptySet DEF IngestionInit, WellReported
<1>3. Provenance
  BY <1>2 DEF IngestionInit, Provenance, Worker
<1>4. Decided
  BY DEF IngestionInit, Decided, Worker, Promoted
<1> QED
  BY <1>1, <1>3, <1>4 DEF IngestionInv

LEMMA ObserveKeeps ==
  ASSUME IngestionInv, NEW r \in Refresh, Observe(r)
  PROVE  IngestionInv'
<1> USE DEF IngestionInv
<1>1. PICK report \in ScanReports :
        /\ report.filtered <=> r \in Filtered
        /\ content' = [content EXCEPT ![r] = report.found]
        /\ expected' = [expected EXCEPT ![r] = report.expected]
        /\ inventory' = [inventory EXCEPT ![r] = report.listed]
        /\ outcome' = [outcome EXCEPT ![r] = report.status]
  BY DEF Observe
<1>2. /\ observed[r] = 0 /\ clock' = clock + 1 /\ observed' = [observed EXCEPT ![r] = clock']
      /\ UNCHANGED <<completed, findingQueue, controlQueue, redeliveries, metadata, lastSeen,
                     receipts, completions, watermark, lastId, txn>>
  BY DEF Observe, queueVars, evidenceRows
<1>3. clock \in Nat /\ clock' \in Nat /\ clock' # 0 /\ 0..clock \subseteq 0..clock' /\ clock' \in 0..clock'
  BY <1>2 DEF IngestionTypeOK
(* Nothing refers to a refresh that has not been observed.                 *)
<1>4. \A q \in Refresh : observed[q] # 0 => /\ q # r /\ observed'[q] = observed[q] /\ content'[q] = content[q]
                                            /\ outcome'[q] = outcome[q] /\ inventory'[q] = inventory[q]
  BY <1>1, <1>2 DEF IngestionTypeOK
<1>5. Reported \subseteq Reported'
  <2> SUFFICES ASSUME NEW m \in Reported PROVE m \in Reported'
    OBVIOUS
  <2>1. m \in Message /\ m[1] \in Refresh /\ observed[m[1]] # 0 /\ m[2] \in content[m[1]]
    BY DEF Reported, Message
  <2> QED
    BY <1>4, <2>1 DEF Reported
<1>6. IngestionTypeOK'
  <2>1. /\ observed' \in [Refresh -> 0..clock'] /\ completed' \in [Refresh -> 0..clock']
        /\ lastSeen' \in [Finding -> 0..clock']
    BY <1>2, <1>3 DEF IngestionTypeOK
  <2>2. /\ content' \in [Refresh -> SUBSET Finding] /\ expected' \in [Refresh -> Nat]
        /\ inventory' \in [Refresh -> SUBSET Finding] /\ outcome' \in [Refresh -> {"SUCCESS", "FAILED"}]
    BY <1>1, ReportsAssumption DEF IngestionTypeOK
  <2>3. \A m \in receipts' : m[2] \in content'[m[1]]
    BY <1>2, <1>5 DEF Provenance, Reported
  <2> QED
    BY <1>2, <1>3, <2>1, <2>2, <2>3 DEF IngestionTypeOK
<1>7. \A q \in Refresh : WellReported(q)'
  <2> SUFFICES ASSUME NEW q \in Refresh PROVE WellReported(q)'
    OBVIOUS
  <2>1. CASE q = r
    BY <1>1, <1>2, <1>3, <2>1, ReportsAssumption DEF WellReported, IngestionTypeOK
  <2>2. CASE q # r
    BY <1>1, <1>2, <2>2 DEF WellReported, IngestionTypeOK, Provenance
  <2> QED
    BY <2>1, <2>2
<1>8. Provenance'
  <2>1. findingQueue' \in Seq(Reported')
    BY <1>2, <1>5 DEF Provenance
  <2>2. controlQueue' \in Seq({q \in Refresh : observed'[q] # 0})
    BY <1>2, <1>4 DEF Provenance
  <2>3. receipts' \subseteq Reported' /\ \A q \in completions' : observed'[q] # 0
    BY <1>2, <1>4, <1>5 DEF Provenance, IngestionTypeOK
  <2>4. \A w \in Worker : txn'[w] # Idle => observed'[txn'[w].refresh] # 0 /\ txn'[w].stores \subseteq content'[txn'[w].refresh]
    BY <1>2, <1>4 DEF Provenance, IngestionTypeOK, Transaction
  <2> QED
    BY <1>7, <2>1, <2>2, <2>3, <2>4 DEF Provenance
<1>9. Decided'
  <2>1. \A q \in Refresh : \A received : observed[q] # 0 /\ Counted(q, received) => Counted(q, received)'
    BY <1>4 DEF Counted
  <2>2. \A q : Received(q)' = Received(q)
    BY <1>2 DEF Received
  <2>3. \A q \in Refresh : Promoted(q) => observed[q] # 0
    BY DEF Decided, Provenance, IngestionTypeOK
  <2>4. \A w \in Worker : txn[w] # Idle => txn[w].refresh \in Refresh /\ observed[txn[w].refresh] # 0
    BY DEF Provenance, IngestionTypeOK, Transaction
  <2> QED
    BY <1>2, <1>4, <2>2, <2>3, <2>4 DEF Decided, Counted, Promoted
<1> QED
  BY <1>6, <1>8, <1>9

(* Steps that leave reports and their refreshes alone.                     *)
LEMMA ReportedStays ==
  ASSUME UNCHANGED <<observed, content>> PROVE Reported' = Reported
BY DEF Reported

LEMMA CompleteRefreshKeeps ==
  ASSUME IngestionInv, NEW r \in Refresh, CompleteRefresh(r)
  PROVE  IngestionInv'
<1> USE DEF IngestionInv
<1>1. PICK order \in SetToSeqs({r} \X content[r]) : findingQueue' = findingQueue \o order
  BY DEF CompleteRefresh
<1>2. /\ observed[r] # 0 /\ clock' = clock + 1 /\ completed' = [completed EXCEPT ![r] = clock']
      /\ controlQueue' = Append(controlQueue, r)
      /\ UNCHANGED <<observed, content, expected, inventory, outcome, redeliveries, metadata, lastSeen,
                     receipts, completions, watermark, lastId, txn>>
  BY DEF CompleteRefresh, InProgress, evidenceRows
<1>3. clock \in Nat /\ clock' \in Nat /\ 0..clock \subseteq 0..clock' /\ clock' \in 0..clock'
  BY <1>2 DEF IngestionTypeOK
<1>4. {r} \X content[r] \subseteq Reported
  BY <1>2 DEF Reported, Message, IngestionTypeOK
<1>5. order \in Seq(Reported)
  <2> DEFINE S == {r} \X content[r]
             n == Cardinality(S)
  <2>1. IsFiniteSet(content[r]) /\ IsFiniteSet({r})
    BY FS_Singleton DEF Provenance, WellReported
  <2>2. n \in Nat
    BY <2>1, FS_Product, FS_CardinalityType
  <2>3. order \in SetToSeqs(S) /\ S \subseteq Reported
    BY <1>1, <1>4
  <2> HIDE DEF S
  <2>4. order \in [1..n -> S]
    BY <2>3 DEF SetToSeqs
  <2> HIDE DEF n
  <2>5. order \in Seq(S)
    BY <2>2, <2>4, SeqDef
  <2> QED
    BY <2>3, <2>5, SeqMonotonic
<1>6. Reported' = Reported
  BY <1>2, ReportedStays
<1>7. IngestionTypeOK'
  <2>1. findingQueue' \in Seq(Message)
    BY <1>1, <1>5 DEF IngestionTypeOK, Reported
  <2>2. /\ observed' \in [Refresh -> 0..clock'] /\ completed' \in [Refresh -> 0..clock']
        /\ lastSeen' \in [Finding -> 0..clock']
    BY <1>2, <1>3 DEF IngestionTypeOK
  <2>3. controlQueue' \in Seq(Refresh)
    BY <1>2 DEF IngestionTypeOK
  <2> QED
    BY <1>2, <1>3, <2>1, <2>2, <2>3 DEF IngestionTypeOK
<1>8. Provenance'
  <2>1. \A q \in Refresh : WellReported(q)'
    BY <1>2 DEF Provenance, WellReported, IngestionTypeOK
  <2>2. findingQueue' \in Seq(Reported')
    BY <1>1, <1>5, <1>6 DEF Provenance
  <2>3. controlQueue' \in Seq({q \in Refresh : observed'[q] # 0})
    BY <1>2 DEF Provenance
  <2> QED
    BY <1>2, <1>6, <2>1, <2>2, <2>3 DEF Provenance
<1>9. Decided'
  BY <1>2 DEF Decided, Counted, Received, Promoted
<1> QED
  BY <1>7, <1>8, <1>9

(* A transaction that begins decides with what is committed and what it    *)
(* stores itself.                                                          *)
LEMMA DecisionIsRight ==
  ASSUME IngestionInv, NEW r \in Refresh, NEW stored \in BOOLEAN, NEW stores \in SUBSET content[r],
         Promotes(r, stored, Received(r) \cup stores)
  PROVE  stored /\ Counted(r, Received(r) \cup stores)
<1>1. Received(r) \cup stores \in SUBSET content[r]
  BY ReceivedIsReported
<1> QED
  BY <1>1, CountingSuffices DEF Promotes

LEMMA BeginFindingKeeps == ASSUME IngestionInv, BeginFinding PROVE IngestionInv'
<1> USE DEF IngestionInv
<1> DEFINE m == Head(findingQueue)
           seen == m[1] \in completions
           t == [refresh |-> m[1], stores |-> {m[2]}, locks |-> seen,
                 watermark |-> IF Promotes(m[1], seen, Received(m[1]) \cup {m[2]}) THEN lastId + 1 ELSE 0]
<1>1. /\ findingQueue # <<>> /\ findingQueue' = Tail(findingQueue)
      /\ txn' = [txn EXCEPT !["findings"] = t]
      /\ UNCHANGED <<clock, observed, completed, content, expected, inventory, outcome, controlQueue,
                     redeliveries, metadata, lastSeen, receipts, completions, watermark>>
  BY DEF BeginFinding, refreshVars, evidenceRows
<1>2. m \in Reported /\ m[1] \in Refresh /\ m[2] \in content[m[1]] /\ observed[m[1]] # 0 /\ m[2] \in Finding
  <2>1. m \in Reported
    BY <1>1 DEF Provenance
  <2> QED
    BY <2>1 DEF Reported, Message
<1>3. t.watermark # 0 => t.locks /\ seen /\ Counted(m[1], Received(m[1]) \cup {m[2]})
  <2>1. (t.watermark # 0 => Promotes(m[1], seen, Received(m[1]) \cup {m[2]})) /\ t.locks = seen
    OBVIOUS
  <2>2. seen \in BOOLEAN /\ {m[2]} \in SUBSET content[m[1]]
    BY <1>2
  <2> HIDE DEF t, seen
  <2>3. Promotes(m[1], seen, Received(m[1]) \cup {m[2]}) => seen /\ Counted(m[1], Received(m[1]) \cup {m[2]})
    BY <1>2, <2>2, DecisionIsRight
  <2> QED
    BY <2>1, <2>3
<1>4. t \in Transaction
  <2>1. t.watermark \in Nat
    <3>1. lastId \in Nat
      BY DEF IngestionTypeOK
    <3> QED
      BY <3>1
  <2> QED
    BY <1>2, <2>1 DEF Transaction
<1>5. Reported' = Reported
  BY <1>1, ReportedStays
<1>6. t.refresh = m[1] /\ t.stores = {m[2]} /\ (t.locks <=> seen)
  OBVIOUS
<1> HIDE DEF t, m
<1>7. \A w \in Worker : txn'[w] = IF w = "findings" THEN t ELSE txn[w]
  BY <1>1 DEF IngestionTypeOK
<1>8. IngestionTypeOK'
  <2>1. txn' \in [Worker -> Transaction \cup {Idle}]
    BY <1>1, <1>4 DEF IngestionTypeOK
  <2>3. findingQueue' \in Seq(Message)
    BY <1>1 DEF IngestionTypeOK
  <2>2. \A w \in Worker : txn'[w] # Idle /\ txn'[w].watermark # 0 => txn'[w].locks
    BY <1>3, <1>7 DEF IngestionTypeOK
  <2>4. lastId' \in Nat
    <3>1. \E promotes : DrawId(promotes)
      BY DEF BeginFinding
    <3> QED
      BY <3>1 DEF DrawId, IngestionTypeOK
  <2> QED
    BY <1>1, <2>1, <2>2, <2>3, <2>4 DEF IngestionTypeOK
<1>9. Provenance'
  <2>1. \A q \in Refresh : WellReported(q)'
    BY <1>1 DEF Provenance, WellReported
  <2>2. findingQueue' \in Seq(Reported')
    BY <1>1, <1>5 DEF Provenance
  <2>3. \A w \in Worker : txn'[w] # Idle => observed'[txn'[w].refresh] # 0 /\ txn'[w].stores \subseteq content'[txn'[w].refresh]
    BY <1>1, <1>2, <1>6, <1>7 DEF Provenance
  <2> QED
    BY <1>1, <1>5, <2>1, <2>2, <2>3 DEF Provenance
<1>10. Decided'
  <2>1. \A q : Received(q)' = Received(q)
    BY <1>1 DEF Received
  <2>2. \A q, received : Counted(q, received)' <=> Counted(q, received)
    BY <1>1 DEF Counted
  <2> QED
    BY <1>1, <1>3, <1>6, <1>7, <2>1 DEF Decided, Counted, Promoted
<1> QED
  BY <1>8, <1>9, <1>10

LEMMA BeginCompletionKeeps == ASSUME IngestionInv, BeginCompletion PROVE IngestionInv'
<1> USE DEF IngestionInv
<1> DEFINE r == Head(controlQueue)
           t == [refresh |-> r, stores |-> {}, locks |-> TRUE,
                 watermark |-> IF Promotes(r, TRUE, Received(r)) THEN lastId + 1 ELSE 0]
<1>1. /\ controlQueue # <<>> /\ controlQueue' = Tail(controlQueue)
      /\ txn' = [txn EXCEPT !["control"] = t]
      /\ UNCHANGED <<clock, observed, completed, content, expected, inventory, outcome, findingQueue,
                     redeliveries, metadata, lastSeen, receipts, completions, watermark>>
  BY DEF BeginCompletion, refreshVars, evidenceRows
<1>2. r \in Refresh /\ observed[r] # 0
  BY <1>1 DEF Provenance
<1>3. t.watermark # 0 => Counted(r, Received(r) \cup {})
  <2>1. Received(r) \cup {} = Received(r)
    OBVIOUS
  <2> QED
    BY <1>2, <2>1, DecisionIsRight
<1>4. t \in Transaction
  <2>1. t.watermark \in Nat
    <3>1. lastId \in Nat
      BY DEF IngestionTypeOK
    <3>2. t.watermark = lastId + 1 \/ t.watermark = 0
      OBVIOUS
    <3> HIDE DEF t
    <3> QED
      BY <3>1, <3>2
  <2> QED
    BY <1>2, <2>1 DEF Transaction
<1>5. Reported' = Reported
  BY <1>1, ReportedStays
<1>6. t.refresh = r /\ t.stores = {} /\ t.locks
  OBVIOUS
<1> HIDE DEF t, r
<1>7. \A w \in Worker : txn'[w] = IF w = "control" THEN t ELSE txn[w]
  BY <1>1 DEF IngestionTypeOK
<1>8. IngestionTypeOK'
  <2>1. txn' \in [Worker -> Transaction \cup {Idle}]
    BY <1>1, <1>4 DEF IngestionTypeOK
  <2>3. controlQueue' \in Seq(Refresh)
    BY <1>1 DEF IngestionTypeOK
  <2>2. \A w \in Worker : txn'[w] # Idle /\ txn'[w].watermark # 0 => txn'[w].locks
    BY <1>6, <1>7 DEF IngestionTypeOK
  <2>4. lastId' \in Nat
    <3>1. \E promotes : DrawId(promotes)
      BY DEF BeginCompletion
    <3> QED
      BY <3>1 DEF DrawId, IngestionTypeOK
  <2> QED
    BY <1>1, <2>1, <2>2, <2>3, <2>4 DEF IngestionTypeOK
<1>9. Provenance'
  <2>1. \A q \in Refresh : WellReported(q)'
    BY <1>1 DEF Provenance, WellReported
  <2>2. controlQueue' \in Seq({q \in Refresh : observed'[q] # 0})
    BY <1>1 DEF Provenance
  <2>3. \A w \in Worker : txn'[w] # Idle => observed'[txn'[w].refresh] # 0 /\ txn'[w].stores \subseteq content'[txn'[w].refresh]
    BY <1>1, <1>2, <1>6, <1>7 DEF Provenance
  <2> QED
    BY <1>1, <1>5, <2>1, <2>2, <2>3 DEF Provenance
<1>10. Decided'
  <2>1. \A q : Received(q)' = Received(q)
    BY <1>1 DEF Received
  <2> QED
    BY <1>1, <1>3, <1>6, <1>7, <2>1 DEF Decided, Counted, Promoted
<1> QED
  BY <1>8, <1>9, <1>10

(* What has been received only grows, and with it what is counted.         *)
LEMMA CommitKeeps ==
  ASSUME IngestionInv, NEW w \in Worker, Commit(w)
  PROVE  IngestionInv'
<1> USE DEF IngestionInv
<1>t. PICK t : t = txn[w]
  OBVIOUS
<1>1. /\ t # Idle /\ Upsert(t.refresh, t.stores)
      /\ receipts' = receipts \cup ({t.refresh} \X t.stores)
      /\ completions' = IF w = "control" THEN completions \cup {t.refresh} ELSE completions
      /\ watermark' = IF t.watermark = 0 THEN watermark ELSE [watermark EXCEPT ![t.refresh] = t.watermark]
      /\ txn' = [txn EXCEPT ![w] = Idle]
      /\ UNCHANGED <<clock, observed, completed, content, expected, inventory, outcome,
                     findingQueue, controlQueue, redeliveries, lastId>>
  BY <1>t DEF Commit, refreshVars, queueVars
<1>2. /\ t.refresh \in Refresh /\ t.stores \subseteq Finding /\ t.watermark \in Nat
      /\ observed[t.refresh] # 0 /\ t.stores \subseteq content[t.refresh]
  BY <1>t, <1>1 DEF IngestionTypeOK, Transaction, Provenance
<1>3. \A v \in Worker : txn'[v] # Idle => v # w /\ txn'[v] = txn[v]
  BY <1>1 DEF IngestionTypeOK
<1>4. Reported' = Reported
  BY <1>1, ReportedStays
<1>5. {t.refresh} \X t.stores \subseteq Reported
  BY <1>2 DEF Reported, Message
<1>6. IngestionTypeOK'
  <2>1. /\ metadata' \in [Finding -> Refresh \cup {NoRefresh}]
        /\ lastSeen' \in [Finding -> 0..clock]
    BY <1>1, <1>2 DEF Upsert, IngestionTypeOK
  <2>2. receipts' \subseteq Message /\ \A m \in receipts' : m[2] \in content'[m[1]]
    BY <1>1, <1>5 DEF IngestionTypeOK, Provenance, Reported
  <2>3. completions' \subseteq Refresh /\ watermark' \in [Refresh -> Nat]
    BY <1>1, <1>2 DEF IngestionTypeOK
  <2>4. txn' \in [Worker -> Transaction \cup {Idle}]
    BY <1>1 DEF IngestionTypeOK
  <2>5. \A v \in Worker : txn'[v] # Idle /\ txn'[v].watermark # 0 => txn'[v].locks
    BY <1>3 DEF IngestionTypeOK
  <2> QED
    BY <1>1, <2>1, <2>2, <2>3, <2>4, <2>5 DEF IngestionTypeOK
<1>7. Provenance'
  <2>1. \A q \in Refresh : WellReported(q)'
    BY <1>1 DEF Provenance, WellReported
  <2>2. receipts' \subseteq Reported' /\ \A q \in completions' : observed'[q] # 0
    BY <1>1, <1>2, <1>4, <1>5 DEF Provenance
  <2>3. \A v \in Worker : txn'[v] # Idle => observed'[txn'[v].refresh] # 0 /\ txn'[v].stores \subseteq content'[txn'[v].refresh]
    BY <1>1, <1>3 DEF Provenance
  <2> QED
    BY <1>1, <1>4, <2>1, <2>2, <2>3 DEF Provenance
<1>8. Decided'
  <2>1. \A q : Received(q) \subseteq Received(q)'
    BY <1>1 DEF Received
  <2>2. t.stores \subseteq Received(t.refresh)'
    BY <1>1, <1>2 DEF Received
  <2>3. completions \subseteq completions'
    BY <1>1
  <2>4. \A q, received, more : received \subseteq more /\ Counted(q, received) => Counted(q, more)
    BY DEF Counted
  <2>5. ASSUME NEW v \in Worker, txn'[v] # Idle, txn'[v].watermark # 0
        PROVE  \E u : /\ u = txn'[v] /\ (v = "control" \/ u.refresh \in completions')
                      /\ Counted(u.refresh, Received(u.refresh)' \cup u.stores)
    <3>1. PICK u : u = txn[v] /\ txn'[v] = u
      BY <1>3, <2>5
    <3>2. /\ v = "control" \/ u.refresh \in completions
          /\ Counted(u.refresh, Received(u.refresh) \cup u.stores)
      BY <2>5, <3>1 DEF Decided
    <3>3. Received(u.refresh) \cup u.stores \subseteq Received(u.refresh)' \cup u.stores
      BY <2>1
    <3> QED
      BY <2>3, <2>4, <3>1, <3>2, <3>3
  <2>6. ASSUME NEW r \in Refresh, watermark'[r] # 0
        PROVE  r \in completions' /\ Counted(r, Received(r)')
    <3>1. CASE watermark[r] # 0
      <4>1. r \in completions /\ Counted(r, Received(r))
        BY <3>1 DEF Decided, Promoted
      <4> QED
        BY <2>1, <2>3, <2>4, <4>1
    <3>2. CASE watermark[r] = 0
      <4>1. t.watermark # 0 /\ r = t.refresh
        BY <1>1, <1>2, <2>6, <3>2 DEF IngestionTypeOK
      <4>2. /\ w = "control" \/ t.refresh \in completions
            /\ Counted(t.refresh, Received(t.refresh) \cup t.stores)
        BY <1>t, <1>1, <4>1 DEF Decided
      <4>3. Received(t.refresh) \cup t.stores \subseteq Received(t.refresh)'
        BY <2>1, <2>2
      <4> QED
        BY <1>1, <2>4, <4>1, <4>2, <4>3
    <3> QED
      BY <3>1, <3>2
  <2> QED
    BY <1>1, <1>3, <2>5, <2>6 DEF Decided, Counted, Received, Promoted
<1> QED
  BY <1>6, <1>7, <1>8

LEMMA AbortKeeps ==
  ASSUME IngestionInv, NEW w \in Worker, Abort(w)
  PROVE  IngestionInv'
<1> USE DEF IngestionInv
<1>1. /\ txn' = [txn EXCEPT ![w] = Idle]
      /\ UNCHANGED <<clock, observed, completed, content, expected, inventory, outcome,
                     findingQueue, controlQueue, redeliveries, metadata, lastSeen, receipts,
                     completions, watermark, lastId>>
  BY DEF Abort, refreshVars, queueVars, evidenceRows
<1>2. \A v \in Worker : txn'[v] # Idle => txn'[v] = txn[v]
  BY <1>1 DEF IngestionTypeOK
<1>3. Reported' = Reported
  BY <1>1, ReportedStays
<1>4. IngestionTypeOK'
  BY <1>1, <1>2 DEF IngestionTypeOK
<1>5. Provenance'
  BY <1>1, <1>2, <1>3 DEF Provenance, WellReported
<1>6. Decided'
  BY <1>1, <1>2 DEF Decided, Counted, Received, Promoted
<1> QED
  BY <1>4, <1>5, <1>6

LEMMA RedeliverKeeps ==
  ASSUME IngestionInv, NEW r \in Refresh, Redeliver(r)
  PROVE  IngestionInv'
<1> USE DEF IngestionInv
<1>1. /\ completed[r] # 0 /\ redeliveries < MaxRedeliveries /\ redeliveries' = redeliveries + 1
      /\ UNCHANGED <<clock, observed, completed, content, expected, inventory, outcome, metadata,
                     lastSeen, receipts, completions, watermark, lastId, txn>>
  BY DEF Redeliver, refreshVars, evidenceRows
<1>2. observed[r] # 0
  BY <1>1 DEF Provenance, WellReported
<1>3. Reported' = Reported
  BY <1>1, ReportedStays
<1>4. findingQueue' \in Seq(Reported)
  <2>1. CASE UNCHANGED findingQueue
    BY <2>1 DEF Provenance
  <2>2. ASSUME NEW f \in content[r], findingQueue' = Append(findingQueue, <<r, f>>)
        PROVE  findingQueue' \in Seq(Reported)
    <3>1. <<r, f>> \in Reported
      BY <1>2 DEF Reported, Message, IngestionTypeOK
    <3> QED
      BY <2>2, <3>1 DEF Provenance
  <2> QED
    BY <2>1, <2>2 DEF Redeliver
<1>5. controlQueue' \in Seq({q \in Refresh : observed[q] # 0}) /\ controlQueue' \in Seq(Refresh)
  <2> DEFINE Seen == {q \in Refresh : observed[q] # 0}
  <2>1. r \in Seen /\ controlQueue \in Seq(Seen) /\ Seen \subseteq Refresh
    BY <1>2 DEF Provenance
  <2>2. UNCHANGED controlQueue \/ controlQueue' = Append(controlQueue, r)
    BY DEF Redeliver
  <2> HIDE DEF Seen
  <2>3. controlQueue' \in Seq(Seen)
    BY <2>1, <2>2
  <2>4. controlQueue' \in Seq(Refresh)
    BY <2>1, <2>3, SeqMonotonic
  <2> QED
    BY <2>3, <2>4 DEF Seen
<1>6. IngestionTypeOK'
  <2>1. findingQueue' \in Seq(Message)
    BY <1>4, SeqMonotonic DEF Reported
  <2>2. redeliveries' \in 0..MaxRedeliveries
    BY <1>1, IngestionAssumption DEF IngestionTypeOK
  <2> QED
    BY <1>1, <1>5, <2>1, <2>2 DEF IngestionTypeOK
<1>7. Provenance'
  BY <1>1, <1>3, <1>4, <1>5 DEF Provenance, WellReported
<1>8. Decided'
  BY <1>1 DEF Decided, Counted, Received, Promoted
<1> QED
  BY <1>6, <1>7, <1>8

LEMMA IngestionStep == IngestionInv /\ [IngestionNext]_ingestionVars => IngestionInv'
<1> SUFFICES ASSUME IngestionInv, [IngestionNext]_ingestionVars PROVE IngestionInv'
  OBVIOUS
<1>1. CASE \E r \in Refresh : Observe(r)
  BY <1>1, ObserveKeeps
<1>2. CASE \E r \in Refresh : CompleteRefresh(r)
  BY <1>2, CompleteRefreshKeeps
<1>3. CASE \E r \in Refresh : Redeliver(r)
  BY <1>3, RedeliverKeeps
<1>4. CASE BeginFinding
  BY <1>4, BeginFindingKeeps
<1>5. CASE BeginCompletion
  BY <1>5, BeginCompletionKeeps
<1>6. CASE \E w \in Worker : Commit(w)
  BY <1>6, CommitKeeps
<1>7. CASE \E w \in Worker : Abort(w)
  BY <1>7, AbortKeeps
<1>8. CASE UNCHANGED ingestionVars
  BY <1>8 DEF ingestionVars, IngestionInv, IngestionTypeOK, Provenance, WellReported, Decided,
              Counted, Received, Reported, Promoted
<1> QED
  BY <1>1, <1>2, <1>3, <1>4, <1>5, <1>6, <1>7, <1>8 DEF IngestionNext

-----------------------------------------------------------------------------

(* The invariant holds for any findings, refreshes, reports, losses and    *)
(* repetitions.                                                            *)
THEOREM IngestionHolds == IngestionSpec => []IngestionInv
BY InitiallySound, IngestionStep, PTL DEF IngestionSpec

(* The rows, queues and transactions of an ingestion keep their types, and *)
(* a receipt is of a finding its refresh has reported.                     *)
THEOREM IngestionTypeCorrect == IngestionSpec => []IngestionTypeOK
<1>1. IngestionInv => IngestionTypeOK
  BY DEF IngestionInv
<1> QED
  BY <1>1, IngestionHolds, PTL

(* The watermark of a successful refresh stands for all it has reported,   *)
(* and if it is unfiltered for all the scanner has listed.                 *)
THEOREM WatermarksComplete == IngestionSpec => []WatermarkIsComplete
<1>1. IngestionInv => WatermarkIsComplete
  <2> SUFFICES ASSUME IngestionInv, NEW r \in Refresh, Promoted(r)
      PROVE  /\ r \in completions
             /\ outcome[r] = "SUCCESS" => content[r] \subseteq Received(r)
             /\ outcome[r] = "SUCCESS" /\ r \notin Filtered => inventory[r] \subseteq Received(r)
    BY DEF WatermarkIsComplete
  <2>1. r \in completions /\ Counted(r, Received(r))
    BY DEF IngestionInv, Decided
  <2>2. outcome[r] = "SUCCESS" /\ r \notin Filtered => inventory[r] \subseteq content[r]
    BY <2>1 DEF IngestionInv, Provenance, WellReported
  <2> QED
    BY <2>1, <2>2 DEF Counted
<1> QED
  BY <1>1, IngestionHolds, PTL

-----------------------------------------------------------------------------
(* The order of refreshes *)

(* What has been queued or stored is of a completed refresh, and a stored  *)
(* receipt has left its mark on the finding.                               *)
Sent ==
  /\ \A i \in DOMAIN findingQueue : completed[findingQueue[i][1]] # 0
  /\ txn["findings"] # Idle => completed[txn["findings"].refresh] # 0
  /\ txn["control"] # Idle => txn["control"].stores = {}
  /\ \A f \in Finding : metadata[f] # NoRefresh => completed[metadata[f]] # 0
  /\ \A m \in receipts : completed[m[1]] # 0 /\ metadata[m[2]] # NoRefresh

Earlier(q, r) == completed[q] <= completed[r]

(* What is stored is no later than what is under way, and that no later    *)
(* than what is queued, which is queued in order.                          *)
InOrder ==
  /\ \A i, j \in DOMAIN findingQueue :
       i <= j => Earlier(findingQueue[i][1], findingQueue[j][1])
  /\ txn["findings"] # Idle =>
       \A i \in DOMAIN findingQueue : Earlier(txn["findings"].refresh, findingQueue[i][1])
  /\ \A f \in Finding : metadata[f] # NoRefresh =>
       /\ \A i \in DOMAIN findingQueue : Earlier(metadata[f], findingQueue[i][1])
       /\ txn["findings"] # Idle => Earlier(metadata[f], txn["findings"].refresh)
  /\ \A m \in receipts : Earlier(m[1], metadata[m[2]])

OrderInv == Sent /\ (redeliveries = 0 => InOrder)

LEMMA InitiallyInOrder == IngestionInit => OrderInv
BY DEF IngestionInit, OrderInv, Sent, InOrder, Worker

(* The types, as far as the order of refreshes needs them.                 *)
LEMMA OrderTypes ==
  ASSUME IngestionInv
  PROVE  /\ clock \in Nat /\ completed \in [Refresh -> 0..clock]
         /\ findingQueue \in Seq(Message)
         /\ \A i \in DOMAIN findingQueue : findingQueue[i][1] \in Refresh /\ findingQueue[i][2] \in Finding
         /\ metadata \in [Finding -> Refresh \cup {NoRefresh}]
         /\ \A m \in receipts : m[1] \in Refresh /\ m[2] \in Finding
         /\ txn \in [Worker -> Transaction \cup {Idle}]
         /\ \A w \in Worker : txn[w] # Idle => txn[w].refresh \in Refresh /\ txn[w].stores \subseteq Finding
         /\ "findings" \in Worker /\ "control" \in Worker
<1>1. \A i \in DOMAIN findingQueue : findingQueue[i] \in Message
  BY DEF IngestionInv, IngestionTypeOK
<1>2. \A m \in Message : m[1] \in Refresh /\ m[2] \in Finding
  BY DEF Message
<1>3. \A t \in Transaction : t.refresh \in Refresh /\ t.stores \subseteq Finding
  BY DEF Transaction
<1> QED
  BY <1>1, <1>2, <1>3 DEF IngestionInv, IngestionTypeOK, Worker

LEMMA CompleteRefreshInOrder ==
  ASSUME IngestionInv, OrderInv, NEW r \in Refresh, CompleteRefresh(r)
  PROVE  OrderInv'
<1>1. PICK order \in SetToSeqs({r} \X content[r]) : findingQueue' = findingQueue \o order
  BY DEF CompleteRefresh
<1>2. /\ completed[r] = 0 /\ clock' = clock + 1 /\ completed' = [completed EXCEPT ![r] = clock']
      /\ UNCHANGED <<redeliveries, metadata, receipts, txn>>
  BY DEF CompleteRefresh, InProgress, evidenceRows
<1>3. order \in Seq({r} \X content[r])
  <2> DEFINE S == {r} \X content[r]
             n == Cardinality(S)
  <2>1. n \in Nat
    BY FS_Singleton, FS_Product, FS_CardinalityType DEF IngestionInv, Provenance, WellReported
  <2>2. order \in SetToSeqs(S)
    BY <1>1
  <2> HIDE DEF S
  <2>3. order \in [1..n -> S]
    BY <2>2 DEF SetToSeqs
  <2> HIDE DEF n
  <2>4. order \in Seq(S)
    BY <2>1, <2>3, SeqDef
  <2> QED
    BY <2>4 DEF S
(* Whatever is there already is of an earlier refresh.                     *)
<1>4. \A q \in Refresh : completed[q] # 0 => completed'[q] = completed[q] /\ completed'[q] < completed'[r]
  BY <1>2, OrderTypes
<1>5. completed'[r] # 0 /\ completed'[r] \in Nat
  BY <1>2, OrderTypes
<1>6. \A q \in Refresh : completed[q] \in Nat
  BY OrderTypes
<1>7. \A i \in DOMAIN findingQueue' :
        \/ i \in DOMAIN findingQueue /\ findingQueue'[i] = findingQueue[i]
        \/ i \notin DOMAIN findingQueue /\ findingQueue'[i][1] = r
  <2>1. \A k \in 1..Len(order) : order[k][1] = r
    BY <1>3
  <2>2. findingQueue \in Seq(Message) /\ Len(findingQueue) \in Nat /\ Len(order) \in Nat
    BY <1>3, OrderTypes
  <2>3. /\ Len(findingQueue') = Len(findingQueue) + Len(order)
        /\ DOMAIN findingQueue = 1..Len(findingQueue)
        /\ DOMAIN findingQueue' = 1..(Len(findingQueue) + Len(order))
        /\ \A i \in 1..(Len(findingQueue) + Len(order)) :
             findingQueue'[i] = IF i <= Len(findingQueue) THEN findingQueue[i]
                                                          ELSE order[i - Len(findingQueue)]
    BY <1>1, <1>3, <2>2
  <2> SUFFICES ASSUME NEW i \in DOMAIN findingQueue'
      PROVE  \/ i \in DOMAIN findingQueue /\ findingQueue'[i] = findingQueue[i]
             \/ i \notin DOMAIN findingQueue /\ findingQueue'[i][1] = r
    OBVIOUS
  <2>4. CASE i <= Len(findingQueue)
    BY <2>2, <2>3, <2>4
  <2>5. CASE ~(i <= Len(findingQueue))
    <3>1. i - Len(findingQueue) \in 1..Len(order)
      BY <2>2, <2>3, <2>5
    <3> QED
      BY <2>1, <2>2, <2>3, <2>5, <3>1
  <2> QED
    BY <2>4, <2>5
<1>8. Sent'
  <2>1. \A i \in DOMAIN findingQueue' : completed'[findingQueue'[i][1]] # 0
    BY <1>4, <1>5, <1>7, OrderTypes DEF OrderInv, Sent
  <2>2. txn'["findings"] # Idle => completed'[txn'["findings"].refresh] # 0
    BY <1>2, <1>4, OrderTypes DEF OrderInv, Sent
  <2>3. \A f \in Finding : metadata'[f] # NoRefresh => completed'[metadata'[f]] # 0
    BY <1>2, <1>4, OrderTypes DEF OrderInv, Sent
  <2>4. \A m \in receipts' : completed'[m[1]] # 0 /\ metadata'[m[2]] # NoRefresh
    BY <1>2, <1>4, OrderTypes DEF OrderInv, Sent
  <2> QED
    BY <1>2, <2>1, <2>2, <2>3, <2>4 DEF OrderInv, Sent
<1>9. ASSUME redeliveries' = 0 PROVE InOrder'
  <2>1. InOrder
    BY <1>2, <1>9 DEF OrderInv
  <2>2. \A q, s \in Refresh : completed[q] # 0 /\ completed[s] # 0 /\ Earlier(q, s) => completed'[q] <= completed'[s]
    BY <1>4 DEF Earlier
  <2>3. \A q \in Refresh : completed[q] # 0 => completed'[q] <= completed'[r]
    BY <1>4, <1>5, <1>6
  <2>4. \A i, j \in DOMAIN findingQueue' : i <= j => completed'[findingQueue'[i][1]] <= completed'[findingQueue'[j][1]]
    <3> SUFFICES ASSUME NEW i \in DOMAIN findingQueue', NEW j \in DOMAIN findingQueue', i <= j
        PROVE  completed'[findingQueue'[i][1]] <= completed'[findingQueue'[j][1]]
      OBVIOUS
    <3>1. CASE j \in DOMAIN findingQueue
      <4>1. i \in DOMAIN findingQueue
        BY <1>1, <1>3, <3>1, OrderTypes
      <4> QED
        BY <1>7, <2>1, <2>2, <3>1, <4>1, OrderTypes DEF OrderInv, Sent, InOrder
    <3>2. CASE j \notin DOMAIN findingQueue
      <4>1. findingQueue'[j][1] = r
        BY <1>7, <3>2
      <4>2. CASE i \in DOMAIN findingQueue
        BY <1>7, <2>3, <4>1, <4>2, OrderTypes DEF OrderInv, Sent
      <4>3. CASE i \notin DOMAIN findingQueue
        BY <1>5, <1>7, <4>1, <4>3
      <4> QED
        BY <4>2, <4>3
    <3> QED
      BY <3>1, <3>2
  <2>5. txn'["findings"] # Idle =>
          \A i \in DOMAIN findingQueue' : completed'[txn'["findings"].refresh] <= completed'[findingQueue'[i][1]]
    BY <1>2, <1>7, <2>1, <2>2, <2>3, OrderTypes DEF OrderInv, Sent, InOrder
  <2>6. \A f \in Finding : metadata'[f] # NoRefresh =>
          /\ \A i \in DOMAIN findingQueue' : completed'[metadata'[f]] <= completed'[findingQueue'[i][1]]
          /\ txn'["findings"] # Idle => completed'[metadata'[f]] <= completed'[txn'["findings"].refresh]
    BY <1>2, <1>7, <2>1, <2>2, <2>3, OrderTypes DEF OrderInv, Sent, InOrder
  <2>7. \A m \in receipts' : completed'[m[1]] <= completed'[metadata'[m[2]]]
    BY <1>2, <2>1, <2>2, OrderTypes DEF OrderInv, Sent, InOrder
  <2> QED
    BY <2>4, <2>5, <2>6, <2>7 DEF InOrder, Earlier
<1> QED
  BY <1>8, <1>9 DEF OrderInv

LEMMA BeginFindingInOrder ==
  ASSUME IngestionInv, OrderInv, BeginFinding
  PROVE  OrderInv'
<1>1. PICK r : r = Head(findingQueue)[1]
  OBVIOUS
<1>2. /\ findingQueue # <<>> /\ findingQueue' = Tail(findingQueue)
      /\ txn'["findings"].refresh = r /\ txn'["control"] = txn["control"]
      /\ UNCHANGED <<completed, redeliveries, metadata, receipts>>
  BY <1>1, OrderTypes DEF BeginFinding, refreshVars, evidenceRows
<1>3. /\ 1 \in DOMAIN findingQueue /\ findingQueue[1][1] = r
      /\ \A i \in DOMAIN findingQueue' : i + 1 \in DOMAIN findingQueue /\ findingQueue'[i] = findingQueue[i + 1] /\ 1 <= i + 1
      /\ DOMAIN findingQueue' \subseteq Nat
  BY <1>1, <1>2, OrderTypes
<1>4. Sent'
  BY <1>2, <1>3 DEF OrderInv, Sent
<1>5. ASSUME redeliveries' = 0 PROVE InOrder'
  <2>1. InOrder
    BY <1>2, <1>5 DEF OrderInv
  <2>2. \A i, j \in DOMAIN findingQueue' : i <= j => completed[findingQueue'[i][1]] <= completed[findingQueue'[j][1]]
    <3>1. \A i, j \in DOMAIN findingQueue' : i <= j => i + 1 <= j + 1
      BY <1>3
    <3> QED
      BY <1>3, <2>1, <3>1 DEF InOrder, Earlier
  <2>3. \A i \in DOMAIN findingQueue' : completed[r] <= completed[findingQueue'[i][1]]
    BY <1>3, <2>1 DEF InOrder, Earlier
  <2>4. \A f \in Finding : metadata[f] # NoRefresh =>
          /\ \A i \in DOMAIN findingQueue' : completed[metadata[f]] <= completed[findingQueue'[i][1]]
          /\ completed[metadata[f]] <= completed[r]
    BY <1>3, <2>1 DEF InOrder, Earlier
  <2> QED
    BY <1>2, <2>1, <2>2, <2>3, <2>4 DEF InOrder, Earlier
<1> QED
  BY <1>4, <1>5 DEF OrderInv

(* The finding takes the refresh of the transaction, which no receipt is   *)
(* later than; a completion stores no finding.                             *)
LEMMA CommitInOrder ==
  ASSUME IngestionInv, OrderInv, NEW w \in Worker, Commit(w)
  PROVE  OrderInv'
<1>1. PICK t : t = txn[w]
  OBVIOUS
<1>2. /\ t # Idle /\ metadata' = [f \in Finding |-> IF f \in t.stores THEN t.refresh ELSE metadata[f]]
      /\ receipts' = receipts \cup ({t.refresh} \X t.stores)
      /\ txn' = [txn EXCEPT ![w] = Idle]
      /\ UNCHANGED <<completed, findingQueue, redeliveries>>
  BY <1>1 DEF Commit, Upsert, refreshVars, queueVars
<1>3. t.refresh \in Refresh /\ t.stores \subseteq Finding /\ completed[t.refresh] \in Nat
  BY <1>1, <1>2, OrderTypes
<1>4. \A v \in Worker : txn'[v] # Idle => v # w /\ txn'[v] = txn[v]
  BY <1>2, OrderTypes
<1>5. t.refresh # NoRefresh
  BY <1>3, NoRefreshAssumption
<1>6. t.stores # {} => w = "findings" /\ completed[t.refresh] # 0
  BY <1>1, <1>2 DEF OrderInv, Sent, Worker
<1>7. \A m \in receipts' : m \in receipts \/ (m[1] = t.refresh /\ m[2] \in t.stores)
  BY <1>2
<1>8. \A f \in Finding : metadata'[f] = IF f \in t.stores THEN t.refresh ELSE metadata[f]
  BY <1>2
<1>9. Sent'
  <2>1. \A f \in Finding : metadata'[f] # NoRefresh => completed[metadata'[f]] # 0
    BY <1>6, <1>8 DEF OrderInv, Sent
  <2>2. \A m \in receipts' : completed[m[1]] # 0 /\ metadata'[m[2]] # NoRefresh
    <3> SUFFICES ASSUME NEW m \in receipts' PROVE completed[m[1]] # 0 /\ metadata'[m[2]] # NoRefresh
      OBVIOUS
    <3>1. CASE m \in receipts
      BY <1>5, <1>8, <3>1, OrderTypes DEF OrderInv, Sent
    <3>2. CASE m[1] = t.refresh /\ m[2] \in t.stores
      BY <1>3, <1>5, <1>6, <1>8, <3>2
    <3> QED
      BY <1>7, <3>1, <3>2
  <2> QED
    BY <1>2, <1>4, <2>1, <2>2, OrderTypes DEF OrderInv, Sent
<1>10. ASSUME redeliveries' = 0 PROVE InOrder'
  <2>1. InOrder
    BY <1>2, <1>10 DEF OrderInv
  <2>2. CASE t.stores = {}
    <3>1. \A f \in Finding : metadata'[f] = metadata[f]
      BY <1>8, <2>2
    <3>2. receipts' = receipts
      BY <1>2, <2>2
    <3>3. \A m \in receipts' : Earlier(m[1], metadata[m[2]]) /\ metadata'[m[2]] = metadata[m[2]]
      BY <2>1, <3>1, <3>2, OrderTypes DEF InOrder
    <3> QED
      BY <1>2, <1>4, <2>1, <3>1, <3>3, OrderTypes DEF InOrder, Earlier
  <2>3. CASE t.stores # {}
    <3>1. w = "findings" /\ txn'["findings"] = Idle
      BY <1>2, <1>6, <2>3, OrderTypes
    <3>2. \A f \in Finding : metadata'[f] # NoRefresh =>
            \A i \in DOMAIN findingQueue : completed[metadata'[f]] <= completed[findingQueue[i][1]]
      BY <1>1, <1>2, <1>8, <2>1, <3>1 DEF InOrder, Earlier
    <3>3. \A m \in receipts' : completed[m[1]] <= completed[metadata'[m[2]]]
      <4> SUFFICES ASSUME NEW m \in receipts' PROVE completed[m[1]] <= completed[metadata'[m[2]]]
        OBVIOUS
      <4>1. CASE m \in receipts /\ m[2] \notin t.stores
        BY <1>8, <2>1, <4>1, OrderTypes DEF InOrder, Earlier
      <4>2. CASE m \in receipts /\ m[2] \in t.stores
        <5>1. /\ m[1] \in Refresh /\ m[2] \in Finding /\ metadata[m[2]] # NoRefresh
              /\ metadata[m[2]] \in Refresh /\ metadata'[m[2]] = t.refresh
          BY <1>8, <4>2, OrderTypes DEF OrderInv, Sent
        <5>2. completed[m[1]] <= completed[metadata[m[2]]] /\ completed[metadata[m[2]]] <= completed[t.refresh]
          BY <1>1, <1>2, <2>1, <3>1, <4>2, <5>1 DEF InOrder, Earlier
        <5>3. completed[m[1]] \in Nat /\ completed[metadata[m[2]]] \in Nat
          BY <5>1, OrderTypes
        <5> QED
          BY <1>3, <5>1, <5>2, <5>3
      <4>3. CASE m[1] = t.refresh /\ m[2] \in t.stores
        BY <1>3, <1>8, <4>3
      <4> QED
        BY <1>7, <4>1, <4>2, <4>3
    <3> QED
      BY <1>2, <2>1, <3>1, <3>2, <3>3 DEF InOrder, Earlier
  <2> QED
    BY <2>2, <2>3
<1> QED
  BY <1>9, <1>10 DEF OrderInv

LEMMA RedeliverInOrder ==
  ASSUME IngestionInv, OrderInv, NEW r \in Refresh, Redeliver(r)
  PROVE  OrderInv'
<1>1. /\ completed[r] # 0 /\ redeliveries' = redeliveries + 1
      /\ UNCHANGED <<completed, metadata, receipts, txn>>
  BY DEF Redeliver, refreshVars, evidenceRows
<1>2. redeliveries' # 0
  BY <1>1 DEF IngestionInv, IngestionTypeOK
<1>3. \A i \in DOMAIN findingQueue' : completed[findingQueue'[i][1]] # 0
  <2>1. CASE UNCHANGED findingQueue
    BY <2>1 DEF OrderInv, Sent
  <2>2. ASSUME NEW f \in content[r], findingQueue' = Append(findingQueue, <<r, f>>)
        PROVE  \A i \in DOMAIN findingQueue' : completed[findingQueue'[i][1]] # 0
    <3>1. \A i \in DOMAIN findingQueue' :
            \/ i \in DOMAIN findingQueue /\ findingQueue'[i] = findingQueue[i]
            \/ findingQueue'[i] = <<r, f>>
      BY <2>2, OrderTypes
    <3> QED
      BY <1>1, <3>1 DEF OrderInv, Sent
  <2> QED
    BY <2>1, <2>2 DEF Redeliver
<1>4. Sent'
  BY <1>1, <1>3 DEF OrderInv, Sent
<1> QED
  BY <1>2, <1>4 DEF OrderInv

LEMMA OrderStep == IngestionInv /\ OrderInv /\ [IngestionNext]_ingestionVars => OrderInv'
<1> SUFFICES ASSUME IngestionInv, OrderInv, [IngestionNext]_ingestionVars PROVE OrderInv'
  OBVIOUS
<1>1. CASE \E r \in Refresh : Observe(r)
  BY <1>1 DEF Observe, queueVars, evidenceRows, OrderInv, Sent, InOrder, Earlier
<1>2. CASE \E r \in Refresh : CompleteRefresh(r)
  BY <1>2, CompleteRefreshInOrder
<1>3. CASE \E r \in Refresh : Redeliver(r)
  BY <1>3, RedeliverInOrder
<1>4. CASE BeginFinding
  BY <1>4, BeginFindingInOrder
<1>5. CASE BeginCompletion
  <2>1. /\ txn'["findings"] = txn["findings"] /\ txn'["control"].stores = {}
        /\ UNCHANGED <<completed, findingQueue, redeliveries, metadata, receipts>>
    BY <1>5, OrderTypes DEF BeginCompletion, refreshVars, evidenceRows
  <2> QED
    BY <2>1 DEF OrderInv, Sent, InOrder, Earlier
<1>6. CASE \E w \in Worker : Commit(w)
  BY <1>6, CommitInOrder
<1>7. CASE \E w \in Worker : Abort(w)
  <2>1. /\ \A v \in Worker : txn'[v] # Idle => txn'[v] = txn[v]
        /\ UNCHANGED <<completed, findingQueue, redeliveries, metadata, receipts>>
    BY <1>7, OrderTypes DEF Abort, refreshVars, queueVars, evidenceRows
  <2> QED
    BY <2>1, OrderTypes DEF OrderInv, Sent, InOrder, Earlier
<1>8. CASE UNCHANGED ingestionVars
  BY <1>8 DEF ingestionVars, OrderInv, Sent, InOrder, Earlier
<1> QED
  BY <1>1, <1>2, <1>3, <1>4, <1>5, <1>6, <1>7, <1>8 DEF IngestionNext

(* Without repetitions a finding carries the newest refresh that has       *)
(* reported it, for any number of refreshes that overlap in any way.       *)
THEOREM NewestWins == IngestionSpec => []NewestReportWins
<1>1. OrderInv => NewestReportWins
  BY DEF OrderInv, InOrder, Earlier, NewestReportWins
<1>2. IngestionSpec => [](IngestionInv /\ OrderInv)
  BY InitiallySound, InitiallyInOrder, IngestionStep, OrderStep, PTL DEF IngestionSpec
<1> QED
  BY <1>1, <1>2, PTL

-----------------------------------------------------------------------------
(* A refresh is promoted once *)

(* The lock on the completion row keeps the transactions apart: a finding  *)
(* locks a row that is committed, no two transactions lock the same row,   *)
(* and one that promotes a refresh is the first to do so.                  *)
Exclusive ==
  /\ txn["findings"] # Idle /\ txn["findings"].locks => txn["findings"].refresh \in completions
  /\ txn["findings"] # Idle /\ txn["control"] # Idle /\ txn["findings"].locks /\ txn["control"].locks
       => txn["findings"].refresh # txn["control"].refresh
  /\ \A w \in Worker : txn[w] # Idle /\ txn[w].watermark # 0 => ~Promoted(txn[w].refresh)

LEMMA InitiallyExclusive == IngestionInit => Exclusive
BY DEF IngestionInit, Exclusive, Worker

LEMMA BeginFindingExclusive ==
  ASSUME IngestionInv, Exclusive, BeginFinding
  PROVE  Exclusive'
<1>1. PICK r : r = Head(findingQueue)[1]
  OBVIOUS
<1>2. /\ txn'["findings"].refresh = r /\ (txn'["findings"].locks <=> r \in completions)
      /\ txn'["findings"].watermark # 0 => ~Promoted(r)
      /\ txn'["control"] = txn["control"] /\ RowFree(r)
      /\ UNCHANGED <<completions, watermark>>
  BY <1>1, OrderTypes DEF BeginFinding, Promotes, evidenceRows
<1>3. r \in completions /\ txn["control"] # Idle /\ txn["control"].locks => txn["control"].refresh # r
  BY <1>2, OrderTypes DEF RowFree
<1> QED
  BY <1>2, <1>3 DEF Exclusive, Promoted, Worker

LEMMA BeginCompletionExclusive ==
  ASSUME IngestionInv, Exclusive, BeginCompletion
  PROVE  Exclusive'
<1>1. PICK r : r = Head(controlQueue)
  OBVIOUS
<1>2. /\ txn'["control"].refresh = r
      /\ txn'["control"].watermark # 0 => ~Promoted(r)
      /\ txn'["findings"] = txn["findings"] /\ RowFree(r)
      /\ UNCHANGED <<completions, watermark>>
  BY <1>1, OrderTypes DEF BeginCompletion, Promotes, evidenceRows
<1>3. r \in completions /\ txn["findings"] # Idle /\ txn["findings"].locks => txn["findings"].refresh # r
  BY <1>2, OrderTypes DEF RowFree
<1> QED
  BY <1>2, <1>3 DEF Exclusive, Promoted, Worker

(* The watermark that is written is not of the refresh that the other      *)
(* transaction promotes, which has locked its own row.                     *)
LEMMA CommitExclusive ==
  ASSUME IngestionInv, Exclusive, NEW w \in Worker, Commit(w)
  PROVE  Exclusive' /\ \A r \in Refresh : Promoted(r) => watermark'[r] = watermark[r]
<1>1. PICK t : t = txn[w]
  OBVIOUS
<1>2. /\ t # Idle /\ t.refresh \in Refresh /\ completions \subseteq completions'
      /\ watermark' = IF t.watermark = 0 THEN watermark ELSE [watermark EXCEPT ![t.refresh] = t.watermark]
      /\ txn' = [txn EXCEPT ![w] = Idle]
  BY <1>1, OrderTypes DEF Commit
<1>3. \A v \in Worker : txn'[v] # Idle => v # w /\ txn'[v] = txn[v]
  BY <1>2, OrderTypes
<1>4. \A r \in Refresh : watermark'[r] # watermark[r] => t.watermark # 0 /\ r = t.refresh
  BY <1>2 DEF IngestionInv, IngestionTypeOK
<1>5. \A r \in Refresh : Promoted(r) => watermark'[r] = watermark[r]
  BY <1>1, <1>2, <1>4 DEF Exclusive
<1>6. ASSUME NEW v \in Worker, txn'[v] # Idle, txn'[v].watermark # 0
      PROVE  watermark'[txn'[v].refresh] = 0
  <2>1. PICK u : u = txn[v] /\ u = txn'[v] /\ v # w /\ u.refresh \in Refresh /\ u.locks /\ watermark[u.refresh] = 0
    BY <1>3, <1>6, OrderTypes DEF Exclusive, Promoted, IngestionInv, IngestionTypeOK
  <2>2. t.watermark # 0 => t.locks
    BY <1>1, <1>2 DEF IngestionInv, IngestionTypeOK
  <2>3. t.watermark # 0 => t.refresh # u.refresh
    BY <1>1, <1>2, <1>3, <1>6, <2>1, <2>2 DEF Exclusive, Worker
  <2> QED
    BY <1>4, <2>1, <2>3
<1>7. Exclusive'
  BY <1>2, <1>3, <1>6 DEF Exclusive, Promoted, Worker
<1> QED
  BY <1>5, <1>7

LEMMA ExclusiveStep ==
  IngestionInv /\ Exclusive /\ [IngestionNext]_ingestionVars
    => Exclusive' /\ \A r \in Refresh : Promoted(r) => watermark'[r] = watermark[r]
<1> SUFFICES ASSUME IngestionInv, Exclusive, [IngestionNext]_ingestionVars
    PROVE  Exclusive' /\ \A r \in Refresh : Promoted(r) => watermark'[r] = watermark[r]
  OBVIOUS
<1>1. CASE BeginFinding
  BY <1>1, BeginFindingExclusive DEF BeginFinding, evidenceRows
<1>2. CASE BeginCompletion
  BY <1>2, BeginCompletionExclusive DEF BeginCompletion, evidenceRows
<1>3. CASE \E w \in Worker : Commit(w)
  BY <1>3, CommitExclusive
<1>4. CASE \E w \in Worker : Abort(w)
  <2>1. UNCHANGED <<completions, watermark>> /\ \A v \in Worker : txn'[v] # Idle => txn'[v] = txn[v]
    BY <1>4, OrderTypes DEF Abort, evidenceRows
  <2> QED
    BY <2>1 DEF Exclusive, Promoted, Worker
<1>5. CASE (\E r \in Refresh : Observe(r) \/ CompleteRefresh(r) \/ Redeliver(r)) \/ UNCHANGED ingestionVars
  <2>1. UNCHANGED <<completions, watermark, txn>>
    BY <1>5 DEF Observe, CompleteRefresh, Redeliver, evidenceRows, ingestionVars
  <2> QED
    BY <2>1 DEF Exclusive, Promoted
<1> QED
  BY <1>1, <1>2, <1>3, <1>4, <1>5 DEF IngestionNext

(* A watermark is written once: two workers that find a refresh complete   *)
(* at the same time, or one that gets a message again, do not promote it   *)
(* twice, and its watermark_id never changes.                              *)
THEOREM PromotedOnce == IngestionSpec => [][\A r \in Refresh : Promoted(r) => watermark'[r] = watermark[r]]_watermark
<1>1. IngestionInv /\ Exclusive /\ [IngestionNext]_ingestionVars
        => Exclusive' /\ [\A r \in Refresh : Promoted(r) => watermark'[r] = watermark[r]]_watermark
  BY ExclusiveStep
<1> QED
  BY <1>1, InitiallyExclusive, IngestionHolds, PTL DEF IngestionSpec

=============================================================================
