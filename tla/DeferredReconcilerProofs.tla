----------------------- MODULE DeferredReconcilerProofs -----------------------
(***************************************************************************)
(* Proofs about DeferredReconciler: the types, that a decision is taken    *)
(* once, and that what it concludes is what the scanner has said, for any  *)
(* number of jobs, reconcilers, refreshes and findings.                    *)
(*                                                                         *)
(* The argument goes through the rows.  The finding's row says which       *)
(* refresh has reported it last and when it was seen last, and which may   *)
(* have been overwritten; a context keeps what the row said when it was    *)
(* read, and a verdict what the context said about the watermark it cites. *)
(* Refreshes that have completed and watermarks that are written never     *)
(* change, so neither becomes false.                                       *)
(***************************************************************************)
EXTENDS DeferredReconciler, RefreshIngestionProofs

-----------------------------------------------------------------------------
(* What the rows of the ingestion say *)

Evidence ==
  /\ \A i \in DOMAIN controlQueue : completed[controlQueue[i]] # 0
  /\ \A w \in Worker : txn[w] # Idle => completed[txn[w].refresh] # 0
  /\ \A r \in completions : completed[r] # 0
  /\ \A f \in Finding : metadata[f] # NoRefresh =>
       f \in content[metadata[f]] /\ lastSeen[f] >= observed[metadata[f]]
  /\ \A f \in Finding : lastSeen[f] # 0 =>
       \E r \in Refresh : f \in content[r] /\ observed[r] = lastSeen[f]
  /\ \A r \in Refresh : completed[r] # 0 => observed[r] < completed[r]
  /\ \A q, r \in Refresh : completed[q] # 0 /\ completed[q] = completed[r] => q = r

Basis == IngestionInv /\ OrderInv /\ Exclusive /\ Evidence

LEMMA BasisTypes ==
  ASSUME IngestionInv
  PROVE  /\ clock \in Nat /\ observed \in [Refresh -> 0..clock] /\ completed \in [Refresh -> 0..clock]
         /\ content \in [Refresh -> SUBSET Finding] /\ inventory \in [Refresh -> SUBSET Finding]
         /\ outcome \in [Refresh -> {"SUCCESS", "FAILED"}]
         /\ controlQueue \in Seq(Refresh) /\ watermark \in [Refresh -> Nat]
         /\ metadata \in [Finding -> Refresh \cup {NoRefresh}] /\ lastSeen \in [Finding -> 0..clock]
         /\ txn \in [Worker -> Transaction \cup {Idle}]
         /\ completions \subseteq Refresh
         /\ \A r \in Refresh : completed[r] # 0 => observed[r] # 0
         /\ \A r \in Refresh : Promoted(r) => r \in completions
         /\ redeliveries \in Nat
BY IngestionAssumption DEF IngestionInv, IngestionTypeOK, Provenance, WellReported, Decided

(* A refresh does not change once it has been observed, nor the instant of *)
(* its completion, nor a watermark that has been written.                  *)
Grows ==
  /\ \A r \in Refresh : observed[r] # 0 =>
       /\ observed'[r] = observed[r] /\ content'[r] = content[r]
       /\ inventory'[r] = inventory[r] /\ outcome'[r] = outcome[r]
  /\ \A r \in Refresh : completed[r] # 0 => completed'[r] = completed[r]
  /\ \A r \in Refresh : Promoted(r) => watermark'[r] = watermark[r]
  /\ redeliveries' >= redeliveries

LEMMA IngestionGrows == ASSUME IngestionInv, Exclusive, [IngestionNext]_ingestionVars PROVE Grows
<1> USE BasisTypes
<1>0. \A r \in Refresh : Promoted(r) => watermark'[r] = watermark[r]
  BY ExclusiveStep
<1>1. CASE \E r \in Refresh : Observe(r)
  BY <1>0, <1>1 DEF Observe, queueVars, Grows
<1>2. CASE \E r \in Refresh : CompleteRefresh(r)
  BY <1>0, <1>2 DEF CompleteRefresh, InProgress, Grows
<1>3. CASE \E r \in Refresh : Redeliver(r)
  BY <1>0, <1>3 DEF Redeliver, refreshVars, Grows
<1>4. CASE BeginFinding \/ BeginCompletion
  <2>1. UNCHANGED <<observed, completed, content, inventory, outcome, redeliveries>>
    BY <1>4 DEF BeginFinding, BeginCompletion, refreshVars
  <2> QED
    BY <1>0, <2>1 DEF Grows
<1>5. CASE \E w \in Worker : Commit(w)
  <2>1. UNCHANGED <<observed, completed, content, inventory, outcome, redeliveries>>
    BY <1>5 DEF Commit, refreshVars, queueVars
  <2> QED
    BY <1>0, <2>1 DEF Grows
<1>6. CASE \E w \in Worker : Abort(w)
  BY <1>0, <1>6 DEF Abort, refreshVars, queueVars, Grows
<1>7. CASE UNCHANGED ingestionVars
  BY <1>0, <1>7 DEF ingestionVars, Grows
<1> QED
  BY <1>1, <1>2, <1>3, <1>4, <1>5, <1>6, <1>7 DEF IngestionNext

LEMMA InitiallyEvident == IngestionInit => Evidence
BY DEF IngestionInit, Evidence, Worker

LEMMA ObserveEvident ==
  ASSUME Basis, NEW r \in Refresh, Observe(r)
  PROVE  Evidence'
<1> USE BasisTypes DEF Basis
<1>1. /\ observed[r] = 0 /\ clock' = clock + 1 /\ observed' = [observed EXCEPT ![r] = clock']
      /\ UNCHANGED <<completed, controlQueue, txn, completions, metadata, lastSeen>>
  BY DEF Observe, queueVars, evidenceRows
<1>2. Grows
  BY IngestionGrows DEF IngestionNext
<1>3. \A q \in Refresh : q # r => observed'[q] = observed[q]
  BY <1>1
<1>4. completed[r] = 0 /\ \A q \in Refresh : completed[q] # 0 => observed[q] # 0
  BY <1>1
<1>5. \A f \in Finding : metadata'[f] # NoRefresh =>
        f \in content'[metadata'[f]] /\ lastSeen'[f] >= observed'[metadata'[f]]
  <2>1. \A f \in Finding : metadata[f] # NoRefresh => metadata[f] \in Refresh /\ observed[metadata[f]] # 0
    BY <1>4 DEF OrderInv, Sent
  <2> QED
    BY <1>1, <1>2, <2>1 DEF Evidence, Grows
<1>6. \A f \in Finding : lastSeen'[f] # 0 =>
        \E q \in Refresh : f \in content'[q] /\ observed'[q] = lastSeen'[f]
  <2> SUFFICES ASSUME NEW f \in Finding, lastSeen[f] # 0
      PROVE  \E q \in Refresh : f \in content'[q] /\ observed'[q] = lastSeen[f]
    BY <1>1
  <2>1. PICK q \in Refresh : f \in content[q] /\ observed[q] = lastSeen[f]
    BY DEF Evidence
  <2> QED
    BY <1>2, <2>1 DEF Grows
<1>7. \A q \in Refresh : completed'[q] # 0 => observed'[q] < completed'[q]
  BY <1>1, <1>3, <1>4 DEF Evidence
<1> QED
  BY <1>1, <1>5, <1>6, <1>7 DEF Evidence

LEMMA CompleteRefreshEvident ==
  ASSUME Basis, NEW r \in Refresh, CompleteRefresh(r)
  PROVE  Evidence'
<1> USE BasisTypes DEF Basis
<1>1. /\ observed[r] # 0 /\ completed[r] = 0 /\ clock' = clock + 1
      /\ completed' = [completed EXCEPT ![r] = clock'] /\ controlQueue' = Append(controlQueue, r)
      /\ UNCHANGED <<observed, content, txn, completions, metadata, lastSeen>>
  BY DEF CompleteRefresh, InProgress, evidenceRows
<1>2. \A q \in Refresh : completed[q] # 0 => completed'[q] = completed[q]
  BY <1>1
<1>3. completed'[r] # 0 /\ observed[r] < completed'[r] /\ \A q \in Refresh : q # r => completed'[q] = completed[q]
  BY <1>1
<1>4. \A i \in DOMAIN controlQueue' : completed'[controlQueue'[i]] # 0
  <2>1. \A i \in DOMAIN controlQueue' : controlQueue'[i] = r \/ (i \in DOMAIN controlQueue /\ controlQueue'[i] = controlQueue[i])
    BY <1>1
  <2>2. \A i \in DOMAIN controlQueue : controlQueue[i] \in Refresh
    OBVIOUS
  <2> QED
    BY <1>2, <1>3, <2>1, <2>2 DEF Evidence
<1>5. \A w \in Worker : txn'[w] # Idle => completed'[txn'[w].refresh] # 0
  BY <1>1, <1>2 DEF Evidence, Transaction
<1>6. \A q \in completions' : completed'[q] # 0
  BY <1>1, <1>2 DEF Evidence
<1>7. \A q \in Refresh : completed'[q] # 0 => observed'[q] < completed'[q]
  BY <1>1, <1>3 DEF Evidence
<1>8. \A p, q \in Refresh : completed'[p] # 0 /\ completed'[p] = completed'[q] => p = q
  BY <1>1, <1>3 DEF Evidence
<1> QED
  BY <1>1, <1>4, <1>5, <1>6, <1>7, <1>8 DEF Evidence

(* The finding takes the refresh of the transaction, which has reported    *)
(* it, and is seen no earlier than that refresh.                           *)
LEMMA CommitEvident ==
  ASSUME Basis, NEW w \in Worker, Commit(w)
  PROVE  Evidence'
<1> USE BasisTypes DEF Basis
<1>1. PICK t : t = txn[w]
  OBVIOUS
<1>2. /\ t # Idle
      /\ metadata' = [f \in Finding |-> IF f \in t.stores THEN t.refresh ELSE metadata[f]]
      /\ lastSeen' = [f \in Finding |-> IF f \in t.stores /\ observed[t.refresh] > lastSeen[f]
                                        THEN observed[t.refresh] ELSE lastSeen[f]]
      /\ completions' = IF w = "control" THEN completions \cup {t.refresh} ELSE completions
      /\ txn' = [txn EXCEPT ![w] = Idle]
      /\ UNCHANGED <<observed, completed, content, controlQueue>>
  BY <1>1 DEF Commit, Upsert, refreshVars, queueVars
<1>3. /\ t.refresh \in Refresh /\ t.stores \subseteq content[t.refresh] /\ completed[t.refresh] # 0
      /\ observed[t.refresh] \in Nat
  <2>1. t \in Transaction
    BY <1>1, <1>2
  <2>2. t.stores \subseteq content[t.refresh] /\ completed[t.refresh] # 0
    BY <1>1, <1>2 DEF Evidence, IngestionInv, Provenance
  <2> QED
    BY <2>1, <2>2 DEF Transaction
<1>4. \A v \in Worker : txn'[v] # Idle => txn'[v] = txn[v]
  BY <1>2
<1>5. \A f \in Finding : metadata'[f] # NoRefresh =>
        f \in content'[metadata'[f]] /\ lastSeen'[f] >= observed'[metadata'[f]]
  <2> SUFFICES ASSUME NEW f \in Finding, metadata'[f] # NoRefresh
      PROVE  f \in content[metadata'[f]] /\ lastSeen'[f] >= observed[metadata'[f]]
    BY <1>2
  <2>1. lastSeen[f] \in Nat /\ lastSeen'[f] \in Nat
    BY <1>2, <1>3
  <2>2. CASE f \in t.stores
    BY <1>2, <1>3, <2>1, <2>2
  <2>3. CASE f \notin t.stores
    BY <1>2, <2>1, <2>3 DEF Evidence
  <2> QED
    BY <2>2, <2>3
<1>6. \A f \in Finding : lastSeen'[f] # 0 =>
        \E r \in Refresh : f \in content'[r] /\ observed'[r] = lastSeen'[f]
  <2> SUFFICES ASSUME NEW f \in Finding, lastSeen'[f] # 0
      PROVE  \E r \in Refresh : f \in content[r] /\ observed[r] = lastSeen'[f]
    BY <1>2
  <2>1. CASE f \in t.stores /\ observed[t.refresh] > lastSeen[f]
    <3>1. lastSeen'[f] = observed[t.refresh] /\ f \in content[t.refresh]
      BY <1>2, <1>3, <2>1
    <3> QED
      BY <1>3, <3>1
  <2>2. CASE ~(f \in t.stores /\ observed[t.refresh] > lastSeen[f])
    <3>1. lastSeen'[f] = lastSeen[f]
      BY <1>2, <2>2
    <3> QED
      BY <3>1 DEF Evidence
  <2> QED
    BY <2>1, <2>2
<1>7. \A r \in completions' : completed'[r] # 0
  BY <1>2, <1>3 DEF Evidence
<1> QED
  BY <1>2, <1>4, <1>5, <1>6, <1>7 DEF Evidence

LEMMA EvidenceStep == ASSUME Basis, [IngestionNext]_ingestionVars PROVE Evidence'
<1> USE BasisTypes DEF Basis
<1>1. CASE \E r \in Refresh : Observe(r)
  BY <1>1, ObserveEvident
<1>2. CASE \E r \in Refresh : CompleteRefresh(r)
  BY <1>2, CompleteRefreshEvident
<1>3. CASE \E r \in Refresh : Redeliver(r)
  <2> PICK r \in Refresh : Redeliver(r)
    BY <1>3
  <2>1. /\ completed[r] # 0 /\ (UNCHANGED controlQueue \/ controlQueue' = Append(controlQueue, r))
        /\ UNCHANGED <<observed, completed, content, txn, completions, metadata, lastSeen>>
    BY DEF Redeliver, refreshVars, evidenceRows
  <2>2. \A i \in DOMAIN controlQueue' : controlQueue'[i] = r \/ (i \in DOMAIN controlQueue /\ controlQueue'[i] = controlQueue[i])
    <3>1. controlQueue \in Seq(Refresh)
      OBVIOUS
    <3>2. CASE UNCHANGED controlQueue
      BY <3>2
    <3>3. CASE controlQueue' = Append(controlQueue, r)
      <4>1. /\ Len(controlQueue) \in Nat /\ DOMAIN controlQueue = 1..Len(controlQueue)
            /\ DOMAIN controlQueue' = 1..(Len(controlQueue) + 1)
            /\ \A i \in 1..(Len(controlQueue) + 1) :
                 controlQueue'[i] = IF i = Len(controlQueue) + 1 THEN r ELSE controlQueue[i]
        BY <3>1, <3>3
      <4> QED
        BY <4>1
    <3> QED
      BY <2>1, <3>2, <3>3
  <2> QED
    BY <2>1, <2>2 DEF Evidence
<1>4. CASE BeginFinding
  <2>1. PICK r : r = Head(findingQueue)[1]
    OBVIOUS
  <2>2. /\ findingQueue # <<>> /\ txn'["findings"].refresh = r /\ txn'["control"] = txn["control"]
        /\ UNCHANGED <<observed, completed, content, controlQueue, completions, metadata, lastSeen>>
    BY <1>4, <2>1, OrderTypes DEF BeginFinding, refreshVars, evidenceRows
  <2>3. completed[r] # 0
    <3>1. 1 \in DOMAIN findingQueue /\ findingQueue[1][1] = r
      BY <2>1, <2>2, OrderTypes
    <3> QED
      BY <3>1 DEF OrderInv, Sent
  <2>4. \A w \in Worker : txn'[w] # Idle => completed'[txn'[w].refresh] # 0
    BY <2>2, <2>3 DEF Evidence, Worker
  <2> QED
    BY <2>2, <2>4 DEF Evidence
<1>5. CASE BeginCompletion
  <2>1. PICK r : r = Head(controlQueue)
    OBVIOUS
  <2>2. /\ controlQueue # <<>> /\ controlQueue' = Tail(controlQueue)
        /\ txn'["control"].refresh = r /\ txn'["findings"] = txn["findings"]
        /\ UNCHANGED <<observed, completed, content, completions, metadata, lastSeen>>
    BY <1>5, <2>1, OrderTypes DEF BeginCompletion, refreshVars, evidenceRows
  <2>3. completed[r] # 0 /\ \A i \in DOMAIN controlQueue' : completed[controlQueue'[i]] # 0
    <3>1. /\ 1 \in DOMAIN controlQueue /\ controlQueue[1] = r
          /\ \A i \in DOMAIN controlQueue' : i + 1 \in DOMAIN controlQueue /\ controlQueue'[i] = controlQueue[i + 1]
      BY <2>1, <2>2
    <3> QED
      BY <3>1 DEF Evidence
  <2>4. \A w \in Worker : txn'[w] # Idle => completed'[txn'[w].refresh] # 0
    BY <2>2, <2>3 DEF Evidence, Worker
  <2> QED
    BY <2>2, <2>3, <2>4 DEF Evidence
<1>6. CASE \E w \in Worker : Commit(w)
  BY <1>6, CommitEvident
<1>7. CASE \E w \in Worker : Abort(w)
  <2>1. /\ \A v \in Worker : txn'[v] # Idle => txn'[v] = txn[v]
        /\ UNCHANGED <<observed, completed, content, controlQueue, completions, metadata, lastSeen>>
    BY <1>7 DEF Abort, refreshVars, queueVars, evidenceRows
  <2> QED
    BY <2>1 DEF Evidence
<1>8. CASE UNCHANGED ingestionVars
  BY <1>8 DEF ingestionVars, Evidence
<1> QED
  BY <1>1, <1>2, <1>3, <1>4, <1>5, <1>6, <1>7, <1>8 DEF IngestionNext

(* Another refresh has reported f, and its message came in after the one   *)
(* of w though it had looked at the subject before w was over.             *)
Replaced(w, f) ==
  \E r \in Refresh \ {w} :
    /\ f \in content[r] /\ completed[r] # 0
    /\ observed[r] <= completed[w]
    /\ completed[r] > completed[w] \/ redeliveries > 0

(* If a refresh has left a receipt for a finding, the finding's row says   *)
(* that this refresh has reported it, or that it has been seen since,      *)
(* unless another one has taken its place.                                 *)
LEMMA RowTellsReceipt ==
  ASSUME Basis, NEW w \in Refresh, NEW f \in Finding, <<w, f>> \in receipts
  PROVE  metadata[f] = w \/ lastSeen[f] > completed[w] \/ Replaced(w, f)
<1> USE BasisTypes DEF Basis
<1> DEFINE m == <<w, f>>
           p == metadata[f]
<1>1. m[1] = w /\ m[2] = f /\ m \in receipts
  OBVIOUS
<1>2. completed[w] # 0 /\ p # NoRefresh
  BY <1>1 DEF OrderInv, Sent
<1>3. p \in Refresh /\ completed[p] # 0 /\ f \in content[p] /\ lastSeen[f] >= observed[p]
  BY <1>2 DEF OrderInv, Sent, Evidence
<1>4. redeliveries = 0 => completed[w] <= completed[p]
  BY <1>1 DEF OrderInv, InOrder, Earlier
<1>5. completed[w] \in Nat /\ completed[p] \in Nat /\ observed[p] \in Nat /\ lastSeen[f] \in Nat /\ redeliveries \in Nat
  BY <1>3
<1>6. p # w => completed[p] # completed[w]
  BY <1>2, <1>3 DEF Evidence
<1>7. p # w /\ lastSeen[f] <= completed[w] =>
        observed[p] <= completed[w] /\ (completed[p] > completed[w] \/ redeliveries > 0)
  BY <1>3, <1>4, <1>5, <1>6
<1> QED
  BY <1>3, <1>5, <1>7 DEF Replaced

-----------------------------------------------------------------------------
(* Jobs, contexts and verdicts *)

JobTypes ==
  /\ job \in [Job -> JobRow]
  /\ batch \in [Reconciler -> SUBSET Job]
  /\ context \in [Reconciler -> Context \cup {Idle}]
  /\ verdict \in [Job -> Decision \cup {NoVerdict}]
  /\ troubles \in 0..MaxTroubles
  /\ \A j \in Job : job[j].status = "LEASED" <=> job[j].owner # NoOne

(* What a context says of finding f is what the scanner has said: whatever *)
(* the refreshes known to it had listed, and not left out, is in it unless *)
(* another refresh has taken their place.                                  *)
Remembers(c, f) ==
  /\ c.refresh # NoRefresh => f \in content[c.refresh] /\ observed[c.refresh] # 0
  /\ c.seen # 0 => \E r \in Refresh : f \in content[r] /\ observed[r] = c.seen
  /\ \A w \in c.known :
       /\ completed[w] # 0
       /\ outcome[w] = "SUCCESS" /\ w \notin Filtered /\ f \in inventory[w]
            => Present(c, w) \/ Replaced(w, f)

Contexts ==
  \A w \in Reconciler : context[w] # Idle => Remembers(context[w], job[context[w].job].finding)

(* A decision v about finding f, with the evidence required to be later    *)
(* than after, says what the scanner has said.                             *)
Justified(v, f, after) ==
  /\ outcome[v.refresh] = "SUCCESS"
  /\ completed[v.refresh] > after
  /\ ~v.passed => \/ f \in content[v.refresh]
                  \/ \E r \in Refresh : f \in content[r] /\ observed[r] > completed[v.refresh]
  /\ v.passed => /\ v.refresh \notin Filtered
                 /\ v.refresh \in v.known /\ f \in inventory[v.refresh] => Replaced(v.refresh, f)

Verdicts ==
  \A j \in Job : verdict[j] # NoVerdict =>
    job[j].status = "COMPLETED" /\ Justified(verdict[j], job[j].finding, job[j].evidenceAfter)

ReconcilerInv == Basis /\ JobTypes /\ Contexts /\ Verdicts

LEMMA ReplacedStays ==
  ASSUME Basis, Grows, NEW w \in Refresh, NEW f \in Finding, completed[w] # 0, Replaced(w, f),
         redeliveries' \in Nat
  PROVE  Replaced(w, f)'
<1>1. PICK r \in Refresh : /\ r # w /\ f \in content[r] /\ completed[r] # 0
                           /\ observed[r] <= completed[w]
                           /\ completed[r] > completed[w] \/ redeliveries > 0
  BY DEF Replaced
<1>2. observed[r] # 0 /\ redeliveries \in Nat
  BY <1>1, BasisTypes DEF Basis
<1>3. /\ completed'[w] = completed[w] /\ completed'[r] = completed[r] /\ observed'[r] = observed[r]
      /\ content'[r] = content[r] /\ redeliveries' >= redeliveries
  BY <1>1, <1>2 DEF Grows
<1>4. redeliveries > 0 => redeliveries' > 0
  BY <1>2, <1>3
<1> QED
  BY <1>1, <1>3, <1>4 DEF Replaced

(* What a context remembers stays true while the ingestion goes on.        *)
LEMMA RemembersStays ==
  ASSUME Basis, Grows, redeliveries' \in Nat, NEW c \in Context, NEW f \in Finding, Remembers(c, f)
  PROVE  Remembers(c, f)'
<1> USE BasisTypes DEF Basis
<1>1. c.refresh \in Refresh \cup {NoRefresh} /\ c.known \subseteq Refresh
  BY DEF Context
<1>2. c.refresh # NoRefresh => f \in content'[c.refresh] /\ observed'[c.refresh] # 0
  BY <1>1 DEF Remembers, Grows
<1>3. c.seen # 0 => \E r \in Refresh : f \in content'[r] /\ observed'[r] = c.seen
  <2> SUFFICES ASSUME c.seen # 0 PROVE \E r \in Refresh : f \in content'[r] /\ observed'[r] = c.seen
    OBVIOUS
  <2>1. PICK r \in Refresh : f \in content[r] /\ observed[r] = c.seen
    BY DEF Remembers
  <2> QED
    BY <2>1 DEF Grows
<1>4. ASSUME NEW w \in c.known
      PROVE  /\ completed'[w] # 0
             /\ outcome'[w] = "SUCCESS" /\ w \notin Filtered /\ f \in inventory'[w]
                  => (c.refresh = w \/ c.seen > completed'[w]) \/ Replaced(w, f)'
  <2>1. w \in Refresh /\ completed[w] # 0 /\ observed[w] # 0
    BY <1>1 DEF Remembers
  <2>2. completed'[w] = completed[w] /\ outcome'[w] = outcome[w] /\ inventory'[w] = inventory[w]
    BY <2>1 DEF Grows
  <2>3. CASE Replaced(w, f)
    BY <2>1, <2>2, <2>3, ReplacedStays
  <2>4. CASE ~Replaced(w, f)
    BY <2>1, <2>2, <2>4 DEF Remembers, Present
  <2> QED
    BY <2>3, <2>4
<1> QED
  BY <1>2, <1>3, <1>4 DEF Remembers, Present

(* So does what justifies a decision.                                      *)
LEMMA JustifiedStays ==
  ASSUME Basis, Grows, redeliveries' \in Nat,
         NEW v \in Decision, NEW f \in Finding, NEW after \in Nat, Justified(v, f, after)
  PROVE  Justified(v, f, after)'
<1> USE BasisTypes DEF Basis
<1>1. PICK q \in Refresh : q = v.refresh /\ completed[q] # 0 /\ observed[q] # 0
  BY DEF Justified, Decision
<1>2. completed'[q] = completed[q] /\ outcome'[q] = outcome[q] /\ inventory'[q] = inventory[q] /\ content'[q] = content[q]
  BY <1>1 DEF Grows
<1>3. ASSUME ~v.passed
      PROVE  f \in content'[q] \/ \E r \in Refresh : f \in content'[r] /\ observed'[r] > completed'[q]
  <2>1. CASE f \in content[q]
    BY <1>2, <2>1
  <2>2. CASE f \notin content[q]
    <3>1. PICK r \in Refresh : f \in content[r] /\ observed[r] > completed[q]
      BY <1>1, <1>3, <2>2 DEF Justified
    <3>2. observed[r] # 0
      BY <3>1
    <3> QED
      BY <1>2, <3>1, <3>2 DEF Grows
  <2> QED
    BY <2>1, <2>2
<1>4. Replaced(q, f) => Replaced(q, f)'
  BY <1>1, ReplacedStays
<1> QED
  BY <1>1, <1>2, <1>3, <1>4 DEF Justified

-----------------------------------------------------------------------------
(* The rows of a job that a step leaves as they are *)

(* A job keeps its finding, and once it is completed its other evidence.   *)
RowsStay ==
  \A j \in Job : /\ job'[j].finding = job[j].finding
                 /\ job[j].status = "COMPLETED" => /\ job'[j].status = "COMPLETED"
                                                   /\ job'[j].evidenceAfter = job[j].evidenceAfter

LEMMA ContextsStay ==
  ASSUME ReconcilerInv, Grows, redeliveries' \in Nat, RowsStay,
         NEW w \in Reconciler, context'[w] = context[w], context'[w] # Idle
  PROVE  \E c \in Context, f \in Finding :
           c = context'[w] /\ f = job'[c.job].finding /\ Remembers(c, f)'
<1> USE DEF ReconcilerInv
<1>1. PICK c \in Context : c = context[w] /\ c.job \in Job
  BY DEF JobTypes, Context
<1>2. PICK f \in Finding : f = job[c.job].finding /\ f = job'[c.job].finding
  BY <1>1 DEF JobTypes, JobRow, RowsStay
<1>3. Remembers(c, f)
  BY <1>1, <1>2 DEF Contexts
<1>4. Remembers(c, f)'
  BY <1>3, RemembersStays
<1> QED
  BY <1>1, <1>2, <1>4

LEMMA VerdictsStay ==
  ASSUME ReconcilerInv, Grows, redeliveries' \in Nat, RowsStay,
         NEW j \in Job, verdict'[j] = verdict[j], verdict'[j] # NoVerdict
  PROVE  /\ job'[j].status = "COMPLETED"
         /\ \E v \in Decision, f \in Finding, after \in Nat :
              /\ v = verdict'[j] /\ f = job'[j].finding /\ after = job'[j].evidenceAfter
              /\ Justified(v, f, after)'
<1> USE DEF ReconcilerInv
<1>1. PICK v \in Decision : v = verdict[j]
  BY DEF JobTypes
<1>2. PICK f \in Finding : f = job[j].finding /\ f = job'[j].finding
  BY DEF JobTypes, JobRow, RowsStay
<1>3. job[j].status = "COMPLETED" /\ Justified(v, f, job[j].evidenceAfter)
  BY <1>1, <1>2 DEF Verdicts
<1>4. PICK after \in Nat : after = job[j].evidenceAfter /\ after = job'[j].evidenceAfter
  BY <1>3 DEF JobTypes, JobRow, RowsStay
<1>5. Justified(v, f, after)'
  BY <1>3, <1>4, JustifiedStays
<1> QED
  BY <1>1, <1>2, <1>3, <1>4, <1>5 DEF RowsStay

-----------------------------------------------------------------------------
(* The steps of the reconcilers *)

LEMMA RowTypes ==
  ASSUME JobTypes, NEW j \in Job
  PROVE  /\ job[j] \in JobRow /\ job[j].finding \in Finding /\ job[j].evidenceAfter \in Nat
         /\ job[j].lastWatermark \in Nat /\ job[j].expired \in BOOLEAN
BY DEF JobTypes, JobRow

(* A job given back keeps its finding, and none that is completed is given *)
(* back: its lease_owner is NULL.                                          *)
LEMMA RescheduleKeepsRows ==
  ASSUME JobTypes, NEW j \in Job, NEW last \in Nat, job[j].owner # NoOne, Reschedule(j, last)
  PROVE  RowsStay /\ job' \in [Job -> JobRow] /\ \A i \in Job : job'[i].status = "LEASED" <=> job'[i].owner # NoOne
<1>1. job[j].status = "LEASED"
  BY DEF JobTypes
<1>2. \A i \in Job : job'[i] = IF i = j THEN [job[i] EXCEPT !.status = "PENDING", !.owner = NoOne,
                                                !.expired = FALSE, !.lastWatermark = last]
                                        ELSE job[i]
  BY DEF Reschedule, JobTypes
<1>3. job' = [job EXCEPT ![j].status = "PENDING", ![j].owner = NoOne,
                         ![j].expired = FALSE, ![j].lastWatermark = last]
  BY DEF Reschedule
<1>4. job' \in [Job -> JobRow]
  BY <1>3, RowTypes DEF JobTypes, JobRow
<1> QED
  BY <1>1, <1>2, <1>4 DEF JobTypes, JobRow, RowsStay

LEMMA LeaseKeeps ==
  ASSUME JobTypes, NEW w \in Reconciler, Lease(w)
  PROVE  JobTypes' /\ RowsStay
<1>1. PICK jobs \in SUBSET {j \in Job : Due(j)} :
        /\ batch' = [batch EXCEPT ![w] = jobs]
        /\ job' = [j \in Job |-> IF j \in jobs
                                 THEN [job[j] EXCEPT !.status = "LEASED", !.owner = w, !.expired = FALSE]
                                 ELSE job[j]]
  BY DEF Lease
<1>2. UNCHANGED <<context, verdict, troubles>>
  BY DEF Lease
<1>3. job' \in [Job -> JobRow]
  BY <1>1, RowTypes DEF JobRow
<1>4. \A j \in Job : job'[j].status = "LEASED" <=> job'[j].owner # NoOne
  BY <1>1, ReconcilerAssumption DEF JobTypes, JobRow
<1>5. batch' \in [Reconciler -> SUBSET Job]
  BY <1>1 DEF JobTypes
<1>6. RowsStay
  BY <1>1 DEF RowsStay, Due, JobTypes, JobRow
<1> QED
  BY <1>2, <1>3, <1>4, <1>5, <1>6 DEF JobTypes

(* The row that a context is read from says what the scanner has said.     *)
LEMMA LoadRemembers ==
  ASSUME Basis, NEW c \in Context, NEW f \in Finding,
         c.refresh = metadata[f], c.seen = lastSeen[f], c.known = {r \in Refresh : Promoted(r)}
  PROVE  Remembers(c, f)
<1> USE BasisTypes DEF Basis
<1>1. c.refresh # NoRefresh => f \in content[c.refresh] /\ observed[c.refresh] # 0
  BY DEF Evidence, OrderInv, Sent
<1>2. c.seen # 0 => \E r \in Refresh : f \in content[r] /\ observed[r] = c.seen
  BY DEF Evidence
<1>3. ASSUME NEW w \in c.known
      PROVE  /\ completed[w] # 0
             /\ outcome[w] = "SUCCESS" /\ w \notin Filtered /\ f \in inventory[w]
                  => Present(c, w) \/ Replaced(w, f)
  <2>1. w \in Refresh /\ Promoted(w) /\ completed[w] # 0
    BY DEF Evidence
  <2>2. Counted(w, Received(w)) /\ WellReported(w)
    BY <2>1 DEF IngestionInv, Decided, Provenance
  <2>3. outcome[w] = "SUCCESS" /\ w \notin Filtered /\ f \in inventory[w] => <<w, f>> \in receipts
    BY <2>2 DEF Counted, WellReported, Received
  <2> QED
    BY <2>1, <2>3, RowTellsReceipt DEF Present
<1> QED
  BY <1>1, <1>2, <1>3 DEF Remembers

(* The decision about a finding, from a context that remembers it.         *)
LEMMA DecisionJustified ==
  ASSUME Basis, NEW c \in Context, NEW f \in Finding, Remembers(c, f), NEW w, IsLatest(w, c),
         Present(c, w) \/ AbsenceAuthoritative(w), NEW v \in Decision,
         v = [passed |-> ~Present(c, w), refresh |-> w, known |-> c.known],
         NEW after \in Nat, after = job[c.job].evidenceAfter
  PROVE  Justified(v, f, after)
<1> USE BasisTypes DEF Basis
<1>1. w \in Refresh /\ outcome[w] = "SUCCESS" /\ completed[w] > after
  BY DEF IsLatest, Candidates, Fresh
<1>2. ASSUME Present(c, w)
      PROVE  f \in content[w] \/ \E r \in Refresh : f \in content[r] /\ observed[r] > completed[w]
  <2>1. CASE c.refresh = w
    BY <1>1, <2>1, NoRefreshAssumption DEF Remembers
  <2>2. CASE c.seen > completed[w]
    <3>1. c.seen # 0
      BY <1>1, <2>2
    <3>2. PICK r \in Refresh : f \in content[r] /\ observed[r] = c.seen
      BY <3>1 DEF Remembers
    <3> QED
      BY <2>2, <3>2
  <2> QED
    BY <1>2, <2>1, <2>2 DEF Present
<1>3. ASSUME ~Present(c, w)
      PROVE  w \notin Filtered /\ (w \in c.known /\ f \in inventory[w] => Replaced(w, f))
  BY <1>1, <1>3 DEF Remembers, AbsenceAuthoritative
<1>4. v.refresh = w /\ v.known = c.known /\ (v.passed <=> ~Present(c, w))
  OBVIOUS
<1> QED
  BY <1>1, <1>2, <1>3, <1>4 DEF Justified

LEMMA IngestionStill ==
  ASSUME Basis, UNCHANGED ingestionVars
  PROVE  Basis' /\ Grows /\ redeliveries' \in Nat
<1>1. IngestionInv' /\ OrderInv' /\ Exclusive' /\ Evidence'
  BY IngestionStep, OrderStep, ExclusiveStep, EvidenceStep DEF Basis
<1>2. redeliveries' \in Nat
  BY BasisTypes DEF Basis, ingestionVars
<1> QED
  BY <1>1, <1>2, IngestionGrows DEF Basis

LEMMA LoadContextKeeps ==
  ASSUME ReconcilerInv, NEW w \in Reconciler, LoadContext(w)
  PROVE  ReconcilerInv'
<1> USE DEF ReconcilerInv
<1>1. /\ UNCHANGED ingestionVars /\ UNCHANGED <<job, verdict, troubles>>
      /\ Basis' /\ Grows /\ redeliveries' \in Nat /\ RowsStay
  BY IngestionStill DEF LoadContext, RowsStay
<1>2. PICK j \in batch[w] :
        /\ batch' = [batch EXCEPT ![w] = @ \ {j}]
        /\ \/ UNCHANGED context
           \/ \E valid \in BOOLEAN :
                context' = [context EXCEPT ![w] =
                  [job |-> j, refresh |-> metadata[job[j].finding], seen |-> lastSeen[job[j].finding],
                   last |-> job[j].lastWatermark, leaseValid |-> valid, known |-> {r \in Refresh : Promoted(r)}]]
  BY RowTypes DEF LoadContext, JobTypes
<1>3. j \in Job /\ batch' \in [Reconciler -> SUBSET Job]
  BY <1>2 DEF JobTypes
<1>4. PICK f \in Finding : f = job[j].finding /\ job[j].lastWatermark \in Nat
  BY <1>3, RowTypes
<1>5. CASE UNCHANGED context
  <2>1. JobTypes'
    BY <1>1, <1>3, <1>5 DEF JobTypes
  <2>2. Contexts'
    BY <1>1, <1>5, ContextsStay DEF Contexts
  <2>3. Verdicts'
    BY <1>1, VerdictsStay DEF Verdicts
  <2> QED
    BY <1>1, <2>1, <2>2, <2>3
<1>6. ASSUME NEW valid \in BOOLEAN, NEW c,
             c = [job |-> j, refresh |-> metadata[f], seen |-> lastSeen[f],
                  last |-> job[j].lastWatermark, leaseValid |-> valid, known |-> {r \in Refresh : Promoted(r)}],
             context' = [context EXCEPT ![w] = c]
      PROVE  ReconcilerInv'
  <2>1. metadata[f] \in Refresh \cup {NoRefresh} /\ lastSeen[f] \in Nat
    BY BasisTypes DEF Basis
  <2>2. c \in Context
    BY <1>3, <1>4, <1>6, <2>1 DEF Context
  <2>3. c.job = j /\ c.refresh = metadata[f] /\ c.seen = lastSeen[f] /\ c.known = {r \in Refresh : Promoted(r)}
    BY <1>6
  <2>4. Remembers(c, f)
    BY <2>2, <2>3, LoadRemembers
  <2>5. Remembers(c, f)'
    BY <1>1, <2>2, <2>4, RemembersStays
  <2>6. JobTypes'
    BY <1>1, <1>3, <1>6, <2>2 DEF JobTypes
  <2>7. \A v \in Reconciler : v # w => context'[v] = context[v]
    BY <1>6 DEF JobTypes
  <2>8. context'[w] = c /\ job'[c.job].finding = f
    BY <1>1, <1>4, <1>6, <2>3 DEF JobTypes
  <2>9. Contexts'
    BY <1>1, <2>5, <2>7, <2>8, ContextsStay DEF Contexts
  <2>10. Verdicts'
    BY <1>1, VerdictsStay DEF Verdicts
  <2> QED
    BY <1>1, <2>6, <2>9, <2>10
<1> QED
  BY <1>2, <1>4, <1>5, <1>6

(* finish_job and reschedule_job look at the lease again before they write. *)
LEMMA JudgeKeeps ==
  ASSUME ReconcilerInv, NEW w \in Reconciler, Judge(w)
  PROVE  ReconcilerInv'
<1> USE DEF ReconcilerInv
<1>1. /\ UNCHANGED ingestionVars /\ UNCHANGED <<batch, troubles>> /\ context[w] # Idle
      /\ context' = [context EXCEPT ![w] = Idle]
      /\ Basis' /\ Grows /\ redeliveries' \in Nat
  BY IngestionStill DEF Judge
<1>2. PICK c \in Context : c = context[w] /\ c.job \in Job
  BY <1>1 DEF JobTypes, Context
<1>3. PICK f \in Finding, after \in Nat :
        f = job[c.job].finding /\ after = job[c.job].evidenceAfter /\ Remembers(c, f)
  BY <1>1, <1>2, RowTypes DEF Contexts
<1>4. \A v \in Reconciler : context'[v] # Idle => context'[v] = context[v]
  BY <1>1 DEF JobTypes
<1>5. ASSUME NEW last \in Nat, RescheduleOrLose(w, c, last)
      PROVE  ReconcilerInv'
  <2>1. /\ RowsStay /\ job' \in [Job -> JobRow] /\ verdict' = verdict
        /\ \A i \in Job : job'[i].status = "LEASED" <=> job'[i].owner # NoOne
    <3>1. CASE job[c.job].owner = w /\ c.leaseValid
      BY <1>2, <1>5, <3>1, RescheduleKeepsRows, ReconcilerAssumption DEF RescheduleOrLose
    <3>2. CASE UNCHANGED job
      BY <1>5, <3>2 DEF RescheduleOrLose, RowsStay, JobTypes
    <3> QED
      BY <1>5, <3>1, <3>2 DEF RescheduleOrLose
  <2>2. JobTypes'
    BY <1>1, <2>1 DEF JobTypes
  <2>3. Contexts'
    BY <1>1, <1>4, <2>1, ContextsStay DEF Contexts
  <2>4. Verdicts'
    BY <1>1, <2>1, VerdictsStay DEF Verdicts
  <2> QED
    BY <1>1, <2>2, <2>3, <2>4
<1>6. ASSUME NEW r \in Refresh, IsLatest(r, c), Present(c, r) \/ AbsenceAuthoritative(r), Finish(w, c, r)
      PROVE  ReconcilerInv'
  <2>1. CASE UNCHANGED <<verdict, job>>
    <3>1. RowsStay /\ JobTypes'
      BY <1>1, <2>1 DEF RowsStay, JobTypes
    <3>2. Contexts'
      BY <1>1, <1>4, <3>1, ContextsStay DEF Contexts
    <3>3. Verdicts'
      BY <1>1, <2>1, <3>1, VerdictsStay DEF Verdicts
    <3> QED
      BY <1>1, <3>1, <3>2, <3>3
  <2>2. CASE HoldsLease(w, c.job)
    <3>1. PICK v : v = [passed |-> ~Present(c, r), refresh |-> r, known |-> c.known]
      OBVIOUS
    <3>2. watermark[r] \in Nat /\ Present(c, r) \in BOOLEAN /\ c.known \subseteq Refresh
      BY BasisTypes DEF Present, Context, Basis
    <3>3. v \in Decision
      BY <3>1, <3>2 DEF Decision
    <3>4. /\ verdict' = [verdict EXCEPT ![c.job] = v]
          /\ job' = [job EXCEPT ![c.job].status = "COMPLETED", ![c.job].owner = NoOne, ![c.job].lastWatermark = watermark[r]]
      BY <1>6, <2>2, <3>1 DEF Finish
    <3>l. PICK last \in Nat : last = watermark[r]
      BY <3>2
    <3>5. Justified(v, f, after)
      BY <1>2, <1>3, <1>6, <3>1, <3>3, DecisionJustified
    <3>6. Justified(v, f, after)'
      BY <1>1, <3>3, <3>5, JustifiedStays
    <3>7. /\ verdict'[c.job] = v /\ \A j \in Job : j # c.job => verdict'[j] = verdict[j]
          /\ job'[c.job].status = "COMPLETED" /\ job'[c.job].owner = NoOne
          /\ job'[c.job].finding = f /\ job'[c.job].evidenceAfter = after
          /\ \A j \in Job : j # c.job => job'[j] = job[j]
      BY <1>2, <1>3, <3>4, RowTypes DEF JobTypes, JobRow
    <3>8. RowsStay
      BY <1>3, <3>7 DEF RowsStay
    <3>9. JobTypes'
      <4>1. job' \in [Job -> JobRow]
        BY <1>2, <3>4, <3>l, RowTypes DEF JobTypes, JobRow
      <4>2. verdict' \in [Job -> Decision \cup {NoVerdict}]
        BY <3>3, <3>4 DEF JobTypes
      <4>3. \A j \in Job : job'[j].status = "LEASED" <=> job'[j].owner # NoOne
        BY <3>7 DEF JobTypes
      <4> QED
        BY <1>1, <4>1, <4>2, <4>3 DEF JobTypes
    <3>10. Contexts'
      BY <1>1, <1>4, <3>8, ContextsStay DEF Contexts
    <3>11. Verdicts'
      BY <1>1, <3>6, <3>7, <3>8, VerdictsStay DEF Verdicts
    <3> QED
      BY <1>1, <3>9, <3>10, <3>11
  <2> QED
    BY <1>6, <2>1, <2>2 DEF Finish
<1>7. \/ RescheduleOrLose(w, c, job[c.job].lastWatermark)
      \/ \E r : /\ IsLatest(r, c)
                /\ IF Present(c, r) \/ AbsenceAuthoritative(r)
                     THEN Finish(w, c, r)
                     ELSE RescheduleOrLose(w, c, watermark[r])
  BY <1>2 DEF Judge
<1>8. job[c.job].lastWatermark \in Nat
  BY <1>2, RowTypes
<1>9. ASSUME NEW r, IsLatest(r, c) PROVE r \in Refresh /\ watermark[r] \in Nat
  BY <1>9, BasisTypes DEF IsLatest, Candidates, Basis
<1> QED
  BY <1>5, <1>6, <1>7, <1>8, <1>9

(* Losing a batch or a job changes no decision.                            *)
LEMMA TroubleKeeps ==
  ASSUME ReconcilerInv, NEW w \in Reconciler, JudgeFails(w) \/ Kill(w)
  PROVE  ReconcilerInv'
<1> USE DEF ReconcilerInv
<1>1. /\ UNCHANGED ingestionVars /\ UNCHANGED verdict
      /\ troubles < MaxTroubles /\ troubles' = troubles + 1
      /\ context' = [context EXCEPT ![w] = Idle]
      /\ batch' = batch \/ batch' = [batch EXCEPT ![w] = {}]
      /\ Basis' /\ Grows /\ redeliveries' \in Nat
  BY IngestionStill DEF JudgeFails, Kill
<1>2. \A v \in Reconciler : context'[v] # Idle => context'[v] = context[v]
  BY <1>1 DEF JobTypes
<1>3. /\ RowsStay /\ job' \in [Job -> JobRow]
      /\ \A i \in Job : job'[i].status = "LEASED" <=> job'[i].owner # NoOne
  <2>1. CASE UNCHANGED job
    BY <2>1 DEF RowsStay, JobTypes
  <2>2. ASSUME context[w] # Idle, HoldsLease(w, context[w].job),
               Reschedule(context[w].job, job[context[w].job].lastWatermark)
        PROVE  /\ RowsStay /\ job' \in [Job -> JobRow]
               /\ \A i \in Job : job'[i].status = "LEASED" <=> job'[i].owner # NoOne
    <3>1. PICK j \in Job : j = context[w].job
      BY <2>2 DEF JobTypes, Context
    <3> QED
      BY <2>2, <3>1, RescheduleKeepsRows, RowTypes, ReconcilerAssumption DEF HoldsLease
  <2> QED
    BY <2>1, <2>2 DEF JudgeFails, Kill
<1>4. JobTypes'
  <2>1. troubles' \in 0..MaxTroubles
    BY <1>1, ReconcilerAssumption DEF JobTypes
  <2>2. /\ batch' \in [Reconciler -> SUBSET Job]
        /\ context' \in [Reconciler -> Context \cup {Idle}]
    BY <1>1 DEF JobTypes
  <2> QED
    BY <1>1, <1>3, <2>1, <2>2 DEF JobTypes
<1>5. Contexts'
  BY <1>1, <1>2, <1>3, ContextsStay DEF Contexts
<1>6. Verdicts'
  BY <1>1, <1>3, VerdictsStay DEF Verdicts
<1> QED
  BY <1>1, <1>4, <1>5, <1>6

LEMMA LeaseExpiresKeeps ==
  ASSUME JobTypes, NEW j \in Job, LeaseExpires(j)
  PROVE  JobTypes' /\ RowsStay
<1>1. /\ job' = [job EXCEPT ![j].expired = TRUE] /\ UNCHANGED <<batch, context, verdict>>
      /\ UNCHANGED troubles \/ (troubles < MaxTroubles /\ troubles' = troubles + 1)
  BY DEF LeaseExpires
<1>2. job' \in [Job -> JobRow]
  BY <1>1, RowTypes DEF JobTypes, JobRow
<1>3. troubles' \in 0..MaxTroubles
  BY <1>1, ReconcilerAssumption DEF JobTypes
<1>4. \A i \in Job : /\ job'[i].status = job[i].status /\ job'[i].owner = job[i].owner
                     /\ job'[i].finding = job[i].finding /\ job'[i].evidenceAfter = job[i].evidenceAfter
  BY <1>1 DEF JobTypes, JobRow
<1> QED
  BY <1>1, <1>2, <1>3, <1>4 DEF JobTypes, RowsStay

(* A job is created by an instant of the clock only.                       *)
LEMMA ClockTicks ==
  ASSUME Basis, clock' = clock + 1, UNCHANGED <<refreshVars, queueVars, evidenceRows, lastId, txn>>
  PROVE  Basis' /\ Grows /\ redeliveries' \in Nat
<1> USE DEF Basis
<1>1. UNCHANGED <<observed, completed, content, expected, inventory, outcome, findingQueue,
                  controlQueue, redeliveries, metadata, lastSeen, receipts, completions, watermark, lastId, txn>>
  BY DEF refreshVars, queueVars, evidenceRows
<1>2. clock \in Nat /\ 0..clock \subseteq 0..clock' /\ clock' \in Nat
  BY BasisTypes
<1>3. IngestionTypeOK'
  BY <1>1, <1>2 DEF IngestionInv, IngestionTypeOK
<1>4. Provenance'
  BY <1>1 DEF IngestionInv, Provenance, WellReported, Reported
<1>5. Decided'
  BY <1>1 DEF IngestionInv, Decided, Counted, Received, Promoted
<1>6. OrderInv'
  BY <1>1 DEF OrderInv, Sent, InOrder, Earlier
<1>7. Evidence'
  BY <1>1 DEF Evidence
<1>8. Grows /\ redeliveries' \in Nat
  BY <1>1, BasisTypes DEF Grows
<1>9. Exclusive'
  BY <1>1 DEF Exclusive, Promoted
<1> QED
  BY <1>3, <1>4, <1>5, <1>6, <1>7, <1>8, <1>9 DEF IngestionInv

LEMMA CreateJobKeeps ==
  ASSUME JobTypes, clock \in Nat, NEW j \in Job, CreateJob(j)
  PROVE  JobTypes' /\ RowsStay
<1>1. /\ job[j].status = "none" /\ clock' = clock + 1
      /\ job' = [job EXCEPT ![j].status = "PENDING", ![j].evidenceAfter = clock']
      /\ UNCHANGED <<batch, context, verdict, troubles>>
  BY DEF CreateJob
<1>2. job' \in [Job -> JobRow]
  <2>1. clock' \in Nat /\ job \in [Job -> JobRow]
    BY <1>1 DEF JobTypes
  <2>2. PICK now \in Nat : now = clock'
    BY <2>1
  <2>3. [job[j] EXCEPT !.status = "PENDING", !.evidenceAfter = now] \in JobRow
    BY <2>1 DEF JobRow
  <2> QED
    BY <1>1, <2>1, <2>2, <2>3
<1>3. /\ job'[j].status = "PENDING" /\ job'[j].owner = job[j].owner /\ job'[j].finding = job[j].finding
      /\ \A i \in Job : i # j => job'[i] = job[i]
  BY <1>1 DEF JobTypes, JobRow
<1> QED
  BY <1>1, <1>2, <1>3 DEF JobTypes, RowsStay

LEMMA InitiallyJustified == Init => ReconcilerInv
<1> SUFFICES ASSUME Init PROVE ReconcilerInv
  OBVIOUS
<1>1. Basis
  BY InitiallySound, InitiallyInOrder, InitiallyExclusive, InitiallyEvident DEF Init, Basis
<1>2. JobTypes
  <2>1. /\ job \in [Job -> JobRow]
        /\ \A j \in Job : job[j].status = "none" /\ job[j].owner = NoOne
    <3>1. \A f \in Finding : [status |-> "none", finding |-> f, evidenceAfter |-> 0, owner |-> NoOne,
                              expired |-> FALSE, lastWatermark |-> 0] \in JobRow
      BY DEF JobRow
    <3> QED
      BY <3>1 DEF Init
  <2> QED
    BY <2>1, ReconcilerAssumption DEF Init, JobTypes
<1>3. Contexts /\ Verdicts
  BY DEF Init, Contexts, Verdicts
<1> QED
  BY <1>1, <1>2, <1>3 DEF ReconcilerInv

(* Steps that touch neither a context nor a decision.                      *)
LEMMA OthersKeep ==
  ASSUME ReconcilerInv, Basis', Grows, redeliveries' \in Nat, JobTypes', RowsStay,
         UNCHANGED <<context, verdict>>
  PROVE  ReconcilerInv'
<1>1. Contexts'
  BY ContextsStay DEF Contexts
<1>2. Verdicts'
  BY VerdictsStay DEF Verdicts
<1> QED
  BY <1>1, <1>2 DEF ReconcilerInv

LEMMA ReconcilerStepKeeps == ReconcilerInv /\ [Next]_vars => ReconcilerInv'
<1> SUFFICES ASSUME ReconcilerInv, [Next]_vars PROVE ReconcilerInv'
  OBVIOUS
<1>1. Basis /\ JobTypes /\ clock \in Nat
  BY BasisTypes DEF ReconcilerInv, Basis
<1>2. CASE [IngestionNext]_ingestionVars /\ UNCHANGED jobVars
  <2>1. Basis' /\ Grows
    BY <1>1, <1>2, IngestionStep, OrderStep, ExclusiveStep, EvidenceStep, IngestionGrows DEF Basis
  <2>2. redeliveries' \in Nat
    BY <2>1 DEF Basis, IngestionInv, IngestionTypeOK
  <2>3. JobTypes' /\ RowsStay /\ UNCHANGED <<context, verdict>>
    BY <1>1, <1>2 DEF jobVars, JobTypes, RowsStay
  <2> QED
    BY <2>1, <2>2, <2>3, OthersKeep
<1>3. CASE \E w \in Reconciler : Lease(w)
  <2>1. UNCHANGED ingestionVars /\ UNCHANGED <<context, verdict>>
    BY <1>3 DEF Lease
  <2> QED
    BY <1>1, <1>3, <2>1, IngestionStill, LeaseKeeps, OthersKeep
<1>4. CASE \E w \in Reconciler : LoadContext(w)
  BY <1>4, LoadContextKeeps
<1>5. CASE \E w \in Reconciler : Judge(w)
  BY <1>5, JudgeKeeps
<1>6. CASE \E w \in Reconciler : JudgeFails(w) \/ Kill(w)
  BY <1>6, TroubleKeeps
<1>7. CASE \E j \in Job : CreateJob(j)
  <2>1. /\ clock' = clock + 1 /\ UNCHANGED <<refreshVars, queueVars, evidenceRows, lastId, txn>>
        /\ UNCHANGED <<context, verdict>>
    BY <1>7 DEF CreateJob
  <2> QED
    BY <1>1, <1>7, <2>1, ClockTicks, CreateJobKeeps, OthersKeep
<1>8. CASE \E j \in Job : LeaseExpires(j)
  <2>1. UNCHANGED ingestionVars /\ UNCHANGED <<context, verdict>>
    BY <1>8 DEF LeaseExpires
  <2> QED
    BY <1>1, <1>8, <2>1, IngestionStill, LeaseExpiresKeeps, OthersKeep
<1> QED
  BY <1>2, <1>3, <1>4, <1>5, <1>6, <1>7, <1>8 DEF Next, ReconcilerStep, vars

-----------------------------------------------------------------------------

(* What the contexts remember and the decisions say is what the scanner    *)
(* has said, for any jobs, reconcilers, refreshes, findings and troubles.  *)
THEOREM ReconcilerHolds == Spec => []ReconcilerInv
BY InitiallyJustified, ReconcilerStepKeeps, PTL DEF Spec

(* Rows, leases, contexts and decisions keep their types, and a job is     *)
(* leased exactly when it has an owner.                                    *)
THEOREM TypeCorrect == Spec => []TypeOK
<1>1. ReconcilerInv => TypeOK
  BY DEF ReconcilerInv, Basis, IngestionInv, JobTypes, TypeOK
<1> QED
  BY <1>1, ReconcilerHolds, PTL

(* A remediation that failed for its finding's presence did so on the word *)
(* of a refresh that completed after Stage 1 and reported the finding, or  *)
(* of one that looked later still.  When the refresh that is cited looked  *)
(* at the subject is not part of it: perhaps before the remediation.       *)
THEOREM PresenceIsEvident == Spec => []PresenceNeedsEvidence
<1>1. ReconcilerInv => PresenceNeedsEvidence
  BY DEF ReconcilerInv, Verdicts, Justified, PresenceNeedsEvidence, Failed, Reports
<1> QED
  BY <1>1, ReconcilerHolds, PTL

(* A finding is resolved only by an unfiltered refresh that completed      *)
(* after Stage 1; and against what such a refresh, known when the row was  *)
(* read, has listed, only if another refresh has overwritten its           *)
(* refresh_id that overlapped with it or was requeued.  Refreshes may      *)
(* overlap, messages be requeued and lost, and leases be outlived.         *)
THEOREM AbsenceIsEvident == Spec => []AbsenceNeedsEvidence
<1>1. ReconcilerInv => AbsenceNeedsEvidence
  <2> SUFFICES ASSUME ReconcilerInv, NEW j \in Job, Passed(j)
      PROVE  LET w == verdict[j].refresh
             IN  /\ outcome[w] = "SUCCESS" /\ w \notin Filtered /\ completed[w] > job[j].evidenceAfter
                 /\ w \in verdict[j].known /\ Lists(w, j) => Overwritten(w, j)
    BY DEF AbsenceNeedsEvidence
  <2>1. Justified(verdict[j], job[j].finding, job[j].evidenceAfter) /\ verdict[j].passed
    BY DEF ReconcilerInv, Verdicts, Passed
  <2>2. Replaced(verdict[j].refresh, job[j].finding) => Overwritten(verdict[j].refresh, j)
    BY DEF Replaced, Overwritten, Reports
  <2> QED
    BY <2>1, <2>2 DEF Justified, Lists
<1> QED
  BY <1>1, ReconcilerHolds, PTL

(* A decision is taken once, whatever leases run out and whoever is        *)
(* killed: the job of a decision is COMPLETED, and nobody holds its lease. *)
THEOREM DecidedOnce == Spec => OneVerdict
<1>1. ReconcilerInv /\ [Next]_vars => [\A j \in Job : verdict[j] # NoVerdict => verdict'[j] = verdict[j]]_vars
  <2> SUFFICES ASSUME ReconcilerInv, [Next]_vars, NEW j \in Job, verdict[j] # NoVerdict
      PROVE  verdict'[j] = verdict[j]
    OBVIOUS
  <2>1. job[j].status # "LEASED"
    BY DEF ReconcilerInv, Verdicts
  <2>2. CASE \E w \in Reconciler : Judge(w)
    <3>1. PICK w \in Reconciler : Judge(w)
      BY <2>2
    <3>2. PICK c : c = context[w]
      OBVIOUS
    <3>3. UNCHANGED verdict \/ \E r : Finish(w, c, r)
      BY <3>1, <3>2 DEF Judge, RescheduleOrLose
    <3>4. UNCHANGED verdict \/ \E v : c.job # j /\ verdict' = [verdict EXCEPT ![c.job] = v]
      BY <2>1, <3>3 DEF Finish, HoldsLease
    <3> QED
      BY <3>4 DEF ReconcilerInv, JobTypes
  <2>3. CASE ~\E w \in Reconciler : Judge(w)
    BY <2>3 DEF Next, ReconcilerStep, Lease, LoadContext, JudgeFails, Kill, CreateJob, LeaseExpires, jobVars, vars
  <2> QED
    BY <2>2, <2>3
<1> QED
  BY <1>1, ReconcilerHolds, PTL DEF Spec, OneVerdict
-----------------------------------------------------------------------------
(* Evidence is kept, and considered once *)

(* What the contexts, verdicts and last_watermark_id cite never changes:   *)
(* neither a refresh that has been observed nor the instant it completed   *)
(* at, nor a watermark that has been written, whatever is reported,        *)
(* requeued or lost later.                                                 *)
THEOREM EvidenceIsKept == Spec => [][Grows]_vars
<1>1. ReconcilerInv /\ [Next]_vars => [Grows]_vars
  <2> SUFFICES ASSUME ReconcilerInv, Next PROVE Grows
    BY DEF vars
  <2>1. IngestionInv /\ Exclusive
    BY DEF ReconcilerInv, Basis
  <2>2. CASE [IngestionNext]_ingestionVars
    BY <2>1, <2>2, IngestionGrows
  <2>3. CASE \E j \in Job : CreateJob(j)
    <3>1. UNCHANGED <<observed, completed, content, inventory, outcome, redeliveries, watermark>>
      BY <2>3 DEF CreateJob, refreshVars, queueVars, evidenceRows
    <3> QED
      BY <2>1, <3>1, BasisTypes DEF Grows
  <2> QED
    BY <2>2, <2>3 DEF Next, ReconcilerStep, Lease, LoadContext, Judge, JudgeFails, Kill, LeaseExpires
<1> QED
  BY <1>1, ReconcilerHolds, PTL DEF Spec

(* A reconciler that still owns the job of its context has read the        *)
(* last_watermark_id it writes over: it takes no other lease before it is  *)
(* done with the context, and a job that was leased again is not its own.  *)
ContextsCurrent ==
  \A w \in Reconciler : context[w] # Idle /\ job[context[w].job].owner = w =>
    context[w].last = job[context[w].job].lastWatermark

LEMMA InitiallyCurrent == Init => ContextsCurrent
BY DEF Init, ContextsCurrent

(* What changes a job's row while it is leased also takes it away.         *)
LEMMA CurrentStays ==
  ASSUME JobTypes, ContextsCurrent,
         \A w \in Reconciler : context'[w] \in {context[w], Idle},
         \A j \in Job, w \in Reconciler : context[w] # Idle /\ context[w].job = j /\ job'[j].owner = w =>
           job[j].owner = w /\ job'[j].lastWatermark = job[j].lastWatermark
  PROVE  ContextsCurrent'
<1> SUFFICES ASSUME NEW w \in Reconciler, context'[w] # Idle, job'[context'[w].job].owner = w
    PROVE  context'[w].last = job'[context'[w].job].lastWatermark
  BY DEF ContextsCurrent
<1>1. context'[w] = context[w] /\ context[w] # Idle
  OBVIOUS
<1>2. context[w].job \in Job
  BY <1>1 DEF JobTypes, Context
<1> QED
  BY <1>1, <1>2 DEF ContextsCurrent

(* A job given back, or decided, is nobody's.                              *)
LEMMA WriteTakesAway ==
  ASSUME JobTypes, NEW j \in Job, NEW row, row.owner = NoOne,
         job' = job \/ job' = [job EXCEPT ![j] = row],
         \A w \in Reconciler : context'[w] \in {context[w], Idle}
  PROVE  ContextsCurrent => ContextsCurrent'
<1> SUFFICES ASSUME ContextsCurrent PROVE ContextsCurrent'
  OBVIOUS
<1>1. \A i \in Job, w \in Reconciler : job'[i].owner = w => job'[i] = job[i]
  BY ReconcilerAssumption DEF JobTypes
<1> QED
  BY <1>1, CurrentStays

Forward ==
  \A j \in Job : /\ job'[j].lastWatermark >= job[j].lastWatermark
                 /\ job[j].status = "COMPLETED" => job'[j] = job[j]

LEMMA StillForward == ASSUME JobTypes, job' = job PROVE Forward
BY RowTypes DEF Forward

LEMMA RowForward ==
  ASSUME JobTypes, NEW j \in Job, NEW row, job' = [job EXCEPT ![j] = row], job[j].status = "LEASED",
         row.lastWatermark >= job[j].lastWatermark
  PROVE  Forward
<1>1. job'[j] = row /\ \A i \in Job : i # j => job'[i] = job[i]
  BY DEF JobTypes
<1>2. \A i \in Job : i # j => job'[i].lastWatermark >= job[i].lastWatermark
  BY <1>1, RowTypes
<1>3. \A i \in Job : job[i].status = "COMPLETED" => i # j
  OBVIOUS
<1> QED
  BY <1>1, <1>2, <1>3 DEF Forward

(* A job given back by its owner.                                          *)
LEMMA GivenBackForward ==
  ASSUME JobTypes, NEW j \in Job, NEW last \in Nat, last >= job[j].lastWatermark,
         job[j].owner # NoOne, Reschedule(j, last)
  PROVE  Forward /\ \E row : row.owner = NoOne /\ job' = [job EXCEPT ![j] = row]
<1> DEFINE row == [job[j] EXCEPT !.status = "PENDING", !.owner = NoOne,
                                 !.expired = FALSE, !.lastWatermark = last]
<1>1. job[j].status = "LEASED" /\ job[j] \in JobRow
  BY RowTypes DEF JobTypes
<1>2. job' = [job EXCEPT ![j] = row]
  BY <1>1 DEF Reschedule, JobTypes, JobRow
<1>3. row.owner = NoOne /\ row.lastWatermark = last
  BY <1>1 DEF JobRow
<1> HIDE DEF row
<1>4. Forward
  BY <1>1, <1>2, <1>3, RowForward
<1> QED
  BY <1>2, <1>3, <1>4

LEMMA JudgeForward ==
  ASSUME JobTypes, IngestionInv, ContextsCurrent, NEW w \in Reconciler, Judge(w)
  PROVE  Forward /\ ContextsCurrent'
<1>1. /\ context[w] # Idle /\ context' = [context EXCEPT ![w] = Idle]
      /\ \A v \in Reconciler : context'[v] \in {context[v], Idle}
  BY DEF Judge, JobTypes
<1>2. PICK c \in Context : c = context[w] /\ c.job \in Job /\ c.last \in Nat
  BY <1>1 DEF JobTypes, Context
<1>3. job[c.job].owner = w => c.last = job[c.job].lastWatermark /\ job[c.job].owner # NoOne
  BY <1>1, <1>2, ReconcilerAssumption DEF ContextsCurrent
<1>4. CASE job' = job
  <2>1. Forward
    BY <1>4, StillForward
  <2>2. ContextsCurrent'
    BY <1>1, <1>4, CurrentStays
  <2> QED
    BY <2>1, <2>2
<1>5. ASSUME NEW last \in Nat, last >= c.last \/ last = job[c.job].lastWatermark,
             job[c.job].owner = w, Reschedule(c.job, last)
      PROVE  Forward /\ ContextsCurrent'
  <2>1. last >= job[c.job].lastWatermark
    BY <1>2, <1>3, <1>5, RowTypes
  <2>2. Forward /\ \E row : row.owner = NoOne /\ job' = [job EXCEPT ![c.job] = row]
    BY <1>2, <1>3, <1>5, <2>1, GivenBackForward
  <2> QED
    BY <1>1, <1>2, <2>2, WriteTakesAway
<1>6. ASSUME NEW r, watermark[r] \in Nat, watermark[r] > c.last, Finish(w, c, r), job' # job
      PROVE  Forward /\ ContextsCurrent'
  <2> DEFINE row == [job[c.job] EXCEPT !.status = "COMPLETED", !.owner = NoOne, !.lastWatermark = watermark[r]]
  <2>1. /\ job[c.job].owner = w /\ job[c.job].status = "LEASED"
        /\ job' = [job EXCEPT ![c.job].status = "COMPLETED", ![c.job].owner = NoOne,
                              ![c.job].lastWatermark = watermark[r]]
    BY <1>6 DEF Finish, HoldsLease
  <2>2. job[c.job] \in JobRow
    BY <1>2, RowTypes
  <2>3. job' = [job EXCEPT ![c.job] = row]
    BY <2>1, <2>2 DEF JobTypes, JobRow
  <2>4. row.owner = NoOne /\ row.lastWatermark = watermark[r]
    BY <2>2 DEF JobRow
  <2>5. watermark[r] >= job[c.job].lastWatermark
    BY <1>2, <1>3, <1>6, <2>1
  <2> HIDE DEF row
  <2>6. Forward
    BY <1>2, <2>1, <2>3, <2>4, <2>5, RowForward
  <2> QED
    BY <1>1, <1>2, <2>3, <2>4, <2>6, WriteTakesAway
<1>7. CASE Candidates(c) = {} /\ RescheduleOrLose(w, c, job[c.job].lastWatermark)
  BY <1>2, <1>4, <1>5, <1>7, RowTypes DEF RescheduleOrLose
<1>8. CASE \E r \in Candidates(c) : Finish(w, c, r) \/ RescheduleOrLose(w, c, watermark[r])
  <2>1. PICK r \in Candidates(c) : Finish(w, c, r) \/ RescheduleOrLose(w, c, watermark[r])
    BY <1>8
  <2>2. watermark[r] \in Nat /\ watermark[r] > c.last
    BY BasisTypes DEF Candidates
  <2>3. CASE Finish(w, c, r)
    BY <1>4, <1>6, <2>2, <2>3
  <2>4. CASE RescheduleOrLose(w, c, watermark[r])
    BY <1>2, <1>4, <1>5, <2>2, <2>4 DEF RescheduleOrLose
  <2> QED
    BY <2>1, <2>3, <2>4
<1> QED
  BY <1>2, <1>7, <1>8 DEF Judge

LEMMA LeaseForward ==
  ASSUME JobTypes, ContextsCurrent, NEW w \in Reconciler, Lease(w)
  PROVE  Forward /\ ContextsCurrent'
<1>1. PICK jobs \in SUBSET {j \in Job : Due(j)} :
        job' = [j \in Job |-> IF j \in jobs
                              THEN [job[j] EXCEPT !.status = "LEASED", !.owner = w, !.expired = FALSE]
                              ELSE job[j]]
  BY DEF Lease
<1>2. context[w] = Idle /\ UNCHANGED context
  BY DEF Lease
<1>3. \A j \in Job : /\ job'[j].lastWatermark = job[j].lastWatermark
                     /\ job'[j] # job[j] => job'[j].owner = w /\ Due(j)
  BY <1>1, RowTypes DEF JobRow
<1>4. Forward
  BY <1>3, RowTypes DEF Forward, Due
<1>5. ContextsCurrent'
  BY <1>2, <1>3, CurrentStays
<1> QED
  BY <1>4, <1>5

LEMMA LoadContextForward ==
  ASSUME JobTypes, ContextsCurrent, NEW w \in Reconciler, LoadContext(w)
  PROVE  Forward /\ ContextsCurrent'
<1>1. job' = job
  BY DEF LoadContext
<1>2. PICK j \in Job :
        \/ UNCHANGED context
        \/ \E valid \in BOOLEAN :
             context' = [context EXCEPT ![w] =
               [job |-> j, refresh |-> metadata[job[j].finding], seen |-> lastSeen[job[j].finding],
                last |-> job[j].lastWatermark, leaseValid |-> valid, known |-> {r \in Refresh : Promoted(r)}]]
  BY RowTypes DEF LoadContext, JobTypes
<1>3. \A v \in Reconciler : \/ context'[v] = context[v]
                            \/ context'[v].job = j /\ context'[v].last = job[j].lastWatermark
  BY <1>2 DEF JobTypes
<1>4. ContextsCurrent'
  BY <1>1, <1>3 DEF ContextsCurrent
<1> QED
  BY <1>1, <1>4, StillForward

LEMMA OthersForward ==
  ASSUME JobTypes, ContextsCurrent, NEW j \in Job, CreateJob(j) \/ LeaseExpires(j)
  PROVE  Forward /\ ContextsCurrent'
<1>1. UNCHANGED context /\ job[j].status \in {"none", "LEASED"}
  BY DEF CreateJob, LeaseExpires
<1>2. \A i \in Job : /\ job'[i].lastWatermark = job[i].lastWatermark /\ job'[i].owner = job[i].owner
                     /\ i # j => job'[i] = job[i]
  BY DEF CreateJob, LeaseExpires, JobTypes, JobRow
<1>3. Forward
  BY <1>1, <1>2, RowTypes DEF Forward
<1>4. ContextsCurrent'
  BY <1>1, <1>2, CurrentStays
<1> QED
  BY <1>3, <1>4

LEMMA FailureForward ==
  ASSUME JobTypes, ContextsCurrent, NEW w \in Reconciler, JudgeFails(w) \/ Kill(w)
  PROVE  Forward /\ ContextsCurrent'
<1>1. \A v \in Reconciler : context'[v] \in {context[v], Idle}
  BY DEF JudgeFails, Kill, JobTypes
<1>2. CASE job' = job
  <2>1. Forward
    BY <1>2, StillForward
  <2>2. ContextsCurrent'
    BY <1>1, <1>2, CurrentStays
  <2> QED
    BY <2>1, <2>2
<1>3. CASE job' # job
  <2>1. PICK j : /\ j = context[w].job /\ context[w] # Idle
                 /\ HoldsLease(w, j) /\ Reschedule(j, job[j].lastWatermark)
    BY <1>3 DEF JudgeFails, Kill
  <2>2. j \in Job /\ job[j].lastWatermark \in Nat /\ job[j].owner # NoOne
    BY <2>1, RowTypes, ReconcilerAssumption DEF JobTypes, Context, HoldsLease
  <2>3. Forward /\ \E row : row.owner = NoOne /\ job' = [job EXCEPT ![j] = row]
    BY <2>1, <2>2, GivenBackForward
  <2> QED
    BY <1>1, <2>2, <2>3, WriteTakesAway
<1> QED
  BY <1>2, <1>3

LEMMA StepForward == ReconcilerInv /\ ContextsCurrent /\ [Next]_vars => Forward /\ ContextsCurrent'
<1> SUFFICES ASSUME ReconcilerInv, ContextsCurrent, [Next]_vars PROVE Forward /\ ContextsCurrent'
  OBVIOUS
<1>1. JobTypes /\ IngestionInv
  BY DEF ReconcilerInv, Basis
<1>2. CASE UNCHANGED jobVars
  <2>1. job' = job /\ context' = context
    BY <1>2 DEF jobVars
  <2>2. Forward
    BY <1>1, <2>1, StillForward
  <2>3. ContextsCurrent'
    BY <1>1, <2>1, CurrentStays
  <2> QED
    BY <2>2, <2>3
<1>3. CASE \E w \in Reconciler : Lease(w)
  BY <1>1, <1>3, LeaseForward
<1>4. CASE \E w \in Reconciler : LoadContext(w)
  BY <1>1, <1>4, LoadContextForward
<1>5. CASE \E w \in Reconciler : Judge(w)
  BY <1>1, <1>5, JudgeForward
<1>6. CASE \E w \in Reconciler : JudgeFails(w) \/ Kill(w)
  BY <1>1, <1>6, FailureForward
<1>7. CASE \E j \in Job : CreateJob(j) \/ LeaseExpires(j)
  BY <1>1, <1>7, OthersForward
<1> QED
  BY <1>2, <1>3, <1>4, <1>5, <1>6, <1>7 DEF Next, ReconcilerStep, vars, jobVars

(* The last_watermark_id of a job never falls, so that it does not go back *)
(* to a watermark it has passed over, and a decided job stays as it is: a  *)
(* reconciler that has outlived its lease cannot write the                 *)
(* last_watermark_id it read over that of the one that has taken the job   *)
(* since.                                                                  *)
THEOREM EvidenceConsideredOnce == Spec => [][Forward]_vars
<1>1. ReconcilerInv /\ ContextsCurrent /\ [Next]_vars => [Forward]_vars /\ ContextsCurrent'
  BY StepForward
<1> QED
  BY <1>1, InitiallyCurrent, ReconcilerHolds, PTL DEF Spec
=============================================================================
