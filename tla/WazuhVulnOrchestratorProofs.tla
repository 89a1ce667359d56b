--------------------- MODULE WazuhVulnOrchestratorProofs ---------------------
(***************************************************************************)
(* What a refresh of the vulnerability inventory reports, for any          *)
(* inventory, any filter and any scroll: the assumption under which        *)
(* RefreshIngestion and its proofs take a watermark for evidence.          *)
(***************************************************************************)
EXTENDS WazuhVulnOrchestrator, FiniteSetTheorems, TLAPS

(* Several findings may get the same key, and no finding two.              *)
LEMMA ImageIsNoLarger ==
  ASSUME NEW S, IsFiniteSet(S), NEW T, NEW f \in [S -> T], \A t \in T : \E x \in S : f[x] = t
  PROVE  IsFiniteSet(T) /\ Cardinality(T) <= Cardinality(S)
<1>1. f \in Surjection(S, T)
  BY DEF Surjection
<1> QED
  BY <1>1, FS_Surjection

(* Whatever is in the inventory of an agent and however a scroll is cut    *)
(* short, a report is as RefreshIngestion assumes (ReportsAssumption): it  *)
(* expects at least as many findings as it has keys, and an unfiltered     *)
(* SUCCESS has every vulnerability of the inventory among its findings.    *)
THEOREM VulnerabilityReportsSound ==
  ASSUME NEW documents, IsFiniteSet(documents), NEW retrieved \in SUBSET documents, NEW severities,
         NEW report \in RunScan(documents, retrieved, severities)
  PROVE  /\ report.expected \in Nat /\ IsFiniteSet(report.found)
         /\ report.expected >= Cardinality(report.found)
         /\ report.status \in {"SUCCESS", "FAILED"} /\ report.filtered \in BOOLEAN
         /\ report.listed = {FindingKey(d) : d \in documents}
         /\ report.status = "SUCCESS" /\ ~report.filtered => report.listed \subseteq report.found
<1> DEFINE S == {d \in documents : ~Malformed(d) /\ Selected(d, severities)}
           W == Written(documents, severities)
           K == {f.key : f \in W}
<1>1. Cardinality(retrieved) = Cardinality(documents) /\ report = Report(retrieved, severities)
  <2>1. report \in IF Cardinality(retrieved) # Cardinality(documents)
                  THEN {} ELSE {Report(retrieved, severities)}
    BY Zenon DEF RunScan
  <2> QED
    BY <2>1, Zenon
<1>2. retrieved = documents
  BY <1>1, FS_Subset
<1>3. W = {Filed(d) : d \in S}
  BY DEF Written
<1>4. IsFiniteSet(S)
  BY FS_Subset
<1>5. IsFiniteSet(W)
  <2> DEFINE f == [d \in S |-> Filed(d)]
  <2>1. f \in [S -> W] /\ \A t \in W : \E x \in S : f[x] = t
    BY <1>3
  <2> HIDE DEF f, S, W
  <2> QED
    BY <1>4, <2>1, ImageIsNoLarger
<1>6. IsFiniteSet(K) /\ Cardinality(K) <= Cardinality(W)
  <2> DEFINE f == [w \in W |-> w.key]
  <2> HIDE DEF W
  <2>1. f \in [W -> K] /\ \A t \in K : \E x \in W : f[x] = t
    OBVIOUS
  <2> HIDE DEF f, K
  <2> QED
    BY <1>5, <2>1, ImageIsNoLarger
<1>7. Cardinality(W) \in Nat
  BY <1>5, FS_CardinalityType
<1>8. /\ report.found = K /\ report.expected = Cardinality(W)
      /\ report.listed = {FindingKey(d) : d \in documents}
      /\ report.status = RefreshStatus(documents) /\ report.filtered = (severities # {})
  <2>1. report = [found |-> K, listed |-> {FindingKey(d) : d \in documents}, expected |-> Cardinality(W),
                  status |-> RefreshStatus(documents), filtered |-> (severities # {})]
    BY <1>1, <1>2, Zenon DEF Report
  <2> HIDE DEF K, W
  <2> QED
    BY <2>1
<1>9. ASSUME report.status = "SUCCESS", ~report.filtered
      PROVE  report.listed \subseteq report.found
  <2> SUFFICES ASSUME NEW d \in documents PROVE FindingKey(d) \in K
    BY <1>8
  <2>1. ~Malformed(d)
    BY <1>8, <1>9 DEF RefreshStatus
  <2>2. Selected(d, severities)
    BY <1>8, <1>9 DEF Selected
  <2>3. Filed(d) \in W
    BY <1>3, <2>1, <2>2
  <2>4. Filed(d).key = FindingKey(d)
    BY DEF Filed
  <2> QED
    BY <2>3, <2>4
<1> QED
  BY <1>6, <1>7, <1>8, <1>9 DEF RefreshStatus

=============================================================================
