------------------------- MODULE MCDeferredReconciler -------------------------
(***************************************************************************)
(* Instances of DeferredReconciler for TLC: one thing at a time goes wrong *)
(* with the reconcilers (a kill, an error, a lease outlived) or with the   *)
(* refreshes (a requeued message, two that overlap), while messages are    *)
(* lost, refreshes fail and watermarks become visible out of order.        *)
(***************************************************************************)
EXTENDS DeferredReconciler, TLC

CONSTANTS secondReconciler,
          MaxEvents  \* bound on troubles, requeued messages and overlaps together

ReportOf(found, listed, status, filtered) ==
  [found |-> found, listed |-> listed, expected |-> Cardinality(found),
   status |-> status, filtered |-> filtered]

\* A report that fails, or that is filtered, may leave out what the scanner has listed.
PartialReports ==
  {ReportOf(s, s, "SUCCESS", FALSE) : s \in SUBSET Finding}
    \cup {ReportOf(s, Finding, "FAILED", b) : s \in SUBSET Finding, b \in BOOLEAN}
    \cup {ReportOf(s, Finding, "SUCCESS", TRUE) : s \in SUBSET Finding}

\* Two refreshes have overlapped.
Overlaps ==
  \E q, r \in Refresh :
    /\ 0 < observed[q] /\ observed[q] < observed[r]
    /\ completed[q] = 0 \/ observed[r] < completed[q]

Busy(w) == batch[w] # {} \/ context[w] # Idle

(* Idle reconcilers are interchangeable: the second begins when the other  *)
(* is busy.                                                                *)
MCStep ==
  /\ troubles' + redeliveries' + (IF Overlaps' THEN 1 ELSE 0) <= MaxEvents
  /\ ~Busy(secondReconciler) /\ Busy(secondReconciler)' =>
       \E w \in Reconciler \ {secondReconciler} : Busy(w)

(* FairSpec, within these bounds.                                          *)
MCSpec ==
  /\ Init /\ [][Next /\ MCStep]_vars
  /\ \A w \in Reconciler : WF_vars((w = secondReconciler => Busy(w)) /\ ReconcilerStep(w))
  /\ \A j \in Job : WF_vars(LeaseExpires(j))

=============================================================================
