-------------------------- MODULE MCRefreshIngestion --------------------------
(* Instances of RefreshIngestion for TLC.                                   *)
EXTENDS RefreshIngestion

\* Reports that leave nothing out.
WholeReports ==
  {[found |-> s, listed |-> s, expected |-> Cardinality(s), status |-> "SUCCESS", filtered |-> FALSE] :
     s \in SUBSET Finding}

=============================================================================
