-------------------------- MODULE MCAssetResolution --------------------------
(* The asset registry and the administration of readiness, for TLC.        *)
EXTENDS AssetResolution, TLC

\* An agent and its new address, the same address seen by Nmap, and an
\* application; the finding that is followed is one of Wazuh's.
Observed ==
  { [engine |-> "wazuh_sca", agent |-> "001", name |-> "h", ip |-> "10.0.0.1", ours |-> TRUE],
    [engine |-> "wazuh_sca", agent |-> "002", name |-> "h", ip |-> "10.0.0.1", ours |-> TRUE],
    [engine |-> "nmap_nse", ip |-> "10.0.0.1", ours |-> FALSE],
    [engine |-> "nuclei", origin |-> "https://h", ours |-> FALSE] }

\* One host at most is older than the migration, the other asset is discovered by a worker.
\* Its inactive targets are left out: to every action they are as targets nobody has named.
MCInit ==
  /\ RegistryInit
  /\ Cardinality({a \in Asset : Exists(a)}) <= 1
  /\ \A a \in Asset, d \in Destination : target[a][d] # LegacyTarget(FALSE)

MCSpec == MCInit /\ [][RegistryNext]_registryVars

Symmetry == Permutations(Asset) \cup Permutations(Destination) \cup Permutations(Resolver)
=============================================================================
