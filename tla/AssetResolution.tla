--------------------------- MODULE AssetResolution ---------------------------
(***************************************************************************)
(* asset_management/resolver.py: how the enricher workers find or create   *)
(* the asset of a finding, each at the start of the transaction that       *)
(* stores the finding.  It runs next to the administration of              *)
(* AssetReadiness, whose assets it creates.                                *)
(*                                                                         *)
(* A worker looks the identity up, stores the asset under it and commits;  *)
(* what another worker has stored and not committed it does not see, but   *)
(* the unique indexes of migrations 007 and 008 make it wait for it.       *)
(***************************************************************************)
EXTENDS AssetReadiness

CONSTANTS
  Observation,  \* what scanners tell about the asset of a finding; ours: of that of binding
  Resolver,     \* the enricher workers
  Idle

VARIABLES
  identifiers,  \* asset_identifiers, all of them active: <<asset, kind, value>>
  resolution,   \* the transaction of each worker
  resolved      \* history: <<kind, value, asset>> of each resolution by identity

resolutionVars == <<identifiers, resolution, resolved>>
registryVars == <<readinessVars, resolutionVars>>

WeakHostEngines == {"nmap_nse", "openvas", "lynis"}

-----------------------------------------------------------------------------
(* Evidence *)

Known(kind, value) == IF value = "" THEN {} ELSE {<<kind, value>>}

NucleiEvidence(o) == Known("APPLICATION_ID", o.origin)

TrivyEvidence(o) ==
  IF ~o.isImage THEN {}
  ELSE Known("CONTAINER_IMAGE_DIGEST", o.digest) \cup Known("CONTAINER_IMAGE_REFERENCE", o.reference)

WazuhEvidence(o) ==
  Known("WAZUH_AGENT_ID", o.agent) \cup Known("HOSTNAME", o.name) \cup Known("IP_ADDRESS", o.ip)

WeakHostEvidence(o) == Known("IP_ADDRESS", o.ip)

Evidence(o) ==
  CASE o.engine = "nuclei"           -> NucleiEvidence(o)
    [] o.engine = "trivy"            -> TrivyEvidence(o)
    [] o.engine \in WeakHostEngines  -> WeakHostEvidence(o)
    [] OTHER                         -> WazuhEvidence(o)

AnchorKind(o) ==
  CASE o.engine = "nuclei"           -> "APPLICATION_ID"
    [] o.engine = "trivy"            -> "CONTAINER_IMAGE_DIGEST"
    [] o.engine \in WeakHostEngines  -> "IP_ADDRESS"
    [] OTHER                         -> "WAZUH_AGENT_ID"

AssetType(o) ==
  CASE o.engine = "nuclei" -> "APPLICATION"
    [] o.engine = "trivy"  -> "CONTAINER_IMAGE"
    [] OTHER               -> "HOST"

(* The one identifier that decides which asset it is.                      *)
Anchor(o) == CHOOSE i \in Evidence(o) : i[1] = AnchorKind(o)

HasAnchor(o) == \E i \in Evidence(o) : i[1] = AnchorKind(o)

-----------------------------------------------------------------------------
(* Lookups *)

Holders(i) == {a \in Asset : <<a, i[1], i[2]>> \in identifiers}

FindStrongAsset(i) == Holders(i)

FindActiveAsset(i, type) ==
  {a \in Holders(i) : Exists(a) /\ asset[a].type = type /\ asset[a].lifecycle = "ACTIVE"}

HasStrongIdentity(a) == \E i \in identifiers : i[1] = a /\ i[2] = "WAZUH_AGENT_ID"

(* An address points at an asset if it points at one alone, and that one   *)
(* is known by its agent.                                                  *)
FindWeakHostAsset(i) ==
  LET hosts == {a \in FindActiveAsset(i, "HOST") : HasStrongIdentity(a)}
  IN  IF Cardinality(hosts) = 1 THEN hosts ELSE {}

FindAsset(o) ==
  CASE AnchorKind(o) = "WAZUH_AGENT_ID" -> FindStrongAsset(Anchor(o))
    [] AnchorKind(o) = "IP_ADDRESS"     -> FindWeakHostAsset(Anchor(o))
    [] OTHER                            -> FindActiveAsset(Anchor(o), AssetType(o))

(* A lookup that finds several raises, except for weak evidence.           *)
TheOne(assets) == IF assets = {} THEN Nothing ELSE CHOOSE a \in assets : TRUE

-----------------------------------------------------------------------------
(* Transactions *)

Begin(w, o) ==
  /\ resolution[w] = Idle
  /\ HasAnchor(o)
  /\ LET found == FindAsset(o)
     IN  /\ Cardinality(found) <= 1
         /\ resolution' = [resolution EXCEPT ![w] =
                             [observation |-> o, asset |-> TheOne(found), stage |-> "looked up", new |-> FALSE]]
  /\ UNCHANGED <<readinessVars, identifiers, resolved>>

IsWeak(t) == t.observation.engine \in WeakHostEngines

Stored(w, a, new) ==
  resolution' = [resolution EXCEPT ![w].asset = a, ![w].stage = "stored", ![w].new = new]

(* Uncommitted rows of another worker under the same unique identifier.    *)
Contended(w) ==
  \E v \in Resolver \ {w} :
    /\ resolution[v] # Idle /\ resolution[v].stage = "stored" /\ resolution[v].new
    /\ Anchor(resolution[v].observation) = Anchor(resolution[w].observation)

Reserved == {a \in Asset : \E v \in Resolver : resolution[v] # Idle /\ resolution[v].asset = a}

(* Weak evidence stores nothing.  An asset that was found is touched.      *)
StoreKnown(w) ==
  /\ resolution[w] # Idle /\ resolution[w].stage = "looked up"
  /\ resolution[w].asset # Nothing \/ IsWeak(resolution[w])
  /\ Stored(w, resolution[w].asset, FALSE)
  /\ UNCHANGED <<readinessVars, identifiers, resolved>>

StoreNew(w) ==
  /\ resolution[w] # Idle /\ resolution[w].stage = "looked up"
  /\ resolution[w].asset = Nothing /\ ~IsWeak(resolution[w])
  /\ ~Contended(w) /\ Holders(Anchor(resolution[w].observation)) = {}
  /\ \E a \in Asset : /\ ~Exists(a) /\ a \notin Reserved
                      /\ Stored(w, a, TRUE)
  /\ UNCHANGED <<readinessVars, identifiers, resolved>>

(* Mutant: the index is missing, and the identity is stored twice.         *)
MutantStoreTaken(w) ==
  /\ resolution[w] # Idle /\ resolution[w].stage = "looked up"
  /\ resolution[w].asset = Nothing /\ ~IsWeak(resolution[w])
  /\ Holders(Anchor(resolution[w].observation)) # {}
  /\ \E a \in Asset : /\ ~Exists(a) /\ a \notin Reserved
                      /\ Stored(w, a, TRUE)
  /\ UNCHANGED <<readinessVars, identifiers, resolved>>

(* The index refuses the identity, because another worker has stored it    *)
(* since the lookup, or because the lookup passed over the asset that      *)
(* holds it: back to the savepoint, and look again.  An error ends the     *)
(* transaction, and the finding with it.                                   *)
StoreTaken(w) ==
  /\ resolution[w] # Idle /\ resolution[w].stage = "looked up"
  /\ resolution[w].asset = Nothing /\ ~IsWeak(resolution[w])
  /\ ~Contended(w) /\ Holders(Anchor(resolution[w].observation)) # {}
  /\ LET found == FindAsset(resolution[w].observation)
     IN  IF Cardinality(found) = 1 THEN Stored(w, TheOne(found), FALSE)
         ELSE resolution' = [resolution EXCEPT ![w] = Idle]
  /\ UNCHANGED <<readinessVars, identifiers, resolved>>

(* The finding is stored and the transaction committed.  The finding keeps *)
(* its asset if this resolution found none.  A new asset is PROVISIONAL.   *)
CommitResolution(w) ==
  /\ resolution[w] # Idle /\ resolution[w].stage = "stored"
  /\ LET t == resolution[w]
         o == t.observation
     IN  /\ asset' = IF t.new THEN [asset EXCEPT ![t.asset] =
                                     [type |-> AssetType(o), lifecycle |-> "ACTIVE",
                                      state |-> "PROVISIONAL", authority |-> "none"]]
                     ELSE asset
         /\ identifiers' = identifiers \cup (IF IsWeak(t) THEN {} ELSE {<<t.asset, i[1], i[2]>> : i \in Evidence(o)})
         /\ resolved' = resolved \cup (IF IsWeak(t) THEN {} ELSE {<<Anchor(o)[1], Anchor(o)[2], t.asset>>})
         /\ binding' = IF o.ours /\ t.asset # Nothing THEN t.asset ELSE binding
  /\ resolution' = [resolution EXCEPT ![w] = Idle]
  /\ UNCHANGED <<target, audit, claimVars>>

(* The worker dies, or a later statement of the transaction fails.         *)
AbortResolution(w) ==
  /\ resolution[w] # Idle
  /\ resolution' = [resolution EXCEPT ![w] = Idle]
  /\ UNCHANGED <<readinessVars, identifiers, resolved>>

-----------------------------------------------------------------------------

(* Hosts of before migration 016 are known by the identifiers migration    *)
(* 007 keeps of them, each by its own agent.                               *)
LegacyIdentifiers(seen) == UNION {{<<a, i[1], i[2]>> : i \in Evidence(seen[a])} : a \in DOMAIN seen}

RegistryInit ==
  /\ ReadinessInit
  /\ \E seen \in [{a \in Asset : Exists(a)} -> {o \in Observation : HasAnchor(o) /\ AnchorKind(o) = "WAZUH_AGENT_ID"}] :
       /\ \A a, b \in DOMAIN seen : Anchor(seen[a]) = Anchor(seen[b]) => a = b
       /\ identifiers = LegacyIdentifiers(seen)
  /\ resolved = {}
  /\ resolution = [w \in Resolver |-> Idle]

RegistryNext ==
  \/ AdministrativeNext /\ UNCHANGED resolutionVars
  \/ GateNext /\ UNCHANGED resolutionVars
  \/ \E w \in Resolver, o \in Observation : Begin(w, o)
  \/ \E w \in Resolver : StoreKnown(w) \/ StoreNew(w) \/ StoreTaken(w)
                           \/ CommitResolution(w) \/ AbortResolution(w)

RegistrySpec == RegistryInit /\ [][RegistryNext]_registryVars

-----------------------------------------------------------------------------
(* One identity is one asset for ever, however many workers discover it at *)
(* the same time and whatever the lifecycle of the asset is by then: the   *)
(* findings of an agent, an image or an application are never split.       *)
StableIdentity ==
  \A x, y \in resolved : x[1] = y[1] /\ x[2] = y[2] => x[3] = y[3]
=============================================================================
