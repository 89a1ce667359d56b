------------------------ MODULE AssetResolutionProofs ------------------------
(***************************************************************************)
(* Theorems about AssetReadiness and AssetResolution, for any assets,      *)
(* execution targets, observations and workers.  What an administrator has *)
(* authorised is protected by the rows themselves (Rows); that an identity *)
(* is one asset by the agreement of identifiers and transactions           *)
(* (Identities).                                                           *)
(***************************************************************************)
EXTENDS AssetResolution, FiniteSetTheorems, WellFoundedInduction, TLAPS

-----------------------------------------------------------------------------
(* The rows *)

(* No asset is under authorisation without being MANAGED, and no two of    *)
(* its targets are active.                                                 *)
Rows ==
  /\ AssetTypeOK
  /\ \A a \in Asset : Exists(a) /\ asset[a].authority = "current" => asset[a].state = "MANAGED"
  /\ OneActiveTarget
  /\ ActiveTargetIsAuthorised

LEMMA RowsInitially == ReadinessInit => Rows
<1> SUFFICES ASSUME ReadinessInit PROVE Rows
  OBVIOUS
<1>1. asset \in [Asset -> AssetRow \cup {NoRow}] /\ target \in [Asset -> [Destination -> TargetRow \cup {NoRow}]]
  <2> DEFINE legacyRows == {NoRow, LegacyRow("PROVISIONAL"), LegacyRow("MANAGED")}
             legacyTargets == {NoRow, LegacyTarget(TRUE), LegacyTarget(FALSE)}
  <2>1. legacyRows \subseteq AssetRow \cup {NoRow}
    BY DEF LegacyRow, AssetRow, Authority
  <2>2. legacyTargets \subseteq TargetRow \cup {NoRow}
    BY DEF LegacyTarget, TargetRow, Authority
  <2>3. asset \in [Asset -> legacyRows] /\ target \in [Asset -> [Destination -> legacyTargets]]
    BY DEF ReadinessInit
  <2> HIDE DEF legacyRows, legacyTargets
  <2>4. \A a \in Asset : target[a] \in [Destination -> TargetRow \cup {NoRow}]
    BY <2>2, <2>3
  <2> QED
    BY <2>1, <2>3, <2>4
<1>2. \A a \in Asset : Exists(a) => asset[a].authority = "none"
  BY DEF ReadinessInit, LegacyRow, Exists
<1>3. \A a \in Asset, d \in Destination : Active(a, d) => Exists(a) /\ target[a][d].authority = "none"
  BY DEF ReadinessInit, LegacyTarget, Exists, Active
<1>4. audit \in [Asset -> Seq(Event)] /\ binding = Nothing /\ payload = Nothing /\ claimant = Nothing /\ running = Nothing
  BY DEF ReadinessInit
<1>5. AssetTypeOK
  BY <1>1, <1>2, <1>3, <1>4 DEF AssetTypeOK
<1>6. OneActiveTarget
  BY DEF ReadinessInit, OneActiveTarget
<1> QED
  BY <1>2, <1>3, <1>5, <1>6 DEF Rows, ActiveTargetIsAuthorised

LEMMA RecordTyped ==
  ASSUME AssetTypeOK, NEW a \in Asset, NEW d \in Destination \cup {Nothing},
         NEW type \in {"ASSET_MANAGED", "ASSET_MANAGEMENT_REVOKED", "EXECUTION_TARGET_AUTHORISED",
                       "EXECUTION_TARGET_REVOKED", "EXECUTION_TARGET_REPLACED"},
         Record(a, type, d)
  PROVE  audit' \in [Asset -> Seq(Event)]
<1> DEFINE event == [type |-> type, destination |-> d]
<1>1. event \in Event
  BY DEF Event
<1>2. audit[a] \in Seq(Event)
  BY DEF AssetTypeOK
<1>3. Append(audit[a], event) \in Seq(Event)
  BY <1>1, <1>2
<1> QED
  BY <1>3 DEF Record, AssetTypeOK

(* The row of one asset changes, and the rows of its targets do not.       *)
LEMMA AssetRowChanges ==
  ASSUME Rows, NEW a \in Asset, NEW row \in AssetRow,
         row.authority = "revoked" => row.state = "UNMANAGED",
         row.authority = "current" => row.state = "MANAGED",
         row.authority = "current" \/ \A d \in Destination : ~(Active(a, d) /\ target[a][d].authority = "current"),
         asset' = [asset EXCEPT ![a] = row],
         audit' \in [Asset -> Seq(Event)], binding' \in Asset \cup {Nothing},
         UNCHANGED <<target, payload, claimant, running>>
  PROVE  Rows'
<1>1. \A b \in Asset : asset'[b] = IF b = a THEN row ELSE asset[b]
  BY DEF Rows, AssetTypeOK
<1>2. asset' \in [Asset -> AssetRow \cup {NoRow}]
  BY DEF Rows, AssetTypeOK
<1>3. Exists(a)' /\ \A b \in Asset : Exists(b) => Exists(b)'
  BY <1>1, RowsAssumption DEF Exists
<1>4. \A b \in Asset, d \in Destination : Active(b, d)' <=> Active(b, d)
  BY DEF Active
<1>5. AssetTypeOK'
  BY <1>1, <1>2, <1>3, <1>4 DEF Rows, AssetTypeOK, Exists
<1>6. \A b \in Asset : Exists(b)' /\ asset'[b].authority = "current" => asset'[b].state = "MANAGED"
  BY <1>1 DEF Rows, Exists
<1>7. OneActiveTarget'
  BY <1>4 DEF Rows, OneActiveTarget
<1>8. ActiveTargetIsAuthorised'
  <2> SUFFICES ASSUME NEW b \in Asset, NEW d \in Destination, Active(b, d), target[b][d].authority = "current"
               PROVE  Managed(b)'
    BY <1>4 DEF ActiveTargetIsAuthorised
  <2>1. CASE b = a
    BY <1>1, <2>1 DEF Managed
  <2>2. CASE b # a
    BY <1>1, <2>2 DEF Managed, Rows, ActiveTargetIsAuthorised
  <2> QED
    BY <2>1, <2>2
<1> QED
  BY <1>5, <1>6, <1>7, <1>8 DEF Rows

(* The rows of the targets of one asset change: at most d is active then.  *)
LEMMA TargetRowsChange ==
  ASSUME Rows, NEW a \in Asset, NEW d \in Destination, Exists(a),
         NEW rows \in [Destination -> TargetRow \cup {NoRow}],
         \A e \in Destination : rows[e] # NoRow /\ rows[e].active =>
           e = d /\ rows[e].authority # "revoked" /\ (rows[e].authority = "current" => Managed(a)),
         target' = [target EXCEPT ![a] = rows],
         audit' \in [Asset -> Seq(Event)],
         UNCHANGED <<asset, binding, payload, claimant, running>>
  PROVE  Rows'
<1>1. \A b \in Asset : target'[b] = IF b = a THEN rows ELSE target[b]
  BY DEF Rows, AssetTypeOK
<1>2. \A e \in Destination : Active(a, e)' => e = d /\ rows[e].authority # "revoked"
                                              /\ (rows[e].authority = "current" => Managed(a))
  BY <1>1 DEF Active
<1>3. \A b \in Asset, e \in Destination : b # a => (Active(b, e)' <=> Active(b, e))
  BY <1>1 DEF Active
<1>4. \A b \in Asset : (Exists(b)' <=> Exists(b)) /\ (Managed(b)' <=> Managed(b))
  BY DEF Exists, Managed
<1>5. target' \in [Asset -> [Destination -> TargetRow \cup {NoRow}]]
  BY DEF Rows, AssetTypeOK
<1>6. \A b \in Asset, e \in Destination : Active(b, e)' => Exists(b)' /\ target'[b][e].authority # "revoked"
  BY <1>1, <1>2, <1>3, <1>4 DEF Rows, AssetTypeOK
<1>7. AssetTypeOK'
  BY <1>4, <1>5, <1>6 DEF Rows, AssetTypeOK
<1>8. OneActiveTarget'
  BY <1>2, <1>3 DEF Rows, OneActiveTarget
<1>9. ActiveTargetIsAuthorised'
  BY <1>1, <1>2, <1>3, <1>4 DEF Rows, ActiveTargetIsAuthorised
<1> QED
  BY <1>4, <1>7, <1>8, <1>9 DEF Rows, Exists

LEMMA AuthoriseManagementKeeps ==
  ASSUME Rows, NEW a \in Asset, AuthoriseManagement(a) PROVE Rows'
<1> DEFINE row == [asset[a] EXCEPT !.state = "MANAGED", !.authority = "current"]
<1>1. asset[a] \in AssetRow
  BY DEF AuthoriseManagement, Exists, Rows, AssetTypeOK
<1>2. row \in AssetRow /\ row.state = "MANAGED" /\ row.authority = "current"
  BY <1>1 DEF AssetRow, Authority
<1>3. asset' = [asset EXCEPT ![a] = row]
  BY DEF AuthoriseManagement, PutAsset
<1>4. audit' \in [Asset -> Seq(Event)]
  BY RecordTyped DEF AuthoriseManagement, Rows
<1>5. UNCHANGED <<target, binding, payload, claimant, running>> /\ binding' \in Asset \cup {Nothing}
  BY DEF AuthoriseManagement, claimVars, Rows, AssetTypeOK
<1> HIDE DEF row
<1> QED
  BY <1>2, <1>3, <1>4, <1>5, AssetRowChanges

LEMMA RevokeManagementKeeps ==
  ASSUME Rows, NEW a \in Asset, RevokeManagement(a) PROVE Rows'
<1> DEFINE row == [asset[a] EXCEPT !.state = "UNMANAGED", !.authority = "revoked"]
<1>1. asset[a] \in AssetRow
  BY DEF RevokeManagement, Exists, Rows, AssetTypeOK
<1>2. row \in AssetRow /\ row.state = "UNMANAGED" /\ row.authority = "revoked"
  BY <1>1 DEF AssetRow, Authority
<1>3. asset' = [asset EXCEPT ![a] = row]
  BY DEF RevokeManagement, PutAsset
<1>4. audit' \in [Asset -> Seq(Event)]
  BY RecordTyped DEF RevokeManagement, Rows
<1>5. UNCHANGED <<target, binding, payload, claimant, running>> /\ binding' \in Asset \cup {Nothing}
  BY DEF RevokeManagement, claimVars, Rows, AssetTypeOK
<1>6. \A d \in Destination : ~Active(a, d)
  BY DEF RevokeManagement, ActiveTargets
<1> HIDE DEF row
<1> QED
  BY <1>2, <1>3, <1>4, <1>5, <1>6, AssetRowChanges

LEMMA SetLifecycleKeeps ==
  ASSUME Rows, NEW a \in Asset, NEW lifecycle \in {"ACTIVE", "RETIRED"}, SetLifecycle(a, lifecycle)
  PROVE  Rows'
<1> DEFINE row == [asset[a] EXCEPT !.lifecycle = lifecycle]
<1>1. asset[a] \in AssetRow
  BY DEF SetLifecycle, Exists, Rows, AssetTypeOK
<1>2. row \in AssetRow /\ row.state = asset[a].state /\ row.authority = asset[a].authority
  BY <1>1 DEF AssetRow
<1>3. asset' = [asset EXCEPT ![a] = row]
  BY DEF SetLifecycle
<1>4. audit' \in [Asset -> Seq(Event)] /\ binding' \in Asset \cup {Nothing}
  BY DEF SetLifecycle, Rows, AssetTypeOK
<1>5. UNCHANGED <<target, payload, claimant, running>>
  BY DEF SetLifecycle, claimVars
<1>6. /\ asset[a].authority = "revoked" => asset[a].state = "UNMANAGED"
      /\ asset[a].authority = "current" => asset[a].state = "MANAGED"
  BY DEF SetLifecycle, Rows, AssetTypeOK
<1>7. asset[a].authority = "current" \/ \A d \in Destination : ~(Active(a, d) /\ target[a][d].authority = "current")
  BY DEF Rows, ActiveTargetIsAuthorised, Managed
<1> HIDE DEF row
<1> QED
  BY <1>2, <1>3, <1>4, <1>5, <1>6, <1>7, AssetRowChanges

LEMMA AuthoriseTargetKeeps ==
  ASSUME Rows, NEW a \in Asset, NEW d \in Destination, AuthoriseTarget(a, d) PROVE Rows'
<1> DEFINE row == [active |-> TRUE, authority |-> "current"]
           rows == [target[a] EXCEPT ![d] = row]
<1>1. target[a] \in [Destination -> TargetRow \cup {NoRow}]
  BY DEF Rows, AssetTypeOK
<1>2. row \in TargetRow
  BY DEF TargetRow, Authority
<1>3. target' = [target EXCEPT ![a] = rows]
  BY <1>1 DEF AuthoriseTarget, Rows, AssetTypeOK
<1>4. \A e \in Destination : e # d => ~(target[a][e] # NoRow /\ target[a][e].active)
  BY DEF AuthoriseTarget, ActiveTargets, Active
<1>5. Managed(a) /\ Exists(a)
  BY DEF AuthoriseTarget, Usable
<1>6. audit' \in [Asset -> Seq(Event)]
  BY RecordTyped DEF AuthoriseTarget, Rows
<1>7. UNCHANGED <<asset, binding, payload, claimant, running>>
  BY DEF AuthoriseTarget, claimVars
<1>8. rows \in [Destination -> TargetRow \cup {NoRow}]
  BY <1>1, <1>2
<1>9. \A e \in Destination : rows[e] = IF e = d THEN row ELSE target[a][e]
  BY <1>1
<1>10. \A e \in Destination : rows[e] # NoRow /\ rows[e].active =>
           e = d /\ rows[e].authority # "revoked" /\ (rows[e].authority = "current" => Managed(a))
  BY <1>4, <1>5, <1>9
<1> HIDE DEF rows
<1> QED
  BY <1>3, <1>5, <1>6, <1>7, <1>8, <1>10, TargetRowsChange

LEMMA RevokeTargetKeeps ==
  ASSUME Rows, NEW a \in Asset, RevokeTarget(a) PROVE Rows'
<1> DEFINE row == [active |-> FALSE, authority |-> "revoked"]
<1>1. PICK d \in Destination : /\ ActiveTargets(a) = {d}
                               /\ target' = [target EXCEPT ![a][d] = row]
                               /\ Record(a, "EXECUTION_TARGET_REVOKED", d)
  BY DEF RevokeTarget
<1> DEFINE rows == [target[a] EXCEPT ![d] = row]
<1>2. target[a] \in [Destination -> TargetRow \cup {NoRow}]
  BY DEF Rows, AssetTypeOK
<1>3. row \in TargetRow
  BY DEF TargetRow, Authority
<1>4. target' = [target EXCEPT ![a] = rows]
  BY <1>1, <1>2 DEF Rows, AssetTypeOK
<1>5. \A e \in Destination : e # d => ~(target[a][e] # NoRow /\ target[a][e].active)
  BY <1>1 DEF ActiveTargets, Active
<1>6. Exists(a)
  BY DEF RevokeTarget
<1>7. audit' \in [Asset -> Seq(Event)]
  BY <1>1, RecordTyped DEF Rows
<1>8. UNCHANGED <<asset, binding, payload, claimant, running>>
  BY DEF RevokeTarget, claimVars
<1>9. rows \in [Destination -> TargetRow \cup {NoRow}]
  BY <1>2, <1>3
<1>10. \A e \in Destination : rows[e] = IF e = d THEN row ELSE target[a][e]
  BY <1>2
<1>11. \A e \in Destination : ~(rows[e] # NoRow /\ rows[e].active)
  BY <1>5, <1>10
<1> HIDE DEF rows
<1> QED
  BY <1>4, <1>6, <1>7, <1>8, <1>9, <1>11, TargetRowsChange

LEMMA ReplaceTargetKeeps ==
  ASSUME Rows, NEW a \in Asset, NEW d \in Destination, ReplaceTarget(a, d) PROVE Rows'
<1> DEFINE new == [active |-> TRUE, authority |-> "current"]
           old == [active |-> FALSE, authority |-> "revoked"]
<1>1. PICK p \in Destination \ {d} :
        /\ ActiveTargets(a) = {p}
        /\ target' = [target EXCEPT ![a] = [@ EXCEPT ![p] = old, ![d] = new]]
  BY DEF ReplaceTarget
<1> DEFINE rows == [target[a] EXCEPT ![p] = old, ![d] = new]
<1>2. target[a] \in [Destination -> TargetRow \cup {NoRow}]
  BY DEF Rows, AssetTypeOK
<1>3. new \in TargetRow /\ old \in TargetRow
  BY DEF TargetRow, Authority
<1>4. target' = [target EXCEPT ![a] = rows]
  BY <1>1
<1>5. \A e \in Destination : e # p => ~(target[a][e] # NoRow /\ target[a][e].active)
  BY <1>1 DEF ActiveTargets, Active
<1>6. Managed(a) /\ Exists(a)
  BY DEF ReplaceTarget, Usable
<1>7. audit' \in [Asset -> Seq(Event)]
  BY RecordTyped DEF ReplaceTarget, Rows
<1>8. UNCHANGED <<asset, binding, payload, claimant, running>>
  BY DEF ReplaceTarget, claimVars
<1>9. rows \in [Destination -> TargetRow \cup {NoRow}]
  BY <1>2, <1>3
<1>10. \A e \in Destination : rows[e] = IF e = d THEN new ELSE IF e = p THEN old ELSE target[a][e]
  BY <1>2
<1>11. \A e \in Destination : rows[e] # NoRow /\ rows[e].active =>
           e = d /\ rows[e].authority # "revoked" /\ (rows[e].authority = "current" => Managed(a))
  <2> HIDE DEF rows
  <2> TAKE e \in Destination
  <2>1. CASE e = d
    BY <1>6, <1>10, <2>1
  <2>2. CASE e = p
    BY <1>10, <2>2
  <2>3. CASE e # d /\ e # p
    BY <1>5, <1>10, <2>3
  <2> QED
    BY <2>1, <2>2, <2>3
<1> HIDE DEF rows
<1> QED
  BY <1>4, <1>6, <1>7, <1>8, <1>9, <1>11, TargetRowsChange

LEMMA GatesKeep == ASSUME Rows, GateNext PROVE Rows'
<1>1. UNCHANGED <<asset, target, audit, binding>>
  BY DEF GateNext, ClaimFinding, StartWork, EndWork, readinessRows
<1>2. payload' \in Destination \cup {Nothing} /\ running' \in (Asset \X Destination) \cup {Nothing}
  BY DEF GateNext, ClaimFinding, StartWork, EndWork, Rows, AssetTypeOK
<1>3. claimant' \in Asset \cup {Nothing} /\ (claimant' = Nothing <=> payload' = Nothing)
  BY ReadinessAssumption DEF GateNext, ClaimFinding, StartWork, EndWork, Rows, AssetTypeOK
<1> QED
  BY <1>1, <1>2, <1>3 DEF Rows, AssetTypeOK, OneActiveTarget, ActiveTargetIsAuthorised, Exists, Active, Managed

LEMMA AdministrationKeeps == ASSUME Rows, AdministrativeNext PROVE Rows'
  BY AuthoriseManagementKeeps, RevokeManagementKeeps, SetLifecycleKeeps, AuthoriseTargetKeeps,
     RevokeTargetKeeps, ReplaceTargetKeeps DEF AdministrativeNext

-----------------------------------------------------------------------------
(* Identities *)

StrongKinds == {"APPLICATION_ID", "CONTAINER_IMAGE_DIGEST", "WAZUH_AGENT_ID"}

Transaction == [observation : Observation, asset : Asset \cup {Nothing},
                stage : {"looked up", "stored"}, new : BOOLEAN]

(* A transaction has found an asset that holds its identity, or is about   *)
(* to create the one that will.                                            *)
Consistent(t) ==
  /\ HasAnchor(t.observation)
  /\ t.asset # Nothing /\ ~t.new => t.asset \in Holders(Anchor(t.observation))
  /\ t.new => /\ t.stage = "stored" /\ ~IsWeak(t)
              /\ t.asset \in Asset /\ ~Exists(t.asset)
              /\ Holders(Anchor(t.observation)) = {}
  /\ t.stage = "stored" /\ ~IsWeak(t) => t.asset # Nothing

Creating(v) == resolution[v] # Idle /\ resolution[v].new

Identities ==
  /\ resolution \in [Resolver -> Transaction \cup {Idle}]
  /\ \A i \in identifiers : i[1] \in Asset /\ Exists(i[1]) /\ i = <<i[1], i[2], i[3]>>
  /\ \A i, j \in identifiers : i[2] \in StrongKinds /\ i[2] = j[2] /\ i[3] = j[3] => i[1] = j[1]
  /\ \A w \in Resolver : resolution[w] # Idle => Consistent(resolution[w])
  /\ \A v, w \in Resolver : v # w /\ Creating(v) /\ Creating(w) =>
       /\ resolution[v].asset # resolution[w].asset
       /\ Anchor(resolution[v].observation) # Anchor(resolution[w].observation)
  /\ \A r \in resolved : r[1] \in StrongKinds /\ <<r[3], r[1], r[2]>> \in identifiers

LEMMA EvidencePairs ==
  ASSUME NEW o, NEW e \in Evidence(o) PROVE e = <<e[1], e[2]>>
<1>1. CASE o.engine = "nuclei"
  <2>1. e = <<"APPLICATION_ID", o.origin>>
    BY <1>1 DEF Evidence, NucleiEvidence, Known, WeakHostEngines
  <2> QED
    BY <2>1
<1>2. CASE o.engine = "trivy"
  <2>1. e = <<"CONTAINER_IMAGE_DIGEST", o.digest>> \/ e = <<"CONTAINER_IMAGE_REFERENCE", o.reference>>
    BY <1>2 DEF Evidence, TrivyEvidence, Known, WeakHostEngines
  <2> QED
    BY <2>1
<1>3. CASE o.engine \notin {"nuclei", "trivy"}
  <2>1. \/ e = <<"WAZUH_AGENT_ID", o.agent>> \/ e = <<"HOSTNAME", o.name>>
        \/ e = <<"IP_ADDRESS", o.ip>>
    BY <1>3 DEF Evidence, WazuhEvidence, WeakHostEvidence, Known
  <2> QED
    BY <2>1
<1> QED
  BY <1>1, <1>2, <1>3

LEMMA AnchorIsEvidence ==
  ASSUME NEW o, HasAnchor(o)
  PROVE  Anchor(o) \in Evidence(o) /\ Anchor(o)[1] = AnchorKind(o)
  BY DEF HasAnchor, Anchor

(* The evidence of an engine that knows identities has just one of a       *)
(* strong kind.                                                            *)
LEMMA StrongEvidence ==
  ASSUME NEW o, HasAnchor(o), o.engine \notin WeakHostEngines,
         NEW i \in Evidence(o), i[1] \in StrongKinds
  PROVE  i = Anchor(o) /\ AnchorKind(o) \in StrongKinds
<1> DEFINE anchor == Anchor(o)
<1>1. anchor \in Evidence(o) /\ anchor[1] = AnchorKind(o)
  BY AnchorIsEvidence
<1> HIDE DEF anchor
<1>2. CASE o.engine = "nuclei"
  BY <1>1, <1>2 DEF Evidence, AnchorKind, NucleiEvidence, Known, StrongKinds, anchor
<1>3. CASE o.engine = "trivy"
  <2>1. Evidence(o) \subseteq {<<"CONTAINER_IMAGE_DIGEST", o.digest>>, <<"CONTAINER_IMAGE_REFERENCE", o.reference>>}
    BY <1>3 DEF Evidence, TrivyEvidence, Known
  <2>2. AnchorKind(o) = "CONTAINER_IMAGE_DIGEST"
    BY <1>3 DEF AnchorKind
  <2>3. \A e \in Evidence(o) : e[1] \in StrongKinds => e = <<"CONTAINER_IMAGE_DIGEST", o.digest>>
    BY <2>1 DEF StrongKinds
  <2> QED
    BY <1>1, <2>2, <2>3 DEF StrongKinds, anchor
<1>4. CASE o.engine \notin {"nuclei", "trivy"}
  <2>1. Evidence(o) \subseteq {<<"WAZUH_AGENT_ID", o.agent>>, <<"HOSTNAME", o.name>>, <<"IP_ADDRESS", o.ip>>}
    BY <1>4 DEF Evidence, WazuhEvidence, Known
  <2>2. AnchorKind(o) = "WAZUH_AGENT_ID"
    BY <1>4 DEF AnchorKind
  <2>3. \A e \in Evidence(o) : e[1] \in StrongKinds => e = <<"WAZUH_AGENT_ID", o.agent>>
    BY <2>1 DEF StrongKinds
  <2> QED
    BY <1>1, <2>2, <2>3 DEF StrongKinds, anchor
<1> QED
  BY <1>2, <1>3, <1>4

LEMMA AnchorIsStrong ==
  ASSUME NEW o, HasAnchor(o), o.engine \notin WeakHostEngines
  PROVE  AnchorKind(o) \in StrongKinds
  BY DEF AnchorKind, StrongKinds

LEMMA FoundHolds ==
  ASSUME NEW o PROVE FindAsset(o) \subseteq Holders(Anchor(o))
  BY DEF FindAsset, FindStrongAsset, FindActiveAsset, FindWeakHostAsset

LEMMA TheOneFound ==
  ASSUME NEW S, NEW T, S \subseteq T PROVE TheOne(S) \in T \cup {Nothing}
  BY DEF TheOne

(* Rows of assets come into being with the commit of a resolution alone.   *)
LEMMA AdministrationCreatesNothing ==
  ASSUME Rows, AdministrativeNext \/ GateNext
  PROVE  \A a \in Asset : Exists(a)' <=> Exists(a)
<1>1. ASSUME NEW a \in Asset, NEW row \in AssetRow, Exists(a), asset' = [asset EXCEPT ![a] = row]
      PROVE  \A b \in Asset : Exists(b)' <=> Exists(b)
  BY <1>1, RowsAssumption DEF Exists, Rows, AssetTypeOK
<1>2. ASSUME NEW a \in Asset, Exists(a), NEW state \in {"MANAGED", "UNMANAGED"},
             NEW authority \in Authority, PutAsset(a, state, authority)
      PROVE  \A b \in Asset : Exists(b)' <=> Exists(b)
  <2> DEFINE row == [asset[a] EXCEPT !.state = state, !.authority = authority]
  <2>1. row \in AssetRow
    BY <1>2 DEF Exists, Rows, AssetTypeOK, AssetRow
  <2>2. asset' = [asset EXCEPT ![a] = row]
    BY <1>2 DEF PutAsset
  <2> QED
    BY <1>1, <1>2, <2>1, <2>2
<1>3. ASSUME NEW a \in Asset, AuthoriseManagement(a) \/ RevokeManagement(a)
      PROVE  \A b \in Asset : Exists(b)' <=> Exists(b)
  BY <1>2, <1>3 DEF AuthoriseManagement, RevokeManagement, Authority
<1>4. ASSUME NEW a \in Asset, NEW lifecycle \in {"ACTIVE", "RETIRED"}, SetLifecycle(a, lifecycle)
      PROVE  \A b \in Asset : Exists(b)' <=> Exists(b)
  <2> DEFINE row == [asset[a] EXCEPT !.lifecycle = lifecycle]
  <2>1. row \in AssetRow
    BY <1>4 DEF SetLifecycle, Exists, Rows, AssetTypeOK, AssetRow
  <2> QED
    BY <1>1, <1>4, <2>1 DEF SetLifecycle
<1>5. asset' = asset => \A b \in Asset : Exists(b)' <=> Exists(b)
  BY DEF Exists
<1>6. GateNext => asset' = asset
  BY DEF GateNext, ClaimFinding, StartWork, EndWork, readinessRows
<1>7. \A a \in Asset, d \in Destination :
        RevokeTarget(a) \/ AuthoriseTarget(a, d) \/ ReplaceTarget(a, d) => asset' = asset
  BY DEF RevokeTarget, AuthoriseTarget, ReplaceTarget
<1>8. \A a \in Asset : RevokeTarget(a) => asset' = asset
  BY DEF RevokeTarget
<1> QED
  BY <1>3, <1>4, <1>5, <1>6, <1>7, <1>8 DEF AdministrativeNext

(* Identities survive a step that changes neither them nor what exists.    *)
LEMMA IdentitiesOnAdministration ==
  ASSUME Identities, UNCHANGED resolutionVars, \A a \in Asset : Exists(a)' <=> Exists(a)
  PROVE  Identities'
<1>1. UNCHANGED <<identifiers, resolution, resolved>>
  BY DEF resolutionVars
<1>2. \A i : Holders(i)' = Holders(i)
  BY <1>1 DEF Holders
<1>3. \A w \in Resolver : resolution[w] # Idle => Consistent(resolution[w])'
  <2> SUFFICES ASSUME NEW w \in Resolver, resolution[w] # Idle PROVE Consistent(resolution[w])'
    OBVIOUS
  <2>1. Consistent(resolution[w])
    BY DEF Identities
  <2>2. resolution[w].new => resolution[w].asset \in Asset
    BY <2>1 DEF Consistent
  <2> QED
    BY <1>1, <1>2, <2>1, <2>2 DEF Consistent, IsWeak
<1> QED
  BY <1>1, <1>3 DEF Identities, Creating

LEMMA BeginKeeps ==
  ASSUME Identities, NEW w \in Resolver, NEW o \in Observation, Begin(w, o)
  PROVE  Identities'
<1> DEFINE t == [observation |-> o, asset |-> TheOne(FindAsset(o)), stage |-> "looked up", new |-> FALSE]
<1>1. resolution' = [resolution EXCEPT ![w] = t] /\ HasAnchor(o)
  BY DEF Begin
<1>2. t.asset \in Holders(Anchor(o)) \cup {Nothing}
  BY FoundHolds, TheOneFound
<1>3. t \in Transaction
  BY <1>2 DEF Transaction, Holders
<1>4. Consistent(t)
  BY <1>1, <1>2 DEF Consistent
<1> HIDE DEF t
<1>5. \A v \in Resolver : resolution'[v] = IF v = w THEN t ELSE resolution[v]
  BY <1>1 DEF Identities
<1>6. UNCHANGED <<asset, identifiers, resolved>>
  BY DEF Begin, readinessVars
<1>8. t.new = FALSE
  BY DEF t
<1>9. resolution' \in [Resolver -> Transaction \cup {Idle}]
  BY <1>1, <1>3 DEF Identities
<1>10. \A v \in Resolver : (resolution[v] # Idle => Consistent(resolution[v]))'
  <2> SUFFICES ASSUME NEW v \in Resolver, resolution'[v] # Idle PROVE Consistent(resolution[v])'
    OBVIOUS
  <2>1. Consistent(resolution'[v])
    BY <1>4, <1>5 DEF Identities
  <2> QED
    BY <2>1, <1>6 DEF Consistent, Exists, Holders, IsWeak
<1>11. \A v \in Resolver : Creating(v)' => v # w /\ Creating(v)
  BY <1>5, <1>8 DEF Creating
<1> QED
  BY <1>5, <1>6, <1>9, <1>10, <1>11 DEF Identities, Exists

(* A transaction that ends without a trace.                                *)
LEMMA ForgetKeeps ==
  ASSUME Identities, NEW w \in Resolver, resolution' = [resolution EXCEPT ![w] = Idle],
         UNCHANGED <<asset, identifiers, resolved>>
  PROVE  Identities'
<1>1. \A v \in Resolver : resolution'[v] = IF v = w THEN Idle ELSE resolution[v]
  BY DEF Identities
<1>3. resolution' \in [Resolver -> Transaction \cup {Idle}]
  BY DEF Identities
<1>4. \A v \in Resolver : (resolution[v] # Idle => Consistent(resolution[v]))'
  <2> SUFFICES ASSUME NEW v \in Resolver, resolution'[v] # Idle PROVE Consistent(resolution[v])'
    OBVIOUS
  <2>1. Consistent(resolution'[v])
    BY <1>1 DEF Identities
  <2> QED
    BY <2>1 DEF Consistent, Exists, Holders, IsWeak
<1>5. \A v \in Resolver : Creating(v)' => v # w /\ Creating(v)
  BY <1>1 DEF Creating
<1> QED
  BY <1>1, <1>3, <1>4, <1>5 DEF Identities, Exists

(* A transaction that stores the asset it has found.                       *)
LEMMA StoredKeeps ==
  ASSUME Identities, NEW w \in Resolver, resolution[w] # Idle, NEW a \in Asset \cup {Nothing},
         IF a = Nothing THEN IsWeak(resolution[w]) ELSE a \in Holders(Anchor(resolution[w].observation)),
         Stored(w, a, FALSE), UNCHANGED <<asset, identifiers, resolved>>
  PROVE  Identities'
<1> DEFINE t == [resolution[w] EXCEPT !.asset = a, !.stage = "stored", !.new = FALSE]
<1>1. resolution[w] \in Transaction /\ Consistent(resolution[w])
  BY DEF Identities
<1>2. resolution' = [resolution EXCEPT ![w] = t]
  BY <1>1 DEF Stored, Identities
<1>3. /\ t \in Transaction /\ t.asset = a /\ t.new = FALSE
      /\ t.observation = resolution[w].observation
  BY <1>1 DEF Transaction
<1> HIDE DEF t
<1>4. Consistent(t)
  BY <1>1, <1>3 DEF Consistent, IsWeak
<1>5. \A v \in Resolver : resolution'[v] = IF v = w THEN t ELSE resolution[v]
  BY <1>2 DEF Identities
<1>7. resolution' \in [Resolver -> Transaction \cup {Idle}]
  BY <1>2, <1>3 DEF Identities
<1>8. \A v \in Resolver : (resolution[v] # Idle => Consistent(resolution[v]))'
  <2> SUFFICES ASSUME NEW v \in Resolver, resolution'[v] # Idle PROVE Consistent(resolution[v])'
    OBVIOUS
  <2>1. Consistent(resolution'[v])
    BY <1>4, <1>5 DEF Identities
  <2> QED
    BY <2>1 DEF Consistent, Exists, Holders, IsWeak
<1>9. \A v \in Resolver : Creating(v)' => v # w /\ Creating(v)
  BY <1>3, <1>5 DEF Creating
<1> QED
  BY <1>5, <1>7, <1>8, <1>9 DEF Identities, Exists

LEMMA StoreKnownKeeps ==
  ASSUME Identities, NEW w \in Resolver, StoreKnown(w) PROVE Identities'
<1>1. resolution[w] \in Transaction /\ Consistent(resolution[w]) /\ resolution[w].new = FALSE
  BY DEF StoreKnown, Identities, Consistent, Transaction
<1>2. UNCHANGED <<asset, identifiers, resolved>>
  BY DEF StoreKnown, readinessVars
<1> QED
  BY <1>1, <1>2, StoredKeeps DEF StoreKnown, Consistent, Transaction

LEMMA StoreTakenKeeps ==
  ASSUME Identities, NEW w \in Resolver, StoreTaken(w) PROVE Identities'
<1> DEFINE found == FindAsset(resolution[w].observation)
<1>1. UNCHANGED <<asset, identifiers, resolved>> /\ resolution[w] # Idle
  BY DEF StoreTaken, readinessVars
<1>2. CASE Cardinality(found) = 1 /\ TheOne(found) # Nothing
  <2>1. TheOne(found) \in Holders(Anchor(resolution[w].observation))
    BY <1>2, FoundHolds, TheOneFound
  <2>2. Stored(w, TheOne(found), FALSE)
    BY <1>2 DEF StoreTaken
  <2> QED
    BY <1>1, <1>2, <2>1, <2>2, StoredKeeps DEF Holders
<1>3. CASE Cardinality(found) = 1 /\ TheOne(found) = Nothing
  <2>1. found # {}
    BY <1>3, FS_EmptySet
  <2>2. TheOne(found) \in Asset
    BY <2>1, FoundHolds DEF TheOne, Holders
  <2> QED
    BY <1>3, <2>2, ReadinessAssumption
<1>4. CASE Cardinality(found) # 1
  BY <1>1, <1>4, ForgetKeeps DEF StoreTaken
<1> QED
  BY <1>2, <1>3, <1>4

LEMMA StoreNewKeeps ==
  ASSUME Identities, NEW w \in Resolver, StoreNew(w) PROVE Identities'
<1>1. PICK a \in Asset : ~Exists(a) /\ a \notin Reserved /\ Stored(w, a, TRUE)
  BY DEF StoreNew
<1> DEFINE t == [resolution[w] EXCEPT !.asset = a, !.stage = "stored", !.new = TRUE]
<1>2. resolution[w] \in Transaction /\ Consistent(resolution[w])
  BY DEF Identities, StoreNew
<1>3. resolution' = [resolution EXCEPT ![w] = t]
  BY <1>1, <1>2 DEF Stored, Identities
<1>4. /\ t \in Transaction /\ t.asset = a /\ t.new = TRUE /\ t.stage = "stored"
      /\ t.observation = resolution[w].observation
  BY <1>2 DEF Transaction
<1> HIDE DEF t
<1>5. /\ UNCHANGED <<asset, identifiers, resolved>> /\ ~Contended(w) /\ ~IsWeak(resolution[w])
      /\ Holders(Anchor(resolution[w].observation)) = {}
  BY DEF StoreNew, readinessVars
<1>6. a # Nothing
  BY ReadinessAssumption
<1>7. Consistent(t)
  BY <1>1, <1>2, <1>4, <1>5, <1>6 DEF Consistent, IsWeak
<1>8. \A v \in Resolver : resolution'[v] = IF v = w THEN t ELSE resolution[v]
  BY <1>3 DEF Identities
<1>9. resolution' \in [Resolver -> Transaction \cup {Idle}]
  BY <1>3, <1>4 DEF Identities
<1>10. \A v \in Resolver : (resolution[v] # Idle => Consistent(resolution[v]))'
  <2> SUFFICES ASSUME NEW v \in Resolver, resolution'[v] # Idle PROVE Consistent(resolution[v])'
    OBVIOUS
  <2>1. Consistent(resolution'[v])
    BY <1>7, <1>8 DEF Identities
  <2> QED
    BY <2>1, <1>5 DEF Consistent, Exists, Holders, IsWeak
<1>11. \A v \in Resolver : v # w /\ Creating(v) =>
         resolution[v].asset # a /\ Anchor(resolution[v].observation) # Anchor(t.observation)
  <2> SUFFICES ASSUME NEW v \in Resolver, v # w, Creating(v)
               PROVE  resolution[v].asset # a /\ Anchor(resolution[v].observation) # Anchor(t.observation)
    OBVIOUS
  <2>1. resolution[v] # Idle /\ resolution[v].new /\ Consistent(resolution[v])
    BY DEF Creating, Identities
  <2>2. resolution[v].stage = "stored"
    BY <2>1 DEF Consistent
  <2> QED
    BY <1>1, <1>4, <1>5, <2>1, <2>2 DEF Contended, Reserved
<1>12. \A u, v \in Resolver : u # v /\ Creating(u)' /\ Creating(v)' =>
         /\ resolution'[u].asset # resolution'[v].asset
         /\ Anchor(resolution'[u].observation) # Anchor(resolution'[v].observation)
  <2> SUFFICES ASSUME NEW u \in Resolver, NEW v \in Resolver, u # v, Creating(u)', Creating(v)'
               PROVE  /\ resolution'[u].asset # resolution'[v].asset
                      /\ Anchor(resolution'[u].observation) # Anchor(resolution'[v].observation)
    OBVIOUS
  <2>1. CASE u = w
    BY <1>4, <1>8, <1>11, <2>1 DEF Creating
  <2>2. CASE v = w
    BY <1>4, <1>8, <1>11, <2>2 DEF Creating
  <2>3. CASE u # w /\ v # w
    BY <1>8, <2>3 DEF Creating, Identities
  <2> QED
    BY <2>1, <2>2, <2>3
<1>13. /\ (\A i \in identifiers : i[1] \in Asset /\ Exists(i[1]) /\ i = <<i[1], i[2], i[3]>>)'
       /\ (\A i, j \in identifiers : i[2] \in StrongKinds /\ i[2] = j[2] /\ i[3] = j[3] => i[1] = j[1])'
       /\ (\A r \in resolved : r[1] \in StrongKinds /\ <<r[3], r[1], r[2]>> \in identifiers)'
  BY <1>5 DEF Identities, Exists
<1>14. (\A u, v \in Resolver : u # v /\ Creating(u) /\ Creating(v) =>
         /\ resolution[u].asset # resolution[v].asset
         /\ Anchor(resolution[u].observation) # Anchor(resolution[v].observation))'
  BY <1>12 DEF Anchor, Evidence, AnchorKind
<1> QED
  BY <1>9, <1>10, <1>13, <1>14 DEF Identities

(* What a commit leaves of the rows.                                       *)
LEMMA CommitRows ==
  ASSUME Rows, Identities, NEW w \in Resolver, CommitResolution(w)
  PROVE  Rows' /\ \A a \in Asset : Exists(a)' <=> Exists(a) \/ (resolution[w].new /\ a = resolution[w].asset)
<1> DEFINE t == resolution[w]
           row == [type |-> AssetType(t.observation), lifecycle |-> "ACTIVE",
                   state |-> "PROVISIONAL", authority |-> "none"]
<1>1. t \in Transaction /\ Consistent(t)
  BY DEF CommitResolution, Identities
<1>2. UNCHANGED <<target, audit, payload, claimant, running>> /\ binding' \in Asset \cup {Nothing}
  BY <1>1 DEF CommitResolution, claimVars, Rows, AssetTypeOK, Transaction
<1>3. audit' \in [Asset -> Seq(Event)]
  BY <1>2 DEF Rows, AssetTypeOK
<1>4. CASE t.new
  <2>1. t.asset \in Asset /\ ~Exists(t.asset)
    BY <1>1, <1>4 DEF Consistent
  <2>2. row \in AssetRow /\ row.authority = "none"
    BY DEF AssetRow, Authority, AssetType
  <2>3. asset' = [asset EXCEPT ![t.asset] = row]
    BY <1>4 DEF CommitResolution
  <2>4. \A d \in Destination : ~Active(t.asset, d)
    BY <2>1 DEF Rows, AssetTypeOK
  <2> HIDE DEF row
  <2>5. Rows'
    BY <1>2, <1>3, <2>1, <2>2, <2>3, <2>4, AssetRowChanges
  <2>6. \A a \in Asset : asset'[a] = IF a = t.asset THEN row ELSE asset[a]
    BY <2>3 DEF Rows, AssetTypeOK
  <2> QED
    BY <1>4, <2>2, <2>5, <2>6, RowsAssumption DEF Exists
<1>5. CASE ~t.new
  <2>1. asset' = asset
    BY <1>5 DEF CommitResolution
  <2> QED
    BY <1>2, <1>5, <2>1
    DEF Rows, AssetTypeOK, OneActiveTarget, ActiveTargetIsAuthorised, Exists, Active, Managed
<1> QED
  BY <1>4, <1>5

LEMMA CommitKeeps ==
  ASSUME Rows, Identities, NEW w \in Resolver, CommitResolution(w)
  PROVE  Identities'
<1> DEFINE t == resolution[w]
           o == t.observation
           stored == IF IsWeak(t) THEN {} ELSE {<<t.asset, i[1], i[2]>> : i \in Evidence(o)}
<1>1. t \in Transaction /\ Consistent(t) /\ t.stage = "stored" /\ HasAnchor(o) /\ t # Idle
  BY DEF CommitResolution, Identities, Consistent
<1>2. /\ identifiers' = identifiers \cup stored
      /\ resolved' = resolved \cup (IF IsWeak(t) THEN {} ELSE {<<Anchor(o)[1], Anchor(o)[2], t.asset>>})
      /\ resolution' = [resolution EXCEPT ![w] = Idle]
  BY DEF CommitResolution
<1>3. \A a \in Asset : Exists(a)' <=> Exists(a) \/ (t.new /\ a = t.asset)
  BY CommitRows
<1>4. \A v \in Resolver : resolution'[v] = IF v = w THEN Idle ELSE resolution[v]
  BY <1>2 DEF Identities
<1> HIDE DEF t, o, stored
(* The identity of this transaction, and that nobody else holds it.        *)
<1>5. ASSUME ~IsWeak(t)
      PROVE  /\ t.asset \in Asset
             /\ t.new \/ Exists(t.asset)
             /\ \A i \in identifiers : i[2] = Anchor(o)[1] /\ i[3] = Anchor(o)[2] => i[1] = t.asset
             /\ \A i \in Evidence(o) : i[1] \in StrongKinds => i = Anchor(o)
             /\ Anchor(o) \in Evidence(o) /\ Anchor(o)[1] \in StrongKinds
             /\ ~t.new => <<t.asset, Anchor(o)[1], Anchor(o)[2]>> \in identifiers
  <2>1. o.engine \notin WeakHostEngines
    BY <1>5 DEF IsWeak, o
  <2>2. Anchor(o) \in Evidence(o) /\ Anchor(o)[1] \in StrongKinds
    BY <1>1, <2>1, AnchorIsEvidence, AnchorIsStrong
  <2>3. \A i \in Evidence(o) : i[1] \in StrongKinds => i = Anchor(o)
    BY <1>1, <2>1, StrongEvidence
  <2>4. CASE t.new
    <3>1. t.asset \in Asset /\ Holders(Anchor(o)) = {}
      BY <1>1, <2>4 DEF Consistent, o
    <3>2. \A i \in identifiers : ~(i[2] = Anchor(o)[1] /\ i[3] = Anchor(o)[2])
      <4> SUFFICES ASSUME NEW i \in identifiers, i[2] = Anchor(o)[1], i[3] = Anchor(o)[2] PROVE FALSE
        OBVIOUS
      <4>1. i[1] \in Asset /\ i = <<i[1], i[2], i[3]>>
        BY DEF Identities
      <4>2. <<i[1], Anchor(o)[1], Anchor(o)[2]>> \in identifiers
        BY <4>1
      <4>3. i[1] \in Holders(Anchor(o))
        BY <4>1, <4>2 DEF Holders
      <4> QED
        BY <3>1, <4>3
    <3> QED
      BY <2>2, <2>3, <2>4, <3>1, <3>2
  <2>5. CASE ~t.new
    <3>1. t.asset \in Holders(Anchor(o))
      BY <1>1, <1>5, <2>5, ReadinessAssumption DEF Consistent, o
    <3>2. t.asset \in Asset /\ <<t.asset, Anchor(o)[1], Anchor(o)[2]>> \in identifiers
      BY <3>1 DEF Holders
    <3> DEFINE held == <<t.asset, Anchor(o)[1], Anchor(o)[2]>>
    <3>3. held \in identifiers /\ held[1] = t.asset /\ held[2] = Anchor(o)[1] /\ held[3] = Anchor(o)[2]
      BY <3>2
    <3> HIDE DEF held
    <3> QED
      BY <2>2, <2>3, <2>5, <3>2, <3>3 DEF Identities
  <2> QED
    BY <2>4, <2>5
<1>6. \A i \in stored : ~IsWeak(t) /\ i[1] = t.asset /\ i = <<i[1], i[2], i[3]>> /\ <<i[2], i[3]>> \in Evidence(o)
  <2> SUFFICES ASSUME NEW i \in stored
               PROVE  ~IsWeak(t) /\ i[1] = t.asset /\ i = <<i[1], i[2], i[3]>> /\ <<i[2], i[3]>> \in Evidence(o)
    OBVIOUS
  <2>1. ~IsWeak(t)
    BY DEF stored
  <2>2. PICK e \in Evidence(o) : i = <<t.asset, e[1], e[2]>>
    BY <2>1 DEF stored
  <2>3. <<e[1], e[2]>> = e
    BY EvidencePairs
  <2> QED
    BY <2>1, <2>2, <2>3
<1>7. \A i \in stored : i[2] \in StrongKinds => i[2] = Anchor(o)[1] /\ i[3] = Anchor(o)[2]
  <2> SUFFICES ASSUME NEW i \in stored, i[2] \in StrongKinds
               PROVE  i[2] = Anchor(o)[1] /\ i[3] = Anchor(o)[2]
    OBVIOUS
  <2> DEFINE e == <<i[2], i[3]>>
  <2>1. e \in Evidence(o) /\ e[1] = i[2] /\ e[2] = i[3] /\ ~IsWeak(t)
    BY <1>6
  <2> HIDE DEF e
  <2> QED
    BY <1>5, <2>1
<1>8. (\A i \in identifiers : i[1] \in Asset /\ Exists(i[1]) /\ i = <<i[1], i[2], i[3]>>)'
  <2> SUFFICES ASSUME NEW i \in identifiers'
               PROVE  i[1] \in Asset /\ Exists(i[1])' /\ i = <<i[1], i[2], i[3]>>
    OBVIOUS
  <2>1. CASE i \in identifiers
    BY <1>3, <2>1 DEF Identities
  <2>2. CASE i \in stored
    BY <1>3, <1>5, <1>6, <2>2
  <2> QED
    BY <1>2, <2>1, <2>2
<1>9. (\A i, j \in identifiers : i[2] \in StrongKinds /\ i[2] = j[2] /\ i[3] = j[3] => i[1] = j[1])'
  <2> SUFFICES ASSUME NEW i \in identifiers', NEW j \in identifiers', i[2] \in StrongKinds, i[2] = j[2], i[3] = j[3]
               PROVE  i[1] = j[1]
    OBVIOUS
  <2>1. CASE i \in identifiers /\ j \in identifiers
    BY <2>1 DEF Identities
  <2>2. CASE i \in stored /\ j \in identifiers
    <3>1. ~IsWeak(t) /\ i[1] = t.asset /\ j[2] = Anchor(o)[1] /\ j[3] = Anchor(o)[2]
      BY <1>6, <1>7, <2>2
    <3> QED
      BY <1>5, <2>2, <3>1
  <2>3. CASE i \in identifiers /\ j \in stored
    <3>1. ~IsWeak(t) /\ j[1] = t.asset /\ i[2] = Anchor(o)[1] /\ i[3] = Anchor(o)[2]
      BY <1>6, <1>7, <2>3
    <3> QED
      BY <1>5, <2>3, <3>1
  <2>4. CASE i \in stored /\ j \in stored
    BY <1>6, <2>4
  <2> QED
    BY <1>2, <2>1, <2>2, <2>3, <2>4
<1>10. (\A r \in resolved : r[1] \in StrongKinds /\ <<r[3], r[1], r[2]>> \in identifiers)'
  <2> SUFFICES ASSUME NEW r \in resolved'
               PROVE  r[1] \in StrongKinds /\ <<r[3], r[1], r[2]>> \in identifiers'
    OBVIOUS
  <2>1. CASE r \in resolved
    BY <1>2, <2>1 DEF Identities
  <2>2. CASE ~IsWeak(t) /\ r = <<Anchor(o)[1], Anchor(o)[2], t.asset>>
    <3>1. <<t.asset, Anchor(o)[1], Anchor(o)[2]>> \in stored
      BY <1>5, <2>2 DEF stored
    <3> QED
      BY <1>2, <1>5, <2>2, <3>1
  <2> QED
    BY <1>2, <2>1, <2>2
<1>11. \A v \in Resolver : v # w /\ Creating(v) => ~IsWeak(resolution[v]) /\ HasAnchor(resolution[v].observation)
                                                   /\ Anchor(resolution[v].observation)[1] \in StrongKinds
  <2> SUFFICES ASSUME NEW v \in Resolver, Creating(v)
               PROVE  ~IsWeak(resolution[v]) /\ HasAnchor(resolution[v].observation)
                      /\ Anchor(resolution[v].observation)[1] \in StrongKinds
    OBVIOUS
  <2>1. ~IsWeak(resolution[v]) /\ HasAnchor(resolution[v].observation)
    BY DEF Creating, Identities, Consistent
  <2> QED
    BY <2>1, AnchorIsEvidence, AnchorIsStrong DEF IsWeak
(* No other transaction is about to create this identity.                  *)
<1>12. \A v \in Resolver : v # w /\ Creating(v) =>
         Holders(Anchor(resolution[v].observation))' = {} /\ ~Exists(resolution[v].asset)'
  <2> SUFFICES ASSUME NEW v \in Resolver, v # w, Creating(v)
               PROVE  Holders(Anchor(resolution[v].observation))' = {} /\ ~Exists(resolution[v].asset)'
    OBVIOUS
  <2> DEFINE u == resolution[v]
             anchor == Anchor(u.observation)
  <2>1. u # Idle /\ u.new /\ u.asset \in Asset /\ ~Exists(u.asset) /\ Holders(anchor) = {}
    BY DEF Creating, Identities, Consistent
  <2>2. anchor[1] \in StrongKinds /\ resolution'[v] = u
    BY <1>4, <1>11
  <2>3. t.new => u.asset # t.asset /\ anchor # Anchor(o)
    <3> SUFFICES ASSUME t.new PROVE u.asset # t.asset /\ anchor # Anchor(o)
      OBVIOUS
    <3>1. Creating(w)
      BY <1>1 DEF Creating, t
    <3>2. /\ resolution[v].asset # resolution[w].asset
          /\ Anchor(resolution[v].observation) # Anchor(resolution[w].observation)
      BY <3>1 DEF Identities
    <3> QED
      BY <3>2 DEF t, o
  <2> HIDE DEF u, anchor
  <2>4. ~Exists(u.asset)'
    BY <1>3, <2>1, <2>2, <2>3 DEF u
  <2>5. \A a \in Asset : <<a, anchor[1], anchor[2]>> \notin stored
    <3> SUFFICES ASSUME NEW a \in Asset, <<a, anchor[1], anchor[2]>> \in stored PROVE FALSE
      OBVIOUS
    <3> DEFINE i == <<a, anchor[1], anchor[2]>>
    <3>1. i \in stored /\ i[2] = anchor[1] /\ i[3] = anchor[2]
      OBVIOUS
    <3> HIDE DEF i
    <3>2. ~IsWeak(t) /\ anchor[1] = Anchor(o)[1] /\ anchor[2] = Anchor(o)[2]
      BY <1>6, <1>7, <2>2, <3>1
    <3>3. CASE t.new
      <4>1. anchor \in Evidence(u.observation) /\ Anchor(o) \in Evidence(o)
        BY <1>1, <1>11, AnchorIsEvidence DEF u, anchor
      <4>2. anchor = <<anchor[1], anchor[2]>> /\ Anchor(o) = <<Anchor(o)[1], Anchor(o)[2]>>
        BY <4>1, EvidencePairs
      <4> QED
        BY <2>3, <3>2, <3>3, <4>2
    <3>4. CASE ~t.new
      <4>1. t.asset \in Asset /\ <<t.asset, anchor[1], anchor[2]>> \in identifiers
        BY <1>5, <3>2, <3>4
      <4> QED
        BY <2>1, <4>1 DEF Holders
    <3> QED
      BY <3>3, <3>4
  <2>6. \A a \in Asset : <<a, anchor[1], anchor[2]>> \notin identifiers'
    BY <1>2, <2>1, <2>5 DEF Holders
  <2> QED
    BY <2>2, <2>4, <2>6 DEF Holders, u, anchor
<1>13. \A v \in Resolver : (resolution[v] # Idle => Consistent(resolution[v]))'
  <2> SUFFICES ASSUME NEW v \in Resolver, resolution'[v] # Idle PROVE Consistent(resolution[v])'
    OBVIOUS
  <2>1. v # w /\ resolution'[v] = resolution[v] /\ Consistent(resolution[v])
    BY <1>4 DEF Identities
  <2>2. \A i : Holders(i) \subseteq Holders(i)'
    BY <1>2 DEF Holders
  <2>3. CASE resolution[v].new
    BY <1>12, <2>1, <2>2, <2>3 DEF Consistent, IsWeak, Creating
  <2>4. CASE ~resolution[v].new
    BY <2>1, <2>2, <2>4 DEF Consistent, IsWeak
  <2> QED
    BY <2>3, <2>4
<1>14. resolution' \in [Resolver -> Transaction \cup {Idle}]
  BY <1>2 DEF Identities
<1>15. \A v \in Resolver : Creating(v)' => v # w /\ Creating(v)
  BY <1>4 DEF Creating
<1> QED
  BY <1>4, <1>8, <1>9, <1>10, <1>13, <1>14, <1>15 DEF Identities

-----------------------------------------------------------------------------
(* The audit *)

Management(a) == Latest(a, {"ASSET_MANAGED", "ASSET_MANAGEMENT_REVOKED"})

Execution(a) == Latest(a, {"EXECUTION_TARGET_AUTHORISED", "EXECUTION_TARGET_REVOKED",
                           "EXECUTION_TARGET_REPLACED"})

Authorised(a) == {d \in Destination : Active(a, d) /\ target[a][d].authority = "current"}

(* The history of one asset explains its rows.                             *)
Explained(a) ==
  /\ Exists(a) /\ asset[a].authority = "current" <=> Management(a).type = "ASSET_MANAGED"
  /\ Authorised(a) = IF Execution(a).type \in {"none", "EXECUTION_TARGET_REVOKED"} THEN {}
                     ELSE {Execution(a).destination}

LEMMA AuditByAsset == AuditExplains <=> \A a \in Asset : Explained(a)
  BY DEF AuditExplains, Explained, Management, Execution, Authorised

(* Of the events of an asset, some is the last.                            *)
LEMMA LastOfSome ==
  ASSUME NEW k \in Nat, NEW S, S \subseteq 1..k, S # {}
  PROVE  \E n \in S : \A m \in S : m <= n
<1> DEFINE T == {k - n : n \in S}
<1>1. \A n \in S : n \in 1..k /\ k - n \in Nat
  OBVIOUS
<1>2. T \subseteq Nat /\ T # {}
  BY <1>1
<1>3. PICK x \in T : \A y \in T : ~(<<y, x>> \in OpToRel(<, Nat))
  <2> HIDE DEF T
  <2> QED
    BY <1>2, NatLessThanWellFounded, WFMin
<1>4. PICK n \in S : x = k - n
  BY <1>3
<1>5. ASSUME NEW m \in S, ~(m <= n) PROVE FALSE
  <2>1. k - m \in T /\ k - m \in Nat /\ x \in Nat /\ k - m < x
    BY <1>1, <1>4, <1>5
  <2>2. <<k - m, x>> \in OpToRel(<, Nat)
    BY <2>1 DEF OpToRel
  <2> QED
    BY <1>3, <2>1, <2>2
<1> QED
  BY <1>5

(* The last event of a history that is about some matter.                  *)
LastAbout(s, types) ==
  LET about == {n \in 1..Len(s) : s[n].type \in types}
  IN  IF about = {} THEN [type |-> "none", destination |-> Nothing]
      ELSE s[CHOOSE n \in about : \A m \in about : m <= n]

LEMMA LastAfterAppend ==
  ASSUME NEW s \in Seq(Event), NEW event \in Event, NEW types
  PROVE  LastAbout(Append(s, event), types) = IF event.type \in types THEN event ELSE LastAbout(s, types)
<1> DEFINE t == Append(s, event)
           about == {n \in 1..Len(s) : s[n].type \in types}
           after == {n \in 1..Len(t) : t[n].type \in types}
           last(S) == CHOOSE n \in S : \A m \in S : m <= n
<1>1. /\ Len(s) \in Nat /\ Len(t) = Len(s) + 1 /\ t[Len(s) + 1] = event
      /\ \A n \in 1..Len(s) : t[n] = s[n]
  OBVIOUS
<1>2. LastAbout(s, types) = IF about = {} THEN [type |-> "none", destination |-> Nothing] ELSE s[last(about)]
  BY DEF LastAbout
<1>3. LastAbout(t, types) = IF after = {} THEN [type |-> "none", destination |-> Nothing] ELSE t[last(after)]
  BY DEF LastAbout
<1>4. \A S : (\E n \in S : \A m \in S : m <= n) => last(S) \in S /\ \A m \in S : m <= last(S)
  OBVIOUS
<1> HIDE DEF t, last
<1>5. CASE event.type \in types
  <2>1. Len(s) + 1 \in after /\ \A m \in after : m <= Len(s) + 1
    BY <1>1, <1>5
  <2>2. after \subseteq Nat
    BY <1>1
  <2> HIDE DEF after
  <2>3. last(after) \in after /\ Len(s) + 1 <= last(after)
    BY <1>4, <2>1
  <2>4. last(after) = Len(s) + 1
    BY <1>1, <2>1, <2>2, <2>3
  <2> QED
    BY <1>1, <1>3, <1>5, <2>1, <2>4 DEF t
<1>6. CASE event.type \notin types
  <2>1. after = about /\ about \subseteq 1..Len(s)
    BY <1>1, <1>6
  <2> HIDE DEF after, about
  <2>2. CASE about = {}
    BY <1>2, <1>3, <1>6, <2>1, <2>2 DEF t
  <2>3. CASE about # {}
    <3>1. \E n \in about : \A m \in about : m <= n
      BY <1>1, <2>1, <2>3, LastOfSome
    <3>2. last(about) \in 1..Len(s)
      BY <1>4, <2>1, <3>1
    <3> QED
      BY <1>1, <1>2, <1>3, <1>6, <2>1, <2>3, <3>2 DEF t
  <2> QED
    BY <2>2, <2>3
<1> QED
  BY <1>5, <1>6

(* The event that is recorded is the last about its matter, and leaves the *)
(* others as they are.                                                     *)
LEMMA LatestIsRecorded ==
  ASSUME AssetTypeOK, NEW a \in Asset, NEW event \in Event, NEW types,
         audit' = [audit EXCEPT ![a] = Append(@, event)]
  PROVE  Latest(a, types)' = IF event.type \in types THEN event ELSE Latest(a, types)
<1>1. \A b : Latest(b, types) = LastAbout(audit[b], types)
  BY DEF Latest, LastAbout
<1>2. Latest(a, types)' = LastAbout(audit'[a], types)
  BY DEF Latest, LastAbout
<1>3. audit[a] \in Seq(Event) /\ audit'[a] = Append(audit[a], event)
  BY DEF AssetTypeOK
<1> QED
  BY <1>1, <1>2, <1>3, LastAfterAppend

(* What is not written about is as before.                                 *)
LEMMA OthersExplained ==
  ASSUME NEW b \in Asset, Explained(b), audit'[b] = audit[b], target'[b] = target[b],
         Exists(b)' /\ asset'[b].authority = "current" <=> Exists(b) /\ asset[b].authority = "current"
  PROVE  Explained(b)'
<1>1. Management(b)' = Management(b) /\ Execution(b)' = Execution(b)
  BY DEF Management, Execution, Latest
<1>2. Authorised(b)' = Authorised(b)
  BY DEF Authorised, Active
<1> QED
  BY <1>1, <1>2 DEF Explained

(* An operation on the authorisation of the asset.                         *)
LEMMA ManagementExplained ==
  ASSUME Rows, NEW a \in Asset, NEW state \in {"MANAGED", "UNMANAGED"}, NEW authority \in Authority,
         NEW type \in {"ASSET_MANAGED", "ASSET_MANAGEMENT_REVOKED"},
         authority = "current" <=> type = "ASSET_MANAGED",
         Exists(a), PutAsset(a, state, authority), Record(a, type, Nothing), target' = target,
         \A b \in Asset : Explained(b)
  PROVE  \A b \in Asset : Explained(b)'
<1> DEFINE event == [type |-> type, destination |-> Nothing]
           row == [asset[a] EXCEPT !.state = state, !.authority = authority]
<1>1. event \in Event /\ event.type = type
  BY DEF Event
<1>2. audit' = [audit EXCEPT ![a] = Append(@, event)]
  BY DEF Record
<1>3. row \in AssetRow /\ row.authority = authority
  BY DEF Exists, Rows, AssetTypeOK, AssetRow
<1>4. asset' = [asset EXCEPT ![a] = row]
  BY DEF PutAsset
<1> HIDE DEF event, row
<1>5. \A b \in Asset : b # a => asset'[b] = asset[b] /\ audit'[b] = audit[b]
  BY <1>2, <1>4 DEF Rows, AssetTypeOK
<1>6. Exists(a)' /\ asset'[a].authority = authority
  BY <1>3, <1>4, RowsAssumption DEF Exists, Rows, AssetTypeOK
<1>7. Management(a)' = event /\ Execution(a)' = Execution(a)
  BY <1>1, <1>2, LatestIsRecorded DEF Management, Execution, Rows
<1>8. Authorised(a)' = Authorised(a)
  BY DEF Authorised, Active
<1>9. Explained(a)'
  BY <1>1, <1>6, <1>7, <1>8 DEF Explained
<1> QED
  BY <1>5, <1>9, OthersExplained DEF Exists

(* An operation on the targets of an asset.                                *)
LEMMA ExecutionExplained ==
  ASSUME Rows, NEW a \in Asset, NEW d \in Destination, NEW rows \in [Destination -> TargetRow \cup {NoRow}],
         NEW type \in {"EXECUTION_TARGET_AUTHORISED", "EXECUTION_TARGET_REVOKED", "EXECUTION_TARGET_REPLACED"},
         \A e \in Destination : (rows[e] # NoRow /\ rows[e].active /\ rows[e].authority = "current"
                                  <=> e = d /\ type # "EXECUTION_TARGET_REVOKED"),
         target' = [target EXCEPT ![a] = rows], Record(a, type, d), asset' = asset,
         \A b \in Asset : Explained(b)
  PROVE  \A b \in Asset : Explained(b)'
<1> DEFINE event == [type |-> type, destination |-> d]
<1>1. event \in Event /\ event.type = type /\ event.destination = d
  BY DEF Event
<1>2. audit' = [audit EXCEPT ![a] = Append(@, event)]
  BY DEF Record
<1> HIDE DEF event
<1>3. \A b \in Asset : b # a => target'[b] = target[b] /\ audit'[b] = audit[b]
  BY <1>2 DEF Rows, AssetTypeOK
<1>4. Management(a)' = Management(a) /\ Execution(a)' = event
  BY <1>1, <1>2, LatestIsRecorded DEF Management, Execution, Rows
<1>5. target'[a] = rows
  BY DEF Rows, AssetTypeOK
<1>6. Authorised(a)' = IF type = "EXECUTION_TARGET_REVOKED" THEN {} ELSE {d}
  BY <1>5 DEF Authorised, Active
<1>7. Explained(a)'
  BY <1>1, <1>4, <1>6 DEF Explained, Exists
<1> QED
  BY <1>3, <1>7, OthersExplained DEF Exists

LEMMA AdministrationExplained ==
  ASSUME Rows, AdministrativeNext, \A b \in Asset : Explained(b)
  PROVE  \A b \in Asset : Explained(b)'
<1>1. ASSUME NEW a \in Asset, AuthoriseManagement(a) PROVE \A b \in Asset : Explained(b)'
  <2>1. /\ Exists(a) /\ PutAsset(a, "MANAGED", "current") /\ Record(a, "ASSET_MANAGED", Nothing)
        /\ target' = target
    BY <1>1 DEF AuthoriseManagement
  <2> QED
    BY <2>1, ManagementExplained DEF Authority
<1>2. ASSUME NEW a \in Asset, RevokeManagement(a) PROVE \A b \in Asset : Explained(b)'
  <2>1. /\ Exists(a) /\ PutAsset(a, "UNMANAGED", "revoked") /\ Record(a, "ASSET_MANAGEMENT_REVOKED", Nothing)
        /\ target' = target
    BY <1>2 DEF RevokeManagement
  <2> QED
    BY <2>1, ManagementExplained DEF Authority
<1>3. ASSUME NEW a \in Asset, NEW d \in Destination, AuthoriseTarget(a, d)
      PROVE  \A b \in Asset : Explained(b)'
  <2> DEFINE row == [active |-> TRUE, authority |-> "current"]
             rows == [target[a] EXCEPT ![d] = row]
  <2>1. ActiveTargets(a) = {} /\ target' = [target EXCEPT ![a][d] = row]
    BY <1>3 DEF AuthoriseTarget
  <2>2. target[a] \in [Destination -> TargetRow \cup {NoRow}] /\ row \in TargetRow
    BY DEF Rows, AssetTypeOK, TargetRow, Authority
  <2>3. target' = [target EXCEPT ![a] = rows]
    BY <2>1, <2>2 DEF Rows, AssetTypeOK
  <2>4. \A e \in Destination : rows[e] = IF e = d THEN row ELSE target[a][e]
    BY <2>2
  <2>5. rows \in [Destination -> TargetRow \cup {NoRow}]
    BY <2>2
  <2> HIDE DEF rows
  <2>6. row # NoRow
    BY <2>2, RowsAssumption
  <2>7. \A e \in Destination : (rows[e] # NoRow /\ rows[e].active /\ rows[e].authority = "current"
                                <=> e = d /\ "EXECUTION_TARGET_AUTHORISED" # "EXECUTION_TARGET_REVOKED")
    BY <2>1, <2>4, <2>6 DEF ActiveTargets, Active
  <2>8. asset' = asset /\ Record(a, "EXECUTION_TARGET_AUTHORISED", d)
    BY <1>3 DEF AuthoriseTarget
  <2> QED
    BY <2>3, <2>5, <2>7, <2>8, ExecutionExplained
<1>4. ASSUME NEW a \in Asset, RevokeTarget(a) PROVE \A b \in Asset : Explained(b)'
  <2> DEFINE row == [active |-> FALSE, authority |-> "revoked"]
  <2>1. PICK d \in Destination : /\ ActiveTargets(a) = {d} /\ target' = [target EXCEPT ![a][d] = row]
                                 /\ Record(a, "EXECUTION_TARGET_REVOKED", d)
    BY <1>4 DEF RevokeTarget
  <2> DEFINE rows == [target[a] EXCEPT ![d] = row]
  <2>2. target[a] \in [Destination -> TargetRow \cup {NoRow}] /\ row \in TargetRow
    BY DEF Rows, AssetTypeOK, TargetRow, Authority
  <2>3. target' = [target EXCEPT ![a] = rows]
    BY <2>1, <2>2 DEF Rows, AssetTypeOK
  <2>4. \A e \in Destination : rows[e] = IF e = d THEN row ELSE target[a][e]
    BY <2>2
  <2>5. rows \in [Destination -> TargetRow \cup {NoRow}]
    BY <2>2
  <2> HIDE DEF rows
  <2>6. \A e \in Destination : ~(rows[e] # NoRow /\ rows[e].active /\ rows[e].authority = "current")
    BY <2>1, <2>4 DEF ActiveTargets, Active
  <2>7. asset' = asset
    BY <1>4 DEF RevokeTarget
  <2> QED
    BY <2>1, <2>3, <2>5, <2>6, <2>7, ExecutionExplained
<1>5. ASSUME NEW a \in Asset, NEW d \in Destination, ReplaceTarget(a, d)
      PROVE  \A b \in Asset : Explained(b)'
  <2> DEFINE new == [active |-> TRUE, authority |-> "current"]
             old == [active |-> FALSE, authority |-> "revoked"]
  <2>1. PICK p \in Destination \ {d} :
          /\ ActiveTargets(a) = {p}
          /\ target' = [target EXCEPT ![a] = [@ EXCEPT ![p] = old, ![d] = new]]
    BY <1>5 DEF ReplaceTarget
  <2> DEFINE rows == [target[a] EXCEPT ![p] = old, ![d] = new]
  <2>2. /\ target[a] \in [Destination -> TargetRow \cup {NoRow}]
        /\ new \in TargetRow /\ old \in TargetRow
    BY DEF Rows, AssetTypeOK, TargetRow, Authority
  <2>3. target' = [target EXCEPT ![a] = rows]
    BY <2>1
  <2>4. \A e \in Destination : rows[e] = IF e = d THEN new ELSE IF e = p THEN old ELSE target[a][e]
    BY <2>2
  <2>5. rows \in [Destination -> TargetRow \cup {NoRow}]
    BY <2>2
  <2> HIDE DEF rows
  <2>6. new # NoRow
    BY <2>2, RowsAssumption
  <2>7. \A e \in Destination : (rows[e] # NoRow /\ rows[e].active /\ rows[e].authority = "current"
                                <=> e = d /\ "EXECUTION_TARGET_REPLACED" # "EXECUTION_TARGET_REVOKED")
    BY <2>1, <2>4, <2>6 DEF ActiveTargets, Active
  <2>8. asset' = asset /\ Record(a, "EXECUTION_TARGET_REPLACED", d)
    BY <1>5 DEF ReplaceTarget
  <2> QED
    BY <2>3, <2>5, <2>7, <2>8, ExecutionExplained
<1>6. ASSUME NEW a \in Asset, NEW lifecycle \in {"ACTIVE", "RETIRED"}, SetLifecycle(a, lifecycle)
      PROVE  \A b \in Asset : Explained(b)'
  <2>1. asset[a] \in AssetRow /\ UNCHANGED <<target, audit>>
    BY <1>6 DEF SetLifecycle, Exists, Rows, AssetTypeOK
  <2>2. \A b \in Asset : asset'[b].authority = asset[b].authority
    BY <1>6, <2>1 DEF SetLifecycle, Rows, AssetTypeOK, AssetRow
  <2>3. \A b \in Asset : Exists(b)' <=> Exists(b)
    BY AdministrationCreatesNothing
  <2> QED
    BY <2>1, <2>2, <2>3, OthersExplained
<1> QED
  BY <1>1, <1>2, <1>3, <1>4, <1>5, <1>6 DEF AdministrativeNext

(* A new asset has no authorisation, and no history yet.                   *)
LEMMA CommitExplained ==
  ASSUME Rows, Identities, NEW w \in Resolver, CommitResolution(w), \A b \in Asset : Explained(b)
  PROVE  \A b \in Asset : Explained(b)'
<1> DEFINE t == resolution[w]
           row == [type |-> AssetType(t.observation), lifecycle |-> "ACTIVE",
                   state |-> "PROVISIONAL", authority |-> "none"]
<1>1. t \in Transaction /\ Consistent(t) /\ UNCHANGED <<target, audit>>
  BY DEF CommitResolution, Identities
<1>2. asset' = IF t.new THEN [asset EXCEPT ![t.asset] = row] ELSE asset
  BY DEF CommitResolution
<1>3. row.authority = "none"
  OBVIOUS
<1>4. t.new => t.asset \in Asset /\ ~Exists(t.asset)
  BY <1>1 DEF Consistent
<1> HIDE DEF t, row
<1>5. \A b \in Asset : asset'[b] = IF t.new /\ b = t.asset THEN row ELSE asset[b]
  BY <1>2 DEF Rows, AssetTypeOK
<1>6. \A b \in Asset : Exists(b)' /\ asset'[b].authority = "current" <=> Exists(b) /\ asset[b].authority = "current"
  BY <1>3, <1>4, <1>5 DEF Exists
<1> QED
  BY <1>1, <1>6, OthersExplained

LEMMA ExplainedStep ==
  Rows /\ Identities /\ AuditExplains /\ [RegistryNext]_registryVars => AuditExplains'
<1> SUFFICES ASSUME Rows, Identities, \A b \in Asset : Explained(b), [RegistryNext]_registryVars
             PROVE  \A b \in Asset : Explained(b)'
  BY AuditByAsset DEF AuditExplains, Explained, Management, Execution, Authorised
<1>1. ASSUME UNCHANGED <<asset, target, audit>> PROVE \A b \in Asset : Explained(b)'
  BY <1>1, OthersExplained DEF Exists
<1>2. CASE AdministrativeNext
  BY <1>2, AdministrationExplained
<1>3. CASE GateNext \/ UNCHANGED registryVars
  BY <1>1, <1>3 DEF GateNext, ClaimFinding, StartWork, EndWork, readinessRows, registryVars, readinessVars
<1>4. CASE \E w \in Resolver, o \in Observation : Begin(w, o)
  BY <1>1, <1>4 DEF Begin, readinessVars
<1>5. CASE \E w \in Resolver : StoreKnown(w) \/ StoreNew(w) \/ StoreTaken(w) \/ AbortResolution(w)
  BY <1>1, <1>5 DEF StoreKnown, StoreNew, StoreTaken, AbortResolution, readinessVars
<1>6. CASE \E w \in Resolver : CommitResolution(w)
  BY <1>6, CommitExplained
<1> QED
  BY <1>2, <1>3, <1>4, <1>5, <1>6 DEF RegistryNext

LEMMA ExplainedInitially == ReadinessInit => AuditExplains
<1> SUFFICES ASSUME ReadinessInit, NEW a \in Asset PROVE Explained(a)
  BY AuditByAsset
<1>1. \A types : Latest(a, types) = [type |-> "none", destination |-> Nothing]
  BY DEF Latest, ReadinessInit
<1>2. Management(a).type = "none" /\ Execution(a).type = "none"
  BY <1>1 DEF Management, Execution
<1>3. Exists(a) => asset[a].authority = "none"
  BY DEF ReadinessInit, LegacyRow, Exists
<1>4. \A d \in Destination : Active(a, d) => target[a][d].authority = "none"
  BY DEF ReadinessInit, LegacyTarget, Active
<1> QED
  BY <1>2, <1>3, <1>4 DEF Explained, Authorised

-----------------------------------------------------------------------------
(* Theorems *)

LEMMA RegistryInitially == RegistryInit => Rows /\ Identities
<1> SUFFICES ASSUME RegistryInit PROVE Rows /\ Identities
  OBVIOUS
<1>1. Rows
  BY RowsInitially DEF RegistryInit
<1>2. resolved = {} /\ resolution = [w \in Resolver |-> Idle]
  BY DEF RegistryInit
<1>5. PICK seen \in [{a \in Asset : Exists(a)} -> {o \in Observation : HasAnchor(o) /\ AnchorKind(o) = "WAZUH_AGENT_ID"}] :
        /\ \A a, b \in DOMAIN seen : Anchor(seen[a]) = Anchor(seen[b]) => a = b
        /\ identifiers = LegacyIdentifiers(seen)
  BY DEF RegistryInit
<1>6. ASSUME NEW i \in identifiers
      PROVE  \E a \in Asset : /\ Exists(a) /\ i = <<a, i[2], i[3]>> /\ i[1] = a /\ a \in DOMAIN seen
                              /\ i[2] \in StrongKinds => <<i[2], i[3]>> = Anchor(seen[a])
  <2>1. PICK a \in Asset : Exists(a) /\ a \in DOMAIN seen /\ i \in {<<a, e[1], e[2]>> : e \in Evidence(seen[a])}
    BY <1>5 DEF LegacyIdentifiers
  <2>2. PICK e \in Evidence(seen[a]) : i = <<a, e[1], e[2]>>
    BY <2>1
  <2>3. HasAnchor(seen[a]) /\ AnchorKind(seen[a]) = "WAZUH_AGENT_ID"
    BY <2>1, <1>5
  <2>4. seen[a].engine \notin WeakHostEngines
    BY <2>3 DEF AnchorKind, WeakHostEngines
  <2>5. e = <<e[1], e[2]>>
    BY EvidencePairs
  <2>6. e[1] \in StrongKinds => e = Anchor(seen[a])
    BY <2>3, <2>4, StrongEvidence
  <2> QED
    BY <2>1, <2>2, <2>5, <2>6
<1>7. \A i, j \in identifiers : i[2] \in StrongKinds /\ i[2] = j[2] /\ i[3] = j[3] => i[1] = j[1]
  BY <1>5, <1>6
<1>3. \A w \in Resolver : resolution[w] = Idle
  BY <1>2
<1>4. resolution \in [Resolver -> Transaction \cup {Idle}]
  BY <1>2
<1> QED
  BY <1>1, <1>2, <1>3, <1>4, <1>6, <1>7 DEF Identities, Creating

LEMMA RegistryStep == Rows /\ Identities /\ [RegistryNext]_registryVars => Rows' /\ Identities'
<1> SUFFICES ASSUME Rows, Identities, [RegistryNext]_registryVars PROVE Rows' /\ Identities'
  OBVIOUS
<1>1. CASE AdministrativeNext /\ UNCHANGED resolutionVars
  BY <1>1, AdministrationKeeps, AdministrationCreatesNothing, IdentitiesOnAdministration
<1>2. CASE GateNext /\ UNCHANGED resolutionVars
  BY <1>2, GatesKeep, AdministrationCreatesNothing, IdentitiesOnAdministration
<1>3. ASSUME UNCHANGED readinessVars PROVE Rows'
  BY <1>3 DEF readinessVars, Rows, AssetTypeOK, OneActiveTarget, ActiveTargetIsAuthorised, Exists, Active, Managed
<1>4. ASSUME NEW w \in Resolver, NEW o \in Observation, Begin(w, o) PROVE Rows' /\ Identities'
  <2>1. UNCHANGED readinessVars
    BY <1>4 DEF Begin
  <2> QED
    BY <1>3, <1>4, <2>1, BeginKeeps
<1>5. ASSUME NEW w \in Resolver, StoreKnown(w) \/ StoreNew(w) \/ StoreTaken(w) PROVE Rows' /\ Identities'
  <2>1. UNCHANGED readinessVars
    BY <1>5 DEF StoreKnown, StoreNew, StoreTaken
  <2> QED
    BY <1>3, <1>5, <2>1, StoreKnownKeeps, StoreNewKeeps, StoreTakenKeeps
<1>6. ASSUME NEW w \in Resolver, CommitResolution(w) PROVE Rows' /\ Identities'
  BY <1>6, CommitRows, CommitKeeps
<1>7. ASSUME NEW w \in Resolver, AbortResolution(w) PROVE Rows' /\ Identities'
  <2>1. UNCHANGED readinessVars /\ asset' = asset
    BY <1>7 DEF AbortResolution, readinessVars
  <2> QED
    BY <1>3, <1>7, <2>1, ForgetKeeps DEF AbortResolution
<1>8. CASE UNCHANGED registryVars
  <2>1. UNCHANGED readinessVars /\ UNCHANGED resolutionVars /\ asset' = asset
    BY <1>8 DEF registryVars, readinessVars
  <2> QED
    BY <1>3, <2>1, IdentitiesOnAdministration DEF Exists
<1> QED
  BY <1>1, <1>2, <1>4, <1>5, <1>6, <1>7, <1>8 DEF RegistryNext

(* The inductive invariant of the registry.                                *)
THEOREM RegistryHolds == RegistrySpec => [](Rows /\ Identities)
  BY RegistryInitially, RegistryStep, PTL DEF RegistrySpec

(* The rows have their types, and what is revoked is neither MANAGED nor   *)
(* active.                                                                 *)
THEOREM AssetsTypeCorrect == RegistrySpec => []AssetTypeOK
<1>1. Rows /\ Identities => AssetTypeOK
  BY DEF Rows
<1> QED
  BY <1>1, RegistryHolds, PTL

(* An asset has one active target at most.                                 *)
THEOREM OneTarget == RegistrySpec => []OneActiveTarget
<1>1. Rows /\ Identities => OneActiveTarget
  BY DEF Rows
<1> QED
  BY <1>1, RegistryHolds, PTL

(* An authorised target that is active belongs to an asset under a current *)
(* authorisation, though no trigger of assets looks at targets.            *)
THEOREM TargetsAuthorised == RegistrySpec => []ActiveTargetIsAuthorised
<1>1. Rows /\ Identities => ActiveTargetIsAuthorised
  BY DEF Rows
<1> QED
  BY <1>1, RegistryHolds, PTL

(* One identity is one asset for ever.                                     *)
THEOREM IdentityIsStable == RegistrySpec => []StableIdentity
<1>1. Rows /\ Identities => StableIdentity
  <2> SUFFICES ASSUME Identities, NEW x \in resolved, NEW y \in resolved, x[1] = y[1], x[2] = y[2]
               PROVE  x[3] = y[3]
    BY DEF StableIdentity
  <2> DEFINE i == <<x[3], x[1], x[2]>>
             j == <<y[3], y[1], y[2]>>
  <2>1. i \in identifiers /\ j \in identifiers /\ x[1] \in StrongKinds
    BY DEF Identities
  <2>2. /\ i[1] = x[3] /\ i[2] = x[1] /\ i[3] = x[2]
        /\ j[1] = y[3] /\ j[2] = y[1] /\ j[3] = y[2]
    OBVIOUS
  <2> HIDE DEF i, j
  <2> QED
    BY <2>1, <2>2 DEF Identities
<1> QED
  BY <1>1, RegistryHolds, PTL

(* The audit history explains what is authorised, for any number of assets *)
(* and any history.                                                        *)
THEOREM AuditTellsAuthority == RegistrySpec => []AuditExplains
<1>1. RegistryInit => AuditExplains
  BY ExplainedInitially DEF RegistryInit
<1> QED
  BY <1>1, ExplainedStep, RegistryHolds, PTL DEF RegistrySpec

(* An asset and a target that have been under an authorisation once; so    *)
(* were those of a claim.                                                  *)
AuthorisedOnce(a, d) ==
  /\ Exists(a) /\ asset[a].authority # "none"
  /\ target[a][d] # NoRow /\ target[a][d].authority # "none"

ClaimIsExplicit == payload # Nothing => AuthorisedOnce(claimant, payload)

(* No row goes back to what it was before the migration.                   *)
LEMMA AuthorisationLeavesATrace ==
  ASSUME Rows, Identities, RegistryNext, NEW a \in Asset, NEW d \in Destination, AuthorisedOnce(a, d)
  PROVE  AuthorisedOnce(a, d)'
<1> USE DEF AuthorisedOnce
<1>1. ASSUME UNCHANGED <<asset, target>> PROVE AuthorisedOnce(a, d)'
  BY <1>1 DEF Exists
<1>2. ASSUME NEW b \in Asset, NEW row, asset' = [asset EXCEPT ![b] = row], row # NoRow, UNCHANGED target,
             b = a => row.authority # "none"
      PROVE  AuthorisedOnce(a, d)'
  BY <1>2 DEF Exists, Rows, AssetTypeOK
<1>3. ASSUME NEW b \in Asset, AuthoriseManagement(b) \/ RevokeManagement(b) PROVE AuthorisedOnce(a, d)'
  <2>1. PICK state \in {"MANAGED", "UNMANAGED"}, authority \in {"current", "revoked"} :
          PutAsset(b, state, authority) /\ Exists(b) /\ UNCHANGED target
    BY <1>3 DEF AuthoriseManagement, RevokeManagement
  <2> DEFINE row == [asset[b] EXCEPT !.state = state, !.authority = authority]
  <2>2. asset[b] \in AssetRow
    BY <2>1 DEF Exists, Rows, AssetTypeOK
  <2>3. row \in AssetRow /\ row.authority = authority
    BY <2>2 DEF AssetRow, Authority
  <2>4. row # NoRow
    BY <2>3, RowsAssumption
  <2>5. asset' = [asset EXCEPT ![b] = row]
    BY <2>1 DEF PutAsset
  <2> HIDE DEF row
  <2> QED
    BY <1>2, <2>1, <2>3, <2>4, <2>5
<1>4. ASSUME NEW b \in Asset, NEW lifecycle \in {"ACTIVE", "RETIRED"}, SetLifecycle(b, lifecycle)
      PROVE  AuthorisedOnce(a, d)'
  <2> DEFINE row == [asset[b] EXCEPT !.lifecycle = lifecycle]
  <2>1. asset[b] \in AssetRow
    BY <1>4 DEF SetLifecycle, Exists, Rows, AssetTypeOK
  <2>2. row \in AssetRow /\ row.authority = asset[b].authority
    BY <2>1 DEF AssetRow
  <2>3. row # NoRow
    BY <2>2, RowsAssumption
  <2>4. asset' = [asset EXCEPT ![b] = row] /\ UNCHANGED target
    BY <1>4 DEF SetLifecycle
  <2> HIDE DEF row
  <2> QED
    BY <1>2, <2>2, <2>3, <2>4
<1>5. ASSUME NEW b \in Asset, NEW rows, target' = [target EXCEPT ![b] = rows], UNCHANGED asset,
             b = a => rows[d] = target[a][d] \/ (rows[d] \in TargetRow /\ rows[d].authority # "none")
      PROVE  AuthorisedOnce(a, d)'
  BY <1>5, RowsAssumption DEF Exists, Rows, AssetTypeOK
<1>6. ASSUME NEW b \in Asset, NEW e \in Destination, AuthoriseTarget(b, e) PROVE AuthorisedOnce(a, d)'
  <2> DEFINE rows == [target[b] EXCEPT ![e] = [active |-> TRUE, authority |-> "current"]]
  <2>1. target' = [target EXCEPT ![b] = rows] /\ UNCHANGED asset
    BY <1>6 DEF AuthoriseTarget
  <2>2. b = a => rows[d] = target[a][d] \/ (rows[d] \in TargetRow /\ rows[d].authority # "none")
    BY DEF TargetRow, Authority, Rows, AssetTypeOK
  <2> HIDE DEF rows
  <2> QED
    BY <1>5, <2>1, <2>2
<1>7. ASSUME NEW b \in Asset, RevokeTarget(b) PROVE AuthorisedOnce(a, d)'
  <2>1. PICK e \in Destination :
          target' = [target EXCEPT ![b] = [@ EXCEPT ![e] = [active |-> FALSE, authority |-> "revoked"]]]
    BY <1>7 DEF RevokeTarget
  <2> DEFINE rows == [target[b] EXCEPT ![e] = [active |-> FALSE, authority |-> "revoked"]]
  <2>2. target' = [target EXCEPT ![b] = rows] /\ UNCHANGED asset
    BY <1>7, <2>1 DEF RevokeTarget
  <2>3. b = a => rows[d] = target[a][d] \/ (rows[d] \in TargetRow /\ rows[d].authority # "none")
    BY DEF TargetRow, Authority, Rows, AssetTypeOK
  <2> HIDE DEF rows
  <2> QED
    BY <1>5, <2>2, <2>3
<1>8. ASSUME NEW b \in Asset, NEW e \in Destination, ReplaceTarget(b, e) PROVE AuthorisedOnce(a, d)'
  <2> DEFINE new == [active |-> TRUE, authority |-> "current"]
             old == [active |-> FALSE, authority |-> "revoked"]
  <2>1. PICK p \in Destination : target' = [target EXCEPT ![b] = [@ EXCEPT ![p] = old, ![e] = new]]
    BY <1>8 DEF ReplaceTarget
  <2> DEFINE rows == [target[b] EXCEPT ![p] = old, ![e] = new]
  <2>2. target' = [target EXCEPT ![b] = rows] /\ UNCHANGED asset
    BY <1>8, <2>1 DEF ReplaceTarget
  <2>3. b = a => rows[d] = target[a][d] \/ (rows[d] \in TargetRow /\ rows[d].authority # "none")
    BY DEF TargetRow, Authority, Rows, AssetTypeOK
  <2> HIDE DEF rows, new, old
  <2> QED
    BY <1>5, <2>2, <2>3
<1>9. ASSUME NEW w \in Resolver, CommitResolution(w) PROVE AuthorisedOnce(a, d)'
  <2> DEFINE t == resolution[w]
             row == [type |-> AssetType(t.observation), lifecycle |-> "ACTIVE",
                     state |-> "PROVISIONAL", authority |-> "none"]
  <2>1. CASE t.new
    <3>1. t.asset \in Asset /\ ~Exists(t.asset)
      BY <1>9, <2>1 DEF CommitResolution, Identities, Consistent
    <3>2. asset' = [asset EXCEPT ![t.asset] = row] /\ UNCHANGED target
      BY <1>9, <2>1 DEF CommitResolution
    <3> HIDE DEF t, row
    <3>3. asset'[a] = asset[a]
      BY <3>1, <3>2 DEF Rows, AssetTypeOK
    <3> QED
      BY <3>2, <3>3 DEF Exists
  <2>2. CASE ~t.new
    BY <1>1, <1>9, <2>2 DEF CommitResolution
  <2> QED
    BY <2>1, <2>2
<1>10. ASSUME GateNext \/ (\E w \in Resolver, o \in Observation : Begin(w, o))
              \/ (\E w \in Resolver : StoreKnown(w) \/ StoreNew(w) \/ StoreTaken(w) \/ AbortResolution(w))
       PROVE  AuthorisedOnce(a, d)'
  BY <1>1, <1>10 DEF GateNext, ClaimFinding, StartWork, EndWork, readinessRows, readinessVars,
                     Begin, StoreKnown, StoreNew, StoreTaken, AbortResolution
<1> QED
  BY <1>3, <1>4, <1>6, <1>7, <1>8, <1>9, <1>10 DEF RegistryNext, AdministrativeNext

(* Only the gates change the claim, and what is claimed is authorised.     *)
LEMMA ClaimsAreExplicit ==
  ASSUME Rows, Identities, ClaimIsExplicit, [RegistryNext]_registryVars
  PROVE  ClaimIsExplicit'
<1>1. CASE \E d \in Destination : ClaimFinding(d)
  <2>1. PICK d \in Destination : ClaimFinding(d)
    BY <1>1
  <2>2. payload' = d /\ claimant' = binding /\ UNCHANGED <<asset, target>>
    BY <2>1 DEF ClaimFinding, readinessRows
  <2>3. AuthorisedOnce(binding, d)
    BY <2>1 DEF ClaimFinding, Ready, Usable, Managed, Active, AuthorisedOnce
  <2> QED
    BY <2>2, <2>3 DEF ClaimIsExplicit, AuthorisedOnce, Exists
<1>2. CASE StartWork
  BY <1>2 DEF StartWork, ClaimIsExplicit
<1>3. CASE UNCHANGED <<payload, claimant>> /\ RegistryNext
  <2>1. payload # Nothing => claimant \in Asset /\ payload \in Destination
    BY DEF Rows, AssetTypeOK
  <2> QED
    BY <1>3, <2>1, AuthorisationLeavesATrace DEF ClaimIsExplicit
<1>4. CASE UNCHANGED registryVars
  BY <1>4 DEF registryVars, readinessVars, ClaimIsExplicit, AuthorisedOnce, Exists
<1>5. EndWork => UNCHANGED <<payload, claimant>>
  BY DEF EndWork
<1>6. AdministrativeNext => UNCHANGED <<payload, claimant>>
  BY DEF AdministrativeNext, AuthoriseManagement, RevokeManagement, RevokeTarget, AuthoriseTarget,
         ReplaceTarget, SetLifecycle, claimVars
<1>7. (\E w \in Resolver, o \in Observation : Begin(w, o)) => UNCHANGED <<payload, claimant>>
  BY DEF Begin, readinessVars
<1>8. (\E w \in Resolver : StoreKnown(w) \/ StoreNew(w) \/ StoreTaken(w) \/ CommitResolution(w) \/ AbortResolution(w))
        => UNCHANGED <<payload, claimant>>
  BY DEF StoreKnown, StoreNew, StoreTaken, CommitResolution, AbortResolution, readinessVars, claimVars
<1> QED
  BY <1>1, <1>2, <1>3, <1>4, <1>5, <1>6, <1>7, <1>8 DEF RegistryNext, GateNext

(* Work that starts on the asset of the claim starts on what is ready at   *)
(* that instant, rows of before the migration included; and no work starts *)
(* on what has been revoked or retired, though the controller reads none   *)
(* of the columns that say so.                                             *)
THEOREM WorkStartsReady == RegistrySpec => StartsOnlyWhenReady
<1> DEFINE Start == Starts => LET a == running'[1] d == running'[2]
                              IN  /\ a = claimant => Ready(a, d)
                                  /\ asset[a].lifecycle = "ACTIVE" /\ asset[a].authority # "revoked"
                                  /\ Active(a, d) /\ target[a][d].authority # "revoked"
<1>1. Rows /\ ClaimIsExplicit /\ [RegistryNext]_registryVars => [Start]_readinessVars
  <2> SUFFICES ASSUME Rows, ClaimIsExplicit, [RegistryNext]_registryVars, Starts PROVE Start
    OBVIOUS
  <2>1. StartWork
    <3>1. CASE UNCHANGED running
      BY <3>1 DEF Starts
    <3>2. CASE EndWork
      BY <3>2 DEF EndWork, Starts
    <3>3. CASE \E d \in Destination : ClaimFinding(d)
      BY <3>3, <3>1 DEF ClaimFinding
    <3>4. CASE AdministrativeNext
      BY <3>4, <3>1 DEF AdministrativeNext, AuthoriseManagement, RevokeManagement, RevokeTarget, AuthoriseTarget,
                  ReplaceTarget, SetLifecycle, claimVars
    <3>5. CASE \E w \in Resolver, o \in Observation : Begin(w, o)
      BY <3>5, <3>1 DEF Begin, readinessVars
    <3>6. CASE \E w \in Resolver : StoreKnown(w) \/ StoreNew(w) \/ StoreTaken(w) \/ CommitResolution(w)
                                     \/ AbortResolution(w)
      BY <3>6, <3>1 DEF StoreKnown, StoreNew, StoreTaken, CommitResolution, AbortResolution, readinessVars, claimVars
    <3> QED
      BY <3>1, <3>2, <3>3, <3>4, <3>5, <3>6 DEF RegistryNext, GateNext, registryVars, readinessVars
  <2>2. binding # Nothing /\ payload # Nothing /\ TargetConfirmed(binding, payload) /\ running' = <<binding, payload>>
    BY <2>1 DEF StartWork, Starts
  <2>3. binding \in Asset /\ payload \in Destination
    BY <2>2 DEF Rows, AssetTypeOK
  <2>4. asset[binding].state = "MANAGED" /\ asset[binding].lifecycle = "ACTIVE" /\ Exists(binding)
        /\ Active(binding, payload)
    BY <2>2, <2>3 DEF TargetConfirmed, ActiveTargets
  <2>5. asset[binding].authority \in {"none", "current"}
    BY <2>3, <2>4 DEF Rows, AssetTypeOK, AssetRow, Authority, Exists
  <2>6. target[binding][payload].authority \in {"none", "current"}
    BY <2>3, <2>4 DEF Rows, AssetTypeOK, TargetRow, Authority, Active
  <2>7. running'[1] = binding /\ running'[2] = payload
    BY <2>2
  <2>8. ASSUME binding = claimant PROVE Ready(binding, payload)
    <3>1. AuthorisedOnce(binding, payload)
      BY <2>2, <2>8 DEF ClaimIsExplicit
    <3> QED
      BY <2>4, <2>5, <2>6, <3>1 DEF AuthorisedOnce, Ready, Usable, Managed
  <2> QED
    BY <2>4, <2>5, <2>6, <2>7, <2>8
<1>2. RegistryInit => ClaimIsExplicit
  BY DEF RegistryInit, ReadinessInit, ClaimIsExplicit
<1>3. RegistrySpec => []ClaimIsExplicit
  BY <1>2, RegistryHolds, ClaimsAreExplicit, PTL DEF RegistrySpec
<1> QED
  BY <1>1, <1>3, RegistryHolds, PTL DEF RegistrySpec, StartsOnlyWhenReady
=============================================================================
