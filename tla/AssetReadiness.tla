--------------------------- MODULE AssetReadiness ---------------------------
(***************************************************************************)
(* Which assets may be remediated, and where: the administrative           *)
(* operations of readiness_management/service.py, each one transaction     *)
(* that locks the row of its asset first, the triggers and constraints of  *)
(* migrations 015 and 016 under them, and the two gates that read their    *)
(* rows: the view the dispatcher claims from and the check of the          *)
(* controller that starts the work.                                        *)
(*                                                                         *)
(* The three columns of an authorisation and the three of its revocation   *)
(* are one value, its authority: "none" before any, "current", "revoked".  *)
(* Rows of before migration 016 may be MANAGED and active without any.     *)
(***************************************************************************)
EXTENDS Naturals, Sequences, FiniteSets

CONSTANTS
  Asset,        \* the ids of assets
  Destination,  \* the names of execution targets
  NoRow,        \* there is no such row
  Nothing,      \* no payload, no asset, no run
  MaxEvents     \* bound on the audit events of all assets

ASSUME ReadinessAssumption ==
  /\ Nothing \notin Destination \cup Asset \cup (Asset \X Destination)
  /\ MaxEvents \in Nat

VARIABLES
  asset,     \* assets
  target,    \* asset_execution_targets, by asset and name
  audit,     \* asset_remediation_audit, by asset
  binding,   \* the asset a certain finding is bound to
  payload,   \* the execution target that finding was claimed with
  claimant,  \* history: the asset it was bound to when it was claimed
  running    \* where the controller works on it

readinessRows == <<asset, target, audit>>
claimVars == <<payload, claimant, running>>
readinessVars == <<asset, target, audit, binding, payload, claimant, running>>

Authority == {"none", "current", "revoked"}

AssetRow == [type : {"HOST", "APPLICATION", "CONTAINER_IMAGE"},
             lifecycle : {"ACTIVE", "RETIRED"},  \* RETIRED: any but ACTIVE
             state : {"PROVISIONAL", "MANAGED", "UNMANAGED"},
             authority : Authority]

TargetRow == [active : BOOLEAN, authority : Authority]

ASSUME RowsAssumption == NoRow \notin AssetRow \cup TargetRow

Event == [type : {"ASSET_MANAGED", "ASSET_MANAGEMENT_REVOKED", "EXECUTION_TARGET_AUTHORISED",
                  "EXECUTION_TARGET_REVOKED", "EXECUTION_TARGET_REPLACED"},
          destination : Destination \cup {Nothing}]

Exists(a) == asset[a] # NoRow

Active(a, d) == target[a][d] # NoRow /\ target[a][d].active

ActiveTargets(a) == {d \in Destination : Active(a, d)}

Managed(a) == asset[a].state = "MANAGED" /\ asset[a].authority = "current"

Usable(a) == Managed(a) /\ asset[a].lifecycle = "ACTIVE"

-----------------------------------------------------------------------------
(* The triggers: what a changed row must satisfy.                          *)

AssetAllowed(row) == row.state = "MANAGED" <=> row.authority = "current"

TargetAllowed(a, row) ==
  /\ row.active => Managed(a)
  /\ row.active <=> row.authority = "current"

(* A revocation needs an authorisation to revoke: the CHECK constraints    *)
(* on the order of the two refuse it for a legacy row.                     *)
Revocable(row) == row.authority # "none"

(* The index on active targets: one per asset.                             *)
OnlyActive(a, d) == ActiveTargets(a) \subseteq {d}

-----------------------------------------------------------------------------

Events == UNION {{a} \X (1..Len(audit[a])) : a \in Asset}

Record(a, event, d) ==
  /\ Cardinality(Events) < MaxEvents
  /\ audit' = [audit EXCEPT ![a] = Append(@, [type |-> event, destination |-> d])]

PutAsset(a, state, authority) ==
  LET row == [asset[a] EXCEPT !.state = state, !.authority = authority]
  IN  /\ AssetAllowed(row)
      /\ asset' = [asset EXCEPT ![a] = row]

AuthoriseManagement(a) ==
  /\ Exists(a)
  /\ asset[a].lifecycle = "ACTIVE"
  /\ ~Managed(a)
  /\ PutAsset(a, "MANAGED", "current")
  /\ Record(a, "ASSET_MANAGED", Nothing)
  /\ UNCHANGED <<target, binding, claimVars>>

(* Mutant: whether a target is still active is left to the user interface. *)
MutantRevokeManagement(a) ==
  /\ Exists(a)
  /\ Managed(a)
  /\ PutAsset(a, "UNMANAGED", "revoked")
  /\ Record(a, "ASSET_MANAGEMENT_REVOKED", Nothing)
  /\ UNCHANGED <<target, binding, claimVars>>

(* The lifecycle is not asked for; targets must have been revoked before.  *)
RevokeManagement(a) ==
  /\ Exists(a)
  /\ Managed(a)
  /\ ActiveTargets(a) = {}
  /\ PutAsset(a, "UNMANAGED", "revoked")
  /\ Record(a, "ASSET_MANAGEMENT_REVOKED", Nothing)
  /\ UNCHANGED <<target, binding, claimVars>>

(* Mutant: the old rows are activated again, with those already active.    *)
MutantAuthoriseTarget(a, d) ==
  /\ Exists(a) /\ Usable(a)
  /\ ~Active(a, d)
  /\ target' = [target EXCEPT ![a][d] = [active |-> TRUE, authority |-> "current"]]
  /\ Record(a, "EXECUTION_TARGET_AUTHORISED", d)
  /\ UNCHANGED <<asset, binding, claimVars>>

(* A target of that name that was revoked before is authorised again.      *)
AuthoriseTarget(a, d) ==
  LET row == [active |-> TRUE, authority |-> "current"]
  IN  /\ Exists(a) /\ Usable(a)
      /\ ActiveTargets(a) = {}
      /\ OnlyActive(a, d) /\ TargetAllowed(a, row)
      /\ target' = [target EXCEPT ![a][d] = row]
      /\ Record(a, "EXECUTION_TARGET_AUTHORISED", d)
      /\ UNCHANGED <<asset, binding, claimVars>>

(* Mutant: the columns of the revocation are set, is_active is not.        *)
MutantRevokeTarget(a) ==
  /\ Exists(a)
  /\ \E d \in Destination :
       /\ ActiveTargets(a) = {d}
       /\ Revocable(target[a][d])
       /\ target' = [target EXCEPT ![a][d].authority = "revoked"]
       /\ Record(a, "EXECUTION_TARGET_REVOKED", d)
  /\ UNCHANGED <<asset, binding, claimVars>>

RevokeTarget(a) ==
  /\ Exists(a)
  /\ \E d \in Destination :
       /\ ActiveTargets(a) = {d}
       /\ Revocable(target[a][d])
       /\ target' = [target EXCEPT ![a][d] = [active |-> FALSE, authority |-> "revoked"]]
       /\ Record(a, "EXECUTION_TARGET_REVOKED", d)
  /\ UNCHANGED <<asset, binding, claimVars>>

(* Mutant: the event names the target that was replaced.                   *)
MutantReplaceTarget(a, d) ==
  LET new == [active |-> TRUE, authority |-> "current"]
      old == [active |-> FALSE, authority |-> "revoked"]
  IN  /\ Exists(a) /\ Usable(a)
      /\ \E p \in Destination \ {d} :
           /\ ActiveTargets(a) = {p}
           /\ Revocable(target[a][p])
           /\ target' = [target EXCEPT ![a] = [@ EXCEPT ![p] = old, ![d] = new]]
           /\ Record(a, "EXECUTION_TARGET_REPLACED", p)
      /\ UNCHANGED <<asset, binding, claimVars>>

(* The previous target is revoked before the new one becomes active.       *)
ReplaceTarget(a, d) ==
  LET new == [active |-> TRUE, authority |-> "current"]
      old == [active |-> FALSE, authority |-> "revoked"]
  IN  /\ Exists(a) /\ Usable(a)
      /\ \E p \in Destination \ {d} :
           /\ ActiveTargets(a) = {p}
           /\ Revocable(target[a][p])
           /\ TargetAllowed(a, new)
           /\ target' = [target EXCEPT ![a] = [@ EXCEPT ![p] = old, ![d] = new]]
      /\ Record(a, "EXECUTION_TARGET_REPLACED", d)
      /\ UNCHANGED <<asset, binding, claimVars>>

(* No program changes the lifecycle of an asset: administrators do, in the *)
(* database, and no trigger asks what that means for its targets.          *)
SetLifecycle(a, lifecycle) ==
  /\ Exists(a)
  /\ asset[a].lifecycle # lifecycle
  /\ asset' = [asset EXCEPT ![a].lifecycle = lifecycle]
  /\ UNCHANGED <<target, audit, binding, claimVars>>

-----------------------------------------------------------------------------
(* The gates *)

(* eligible_remediation_queue: the asset of the finding and its one active *)
(* target are both under a current authorisation.                          *)
Ready(a, d) == Exists(a) /\ Usable(a) /\ Active(a, d) /\ target[a][d].authority = "current"

ClaimFinding(d) ==
  /\ payload = Nothing /\ running = Nothing
  /\ binding # Nothing /\ Ready(binding, d)
  /\ payload' = d /\ claimant' = binding
  /\ UNCHANGED <<readinessRows, binding, running>>

(* Mutant: an active target is taken to stand for an active asset.         *)
MutantTargetConfirmed(a, d) == Exists(a) /\ Active(a, d)

(* get_authorised_execution_target reads fewer columns than the view, of   *)
(* the asset the finding is bound to by now; its one active target must be *)
(* that of the payload.                                                    *)
TargetConfirmed(a, d) ==
  /\ Exists(a) /\ asset[a].state = "MANAGED" /\ asset[a].lifecycle = "ACTIVE"
  /\ ActiveTargets(a) = {d}

StartWork ==
  /\ payload # Nothing
  /\ payload' = Nothing /\ claimant' = Nothing
  /\ running' = IF binding # Nothing /\ TargetConfirmed(binding, payload)
                THEN <<binding, payload>> ELSE Nothing
  /\ UNCHANGED <<readinessRows, binding>>

EndWork ==
  /\ running # Nothing
  /\ running' = Nothing
  /\ UNCHANGED <<readinessRows, binding, payload, claimant>>

AdministrativeNext ==
  \/ \E a \in Asset : AuthoriseManagement(a) \/ RevokeManagement(a) \/ RevokeTarget(a)
  \/ \E a \in Asset, d \in Destination : AuthoriseTarget(a, d) \/ ReplaceTarget(a, d)
  \/ \E a \in Asset, lifecycle \in {"ACTIVE", "RETIRED"} : SetLifecycle(a, lifecycle)

GateNext == (\E d \in Destination : ClaimFinding(d)) \/ StartWork \/ EndWork

-----------------------------------------------------------------------------
(* A host of before migration 016, MANAGED or not, with or without a       *)
(* target that is active.                                                  *)
LegacyRow(state) == [type |-> "HOST", lifecycle |-> "ACTIVE", state |-> state, authority |-> "none"]

LegacyTarget(active) == [active |-> active, authority |-> "none"]

ReadinessInit ==
  /\ asset \in [Asset -> {NoRow, LegacyRow("PROVISIONAL"), LegacyRow("MANAGED")}]
  /\ target \in [Asset -> [Destination -> {NoRow, LegacyTarget(TRUE), LegacyTarget(FALSE)}]]
  /\ \A a \in Asset, d, e \in Destination :
       /\ Active(a, d) /\ Active(a, e) => d = e
       /\ ~Exists(a) => target[a][d] = NoRow
  /\ audit = [a \in Asset |-> <<>>]
  /\ binding = Nothing /\ payload = Nothing /\ claimant = Nothing /\ running = Nothing

-----------------------------------------------------------------------------
(* Properties *)

(* The rows the program writes, and those of before the migration; what is *)
(* revoked is neither MANAGED nor active.                                  *)
AssetTypeOK ==
  /\ asset \in [Asset -> AssetRow \cup {NoRow}]
  /\ target \in [Asset -> [Destination -> TargetRow \cup {NoRow}]]
  /\ \A a \in Asset : Exists(a) /\ asset[a].authority = "revoked" => asset[a].state = "UNMANAGED"
  /\ \A a \in Asset, d \in Destination : Active(a, d) => Exists(a) /\ target[a][d].authority # "revoked"
  /\ audit \in [Asset -> Seq(Event)]
  /\ binding \in Asset \cup {Nothing}
  /\ payload \in Destination \cup {Nothing}
  /\ claimant \in Asset \cup {Nothing} /\ (claimant = Nothing <=> payload = Nothing)
  /\ running \in (Asset \X Destination) \cup {Nothing}

(* An asset has one active target at most, whatever was active before the  *)
(* migration, was revoked and authorised again, or replaced.               *)
OneActiveTarget ==
  \A a \in Asset : \A d, e \in Destination : Active(a, d) /\ Active(a, e) => d = e

(* The authorisation of an active target does not outlive that of its      *)
(* asset.  The trigger of a target asks for the asset when the target      *)
(* changes; that the asset keeps its authorisation afterwards is up to     *)
(* revoke_asset_management.                                                *)
ActiveTargetIsAuthorised ==
  \A a \in Asset, d \in Destination :
    Active(a, d) /\ target[a][d].authority = "current" => Managed(a)

(* The last event of an asset that is about some matter.                   *)
Latest(a, types) ==
  LET about == {n \in 1..Len(audit[a]) : audit[a][n].type \in types}
  IN  IF about = {} THEN [type |-> "none", destination |-> Nothing]
      ELSE audit[a][CHOOSE n \in about : \A m \in about : m <= n]

(* The audit history tells what is authorised: an asset is authorised if   *)
(* its last event of management says so, and its authorised target is the  *)
(* one that its last event about targets made active, with no event in     *)
(* between.                                                                *)
AuditExplains ==
  \A a \in Asset :
    LET management == Latest(a, {"ASSET_MANAGED", "ASSET_MANAGEMENT_REVOKED"})
        execution == Latest(a, {"EXECUTION_TARGET_AUTHORISED", "EXECUTION_TARGET_REVOKED",
                                "EXECUTION_TARGET_REPLACED"})
        authorised == {d \in Destination : Active(a, d) /\ target[a][d].authority = "current"}
    IN  /\ Exists(a) /\ asset[a].authority = "current" <=> management.type = "ASSET_MANAGED"
        /\ authorised = IF execution.type \in {"none", "EXECUTION_TARGET_REVOKED"} THEN {}
                        ELSE {execution.destination}

Starts == running' \notin {running, Nothing}

(* Where work starts on the asset the finding was claimed for, the view    *)
(* would let the dispatcher claim the finding at that very moment, whatever*)
(* has been revoked, replaced, authorised again or retired since the claim,*)
(* and though get_authorised_execution_target (shared/db.py:112-198) reads *)
(* none of the columns of the authorisations.  If another asset has been   *)
(* bound since, its rows may be as old as they are, but work does not start*)
(* on what has been revoked or retired.                                    *)
StartsOnlyWhenReady ==
  [][Starts => LET a == running'[1] d == running'[2]
               IN  /\ a = claimant => Ready(a, d)
                   /\ asset[a].lifecycle = "ACTIVE" /\ asset[a].authority # "revoked"
                   /\ Active(a, d) /\ target[a][d].authority # "revoked"]_readinessVars

(* What the view says of itself, migrations/016...sql:472-474: the state   *)
(* of rows of before the migration is deliberately insufficient for        *)
(* execution.  The controller does not ask: it does not hold.              *)
StartsOnlyWhenAuthorised ==
  [][Starts => Ready(running'[1], running'[2])]_readinessVars
=============================================================================
