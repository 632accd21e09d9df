--------------------------- MODULE StatusConnector ---------------------------
(***************************************************************************)
(* One adapter's outbound status connector                                 *)
(* (server/harness/status-connector-config.ts).  Saving disables it;       *)
(* activation checks the stored credential and endpoint outside any lock   *)
(* and compares the row again before enabling it; a lookup reads the row   *)
(* and checks its endpoint before the caller may use it.                   *)
(***************************************************************************)
EXTENDS Naturals

CONSTANTS Securers, Lookups, Targets, MaxConfigRevision, NoTarget

ASSUME ConnectorAssumption ==
    MaxConfigRevision \in Nat \ {0} /\ NoTarget \notin Targets

VARIABLES config,    \* the row of harness_status_connector_configs
          enabling,  \* each administrator's call: the row as it read it
          using,     \* each resolveActive call
          checked    \* the revisions whose target passed both outside checks

connectorVars == <<config, enabling, using, checked>>

ConfigRevisions == 0..MaxConfigRevision
NoConfig == [status |-> "none", target |-> NoTarget, revision |-> 0]
Configs == [status : {"none", "disabled", "active"}, target : Targets \cup {NoTarget},
            revision : ConfigRevisions]
NotEnabling == [at |-> "idle", row |-> NoConfig]

ConnectorInit ==
    /\ config = NoConfig
    /\ enabling = [s \in Securers |-> NotEnabling]
    /\ using = [u \in Lookups |-> NoConfig]
    /\ checked = {}

Replace(row) ==
    /\ config.revision < MaxConfigRevision
    /\ config' = [row EXCEPT !.revision = config.revision + 1]

\* A call that knew another revision is refused: it has no step.
SaveConfig(known, target) ==
    /\ known = config.revision
    /\ Replace([config EXCEPT !.status = "disabled", !.target = target])
    /\ UNCHANGED <<enabling, using, checked>>

DisableConfig(known) ==
    /\ config.status # "none" /\ known = config.revision
    /\ Replace([config EXCEPT !.status = "disabled"])
    /\ UNCHANGED <<enabling, using, checked>>

SnapshotConfig(s, known) ==
    /\ enabling[s].at = "idle"
    /\ config.status = "disabled" /\ config.revision = known
    /\ enabling' = [enabling EXCEPT ![s] = [at |-> "checking", row |-> config]]
    /\ UNCHANGED <<config, using, checked>>

\* The vault attests the credential and the gateway the endpoint of that snapshot.
ChecksPass(s) ==
    /\ enabling[s].at = "checking"
    /\ enabling' = [enabling EXCEPT ![s].at = "checked"]
    /\ checked' = checked \cup {enabling[s].row}
    /\ UNCHANGED <<config, using>>

\* Mutant: only the endpoint and the credential are compared, and another
\* administrator's write in between is not noticed.
UnchangedTarget(s) == config.target = enabling[s].row.target

Unchanged(s) == config = enabling[s].row

EnableConfig(s) ==
    /\ enabling[s].at = "checked" /\ Unchanged(s)
    /\ Replace([config EXCEPT !.status = "active"])
    /\ enabling' = [enabling EXCEPT ![s] = NotEnabling]
    /\ UNCHANGED <<using, checked>>

EnableRefused(s) ==
    /\ enabling[s].at # "idle"
    /\ enabling' = [enabling EXCEPT ![s] = NotEnabling]
    /\ UNCHANGED <<config, using, checked>>

ResolveActive(u) ==
    /\ using[u] = NoConfig /\ config.status = "active"
    /\ using' = [using EXCEPT ![u] = config]
    /\ UNCHANGED <<config, enabling, checked>>

UseEnds(u) ==
    /\ using[u] # NoConfig
    /\ using' = [using EXCEPT ![u] = NoConfig]
    /\ UNCHANGED <<config, enabling, checked>>

ConnectorNext ==
    \/ \E known \in ConfigRevisions :
         \/ \E t \in Targets : SaveConfig(known, t)
         \/ DisableConfig(known)
         \/ \E s \in Securers : SnapshotConfig(s, known)
    \/ \E s \in Securers : ChecksPass(s) \/ EnableConfig(s) \/ EnableRefused(s)
    \/ \E u \in Lookups : ResolveActive(u) \/ UseEnds(u)

ConnectorSpec == ConnectorInit /\ [][ConnectorNext]_connectorVars

-----------------------------------------------------------------------------
\* The row, the calls and the record of checks have their shapes.
ConnectorTypeOK ==
    /\ config \in Configs
    /\ enabling \in [Securers -> [at : {"idle", "checking", "checked"}, row : Configs]]
    /\ using \in [Lookups -> Configs]
    /\ checked \subseteq Configs

\* An active connector, and one a lookup is using, is the very row whose
\* target was checked, with no other write in between: saving, disabling and
\* a second activation while the checks ran all refuse the enabling.
ActiveWasChecked ==
    \A row \in {config} \cup {using[u] : u \in Lookups} :
      row.status = "active" =>
        [status |-> "disabled", target |-> row.target, revision |-> row.revision - 1] \in checked
=============================================================================
