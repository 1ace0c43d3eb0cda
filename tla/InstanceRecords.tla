--------------------------- MODULE InstanceRecords ---------------------------
(***************************************************************************)
(* The data of service instances: calls of the platform, rows of the       *)
(* instances table, rendered artifacts and the helpers that compute them   *)
(* (services/osb/osb/storage.py, api/routes.py, sovereign_yaml.py).        *)
(* Names, timestamps, context and texts are left out; parameters are a     *)
(* partial map from a few keys to a few values.                            *)
(***************************************************************************)

CONSTANTS Services, Plans,
          ParamKeys, ParamValues,
          Unrenderable,   \* parameter values render_resources raises on
          Numbers,        \* parameter values that are or contain numbers
          Missing         \* an attribute or a payload field that is not there

ASSUME MissingAssumption == /\ Missing \notin Services \cup Plans \cup ParamValues
                            /\ Unrenderable \subseteq ParamValues
                            /\ Numbers \subseteq ParamValues

Params == [ParamKeys -> ParamValues \cup {Missing}]
NoParams == [k \in ParamKeys |-> Missing]

Ops == {"provision", "update", "deprovision"}

(* What a payload asks for, and what a rendered artifact carries. *)
Configs == [service : Services \cup {Missing},
            plan    : Plans \cup {Missing},
            params  : Params]
NoConfig == [service |-> Missing, plan |-> Missing, params |-> NoParams]

States == {"absent", "provisioning", "updating", "deprovisioning", "available"}
InProgress == {"provisioning", "updating", "deprovisioning"}

(* A row of the table.  keyed: artifact_key is set.  An update_item on an  *)
(* absent key starts from NoRow and leaves service Missing: half a row.    *)
Rows == [config : Configs, state : States, keyed : BOOLEAN]
NoRow == [config |-> NoConfig, state |-> "absent", keyed |-> FALSE]

(* {**old, **new} *)
Merge(old, new) ==
    [k \in ParamKeys |-> IF new[k] # Missing THEN new[k] ELSE old[k]]

(* _instance_from_item finds every attribute it indexes. *)
Readable(row) == row.config.service # Missing

(* render_resources returns instead of raising. *)
Renders(config) == \A k \in ParamKeys : config.params[k] \notin Unrenderable

NewRow(config) == [config |-> config, state |-> "provisioning", keyed |-> FALSE]

(* The config an update writes and sends, from the row it read; mutant: it *)
(* replaces the parameters instead of merging them.                        *)
UpdatedWithoutMerge(row, asked) ==
    [asked EXCEPT !.plan = IF @ = Missing THEN row.config.plan ELSE @]
Updated(row, asked) ==
    [service |-> asked.service,
     plan    |-> IF asked.plan = Missing THEN row.config.plan ELSE asked.plan,
     params  |-> Merge(row.config.params, asked.params)]

(* json.dumps takes the parameters of an update: boto3 reads the numbers   *)
(* of a row back as Decimal, which json.dumps refuses.                     *)
Dumps(row, asked) ==
    \A k \in ParamKeys : asked.params[k] = Missing => row.config.params[k] \notin Numbers

(* InstanceStore.transition: SET state, and plan and parameters when given; *)
(* service_id is never among them.                                         *)
Moved(row, state) == [row EXCEPT !.state = state]
MovedWith(row, state, config) ==
    [row EXCEPT !.state = state,
                !.config = [@ EXCEPT !.plan = config.plan, !.params = config.params]]
==============================================================================
