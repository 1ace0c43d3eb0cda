--------------------------- MODULE BrokerContract ---------------------------
(***************************************************************************)
(* What the broker promises a platform that runs one operation of an       *)
(* instance at a time: an instance moves through its phases one operation  *)
(* at a time, what is published is always what was last asked for, an      *)
(* instance is reported available only while exactly that is published,    *)
(* and it is gone only after the publication was withdrawn.  There are no  *)
(* handlers, messages or workers here.                                     *)
(***************************************************************************)
EXTENDS InstanceRecords

CONSTANTS Ids,          \* the instances
          Asks,         \* Asks[i]: the plans and parameters asked for instance i
          Nothing       \* nothing is published

(* What is asked for: a plan and parameters. *)
Wishes == [plan : Plans \cup {Missing}, params : Params]

VARIABLES phase, wanted, live

contract == <<phase, wanted, live>>

ContractInit ==
    /\ phase = [i \in Ids |-> "absent"]
    /\ wanted = [i \in Ids |-> [plan |-> Missing, params |-> NoParams]]
    /\ live = [i \in Ids |-> Nothing]

Enter(i, from, to) == /\ phase[i] = from
                      /\ phase' = [phase EXCEPT ![i] = to]

AskProvision(i, ask) == /\ Enter(i, "absent", "provisioning")
                        /\ wanted' = [wanted EXCEPT ![i] = ask]
                        /\ UNCHANGED live

(* A field that is not given keeps its value. *)
AskUpdate(i, ask) ==
    /\ Enter(i, "available", "updating")
    /\ wanted' = [wanted EXCEPT
                    ![i] = [plan   |-> IF ask.plan = Missing THEN @.plan ELSE ask.plan,
                            params |-> Merge(@.params, ask.params)]]
    /\ UNCHANGED live

AskDeprovision(i) == /\ Enter(i, "available", "deprovisioning")
                     /\ UNCHANGED <<wanted, live>>

Publish(i) == /\ phase[i] \in {"provisioning", "updating"}
              /\ live' = [live EXCEPT ![i] = wanted[i]]
              /\ UNCHANGED <<phase, wanted>>

Complete(i) == /\ phase[i] \in {"provisioning", "updating"}
               /\ live[i] = wanted[i]
               /\ phase' = [phase EXCEPT ![i] = "available"]
               /\ UNCHANGED <<wanted, live>>

Withdraw(i) == /\ phase[i] = "deprovisioning"
               /\ live' = [live EXCEPT ![i] = Nothing]
               /\ UNCHANGED <<phase, wanted>>

Vanish(i) == /\ Enter(i, "deprovisioning", "absent")
             /\ live[i] = Nothing
             /\ wanted' = [wanted EXCEPT ![i] = [plan |-> Missing, params |-> NoParams]]
             /\ UNCHANGED live

ContractNext ==
    \E i \in Ids : \/ \E ask \in Asks[i] : AskProvision(i, ask) \/ AskUpdate(i, ask)
                   \/ AskDeprovision(i)
                   \/ Publish(i) \/ Complete(i) \/ Withdraw(i) \/ Vanish(i)

ContractSpec == ContractInit /\ [][ContractNext]_contract
==============================================================================
