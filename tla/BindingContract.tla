--------------------------- MODULE BindingContract ---------------------------
(***************************************************************************)
(* What the broker promises a platform that runs one operation of a        *)
(* binding at a time: a binding is asked for, gets its credentials once    *)
(* and keeps them until it is unbound, and is then gone until it is asked  *)
(* for again.  There are no handlers, messages or workers here.            *)
(***************************************************************************)
CONSTANTS Ids,          \* the bindings
          Kinds,        \* what a binding can be asked for
          Secrets,      \* credentials
          NoKind, NoSecret

VARIABLES phase, kind, secret

contract == <<phase, kind, secret>>

ContractInit == /\ phase = [b \in Ids |-> "absent"]
                /\ kind = [b \in Ids |-> NoKind]
                /\ secret = [b \in Ids |-> NoSecret]

Enter(b, from, to) == /\ phase[b] = from
                      /\ phase' = [phase EXCEPT ![b] = to]

Ask(b) == /\ Enter(b, "absent", "binding")
          /\ \E k \in Kinds : kind' = [kind EXCEPT ![b] = k]
          /\ UNCHANGED secret

Issue(b) == /\ Enter(b, "binding", "bound")
            /\ \E s \in Secrets : secret' = [secret EXCEPT ![b] = s]
            /\ UNCHANGED kind

Withdraw(b) == /\ Enter(b, "bound", "absent")
               /\ kind' = [kind EXCEPT ![b] = NoKind]
               /\ secret' = [secret EXCEPT ![b] = NoSecret]

ContractNext == \E b \in Ids : Ask(b) \/ Issue(b) \/ Withdraw(b)

ContractSpec == ContractInit /\ [][ContractNext]_contract
==============================================================================
