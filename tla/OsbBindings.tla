----------------------------- MODULE OsbBindings -----------------------------
(***************************************************************************)
(* The life of service bindings in the Open Service Broker: bind_instance  *)
(* and unbind_instance of api/routes.py, the bindings table (BindingStore  *)
(* of storage.py), the binding queue, and _bind and _unbind of             *)
(* worker/main.py.  One action is one call of a handler, as in             *)
(* OsbInstances.  The service and plan of a binding are one value, an      *)
(* offer.  The instance a bind is for may be in any state, and in another  *)
(* at the next look: that is the business of OsbInstances.                 *)
(***************************************************************************)
EXTENDS Naturals, FiniteSets

CONSTANTS Requests,     \* calls of the platform, each with its message
          Menu,         \* Menu[r]: the calls request r may be
          Bindings,     \* pairs of a binding and its instance
          Offers,       \* pairs of a service and a plan
          Workers, MaxReceive, MaxBatch,
          Faults,       \* what goes wrong in the environment, see TaskWorker
          NoRequest, Missing

Calls == [op : {"bind", "unbind"}, id : Bindings, offer : Offers]

ASSUME BindingsAssumption ==
    /\ Menu \in [Requests -> SUBSET Calls]
    /\ MaxReceive \in Nat \ {0} /\ MaxBatch \in Nat \ {0}
    /\ NoRequest \notin Requests
    /\ Missing \notin Offers
    /\ IsFiniteSet(Workers)

(* A password is named by the message it was generated for and the number  *)
(* of the handling that generated it.                                      *)
Credentials == [of : Requests, nth : 1 .. MaxReceive]
NoCredentials == [of |-> NoRequest, nth |-> 0]

(* An update_item on an absent key leaves the offer Missing: half a row. *)
Rows == [state : {"absent", "binding", "bound"},
         offer : Offers \cup {Missing},
         creds : Credentials \cup {NoCredentials}]
NoRow == [state |-> "absent", offer |-> Missing, creds |-> NoCredentials]
NewRow(offer) == [state |-> "binding", offer |-> offer, creds |-> NoCredentials]

VARIABLES call,         \* the call a request makes, fixed from the start
          pc, resp,     \* where its handler is, and what it answered
          rows,         \* the bindings table
          status, receives, at, job, held, stopping, handled, \* see TaskWorker
          creator       \* history: the bind that put a row

TaskSteps == {"complete", "cleanup"}

Task == INSTANCE TaskWorker WITH Messages <- Requests, Steps <- TaskSteps,
                                 NoMessage <- NoRequest

tasks == <<status, receives, at, job, held, stopping, handled>>
vars == <<call, pc, resp, rows, tasks, creator>>

(* "201 empty": a replayed bind whose row has no credentials yet *)
Codes == {"none", "200", "201", "201 empty", "400", "404", "409", "422", "500"}

(* The type invariant: rows, handlers, workers and the queue.              *)
TypeOK ==
    /\ call \in [Requests -> Calls]
    /\ pc \in [Requests -> {"new", "look", "read", "write", "send", "sent", "removed"}]
    /\ resp \in [Requests -> Codes]
    /\ rows \in [Bindings -> Rows]
    /\ Task!WorkerTypeOK
    /\ creator \in [Bindings -> Requests \cup {NoRequest}]

Init ==
    /\ call \in {f \in [Requests -> UNION {Menu[r] : r \in Requests}] :
                    \A r \in Requests : f[r] \in Menu[r]}
    /\ pc = [r \in Requests |-> "new"]
    /\ resp = [r \in Requests |-> "none"]
    /\ rows = [b \in Bindings |-> NoRow]
    /\ Task!WorkerInit
    /\ creator = [b \in Bindings |-> NoRequest]

------------------------------------------------------------------------------
(* The API handlers. *)

RowOf(r) == rows[call[r].id]
Absent(row) == row.state = "absent"
Readable(row) == row.offer # Missing    \* _binding_from_item does not raise

(* What the platform polls: "succeeded" also when the binding is gone. *)
LastOperation(row) ==
    CASE Absent(row)                               -> "succeeded"
      [] ~Absent(row) /\ ~Readable(row)            -> "500"
      [] Readable(row) /\ row.state = "binding"    -> "in progress"
      [] Readable(row) /\ row.state = "bound"      -> "succeeded"

Running(r, op, step) == call[r].op = op /\ pc[r] = step /\ resp[r] = "none"

Goto(r, step) == /\ pc' = [pc EXCEPT ![r] = step]
                 /\ UNCHANGED <<call, resp, rows, tasks, creator>>

Answer(r, code) == /\ resp' = [resp EXCEPT ![r] = code]
                   /\ UNCHANGED <<call, pc, rows, tasks, creator>>

Arrive(r) == /\ pc[r] = "new"
             /\ Goto(r, IF call[r].op = "bind" THEN "look" ELSE "read")

(* bind looks at its instance: gone, not bindable, half a row, or fine. *)
LookAtInstance(r) == /\ Running(r, "bind", "look")
                     /\ \/ Goto(r, "read")
                        \/ \E code \in {"404", "409", "500"} : Answer(r, code)

(* A row of another offer is only found out by the put; mutant: the task   *)
(* is queued before there is a row.                                        *)
BindQueuedFirst(r) == Running(r, "bind", "read") /\ Absent(RowOf(r)) /\ Goto(r, "send")
BindRead(r) ==
    LET row == RowOf(r)
        same == Readable(row) /\ row.offer = call[r].offer
    IN /\ Running(r, "bind", "read")
       /\ \/ ~Absent(row) /\ ~Readable(row) /\ Answer(r, "500")
          \/ same /\ Answer(r, IF row.creds = NoCredentials THEN "201 empty" ELSE "201")
          \/ Absent(row) /\ Goto(r, "write")
          \/ Readable(row) /\ ~same /\ Goto(r, "write")

(* The put of a bind; mutant: without attribute_not_exists. *)
FreeForAll(b) == TRUE
FreeToCreate(b) == Absent(rows[b])

BindCreate(r) ==
    LET b == call[r].id
    IN /\ Running(r, "bind", "write")
       /\ \/ /\ FreeToCreate(b)
             /\ rows' = [rows EXCEPT ![b] = NewRow(call[r].offer)]
             /\ creator' = [creator EXCEPT ![b] = r]
             /\ pc' = [pc EXCEPT ![r] = "send"]
             /\ UNCHANGED <<call, resp, tasks>>
          \/ ~FreeToCreate(b) /\ Answer(r, "422")

(* The answer carries a placeholder for the password. *)
BindSend(r) ==
    /\ Running(r, "bind", "send")
    /\ Task!Send(r)
    /\ pc' = [pc EXCEPT ![r] = "sent"]
    /\ resp' = [resp EXCEPT ![r] = "201"]
    /\ UNCHANGED <<call, rows, creator>>

UnbindRead(r) ==
    LET row == RowOf(r)
    IN /\ Running(r, "unbind", "read")
       /\ \/ Absent(row) /\ Answer(r, "404")
          \/ ~Absent(row) /\ ~Readable(row) /\ Answer(r, "500")
          \/ Readable(row) /\ row.offer # call[r].offer /\ Answer(r, "400")
          \/ Readable(row) /\ row.offer = call[r].offer /\ Goto(r, "send")

UnbindSend(r) ==
    /\ Running(r, "unbind", "send")
    /\ Task!Send(r)
    /\ pc' = [pc EXCEPT ![r] = "sent"]
    /\ UNCHANGED <<call, resp, rows, creator>>

(* delete_item carries no condition: it removes whatever is there now. *)
UnbindRemove(r) ==
    LET b == call[r].id
    IN /\ Running(r, "unbind", "sent")
       /\ rows' = [rows EXCEPT ![b] = NoRow]
       /\ creator' = [creator EXCEPT ![b] = NoRequest]
       /\ pc' = [pc EXCEPT ![r] = "removed"]
       /\ resp' = [resp EXCEPT ![r] = "200"]
       /\ UNCHANGED <<call, tasks>>

(* A handler ends before its next call; what it did stays done. *)
Abort(r) == /\ "abort" \in Faults
            /\ pc[r] # "new" /\ resp[r] = "none"
            /\ Answer(r, "500")

------------------------------------------------------------------------------
(* The task handlers of the worker. *)

Take(w, r) ==
    /\ Task!Take(w, r, IF call[r].op = "bind" THEN "complete" ELSE "cleanup")
    /\ UNCHANGED <<call, pc, resp, rows, creator>>

(* BindingStore.complete writes into the row that is there now; mutant: it *)
(* leaves the state alone.                                                 *)
CompletedQuietly(row, creds) == [row EXCEPT !.creds = creds]
Completed(row, creds) == [row EXCEPT !.state = "bound", !.creds = creds]

Complete(w) ==
    LET r == job[w]
        fresh == [of |-> r, nth |-> handled[r] + 1]
    IN /\ Task!Finish(w, "complete")
       /\ rows' = [rows EXCEPT ![call[r].id] = Completed(@, fresh)]
       /\ UNCHANGED <<call, pc, resp, creator>>

(* _unbind only logs. *)
Cleanup(w) == /\ Task!Finish(w, "cleanup")
              /\ UNCHANGED <<call, pc, resp, rows, creator>>

Fail(w) == /\ "fail" \in Faults
           /\ at[w] = "complete"
           /\ Task!Fail(w)
           /\ UNCHANGED <<call, pc, resp, rows, creator>>

(* The steps of the loop and of the queue leave the table alone. *)
Loop(w) == /\ \/ Task!Poll(w) \/ Task!Ack(w) \/ Task!Restart(w)
              \/ Task!Crash(w) \/ Task!RequestStop(w)
           /\ UNCHANGED <<call, pc, resp, rows, creator>>

Requeue(r) == /\ Task!Expire(r) \/ Task!Redrive(r)
              /\ UNCHANGED <<call, pc, resp, rows, creator>>

Handle(r) == \/ LookAtInstance(r) \/ BindRead(r) \/ BindCreate(r) \/ BindSend(r)
             \/ UnbindRead(r) \/ UnbindSend(r) \/ UnbindRemove(r)

Work(w) == \/ \E r \in Requests : Take(w, r)
           \/ Complete(w) \/ Cleanup(w) \/ Fail(w)

Next == \/ \E r \in Requests : Arrive(r) \/ Handle(r) \/ Abort(r) \/ Requeue(r)
        \/ \E w \in Workers : Work(w) \/ Loop(w)

Spec == Init /\ [][Next]_vars

(* A platform that waits starts an operation of a binding only when no     *)
(* other is running and last_operation does not say "in progress".  The    *)
(* broker does not make it wait.                                           *)
Active(r) == pc[r] # "new" /\ resp[r] = "none"
Free(b) == /\ LastOperation(rows[b]) # "in progress"
           /\ \A r \in Requests : call[r].id = b => ~Active(r)
Patient == \A r \in Requests : pc[r] = "new" /\ pc'[r] # "new" => Free(call[r].id)

WaitingSpec == Init /\ [][Next /\ Patient]_vars

------------------------------------------------------------------------------
(* Properties. *)

(* A binding that last_operation reports "in progress" has a bind task     *)
(* that is about to be queued, queued, being handled or dead, or the       *)
(* handler that put the row died: neither an unbind that passes, nor a     *)
(* redelivery, nor a second bind leaves it waiting for nothing             *)
(* (routes.py:204-235, worker/main.py:141-151).                            *)
BindingInProgressIsBacked ==
    \A b \in Bindings :
        LastOperation(rows[b]) = "in progress" =>
            /\ creator[b] # NoRequest
            /\ pc[creator[b]] = "send" \/ Task!Unacknowledged(creator[b])

(* Credentials a binding has are replaced only by another handling of the  *)
(* message they were generated for, or after an unbind of that binding     *)
(* removed a row: two binds never overwrite each other's credentials       *)
(* (storage.py:225, 240).                                                  *)
OneBindPerRow ==
    [][\A b \in Bindings :
          LET old == rows[b].creds
              new == rows'[b].creds
          IN /\ old # NoCredentials /\ new # NoCredentials
             /\ old.of # new.of
             => \E r \in Requests : /\ call[r].op = "unbind" /\ call[r].id = b
                                    /\ pc[r] = "removed"]_vars

(* A row that no bind puts is the trace of a removed one: it appears only  *)
(* when the task of a bind is carried out after an unbind of that binding, *)
(* which looks at no task before it deletes the row (routes.py:249-262,    *)
(* storage.py:233-250).                                                    *)
ComesBackAfterUnbind ==
    [][\A b \in Bindings :
          Absent(rows[b]) /\ ~Absent(rows'[b]) =>
              \E r \in Requests :
                 /\ call[r].id = b
                 /\ \/ call[r].op = "bind" /\ pc[r] = "write" /\ pc'[r] = "send"
                    \/ call[r].op = "unbind" /\ pc[r] = "removed"]_vars

(* A binding that was removed comes back only through a bind:              *)
(* tests/e2e/test_bind_unbind.py:58 expects an unbound binding to be gone, *)
(* and README.md:680 counts on it.                                         *)
OnlyBindCreates ==
    [][\A b \in Bindings :
          Absent(rows[b]) /\ ~Absent(rows'[b]) =>
              \E r \in Requests : /\ call[r].op = "bind" /\ call[r].id = b
                                  /\ pc[r] = "write" /\ pc'[r] = "send"]_vars

(* To a platform that waits a binding is absent, in progress, bound once   *)
(* with credentials that stay, and gone after the unbind, as long as no    *)
(* worker crashes and no batch outlives its visibility timeout; see        *)
(* BindingContract.                                                        *)
Contract == INSTANCE BindingContract WITH
                Ids <- Bindings, Kinds <- Offers, Secrets <- Credentials,
                NoKind <- Missing, NoSecret <- NoCredentials,
                phase <- [b \in Bindings |-> rows[b].state],
                kind <- [b \in Bindings |-> rows[b].offer],
                secret <- [b \in Bindings |-> rows[b].creds]
KeepsBindingContract == Contract!ContractSpec
==============================================================================
