----------------------------- MODULE OsbInstances -----------------------------
(***************************************************************************)
(* The life of service instances in the Open Service Broker: the API       *)
(* handlers that write a row and queue a task (api/routes.py), the task    *)
(* queue (TaskQueue), and the worker that turns tasks into artifacts and   *)
(* rows (worker/main.py).  One action is one call of a handler to DynamoDB,*)
(* S3 or SQS with the local computation that leads to it, so the handlers  *)
(* of several requests and the workers interleave between any two calls.   *)
(* A request sends at most one message; the message has its name.          *)
(***************************************************************************)
EXTENDS InstanceRecords, Naturals, FiniteSets

CONSTANTS Requests,     \* calls of the platform, each with its message
          Menu,         \* Menu[r]: the calls request r may be
          Instances, Workers,
          MaxReceive, MaxBatch,
          Faults,       \* what goes wrong in the environment, see TaskWorker
          Serial,       \* the platform waits for an operation to end
          NoRequest, NoArtifact

Calls == [op : Ops, inst : Instances, config : Configs, async : BOOLEAN]

ASSUME InstancesAssumption ==
    /\ Menu \in [Requests -> SUBSET Calls]
    /\ \A r \in Requests : \A c \in Menu[r] :
          /\ c.config.service # Missing
          /\ c.op # "update" => c.config.plan # Missing
    /\ MaxReceive \in Nat \ {0} /\ MaxBatch \in Nat \ {0}
    /\ Serial \in BOOLEAN
    /\ NoRequest \notin Requests
    /\ NoArtifact \notin Configs

VARIABLES call,         \* the call a request makes, fixed from the start
          pc, resp,     \* where its handler is, and what it answered
          body,         \* the config the handler writes and sends
          sendable,     \* whether json.dumps takes that config
          rows,         \* the instances table
          artifacts,    \* the artifact bucket
          status, receives, at, job, held, stopping, handled, \* see TaskWorker
          writer        \* history: the request a row was last written for

(* The steps of _provision, _update and _deprovision *)
TaskSteps == {"get", "write", "record", "erase", "remove"}

Task == INSTANCE TaskWorker WITH Messages <- Requests, Steps <- TaskSteps,
                                 NoMessage <- NoRequest

api == <<pc, resp, body, sendable>>
tasks == <<status, receives, at, job, held, stopping, handled>>
vars == <<call, api, rows, artifacts, tasks, writer>>

Codes == {"none", "202", "400", "404", "409", "422", "500"}

(* The type invariant: rows, artifacts, handlers, workers and the queue.   *)
TypeOK ==
    /\ call \in [Requests -> Calls]
    /\ pc \in [Requests -> {"new", "read", "write", "send", "sent"}]
    /\ resp \in [Requests -> Codes]
    /\ body \in [Requests -> Configs]
    /\ sendable \in [Requests -> BOOLEAN]
    /\ rows \in [Instances -> Rows]
    /\ artifacts \in [Instances -> Configs \cup {NoArtifact}]
    /\ Task!WorkerTypeOK
    /\ writer \in [Instances -> Requests \cup {NoRequest}]

Init ==
    /\ call \in {f \in [Requests -> UNION {Menu[r] : r \in Requests}] :
                    \A r \in Requests : f[r] \in Menu[r]}
    /\ pc = [r \in Requests |-> "new"]
    /\ resp = [r \in Requests |-> "none"]
    /\ body = [r \in Requests |-> NoConfig]
    /\ sendable = [r \in Requests |-> TRUE]
    /\ rows = [i \in Instances |-> NoRow]
    /\ artifacts = [i \in Instances |-> NoArtifact]
    /\ Task!WorkerInit
    /\ writer = [i \in Instances |-> NoRequest]

------------------------------------------------------------------------------
(* The API handlers. *)

Absent(i) == rows[i].state = "absent"

Running(r, step) == pc[r] = step /\ resp[r] = "none"

(* instance_last_operation: the states that are not done map to "in        *)
(* progress"; "failed" is in the map of the code but nothing writes it.    *)
LastOperation(i) ==
    CASE Absent(i)                                          -> "404"
      [] ~Absent(i) /\ ~Readable(rows[i])                   -> "500"
      [] Readable(rows[i]) /\ rows[i].state \in InProgress  -> "in progress"
      [] Readable(rows[i]) /\ rows[i].state = "available"   -> "succeeded"

(* What a platform that runs one operation of an instance at a time waits  *)
(* for: no call of it is running and the last one is not in progress.      *)
Free(i) == /\ LastOperation(i) # "in progress"
           /\ \A r \in Requests : call[r].inst = i /\ pc[r] # "new"
                                     => resp[r] # "none"

Answer(r, code) == /\ resp' = [resp EXCEPT ![r] = code]
                   /\ UNCHANGED <<call, pc, body, sendable, rows, artifacts, tasks, writer>>

(* A request reaches its handler, which refuses what is not asynchronous. *)
Arrive(r) ==
    /\ pc[r] = "new"
    /\ Serial => Free(call[r].inst)
    /\ pc' = [pc EXCEPT ![r] = "read"]
    /\ resp' = IF call[r].async THEN resp ELSE [resp EXCEPT ![r] = "422"]
    /\ UNCHANGED <<call, body, sendable, rows, artifacts, tasks, writer>>

(* The handler has read a row it goes on with. *)
Continue(r, config, dumps) ==
    /\ pc' = [pc EXCEPT ![r] = "write"]
    /\ body' = [body EXCEPT ![r] = config]
    /\ sendable' = [sendable EXCEPT ![r] = dumps]
    /\ UNCHANGED <<call, resp, rows, artifacts, tasks, writer>>

ProvisionRead(r) ==
    LET c == call[r]
        row == rows[c.inst]
        same == /\ row.config.service = c.config.service
                /\ row.config.plan = c.config.plan
    IN /\ Running(r, "read")
       /\ c.op = "provision"
       /\ \/ Absent(c.inst) /\ Continue(r, c.config, TRUE)
          \/ ~Absent(c.inst) /\ ~Readable(row) /\ Answer(r, "500")
          \/ ~Absent(c.inst) /\ Readable(row) /\ same /\ Answer(r, "202")
          \/ ~Absent(c.inst) /\ Readable(row) /\ ~same /\ Answer(r, "409")

UpdateRead(r) ==
    LET c == call[r]
        row == rows[c.inst]
    IN /\ Running(r, "read")
       /\ c.op = "update"
       /\ \/ Absent(c.inst) /\ Answer(r, "404")
          \/ ~Absent(c.inst) /\ ~Readable(row) /\ Answer(r, "500")
          \/ /\ ~Absent(c.inst) /\ Readable(row)
             /\ Continue(r, Updated(row, c.config), Dumps(row, c.config))

DeprovisionRead(r) ==
    LET c == call[r]
        row == rows[c.inst]
        same == /\ row.config.service = c.config.service
                /\ row.config.plan = c.config.plan
    IN /\ Running(r, "read")
       /\ c.op = "deprovision"
       /\ \/ Absent(c.inst) /\ Answer(r, "404")
          \/ ~Absent(c.inst) /\ ~Readable(row) /\ Answer(r, "500")
          \/ ~Absent(c.inst) /\ Readable(row) /\ ~same /\ Answer(r, "400")
          \/ ~Absent(c.inst) /\ Readable(row) /\ same /\ Continue(r, NoConfig, TRUE)

Wrote(r, row) ==
    /\ rows' = [rows EXCEPT ![call[r].inst] = row]
    /\ writer' = [writer EXCEPT ![call[r].inst] = r]
    /\ pc' = [pc EXCEPT ![r] = "send"]
    /\ UNCHANGED <<call, resp, body, sendable, artifacts, tasks>>

(* The put carries attribute_not_exists; the loser of a race answers 422. *)
ProvisionCreate(r) ==
    /\ Running(r, "write")
    /\ call[r].op = "provision"
    /\ \/ Absent(call[r].inst) /\ Wrote(r, NewRow(body[r]))
       \/ ~Absent(call[r].inst) /\ Answer(r, "422")

(* The updates carry no condition: they write whatever row is there now. *)
UpdateTransition(r) ==
    /\ Running(r, "write")
    /\ call[r].op = "update"
    /\ Wrote(r, MovedWith(rows[call[r].inst], "updating", body[r]))

DeprovisionTransition(r) ==
    /\ Running(r, "write")
    /\ call[r].op = "deprovision"
    /\ Wrote(r, Moved(rows[call[r].inst], "deprovisioning"))

(* The message is queued.  An answer that is lost on its way back is not  *)
(* told apart from one that arrives: nothing depends on it.               *)
Send(r) ==
    /\ Running(r, "send")
    /\ sendable[r]
    /\ Task!Send(r)
    /\ pc' = [pc EXCEPT ![r] = "sent"]
    /\ resp' = [resp EXCEPT ![r] = "202"]
    /\ UNCHANGED <<call, body, sendable, rows, artifacts, writer>>

(* json.dumps raises after the row was written. *)
SendRaises(r) == Running(r, "send") /\ ~sendable[r] /\ Answer(r, "500")

(* A handler ends before its next call; what it wrote stays written. *)
Abort(r) == /\ "abort" \in Faults
            /\ pc[r] \in {"read", "write", "send"} /\ resp[r] = "none"
            /\ Answer(r, "500")

------------------------------------------------------------------------------
(* The task handlers of the worker. *)

(* The first call of an operation; mutant: deprovisioning leaves S3 alone. *)
FirstStepSkipsErase(op) == CASE op = "provision"   -> "write"
                             [] op = "update"      -> "get"
                             [] op = "deprovision" -> "remove"
FirstStep(op) == CASE op = "provision"   -> "write"
                   [] op = "update"      -> "get"
                   [] op = "deprovision" -> "erase"

Take(w, r) == /\ Task!Take(w, r, FirstStep(call[r].op))
              /\ UNCHANGED <<call, api, rows, artifacts, writer>>

(* _update reads the row; when there is none, it returns. *)
Get(w) ==
    LET i == call[job[w]].inst
    IN /\ \/ /\ Task!Finish(w, "get")
             /\ Absent(i)
          \/ /\ Task!Advance(w, "get", "write")
             /\ ~Absent(i) /\ Readable(rows[i])
       /\ UNCHANGED <<call, api, rows, artifacts, writer>>

(* render_resources and ArtifactStore.write *)
Write(w) ==
    LET r == job[w]
    IN /\ Task!Advance(w, "write", "record")
       /\ Renders(body[r])
       /\ artifacts' = [artifacts EXCEPT ![call[r].inst] = body[r]]
       /\ UNCHANGED <<call, api, rows, writer>>

(* The row after the artifact of a task was written; mutants: an update    *)
(* keeps the state of the row, or leaves plan and parameters to the API.   *)
RecordedBare(row, op, config) == [Moved(row, "available") EXCEPT !.keyed = TRUE]
RecordedQuietly(row, op, config) ==
    [(IF op = "provision" THEN Moved(row, "available")
                          ELSE MovedWith(row, row.state, config))
        EXCEPT !.keyed = TRUE]
Recorded(row, op, config) ==
    [(IF op = "provision" THEN Moved(row, "available")
                          ELSE MovedWith(row, "available", config))
        EXCEPT !.keyed = TRUE]

Record(w) ==
    LET r == job[w]
        i == call[r].inst
    IN /\ Task!Finish(w, "record")
       /\ rows' = [rows EXCEPT ![i] = Recorded(rows[i], call[r].op, body[r])]
       /\ writer' = [writer EXCEPT ![i] = r]
       /\ UNCHANGED <<call, api, artifacts>>

(* ArtifactStore.delete *)
Erase(w) ==
    /\ Task!Advance(w, "erase", "remove")
    /\ artifacts' = [artifacts EXCEPT ![call[job[w]].inst] = NoArtifact]
    /\ UNCHANGED <<call, api, rows, writer>>

(* InstanceStore.delete *)
Remove(w) ==
    LET i == call[job[w]].inst
    IN /\ Task!Finish(w, "remove")
       /\ rows' = [rows EXCEPT ![i] = NoRow]
       /\ writer' = [writer EXCEPT ![i] = NoRequest]
       /\ UNCHANGED <<call, api, artifacts>>

(* A handler raises: a parameter does not render, the row is half a row,   *)
(* or a call fails.                                                        *)
Fail(w) ==
    LET r == job[w]
        row == rows[call[r].inst]
    IN /\ Task!Fail(w)
       /\ \/ at[w] = "write" /\ ~Renders(body[r])
          \/ at[w] = "get" /\ ~Absent(call[r].inst) /\ ~Readable(row)
          \/ "fail" \in Faults
       /\ UNCHANGED <<call, api, rows, artifacts, writer>>

(* The steps of the loop and of the queue leave the broker's data alone. *)
Loop(w) == /\ Task!Poll(w) \/ Task!Ack(w) \/ Task!Restart(w)
           /\ UNCHANGED <<call, api, rows, artifacts, writer>>

Disturb(w) == /\ Task!Crash(w) \/ Task!RequestStop(w)
              /\ UNCHANGED <<call, api, rows, artifacts, writer>>

Requeue(r) == /\ Task!Expire(r) \/ Task!Redrive(r)
              /\ UNCHANGED <<call, api, rows, artifacts, writer>>

------------------------------------------------------------------------------

Handle(r) == \/ ProvisionRead(r) \/ UpdateRead(r) \/ DeprovisionRead(r)
             \/ ProvisionCreate(r) \/ UpdateTransition(r) \/ DeprovisionTransition(r)
             \/ Send(r) \/ SendRaises(r)

Work(w) == \/ \E r \in Requests : Take(w, r)
           \/ Get(w) \/ Write(w) \/ Record(w) \/ Erase(w) \/ Remove(w) \/ Fail(w)

Next == \/ \E r \in Requests : Arrive(r) \/ Handle(r) \/ Abort(r) \/ Requeue(r)
        \/ \E w \in Workers : Work(w) \/ Loop(w) \/ Disturb(w)

Spec == Init /\ [][Next]_vars

(* Handlers and workers run on, compose restarts a worker that exited, the *)
(* visibility timeout runs out and a polling worker makes SQS redrive.     *)
(* Nothing makes a platform call, and nothing makes a fault happen.        *)
Fairness == /\ \A r \in Requests : WF_vars(Handle(r)) /\ WF_vars(Requeue(r))
            /\ \A w \in Workers : WF_vars(Work(w)) /\ WF_vars(Loop(w))

FairSpec == Spec /\ Fairness

------------------------------------------------------------------------------
(* Properties. *)

(* The promises of TaskLedger, for these tasks. *)
KeepsLedger == Task!KeepsLedger
EmptiesLedger == Task!EmptiesLedger

StateOf(op) == CASE op = "provision"   -> "provisioning"
                 [] op = "update"      -> "updating"
                 [] op = "deprovision" -> "deprovisioning"

(* A row that last_operation reports "in progress" was put there by a call *)
(* that is about to queue its task or died doing so, or whose task is      *)
(* queued, being handled or dead-lettered: no acknowledged task ever       *)
(* leaves a row in progress behind, whatever fails and however often it    *)
(* is delivered (routes.py:61-77, worker/main.py:61-91).                   *)
InProgressIsBacked ==
    \A i \in Instances :
        rows[i].state \in InProgress =>
            LET r == writer[i]
            IN /\ r # NoRequest
               /\ call[r].inst = i
               /\ rows[i].state = StateOf(call[r].op)
               /\ pc[r] = "send" \/ Task!Unacknowledged(r)

(* Nothing of request r is still to come: its handler is not between its   *)
(* write and its message, and its message is not queued, held or dead.     *)
Quiet(r) == /\ pc[r] # "send"
            /\ ~Task!Unacknowledged(r)
            /\ \A w \in Workers : held[w][r] = 0

AtRest(i) == \A r \in Requests : call[r].inst = i => Quiet(r)

(* What the control plane serves is what the row asks for. *)
Wish(config) == [plan |-> config.plan, params |-> config.params]

(* The task applied last is a provision that comes late: the row it made   *)
(* available has what another task of the instance carried out left of it, *)
(* which is half a row without service_id after a deprovision, and         *)
(* otherwise what another provision or update asked for.                   *)
LateProvision(i) ==
    LET q == writer[i]
    IN /\ call[q].op = "provision" /\ artifacts[i] = body[q]
       /\ \E r \in Requests \ {q} :
             /\ call[r].inst = i /\ handled[r] > 0
             /\ IF Readable(rows[i])
                  THEN call[r].op # "deprovision" /\ Wish(rows[i].config) = Wish(body[r])
                  ELSE call[r].op = "deprovision"

(* With one worker, an instance nothing is pending for is either gone from *)
(* the table and the bucket, or available with an artifact of the plan and *)
(* the parameters of its row.  What is left wrong otherwise is left by a   *)
(* provision alone that is handled, again or for the first time, after     *)
(* another task of the instance: no redelivered or reordered update or     *)
(* deprovision, no failure between two calls and no handler that dies      *)
(* leaves a row and an artifact that differ (worker/main.py:93-139).       *)
AtRestAgreement ==
    \A i \in Instances :
        AtRest(i) =>
            \/ Absent(i) /\ artifacts[i] = NoArtifact
            \/ /\ rows[i].state = "available" /\ rows[i].keyed
               /\ artifacts[i] # NoArtifact
               /\ \/ Readable(rows[i]) /\ Wish(artifacts[i]) = Wish(rows[i].config)
                  \/ LateProvision(i)

(* A platform that waits for each operation to end can believe what it     *)
(* reads: "succeeded" means that the artifact is published with the plan   *)
(* and the parameters of the row, also after updates that failed on the    *)
(* way and were delivered again, and a 404 that none is left               *)
(* (routes.py:160-184, worker/main.py:93-139).                             *)
SucceededIsPublished ==
    \A i \in Instances :
        /\ LastOperation(i) = "succeeded" =>
              /\ rows[i].keyed /\ artifacts[i] # NoArtifact
              /\ Wish(artifacts[i]) = Wish(rows[i].config)
        /\ LastOperation(i) = "404" => artifacts[i] = NoArtifact

(* A platform that waits for each operation to end gets what the broker    *)
(* promises, as long as no worker crashes and no batch outlives its        *)
(* visibility timeout; see BrokerContract.                                 *)
Contract == INSTANCE BrokerContract
              WITH Ids <- Instances,
                   Asks <- [i \in Instances |->
                              {Wish(c.config) : c \in {d \in UNION {Menu[r] : r \in Requests} :
                                                          d.inst = i}}],
                   Nothing <- NoArtifact,
                   phase <- [i \in Instances |-> rows[i].state],
                   wanted <- [i \in Instances |-> Wish(rows[i].config)],
                   live <- [i \in Instances |->
                              IF artifacts[i] = NoArtifact THEN NoArtifact
                              ELSE Wish(artifacts[i])]

KeepsContract == Contract!ContractSpec

(* A row in progress ends that, or its task was never queued because the   *)
(* handler died, or every delivery of the task failed.                     *)
Stuck(i) == LET r == writer[i]
            IN /\ r # NoRequest
               /\ \/ pc[r] = "send" /\ resp[r] = "500"
                  \/ status[r] = "dead"

OperationEnds ==
    \A i \in Instances :
        rows[i].state \in InProgress ~> rows[i].state \notin InProgress \/ Stuck(i)

(* last_operation does not say "in progress" for ever while the worker     *)
(* runs: README.md:634 gives a worker that is not running as the cause.    *)
LastOperationMoves ==
    \A i \in Instances :
        LastOperation(i) = "in progress" ~> LastOperation(i) # "in progress"

(* Handling a message once more does not change the table again:           *)
(* services/osb/README.md:33 calls the message id the idempotency key and  *)
(* says that conditional writes prevent duplicate provisions.              *)
RepeatsChangeNothing ==
    [][\A r \in Requests :
          handled[r] > 0 /\ handled'[r] > handled[r] => UNCHANGED rows]_vars
==============================================================================
