-------------------------- MODULE OsbInstancesProofs --------------------------
(***************************************************************************)
(* Theorems about OsbInstances, for any number of requests, instances and  *)
(* workers, any batch size and receive limit, and every set of faults:     *)
(* type correctness, the task ledger, that no row is left in progress      *)
(* without a task to finish it, that a task handled again changes nothing  *)
(* while no worker crashes and nothing is delivered while it is held, and  *)
(* that with one worker only a late provision leaves table and bucket      *)
(* apart at rest.  What holds of every worker loop is taken from           *)
(* TaskWorkerProofs.                                                       *)
(***************************************************************************)
EXTENDS OsbInstances, TLAPS

W == INSTANCE TaskWorkerProofs WITH Messages <- Requests, Steps <- TaskSteps,
                                    NoMessage <- NoRequest

(* What the helpers of InstanceRecords return. *)
LEMMA MergeType ==
    ASSUME NEW old \in Params, NEW new \in Params
    PROVE  Merge(old, new) \in Params
  BY DEF Merge, Params

(* The marks of an absent row and configuration have their types. *)
LEMMA NoRowType == NoConfig \in Configs /\ NoRow \in Rows
  BY DEF NoConfig, Configs, NoParams, Params, NoRow, Rows, States

(* A configuration merged with a request is one. *)
LEMMA UpdatedType ==
    ASSUME NEW row \in Rows, NEW asked \in Configs
    PROVE  Updated(row, asked) \in Configs
  BY MergeType DEF Updated, Rows, Configs

(* A provision writes a full row. *)
LEMMA NewRowType ==
    ASSUME NEW config \in Configs
    PROVE  NewRow(config) \in Rows /\ NewRow(config).state = "provisioning"
  BY DEF NewRow, Rows, States

(* transition writes a row, of an absent one half a row. *)
LEMMA MovedType ==
    ASSUME NEW row \in Rows, NEW state \in States
    PROVE  Moved(row, state) \in Rows /\ Moved(row, state).state = state
  BY DEF Moved, Rows

(* So does transition with plan and parameters. *)
LEMMA MovedWithType ==
    ASSUME NEW row \in Rows, NEW state \in States, NEW config \in Configs
    PROVE  /\ MovedWith(row, state, config) \in Rows
           /\ MovedWith(row, state, config).state = state
  <1>1. [row.config EXCEPT !.plan = config.plan, !.params = config.params] \in Configs
    BY DEF Rows, Configs
  <1>2. QED
    BY <1>1 DEF MovedWith, Rows

(* What a worker writes to the table is a row, and available. *)
LEMMA RecordedType ==
    ASSUME NEW row \in Rows, NEW op \in Ops, NEW config \in Configs
    PROVE  /\ Recorded(row, op, config) \in Rows
           /\ Recorded(row, op, config).state = "available"
  <1> DEFINE moved == IF op = "provision" THEN Moved(row, "available")
                                          ELSE MovedWith(row, "available", config)
  <1>1. "available" \in States
    BY DEF States
  <1>2. moved \in Rows /\ moved.state = "available"
    BY <1>1, MovedType, MovedWithType
  <1>3. [moved EXCEPT !.keyed = TRUE] \in Rows
        /\ [moved EXCEPT !.keyed = TRUE].state = "available"
    <2> HIDE DEF moved
    <2> QED BY <1>2 DEF Rows
  <1>4. QED
    BY <1>3 DEF Recorded

(* transition keeps service_id as it is, and plan and parameters too when  *)
(* it is not given any.                                                    *)
LEMMA MovedFields ==
    ASSUME NEW row \in Rows, NEW state \in States, NEW config \in Configs
    PROVE  /\ Moved(row, state).config = row.config
           /\ Readable(MovedWith(row, state, config)) <=> Readable(row)
           /\ Wish(MovedWith(row, state, config).config) = Wish(config)
  <1> DEFINE merged == [row.config EXCEPT !.plan = config.plan, !.params = config.params]
  <1>1. /\ merged.service = row.config.service /\ merged.plan = config.plan
        /\ merged.params = config.params
    BY DEF Rows, Configs
  <1>2. MovedWith(row, state, config).config = merged
    BY DEF MovedWith, Rows
  <1> HIDE DEF merged
  <1>3. Moved(row, state).config = row.config
    BY DEF Moved, Rows
  <1> QED BY <1>1, <1>2, <1>3 DEF Readable, Wish

(* A recorded row has the key of its artifact and is half a row if it was. *)
(* An update writes what the artifact was rendered from, a provision       *)
(* leaves plan and parameters as they are.                                 *)
LEMMA RecordedFields ==
    ASSUME NEW row \in Rows, NEW op \in Ops, NEW config \in Configs
    PROVE  LET new == Recorded(row, op, config)
           IN /\ new.state = "available" /\ new.keyed
              /\ Readable(new) <=> Readable(row)
              /\ Wish(new.config) = IF op = "provision" THEN Wish(row.config)
                                                        ELSE Wish(config)
  <1> DEFINE moved == IF op = "provision" THEN Moved(row, "available")
                                          ELSE MovedWith(row, "available", config)
  <1>1. "available" \in States
    BY DEF States
  <1>2. /\ moved \in Rows /\ moved.state = "available"
        /\ Readable(moved) <=> Readable(row)
        /\ Wish(moved.config) = IF op = "provision" THEN Wish(row.config) ELSE Wish(config)
    BY <1>1, MovedType, MovedWithType, MovedFields DEF Readable
  <1>3. /\ [moved EXCEPT !.keyed = TRUE].state = moved.state
        /\ [moved EXCEPT !.keyed = TRUE].config = moved.config
        /\ [moved EXCEPT !.keyed = TRUE].keyed
    <2> HIDE DEF moved
    <2> QED BY <1>2 DEF Rows
  <1>4. Recorded(row, op, config) = [moved EXCEPT !.keyed = TRUE]
    BY DEF Recorded
  <1> HIDE DEF moved
  <1> QED BY <1>2, <1>3, <1>4 DEF Readable

------------------------------------------------------------------------------
(* The broker's tasks run on the worker loop: Task and W name the same     *)
(* actions, the first in the model, the second in the proofs.              *)

(* The loop is used within its assumptions. *)
LEMMA LoopAssumption == W!WorkerAssumption
  BY InstancesAssumption DEF W!WorkerAssumption, TaskSteps

(* The broker starts its workers as the loop does. *)
LEMMA SameInit == Task!WorkerInit => W!WorkerInit
  BY DEF W!WorkerInit, Task!WorkerInit, W!QueueInit, Task!QueueInit

(* What the queue does of itself is the same in both. *)
LEMMA SameMessageSteps ==
    ASSUME NEW r \in Requests
    PROVE  /\ Task!Send(r) => W!Send(r)
           /\ Task!Expire(r) => W!Expire(r)
           /\ Task!Redrive(r) => W!Redrive(r)
  <1>1. Task!Send(r) => W!Send(r)
    BY DEF W!Send, Task!Send, W!Sent, Task!Sent, W!workerVars, Task!workerVars
  <1>2. Task!Expire(r) => W!Expire(r)
    BY DEF W!Expire, Task!Expire, W!Expired, Task!Expired, W!workerVars, Task!workerVars
  <1>3. Task!Redrive(r) => W!Redrive(r)
    BY DEF W!Redrive, Task!Redrive, W!Redriven, Task!Redriven, W!Exhausted,
           Task!Exhausted, W!Idle, Task!Idle, W!Held, Task!Held,
           W!workerVars, Task!workerVars
  <1>4. QED
    BY <1>1, <1>2, <1>3

(* Polling is the same in both. *)
LEMMA SamePoll ==
    ASSUME NEW w \in Workers, Task!Poll(w)
    PROVE  W!Poll(w)
  <1>1. ASSUME NEW batch \in SUBSET Requests
        PROVE  Task!Received(batch) <=> W!Received(batch)
    BY Zenon DEF W!Received, Task!Received, W!Receivable, Task!Receivable,
                 W!Cardinality, Task!Cardinality
  <1>2. Task!Idle(w) <=> W!Idle(w)
    BY DEF W!Idle, Task!Idle, W!Held, Task!Held
  <1>3. QED
    BY <1>1, <1>2, Zenon DEF W!Poll, Task!Poll

(* So is every other step of a worker. *)
LEMMA SameWorkerSteps ==
    ASSUME NEW w \in Workers
    PROVE  /\ Task!Ack(w) => W!Ack(w)
           /\ Task!Fail(w) => W!Fail(w)
           /\ Task!Crash(w) => W!Crash(w)
           /\ Task!RequestStop(w) => W!RequestStop(w)
           /\ Task!Restart(w) => W!Restart(w)
           /\ \A r \in Requests, step \in TaskSteps : Task!Take(w, r, step) => W!Take(w, r, step)
           /\ \A from \in TaskSteps : Task!Finish(w, from) => W!Finish(w, from)
           /\ \A from, to \in TaskSteps : Task!Advance(w, from, to) => W!Advance(w, from, to)
  <1>1. Task!Ack(w) => W!Ack(w)
    BY DEF W!Ack, Task!Ack, W!Deleted, Task!Deleted, W!Deliverable, Task!Deliverable,
           W!Drop, Task!Drop
  <1>2. Task!Fail(w) => W!Fail(w)
    BY DEF W!Fail, Task!Fail, W!LeftForRedrive, Task!LeftForRedrive, W!Drop, Task!Drop,
           W!queueVars, Task!queueVars
  <1>3. Task!Crash(w) => W!Crash(w)
    BY DEF W!Crash, Task!Crash, W!Held, Task!Held, W!queueVars, Task!queueVars
  <1>4. Task!RequestStop(w) => W!RequestStop(w)
    BY DEF W!RequestStop, Task!RequestStop, W!Held, Task!Held, W!queueVars, Task!queueVars
  <1>5. Task!Restart(w) => W!Restart(w)
    BY DEF W!Restart, Task!Restart, W!Held, Task!Held, W!queueVars, Task!queueVars
  <1>6. \A r \in Requests, step \in TaskSteps : Task!Take(w, r, step) => W!Take(w, r, step)
    BY DEF W!Take, Task!Take, W!queueVars, Task!queueVars
  <1>7. \A from \in TaskSteps : Task!Finish(w, from) => W!Finish(w, from)
    BY DEF W!Finish, Task!Finish, W!queueVars, Task!queueVars
  <1>8. \A from, to \in TaskSteps : Task!Advance(w, from, to) => W!Advance(w, from, to)
    BY DEF W!Advance, Task!Advance, W!queueVars, Task!queueVars
  <1>9. QED
    BY <1>1, <1>2, <1>3, <1>4, <1>5, <1>6, <1>7, <1>8

(* The first step of every operation is a step of a handler. *)
LEMMA FirstStepType ==
    ASSUME NEW op \in Ops
    PROVE  FirstStep(op) \in TaskSteps
  BY DEF FirstStep, Ops, TaskSteps

(* What a worker does is a step of a handler or one that touches neither   *)
(* the tables nor the bucket.                                              *)
LEMMA WorkIsLoopStep ==
    ASSUME TypeOK, NEW w \in Workers, Work(w) \/ Loop(w) \/ Disturb(w)
    PROVE  W!WorkerNext
  <1>1. CASE \E r \in Requests : Take(w, r)
    <2>1. PICK r \in Requests : Task!Take(w, r, FirstStep(call[r].op))
      BY <1>1 DEF Take
    <2>2. FirstStep(call[r].op) \in TaskSteps
      BY FirstStepType DEF TypeOK, Calls
    <2>3. W!Take(w, r, FirstStep(call[r].op))
      BY <2>1, <2>2, SameWorkerSteps
    <2>4. \E m \in Requests, step \in TaskSteps : W!Take(w, m, step)
      BY <2>2, <2>3, Zenon
    <2> QED BY <2>4, Zenon DEF W!WorkerNext
  <1>2. CASE \/ \E from \in TaskSteps : Task!Finish(w, from)
             \/ \E from, to \in TaskSteps : Task!Advance(w, from, to)
    <2>1. \E from \in TaskSteps : W!Finish(w, from) \/ \E to \in TaskSteps : W!Advance(w, from, to)
      BY <1>2, SameWorkerSteps, Zenon
    <2> QED BY <2>1, Zenon DEF W!WorkerNext
  <1>3. CASE Get(w) \/ Write(w) \/ Record(w) \/ Erase(w) \/ Remove(w)
    <2>1. \A s \in {"get", "write", "record", "erase", "remove"} : s \in TaskSteps
      BY DEF TaskSteps
    <2> QED BY <1>2, <1>3, <2>1 DEF Get, Write, Record, Erase, Remove
  <1>4. CASE \/ Task!Poll(w) \/ Task!Ack(w) \/ Task!Fail(w)
             \/ Task!Crash(w) \/ Task!RequestStop(w) \/ Task!Restart(w)
    <2>1. \/ W!Poll(w) \/ W!Ack(w) \/ W!Fail(w)
          \/ W!Crash(w) \/ W!RequestStop(w) \/ W!Restart(w)
      BY <1>4, SamePoll, SameWorkerSteps
    <2> QED BY <2>1, Zenon DEF W!WorkerNext
  <1>5. QED
    BY <1>1, <1>3, <1>4 DEF Work, Loop, Disturb, Fail

(* A handler leaves the loop alone, or sends. *)
LEMMA RequestIsLoopStep ==
    ASSUME NEW r \in Requests, Arrive(r) \/ Handle(r) \/ Abort(r) \/ Requeue(r)
    PROVE  W!WorkerNext \/ UNCHANGED W!taskVars
  <1>1. CASE Task!Send(r) \/ Task!Expire(r) \/ Task!Redrive(r)
    <2>1. W!Send(r) \/ W!Expire(r) \/ W!Redrive(r)
      BY <1>1, SameMessageSteps
    <2> QED BY <2>1, Zenon DEF W!WorkerNext
  <1>2. CASE UNCHANGED tasks
    BY <1>2 DEF tasks, W!taskVars, W!queueVars, W!workerVars
  <1>3. QED
    BY <1>1, <1>2 DEF Handle, Arrive, Abort, Requeue, Send, SendRaises, ProvisionRead, UpdateRead,
       DeprovisionRead, ProvisionCreate, UpdateTransition, DeprovisionTransition,
       Answer, Continue, Wrote

(* Every step of the broker is one of the loop, or leaves it alone. *)
LEMMA StepIsLoopStep ==
    ASSUME TypeOK, [Next]_vars
    PROVE  [W!WorkerNext]_W!taskVars
  <1>1. CASE UNCHANGED vars
    BY <1>1 DEF vars, tasks, W!taskVars, W!queueVars, W!workerVars
  <1>2. QED
    BY <1>1, WorkIsLoopStep, RequestIsLoopStep DEF Next

------------------------------------------------------------------------------
(* Type correctness. *)

(* The part of TypeOK that is about the broker and not about the loop. *)
DataOK == /\ call \in [Requests -> Calls]
          /\ pc \in [Requests -> {"new", "read", "write", "send", "sent"}]
          /\ resp \in [Requests -> Codes]
          /\ body \in [Requests -> Configs]
          /\ sendable \in [Requests -> BOOLEAN]
          /\ rows \in [Instances -> Rows]
          /\ artifacts \in [Instances -> Configs \cup {NoArtifact}]
          /\ writer \in [Instances -> Requests \cup {NoRequest}]

TypeInv == DataOK /\ W!WorkerInv

(* The strengthened type invariant implies the type invariant. *)
LEMMA TypeInvType == TypeInv => TypeOK
  BY DEF TypeInv, DataOK, TypeOK, W!WorkerInv, W!WorkerTypeOK, Task!WorkerTypeOK,
         W!QueueTypeOK, Task!QueueTypeOK, W!Statuses, Task!Statuses

(* It holds at the start. *)
LEMMA InitType == Init => TypeInv
  <1> SUFFICES ASSUME Init PROVE TypeInv
    OBVIOUS
  <1>1. call \in [Requests -> Calls]
    <2>1. PICK f \in [Requests -> UNION {Menu[r] : r \in Requests}] :
             call = f /\ \A r \in Requests : f[r] \in Menu[r]
      BY DEF Init
    <2>2. \A r \in Requests : f[r] \in Calls
      BY <2>1, InstancesAssumption
    <2> QED BY <2>1, <2>2
  <1>2. rows \in [Instances -> Rows] /\ body \in [Requests -> Configs]
    BY NoRowType DEF Init
  <1>3. W!WorkerInv
    BY LoopAssumption, SameInit, W!WorkerInitInv DEF Init
  <1>4. QED
    BY <1>1, <1>2, <1>3 DEF Init, TypeInv, DataOK, Codes

(* Every step of a handler keeps it. *)
LEMMA RequestType ==
    ASSUME DataOK, NEW r \in Requests, Arrive(r) \/ Handle(r) \/ Abort(r) \/ Requeue(r)
    PROVE  DataOK'
  <1> USE DEF DataOK, api
  <1>1. ASSUME NEW code \in Codes, Answer(r, code)
        PROVE  DataOK'
    BY <1>1 DEF Answer
  <1>2. ASSUME NEW config \in Configs, NEW dumps \in BOOLEAN, Continue(r, config, dumps)
        PROVE  DataOK'
    BY <1>2 DEF Continue
  <1>3. ASSUME NEW row \in Rows, Wrote(r, row)
        PROVE  DataOK'
    BY <1>3 DEF Wrote, Calls
  <1>4. CASE Arrive(r)
    BY <1>4 DEF Arrive, Codes
  <1>5. call[r].inst \in Instances /\ call[r].config \in Configs
        /\ rows[call[r].inst] \in Rows /\ body[r] \in Configs
    BY DEF Calls
  <1>6. \A code \in {"202", "400", "404", "409", "422", "500"} : code \in Codes
    BY DEF Codes
  <1>7. CASE ProvisionRead(r)
    BY <1>5, <1>6, <1>7, <1>1, <1>2 DEF ProvisionRead
  <1>8. CASE UpdateRead(r)
    BY <1>5, <1>6, <1>8, <1>1, <1>2, UpdatedType DEF UpdateRead, Dumps
  <1>9. CASE DeprovisionRead(r)
    BY <1>5, <1>6, <1>9, <1>1, <1>2, NoRowType DEF DeprovisionRead
  <1>10. CASE ProvisionCreate(r)
    BY <1>5, <1>6, <1>10, <1>1, <1>3, NewRowType DEF ProvisionCreate
  <1>11. CASE UpdateTransition(r)
    BY <1>5, <1>11, <1>3, MovedWithType DEF UpdateTransition, States
  <1>12. CASE DeprovisionTransition(r)
    BY <1>5, <1>12, <1>3, MovedType DEF DeprovisionTransition, States
  <1>13. CASE Send(r)
    BY <1>13 DEF Send, Codes
  <1>14. CASE SendRaises(r) \/ Abort(r)
    BY <1>6, <1>14, <1>1 DEF SendRaises, Abort
  <1>15. CASE Requeue(r)
    BY <1>15 DEF Requeue
  <1>16. QED
    BY <1>4, <1>7, <1>8, <1>9, <1>10, <1>11, <1>12, <1>13, <1>14, <1>15 DEF Handle

(* A worker in a handler handles a request. *)
LEMMA WorkingOn ==
    ASSUME TypeInv, NEW w \in Workers, NEW step \in TaskSteps, at[w] = step
    PROVE  /\ job[w] \in Requests /\ call[job[w]] \in Calls
           /\ body[job[w]] \in Configs /\ rows[call[job[w]].inst] \in Rows
           /\ status[job[w]] # "unsent"
  <1> USE DEF TypeInv, W!WorkerInv, W!WorkerTypeOK, W!QueueTypeOK, DataOK
  <1>1. step # "poll"
    BY DEF TaskSteps
  <1>2. job[w] \in Requests /\ held[w][job[w]] > 0
    BY <1>1 DEF W!BusyOK
  <1>3. /\ held[w][job[w]] \in Nat /\ receives[job[w]] \in Nat
        /\ held[w][job[w]] <= receives[job[w]]
        /\ status[job[w]] = "unsent" => receives[job[w]] = 0
    BY <1>2, LoopAssumption DEF W!WorkerAssumption, W!HoldOK
  <1>4. status[job[w]] # "unsent"
    BY <1>2, <1>3
  <1>5. QED
    BY <1>2, <1>4 DEF Calls

(* Every step of a task keeps it. *)
LEMMA WorkType ==
    ASSUME TypeInv, NEW w \in Workers, Work(w) \/ Loop(w) \/ Disturb(w)
    PROVE  DataOK'
  <1> USE DEF TypeInv, DataOK, api
  <1>1. CASE \/ \E r \in Requests : Take(w, r)
             \/ Get(w) \/ Fail(w) \/ Loop(w) \/ Disturb(w)
    BY <1>1 DEF Take, Get, Fail, Loop, Disturb
  <1>2. CASE Write(w)
    <2>1. at[w] = "write"
      BY <1>2 DEF Write, Task!Advance
    <2> QED BY <1>2, <2>1, WorkingOn DEF Write, TaskSteps
  <1>3. CASE Record(w)
    <2>1. at[w] = "record" /\ "record" \in TaskSteps
      BY <1>3 DEF Record, Task!Finish, TaskSteps
    <2>2. Recorded(rows[call[job[w]].inst], call[job[w]].op, body[job[w]]) \in Rows
      BY <2>1, WorkingOn, RecordedType DEF Calls
    <2> QED BY <1>3, <2>1, <2>2, WorkingOn DEF Record
  <1>4. CASE Erase(w)
    BY <1>4 DEF Erase
  <1>5. CASE Remove(w)
    BY <1>5, NoRowType DEF Remove
  <1>6. QED
    BY <1>1, <1>2, <1>3, <1>4, <1>5 DEF Work

(* Every step keeps it. *)
LEMMA StepType == TypeInv /\ [Next]_vars => TypeInv'
  <1> SUFFICES ASSUME TypeInv, [Next]_vars PROVE TypeInv'
    OBVIOUS
  <1>1. W!WorkerInv'
    BY TypeInvType, StepIsLoopStep, LoopAssumption, W!WorkerStepInv DEF TypeInv
  <1>2. CASE UNCHANGED vars
    BY <1>1, <1>2 DEF vars, api, TypeInv, DataOK
  <1>3. CASE Next
    BY <1>1, <1>3, RequestType, WorkType DEF Next, TypeInv
  <1>4. QED
    BY <1>2, <1>3

(* It holds in every reachable state. *)
LEMMA Typing == Spec => []TypeInv
  BY InitType, StepType, PTL DEF Spec

(* Every variable keeps its type: the handlers, the workers and the queue  *)
(* only store values of the kinds the code stores.                         *)
THEOREM TypeCorrect == Spec => []TypeOK
  BY Typing, TypeInvType, PTL

------------------------------------------------------------------------------
(* The task ledger, from the worker loop.  The two names of it agree. *)

(* The refinement carries over to the composed system. *)
LEMMA SameLedger == W!KeepsLedger => Task!KeepsLedger
  <1> USE DEF W!EntryOf, Task!EntryOf, W!Ledger!ledger, Task!Ledger!ledger
  <1>1. W!Ledger!LedgerInit <=> Task!Ledger!LedgerInit
    BY Zenon DEF W!Ledger!LedgerInit, Task!Ledger!LedgerInit
  <1>2. [W!Ledger!LedgerNext]_(W!Ledger!ledger)
          <=> [Task!Ledger!LedgerNext]_(Task!Ledger!ledger)
    BY Zenon DEF W!Ledger!LedgerNext, Task!Ledger!LedgerNext,
       W!Ledger!Post, Task!Ledger!Post, W!Ledger!Try, Task!Ledger!Try,
       W!Ledger!Apply, Task!Ledger!Apply, W!Ledger!Settle, Task!Ledger!Settle,
       W!Ledger!Bury, Task!Ledger!Bury
  <1>3. QED
    BY <1>1, <1>2, PTL DEF W!KeepsLedger, Task!KeepsLedger,
                           W!Ledger!LedgerSafety, Task!Ledger!LedgerSafety

(* The tasks of the broker keep the task ledger: whatever handlers raise,  *)
(* however workers crash, stop or overrun the visibility timeout, a task   *)
(* leaves the queue acknowledged only after it was handled to the end and  *)
(* dead only after MaxReceive deliveries, and neither is ever undone.      *)
THEOREM TasksKeepLedger == Spec => KeepsLedger
  <1>1. Init => W!WorkerInit
    BY SameInit DEF Init
  <1>2. TypeInv /\ [Next]_vars => [W!WorkerNext]_(W!taskVars)
    BY TypeInvType, StepIsLoopStep
  <1>3. Spec => W!WorkerSpec
    BY <1>1, <1>2, Typing, PTL DEF Spec, W!WorkerSpec
  <1>4. QED
    BY <1>3, LoopAssumption, W!WorkerKeepsLedger, SameLedger DEF KeepsLedger

------------------------------------------------------------------------------
(* What it takes to handle a task twice.                                   *)

SteadyInv == TypeInv /\ W!SoleOK /\ W!OnceOK

(* The worker loop hands its single handling over to the broker. *)
LEMMA SteadyInductive == W!Steady => (Spec => []SteadyInv)
  <1> SUFFICES ASSUME W!Steady PROVE Spec => []SteadyInv
    OBVIOUS
  <1>1. Init => SteadyInv
    BY InitType, SameInit, W!SoleInit DEF Init, SteadyInv
  <1>2. SteadyInv /\ [Next]_vars => SteadyInv'
    <2> SUFFICES ASSUME SteadyInv, [Next]_vars PROVE SteadyInv'
      OBVIOUS
    <2>1. TypeInv' /\ [W!WorkerNext]_(W!taskVars)
      BY StepType, StepIsLoopStep, TypeInvType DEF SteadyInv
    <2>2. W!SoleOK' /\ W!OnceOK'
      BY <2>1, LoopAssumption, W!SoleStep DEF SteadyInv, TypeInv
    <2> QED BY <2>1, <2>2 DEF SteadyInv
  <1> QED BY <1>1, <1>2, PTL DEF Spec

(* Handling a message once more does not change the table again, unless a  *)
(* worker crashed or a batch outlived its visibility timeout: no message   *)
(* is then handled once more, whatever handlers raise and however many     *)
(* workers there are.  Nothing else makes the promise of                   *)
(* services/osb/README.md:33 fail.                                         *)
THEOREM SteadyRepeatsNothing == W!Steady => (Spec => RepeatsChangeNothing)
  <1> SUFFICES ASSUME W!Steady PROVE Spec => RepeatsChangeNothing
    OBVIOUS
  <1>1. SteadyInv /\ SteadyInv' /\ [Next]_vars =>
           [\A r \in Requests :
               handled[r] > 0 /\ handled'[r] > handled[r] => UNCHANGED rows]_vars
    <2> SUFFICES ASSUME SteadyInv, SteadyInv', NEW r \in Requests
                 PROVE  ~(handled[r] > 0 /\ handled'[r] > handled[r])
      OBVIOUS
    <2>1. handled[r] \in Nat /\ handled'[r] \in Nat /\ handled'[r] <= 1
      BY DEF SteadyInv, TypeInv, W!WorkerInv, W!WorkerTypeOK, W!OnceOK
    <2> QED BY <2>1
  <1> QED BY <1>1, SteadyInductive, PTL DEF Spec, RepeatsChangeNothing

------------------------------------------------------------------------------
(* No acknowledged task leaves a row in progress behind.  The invariant    *)
(* has to say why an acknowledgement is safe: W!AckOK says it follows a    *)
(* complete handling, and the row a request put in progress stays in       *)
(* progress only until its message, or another one, was handled to the end.*)

(* A handler queues its message in its last step. *)
MessageOK == \A r \in Requests : status[r] = "unsent" <=> pc[r] # "sent"

(* A row in progress was last written by the handler of a request whose    *)
(* message was never handled to the end.                                   *)
RowOK == \A i \in Instances :
            rows[i].state \in InProgress =>
                /\ writer[i] \in Requests
                /\ call[writer[i]].inst = i
                /\ rows[i].state = StateOf(call[writer[i]].op)
                /\ pc[writer[i]] \in {"send", "sent"}
                /\ handled[writer[i]] = 0

BackedInv == TypeInv /\ MessageOK /\ RowOK

(* There is no row at the start. *)
LEMMA InitBacked == Init => BackedInv
  <1>1. Init => MessageOK
    BY DEF Init, Task!WorkerInit, Task!QueueInit, MessageOK
  <1>2. Init => RowOK
    BY DEF Init, RowOK, NoRow, InProgress
  <1>3. QED
    BY <1>1, <1>2, InitType DEF BackedInv

(* The steps of a handler. *)
LEMMA HandlerBacked ==
    ASSUME BackedInv, NEW r \in Requests, Arrive(r) \/ Handle(r) \/ Abort(r)
    PROVE  MessageOK' /\ RowOK'
  <1> USE DEF BackedInv, TypeInv, DataOK, W!WorkerInv, W!WorkerTypeOK, W!QueueTypeOK,
              MessageOK, RowOK, api, tasks
  <1>1. ASSUME NEW code \in Codes, Answer(r, code)
        PROVE  MessageOK' /\ RowOK'
    BY <1>1 DEF Answer
  <1>2. ASSUME NEW config, NEW dumps, Continue(r, config, dumps), pc[r] = "read"
        PROVE  MessageOK' /\ RowOK'
    BY <1>2 DEF Continue
  <1>3. ASSUME NEW row, Wrote(r, row), pc[r] = "write",
               row.state = StateOf(call[r].op)
        PROVE  MessageOK' /\ RowOK'
    <2>1. status[r] = "unsent" /\ handled[r] = 0
      BY <1>3 DEF W!AckOK
    <2>2. MessageOK'
      BY <1>3 DEF Wrote
    <2>3. ASSUME NEW i \in Instances, rows'[i].state \in InProgress
          PROVE  /\ writer'[i] \in Requests
                 /\ call'[writer'[i]].inst = i
                 /\ rows'[i].state = StateOf(call'[writer'[i]].op)
                 /\ pc'[writer'[i]] \in {"send", "sent"}
                 /\ handled'[writer'[i]] = 0
      <3>1. CASE i = call[r].inst
        BY <1>3, <2>1, <3>1 DEF Wrote
      <3>2. CASE i # call[r].inst
        BY <1>3, <2>3, <3>2 DEF Wrote
      <3> QED BY <3>1, <3>2
    <2> QED BY <2>2, <2>3
  <1>4. CASE Arrive(r)
    BY <1>4 DEF Arrive
  <1>5. CASE ProvisionRead(r)
    BY <1>5, <1>1, <1>2 DEF ProvisionRead, Running, Codes
  <1>6. CASE UpdateRead(r)
    BY <1>6, <1>1, <1>2 DEF UpdateRead, Running, Codes
  <1>7. CASE DeprovisionRead(r)
    BY <1>7, <1>1, <1>2 DEF DeprovisionRead, Running, Codes
  <1>8. CASE ProvisionCreate(r)
    <2>1. NewRow(body[r]).state = StateOf(call[r].op)
      BY <1>8, NewRowType DEF ProvisionCreate, StateOf
    <2> QED BY <1>8, <1>1, <1>3, <2>1 DEF ProvisionCreate, Running, Codes
  <1>9. CASE UpdateTransition(r)
    <2>1. MovedWith(rows[call[r].inst], "updating", body[r]).state = StateOf(call[r].op)
      <3>1. /\ rows[call[r].inst] \in Rows /\ body[r] \in Configs
            /\ call[r].op = "update" /\ "updating" \in States
        BY <1>9 DEF UpdateTransition, States, Calls
      <3> QED BY <3>1, MovedWithType DEF StateOf
    <2> QED BY <1>9, <1>3, <2>1 DEF UpdateTransition, Running
  <1>10. CASE DeprovisionTransition(r)
    <2>1. Moved(rows[call[r].inst], "deprovisioning").state = StateOf(call[r].op)
      BY <1>10, MovedType DEF DeprovisionTransition, StateOf, States, Calls
    <2> QED BY <1>10, <1>3, <2>1 DEF DeprovisionTransition, Running
  <1>11. CASE Send(r)
    BY <1>11 DEF Send, Task!Send, Task!Sent, Running
  <1>12. CASE SendRaises(r) \/ Abort(r)
    BY <1>12, <1>1 DEF SendRaises, Abort, Codes
  <1>13. QED
    BY <1>4, <1>5, <1>6, <1>7, <1>8, <1>9, <1>10, <1>11, <1>12 DEF Handle

(* The steps of the loop other than Finish leave the history alone and     *)
(* neither send a message nor unsend one.                                  *)
LEMMA LoopQuiet ==
    ASSUME TypeInv,
           \/ \E r \in Requests : Task!Expire(r) \/ Task!Redrive(r)
           \/ \E w \in Workers :
                 \/ Task!Poll(w) \/ Task!Ack(w) \/ Task!Fail(w)
                 \/ Task!Crash(w) \/ Task!RequestStop(w) \/ Task!Restart(w)
                 \/ \E r \in Requests, step \in TaskSteps : Task!Take(w, r, step)
                 \/ \E from, to \in TaskSteps : Task!Advance(w, from, to)
    PROVE  /\ handled' = handled
           /\ \A r \in Requests : status'[r] = "unsent" <=> status[r] = "unsent"
  <1> USE DEF TypeInv, W!WorkerInv, W!WorkerTypeOK, W!QueueTypeOK, Task!queueVars,
              Task!workerVars
  <1>1. ASSUME NEW r \in Requests, Task!Expire(r) \/ Task!Redrive(r)
        PROVE  /\ handled' = handled
               /\ \A x \in Requests : status'[x] = "unsent" <=> status[x] = "unsent"
    BY <1>1 DEF Task!Expire, Task!Expired, Task!Redrive, Task!Redriven
  <1>2. ASSUME NEW w \in Workers, Task!Poll(w)
        PROVE  /\ handled' = handled
               /\ \A x \in Requests : status'[x] = "unsent" <=> status[x] = "unsent"
    <2>1. PICK batch \in SUBSET Requests : Task!Received(batch)
      BY <1>2 DEF Task!Poll
    <2> QED BY <1>2, <2>1 DEF Task!Poll, Task!Received, Task!Receivable
  <1>3. ASSUME NEW w \in Workers, Task!Ack(w)
        PROVE  /\ handled' = handled
               /\ \A x \in Requests : status'[x] = "unsent" <=> status[x] = "unsent"
    BY <1>3 DEF Task!Ack, Task!Deleted, Task!Deliverable
  <1>4. ASSUME NEW w \in Workers,
               Task!Fail(w) \/ Task!Crash(w) \/ Task!RequestStop(w) \/ Task!Restart(w)
        PROVE  status' = status /\ handled' = handled
    BY <1>4 DEF Task!Fail, Task!LeftForRedrive, Task!Crash, Task!RequestStop, Task!Restart
  <1>5. ASSUME NEW w \in Workers, NEW r, NEW from, NEW to,
               Task!Take(w, r, to) \/ Task!Advance(w, from, to)
        PROVE  status' = status /\ handled' = handled
    BY <1>5 DEF Task!Take, Task!Advance
  <1> HIDE DEF TypeInv
  <1>6. QED
    BY <1>1, <1>2, <1>3, <1>4, <1>5

(* What ends a handling. *)
LEMMA FinishBacked ==
    ASSUME BackedInv, NEW w \in Workers, NEW from \in TaskSteps, Task!Finish(w, from),
           call' = call, pc' = pc,
           \A i \in Instances :
              \/ /\ rows'[i] = rows[i] /\ writer'[i] = writer[i]
                 /\ rows[i].state \in InProgress => call[job[w]].inst # i
              \/ rows'[i].state \notin InProgress
    PROVE  MessageOK' /\ RowOK'
  <1> USE DEF BackedInv, MessageOK, RowOK
  <1>1. job[w] \in Requests
    BY WorkingOn DEF Task!Finish
  <1>2. /\ status' = status
        /\ \A r \in Requests : r # job[w] => handled'[r] = handled[r]
    BY <1>1 DEF Task!Finish, Task!queueVars, TypeInv, W!WorkerInv, W!WorkerTypeOK
  <1>3. QED
    BY <1>1, <1>2

(* What workers and queue do backs every row in progress. *)
LEMMA WorkerBacked ==
    ASSUME BackedInv, NEW w \in Workers, Work(w) \/ Loop(w) \/ Disturb(w)
    PROVE  MessageOK' /\ RowOK'
  <1> DEFINE quiet == /\ UNCHANGED <<call, pc, rows, writer, handled>>
                      /\ \A r \in Requests : status'[r] = "unsent" <=> status[r] = "unsent"
  <1>1. ASSUME quiet PROVE MessageOK' /\ RowOK'
    BY <1>1 DEF BackedInv, MessageOK, RowOK
  <1>2. \A r \in Requests : FirstStep(call[r].op) \in TaskSteps
    BY FirstStepType DEF BackedInv, TypeInv, DataOK, Calls
  <1>3. \A s \in {"get", "write", "record", "erase", "remove"} : s \in TaskSteps
    BY DEF TaskSteps
  <1>4. CASE \/ \E r \in Requests : Take(w, r)
             \/ Fail(w) \/ Loop(w) \/ Disturb(w) \/ Write(w) \/ Erase(w)
    <2>1. UNCHANGED <<call, pc, rows, writer>>
      BY <1>4 DEF Take, Fail, Loop, Disturb, Write, Erase, api
    <2>2. \/ Task!Poll(w) \/ Task!Ack(w) \/ Task!Fail(w)
          \/ Task!Crash(w) \/ Task!RequestStop(w) \/ Task!Restart(w)
          \/ \E r \in Requests, step \in TaskSteps : Task!Take(w, r, step)
          \/ \E from, to \in TaskSteps : Task!Advance(w, from, to)
      BY <1>2, <1>3, <1>4 DEF Take, Fail, Loop, Disturb, Write, Erase
    <2>3. quiet
      BY <2>1, <2>2, LoopQuiet DEF BackedInv
    <2> QED BY <2>3, <1>1
  <1>5. CASE Get(w)
    <2>1. CASE Task!Finish(w, "get") /\ Absent(call[job[w]].inst)
      <3>1. rows[call[job[w]].inst].state \notin InProgress
        BY <2>1 DEF Absent, InProgress
      <3> QED BY <1>3, <1>5, <2>1, <3>1, FinishBacked DEF Get, api
    <2>2. CASE Task!Advance(w, "get", "write")
      <3>1. quiet
        BY <1>3, <1>5, <2>2, LoopQuiet DEF Get, api, BackedInv
      <3> QED BY <3>1, <1>1
    <2> QED BY <1>5, <2>1, <2>2 DEF Get
  <1>6. CASE Record(w)
    <2>1. Task!Finish(w, "record") /\ at[w] = "record" /\ call' = call /\ pc' = pc
      BY <1>6 DEF Record, Task!Finish, api
    <2>2. job[w] \in Requests /\ call[job[w]] \in Calls /\ body[job[w]] \in Configs
          /\ rows[call[job[w]].inst] \in Rows
      BY <1>3, <2>1, WorkingOn DEF BackedInv
    <2>3. Recorded(rows[call[job[w]].inst], call[job[w]].op, body[job[w]]).state
            = "available"
      BY <2>2, RecordedType DEF Calls
    <2>4. \A i \in Instances :
             \/ rows'[i] = rows[i] /\ writer'[i] = writer[i] /\ call[job[w]].inst # i
             \/ rows'[i].state \notin InProgress
      BY <1>6, <2>3 DEF Record, InProgress, BackedInv, TypeInv, DataOK
    <2> QED BY <1>3, <2>1, <2>4, FinishBacked
  <1>7. CASE Remove(w)
    <2>1. Task!Finish(w, "remove") /\ call' = call /\ pc' = pc
      BY <1>7 DEF Remove, api
    <2>2. \A i \in Instances :
             \/ rows'[i] = rows[i] /\ writer'[i] = writer[i] /\ call[job[w]].inst # i
             \/ rows'[i].state \notin InProgress
      BY <1>7 DEF Remove, NoRow, InProgress, BackedInv, TypeInv, DataOK
    <2> QED BY <1>3, <2>1, <2>2, FinishBacked
  <1>8. QED
    BY <1>4, <1>5, <1>6, <1>7 DEF Work

(* Every step keeps the invariant. *)
LEMMA StepBacked == BackedInv /\ [Next]_vars => BackedInv'
  <1> SUFFICES ASSUME BackedInv, [Next]_vars PROVE BackedInv'
    OBVIOUS
  <1>1. TypeInv'
    BY StepType DEF BackedInv
  <1>2. ASSUME NEW r \in Requests, Requeue(r)
        PROVE  MessageOK' /\ RowOK'
    <2>1. /\ handled' = handled
          /\ \A x \in Requests : status'[x] = "unsent" <=> status[x] = "unsent"
      BY <1>2, LoopQuiet DEF Requeue, BackedInv
    <2> QED BY <1>2, <2>1 DEF Requeue, api, BackedInv, MessageOK, RowOK
  <1>3. CASE UNCHANGED vars
    BY <1>1, <1>3 DEF vars, api, tasks, BackedInv, MessageOK, RowOK
  <1>4. CASE Next
    BY <1>1, <1>2, <1>4, HandlerBacked, WorkerBacked DEF Next, BackedInv
  <1> QED BY <1>3, <1>4

(* The invariant holds in every reachable state. *)
LEMMA BackedInductive == Spec => []BackedInv
  BY StepBacked, InitBacked, PTL DEF Spec

(* A row in progress has a handler at its message or an unacknowledged     *)
(* task: a message that was never handled is not deleted.                  *)
LEMMA BackedRow ==
    ASSUME BackedInv, NEW i \in Instances, rows[i].state \in InProgress
    PROVE  /\ writer[i] \in Requests
           /\ call[writer[i]].inst = i
           /\ rows[i].state = StateOf(call[writer[i]].op)
           /\ pc[writer[i]] = "send" \/ Task!Unacknowledged(writer[i])
  <1>1. /\ writer[i] \in Requests /\ handled[writer[i]] = 0
        /\ call[writer[i]].inst = i
        /\ rows[i].state = StateOf(call[writer[i]].op)
        /\ pc[writer[i]] \in {"send", "sent"}
    BY DEF BackedInv, RowOK
  <1>2. status[writer[i]] \in {"unsent", "visible", "inflight", "deleted", "dead"}
    BY <1>1 DEF BackedInv, TypeInv, W!WorkerInv, W!WorkerTypeOK, W!QueueTypeOK,
                W!Statuses
  <1>3. status[writer[i]] # "deleted"
    BY <1>1 DEF BackedInv, TypeInv, W!WorkerInv, W!AckOK
  <1>4. pc[writer[i]] = "sent" => status[writer[i]] # "unsent"
    BY <1>1 DEF BackedInv, MessageOK
  <1> QED BY <1>1, <1>2, <1>3, <1>4 DEF Task!Unacknowledged

(* Whatever fails, however often messages are delivered, and with any      *)
(* number of workers: a row that last_operation reports in progress has a  *)
(* task that is about to be queued, queued, being handled or dead, or its  *)
(* handler died before it queued one.                                      *)
THEOREM RowsInProgressAreBacked == Spec => []InProgressIsBacked
  <1>1. BackedInv => InProgressIsBacked
    BY BackedRow, InstancesAssumption DEF InProgressIsBacked
  <1> QED BY <1>1, BackedInductive, PTL

------------------------------------------------------------------------------
(* Where the rows come from: which request asked for the plan and the       *)
(* parameters of a row, and what must have happened when a row is gone that *)
(* a request has seen, or is only half there.                               *)

(* A task that deprovisioned instance i came to its end.                   *)
Removed(i) == \E d \in Requests : /\ call[d].inst = i /\ call[d].op = "deprovision"
                                  /\ handled[d] > 0

(* Request r wrote, or had the worker write, what the row says.            *)
Source(r, i) == /\ call[r].inst = i /\ call[r].op # "deprovision"
                /\ pc[r] \in {"send", "sent"}
                /\ Wish(body[r]) = Wish(rows[i].config)

(* A provision writes the row it was asked for.                            *)
AskedOK == \A r \in Requests :
             /\ call[r].config.service # Missing
             /\ pc[r] = "write" /\ call[r].op = "provision" => body[r] = call[r].config

(* Only a deprovisioning takes away, or makes half, a row that a request   *)
(* has read or written.                                                    *)
GoneOK == \A r \in Requests :
             \/ pc[r] \in {"send", "sent"}
             \/ pc[r] = "write" /\ call[r].op # "provision"
             => Readable(rows[call[r].inst]) \/ Removed(call[r].inst)

SourceOK == \A i \in Instances :
               /\ Readable(rows[i]) => \E r \in Requests : Source(r, i)
               /\ ~Absent(i) => Readable(rows[i]) \/ Removed(i)

(* A worker takes the steps of the operation it handles.                   *)
StepOK == \A w \in Workers :
             LET op == call[job[w]].op
             IN /\ at[w] = "get" => op = "update"
                /\ at[w] \in {"write", "record"} => op # "deprovision"
                /\ at[w] \in {"erase", "remove"} => op = "deprovision"

OriginInv == BackedInv /\ AskedOK /\ GoneOK /\ SourceOK /\ StepOK

(* There is no row at the start. *)
LEMMA InitOrigin == Init => OriginInv
  <1> SUFFICES ASSUME Init PROVE OriginInv
    OBVIOUS
  <1>1. BackedInv
    BY InitBacked
  <1>2. AskedOK
    BY InstancesAssumption DEF Init, AskedOK
  <1>3. GoneOK /\ SourceOK /\ StepOK
    BY DEF Init, Task!WorkerInit, GoneOK, SourceOK, StepOK, NoRow, NoConfig, Readable, Absent
  <1> QED BY <1>1, <1>2, <1>3 DEF OriginInv

(* What one instance's row changes into has a source and keeps what was    *)
(* known of it; the other rows, and what the requests wrote, stay.         *)
LEMMA OneOrigin ==
    ASSUME OriginInv, NEW j \in Instances, call' = call,
           \A i \in Instances \ {j} : rows'[i] = rows[i],
           \A r \in Requests : handled[r] > 0 => handled'[r] > 0,
           \A r \in Requests :
              pc[r] \in {"send", "sent"} => pc'[r] \in {"send", "sent"} /\ body'[r] = body[r],
           \A r \in Requests :
              \/ pc'[r] \in {"send", "sent"}
              \/ pc'[r] = "write" /\ call[r].op # "provision"
              => \/ pc[r] \in {"send", "sent"}
                 \/ pc[r] = "write" /\ call[r].op # "provision"
                 \/ Readable(rows'[call[r].inst]),
           Readable(rows'[j]) => \E r \in Requests : Source(r, j)',
           Readable(rows[j]) => Readable(rows'[j]) \/ Removed(j)',
           ~Absent(j)' => Readable(rows'[j]) \/ Removed(j)'
    PROVE  GoneOK' /\ SourceOK'
  <1>1. \A i \in Instances : Removed(i) => Removed(i)'
    BY DEF Removed
  <1>2. \A i \in Instances : Readable(rows[i]) => Readable(rows'[i]) \/ Removed(i)'
    BY DEF Readable
  <1>3. ASSUME NEW r \in Requests,
               \/ pc'[r] \in {"send", "sent"}
               \/ pc'[r] = "write" /\ call[r].op # "provision"
        PROVE  Readable(rows'[call[r].inst]) \/ Removed(call[r].inst)'
    <2>1. call[r].inst \in Instances
      BY DEF OriginInv, BackedInv, TypeInv, DataOK, Calls
    <2> QED BY <1>1, <1>2, <1>3, <2>1 DEF OriginInv, GoneOK
  <1>4. ASSUME NEW i \in Instances \ {j}
        PROVE  /\ Readable(rows'[i]) => \E r \in Requests : Source(r, i)'
               /\ ~Absent(i)' => Readable(rows'[i]) \/ Removed(i)'
    <2>1. rows'[i] = rows[i] /\ (Absent(i)' <=> Absent(i))
      BY DEF Absent
    <2>2. \A r \in Requests : Source(r, i) => Source(r, i)'
      BY <2>1 DEF Source
    <2> QED BY <1>1, <2>1, <2>2 DEF OriginInv, SourceOK
  <1>5. GoneOK'
    BY <1>3 DEF GoneOK, Readable
  <1>6. SourceOK'
    <2> SUFFICES ASSUME NEW i \in Instances
                 PROVE  /\ Readable(rows[i])' => \E r \in Requests : Source(r, i)'
                        /\ ~Absent(i)' => Readable(rows[i])' \/ Removed(i)'
      BY DEF SourceOK
    <2> QED BY <1>4 DEF Readable
  <1> QED BY <1>5, <1>6

(* The steps that leave the table alone. *)
LEMMA SameOrigin ==
    ASSUME OriginInv, call' = call, rows' = rows,
           \A r \in Requests : handled[r] > 0 => handled'[r] > 0,
           \A r \in Requests :
              pc[r] \in {"send", "sent"} => pc'[r] \in {"send", "sent"} /\ body'[r] = body[r],
           \A r \in Requests :
              \/ pc'[r] \in {"send", "sent"}
              \/ pc'[r] = "write" /\ call[r].op # "provision"
              => \/ pc[r] \in {"send", "sent"}
                 \/ pc[r] = "write" /\ call[r].op # "provision"
                 \/ Readable(rows'[call[r].inst])
    PROVE  GoneOK' /\ SourceOK'
  <1> SUFFICES ASSUME NEW j \in Instances PROVE GoneOK' /\ SourceOK'
    <2>1. CASE Instances = {}
      <3>1. \A r \in Requests : call[r].inst \in Instances
        BY DEF OriginInv, BackedInv, TypeInv, DataOK, Calls
      <3> QED BY <2>1, <3>1 DEF GoneOK, SourceOK
    <2> QED BY <2>1
  <1>1. \A r \in Requests : Source(r, j) => Source(r, j)'
    BY DEF Source
  <1>2. (Removed(j) => Removed(j)') /\ (Absent(j)' <=> Absent(j))
    BY DEF Removed, Absent
  <1>3. /\ Readable(rows'[j]) => \E r \in Requests : Source(r, j)'
        /\ ~Absent(j)' => Readable(rows'[j]) \/ Removed(j)'
    BY <1>1, <1>2 DEF OriginInv, SourceOK
  <1> QED BY <1>3, OneOrigin

(* The handlers: a provision writes a full row, an update and a            *)
(* deprovisioning leave it as full as it is.                               *)
LEMMA HandlerOrigin ==
    ASSUME OriginInv, NEW r \in Requests, Arrive(r) \/ Handle(r) \/ Abort(r)
    PROVE  AskedOK' /\ GoneOK' /\ SourceOK' /\ StepOK'
  <1> DEFINE goal == AskedOK' /\ GoneOK' /\ SourceOK'
             kept == \A q \in Requests : handled[q] > 0 => handled'[q] > 0
  <1>0. PICK i \in Instances : i = call[r].inst
    BY DEF OriginInv, BackedInv, TypeInv, DataOK, Calls
  <1>1. /\ call \in [Requests -> Calls] /\ rows \in [Instances -> Rows]
        /\ pc \in [Requests -> {"new", "read", "write", "send", "sent"}]
        /\ body \in [Requests -> Configs]
        /\ call[r] \in Calls /\ rows[i] \in Rows /\ body[r] \in Configs
    BY DEF OriginInv, BackedInv, TypeInv, DataOK, Calls
  <1>2. UNCHANGED <<call, at, job, handled>>
    <2>1. CASE Send(r)
      BY <2>1 DEF Send, Task!Send, Task!workerVars
    <2>2. CASE ~Send(r)
      BY <2>2 DEF Handle, Arrive, Abort, SendRaises, ProvisionRead, UpdateRead,
         DeprovisionRead, ProvisionCreate, UpdateTransition, DeprovisionTransition, Wrote,
         Answer, Continue, tasks
    <2> QED BY <2>1, <2>2
  <1>3. StepOK' /\ kept
    BY <1>2 DEF OriginInv, StepOK
  <1> SUFFICES goal
    BY <1>3
  <1>4. ASSUME UNCHANGED <<pc, body, rows>>
        PROVE  goal
    <2>1. AskedOK'
      BY <1>2, <1>4 DEF OriginInv, AskedOK
    <2> QED BY <1>2, <1>3, <1>4, <2>1, SameOrigin
  <1>5. ASSUME NEW config \in Configs, NEW dumps \in BOOLEAN, Continue(r, config, dumps),
               pc[r] = "read",
               IF call[r].op = "provision" THEN config = call[r].config ELSE Readable(rows[i])
        PROVE  goal
    <2>1. AskedOK'
      BY <1>1, <1>2, <1>5 DEF Continue, OriginInv, AskedOK
    <2>2. /\ rows' = rows
          /\ \A q \in Requests : q # r => pc'[q] = pc[q] /\ body'[q] = body[q]
          /\ pc'[r] = "write" /\ call[r].op # "provision" => Readable(rows'[i])
          /\ pc'[r] = "write"
      BY <1>0, <1>1, <1>5 DEF Continue
    <2> QED BY <1>0, <1>2, <1>3, <1>5, <2>1, <2>2, SameOrigin
  <1>6. ASSUME NEW row \in Rows, Wrote(r, row), pc[r] = "write",
               Readable(rows[i]) => Readable(row),
               call[r].op = "provision" => Readable(row),
               \/ Readable(rows[i]) /\ Wish(row.config) = Wish(rows[i].config)
               \/ call[r].op # "deprovision" /\ Wish(row.config) = Wish(body[r])
               \/ ~Readable(row)
        PROVE  goal
    <2>1. /\ rows'[i] = row /\ \A k \in Instances \ {i} : rows'[k] = rows[k]
          /\ body' = body /\ pc'[r] = "send"
          /\ \A q \in Requests : q # r => pc'[q] = pc[q]
      BY <1>0, <1>1, <1>6 DEF Wrote, api
    <2>2. AskedOK'
      BY <1>2, <2>1 DEF OriginInv, AskedOK
    <2>3. Readable(rows'[i]) => \E q \in Requests : Source(q, i)'
      <3>1. CASE Readable(rows[i]) /\ Wish(row.config) = Wish(rows[i].config)
        <4>1. PICK q \in Requests : Source(q, i)
          BY <1>1, <3>1 DEF OriginInv, SourceOK
        <4>2. q # r
          BY <1>6, <4>1 DEF Source
        <4>3. Source(q, i)'
          BY <1>2, <2>1, <3>1, <4>1, <4>2 DEF Source
        <4> QED BY <4>3
      <3>2. CASE call[r].op # "deprovision" /\ Wish(row.config) = Wish(body[r])
        <4>1. Source(r, i)'
          BY <1>0, <1>2, <2>1, <3>2 DEF Source
        <4> QED BY <4>1
      <3> QED BY <1>6, <2>1, <3>1, <3>2
    <2>4. \A k \in Instances : Removed(k) => Removed(k)'
      BY <1>2, <1>3 DEF Removed
    <2>5. Readable(rows'[i]) \/ Removed(i)'
      <3>1. call[r].op # "provision" => Readable(rows[i]) \/ Removed(i)
        BY <1>0, <1>6 DEF OriginInv, GoneOK
      <3> QED BY <1>6, <2>1, <2>4, <3>1
    <2>6. call[r].op = "provision" => Readable(rows'[call[r].inst])
      BY <1>0, <1>6, <2>1
    <2>7. GoneOK' /\ SourceOK'
      BY <1>1, <1>2, <1>3, <1>6, <2>1, <2>3, <2>5, <2>6, OneOrigin
    <2> QED BY <2>2, <2>7
  <1>7. ASSUME NEW code \in Codes, Answer(r, code)
        PROVE  goal
    BY <1>4, <1>7 DEF Answer
  <1> HIDE DEF goal
  <1>17. \A code \in {"202", "400", "404", "409", "422", "500"} : code \in Codes
    BY DEF Codes
  <1>8. CASE Arrive(r)
    <2>1. /\ body' = body /\ rows' = rows /\ pc'[r] = "read"
          /\ \A q \in Requests : q # r => pc'[q] = pc[q]
          /\ pc[r] = "new"
      BY <1>1, <1>8 DEF Arrive
    <2>2. AskedOK'
      BY <1>2, <2>1 DEF OriginInv, AskedOK
    <2> QED BY <1>2, <1>3, <2>1, <2>2, SameOrigin DEF goal
  <1>9. CASE ProvisionRead(r)
    BY <1>0, <1>1, <1>17, <1>5, <1>7, <1>9 DEF ProvisionRead, Running, Calls
  <1>10. CASE UpdateRead(r)
    BY <1>0, <1>1, <1>17, <1>5, <1>7, <1>10, UpdatedType
       DEF UpdateRead, Running, Calls, Dumps
  <1>11. CASE DeprovisionRead(r)
    BY <1>0, <1>1, <1>17, <1>5, <1>7, <1>11, NoRowType DEF DeprovisionRead, Running
  <1>12. CASE ProvisionCreate(r)
    <2>1. /\ NewRow(body[r]) \in Rows /\ Readable(NewRow(body[r]))
          /\ NewRow(body[r]).config = body[r]
      <3>1. body[r].service # Missing
        BY <1>12 DEF ProvisionCreate, Running, OriginInv, AskedOK
      <3> QED BY <1>1, <3>1, NewRowType DEF NewRow, Readable
    <2> QED BY <1>0, <1>6, <1>7, <1>12, <1>17, <2>1 DEF ProvisionCreate, Running
  <1>13. CASE UpdateTransition(r)
    <2>1. "updating" \in States
      BY DEF States
    <2> QED BY <1>0, <1>1, <1>6, <1>13, <2>1, MovedWithType, MovedFields
          DEF UpdateTransition, Running
  <1>14. CASE DeprovisionTransition(r)
    <2>1. "deprovisioning" \in States
      BY DEF States
    <2>2. Moved(rows[i], "deprovisioning") \in Rows
          /\ Moved(rows[i], "deprovisioning").config = rows[i].config
      BY <1>1, <2>1, MovedType, MovedFields
    <2> QED BY <1>0, <1>1, <1>6, <1>14, <2>2 DEF DeprovisionTransition, Running, Readable
  <1>15. CASE Send(r)
    <2>1. /\ body' = body /\ rows' = rows /\ pc[r] = "send" /\ pc'[r] = "sent"
          /\ \A q \in Requests : q # r => pc'[q] = pc[q]
      BY <1>1, <1>15 DEF Send, Running
    <2>2. AskedOK'
      BY <1>2, <2>1 DEF OriginInv, AskedOK
    <2> QED BY <1>2, <1>3, <2>1, <2>2, SameOrigin DEF goal
  <1>16. CASE SendRaises(r) \/ Abort(r)
    BY <1>7, <1>16, <1>17 DEF SendRaises, Abort
  <1> QED BY <1>3, <1>8, <1>9, <1>10, <1>11, <1>12, <1>13, <1>14, <1>15, <1>16 DEF Handle

(* The tasks: only _deprovision removes a row, and what recording makes of *)
(* a row was asked for by the request that wrote it or by the task.        *)
LEMMA WorkerOrigin ==
    ASSUME OriginInv, NEW w \in Workers, Work(w) \/ Loop(w) \/ Disturb(w)
    PROVE  AskedOK' /\ GoneOK' /\ SourceOK' /\ StepOK'
  <1> DEFINE step == /\ at'[w] \in {"poll", "ack"} \/ job'[w] \in Requests
                     /\ \A v \in Workers \ {w} : at'[v] = at[v] /\ job'[v] = job[v]
                     /\ LET op == call[job'[w]].op
                        IN /\ at'[w] = "get" => op = "update"
                           /\ at'[w] \in {"write", "record"} => op # "deprovision"
                           /\ at'[w] \in {"erase", "remove"} => op = "deprovision"
             kept == \A r \in Requests : handled[r] > 0 => handled'[r] > 0
  <1>1. /\ at \in [Workers -> TaskSteps \cup {"poll", "ack"}]
        /\ job \in [Workers -> Requests \cup {NoRequest}]
        /\ handled \in [Requests -> Nat]
        /\ call \in [Requests -> Calls] /\ rows \in [Instances -> Rows]
        /\ body \in [Requests -> Configs]
    BY DEF OriginInv, BackedInv, TypeInv, DataOK, W!WorkerInv, W!WorkerTypeOK
  <1>2. UNCHANGED <<call, pc, body>> /\ AskedOK'
    <2>1. UNCHANGED <<call, api>>
      BY DEF Work, Loop, Disturb, Take, Get, Write, Record, Erase, Remove, Fail
    <2> QED BY <2>1 DEF api, OriginInv, AskedOK
  <1>3. step
    <2>1. CASE \E r \in Requests : Take(w, r)
      <3>1. PICK r \in Requests : Take(w, r)
        BY <2>1
      <3>2. /\ at' = [at EXCEPT ![w] = FirstStep(call[r].op)]
            /\ job' = [job EXCEPT ![w] = r] /\ call[r].op \in Ops
        BY <1>1, <3>1 DEF Take, Task!Take, Calls
      <3> QED BY <1>1, <3>2 DEF FirstStep, Ops
    <2>2. CASE Get(w) \/ Write(w) \/ Record(w) \/ Erase(w) \/ Remove(w)
      <3>1. /\ job' = job
            /\ \E from, to \in TaskSteps \cup {"ack"} :
                 /\ at[w] = from /\ at' = [at EXCEPT ![w] = to]
                 /\ to # "ack" => <<from, to>> \in {<<"get", "write">>, <<"write", "record">>,
                                                   <<"erase", "remove">>}
        BY <2>2 DEF Get, Write, Record, Erase, Remove, Task!Finish, Task!Advance, TaskSteps
      <3>2. at[w] # "poll" => job[w] \in Requests
        BY DEF OriginInv, BackedInv, TypeInv, W!WorkerInv, W!BusyOK
      <3> QED BY <1>1, <3>1, <3>2 DEF OriginInv, StepOK, TaskSteps
    <2>3. CASE Fail(w) \/ Loop(w) \/ Disturb(w)
      <3>1. \/ at' = at /\ job' = job
            \/ /\ at' = [at EXCEPT ![w] = "poll"]
               /\ job' = [job EXCEPT ![w] = NoRequest]
        BY <2>3 DEF Fail, Loop, Disturb, Task!Fail, Task!Drop, Task!Poll, Task!Ack,
           Task!Crash, Task!RequestStop, Task!Restart
      <3>2. at[w] # "poll" => job[w] \in Requests
        BY DEF OriginInv, BackedInv, TypeInv, W!WorkerInv, W!BusyOK
      <3> QED BY <1>1, <3>1, <3>2 DEF OriginInv, StepOK
    <2> QED BY <2>1, <2>2, <2>3 DEF Work
  <1>4. StepOK'
    BY <1>2, <1>3 DEF OriginInv, StepOK
  <1>5. /\ kept
        /\ Record(w) \/ Remove(w) => job[w] \in Requests /\ handled'[job[w]] > 0
    <2>1. handled' = handled \/ (job[w] \in Requests /\ handled' = [handled EXCEPT ![job[w]] = @ + 1])
      <3>1. \A from \in TaskSteps : at[w] = from => job[w] \in Requests
        BY WorkingOn DEF OriginInv, BackedInv
      <3> QED BY <3>1 DEF Work, Loop, Disturb, Take, Get, Write, Record, Erase, Remove, Fail,
              Task!Take, Task!Finish, Task!Advance, Task!Fail, Task!Poll, Task!Ack, Task!Crash,
              Task!RequestStop, Task!Restart, TaskSteps
    <2>2. Record(w) \/ Remove(w) => /\ job[w] \in Requests
                                   /\ handled' = [handled EXCEPT ![job[w]] = @ + 1]
      <3>1. \A from \in TaskSteps : at[w] = from => job[w] \in Requests
        BY WorkingOn DEF OriginInv, BackedInv
      <3> QED BY <3>1 DEF Record, Remove, Task!Finish, TaskSteps
    <2> QED BY <1>1, <2>1, <2>2
  <1>6. CASE ~(Record(w) \/ Remove(w))
    <2>1. rows' = rows
      BY <1>6 DEF Work, Loop, Disturb, Take, Get, Write, Erase, Fail
    <2>2. GoneOK' /\ SourceOK'
      BY <1>2, <1>5, <2>1, SameOrigin
    <2> QED BY <1>2, <1>4, <2>2
  <1>7. CASE Record(w) \/ Remove(w)
    <2>1. job[w] \in Requests /\ handled'[job[w]] > 0
      BY <1>5, <1>7
    <2>2. PICK r \in Requests, i \in Instances : r = job[w] /\ i = call[r].inst
      BY <1>1, <2>1 DEF Calls
    <2>3. \A k \in Instances \ {i} : rows'[k] = rows[k]
      BY <1>1, <1>7, <2>2 DEF Record, Remove
    <2>4. /\ Readable(rows'[i]) => \E q \in Requests : Source(q, i)'
          /\ Readable(rows[i]) => Readable(rows'[i]) \/ Removed(i)'
          /\ ~Absent(i)' => Readable(rows'[i]) \/ Removed(i)'
      <3>1. CASE Record(w)
        <4>1. /\ rows'[i] = Recorded(rows[i], call[r].op, body[r])
              /\ at[w] = "record" /\ call[r].op # "deprovision"
          BY <1>1, <2>2, <3>1 DEF Record, Task!Finish, OriginInv, StepOK
        <4>2. /\ Readable(rows'[i]) <=> Readable(rows[i])
              /\ Wish(rows'[i].config) = IF call[r].op = "provision" THEN Wish(rows[i].config)
                                                                   ELSE Wish(body[r])
          BY <1>1, <2>2, <4>1, RecordedFields DEF Calls
        <4>3. pc[r] = "sent"
          BY <2>2, <4>1, WorkingOn DEF OriginInv, BackedInv, MessageOK, TaskSteps
        <4>4. Removed(i) => Removed(i)'
          BY <1>2, <1>5 DEF Removed
        <4>5. Readable(rows'[i]) \/ Removed(i)'
          BY <2>2, <4>2, <4>3, <4>4 DEF OriginInv, GoneOK
        <4>6. Readable(rows'[i]) => \E q \in Requests : Source(q, i)'
          <5>1. CASE call[r].op = "provision"
            BY <1>2, <4>2, <5>1 DEF OriginInv, SourceOK, Source
          <5>2. CASE call[r].op # "provision"
            <6>1. Source(r, i)'
              BY <1>2, <2>2, <4>1, <4>2, <4>3, <5>2 DEF Source
            <6> QED BY <6>1
          <5> QED BY <5>1, <5>2
        <4> QED BY <4>5, <4>6
      <3>2. CASE Remove(w)
        <4>1. rows'[i] = NoRow /\ at[w] = "remove" /\ call[r].op = "deprovision"
          BY <1>1, <2>2, <3>2 DEF Remove, Task!Finish, OriginInv, StepOK
        <4>2. Removed(i)'
          BY <1>2, <2>1, <2>2, <4>1 DEF Removed
        <4>3. ~Readable(rows'[i])
          BY <4>1 DEF NoRow, NoConfig, Readable
        <4> QED BY <4>2, <4>3
      <3> QED BY <1>7, <3>1, <3>2
    <2>5. GoneOK' /\ SourceOK'
      BY <1>2, <1>5, <2>3, <2>4, OneOrigin
    <2> QED BY <1>2, <1>4, <2>5
  <1> QED BY <1>6, <1>7

(* Every step keeps the invariant. *)
LEMMA StepOrigin == OriginInv /\ [Next]_vars => OriginInv'
  <1> SUFFICES ASSUME OriginInv, [Next]_vars PROVE OriginInv'
    OBVIOUS
  <1>1. BackedInv'
    BY StepBacked DEF OriginInv
  <1>2. CASE UNCHANGED vars
    BY <1>1, <1>2 DEF vars, api, tasks, OriginInv, AskedOK, GoneOK, SourceOK, StepOK, Source,
       Removed, Absent
  <1>3. ASSUME NEW r \in Requests, Requeue(r)
        PROVE  OriginInv'
    <2>1. UNCHANGED <<call, pc, body, rows, at, job, handled>>
      BY <1>3 DEF Requeue, api, Task!Expire, Task!Redrive, Task!workerVars
    <2> QED BY <1>1, <2>1 DEF OriginInv, AskedOK, GoneOK, SourceOK, StepOK, Source, Removed, Absent
  <1>4. CASE Next
    BY <1>1, <1>3, <1>4, HandlerOrigin, WorkerOrigin DEF Next, OriginInv
  <1> QED BY <1>2, <1>4

(***************************************************************************)
(* With one worker, the instances table and the bucket agree when nothing  *)
(* is pending.  Where they do not agree some task is still owed: the       *)
(* invariant says which, and what the worker has done in the task it is at.*)
(***************************************************************************)

OneWorker == \A v, w \in Workers : v = w

(* A delivery that is held was neither acknowledged nor dead-lettered.     *)
HeldOK == \A w \in Workers, r \in Requests :
             held[w][r] > 0 => status[r] \in {"visible", "inflight"}

(* What the worker has found and done in the task it is at.                *)
PlaceOK ==
    \A w \in Workers :
        LET c == call[job[w]]
        IN /\ at[w] \in {"write", "record"} /\ c.op = "update" =>
                 ~Absent(c.inst) /\ Readable(rows[c.inst])
           /\ at[w] = "record" => artifacts[c.inst] = body[job[w]]
           /\ at[w] = "remove" => artifacts[c.inst] = NoArtifact

(* A message of instance i whose task will be handled again, or is dead.   *)
Owed(r, i) == /\ call[r].inst = i
              /\ status[r] \in {"visible", "inflight", "dead"}
              /\ \A w \in Workers : at[w] = "ack" => job[w] # r

(* The row was last written for a task that wrote the artifact, too; an    *)
(* update also wrote into the row what it rendered.                        *)
Settled(i) ==
    LET q == writer[i]
    IN /\ q \in Requests /\ pc[q] = "sent" /\ call[q].op # "deprovision"
       /\ rows[i].keyed /\ artifacts[i] = body[q]
       /\ call[q].op = "update" => /\ Readable(rows[i])
                                  /\ Wish(body[q]) = Wish(rows[i].config)

(* An artifact without a row is the work of a provision that was delivered *)
(* again; an available row that is not its artifact's waits for some task. *)
DebtOK ==
    \A i \in Instances :
        /\ Absent(i) /\ artifacts[i] # NoArtifact =>
              \E r \in Requests : Owed(r, i) /\ call[r].op = "provision"
        /\ rows[i].state = "available" /\ ~Settled(i) =>
              \E r \in Requests : Owed(r, i)

RestInv == OriginInv /\ HeldOK /\ PlaceOK /\ DebtOK

(* Nothing is there at the start. *)
LEMMA InitRest == Init => RestInv
  <1> SUFFICES ASSUME Init PROVE RestInv
    OBVIOUS
  <1>1. OriginInv
    BY InitOrigin
  <1>2. HeldOK /\ PlaceOK
    BY DEF Init, Task!WorkerInit, HeldOK, PlaceOK
  <1>3. DebtOK
    BY DEF Init, NoRow, Absent, DebtOK
  <1> QED BY <1>1, <1>2, <1>3 DEF RestInv

(* The worker holds the message of the task it is at. *)
LEMMA AtTask ==
    ASSUME RestInv, NEW w \in Workers, at[w] # "poll"
    PROVE  /\ job[w] \in Requests /\ call[job[w]] \in Calls /\ body[job[w]] \in Configs
           /\ held[w][job[w]] > 0
           /\ status[job[w]] \in {"visible", "inflight"} /\ pc[job[w]] = "sent"
  <1>1. job[w] \in Requests /\ held[w][job[w]] > 0
    BY DEF RestInv, OriginInv, BackedInv, TypeInv, W!WorkerInv, W!BusyOK
  <1>2. status[job[w]] \in {"visible", "inflight"}
    BY <1>1 DEF RestInv, HeldOK
  <1> QED BY <1>1, <1>2 DEF RestInv, OriginInv, BackedInv, MessageOK, TypeInv, DataOK

(* What is owed stays owed, while the worker does not come to the end of   *)
(* that task and the queue does not lose its message.                      *)
LEMMA StillOwed ==
    ASSUME NEW r \in Requests, NEW i \in Instances, Owed(r, i), call' = call,
           status'[r] \in {"visible", "inflight", "dead"},
           \A w \in Workers : at'[w] = "ack" => job'[w] # r
    PROVE  Owed(r, i)'
  BY DEF Owed

(* Nothing is done to rows and artifacts. *)
LEMMA SameDebt ==
    ASSUME RestInv, UNCHANGED <<call, pc, body, rows, artifacts, writer>>,
           \A i \in Instances, r \in Requests : Owed(r, i) => Owed(r, i)'
    PROVE  DebtOK'
  <1> SUFFICES ASSUME NEW i \in Instances
               PROVE  /\ Absent(i)' /\ artifacts'[i] # NoArtifact =>
                            \E r \in Requests : Owed(r, i)' /\ call'[r].op = "provision"
                      /\ rows'[i].state = "available" /\ ~Settled(i)' =>
                            \E r \in Requests : Owed(r, i)'
    BY DEF DebtOK
  <1>1. (Absent(i)' <=> Absent(i)) /\ (Settled(i)' <=> Settled(i))
    BY DEF Absent, Settled
  <1> QED BY <1>1 DEF RestInv, DebtOK

(* One instance changes, into something for which nothing is owed or for   *)
(* which something is.                                                     *)
LEMMA OneDebt ==
    ASSUME RestInv, NEW j \in Instances, call' = call,
           pc' = pc, body' = body,
           \A i \in Instances \ {j} :
              rows'[i] = rows[i] /\ artifacts'[i] = artifacts[i] /\ writer'[i] = writer[i],
           \A i \in Instances \ {j}, r \in Requests : Owed(r, i) => Owed(r, i)',
           Absent(j)' /\ artifacts'[j] # NoArtifact =>
              \E r \in Requests : Owed(r, j)' /\ call[r].op = "provision",
           rows'[j].state = "available" /\ ~Settled(j)' => \E r \in Requests : Owed(r, j)'
    PROVE  DebtOK'
  <1> SUFFICES ASSUME NEW i \in Instances
               PROVE  /\ Absent(i)' /\ artifacts'[i] # NoArtifact =>
                            \E r \in Requests : Owed(r, i)' /\ call'[r].op = "provision"
                      /\ rows'[i].state = "available" /\ ~Settled(i)' =>
                            \E r \in Requests : Owed(r, i)'
    BY DEF DebtOK
  <1>1. CASE i = j
    BY <1>1
  <1>2. CASE i # j
    <2>1. (Absent(i)' <=> Absent(i)) /\ (Settled(i)' <=> Settled(i))
      BY <1>2 DEF Absent, Settled
    <2> QED BY <1>2, <2>1 DEF RestInv, DebtOK
  <1> QED BY <1>1, <1>2

------------------------------------------------------------------------------
(* The handlers of requests. *)

(* They change neither the bucket nor what the worker is at, and no row    *)
(* but into one in progress; the queue keeps its messages.                 *)
LEMMA HandlerRest ==
    ASSUME RestInv, UNCHANGED <<call, artifacts, at, job, held>>,
           \A i \in Instances : \/ rows'[i] = rows[i] /\ writer'[i] = writer[i]
                                \/ rows'[i].state \in InProgress,
           \A i \in Instances : Readable(rows[i]) => Readable(rows'[i]),
           \A r \in Requests : pc[r] = "sent" => pc'[r] = "sent" /\ body'[r] = body[r],
           \A r \in Requests : \/ status'[r] = status[r]
                               \/ status[r] = "unsent" /\ status'[r] = "visible"
    PROVE  HeldOK' /\ PlaceOK' /\ DebtOK'
  <1>1. HeldOK'
    BY DEF RestInv, HeldOK
  <1>2. PlaceOK'
    <2> SUFFICES ASSUME NEW w \in Workers, at[w] # "poll"
                 PROVE  LET c == call[job[w]]
                        IN /\ at[w] \in {"write", "record"} /\ c.op = "update" =>
                                 ~Absent(c.inst)' /\ Readable(rows'[c.inst])
                           /\ at[w] = "record" => artifacts[c.inst] = body'[job[w]]
                           /\ at[w] = "remove" => artifacts[c.inst] = NoArtifact
      BY DEF PlaceOK, Readable
    <2>1. body'[job[w]] = body[job[w]] /\ call[job[w]].inst \in Instances
      BY AtTask DEF Calls
    <2>2. Absent(call[job[w]].inst)' => Absent(call[job[w]].inst)
      BY <2>1 DEF Absent, InProgress
    <2> QED BY <2>1, <2>2 DEF RestInv, PlaceOK
  <1>3. DebtOK'
    <2>1. ASSUME NEW i \in Instances, NEW r \in Requests, Owed(r, i)
          PROVE  Owed(r, i)'
      BY <2>1, StillOwed DEF Owed
    <2> SUFFICES ASSUME NEW i \in Instances
                 PROVE  /\ Absent(i)' /\ artifacts'[i] # NoArtifact =>
                              \E r \in Requests : Owed(r, i)' /\ call'[r].op = "provision"
                        /\ rows'[i].state = "available" /\ ~Settled(i)' =>
                              \E r \in Requests : Owed(r, i)'
      BY DEF DebtOK
    <2>2. CASE rows'[i].state \in InProgress
      BY <2>2 DEF Absent, InProgress
    <2>3. CASE rows'[i] = rows[i] /\ writer'[i] = writer[i]
      <3>1. (Absent(i)' <=> Absent(i)) /\ (Settled(i) => Settled(i)')
        BY <2>3 DEF Absent, Settled
      <3> QED BY <2>1, <2>3, <3>1 DEF RestInv, DebtOK
    <2> QED BY <2>2, <2>3
  <1> QED BY <1>1, <1>2, <1>3

(* A handler writes rows of which last_operation says "in progress".       *)
LEMMA RequestRest ==
    ASSUME RestInv, NEW r \in Requests, Arrive(r) \/ Handle(r) \/ Abort(r)
    PROVE  HeldOK' /\ PlaceOK' /\ DebtOK'
  <1> DEFINE wrote == \A i \in Instances : \/ rows'[i] = rows[i] /\ writer'[i] = writer[i]
                                           \/ rows'[i].state \in InProgress
             full == \A i \in Instances : Readable(rows[i]) => Readable(rows'[i])
             kept == \A q \in Requests : \/ status'[q] = status[q]
                                         \/ status[q] = "unsent" /\ status'[q] = "visible"
  <1> USE DEF RestInv, OriginInv, BackedInv, TypeInv, DataOK
  <1>1. ASSUME NEW row, Wrote(r, row), row.state \in InProgress,
               Readable(rows[call[r].inst]) => Readable(row)
        PROVE  wrote /\ full
    BY <1>1 DEF Wrote
  <1>2. /\ call[r] \in Calls /\ rows[call[r].inst] \in Rows /\ body[r] \in Configs
        /\ \A s \in InProgress : s \in States
    BY DEF Calls, InProgress, States
  <1>3. wrote /\ full
    <2>1. CASE ProvisionCreate(r)
      <3>1. CASE Answer(r, "422")
        BY <3>1 DEF Answer
      <3>2. CASE Wrote(r, NewRow(body[r])) /\ Running(r, "write") /\ call[r].op = "provision"
        <4>1. Readable(NewRow(body[r]))
          BY <3>2 DEF AskedOK, Running, Readable, NewRow
        <4> QED BY <1>1, <1>2, <3>2, <4>1, NewRowType DEF InProgress
      <3> QED BY <2>1, <3>1, <3>2 DEF ProvisionCreate
    <2>2. CASE UpdateTransition(r)
      <3>1. "updating" \in InProgress /\ "updating" \in States
        BY DEF InProgress, States
      <3>2. /\ MovedWith(rows[call[r].inst], "updating", body[r]).state = "updating"
            /\ Readable(MovedWith(rows[call[r].inst], "updating", body[r]))
                 <=> Readable(rows[call[r].inst])
        BY <1>2, <3>1, MovedWithType, MovedFields
      <3> QED BY <1>1, <2>2, <3>1, <3>2 DEF UpdateTransition
    <2>3. CASE DeprovisionTransition(r)
      <3>1. /\ Moved(rows[call[r].inst], "deprovisioning").state = "deprovisioning"
            /\ Moved(rows[call[r].inst], "deprovisioning").config = rows[call[r].inst].config
        BY <1>2, MovedType, MovedFields DEF InProgress
      <3> QED BY <1>1, <2>3, <3>1 DEF DeprovisionTransition, InProgress, Readable
    <2>4. CASE ~(ProvisionCreate(r) \/ UpdateTransition(r) \/ DeprovisionTransition(r))
      <3>1. rows' = rows /\ writer' = writer
        BY <2>4 DEF Handle, Arrive, Abort, Send, SendRaises, ProvisionRead, UpdateRead,
           DeprovisionRead, Answer, Continue
      <3> QED BY <3>1
    <2> QED BY <2>1, <2>2, <2>3, <2>4
  <1>4. \A q \in Requests : pc[q] = "sent" => pc'[q] = "sent" /\ body'[q] = body[q]
    <2>1. pc[r] # "sent" \/ UNCHANGED <<pc, body>>
      BY DEF Handle, Arrive, Abort, Send, SendRaises, ProvisionRead, UpdateRead, Running,
         DeprovisionRead, ProvisionCreate, UpdateTransition, DeprovisionTransition
    <2>2. \A q \in Requests : q # r => pc'[q] = pc[q] /\ body'[q] = body[q]
      BY DEF Handle, Arrive, Abort, Send, SendRaises, ProvisionRead, UpdateRead, Continue,
         DeprovisionRead, ProvisionCreate, UpdateTransition, DeprovisionTransition, Wrote,
         Answer, api
    <2> QED BY <2>1, <2>2
  <1>5. kept /\ UNCHANGED <<call, artifacts, at, job, held>>
    <2>1. CASE Send(r)
      BY <2>1 DEF Send, Task!Send, Task!Sent, Task!workerVars, W!WorkerInv, W!WorkerTypeOK,
         W!QueueTypeOK
    <2>2. CASE ~Send(r)
      <3>1. UNCHANGED <<call, artifacts, tasks>>
        BY <2>2 DEF Handle, Arrive, Abort, SendRaises, ProvisionRead, UpdateRead,
           DeprovisionRead, ProvisionCreate, UpdateTransition, DeprovisionTransition, Wrote,
           Answer, Continue
      <3> QED BY <3>1 DEF tasks
    <2> QED BY <2>1, <2>2
  <1> HIDE DEF RestInv, OriginInv, BackedInv, TypeInv, DataOK
  <1> QED BY <1>3, <1>4, <1>5, HandlerRest

------------------------------------------------------------------------------
(* The queue and the loop. *)

(* The queue does not bury a message the one worker holds: it redrives     *)
(* while the worker polls.                                                 *)
LEMMA RequeueRest ==
    ASSUME RestInv, OneWorker, NEW r \in Requests, Requeue(r)
    PROVE  HeldOK' /\ PlaceOK' /\ DebtOK'
  <1>1. UNCHANGED <<call, pc, body, rows, artifacts, writer, at, job, held>>
    BY DEF Requeue, Task!Expire, Task!Redrive, Task!workerVars, api
  <1>2. /\ status' \in [Requests -> {"unsent", "visible", "inflight", "deleted", "dead"}]
        /\ \A q \in Requests : q # r => status'[q] = status[q]
    BY DEF Requeue, Task!Expire, Task!Expired, Task!Redrive, Task!Redriven, RestInv, OriginInv, BackedInv,
       TypeInv, W!WorkerInv, W!WorkerTypeOK, W!QueueTypeOK, W!Statuses
  <1>3. \/ status'[r] = "visible"
        \/ status'[r] = "dead" /\ \A w \in Workers : held[w][r] \in Nat /\ ~(held[w][r] > 0)
    <2>1. CASE Task!Expire(r)
      BY <2>1 DEF Task!Expire, Task!Expired, RestInv, OriginInv, BackedInv, TypeInv, W!WorkerInv,
         W!WorkerTypeOK, W!QueueTypeOK
    <2>2. CASE Task!Redrive(r)
      <3>1. PICK w \in Workers : Task!Idle(w)
        BY <2>2 DEF Task!Redrive
      <3>2. \A v \in Workers : v = w
        BY DEF OneWorker
      <3>3. held[w][r] \in Nat /\ ~(held[w][r] > 0)
        BY <3>1, LoopAssumption DEF Task!Idle, Task!Held, RestInv, OriginInv, BackedInv, TypeInv,
           W!WorkerInv, W!WorkerTypeOK, W!WorkerAssumption
      <3> QED BY <2>2, <3>2, <3>3 DEF Task!Redrive, Task!Redriven, RestInv, OriginInv, BackedInv, TypeInv,
              W!WorkerInv, W!WorkerTypeOK, W!QueueTypeOK
    <2> QED BY <2>1, <2>2 DEF Requeue
  <1>4. HeldOK'
    BY <1>1, <1>2, <1>3 DEF RestInv, HeldOK
  <1>5. PlaceOK'
    BY <1>1 DEF RestInv, PlaceOK, Absent
  <1>6. DebtOK'
    <2>1. ASSUME NEW i \in Instances, NEW q \in Requests, Owed(q, i)
          PROVE  Owed(q, i)'
      BY <1>1, <1>2, <1>3, <2>1 DEF Owed
    <2> QED BY <1>1, <2>1, SameDebt
  <1> QED BY <1>4, <1>5, <1>6

(* Polling: what is received is in flight. *)
LEMMA PollRest ==
    ASSUME RestInv, OneWorker, NEW w \in Workers, Task!Poll(w),
           UNCHANGED <<call, pc, body, rows, artifacts, writer>>
    PROVE  HeldOK' /\ PlaceOK' /\ DebtOK'
  <1>1. PICK batch \in SUBSET Requests :
           /\ status' = [r \in Requests |-> IF r \in batch THEN "inflight" ELSE status[r]]
           /\ held' = [held EXCEPT ![w] = [r \in Requests |->
                         IF r \in batch THEN receives'[r] ELSE 0]]
    BY DEF Task!Poll, Task!Received
  <1>2. at' = at /\ job' = job
    BY DEF Task!Poll
  <1>3. \A v \in Workers : v = w
    BY DEF OneWorker
  <1>4. \A v \in Workers, r \in Requests :
           held'[v][r] = IF r \in batch THEN receives'[r] ELSE 0
    BY <1>1, <1>3 DEF RestInv, OriginInv, BackedInv, TypeInv, W!WorkerInv, W!WorkerTypeOK
  <1>5. HeldOK'
    BY <1>1, <1>4 DEF HeldOK
  <1>6. PlaceOK'
    BY <1>2 DEF RestInv, PlaceOK, Absent
  <1>7. DebtOK'
    <2>1. ASSUME NEW i \in Instances, NEW q \in Requests, Owed(q, i)
          PROVE  Owed(q, i)'
      BY <1>1, <1>2, <2>1 DEF Owed
    <2> QED BY <2>1, SameDebt
  <1> QED BY <1>5, <1>6, <1>7

(* A worker drops a message, or all it holds, without deleting it.         *)
LEMMA DropRest ==
    ASSUME RestInv, OneWorker, NEW w \in Workers,
           Task!Fail(w) \/ Task!Crash(w) \/ Task!RequestStop(w) \/ Task!Restart(w),
           UNCHANGED <<call, pc, body, rows, artifacts, writer>>
    PROVE  HeldOK' /\ PlaceOK' /\ DebtOK'
  <1> USE DEF Task!Fail, Task!LeftForRedrive, Task!Drop, Task!Crash, Task!RequestStop,
              Task!Restart, Task!queueVars
  <1> DEFINE types == /\ at \in [Workers -> TaskSteps \cup {"poll", "ack"}]
                      /\ held \in [Workers -> [Requests -> 0 .. MaxReceive]]
                      /\ job \in [Workers -> Requests \cup {NoRequest}]
  <1>1. types
    BY DEF RestInv, OriginInv, BackedInv, TypeInv, W!WorkerInv, W!WorkerTypeOK
  <1>2. status' = status
    OBVIOUS
  <1>3. \A v \in Workers : v = w
    BY DEF OneWorker
  <1>4. \A v \in Workers : at'[v] = "poll" \/ (at'[v] = at[v] /\ job'[v] = job[v])
    <2>1. at'[w] = "poll" \/ (at' = at /\ job' = job)
      BY <1>1
    <2> QED BY <1>3, <2>1
  <1>5. \A v \in Workers, r \in Requests : held'[v][r] > 0 => held'[v][r] = held[v][r]
    <2>1. \A r \in Requests : held'[w][r] = 0 \/ held'[w][r] = held[w][r]
      BY <1>1
    <2> QED BY <1>3, <2>1
  <1>6. HeldOK'
    BY <1>2, <1>5 DEF RestInv, HeldOK
  <1>7. PlaceOK'
    BY <1>4 DEF RestInv, PlaceOK, Absent
  <1>8. DebtOK'
    <2>1. ASSUME NEW i \in Instances, NEW q \in Requests, Owed(q, i)
          PROVE  Owed(q, i)'
      BY <1>2, <1>4, <2>1 DEF Owed
    <2> QED BY <2>1, SameDebt
  <1> QED BY <1>6, <1>7, <1>8

(* An acknowledgement: nothing was owed by that task any more. *)
LEMMA AckRest ==
    ASSUME RestInv, OneWorker, NEW w \in Workers, Task!Ack(w),
           UNCHANGED <<call, pc, body, rows, artifacts, writer>>
    PROVE  HeldOK' /\ PlaceOK' /\ DebtOK'
  <1>1. /\ job[w] \in Requests /\ at[w] = "ack"
        /\ \A r \in Requests : r # job[w] => status'[r] = status[r]
    BY AtTask DEF Task!Ack, Task!Deleted, RestInv, OriginInv, BackedInv, TypeInv, W!WorkerInv,
       W!WorkerTypeOK, W!QueueTypeOK
  <1>2. \A v \in Workers : v = w
    BY DEF OneWorker
  <1>3. /\ at'[w] = "poll"
        /\ \A r \in Requests : held'[w][r] = IF r = job[w] THEN 0 ELSE held[w][r]
    BY <1>1 DEF Task!Ack, Task!Drop, RestInv, OriginInv, BackedInv, TypeInv, W!WorkerInv, W!WorkerTypeOK
  <1>4. HeldOK'
    BY <1>1, <1>2, <1>3 DEF RestInv, HeldOK
  <1>5. PlaceOK'
    BY <1>2, <1>3 DEF PlaceOK
  <1>6. DebtOK'
    <2>1. ASSUME NEW i \in Instances, NEW q \in Requests, Owed(q, i)
          PROVE  Owed(q, i)'
      BY <1>1, <1>2, <1>3, <2>1 DEF Owed
    <2> QED BY <2>1, SameDebt
  <1> QED BY <1>4, <1>5, <1>6

------------------------------------------------------------------------------
(* The tasks. *)

(* What a step of the one worker inside a task does to the loop. *)
LEMMA TaskStep ==
    ASSUME RestInv, OneWorker, NEW w \in Workers, NEW from \in TaskSteps,
           NEW to \in TaskSteps \cup {"ack"},
           IF to = "ack" THEN Task!Finish(w, from) ELSE Task!Advance(w, from, to)
    PROVE  /\ at[w] = from /\ at' = [v \in Workers |-> to]
           /\ UNCHANGED <<status, job, held>>
           /\ job[w] \in Requests /\ call[job[w]] \in Calls /\ body[job[w]] \in Configs
           /\ status[job[w]] \in {"visible", "inflight"} /\ rows[call[job[w]].inst] \in Rows
  <1>1. /\ at[w] = from /\ at' = [at EXCEPT ![w] = to]
        /\ UNCHANGED <<status, job, held>>
    BY DEF Task!Finish, Task!Advance, Task!queueVars, TaskSteps
  <1>2. at' = [v \in Workers |-> to]
    BY <1>1 DEF OneWorker, RestInv, OriginInv, BackedInv, TypeInv, W!WorkerInv, W!WorkerTypeOK
  <1>3. at[w] # "poll"
    BY <1>1 DEF TaskSteps
  <1> QED BY <1>1, <1>2, <1>3, AtTask DEF RestInv, OriginInv, BackedInv, TypeInv, DataOK, Calls

(* A task begins. *)
LEMMA TakeRest ==
    ASSUME RestInv, OneWorker, NEW w \in Workers, NEW r \in Requests, Take(w, r)
    PROVE  HeldOK' /\ PlaceOK' /\ DebtOK'
  <1>1. /\ UNCHANGED <<call, pc, body, rows, artifacts, writer, status, held>>
        /\ \A v \in Workers : v = w
    BY DEF Take, api, Task!Take, Task!queueVars, OneWorker
  <1>2. at'[w] = FirstStep(call[r].op) /\ job'[w] = r
    BY DEF Take, Task!Take, RestInv, OriginInv, BackedInv, TypeInv, W!WorkerInv, W!WorkerTypeOK
  <1>3. \/ at'[w] = "write" /\ call[r].op = "provision"
        \/ at'[w] = "get" /\ call[r].op = "update"
        \/ at'[w] = "erase"
    BY <1>2 DEF FirstStep, Ops, Calls, RestInv, OriginInv, BackedInv, TypeInv, DataOK
  <1>4. HeldOK'
    BY <1>1 DEF RestInv, HeldOK
  <1>5. PlaceOK'
    BY <1>1, <1>2, <1>3 DEF PlaceOK
  <1>6. DebtOK'
    <2>1. ASSUME NEW i \in Instances, NEW q \in Requests, Owed(q, i)
          PROVE  Owed(q, i)'
      BY <1>1, <1>3, <2>1 DEF Owed
    <2> QED BY <1>1, <2>1, SameDebt
  <1> QED BY <1>4, <1>5, <1>6

(* _update of an instance that is gone leaves what is owed to the others.  *)
LEMMA GetRest ==
    ASSUME RestInv, OneWorker, NEW w \in Workers, Get(w)
    PROVE  HeldOK' /\ PlaceOK' /\ DebtOK'
  <1>1. PICK to \in {"ack", "write"} :
           /\ IF to = "ack" THEN Task!Finish(w, "get") ELSE Task!Advance(w, "get", to)
           /\ Absent(call[job[w]].inst) <=> to = "ack"
           /\ to = "write" => Readable(rows[call[job[w]].inst])
    BY DEF Get
  <1>2. "get" \in TaskSteps /\ to \in TaskSteps \cup {"ack"}
    BY DEF TaskSteps
  <1>3. /\ at[w] = "get" /\ at' = [v \in Workers |-> to] /\ UNCHANGED <<status, job, held>>
        /\ job[w] \in Requests /\ call[job[w]] \in Calls
    BY <1>1, <1>2, TaskStep
  <1>4. PICK r \in Requests, i \in Instances : r = job[w] /\ i = call[r].inst
    BY <1>3 DEF Calls
  <1>5. UNCHANGED <<call, pc, body, rows, artifacts, writer>> /\ \A v \in Workers : v = w
    BY DEF Get, api, OneWorker
  <1>6. call[r].op = "update"
    BY <1>3, <1>4 DEF RestInv, OriginInv, StepOK
  <1>7. (Absent(i) <=> to = "ack") /\ (Absent(i)' <=> Absent(i))
    BY <1>1, <1>4, <1>5 DEF Absent
  <1>8. HeldOK'
    BY <1>3 DEF RestInv, HeldOK
  <1>9. PlaceOK'
    <2>1. \A v \in Workers : at'[v] = to /\ job'[v] = r
      BY <1>3, <1>4, <1>5
    <2> QED BY <1>1, <1>4, <1>5, <1>6, <1>7, <2>1 DEF PlaceOK
  <1>10. DebtOK'
    <2>1. ASSUME NEW j \in Instances, NEW q \in Requests, Owed(q, j), q # r
          PROVE  Owed(q, j)'
      BY <1>3, <1>4, <1>5, <2>1 DEF Owed
    <2>2. to = "write" => \A j \in Instances, q \in Requests : Owed(q, j) => Owed(q, j)'
      BY <1>3, <1>5 DEF Owed
    <2>3. CASE to = "write"
      BY <1>5, <2>2, <2>3, SameDebt
    <2>4. CASE to = "ack"
      <3>1. \A j \in Instances \ {i}, q \in Requests : Owed(q, j) => Owed(q, j)'
        BY <1>4, <2>1 DEF Owed
      <3>2. artifacts'[i] # NoArtifact =>
               \E q \in Requests : Owed(q, i)' /\ call[q].op = "provision"
        BY <1>5, <1>6, <1>7, <2>1, <2>4 DEF RestInv, DebtOK
      <3>3. rows'[i].state # "available"
        BY <1>5, <1>7, <2>4 DEF Absent
      <3> QED BY <1>5, <3>1, <3>2, <3>3, OneDebt
    <2> QED BY <2>3, <2>4
  <1> QED BY <1>8, <1>9, <1>10

(* The artifact is written or erased: the task still owes the row.         *)
LEMMA BucketRest ==
    ASSUME RestInv, OneWorker, NEW w \in Workers, Write(w) \/ Erase(w)
    PROVE  HeldOK' /\ PlaceOK' /\ DebtOK'
  <1>1. PICK from \in {"write", "erase"}, to \in {"record", "remove"} :
           /\ Task!Advance(w, from, to)
           /\ from = "write" <=> to = "record"
           /\ artifacts' = [artifacts EXCEPT ![call[job[w]].inst] =
                               IF to = "record" THEN body[job[w]] ELSE NoArtifact]
    BY DEF Write, Erase
  <1>2. from \in TaskSteps /\ to \in TaskSteps \cup {"ack"} /\ to # "ack"
    BY DEF TaskSteps
  <1>3. /\ at[w] = from /\ at' = [v \in Workers |-> to] /\ UNCHANGED <<status, job, held>>
        /\ job[w] \in Requests /\ call[job[w]] \in Calls
        /\ status[job[w]] \in {"visible", "inflight"}
    BY <1>1, <1>2, TaskStep
  <1>4. PICK r \in Requests, i \in Instances : r = job[w] /\ i = call[r].inst
    BY <1>3 DEF Calls
  <1>5. UNCHANGED <<call, pc, body, rows, writer>> /\ \A v \in Workers : v = w
    BY DEF Write, Erase, api, OneWorker
  <1>6. /\ artifacts'[i] = IF to = "record" THEN body[r] ELSE NoArtifact
        /\ \A j \in Instances \ {i} : artifacts'[j] = artifacts[j]
    BY <1>1, <1>4 DEF RestInv, OriginInv, BackedInv, TypeInv, DataOK
  <1>7. HeldOK'
    BY <1>3 DEF RestInv, HeldOK
  <1>8. PlaceOK'
    <2>1. \A v \in Workers : at'[v] = to /\ job'[v] = r
      BY <1>3, <1>4, <1>5
    <2>2. to = "record" /\ call[r].op = "update" => ~Absent(i) /\ Readable(rows[i])
      BY <1>1, <1>3, <1>4 DEF RestInv, PlaceOK
    <2> QED BY <1>4, <1>5, <1>6, <2>1, <2>2 DEF PlaceOK, Absent
  <1>9. DebtOK'
    <2>1. \A j \in Instances, q \in Requests : Owed(q, j) => Owed(q, j)'
      BY <1>3, <1>5 DEF Owed
    <2>2. Owed(r, i)'
      BY <1>3, <1>4, <1>5 DEF Owed
    <2>3. Absent(i)' /\ artifacts'[i] # NoArtifact => call[r].op = "provision"
      <3>1. CASE to = "record"
        BY <1>1, <1>3, <1>4, <1>5, <3>1
           DEF Absent, RestInv, OriginInv, PlaceOK, StepOK, Calls, Ops
      <3>2. CASE to = "remove"
        BY <1>6, <3>2
      <3> QED BY <3>1, <3>2
    <2> QED BY <1>5, <1>6, <2>1, <2>2, <2>3, OneDebt
  <1> QED BY <1>7, <1>8, <1>9

(* The row is written or removed: table and bucket agree. *)
LEMMA TableRest ==
    ASSUME RestInv, OneWorker, NEW w \in Workers, Record(w) \/ Remove(w)
    PROVE  HeldOK' /\ PlaceOK' /\ DebtOK'
  <1>1. PICK from \in {"record", "remove"} :
           /\ Task!Finish(w, from)
           /\ from = "record" => Record(w)
           /\ from = "remove" => Remove(w)
    BY DEF Record, Remove
  <1>2. from \in TaskSteps /\ "ack" \in TaskSteps \cup {"ack"}
    BY DEF TaskSteps
  <1>3. /\ at[w] = from /\ at' = [v \in Workers |-> "ack"] /\ UNCHANGED <<status, job, held>>
        /\ job[w] \in Requests /\ call[job[w]] \in Calls
        /\ body[job[w]] \in Configs /\ rows[call[job[w]].inst] \in Rows
    BY <1>1, <1>2, TaskStep
  <1>4. PICK r \in Requests, i \in Instances : r = job[w] /\ i = call[r].inst
    BY <1>3 DEF Calls
  <1>5. UNCHANGED <<call, pc, body, artifacts>> /\ \A v \in Workers : v = w
    BY DEF Record, Remove, api, OneWorker
  <1>6. \A j \in Instances \ {i} : rows'[j] = rows[j] /\ writer'[j] = writer[j]
    BY <1>4 DEF Record, Remove, RestInv, OriginInv, BackedInv, TypeInv, DataOK
  <1>7. HeldOK'
    BY <1>3 DEF RestInv, HeldOK
  <1>8. PlaceOK'
    BY <1>3 DEF PlaceOK
  <1>9. DebtOK'
    <2>1. \A j \in Instances \ {i}, q \in Requests : Owed(q, j) => Owed(q, j)'
      BY <1>3, <1>4, <1>5 DEF Owed
    <2>2. CASE from = "record"
      <3>1. /\ rows'[i] = Recorded(rows[i], call[r].op, body[r]) /\ writer'[i] = r
            /\ call[r].op \in Ops
        BY <1>1, <1>3, <1>4, <2>2 DEF Record, RestInv, OriginInv, BackedInv, TypeInv, DataOK, Calls
      <3>2. artifacts'[i] = body[r] /\ pc[r] = "sent"
        BY <1>3, <1>4, <1>5, <2>2, AtTask DEF RestInv, PlaceOK
      <3>3. /\ rows'[i].state = "available" /\ rows'[i].keyed
            /\ call[r].op = "update" => /\ Readable(rows[i]) => Readable(rows'[i])
                                       /\ Wish(rows'[i].config) = Wish(body[r])
        BY <1>3, <1>4, <3>1, RecordedFields
      <3>4. call[r].op # "deprovision" /\ (call[r].op = "update" => Readable(rows[i]))
        BY <1>3, <1>4, <2>2 DEF RestInv, OriginInv, StepOK, PlaceOK
      <3>5. Settled(i)' /\ ~Absent(i)'
        BY <1>3, <1>4, <1>5, <3>1, <3>2, <3>3, <3>4 DEF Settled, Absent
      <3> QED BY <1>5, <1>6, <2>1, <3>5, OneDebt
    <2>3. CASE from = "remove"
      <3>1. rows'[i].state = "absent" /\ artifacts'[i] = NoArtifact
        BY <1>1, <1>3, <1>4, <1>5, <2>3
           DEF Remove, NoRow, RestInv, PlaceOK, OriginInv, BackedInv, TypeInv, DataOK
      <3> QED BY <1>5, <1>6, <2>1, <3>1, OneDebt
    <2> QED BY <2>2, <2>3
  <1> QED BY <1>7, <1>8, <1>9

------------------------------------------------------------------------------

(* Every step keeps the invariant. *)
LEMMA StepRest ==
    ASSUME OneWorker, RestInv, [Next]_vars
    PROVE  RestInv'
  <1>1. OriginInv'
    BY StepOrigin DEF RestInv
  <1>2. CASE UNCHANGED vars
    BY <1>1, <1>2 DEF vars, api, tasks, RestInv, HeldOK, PlaceOK, DebtOK, Owed, Settled, Absent
  <1>3. ASSUME NEW w \in Workers, Loop(w) \/ Disturb(w) \/ Fail(w)
        PROVE  HeldOK' /\ PlaceOK' /\ DebtOK'
    BY <1>3, PollRest, DropRest, AckRest DEF Loop, Disturb, Fail, api
  <1>4. ASSUME NEW w \in Workers, Work(w)
        PROVE  HeldOK' /\ PlaceOK' /\ DebtOK'
    BY <1>3, <1>4, TakeRest, GetRest, BucketRest, TableRest DEF Work
  <1>5. CASE Next
    BY <1>1, <1>3, <1>4, <1>5, RequestRest, RequeueRest DEF Next, RestInv
  <1> QED BY <1>2, <1>5

(* With one worker, whatever fails and however often tasks are delivered:  *)
(* an instance nothing is pending for is gone from table and bucket, or    *)
(* available with an artifact of the plan and parameters of its row, or    *)
(* what is wrong with it was left by a provision handled after another     *)
(* task of the instance, and by nothing else (worker/main.py:93-139).      *)
THEOREM OneWorkerAgreesAtRest == OneWorker => (Spec => []AtRestAgreement)
  <1> SUFFICES ASSUME OneWorker PROVE Spec => []AtRestAgreement
    OBVIOUS
  <1>1. RestInv /\ [Next]_vars => RestInv'
    BY StepRest
  <1>2. RestInv => AtRestAgreement
    <2> SUFFICES ASSUME RestInv, NEW i \in Instances, AtRest(i)
                 PROVE  \/ Absent(i) /\ artifacts[i] = NoArtifact
                        \/ /\ rows[i].state = "available" /\ rows[i].keyed
                           /\ artifacts[i] # NoArtifact
                           /\ \/ Readable(rows[i]) /\ Wish(artifacts[i]) = Wish(rows[i].config)
                              \/ LateProvision(i)
      BY DEF AtRestAgreement
    <2>1. \A r \in Requests : ~Owed(r, i)
      BY DEF AtRest, Quiet, Task!Unacknowledged, Owed
    <2>2. rows[i].state \notin InProgress
      <3> SUFFICES ASSUME rows[i].state \in InProgress PROVE FALSE
        OBVIOUS
      <3>1. /\ writer[i] \in Requests /\ call[writer[i]].inst = i
            /\ pc[writer[i]] = "send" \/ Task!Unacknowledged(writer[i])
        BY BackedRow DEF RestInv, OriginInv
      <3> QED BY <3>1 DEF AtRest, Quiet
    <2>3. rows[i].state \in {"absent", "available"}
      BY <2>2 DEF RestInv, OriginInv, BackedInv, TypeInv, DataOK, Rows, States, InProgress
    <2>4. CASE rows[i].state = "absent"
      BY <2>1, <2>4 DEF RestInv, DebtOK, Absent
    <2>5. CASE rows[i].state = "available"
      <3>1. PICK q \in Requests : q = writer[i] /\ Settled(i)
        BY <2>1, <2>5 DEF RestInv, DebtOK, Settled
      <3>2. /\ rows[i].keyed /\ artifacts[i] = body[q] /\ artifacts[i] # NoArtifact
            /\ call[q].op \in {"provision", "update"}
            /\ call[q].op = "update" => Readable(rows[i]) /\ Wish(body[q]) = Wish(rows[i].config)
        BY <3>1, InstancesAssumption
           DEF Settled, RestInv, OriginInv, BackedInv, TypeInv, DataOK, Calls, Ops
      <3>3. CASE \/ call[q].op = "update"
                 \/ Readable(rows[i]) /\ Wish(body[q]) = Wish(rows[i].config)
        BY <2>5, <3>2, <3>3
      <3>4. CASE call[q].op = "provision" /\ Readable(rows[i])
                 /\ Wish(body[q]) # Wish(rows[i].config)
        <4>1. PICK r \in Requests : Source(r, i)
          BY <3>4 DEF RestInv, OriginInv, SourceOK
        <4>2. r # q /\ call[r].inst = i /\ call[r].op # "deprovision"
              /\ Wish(rows[i].config) = Wish(body[r])
          BY <3>4, <4>1 DEF Source
        <4>3. pc[r] = "sent" /\ ~Task!Unacknowledged(r)
          BY <4>1, <4>2 DEF AtRest, Quiet, Source
        <4>4. status[r] = "deleted"
          BY <4>3 DEF Task!Unacknowledged, RestInv, OriginInv, BackedInv, MessageOK, TypeInv,
             W!WorkerInv, W!WorkerTypeOK, W!QueueTypeOK, W!Statuses
        <4>5. handled[r] > 0
          BY <4>4 DEF RestInv, OriginInv, BackedInv, TypeInv, W!WorkerInv, W!AckOK
        <4>6. LateProvision(i)
          BY <3>1, <3>2, <3>4, <4>2, <4>5 DEF LateProvision
        <4> QED BY <2>5, <3>2, <4>6
      <3>5. CASE call[q].op = "provision" /\ ~Readable(rows[i])
        <4>1. PICK d \in Requests : /\ call[d].inst = i /\ call[d].op = "deprovision"
                                   /\ handled[d] > 0
          BY <2>5, <3>5 DEF RestInv, OriginInv, SourceOK, Absent, Removed
        <4>2. LateProvision(i)
          BY <3>1, <3>2, <3>5, <4>1 DEF LateProvision
        <4> QED BY <2>5, <3>2, <4>2
      <3> QED BY <3>2, <3>3, <3>4, <3>5
    <2> QED BY <2>3, <2>4, <2>5
  <1> QED BY <1>1, <1>2, InitRest, PTL DEF Spec
==============================================================================
