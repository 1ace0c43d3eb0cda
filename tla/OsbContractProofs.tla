-------------------------- MODULE OsbContractProofs --------------------------
(***************************************************************************)
(* OsbInstances implements BrokerContract for a platform that waits for    *)
(* each operation to end, when no worker crashes and no batch outlives its *)
(* visibility timeout: for any number of requests, instances and workers,  *)
(* also when handlers die, calls fail and workers are stopped.  What it    *)
(* reports as succeeded is then published, and table and bucket agree.     *)
(***************************************************************************)
EXTENDS OsbInstancesProofs

(* No worker crashes, and no batch outlives its visibility timeout. *)
Orderly == Serial /\ "crash" \notin Faults /\ "overrun" \notin Faults

(* A call that is being answered. *)
Active(r) == pc[r] \in {"read", "write", "send"} /\ resp[r] = "none"

CallOK == \A r \in Requests : call[r] \in Menu[r]

(* No half rows. *)
FullOK == \A i \in Instances : ~Absent(i) => Readable(rows[i])

(* One call of an instance is answered at a time. *)
TurnOK == \A q, r \in Requests :
             Active(q) /\ Active(r) /\ call[q].inst = call[r].inst => q = r

(* The row in progress is that of request r and has what r asks for.       *)
Writes(r) == LET c == call[r]
             IN /\ writer[c.inst] = r
                /\ rows[c.inst].state = StateOf(c.op)
                /\ c.op # "deprovision" => Wish(rows[c.inst].config) = Wish(body[r])

(* What a handler has read is still so.                                    *)
ReadOK ==
    \A r \in Requests :
        LET c == call[r]
            row == rows[c.inst]
        IN Active(r) =>
              /\ pc[r] = "read" => row.state \in {"absent", "available"}
              /\ pc[r] = "write" =>
                    \/ c.op = "provision" /\ row.state = "absent" /\ body[r] = c.config
                    \/ /\ c.op = "update" /\ row.state = "available"
                       /\ body[r] = Updated(row, c.config)
                    \/ c.op = "deprovision" /\ row.state = "available"
              /\ pc[r] = "send" => Writes(r)

(* A task that is queued or held is that of the row, or was carried out    *)
(* and is being acknowledged.                                              *)
TaskOK ==
    \A r \in Requests :
        status[r] \in {"visible", "inflight"} =>
            \/ handled[r] = 0 /\ Writes(r)
            \/ \E w \in Workers : at[w] = "ack" /\ job[w] = r

(* What a worker has done in the task it is at. *)
DoneOK ==
    \A w \in Workers :
        LET c == call[job[w]]
        IN /\ at[w] = "get" => c.op = "update"
           /\ at[w] \in {"write", "record"} => c.op \in {"provision", "update"}
           /\ at[w] = "record" => artifacts[c.inst] = body[job[w]]
           /\ at[w] \in {"erase", "remove"} => c.op = "deprovision"
           /\ at[w] = "remove" => artifacts[c.inst] = NoArtifact

(* What is available is published, with what the row asks for, and what is *)
(* gone is erased.                                                         *)
Agrees(i) ==
    /\ Absent(i) => artifacts[i] = NoArtifact
    /\ rows[i].state = "available" =>
          /\ rows[i].keyed /\ artifacts[i] # NoArtifact
          /\ Wish(artifacts[i]) = Wish(rows[i].config)

PublishedOK == \A i \in Instances : Agrees(i)

Kept == FullOK /\ TurnOK /\ ReadOK /\ TaskOK /\ DoneOK /\ PublishedOK

(* The single holders of messages come from the worker loop. *)
OrderInv == BackedInv /\ W!SoleOK /\ W!OnceOK /\ CallOK /\ Kept

(* Nothing is there at the start. *)
LEMMA InitOrder == Init => OrderInv
  <1> SUFFICES ASSUME Init PROVE OrderInv
    OBVIOUS
  <1>1. BackedInv
    BY InitBacked
  <1>2. CallOK
    BY DEF Init, CallOK
  <1>3. FullOK /\ TurnOK /\ ReadOK
    BY DEF Init, FullOK, Absent, NoRow, TurnOK, ReadOK, Active
  <1>4. TaskOK /\ DoneOK /\ PublishedOK
    BY DEF Init, Task!WorkerInit, Task!QueueInit, TaskOK, DoneOK, PublishedOK, Agrees, NoRow
  <1>5. W!SoleOK /\ W!OnceOK
    BY SameInit, W!SoleInit DEF Init
  <1> QED BY <1>1, <1>2, <1>3, <1>4, <1>5 DEF OrderInv, Kept

------------------------------------------------------------------------------
(* What the invariant says of a task in the hands of a worker. *)

(* Operations put rows in progress. *)
LEMMA StateOfOp ==
    ASSUME NEW op \in Ops
    PROVE  StateOf(op) \in InProgress /\ StateOf(op) \in States
           /\ StateOf(op) \notin {"absent", "available"}
  BY DEF Ops, StateOf, InProgress, States

(* A message that was queued has a handler that is done. *)
LEMMA QueuedSent ==
    ASSUME OrderInv, NEW r \in Requests, status[r] # "unsent"
    PROVE  pc[r] = "sent" /\ ~Active(r) /\ call[r] \in Calls
  BY DEF OrderInv, BackedInv, MessageOK, Active, TypeInv, DataOK

(* No call of an instance is answered while the row is that of a task.     *)
LEMMA NoneActive ==
    ASSUME OrderInv, NEW r \in Requests, Writes(r), pc[r] = "sent",
           NEW q \in Requests, call[q].inst = call[r].inst
    PROVE  ~Active(q)
  <1>1. rows[call[r].inst].state \notin {"absent", "available"}
    BY StateOfOp DEF Writes, OrderInv, BackedInv, TypeInv, DataOK, Calls
  <1>2. pc[q] = "send" /\ Active(q) => Writes(q)
    BY DEF OrderInv, Kept, ReadOK
  <1>3. Writes(q) => q = r
    BY DEF Writes
  <1> QED BY <1>1, <1>2, <1>3 DEF OrderInv, Kept, ReadOK, Active

(* A worker in a task holds the message whose row is in progress. *)
LEMMA Mine ==
    ASSUME OrderInv, NEW w \in Workers, at[w] \in TaskSteps
    PROVE  /\ job[w] \in Requests /\ call[job[w]] \in Calls /\ body[job[w]] \in Configs
           /\ rows[call[job[w]].inst] \in Rows
           /\ status[job[w]] = "inflight" /\ held[w][job[w]] > 0 /\ pc[job[w]] = "sent"
           /\ handled[job[w]] = 0 /\ Writes(job[w])
  <1>1. job[w] \in Requests /\ held[w][job[w]] > 0 /\ at[w] # "ack"
    BY DEF OrderInv, BackedInv, TypeInv, W!WorkerInv, W!BusyOK, TaskSteps
  <1>2. /\ status[job[w]] = "inflight"
        /\ \A v \in Workers : held[v][job[w]] > 0 => v = w
    BY <1>1 DEF OrderInv, W!SoleOK
  <1>3. \A v \in Workers : at[v] = "ack" => held[v][job[v]] > 0
    BY DEF OrderInv, BackedInv, TypeInv, W!WorkerInv, W!BusyOK
  <1>4. handled[job[w]] = 0 /\ Writes(job[w])
    BY <1>1, <1>2, <1>3 DEF OrderInv, Kept, TaskOK
  <1> QED BY <1>1, <1>2, <1>4, QueuedSent DEF OrderInv, BackedInv, TypeInv, DataOK, Calls

(* No two workers are in tasks of one instance. *)
LEMMA Alone ==
    ASSUME OrderInv, NEW v \in Workers, NEW w \in Workers,
           at[v] \in TaskSteps, at[w] \in TaskSteps, call[job[v]].inst = call[job[w]].inst
    PROVE  v = w
  <1>1. job[v] = job[w]
    BY Mine DEF Writes
  <1>2. held[v][job[w]] > 0 /\ held[w][job[w]] > 0 /\ job[w] \in Requests
    BY <1>1, Mine
  <1> QED BY <1>2 DEF OrderInv, W!SoleOK

------------------------------------------------------------------------------
(* The handlers of requests. *)

(* As long as rows and tasks are left alone, only who is being answered    *)
(* and what was read has to be looked at.                                  *)
LEMMA TasksSame ==
    ASSUME OrderInv,
           UNCHANGED <<call, rows, artifacts, writer, status, receives, at, job, held, handled>>,
           \A q \in Requests : pc[q] = "sent" => body'[q] = body[q]
    PROVE  FullOK' /\ TaskOK' /\ DoneOK' /\ PublishedOK'
  <1>1. FullOK' /\ PublishedOK'
    BY DEF OrderInv, Kept, FullOK, PublishedOK, Agrees, Absent
  <1>2. \A q \in Requests : status[q] # "unsent" => body'[q] = body[q]
    BY QueuedSent
  <1>3. TaskOK'
    <2>1. \A q \in Requests : status[q] # "unsent" => (Writes(q)' <=> Writes(q))
      BY <1>2 DEF Writes
    <2> QED BY <2>1 DEF OrderInv, Kept, TaskOK
  <1>4. DoneOK'
    <2>1. \A w \in Workers : at[w] \in TaskSteps => body'[job[w]] = body[job[w]]
      BY <1>2, Mine
    <2>2. "record" \in TaskSteps
      BY DEF TaskSteps
    <2> QED BY <2>1, <2>2 DEF OrderInv, Kept, DoneOK
  <1> QED BY <1>1, <1>3, <1>4

(* A call is answered without a write. *)
LEMMA AnswerKept ==
    ASSUME OrderInv, NEW r \in Requests, NEW code, code # "none", Answer(r, code)
    PROVE  Kept'
  <1>1. FullOK' /\ TaskOK' /\ DoneOK' /\ PublishedOK'
    BY TasksSame DEF Answer, tasks
  <1>2. \A q \in Requests : Active(q)' => Active(q)
    BY DEF Answer, Active, OrderInv, BackedInv, TypeInv, DataOK
  <1>3. TurnOK'
    BY <1>2 DEF Answer, OrderInv, Kept, TurnOK
  <1>4. ReadOK'
    BY <1>2 DEF Answer, OrderInv, Kept, ReadOK, Writes
  <1> QED BY <1>1, <1>3, <1>4 DEF Kept

(* A call arrives when the operation before it has ended. *)
LEMMA ArriveKept ==
    ASSUME OrderInv, Serial, NEW r \in Requests, Arrive(r)
    PROVE  Kept'
  <1>1. FullOK' /\ TaskOK' /\ DoneOK' /\ PublishedOK'
    BY TasksSame DEF Arrive, tasks
  <1>2. /\ \A q \in Requests : q # r => (Active(q)' <=> Active(q))
        /\ \A q \in Requests : call[q].inst = call[r].inst => ~Active(q)
    BY DEF Arrive, Free, Active, OrderInv, BackedInv, TypeInv, DataOK
  <1>3. TurnOK'
    BY <1>2 DEF Arrive, OrderInv, Kept, TurnOK
  <1>4. rows[call[r].inst].state \in {"absent", "available"}
    <2>1. call[r].inst \in Instances /\ rows[call[r].inst] \in Rows
      BY DEF OrderInv, BackedInv, TypeInv, DataOK, Calls
    <2>2. LastOperation(call[r].inst) # "in progress"
      BY DEF Arrive, Free
    <2>3. ~Absent(call[r].inst) => Readable(rows[call[r].inst])
      BY <2>1 DEF OrderInv, Kept, FullOK
    <2> QED BY <2>1, <2>2, <2>3 DEF LastOperation, Absent, Rows, States, InProgress
  <1>5. ReadOK'
    <2>1. pc'[r] = "read"
      BY DEF Arrive, OrderInv, BackedInv, TypeInv, DataOK
    <2> QED BY <1>2, <1>4, <2>1 DEF Arrive, OrderInv, Kept, ReadOK, Writes
  <1> QED BY <1>1, <1>3, <1>5 DEF Kept

(* A handler goes on with what it has read. *)
LEMMA ContinueKept ==
    ASSUME OrderInv, NEW r \in Requests, NEW config, NEW dumps,
           Running(r, "read"), Continue(r, config, dumps),
           LET row == rows[call[r].inst]
               c == call[r]
           IN \/ c.op = "provision" /\ row.state = "absent" /\ config = c.config
              \/ c.op = "update" /\ row.state = "available" /\ config = Updated(row, c.config)
              \/ c.op = "deprovision" /\ row.state = "available"
    PROVE  Kept'
  <1>1. \A q \in Requests : q # r => body'[q] = body[q] /\ pc'[q] = pc[q]
    BY DEF Continue, OrderInv, BackedInv, TypeInv, DataOK
  <1>2. FullOK' /\ TaskOK' /\ DoneOK' /\ PublishedOK'
    BY <1>1, TasksSame DEF Continue, tasks, Running
  <1>3. \A q \in Requests : Active(q)' <=> Active(q)
    BY DEF Continue, Running, Active, OrderInv, BackedInv, TypeInv, DataOK
  <1>4. TurnOK'
    BY <1>3 DEF Continue, OrderInv, Kept, TurnOK
  <1>5. ReadOK'
    <2>1. body'[r] = config /\ pc'[r] = "write"
      BY DEF Continue, OrderInv, BackedInv, TypeInv, DataOK
    <2>2. UNCHANGED <<call, rows, writer>>
      BY DEF Continue
    <2> SUFFICES ASSUME NEW q \in Requests, Active(q)
                 PROVE  LET c == call[q]
                            row == rows[c.inst]
                        IN /\ pc'[q] = "read" => row.state \in {"absent", "available"}
                           /\ pc'[q] = "write" =>
                                 \/ c.op = "provision" /\ row.state = "absent" /\ body'[q] = c.config
                                 \/ /\ c.op = "update" /\ row.state = "available"
                                    /\ body'[q] = Updated(row, c.config)
                                 \/ c.op = "deprovision" /\ row.state = "available"
                           /\ pc'[q] = "send" => Writes(q)'
      BY <1>3, <2>2 DEF ReadOK
    <2>3. CASE q = r
      BY <2>1, <2>3
    <2>4. CASE q # r
      BY <1>1, <2>2, <2>4 DEF OrderInv, Kept, ReadOK, Writes
    <2> QED BY <2>3, <2>4
  <1> QED BY <1>2, <1>4, <1>5 DEF Kept

(* A handler writes the row it has read; no task of that instance is left. *)
LEMMA WroteKept ==
    ASSUME OrderInv, NEW r \in Requests, NEW row \in Rows,
           Running(r, "write"), Wrote(r, row), Readable(row), row.state = StateOf(call[r].op),
           call[r].op # "deprovision" => Wish(row.config) = Wish(body[r])
    PROVE  Kept'
  <1>1. /\ call[r] \in Calls /\ call[r].inst \in Instances /\ Active(r)
        /\ rows[call[r].inst].state \in {"absent", "available"}
    BY DEF Running, Active, OrderInv, BackedInv, TypeInv, DataOK, Calls, Kept, ReadOK
  <1>2. /\ \A i \in Instances : i # call[r].inst => rows'[i] = rows[i] /\ writer'[i] = writer[i]
        /\ rows'[call[r].inst] = row /\ writer'[call[r].inst] = r
        /\ pc'[r] = "send"
        /\ \A q \in Requests : q # r => pc'[q] = pc[q]
        /\ UNCHANGED <<call, body, resp, status, receives, at, job, held, handled, artifacts>>
    BY <1>1 DEF Wrote, tasks, OrderInv, BackedInv, TypeInv, DataOK
  <1>3. \A q \in Requests : Active(q)' <=> Active(q)
    BY <1>1, <1>2 DEF Active, Running
  <1>4. FullOK' /\ TurnOK'
    BY <1>2, <1>3 DEF OrderInv, Kept, FullOK, Absent, TurnOK
  <1>5. PublishedOK'
    <2>1. row.state \notin {"absent", "available"}
      BY <1>1, StateOfOp DEF Calls
    <2> QED BY <1>2, <2>1 DEF OrderInv, Kept, PublishedOK, Agrees, Absent
  <1>6. DoneOK'
    BY <1>2 DEF OrderInv, Kept, DoneOK
  <1>7. \A q \in Requests : call[q].inst # call[r].inst => (Writes(q)' <=> Writes(q))
    BY <1>2 DEF Writes, OrderInv, BackedInv, TypeInv, DataOK, Calls
  <1>8. Writes(r)'
    BY <1>2 DEF Writes
  <1>9. ReadOK'
    <2> SUFFICES ASSUME NEW q \in Requests, Active(q), q # r
                 PROVE  LET c == call[q]
                            new == rows'[c.inst]
                        IN /\ pc[q] = "read" => new.state \in {"absent", "available"}
                           /\ pc[q] = "write" =>
                                 \/ c.op = "provision" /\ new.state = "absent" /\ body[q] = c.config
                                 \/ /\ c.op = "update" /\ new.state = "available"
                                    /\ body[q] = Updated(new, c.config)
                                 \/ c.op = "deprovision" /\ new.state = "available"
                           /\ pc[q] = "send" => Writes(q)'
      BY <1>2, <1>3, <1>8 DEF ReadOK
    <2>1. call[q].inst # call[r].inst /\ call[q].inst \in Instances
      BY <1>1 DEF OrderInv, Kept, TurnOK, BackedInv, TypeInv, DataOK, Calls
    <2> QED BY <1>2, <1>7, <2>1 DEF OrderInv, Kept, ReadOK
  <1>10. TaskOK'
    <2> SUFFICES ASSUME NEW q \in Requests, status[q] \in {"visible", "inflight"},
                        handled[q] = 0, Writes(q)
                 PROVE  Writes(q)'
      BY <1>2 DEF OrderInv, Kept, TaskOK
    <2>1. call[q].inst # call[r].inst
      BY <1>1, QueuedSent, NoneActive
    <2> QED BY <1>7, <2>1
  <1> QED BY <1>4, <1>5, <1>6, <1>9, <1>10 DEF Kept

(* What a handler writes is what it was asked for. *)
LEMMA MovedWithWish ==
    ASSUME NEW row \in Rows, NEW state \in States, NEW config \in Configs
    PROVE  /\ MovedWith(row, state, config) \in Rows
           /\ MovedWith(row, state, config).state = state
           /\ Wish(MovedWith(row, state, config).config) = Wish(config)
           /\ Readable(MovedWith(row, state, config)) <=> Readable(row)
  <1>1. MovedWith(row, state, config).config
          = [row.config EXCEPT !.plan = config.plan, !.params = config.params]
    BY DEF MovedWith, Rows
  <1>2. row.config \in Configs
    BY DEF Rows
  <1> QED BY <1>1, <1>2, MovedWithType DEF Wish, Readable, Configs

(* Its three writes. *)
LEMMA WriteKept ==
    ASSUME OrderInv, NEW r \in Requests,
           ProvisionCreate(r) \/ UpdateTransition(r) \/ DeprovisionTransition(r)
    PROVE  Kept'
  <1>1. /\ call[r] \in Calls /\ body[r] \in Configs /\ rows[call[r].inst] \in Rows
        /\ call[r].inst \in Instances
        /\ Running(r, "write") /\ Active(r) /\ call[r].config.service # Missing
    BY InstancesAssumption DEF ProvisionCreate, UpdateTransition, DeprovisionTransition, Running,
       Active, OrderInv, CallOK, BackedInv, TypeInv, DataOK, Calls
  <1>2. rows[call[r].inst].state = "available" => Readable(rows[call[r].inst])
    BY <1>1 DEF OrderInv, Kept, FullOK, Absent
  <1>3. CASE ProvisionCreate(r)
    <2>1. CASE Wrote(r, NewRow(body[r]))
      <3>1. NewRow(body[r]) \in Rows /\ NewRow(body[r]).state = StateOf(call[r].op)
        BY <1>1, <1>3, NewRowType DEF ProvisionCreate, StateOf
      <3>2. body[r] = call[r].config
        BY <1>1, <1>3 DEF ProvisionCreate, OrderInv, Kept, ReadOK, Running
      <3>3. NewRow(body[r]).config = body[r] /\ Readable(NewRow(body[r]))
        BY <1>1, <3>2 DEF NewRow, Readable
      <3> QED BY <1>1, <2>1, <3>1, <3>3, WroteKept
    <2>2. CASE Answer(r, "422")
      BY <2>2, AnswerKept
    <2> QED BY <1>3, <2>1, <2>2 DEF ProvisionCreate
  <1>4. CASE UpdateTransition(r)
    <2> DEFINE row == MovedWith(rows[call[r].inst], "updating", body[r])
    <2>1. Wrote(r, row) /\ call[r].op = "update" /\ "updating" \in States
          /\ rows[call[r].inst].state = "available"
      BY <1>1, <1>4 DEF UpdateTransition, States, OrderInv, Kept, ReadOK, Running
    <2>2. /\ row \in Rows /\ row.state = StateOf(call[r].op)
          /\ Wish(row.config) = Wish(body[r]) /\ Readable(row)
      BY <1>1, <1>2, <2>1, MovedWithWish DEF StateOf
    <2> HIDE DEF row
    <2> QED BY <1>1, <2>1, <2>2, WroteKept
  <1>5. CASE DeprovisionTransition(r)
    <2> DEFINE row == Moved(rows[call[r].inst], "deprovisioning")
    <2>1. Wrote(r, row) /\ call[r].op = "deprovision" /\ "deprovisioning" \in States
          /\ rows[call[r].inst].state = "available"
      BY <1>1, <1>5 DEF DeprovisionTransition, States, OrderInv, Kept, ReadOK, Running
    <2>2. row \in Rows /\ row.state = StateOf(call[r].op) /\ Readable(row)
      BY <1>1, <1>2, <2>1, MovedType DEF StateOf, Moved, Readable, Rows
    <2> HIDE DEF row
    <2> QED BY <1>1, <2>1, <2>2, WroteKept
  <1> QED BY <1>3, <1>4, <1>5

(* The message of a row that was written. *)
LEMMA SendKept ==
    ASSUME OrderInv, NEW r \in Requests, Send(r)
    PROVE  Kept'
  <1>1. /\ status[r] = "unsent" /\ status'[r] = "visible" /\ handled[r] = 0 /\ Active(r)
        /\ \A q \in Requests : q # r => status'[q] = status[q] /\ (Active(q)' <=> Active(q))
        /\ ~Active(r)'
        /\ \A q \in Requests : q # r => pc'[q] = pc[q]
    BY DEF Send, Running, Active, Task!Send, Task!Sent, OrderInv, BackedInv, TypeInv, DataOK,
       W!WorkerInv, W!WorkerTypeOK, W!QueueTypeOK, W!AckOK
  <1>2. UNCHANGED <<call, body, rows, artifacts, writer, receives, at, job, held, handled>>
    BY DEF Send, Task!Send, Task!Sent, Task!workerVars
  <1>3. \A q \in Requests : Writes(q)' <=> Writes(q)
    BY <1>2 DEF Writes
  <1>4. Writes(r)
    BY <1>1 DEF Send, Running, OrderInv, Kept, ReadOK
  <1>5. FullOK' /\ DoneOK' /\ PublishedOK'
    BY <1>2 DEF OrderInv, Kept, FullOK, Absent, DoneOK, PublishedOK, Agrees
  <1>6. TurnOK' /\ ReadOK'
    BY <1>1, <1>2, <1>3 DEF OrderInv, Kept, TurnOK, ReadOK
  <1>7. TaskOK'
    BY <1>1, <1>2, <1>3, <1>4 DEF OrderInv, Kept, TaskOK
  <1> QED BY <1>5, <1>6, <1>7 DEF Kept

(* Every step of a handler keeps the invariant. *)
LEMMA HandlerKept ==
    ASSUME Orderly, OrderInv, NEW r \in Requests, Arrive(r) \/ Handle(r) \/ Abort(r)
    PROVE  Kept'
  <1>1. Running(r, "read") => rows[call[r].inst].state \in {"absent", "available"}
    BY DEF Running, Active, OrderInv, Kept, ReadOK
  <1>2. CASE ProvisionRead(r)
    BY <1>2, AnswerKept, ContinueKept DEF ProvisionRead, Absent
  <1>3. CASE UpdateRead(r)
    BY <1>1, <1>3, AnswerKept, ContinueKept DEF UpdateRead, Absent
  <1>4. CASE DeprovisionRead(r)
    BY <1>1, <1>4, AnswerKept, ContinueKept DEF DeprovisionRead, Absent
  <1>5. CASE SendRaises(r) \/ Abort(r)
    BY <1>5, AnswerKept DEF SendRaises, Abort
  <1> QED BY <1>2, <1>3, <1>4, <1>5, ArriveKept, WriteKept, SendKept DEF Handle, Orderly

------------------------------------------------------------------------------
(* The queue and the loop. *)

(* They leave rows and handlers alone. *)
LEMMA LoopFrame ==
    ASSUME OrderInv, UNCHANGED <<call, api, rows, writer>>
    PROVE  /\ FullOK' /\ TurnOK' /\ ReadOK'
           /\ \A r \in Requests : Writes(r)' <=> Writes(r)
           /\ \A i \in Instances : artifacts'[i] = artifacts[i] => Agrees(i)'
  <1>1. /\ \A r \in Requests : (Writes(r)' <=> Writes(r)) /\ (Active(r)' <=> Active(r))
        /\ \A i \in Instances : Absent(i)' <=> Absent(i)
    BY DEF api, Writes, Active, Absent
  <1>2. FullOK' /\ TurnOK'
    BY <1>1 DEF OrderInv, Kept, FullOK, TurnOK
  <1>3. ReadOK'
    BY <1>1 DEF api, OrderInv, Kept, ReadOK
  <1>4. \A i \in Instances : artifacts'[i] = artifacts[i] => Agrees(i)'
    BY <1>1 DEF OrderInv, Kept, PublishedOK, Agrees
  <1> QED BY <1>1, <1>2, <1>3, <1>4

(* Messages that nobody holds come back, or are dead-lettered. *)
LEMMA RequeueKept ==
    ASSUME Orderly, OrderInv, NEW r \in Requests, Requeue(r)
    PROVE  Kept'
  <1>1. UNCHANGED <<call, api, rows, artifacts, writer, receives, at, job, held, handled>>
    BY DEF Requeue, Task!Expire, Task!Expired, Task!Redrive, Task!Redriven, Task!workerVars
  <1>2. \A q \in Requests : q # r => status'[q] = status[q]
    BY DEF Requeue, Task!Expire, Task!Expired, Task!Redrive, Task!Redriven,
       OrderInv, BackedInv, TypeInv, W!WorkerInv, W!WorkerTypeOK, W!QueueTypeOK
  <1>3. /\ status'[r] \in {"visible", "dead"} /\ status[r] \in {"visible", "inflight"}
        /\ \A w \in Workers : ~(held[w][r] > 0)
    <2>1. CASE Task!Expire(r)
      BY <2>1 DEF Orderly, Task!Expire, Task!Expired,
         OrderInv, BackedInv, TypeInv, W!WorkerInv, W!WorkerTypeOK, W!QueueTypeOK
    <2>2. CASE Task!Redrive(r)
      BY <2>2 DEF Task!Redrive, Task!Redriven, OrderInv, W!SoleOK, BackedInv, TypeInv,
         W!WorkerInv, W!WorkerTypeOK, W!QueueTypeOK
    <2> QED BY <2>1, <2>2 DEF Requeue
  <1>4. FullOK' /\ TurnOK' /\ ReadOK' /\ \A q \in Requests : Writes(q)' <=> Writes(q)
    BY <1>1, LoopFrame
  <1>5. PublishedOK'
    BY <1>1, LoopFrame DEF PublishedOK
  <1>6. TaskOK'
    <2>1. \A q \in Requests : status'[q] \in {"visible", "inflight"} =>
                                 status[q] \in {"visible", "inflight"}
      BY <1>2, <1>3
    <2> QED BY <1>1, <1>4, <2>1 DEF OrderInv, Kept, TaskOK
  <1>7. DoneOK'
    BY <1>1 DEF api, OrderInv, Kept, DoneOK
  <1> QED BY <1>4, <1>5, <1>6, <1>7 DEF Kept

(* A batch is received by a worker that held nothing, of messages nobody   *)
(* held.                                                                   *)
LEMMA PollKept ==
    ASSUME OrderInv, NEW w \in Workers, Task!Poll(w),
           UNCHANGED <<call, api, rows, artifacts, writer>>
    PROVE  Kept'
  <1>1. PICK batch \in SUBSET Requests :
           /\ \A r \in batch : status[r] = "visible"
           /\ status' = [r \in Requests |-> IF r \in batch THEN "inflight" ELSE status[r]]
           /\ receives' = [r \in Requests |-> IF r \in batch THEN receives[r] + 1 ELSE receives[r]]
           /\ held' = [held EXCEPT ![w] = [r \in Requests |->
                         IF r \in batch THEN receives'[r] ELSE 0]]
    BY DEF Task!Poll, Task!Received, Task!Receivable
  <1>2. UNCHANGED <<at, job, handled>>
    BY DEF Task!Poll
  <1>3. FullOK' /\ TurnOK' /\ ReadOK' /\ \A q \in Requests : Writes(q)' <=> Writes(q)
    BY LoopFrame
  <1>4. PublishedOK'
    BY LoopFrame DEF PublishedOK
  <1>5. TaskOK'
    BY <1>1, <1>2, <1>3 DEF OrderInv, Kept, TaskOK
  <1>6. DoneOK'
    BY <1>2 DEF api, OrderInv, Kept, DoneOK
  <1> QED BY <1>3, <1>4, <1>5, <1>6 DEF Kept

(* A worker drops the message it is at: acknowledged, with the newest      *)
(* receipt, or left for its next delivery.                                 *)
LEMMA DropKept ==
    ASSUME OrderInv, NEW w \in Workers, Task!Ack(w) \/ Task!Fail(w),
           UNCHANGED <<call, api, rows, artifacts, writer>>
    PROVE  Kept'
  <1>1. /\ job[w] \in Requests /\ held[w][job[w]] > 0
        /\ status[job[w]] = "inflight" /\ held[w][job[w]] = receives[job[w]]
    <2>1. at[w] # "poll"
      BY DEF Task!Ack, Task!Fail, TaskSteps
    <2> QED BY <2>1 DEF OrderInv, BackedInv, TypeInv, W!WorkerInv, W!BusyOK, W!SoleOK
  <1>2. /\ \A r \in Requests : r # job[w] => status'[r] = status[r]
        /\ status'[job[w]] = IF at[w] = "ack" THEN "deleted" ELSE "inflight"
        /\ UNCHANGED <<receives, handled>>
    <2>1. CASE Task!Ack(w)
      BY <1>1, <2>1 DEF Task!Ack, Task!Deleted, Task!Deliverable, OrderInv, BackedInv, TypeInv,
         W!WorkerInv, W!WorkerTypeOK, W!QueueTypeOK
    <2>2. CASE Task!Fail(w)
      BY <1>1, <2>2 DEF Task!Fail, Task!LeftForRedrive, Task!queueVars, TaskSteps
    <2> QED BY <2>1, <2>2
  <1>3. /\ at'[w] = "poll"
        /\ \A v \in Workers : v # w => at'[v] = at[v] /\ job'[v] = job[v] /\ held'[v] = held[v]
        /\ \A r \in Requests : held'[w][r] = IF r = job[w] THEN 0 ELSE held[w][r]
    BY <1>1 DEF Task!Ack, Task!Fail, Task!Drop, OrderInv, BackedInv, TypeInv, W!WorkerInv,
       W!WorkerTypeOK
  <1>4. FullOK' /\ TurnOK' /\ ReadOK' /\ \A q \in Requests : Writes(q)' <=> Writes(q)
    BY LoopFrame
  <1>5. PublishedOK'
    BY LoopFrame DEF PublishedOK
  <1>6. TaskOK'
    <2> SUFFICES ASSUME NEW r \in Requests, status'[r] \in {"visible", "inflight"}
                 PROVE  \/ handled[r] = 0 /\ Writes(r)
                        \/ \E v \in Workers : at'[v] = "ack" /\ job'[v] = r
      BY <1>2, <1>4 DEF TaskOK
    <2>1. status[r] \in {"visible", "inflight"}
      BY <1>1, <1>2
    <2>2. ~(at[w] = "ack" /\ job[w] = r)
      BY <1>2
    <2> QED BY <1>3, <2>1, <2>2 DEF OrderInv, Kept, TaskOK
  <1>7. DoneOK'
    <2> SUFFICES ASSUME NEW v \in Workers, at'[v] # "poll"
                 PROVE  LET c == call[job'[v]]
                        IN /\ at'[v] = "get" => c.op = "update"
                           /\ at'[v] \in {"write", "record"} => c.op \in {"provision", "update"}
                           /\ at'[v] = "record" => artifacts[c.inst] = body[job'[v]]
                           /\ at'[v] \in {"erase", "remove"} => c.op = "deprovision"
                           /\ at'[v] = "remove" => artifacts[c.inst] = NoArtifact
      BY DEF DoneOK, api
    <2>1. v # w
      BY <1>3
    <2> QED BY <1>3, <2>1 DEF OrderInv, Kept, DoneOK
  <1> QED BY <1>4, <1>5, <1>6, <1>7 DEF Kept

(* A worker that is stopped ends its batch first. *)
LEMMA StopKept ==
    ASSUME OrderInv, NEW w \in Workers, Task!RequestStop(w) \/ Task!Restart(w),
           UNCHANGED <<call, api, rows, artifacts, writer>>
    PROVE  Kept'
  <1>1. UNCHANGED <<status, receives, at, job, held, handled>>
    BY DEF Task!RequestStop, Task!Restart, Task!queueVars
  <1>2. FullOK' /\ TurnOK' /\ ReadOK' /\ \A q \in Requests : Writes(q)' <=> Writes(q)
    BY LoopFrame
  <1>3. TaskOK'
    BY <1>1, <1>2 DEF OrderInv, Kept, TaskOK
  <1>4. DoneOK'
    BY <1>1 DEF api, OrderInv, Kept, DoneOK
  <1>5. PublishedOK'
    BY LoopFrame DEF PublishedOK
  <1> QED BY <1>2, <1>3, <1>4, <1>5 DEF Kept

------------------------------------------------------------------------------
(* The tasks. *)

(* A recorded row is available and asks for what it asked for. *)
LEMMA RecordedWish ==
    ASSUME NEW row \in Rows, NEW op \in Ops, NEW config \in Configs,
           Wish(row.config) = Wish(config)
    PROVE  LET new == Recorded(row, op, config)
           IN /\ new \in Rows /\ new.state = "available" /\ Wish(new.config) = Wish(row.config)
              /\ Readable(new) <=> Readable(row)
  BY RecordedType, RecordedFields

(* A worker goes on in its task; nobody else is in one of that instance. *)
LEMMA AdvanceKept ==
    ASSUME OrderInv, NEW w \in Workers, NEW from \in TaskSteps, NEW to \in TaskSteps,
           Task!Advance(w, from, to), UNCHANGED <<call, api, rows, writer>>,
           \A i \in Instances : i # call[job[w]].inst => artifacts'[i] = artifacts[i],
           LET c == call[job[w]]
           IN \/ to = "write" /\ c.op = "update"
              \/ /\ to = "record" /\ c.op \in {"provision", "update"}
                 /\ artifacts'[c.inst] = body[job[w]]
              \/ /\ to = "remove" /\ c.op = "deprovision"
                 /\ artifacts'[c.inst] = NoArtifact
    PROVE  Kept'
  <1>1. /\ at[w] = from /\ at'[w] = to /\ UNCHANGED <<status, receives, job, held, handled>>
        /\ \A v \in Workers : v # w => at'[v] = at[v]
    BY DEF Task!Advance, Task!queueVars, OrderInv, BackedInv, TypeInv, W!WorkerInv, W!WorkerTypeOK
  <1>2. FullOK' /\ TurnOK' /\ ReadOK' /\ \A q \in Requests : Writes(q)' <=> Writes(q)
    BY LoopFrame
  <1>3. PublishedOK'
    <2> SUFFICES ASSUME NEW i \in Instances, i = call[job[w]].inst
                 PROVE  Agrees(i)'
      BY LoopFrame DEF PublishedOK
    <2>1. rows[i].state \notin {"absent", "available"}
      BY <1>1, Mine, StateOfOp DEF Writes, Calls
    <2> QED BY <2>1 DEF Agrees, Absent
  <1>4. TaskOK'
    <2>1. from # "ack"
      BY DEF TaskSteps
    <2>2. \A v \in Workers : at[v] = "ack" => at'[v] = "ack"
      BY <1>1, <2>1
    <2> QED BY <1>1, <1>2, <2>2 DEF OrderInv, Kept, TaskOK
  <1>5. DoneOK'
    <2> SUFFICES ASSUME NEW v \in Workers
                 PROVE  LET c == call[job[v]]
                        IN /\ at'[v] = "get" => c.op = "update"
                           /\ at'[v] \in {"write", "record"} => c.op \in {"provision", "update"}
                           /\ at'[v] = "record" => artifacts'[c.inst] = body[job[v]]
                           /\ at'[v] \in {"erase", "remove"} => c.op = "deprovision"
                           /\ at'[v] = "remove" => artifacts'[c.inst] = NoArtifact
      BY <1>1 DEF DoneOK, api
    <2>1. CASE v = w
      BY <1>1, <2>1
    <2>2. CASE v # w /\ at[v] \in TaskSteps
      <3>1. call[job[v]].inst # call[job[w]].inst /\ call[job[v]].inst \in Instances
        BY <1>1, <2>2, Alone, Mine DEF Calls
      <3> QED BY <1>1, <2>2, <3>1 DEF OrderInv, Kept, DoneOK
    <2>3. CASE v # w /\ at[v] \notin TaskSteps
      BY <1>1, <2>3 DEF TaskSteps
    <2> QED BY <2>1, <2>2, <2>3
  <1> QED BY <1>2, <1>3, <1>4, <1>5 DEF Kept

(* A worker ends its task: the row is in progress no more. *)
LEMMA FinishKept ==
    ASSUME OrderInv, NEW w \in Workers, NEW from \in TaskSteps,
           Task!Finish(w, from), UNCHANGED <<call, api, artifacts>>,
           LET i == call[job[w]].inst
           IN /\ rows'[i].state \in {"absent", "available"}
              /\ rows'[i].state = "available" => Readable(rows'[i])
              /\ \A j \in Instances : j = i => Agrees(j)'
              /\ \A j \in Instances : j # i => rows'[j] = rows[j] /\ writer'[j] = writer[j]
    PROVE  Kept'
  <1>1. at[w] = from /\ from # "ack"
    BY DEF Task!Finish, TaskSteps
  <1>2. PICK r \in Requests :
           /\ r = job[w] /\ call[r] \in Calls
           /\ pc[r] = "sent" /\ Writes(r)
    BY <1>1, Mine
  <1>3. /\ at'[w] = "ack" /\ UNCHANGED <<status, receives, job, held>>
        /\ \A v \in Workers : v # w => at'[v] = at[v]
        /\ \A q \in Requests : q # r => handled'[q] = handled[q]
    BY <1>2 DEF Task!Finish, Task!queueVars, OrderInv, BackedInv, TypeInv, W!WorkerInv,
       W!WorkerTypeOK
  <1>4. \A q \in Requests : call[q].inst # call[r].inst => (Writes(q)' <=> Writes(q))
    BY <1>2 DEF Writes, api, OrderInv, BackedInv, TypeInv, DataOK, Calls
  <1>5. \A q \in Requests : (Active(q)' <=> Active(q)) /\ (Active(q) => call[q].inst # call[r].inst)
    BY <1>2, NoneActive DEF Active, api
  <1>6. FullOK' /\ TurnOK' /\ PublishedOK'
    BY <1>2, <1>5 DEF OrderInv, Kept, FullOK, Absent, TurnOK, PublishedOK, Agrees
  <1>7. ReadOK'
    <2>1. \A q \in Requests : Active(q) => rows'[call[q].inst] = rows[call[q].inst]
      BY <1>2, <1>5 DEF OrderInv, BackedInv, TypeInv, DataOK, Calls
    <2> QED BY <1>4, <1>5, <2>1 DEF api, OrderInv, Kept, ReadOK
  <1>8. TaskOK'
    <2> SUFFICES ASSUME NEW q \in Requests, status[q] \in {"visible", "inflight"}, q # r
                 PROVE  \/ handled[q] = 0 /\ Writes(q)'
                        \/ \E v \in Workers : at'[v] = "ack" /\ job[v] = q
      BY <1>2, <1>3 DEF TaskOK
    <2>1. Writes(q) => call[q].inst # call[r].inst
      BY <1>2 DEF Writes
    <2>2. \A v \in Workers : at[v] = "ack" => at'[v] = "ack"
      BY <1>1, <1>3
    <2> QED BY <1>4, <2>1, <2>2 DEF OrderInv, Kept, TaskOK
  <1>9. DoneOK'
    <2>1. \A v \in Workers : at'[v] = "ack" \/ at'[v] = at[v]
      BY <1>3
    <2> QED BY <1>3, <2>1 DEF api, OrderInv, Kept, DoneOK
  <1> QED BY <1>6, <1>7, <1>8, <1>9 DEF Kept

(* A task begins. *)
LEMMA TakeKept ==
    ASSUME OrderInv, NEW w \in Workers, NEW r \in Requests, Take(w, r)
    PROVE  Kept'
  <1>1. /\ at[w] = "poll" /\ at'[w] = FirstStep(call[r].op) /\ job'[w] = r
        /\ UNCHANGED <<call, api, rows, artifacts, writer, status, receives, held, handled>>
        /\ \A v \in Workers : v # w => at'[v] = at[v] /\ job'[v] = job[v]
    BY DEF Take, Task!Take, Task!queueVars, OrderInv, BackedInv, TypeInv, W!WorkerInv,
       W!WorkerTypeOK
  <1>2. FullOK' /\ TurnOK' /\ ReadOK' /\ \A q \in Requests : Writes(q)' <=> Writes(q)
    BY <1>1, LoopFrame
  <1>3. PublishedOK'
    BY <1>1, LoopFrame DEF PublishedOK
  <1>4. TaskOK'
    BY <1>1, <1>2 DEF OrderInv, Kept, TaskOK
  <1>5. \/ at'[w] = "write" /\ call[r].op = "provision"
        \/ at'[w] = "get" /\ call[r].op = "update"
        \/ at'[w] = "erase" /\ call[r].op = "deprovision"
    BY <1>1 DEF FirstStep, Ops, Calls, OrderInv, BackedInv, TypeInv, DataOK
  <1>6. DoneOK'
    <2> SUFFICES ASSUME NEW v \in Workers
                 PROVE  LET c == call[job'[v]]
                        IN /\ at'[v] = "get" => c.op = "update"
                           /\ at'[v] \in {"write", "record"} => c.op \in {"provision", "update"}
                           /\ at'[v] = "record" => artifacts[c.inst] = body[job'[v]]
                           /\ at'[v] \in {"erase", "remove"} => c.op = "deprovision"
                           /\ at'[v] = "remove" => artifacts[c.inst] = NoArtifact
      BY <1>1 DEF DoneOK, api
    <2> QED BY <1>1, <1>5 DEF OrderInv, Kept, DoneOK
  <1> QED BY <1>2, <1>3, <1>4, <1>6 DEF Kept

(* The steps a task consists of, with what each does to the contract. *)
LEMMA GetKept ==
    ASSUME OrderInv, NEW w \in Workers, Get(w)
    PROVE  Kept' /\ UNCHANGED Contract!contract
  <1>1. UNCHANGED <<call, api, rows, artifacts, writer>> /\ at[w] = "get" /\ "get" \in TaskSteps
        /\ "write" \in TaskSteps
    BY DEF Get, Task!Finish, Task!Advance, TaskSteps
  <1>2. call[job[w]].op = "update" /\ ~Absent(call[job[w]].inst)
    BY <1>1, Mine DEF OrderInv, Kept, DoneOK, Writes, StateOf, Absent
  <1>3. Task!Advance(w, "get", "write")
    BY <1>2 DEF Get
  <1>4. Kept'
    BY <1>1, <1>2, <1>3, AdvanceKept
  <1> QED BY <1>1, <1>4 DEF Contract!contract

(* The artifact is written: Publish. *)
LEMMA PublishStep ==
    ASSUME OrderInv, NEW w \in Workers, Write(w)
    PROVE  Kept' /\ \E i \in Instances : Contract!Publish(i)
  <1>1. /\ UNCHANGED <<call, api, rows, writer>> /\ at[w] = "write"
        /\ "write" \in TaskSteps /\ "record" \in TaskSteps
        /\ Task!Advance(w, "write", "record")
    BY DEF Write, Task!Advance, TaskSteps
  <1>2. PICK r \in Requests, i \in Instances :
           /\ r = job[w] /\ i = call[r].inst
           /\ call[r].op \in {"provision", "update"} /\ Writes(r) /\ body[r] \in Configs
    BY <1>1, Mine DEF Calls, OrderInv, Kept, DoneOK
  <1>3. artifacts' = [artifacts EXCEPT ![i] = body[r]]
    BY <1>2 DEF Write
  <1>4. artifacts'[i] = body[r]
    BY <1>3 DEF OrderInv, BackedInv, TypeInv, DataOK
  <1>5. Kept'
    BY <1>1, <1>2, <1>3, <1>4, AdvanceKept
  <1>6. /\ rows[i].state \in {"provisioning", "updating"}
        /\ Wish(rows[i].config) = Wish(body[r]) /\ body[r] # NoArtifact
    BY <1>2, InstancesAssumption DEF Writes, StateOf
  <1>7. [j \in Instances |-> IF artifacts'[j] = NoArtifact THEN NoArtifact ELSE Wish(artifacts'[j])]
          = [[j \in Instances |-> IF artifacts[j] = NoArtifact THEN NoArtifact ELSE Wish(artifacts[j])]
                EXCEPT ![i] = Wish(rows[i].config)]
    BY <1>3, <1>4, <1>6 DEF OrderInv, BackedInv, TypeInv, DataOK
  <1>8. Contract!Publish(i)
    BY <1>1, <1>6, <1>7 DEF Contract!Publish
  <1> QED BY <1>5, <1>8

(* The artifact is erased: Withdraw. *)
LEMMA WithdrawStep ==
    ASSUME OrderInv, NEW w \in Workers, Erase(w)
    PROVE  Kept' /\ \E i \in Instances : Contract!Withdraw(i)
  <1>1. /\ UNCHANGED <<call, api, rows, writer>> /\ at[w] = "erase"
        /\ "erase" \in TaskSteps /\ "remove" \in TaskSteps
        /\ Task!Advance(w, "erase", "remove")
    BY DEF Erase, Task!Advance, TaskSteps
  <1>2. PICK r \in Requests, i \in Instances :
           /\ r = job[w] /\ i = call[r].inst /\ call[r].op = "deprovision" /\ Writes(r)
    BY <1>1, Mine DEF Calls, OrderInv, Kept, DoneOK
  <1>3. artifacts' = [artifacts EXCEPT ![i] = NoArtifact]
    BY <1>2 DEF Erase
  <1>4. artifacts'[i] = NoArtifact
    BY <1>3 DEF OrderInv, BackedInv, TypeInv, DataOK
  <1>5. Kept'
    BY <1>1, <1>2, <1>3, <1>4, AdvanceKept
  <1>6. rows[i].state = "deprovisioning"
    BY <1>2 DEF Writes, StateOf
  <1>7. [j \in Instances |-> IF artifacts'[j] = NoArtifact THEN NoArtifact ELSE Wish(artifacts'[j])]
          = [[j \in Instances |-> IF artifacts[j] = NoArtifact THEN NoArtifact ELSE Wish(artifacts[j])]
                EXCEPT ![i] = NoArtifact]
    BY <1>3, <1>4 DEF OrderInv, BackedInv, TypeInv, DataOK
  <1>8. Contract!Withdraw(i)
    BY <1>1, <1>6, <1>7 DEF Contract!Withdraw
  <1> QED BY <1>5, <1>8

(* The row is written after the artifact: Complete. *)
LEMMA CompleteStep ==
    ASSUME OrderInv, NEW w \in Workers, Record(w)
    PROVE  Kept' /\ \E i \in Instances : Contract!Complete(i)
  <1>1. /\ UNCHANGED <<call, api, artifacts>> /\ at[w] = "record" /\ "record" \in TaskSteps
        /\ Task!Finish(w, "record")
    BY DEF Record, Task!Finish, TaskSteps
  <1>2. PICK r \in Requests, i \in Instances :
           /\ r = job[w] /\ i = call[r].inst
           /\ call[r].op \in {"provision", "update"} /\ Writes(r) /\ body[r] \in Configs
           /\ rows[i] \in Rows /\ artifacts[i] = body[r]
    BY <1>1, Mine DEF Calls, OrderInv, Kept, DoneOK
  <1> DEFINE new == Recorded(rows[i], call[r].op, body[r])
  <1>3. /\ new \in Rows /\ new.state = "available" /\ Wish(new.config) = Wish(rows[i].config)
        /\ new.keyed
        /\ Readable(new) <=> Readable(rows[i])
    <2>1. call[r].op \in Ops /\ Wish(rows[i].config) = Wish(body[r])
      BY <1>2 DEF Writes, Ops
    <2> QED BY <1>2, <2>1, RecordedWish, RecordedFields
  <1>4. rows' = [rows EXCEPT ![i] = new] /\ writer' = [writer EXCEPT ![i] = r]
    BY <1>2 DEF Record
  <1>5. /\ rows'[i] = new
        /\ \A j \in Instances : j # i => rows'[j] = rows[j] /\ writer'[j] = writer[j]
    BY <1>4 DEF OrderInv, BackedInv, TypeInv, DataOK
  <1> HIDE DEF new
  <1>6. rows[i].state \in {"provisioning", "updating"} /\ Readable(rows[i])
    BY <1>2 DEF Writes, StateOf, OrderInv, Kept, FullOK, Absent
  <1>7. artifacts[i] # NoArtifact /\ Wish(artifacts[i]) = Wish(rows[i].config)
    BY <1>2, InstancesAssumption DEF Writes
  <1>8. Agrees(i)'
    BY <1>1, <1>3, <1>5, <1>7 DEF Agrees, Absent
  <1>9. Kept'
    BY <1>1, <1>2, <1>3, <1>5, <1>6, <1>8, FinishKept
  <1>10. /\ [j \in Instances |-> rows'[j].state]
              = [[j \in Instances |-> rows[j].state] EXCEPT ![i] = "available"]
        /\ [j \in Instances |-> Wish(rows'[j].config)] = [j \in Instances |-> Wish(rows[j].config)]
    BY <1>3, <1>5
  <1>11. Contract!Complete(i)
    BY <1>1, <1>6, <1>7, <1>10 DEF Contract!Complete
  <1> QED BY <1>9, <1>11

(* The row is removed: Vanish. *)
LEMMA VanishStep ==
    ASSUME OrderInv, NEW w \in Workers, Remove(w)
    PROVE  Kept' /\ \E i \in Instances : Contract!Vanish(i)
  <1>1. /\ UNCHANGED <<call, api, artifacts>> /\ at[w] = "remove" /\ "remove" \in TaskSteps
        /\ Task!Finish(w, "remove")
    BY DEF Remove, Task!Finish, TaskSteps
  <1>2. PICK r \in Requests, i \in Instances :
           /\ r = job[w] /\ i = call[r].inst /\ call[r].op = "deprovision" /\ Writes(r)
           /\ artifacts[i] = NoArtifact
    BY <1>1, Mine DEF Calls, OrderInv, Kept, DoneOK
  <1>3. rows' = [rows EXCEPT ![i] = NoRow] /\ writer' = [writer EXCEPT ![i] = NoRequest]
    BY <1>2 DEF Remove
  <1>4. /\ rows'[i].state = "absent" /\ Wish(rows'[i].config) = [plan |-> Missing, params |-> NoParams]
        /\ \A j \in Instances : j # i => rows'[j] = rows[j] /\ writer'[j] = writer[j]
    BY <1>3 DEF OrderInv, BackedInv, TypeInv, DataOK, NoRow, NoConfig, Wish
  <1>5. Agrees(i)'
    BY <1>1, <1>2, <1>4 DEF Agrees, Absent
  <1>6. Kept'
    BY <1>1, <1>2, <1>4, <1>5, FinishKept
  <1>7. rows[i].state = "deprovisioning"
    BY <1>2 DEF Writes, StateOf
  <1>8. /\ [j \in Instances |-> rows'[j].state]
              = [[j \in Instances |-> rows[j].state] EXCEPT ![i] = "absent"]
        /\ [j \in Instances |-> Wish(rows'[j].config)]
              = [[j \in Instances |-> Wish(rows[j].config)]
                    EXCEPT ![i] = [plan |-> Missing, params |-> NoParams]]
    BY <1>4
  <1>9. Contract!Vanish(i)
    BY <1>1, <1>2, <1>7, <1>8 DEF Contract!Vanish, Contract!Enter, Contract!NoParams, NoParams
  <1> QED BY <1>6, <1>9

------------------------------------------------------------------------------
(* The handlers and the contract. *)

(* What a handler writes. *)
LEMMA Seen ==
    ASSUME OrderInv, NEW r \in Requests, NEW row, Wrote(r, row)
    PROVE  /\ UNCHANGED artifacts
           /\ \A j \in Instances : rows'[j] = IF j = call[r].inst THEN row ELSE rows[j]
  BY DEF Wrote, OrderInv, BackedInv, TypeInv, DataOK, Calls

(* What a call asks for is among what the contract expects to be asked. *)
LEMMA Asked ==
    ASSUME OrderInv, NEW r \in Requests
    PROVE  Wish(call[r].config) \in
             {Wish(c.config) : c \in {d \in UNION {Menu[q] : q \in Requests} :
                                        d.inst = call[r].inst}}
  <1>1. call[r] \in {d \in UNION {Menu[q] : q \in Requests} : d.inst = call[r].inst}
    BY DEF OrderInv, CallOK
  <1> QED BY <1>1

(* A row is created: AskProvision. *)
LEMMA ProvisionStep ==
    ASSUME OrderInv, NEW r \in Requests, ProvisionCreate(r)
    PROVE  Contract!ContractNext \/ UNCHANGED Contract!contract
  <1>1. CASE Wrote(r, NewRow(body[r]))
    <2>1. PICK i \in Instances :
             /\ i = call[r].inst /\ rows[i].state = "absent" /\ body[r] = call[r].config
      BY DEF ProvisionCreate, Running, Active, OrderInv, Kept, ReadOK, BackedInv, TypeInv, DataOK,
         Calls
    <2>2. NewRow(body[r]).state = "provisioning" /\ NewRow(body[r]).config = call[r].config
      BY <2>1 DEF NewRow
    <2> DEFINE ask == Wish(call[r].config)
    <2>3. /\ [j \in Instances |-> rows'[j].state]
                 = [[j \in Instances |-> rows[j].state] EXCEPT ![i] = "provisioning"]
          /\ [j \in Instances |-> Wish(rows'[j].config)]
                 = [[j \in Instances |-> Wish(rows[j].config)] EXCEPT ![i] = ask]
          /\ UNCHANGED artifacts
      <3>1. /\ UNCHANGED artifacts
            /\ \A j \in Instances : rows'[j] = IF j = i THEN NewRow(body[r]) ELSE rows[j]
        BY <1>1, <2>1, Seen
      <3> QED BY <2>2, <3>1
    <2>4. Contract!AskProvision(i, ask)
      BY <2>1, <2>3 DEF Contract!AskProvision, Contract!Enter
    <2> QED BY <2>1, <2>4, Asked DEF Contract!ContractNext
  <1>2. CASE Answer(r, "422")
    BY <1>2 DEF Answer, Contract!contract
  <1> QED BY <1>1, <1>2 DEF ProvisionCreate

(* A row is updated with what it read merged with what is asked: AskUpdate. *)
LEMMA UpdateStep ==
    ASSUME OrderInv, NEW r \in Requests, UpdateTransition(r)
    PROVE  Contract!ContractNext
  <1>1. PICK i \in Instances :
           /\ i = call[r].inst /\ rows[i] \in Rows /\ body[r] \in Configs
           /\ rows[i].state = "available" /\ body[r] = Updated(rows[i], call[r].config)
           /\ Wrote(r, MovedWith(rows[i], "updating", body[r]))
    BY DEF UpdateTransition, Running, Active, OrderInv, Kept, ReadOK, BackedInv, TypeInv, DataOK,
       Calls
  <1>2. /\ MovedWith(rows[i], "updating", body[r]).state = "updating"
        /\ Wish(MovedWith(rows[i], "updating", body[r]).config) = Wish(body[r])
    BY <1>1, MovedWithWish DEF States
  <1> DEFINE ask == Wish(call[r].config)
             old == Wish(rows[i].config)
  <1>3. Wish(body[r]) = [plan   |-> IF ask.plan = Missing THEN old.plan ELSE ask.plan,
                         params |-> Merge(old.params, ask.params)]
    BY <1>1 DEF Updated, Wish
  <1>4. /\ [j \in Instances |-> rows'[j].state]
               = [[j \in Instances |-> rows[j].state] EXCEPT ![i] = "updating"]
        /\ [j \in Instances |-> Wish(rows'[j].config)]
               = [[j \in Instances |-> Wish(rows[j].config)] EXCEPT ![i] = Wish(body[r])]
        /\ UNCHANGED artifacts
    <2>1. /\ UNCHANGED artifacts
          /\ \A j \in Instances :
                rows'[j] = IF j = i THEN MovedWith(rows[i], "updating", body[r]) ELSE rows[j]
      BY <1>1, Seen
    <2> QED BY <1>2, <2>1
  <1>5. Contract!AskUpdate(i, ask)
    <2>1. [j \in Instances |-> Wish(rows[j].config)][i] = old
      BY <1>1
    <2>2. Contract!Merge(old.params, ask.params) = Merge(old.params, ask.params)
      BY DEF Contract!Merge, Merge
    <2>3. /\ Contract!Enter(i, "available", "updating")
          /\ UNCHANGED artifacts
      BY <1>1, <1>4 DEF Contract!Enter
    <2> HIDE DEF ask, old
    <2> QED BY <1>3, <1>4, <2>1, <2>2, <2>3 DEF Contract!AskUpdate
  <1> QED BY <1>1, <1>5, Asked DEF Contract!ContractNext

(* A row is marked for removal: AskDeprovision. *)
LEMMA DeprovisionStep ==
    ASSUME OrderInv, NEW r \in Requests, DeprovisionTransition(r)
    PROVE  Contract!ContractNext
  <1>1. PICK i \in Instances :
           /\ i = call[r].inst /\ rows[i] \in Rows /\ rows[i].state = "available"
           /\ Wrote(r, Moved(rows[i], "deprovisioning"))
    BY DEF DeprovisionTransition, Running, Active, OrderInv, Kept, ReadOK, BackedInv, TypeInv,
       DataOK, Calls
  <1>2. /\ Moved(rows[i], "deprovisioning").state = "deprovisioning"
        /\ Moved(rows[i], "deprovisioning").config = rows[i].config
    BY <1>1 DEF Moved, Rows
  <1>3. /\ [j \in Instances |-> rows'[j].state]
               = [[j \in Instances |-> rows[j].state] EXCEPT ![i] = "deprovisioning"]
        /\ [j \in Instances |-> Wish(rows'[j].config)]
               = [[j \in Instances |-> Wish(rows[j].config)] EXCEPT ![i] = Wish(rows[i].config)]
        /\ UNCHANGED artifacts
    <2>1. /\ UNCHANGED artifacts
          /\ \A j \in Instances :
                rows'[j] = IF j = i THEN Moved(rows[i], "deprovisioning") ELSE rows[j]
      BY <1>1, Seen
    <2> QED BY <1>2, <2>1
  <1>4. Contract!AskDeprovision(i)
    <2>1. [j \in Instances |-> Wish(rows'[j].config)] = [j \in Instances |-> Wish(rows[j].config)]
      BY <1>3
    <2> QED BY <1>1, <1>3, <2>1 DEF Contract!AskDeprovision, Contract!Enter
  <1> QED BY <1>1, <1>4 DEF Contract!ContractNext

------------------------------------------------------------------------------
(* Every step. *)

(* A step of a handler keeps the order, and the contract. *)
LEMMA RequestStep ==
    ASSUME Orderly, OrderInv, NEW r \in Requests,
           Arrive(r) \/ Handle(r) \/ Abort(r) \/ Requeue(r)
    PROVE  Kept' /\ [Contract!ContractNext]_(Contract!contract)
  <1>1. CASE ProvisionCreate(r) \/ UpdateTransition(r) \/ DeprovisionTransition(r)
    BY <1>1, WriteKept, ProvisionStep, UpdateStep, DeprovisionStep
  <1>2. CASE Requeue(r)
    <2>1. Kept'
      BY <1>2, RequeueKept
    <2> QED BY <1>2, <2>1 DEF Requeue, Contract!contract
  <1>3. CASE Arrive(r) \/ Handle(r) \/ Abort(r)
    <2>1. Kept'
      BY <1>3, HandlerKept
    <2>2. CASE UNCHANGED <<rows, artifacts>>
      BY <2>1, <2>2 DEF Contract!contract
    <2>3. \/ UNCHANGED <<rows, artifacts>>
          \/ ProvisionCreate(r) \/ UpdateTransition(r) \/ DeprovisionTransition(r)
      BY <1>3 DEF Handle, Arrive, ProvisionRead, UpdateRead, DeprovisionRead, Send, SendRaises,
         Abort, Answer, Continue
    <2> QED BY <1>1, <2>2, <2>3
  <1> QED BY <1>2, <1>3

(* So does a step of a worker. *)
LEMMA WorkerStep ==
    ASSUME Orderly, OrderInv, NEW w \in Workers, Work(w) \/ Loop(w) \/ Disturb(w)
    PROVE  Kept' /\ [Contract!ContractNext]_(Contract!contract)
  <1>1. CASE Get(w) \/ \E r \in Requests : Take(w, r)
    <2>1. CASE Get(w)
      BY <2>1, GetKept
    <2>2. CASE \E r \in Requests : Take(w, r)
      BY <2>2, TakeKept DEF Take, Contract!contract
    <2> QED BY <1>1, <2>1, <2>2
  <1>2. CASE Write(w)
    BY <1>2, PublishStep DEF Contract!ContractNext
  <1>3. CASE Record(w)
    BY <1>3, CompleteStep DEF Contract!ContractNext
  <1>4. CASE Erase(w)
    BY <1>4, WithdrawStep DEF Contract!ContractNext
  <1>5. CASE Remove(w)
    BY <1>5, VanishStep DEF Contract!ContractNext
  <1>6. CASE Fail(w) \/ Loop(w) \/ Disturb(w)
    <2>1. UNCHANGED <<call, api, rows, artifacts, writer>>
      BY <1>6 DEF Fail, Loop, Disturb
    <2>2. ~Task!Crash(w)
      BY DEF Orderly, Task!Crash
    <2>3. Kept'
      BY <1>6, <2>1, <2>2, PollKept, DropKept, StopKept DEF Fail, Loop, Disturb
    <2> QED BY <2>1, <2>3 DEF Contract!contract
  <1> QED BY <1>1, <1>2, <1>3, <1>4, <1>5, <1>6 DEF Work

(* And every step, also one that changes nothing. *)
LEMMA StepOrder ==
    ASSUME Orderly, OrderInv, [Next]_vars
    PROVE  OrderInv' /\ [Contract!ContractNext]_(Contract!contract)
  <1>1. BackedInv' /\ W!SoleOK' /\ W!OnceOK'
    <2>1. [W!WorkerNext]_(W!taskVars)
      BY StepIsLoopStep, TypeInvType DEF OrderInv, BackedInv
    <2>2. W!Steady
      BY DEF Orderly, W!Steady
    <2> QED BY <2>1, <2>2, StepBacked, LoopAssumption, W!SoleStep DEF OrderInv, BackedInv, TypeInv
  <1>2. CASE UNCHANGED vars
    <2>1. CallOK'
      BY <1>2 DEF vars, OrderInv, CallOK
    <2>2. Kept'
      BY <1>2 DEF vars, api, tasks, OrderInv, Kept, FullOK, Absent, TurnOK, ReadOK, TaskOK,
         DoneOK, PublishedOK, Agrees, Active, Writes
    <2> QED BY <1>1, <1>2, <2>1, <2>2 DEF vars, OrderInv, Contract!contract
  <1>3. CASE Next
    <2>1. Kept' /\ [Contract!ContractNext]_(Contract!contract)
      BY <1>3, RequestStep, WorkerStep DEF Next
    <2>2. call' = call
      BY <1>3 DEF Next, Handle, Arrive, Abort, Requeue, Send, SendRaises, ProvisionRead, UpdateRead,
         DeprovisionRead, ProvisionCreate, UpdateTransition, DeprovisionTransition, Answer, Continue,
         Wrote, Work, Loop, Disturb, Take, Get, Write, Record, Erase, Remove, Fail
    <2> QED BY <1>1, <2>1, <2>2 DEF OrderInv, CallOK
  <1> QED BY <1>2, <1>3

(* The order holds in every reachable state. *)
LEMMA OrderInductive == Orderly => (Spec => []OrderInv)
  <1> SUFFICES ASSUME Orderly PROVE Spec => []OrderInv
    OBVIOUS
  <1>1. OrderInv /\ [Next]_vars => OrderInv'
    BY StepOrder
  <1> QED BY <1>1, InitOrder, PTL DEF Spec

(* A platform that waits for each operation to end can believe what        *)
(* last_operation says: "succeeded" means that the artifact is published   *)
(* with the plan and the parameters of the row, and a 404 that none is     *)
(* left.  For any number of workers, instances and requests, also when     *)
(* handlers die, calls fail and workers are stopped.                       *)
THEOREM OrderlySucceedsPublished == Orderly => (Spec => []SucceededIsPublished)
  <1>1. OrderInv => SucceededIsPublished
    <2> SUFFICES ASSUME OrderInv, NEW i \in Instances
                 PROVE  /\ LastOperation(i) = "succeeded" =>
                              /\ rows[i].keyed /\ artifacts[i] # NoArtifact
                              /\ Wish(artifacts[i]) = Wish(rows[i].config)
                        /\ LastOperation(i) = "404" => artifacts[i] = NoArtifact
      BY DEF SucceededIsPublished
    <2>1. rows[i] \in Rows /\ Agrees(i) /\ (~Absent(i) => Readable(rows[i]))
      BY DEF OrderInv, Kept, PublishedOK, FullOK, BackedInv, TypeInv, DataOK
    <2>2. LastOperation(i) = IF Absent(i) THEN "404"
                             ELSE IF rows[i].state \in InProgress THEN "in progress"
                             ELSE "succeeded"
      BY <2>1 DEF LastOperation, Absent, Rows, States, InProgress
    <2>3. ~Absent(i) /\ rows[i].state \notin InProgress => rows[i].state = "available"
      BY <2>1 DEF Absent, Rows, States, InProgress
    <2> QED BY <2>1, <2>2, <2>3 DEF Agrees
  <1> QED BY <1>1, OrderInductive, PTL

(* With such a platform, table and bucket agree wherever nothing is        *)
(* pending, with any number of workers and without the exception that      *)
(* AtRestAgreement makes for late provisions.                              *)
Agreement ==
    \A i \in Instances :
        AtRest(i) =>
            \/ Absent(i) /\ artifacts[i] = NoArtifact
            \/ /\ rows[i].state = "available" /\ rows[i].keyed
               /\ artifacts[i] # NoArtifact
               /\ Readable(rows[i]) /\ Wish(artifacts[i]) = Wish(rows[i].config)

(* No row and artifact of the orderly broker are left apart, and no half   *)
(* row is left; AtRestAgreement, of which this is the first half, follows  *)
(* (worker/main.py:93-139).                                                *)
THEOREM OrderlyAgreesAtRest == Orderly => (Spec => []Agreement /\ []AtRestAgreement)
  <1>1. OrderInv => Agreement
    <2> SUFFICES ASSUME OrderInv, NEW i \in Instances, AtRest(i)
                 PROVE  \/ Absent(i) /\ artifacts[i] = NoArtifact
                        \/ /\ rows[i].state = "available" /\ rows[i].keyed
                           /\ artifacts[i] # NoArtifact
                           /\ Readable(rows[i]) /\ Wish(artifacts[i]) = Wish(rows[i].config)
      BY DEF Agreement
    <2>1. rows[i].state \notin InProgress
      BY BackedRow DEF OrderInv, AtRest, Quiet
    <2>2. rows[i] \in Rows /\ Agrees(i) /\ (~Absent(i) => Readable(rows[i]))
      BY DEF OrderInv, Kept, FullOK, PublishedOK, BackedInv, TypeInv, DataOK
    <2>3. Absent(i) \/ rows[i].state = "available"
      BY <2>1, <2>2 DEF Absent, Rows, States, InProgress
    <2>4. ~(Absent(i) /\ rows[i].state = "available")
      BY DEF Absent
    <2> QED BY <2>2, <2>3, <2>4 DEF Agrees
  <1>2. Agreement => AtRestAgreement
    BY DEF Agreement, AtRestAgreement
  <1> QED BY <1>1, <1>2, OrderInductive, PTL

(* A platform that waits for each operation to end gets what the broker    *)
(* promises, for any number of instances, requests and workers, as long as *)
(* no worker crashes and no batch outlives its visibility timeout: handlers*)
(* may die, calls may fail and workers may be stopped.                     *)
THEOREM BrokerKeepsContract == Orderly => (Spec => KeepsContract)
  <1>1. Init => Contract!ContractInit
    BY DEF Init, Contract!ContractInit, NoRow, NoConfig, Wish, Contract!NoParams, NoParams
  <1>2. Orderly /\ OrderInv /\ [Next]_vars
          => OrderInv' /\ [Contract!ContractNext]_(Contract!contract)
    BY StepOrder
  <1> SUFFICES ASSUME Orderly PROVE Spec => KeepsContract
    OBVIOUS
  <1>3. OrderInv /\ [Next]_vars => OrderInv' /\ [Contract!ContractNext]_(Contract!contract)
    BY <1>2
  <1> QED BY <1>1, <1>3, InitOrder, PTL DEF Spec, KeepsContract, Contract!ContractSpec
==============================================================================
