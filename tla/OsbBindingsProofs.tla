-------------------------- MODULE OsbBindingsProofs --------------------------
(***************************************************************************)
(* Theorems about OsbBindings, for any number of requests, bindings and    *)
(* offers, any finite set of workers, any batch size and receive limit:    *)
(* under every set of faults, type correctness, that no binding is left in *)
(* progress without a task to finish it, that two binds never overwrite    *)
(* each other's credentials, and where a row comes from that no bind put;  *)
(* without crashes and overruns, that credentials stay and, for a platform *)
(* that waits, the contract of bindings.                                   *)
(***************************************************************************)
EXTENDS OsbBindings, TLAPS

W == INSTANCE TaskWorkerProofs WITH Messages <- Requests, Steps <- TaskSteps,
                                    NoMessage <- NoRequest

(* The marks of an absent row have their types. *)
LEMMA NoRowType == NoRow \in Rows
  BY DEF NoRow, Rows

(* A bind writes a full row, without credentials. *)
LEMMA NewRowType ==
    ASSUME NEW offer \in Offers
    PROVE  /\ NewRow(offer) \in Rows /\ NewRow(offer).state = "binding"
           /\ NewRow(offer).creds = NoCredentials
  BY DEF NewRow, Rows

(* complete writes a row that is bound, with the credentials. *)
LEMMA CompletedType ==
    ASSUME NEW row \in Rows, NEW creds \in Credentials
    PROVE  /\ Completed(row, creds) \in Rows /\ Completed(row, creds).state = "bound"
           /\ Completed(row, creds).creds = creds
  BY DEF Completed, Rows

(* Which rows last_operation reports in progress. *)
LEMMA InProgressRow ==
    ASSUME NEW row \in Rows, LastOperation(row) = "in progress"
    PROVE  row.state = "binding"
  BY DEF Rows, LastOperation, Absent, Readable

------------------------------------------------------------------------------
(* The tasks run on the worker loop: Task and W name the same actions, the *)
(* first in the model, the second in the proofs.                           *)

(* The loop is used within its assumptions. *)
LEMMA LoopAssumption == W!WorkerAssumption
  BY BindingsAssumption DEF W!WorkerAssumption, TaskSteps

(* The broker starts its workers as the loop does. *)
LEMMA SameInit == Task!WorkerInit => W!WorkerInit
  BY DEF W!WorkerInit, Task!WorkerInit, W!QueueInit, Task!QueueInit

(* What the queue does of itself is the same in both. *)
LEMMA SameMessageSteps ==
    ASSUME NEW r \in Requests
    PROVE  /\ Task!Send(r) => W!Send(r)
           /\ Task!Expire(r) => W!Expire(r)
           /\ Task!Redrive(r) => W!Redrive(r)
  <1>1. Task!Send(r) => W!Send(r)
    BY DEF W!Send, Task!Send, W!Sent, Task!Sent, W!workerVars, Task!workerVars
  <1>2. Task!Expire(r) => W!Expire(r)
    BY DEF W!Expire, Task!Expire, W!Expired, Task!Expired, W!workerVars, Task!workerVars
  <1>3. Task!Redrive(r) => W!Redrive(r)
    BY DEF W!Redrive, Task!Redrive, W!Redriven, Task!Redriven, W!Exhausted,
           Task!Exhausted, W!Idle, Task!Idle, W!Held, Task!Held,
           W!workerVars, Task!workerVars
  <1> QED BY <1>1, <1>2, <1>3

(* Polling is the same in both. *)
LEMMA SamePoll ==
    ASSUME NEW w \in Workers, Task!Poll(w)
    PROVE  W!Poll(w)
  <1>1. ASSUME NEW batch \in SUBSET Requests
        PROVE  Task!Received(batch) <=> W!Received(batch)
    BY Zenon DEF W!Received, Task!Received, W!Receivable, Task!Receivable,
                 W!Cardinality, Task!Cardinality
  <1>2. Task!Idle(w) <=> W!Idle(w)
    BY DEF W!Idle, Task!Idle, W!Held, Task!Held
  <1> QED BY <1>1, <1>2, Zenon DEF W!Poll, Task!Poll

(* So is every other step of a worker. *)
LEMMA SameWorkerSteps ==
    ASSUME NEW w \in Workers
    PROVE  /\ Task!Ack(w) => W!Ack(w)
           /\ Task!Fail(w) => W!Fail(w)
           /\ Task!Crash(w) => W!Crash(w)
           /\ Task!RequestStop(w) => W!RequestStop(w)
           /\ Task!Restart(w) => W!Restart(w)
           /\ \A r \in Requests, step \in TaskSteps : Task!Take(w, r, step) => W!Take(w, r, step)
           /\ \A from \in TaskSteps : Task!Finish(w, from) => W!Finish(w, from)
  <1>1. Task!Ack(w) => W!Ack(w)
    BY DEF W!Ack, Task!Ack, W!Deleted, Task!Deleted, W!Deliverable, Task!Deliverable,
           W!Drop, Task!Drop
  <1>2. Task!Fail(w) => W!Fail(w)
    BY DEF W!Fail, Task!Fail, W!LeftForRedrive, Task!LeftForRedrive, W!Drop, Task!Drop,
           W!queueVars, Task!queueVars
  <1>3. Task!Crash(w) => W!Crash(w)
    BY DEF W!Crash, Task!Crash, W!Held, Task!Held, W!queueVars, Task!queueVars
  <1>4. Task!RequestStop(w) => W!RequestStop(w)
    BY DEF W!RequestStop, Task!RequestStop, W!Held, Task!Held, W!queueVars, Task!queueVars
  <1>5. Task!Restart(w) => W!Restart(w)
    BY DEF W!Restart, Task!Restart, W!Held, Task!Held, W!queueVars, Task!queueVars
  <1>6. \A r \in Requests, step \in TaskSteps : Task!Take(w, r, step) => W!Take(w, r, step)
    BY DEF W!Take, Task!Take, W!queueVars, Task!queueVars
  <1>7. \A from \in TaskSteps : Task!Finish(w, from) => W!Finish(w, from)
    BY DEF W!Finish, Task!Finish, W!queueVars, Task!queueVars
  <1> QED BY <1>1, <1>2, <1>3, <1>4, <1>5, <1>6, <1>7

(* What a worker does is a step of the loop. *)
LEMMA WorkIsLoopStep ==
    ASSUME NEW w \in Workers, Work(w) \/ Loop(w)
    PROVE  W!WorkerNext
  <1>1. "complete" \in TaskSteps /\ "cleanup" \in TaskSteps
    BY DEF TaskSteps
  <1>2. CASE \E r \in Requests : Take(w, r)
    <2>1. \E r \in Requests, step \in TaskSteps : W!Take(w, r, step)
      BY <1>1, <1>2, SameWorkerSteps DEF Take
    <2> QED BY <2>1, Zenon DEF W!WorkerNext
  <1>3. CASE Complete(w) \/ Cleanup(w)
    <2>1. \E from \in TaskSteps : W!Finish(w, from)
      BY <1>1, <1>3, SameWorkerSteps DEF Complete, Cleanup
    <2> QED BY <2>1, Zenon DEF W!WorkerNext
  <1>4. CASE Fail(w) \/ Loop(w)
    <2>1. \/ W!Poll(w) \/ W!Ack(w) \/ W!Fail(w)
          \/ W!Crash(w) \/ W!RequestStop(w) \/ W!Restart(w)
      BY <1>4, SamePoll, SameWorkerSteps DEF Fail, Loop
    <2> QED BY <2>1, Zenon DEF W!WorkerNext
  <1> QED BY <1>2, <1>3, <1>4 DEF Work

(* A handler leaves the loop alone, or sends. *)
LEMMA RequestIsLoopStep ==
    ASSUME NEW r \in Requests, Arrive(r) \/ Handle(r) \/ Abort(r) \/ Requeue(r)
    PROVE  W!WorkerNext \/ UNCHANGED W!taskVars
  <1>1. CASE Task!Send(r) \/ Task!Expire(r) \/ Task!Redrive(r)
    <2>1. W!Send(r) \/ W!Expire(r) \/ W!Redrive(r)
      BY <1>1, SameMessageSteps
    <2> QED BY <2>1, Zenon DEF W!WorkerNext
  <1>2. CASE UNCHANGED tasks
    BY <1>2 DEF tasks, W!taskVars, W!queueVars, W!workerVars
  <1> QED
    BY <1>1, <1>2 DEF Handle, Arrive, Abort, Requeue, LookAtInstance, BindRead, BindCreate,
       BindSend, UnbindRead, UnbindSend, UnbindRemove, Answer, Goto

(* Every step is one of the loop, or leaves it alone. *)
LEMMA StepIsLoopStep ==
    ASSUME [Next]_vars
    PROVE  [W!WorkerNext]_W!taskVars
  <1>1. CASE UNCHANGED vars
    BY <1>1 DEF vars, tasks, W!taskVars, W!queueVars, W!workerVars
  <1> QED BY <1>1, WorkIsLoopStep, RequestIsLoopStep DEF Next

------------------------------------------------------------------------------
(* Type correctness.  That a password is numbered within the receives of   *)
(* its message needs W!CountOK: every handling used up a delivery.         *)

(* The part of TypeOK that is about the broker and not about the loop. *)
DataOK == /\ call \in [Requests -> Calls]
          /\ pc \in [Requests -> {"new", "look", "read", "write", "send", "sent", "removed"}]
          /\ resp \in [Requests -> Codes]
          /\ rows \in [Bindings -> Rows]
          /\ creator \in [Bindings -> Requests \cup {NoRequest}]

(* A worker completes binds and cleans up after unbinds. *)
StepOK == \A w \in Workers : /\ at[w] = "complete" => call[job[w]].op = "bind"
                             /\ at[w] = "cleanup" => call[job[w]].op = "unbind"

TypeInv == DataOK /\ W!WorkerInv /\ W!CountOK /\ StepOK

(* The strengthened type invariant implies the type invariant. *)
LEMMA TypeInvType == TypeInv => TypeOK
  BY DEF TypeInv, DataOK, TypeOK, W!WorkerInv, W!WorkerTypeOK, Task!WorkerTypeOK,
         W!QueueTypeOK, Task!QueueTypeOK, W!Statuses, Task!Statuses

(* The workers are as many as TaskWorkerProofs allows. *)
LEMMA Finitely == W!IsFiniteSet(Workers)
  BY BindingsAssumption, Zenon DEF IsFiniteSet, W!IsFiniteSet

(* It holds at the start. *)
LEMMA InitType == Init => TypeInv
  <1> SUFFICES ASSUME Init PROVE TypeInv
    OBVIOUS
  <1>1. call \in [Requests -> Calls]
    <2>1. PICK f \in [Requests -> UNION {Menu[r] : r \in Requests}] :
             call = f /\ \A r \in Requests : f[r] \in Menu[r]
      BY DEF Init
    <2>2. \A r \in Requests : f[r] \in Calls
      BY <2>1, BindingsAssumption
    <2> QED BY <2>1, <2>2
  <1>2. W!WorkerInv /\ W!CountOK
    BY LoopAssumption, SameInit, W!WorkerInitInv, W!CountInit DEF Init
  <1>3. StepOK
    BY DEF Init, Task!WorkerInit, StepOK
  <1> QED BY <1>1, <1>2, <1>3, NoRowType DEF Init, TypeInv, DataOK, Codes

(* A worker in a handler handles a message that was sent, and not as often *)
(* as it was received.                                                     *)
LEMMA WorkingOn ==
    ASSUME TypeInv, NEW w \in Workers, at[w] \in TaskSteps
    PROVE  /\ job[w] \in Requests /\ call[job[w]] \in Calls
           /\ status[job[w]] # "unsent"
           /\ handled[job[w]] + 1 \in 1 .. MaxReceive
  <1> USE DEF TypeInv, W!WorkerInv, W!WorkerTypeOK, W!QueueTypeOK, DataOK
  <1>1. at[w] # "poll"
    BY DEF TaskSteps
  <1>2. job[w] \in Requests /\ held[w][job[w]] > 0
    BY <1>1 DEF W!BusyOK
  <1>3. /\ held[w][job[w]] \in Nat /\ receives[job[w]] \in 0 .. MaxReceive
        /\ handled[job[w]] \in Nat /\ held[w][job[w]] <= receives[job[w]]
        /\ status[job[w]] = "unsent" => receives[job[w]] = 0
    BY <1>2, BindingsAssumption DEF W!HoldOK
  <1>4. status[job[w]] # "unsent"
    BY <1>2, <1>3
  <1>5. handled[job[w]] < receives[job[w]]
    BY LoopAssumption, Finitely, W!HandledLess
  <1>6. handled[job[w]] + 1 \in 1 .. MaxReceive
    BY <1>3, <1>5, BindingsAssumption
  <1> QED BY <1>2, <1>4, <1>6

(* What a worker does to the table. *)
LEMMA CompleteEffect ==
    ASSUME TypeInv, NEW w \in Workers, Complete(w)
    PROVE  LET r == job[w]
           IN /\ r \in Requests /\ call[r] \in Calls /\ call[r].op = "bind"
              /\ status[r] # "unsent"
              /\ \A b \in Bindings :
                    IF b = call[r].id
                    THEN /\ rows'[b] \in Rows /\ rows'[b].state = "bound"
                         /\ rows'[b].creds.of = r
                    ELSE rows'[b] = rows[b]
              /\ rows' \in [Bindings -> Rows]
              /\ handled' = [handled EXCEPT ![r] = @ + 1]
              /\ UNCHANGED <<status, call, pc, resp, creator>>
  <1> DEFINE r == job[w]
             fresh == [of |-> r, nth |-> handled[r] + 1]
  <1>1. at[w] = "complete" /\ "complete" \in TaskSteps
    BY DEF Complete, Task!Finish, TaskSteps
  <1>2. r \in Requests /\ call[r] \in Calls /\ status[r] # "unsent" /\ fresh \in Credentials
    BY <1>1, WorkingOn DEF Credentials
  <1>3. call[r].op = "bind"
    BY <1>1 DEF TypeInv, StepOK
  <1>4. /\ rows \in [Bindings -> Rows] /\ call[r].id \in Bindings
        /\ rows' = [rows EXCEPT ![call[r].id] = Completed(@, fresh)]
        /\ handled' = [handled EXCEPT ![r] = @ + 1]
        /\ UNCHANGED <<status, call, pc, resp, creator>>
    BY <1>2 DEF Complete, TypeInv, DataOK, Calls, Task!Finish, Task!queueVars
  <1>5. LET new == Completed(rows[call[r].id], fresh)
        IN new \in Rows /\ new.state = "bound" /\ new.creds = fresh
    BY <1>2, <1>4, CompletedType
  <1>f. fresh.of = r
    OBVIOUS
  <1> HIDE DEF fresh
  <1>6. \A b \in Bindings :
           IF b = call[r].id
           THEN rows'[b] \in Rows /\ rows'[b].state = "bound" /\ rows'[b].creds.of = r
           ELSE rows'[b] = rows[b]
    BY <1>f, <1>4, <1>5
  <1>7. rows' \in [Bindings -> Rows]
    BY <1>4, <1>5
  <1> QED BY <1>2, <1>3, <1>4, <1>6, <1>7

(* Every step of a handler keeps the types. *)
LEMMA RequestType ==
    ASSUME TypeInv, NEW r \in Requests, Arrive(r) \/ Handle(r) \/ Abort(r) \/ Requeue(r)
    PROVE  DataOK' /\ StepOK'
  <1> USE DEF TypeInv, DataOK
  <1>1. UNCHANGED <<at, job, call>>
    BY DEF Handle, Arrive, Abort, Requeue, LookAtInstance, BindRead, BindCreate, BindSend,
       UnbindRead, UnbindSend, UnbindRemove, Answer, Goto, tasks, Task!Send, Task!Expire,
       Task!Redrive, Task!workerVars
  <1>2. StepOK'
    BY <1>1 DEF StepOK
  <1> SUFFICES DataOK'
    BY <1>2
  <1>3. ASSUME NEW code \in Codes, Answer(r, code)
        PROVE  DataOK'
    BY <1>3 DEF Answer
  <1>4. ASSUME NEW step \in {"look", "read", "write", "send"}, Goto(r, step)
        PROVE  DataOK'
    BY <1>4 DEF Goto
  <1>5. \A code \in {"200", "201", "201 empty", "400", "404", "409", "422", "500"} : code \in Codes
    BY DEF Codes
  <1>6. call[r].id \in Bindings /\ call[r].offer \in Offers
    BY DEF Calls
  <1>7. CASE Arrive(r)
    BY <1>7, <1>4 DEF Arrive
  <1>8. CASE LookAtInstance(r) \/ BindRead(r) \/ UnbindRead(r) \/ Abort(r)
    BY <1>8, <1>3, <1>4, <1>5 DEF LookAtInstance, BindRead, UnbindRead, Abort
  <1>9. CASE BindCreate(r)
    BY <1>9, <1>3, <1>5, <1>6, NewRowType DEF BindCreate
  <1>10. CASE BindSend(r) \/ UnbindSend(r)
    BY <1>10, <1>5 DEF BindSend, UnbindSend
  <1>11. CASE UnbindRemove(r)
    BY <1>11, <1>5, <1>6, NoRowType DEF UnbindRemove
  <1>12. CASE Requeue(r)
    BY <1>12 DEF Requeue
  <1> QED
    BY <1>7, <1>8, <1>9, <1>10, <1>11, <1>12 DEF Handle

(* So does every step of a worker. *)
LEMMA WorkType ==
    ASSUME TypeInv, NEW w \in Workers, Work(w) \/ Loop(w)
    PROVE  DataOK' /\ StepOK'
  <1>w. at \in [Workers -> TaskSteps \cup {"poll", "ack"}] /\ job \in [Workers -> Requests \cup {NoRequest}]
    BY DEF TypeInv, W!WorkerInv, W!WorkerTypeOK
  <1>1. CASE Complete(w)
    <2>1. DataOK'
      BY <1>1, CompleteEffect DEF TypeInv, DataOK
    <2>2. StepOK'
      BY <1>1, <1>w DEF Complete, Task!Finish, TypeInv, StepOK
    <2> QED BY <2>1, <2>2
  <1>2. CASE (\E r \in Requests : Take(w, r)) \/ Cleanup(w) \/ Fail(w) \/ Loop(w)
    <2>1. DataOK'
      BY <1>2 DEF Take, Cleanup, Fail, Loop, TypeInv, DataOK
    <2>2. call' = call
      BY <1>2 DEF Take, Cleanup, Fail, Loop
    <2>3. \A v \in Workers : v # w => at'[v] = at[v] /\ job'[v] = job[v]
      BY <1>2, <1>w DEF Take, Cleanup, Fail, Loop, Task!Take, Task!Finish, Task!Fail, Task!Drop,
         Task!Poll, Task!Ack, Task!Restart, Task!Crash, Task!RequestStop
    <2>4. /\ at'[w] = "complete" => call[job'[w]].op = "bind"
          /\ at'[w] = "cleanup" => call[job'[w]].op = "unbind"
      <3>1. CASE \E r \in Requests : Take(w, r)
        BY <3>1, <1>w DEF Take, Task!Take, TypeInv, DataOK, Calls
      <3>2. CASE Cleanup(w) \/ Fail(w) \/ Task!Ack(w) \/ Task!Crash(w)
        BY <3>2, <1>w DEF Cleanup, Fail, Task!Finish, Task!Fail, Task!Drop, Task!Ack, Task!Crash
      <3>3. CASE Task!Poll(w) \/ Task!Restart(w) \/ Task!RequestStop(w)
        BY <3>3 DEF Task!Poll, Task!Restart, Task!RequestStop, TypeInv, StepOK
      <3> QED BY <1>2, <3>1, <3>2, <3>3 DEF Loop
    <2>5. StepOK'
      BY <2>2, <2>3, <2>4 DEF StepOK, TypeInv
    <2> QED BY <2>1, <2>5
  <1> QED BY <1>1, <1>2 DEF Work

(* Every step keeps it. *)
LEMMA StepType == TypeInv /\ [Next]_vars => TypeInv'
  <1> SUFFICES ASSUME TypeInv, [Next]_vars PROVE TypeInv'
    OBVIOUS
  <1>1. W!WorkerInv' /\ W!CountOK'
    BY StepIsLoopStep, LoopAssumption, Finitely, W!WorkerStepInv, W!CountStep DEF TypeInv
  <1>2. CASE UNCHANGED vars
    BY <1>1, <1>2 DEF vars, tasks, TypeInv, DataOK, StepOK
  <1>3. CASE Next
    BY <1>1, <1>3, RequestType, WorkType DEF Next, TypeInv
  <1> QED BY <1>2, <1>3

(* It holds in every reachable state. *)
LEMMA Typing == Spec => []TypeInv
  BY InitType, StepType, PTL DEF Spec

(* Every variable keeps its type; in particular a password is generated at *)
(* most as often as its message may be delivered (worker/main.py:141-151). *)
THEOREM BindingTypes == Spec => []TypeOK
  BY Typing, TypeInvType, PTL

------------------------------------------------------------------------------
(* No acknowledged task leaves a binding in progress behind, and no bind   *)
(* overwrites the credentials of another.  The invariant relates handlers, *)
(* messages and rows.                                                      *)

(* The message of a request is queued by its handler, in a step of its own. *)
MessageOK ==
    \A r \in Requests : /\ status[r] = "unsent" <=> pc[r] \notin {"sent", "removed"}
                        /\ pc[r] = "removed" => call[r].op = "unbind"

(* A binding in progress was put by a bind whose message was never handled *)
(* to the end.                                                             *)
RowOK ==
    \A b \in Bindings :
        rows[b].state = "binding" =>
            /\ creator[b] \in Requests
            /\ call[creator[b]].id = b /\ call[creator[b]].op = "bind"
            /\ pc[creator[b]] \in {"send", "sent"}
            /\ handled[creator[b]] = 0

(* A bind that has put a row, and an unbind that has removed one. *)
Put(r, b) == call[r].op = "bind" /\ call[r].id = b /\ pc[r] \in {"send", "sent"}
Unbound(b) == \E u \in Requests : call[u].op = "unbind" /\ call[u].id = b /\ pc[u] = "removed"

(* Until then one bind has put the row, which is still there, and what     *)
(* credentials it has are of that bind.                                    *)
OneOK ==
    \A b \in Bindings :
        \/ Unbound(b)
        \/ /\ \A q, r \in Requests : Put(q, b) /\ Put(r, b) => q = r
           /\ \A r \in Requests : Put(r, b) => ~Absent(rows[b])
           /\ rows[b].creds # NoCredentials =>
                 \E r \in Requests : r = rows[b].creds.of /\ Put(r, b)

IInv == TypeInv /\ MessageOK /\ RowOK /\ OneOK

(* There is no row at the start. *)
LEMMA InitIInv == Init => IInv
  <1> SUFFICES ASSUME Init PROVE IInv
    OBVIOUS
  <1>1. MessageOK
    BY DEF Init, Task!WorkerInit, Task!QueueInit, MessageOK
  <1>2. RowOK /\ OneOK
    BY DEF Init, RowOK, OneOK, NoRow, Put
  <1> QED BY <1>1, <1>2, InitType DEF IInv

(* A step that leaves table and binds alone, and moves one request of      *)
(* which nothing is claimed.                                               *)
LEMMA MoveKeeps ==
    ASSUME IInv, NEW r \in Requests, NEW step \in {"look", "read", "write", "send"},
           UNCHANGED <<call, rows, creator, status, handled>>,
           pc[r] \notin {"send", "sent", "removed"},
           step = "send" => call[r].op = "unbind",
           pc' = [pc EXCEPT ![r] = step]
    PROVE  MessageOK' /\ RowOK' /\ OneOK'
  <1>1. /\ pc'[r] = step
        /\ \A q \in Requests : q # r => pc'[q] = pc[q]
    BY DEF IInv, TypeInv, DataOK
  <1>2. MessageOK'
    BY <1>1 DEF IInv, MessageOK
  <1>3. RowOK'
    BY <1>1 DEF IInv, RowOK
  <1>4. /\ \A q \in Requests, b \in Bindings : Put(q, b)' <=> Put(q, b)
        /\ \A b \in Bindings : Unbound(b) => Unbound(b)'
    BY <1>1 DEF Put, Unbound
  <1>5. \A b \in Bindings : Absent(rows[b])' <=> Absent(rows[b])
    BY DEF Absent
  <1>6. OneOK'
    BY <1>4, <1>5 DEF IInv, OneOK
  <1> QED BY <1>2, <1>3, <1>6

(* A step of queue, loop or handler that moves nothing of it. *)
LEMMA QuietKeeps ==
    ASSUME IInv, UNCHANGED <<call, pc, rows, creator, handled>>,
           \A r \in Requests : status'[r] = "unsent" <=> status[r] = "unsent"
    PROVE  MessageOK' /\ RowOK' /\ OneOK'
  BY DEF IInv, MessageOK, RowOK, OneOK, Put, Unbound, Absent

(* The put of a bind: the row was absent, so it is the only one so far. *)
LEMMA CreateKeeps ==
    ASSUME IInv, NEW r \in Requests, BindCreate(r), pc'[r] = "send"
    PROVE  MessageOK' /\ RowOK' /\ OneOK'
  <1>b. PICK b \in Bindings : b = call[r].id
    BY DEF IInv, TypeInv, DataOK, Calls
  <1>1. /\ call[r].op = "bind" /\ pc[r] = "write" /\ b \in Bindings /\ call[r].offer \in Offers
        /\ status[r] = "unsent"
    BY <1>b DEF BindCreate, Running, IInv, TypeInv, DataOK, Calls, MessageOK
  <1>2. /\ Absent(rows[b])
        /\ rows' = [rows EXCEPT ![b] = NewRow(call[r].offer)]
        /\ creator' = [creator EXCEPT ![b] = r]
        /\ pc' = [pc EXCEPT ![r] = "send"]
        /\ UNCHANGED <<call, status, handled>>
    BY <1>1, <1>b DEF BindCreate, FreeToCreate, Answer, tasks
  <1>3. handled[r] = 0
    BY <1>1 DEF IInv, TypeInv, W!WorkerInv, W!AckOK
  <1>4. /\ pc'[r] = "send" /\ creator'[b] = r
        /\ rows'[b].state = "binding" /\ rows'[b].creds = NoCredentials
        /\ \A q \in Requests : q # r => pc'[q] = pc[q]
        /\ \A c \in Bindings : c # b => rows'[c] = rows[c] /\ creator'[c] = creator[c]
    BY <1>1, <1>2, NewRowType DEF IInv, TypeInv, DataOK
  <1>5. MessageOK'
    BY <1>1, <1>2, <1>4 DEF IInv, MessageOK
  <1>6. RowOK'
    <2> SUFFICES ASSUME NEW c \in Bindings, rows'[c].state = "binding"
                 PROVE  /\ creator'[c] \in Requests
                        /\ call'[creator'[c]].id = c /\ call'[creator'[c]].op = "bind"
                        /\ pc'[creator'[c]] \in {"send", "sent"}
                        /\ handled'[creator'[c]] = 0
      BY DEF RowOK
    <2>1. CASE c = b
      BY <2>1, <1>b, <1>1, <1>2, <1>3, <1>4
    <2>2. CASE c # b
      BY <2>2, <1>1, <1>2, <1>4 DEF IInv, RowOK
    <2> QED BY <2>1, <2>2
  <1>7. /\ \A q \in Requests, c \in Bindings : c # b \/ q # r => (Put(q, c)' <=> Put(q, c))
        /\ \A c \in Bindings : Unbound(c) => Unbound(c)'
    BY <1>b, <1>1, <1>2, <1>4 DEF Put, Unbound
  <1>8. OneOK'
    <2> SUFFICES ASSUME NEW c \in Bindings, ~Unbound(c)
                 PROVE  /\ \A p, q \in Requests : Put(p, c)' /\ Put(q, c)' => p = q
                        /\ \A q \in Requests : Put(q, c)' => ~Absent(rows[c])'
                        /\ rows'[c].creds # NoCredentials =>
                              \E q \in Requests : q = rows'[c].creds.of /\ Put(q, c)'
      BY <1>7 DEF OneOK
    <2>1. CASE c = b
      <3>1. \A q \in Requests : ~Put(q, b)
        BY <1>2, <2>1 DEF IInv, OneOK
      <3>2. \A q \in Requests : Put(q, b)' => q = r
        BY <1>1, <1>7, <3>1
      <3>3. ~Absent(rows[b])'
        BY <1>4 DEF Absent
      <3> QED BY <2>1, <3>2, <3>3, <1>4
    <2>2. CASE c # b
      <3>1. Absent(rows[c])' <=> Absent(rows[c])
        BY <1>4, <2>2 DEF Absent
      <3> QED BY <1>4, <1>7, <2>2, <3>1 DEF IInv, OneOK
    <2> QED BY <2>1, <2>2
  <1> QED BY <1>5, <1>6, <1>8

(* A message is queued. *)
LEMMA SendKeeps ==
    ASSUME IInv, NEW r \in Requests, BindSend(r) \/ UnbindSend(r)
    PROVE  MessageOK' /\ RowOK' /\ OneOK'
  <1>1. /\ pc[r] = "send" /\ pc' = [pc EXCEPT ![r] = "sent"]
        /\ status' = [status EXCEPT ![r] = "visible"]
        /\ UNCHANGED <<call, rows, creator, handled>>
    BY DEF BindSend, UnbindSend, Running, Task!Send, Task!Sent
  <1>2. /\ pc'[r] = "sent" /\ status'[r] = "visible"
        /\ \A q \in Requests : q # r => pc'[q] = pc[q] /\ status'[q] = status[q]
    BY <1>1 DEF IInv, TypeInv, DataOK, W!WorkerInv, W!WorkerTypeOK, W!QueueTypeOK
  <1>3. MessageOK'
    BY <1>1, <1>2 DEF IInv, MessageOK
  <1>4. RowOK'
    BY <1>1, <1>2 DEF IInv, RowOK
  <1>5. /\ \A q \in Requests, b \in Bindings : Put(q, b)' <=> Put(q, b)
        /\ \A b \in Bindings : Unbound(b) => Unbound(b)'
    BY <1>1, <1>2 DEF Put, Unbound
  <1>6. \A b \in Bindings : Absent(rows[b])' <=> Absent(rows[b])
    BY <1>1 DEF Absent
  <1>7. OneOK'
    BY <1>1, <1>5, <1>6 DEF IInv, OneOK
  <1> QED BY <1>3, <1>4, <1>7

(* A row is removed. *)
LEMMA RemoveKeeps ==
    ASSUME IInv, NEW r \in Requests, UnbindRemove(r)
    PROVE  MessageOK' /\ RowOK' /\ OneOK'
  <1>b. PICK b \in Bindings : b = call[r].id
    BY DEF IInv, TypeInv, DataOK, Calls
  <1>1. /\ call[r].op = "unbind" /\ pc[r] = "sent" /\ b \in Bindings
        /\ rows' = [rows EXCEPT ![b] = NoRow]
        /\ creator' = [creator EXCEPT ![b] = NoRequest]
        /\ pc' = [pc EXCEPT ![r] = "removed"]
        /\ UNCHANGED <<call, status, handled>>
    BY <1>b DEF UnbindRemove, Running, IInv, TypeInv, DataOK, Calls, tasks
  <1>2. /\ pc'[r] = "removed" /\ rows'[b].state = "absent"
        /\ \A q \in Requests : q # r => pc'[q] = pc[q]
        /\ \A c \in Bindings : c # b => rows'[c] = rows[c] /\ creator'[c] = creator[c]
    BY <1>1 DEF IInv, TypeInv, DataOK, NoRow
  <1>3. MessageOK'
    BY <1>1, <1>2 DEF IInv, MessageOK
  <1>4. RowOK'
    BY <1>1, <1>2 DEF IInv, RowOK
  <1>5. /\ \A q \in Requests, c \in Bindings : Put(q, c)' <=> Put(q, c) /\ q # r
        /\ \A q \in Requests, c \in Bindings : Put(q, c) => q # r
        /\ \A c \in Bindings : Unbound(c) => Unbound(c)'
        /\ Unbound(b)'
    BY <1>b, <1>1, <1>2 DEF Put, Unbound
  <1>6. \A c \in Bindings : c # b => (Absent(rows[c])' <=> Absent(rows[c]))
    BY <1>2 DEF Absent
  <1>7. OneOK'
    BY <1>2, <1>5, <1>6 DEF IInv, OneOK
  <1> QED BY <1>3, <1>4, <1>7

(* A handler either refuses, goes on, or takes one of the steps above. *)
LEMMA HandlerKeeps ==
    ASSUME IInv, NEW r \in Requests, Arrive(r) \/ Handle(r) \/ Abort(r)
    PROVE  MessageOK' /\ RowOK' /\ OneOK'
  <1>1. ASSUME NEW code, Answer(r, code)
        PROVE  MessageOK' /\ RowOK' /\ OneOK'
    BY <1>1, QuietKeeps DEF Answer, tasks
  <1>2. ASSUME NEW step \in {"look", "read", "write", "send"}, Goto(r, step),
               pc[r] \notin {"send", "sent", "removed"},
               step = "send" => call[r].op = "unbind"
        PROVE  MessageOK' /\ RowOK' /\ OneOK'
    BY <1>2, MoveKeeps DEF Goto, tasks
  <1>3. CASE Arrive(r)
    BY <1>2, <1>3 DEF Arrive
  <1>4. CASE LookAtInstance(r)
    BY <1>1, <1>2, <1>4 DEF LookAtInstance, Running
  <1>5. CASE BindRead(r)
    BY <1>1, <1>2, <1>5 DEF BindRead, Running
  <1>6. CASE UnbindRead(r)
    BY <1>1, <1>2, <1>6 DEF UnbindRead, Running
  <1>7. CASE BindCreate(r)
    <2>1. pc'[r] = "send" \/ Answer(r, "422")
      BY <1>7 DEF BindCreate, IInv, TypeInv, DataOK
    <2> QED BY <1>1, <1>7, <2>1, CreateKeeps
  <1>8. CASE Abort(r)
    BY <1>1, <1>8 DEF Abort
  <1> QED
    BY <1>3, <1>4, <1>5, <1>6, <1>7, <1>8, SendKeeps, RemoveKeeps DEF Handle

(* The queue and the loop only deliver, redeliver and acknowledge. *)
LEMMA LoopKeeps ==
    ASSUME IInv,
           \/ \E r \in Requests : Requeue(r)
           \/ \E w \in Workers : Loop(w) \/ Fail(w) \/ \E r \in Requests : Take(w, r)
    PROVE  MessageOK' /\ RowOK' /\ OneOK'
  <1> USE DEF Task!queueVars, Task!workerVars
  <1>s. status \in [Requests -> W!Statuses]
    BY DEF IInv, TypeInv, W!WorkerInv, W!WorkerTypeOK, W!QueueTypeOK
  <1>1. UNCHANGED <<call, pc, rows, creator>>
    BY DEF Requeue, Loop, Fail, Take
  <1>2. ASSUME NEW r \in Requests, Requeue(r)
        PROVE  /\ handled' = handled
               /\ \A x \in Requests : status'[x] = "unsent" <=> status[x] = "unsent"
    BY <1>2, <1>s DEF Requeue, Task!Expire, Task!Expired, Task!Redrive, Task!Redriven
  <1>3. ASSUME NEW w \in Workers, Task!Poll(w)
        PROVE  /\ handled' = handled
               /\ \A x \in Requests : status'[x] = "unsent" <=> status[x] = "unsent"
    BY <1>3 DEF Task!Poll, Task!Received, Task!Receivable
  <1>4. ASSUME NEW w \in Workers, Task!Ack(w)
        PROVE  /\ handled' = handled
               /\ \A x \in Requests : status'[x] = "unsent" <=> status[x] = "unsent"
    BY <1>4, <1>s DEF Task!Ack, Task!Deleted, Task!Deliverable
  <1>5. ASSUME NEW w \in Workers,
               \/ Fail(w) \/ Task!Crash(w) \/ Task!RequestStop(w) \/ Task!Restart(w)
               \/ \E r \in Requests : Take(w, r)
        PROVE  status' = status /\ handled' = handled
    BY <1>5 DEF Fail, Take, Task!Fail, Task!LeftForRedrive, Task!Take, Task!Crash,
       Task!RequestStop, Task!Restart
  <1>6. /\ handled' = handled
        /\ \A x \in Requests : status'[x] = "unsent" <=> status[x] = "unsent"
    BY <1>2, <1>3, <1>4, <1>5 DEF Loop
  <1> QED BY <1>1, <1>6, QuietKeeps

(* A task is handled to the end.  A bind is the one that put the row, if   *)
(* no unbind has removed one, and takes the row out of progress.           *)
LEMMA FinishKeeps ==
    ASSUME IInv, NEW w \in Workers, Complete(w) \/ Cleanup(w)
    PROVE  MessageOK' /\ RowOK' /\ OneOK'
  <1>1. CASE Complete(w)
    <2>1. PICK r \in Requests : r = job[w]
      BY <1>1, CompleteEffect DEF IInv
    <2>2. /\ call[r] \in Calls /\ call[r].op = "bind" /\ status[r] # "unsent"
          /\ handled' = [handled EXCEPT ![r] = @ + 1]
          /\ UNCHANGED <<status, call, pc, creator>>
      BY <1>1, <2>1, CompleteEffect DEF IInv
    <2>3. \A b \in Bindings :
             IF b = call[r].id
             THEN rows'[b].state = "bound" /\ rows'[b].creds.of = r
             ELSE rows'[b] = rows[b]
      BY <1>1, <2>1, CompleteEffect DEF IInv
    <2>4. pc[r] = "sent"
      BY <2>2 DEF IInv, MessageOK
    <2>5. \A q \in Requests : q # r => handled'[q] = handled[q]
      BY <2>2 DEF IInv, TypeInv, W!WorkerInv, W!WorkerTypeOK
    <2>6. MessageOK'
      BY <2>2 DEF IInv, MessageOK
    <2>7. RowOK'
      <3> SUFFICES ASSUME NEW b \in Bindings, rows'[b].state = "binding"
                   PROVE  /\ creator[b] \in Requests
                          /\ call[creator[b]].id = b /\ call[creator[b]].op = "bind"
                          /\ pc[creator[b]] \in {"send", "sent"}
                          /\ handled'[creator[b]] = 0
        BY <2>2 DEF RowOK
      <3>1. b # call[r].id /\ rows[b].state = "binding"
        BY <2>3
      <3> QED BY <3>1, <2>5 DEF IInv, RowOK
    <2>8. OneOK'
      <3>1. \A b \in Bindings : (Unbound(b)' <=> Unbound(b)) /\ \A q \in Requests : Put(q, b)' <=> Put(q, b)
        BY <2>2 DEF Put, Unbound
      <3>2. \A b \in Bindings : b = call[r].id => Put(r, b) /\ ~Absent(rows[b])' /\ r = rows'[b].creds.of
        BY <2>2, <2>3, <2>4 DEF Put, Absent
      <3>3. \A b \in Bindings : b # call[r].id => (Absent(rows[b])' <=> Absent(rows[b])) /\ rows'[b] = rows[b]
        BY <2>3 DEF Absent
      <3> QED BY <3>1, <3>2, <3>3 DEF IInv, OneOK
    <2> QED BY <2>6, <2>7, <2>8
  <1>2. CASE Cleanup(w)
    <2>1. PICK r \in Requests : r = job[w] /\ at[w] = "cleanup"
      BY <1>2, WorkingOn DEF Cleanup, Task!Finish, TaskSteps, IInv
    <2>2. /\ status' = status /\ UNCHANGED <<call, pc, rows, creator>>
          /\ \A q \in Requests : q # r => handled'[q] = handled[q]
      BY <1>2, <2>1 DEF Cleanup, Task!Finish, Task!queueVars, IInv, TypeInv, W!WorkerInv, W!WorkerTypeOK
    <2>3. call[r].op = "unbind"
      BY <2>1 DEF IInv, TypeInv, StepOK
    <2>4. RowOK'
      BY <2>2, <2>3 DEF IInv, RowOK
    <2>5. MessageOK' /\ OneOK'
      BY <2>2 DEF IInv, MessageOK, OneOK, Put, Unbound, Absent
    <2> QED BY <2>4, <2>5
  <1> QED BY <1>1, <1>2

(* Every step keeps the invariant. *)
LEMMA StepIInv == IInv /\ [Next]_vars => IInv'
  <1> SUFFICES ASSUME IInv, [Next]_vars PROVE IInv'
    OBVIOUS
  <1>1. TypeInv'
    BY StepType DEF IInv
  <1>2. MessageOK' /\ RowOK' /\ OneOK'
    <2>1. CASE UNCHANGED vars
      BY <2>1, QuietKeeps DEF vars, tasks
    <2>2. CASE Next
      BY <2>2, HandlerKeeps, LoopKeeps, FinishKeeps DEF Next, Work
    <2> QED BY <2>1, <2>2
  <1> QED BY <1>1, <1>2 DEF IInv

(* It holds in every reachable state. *)
LEMMA Invariance == Spec => []IInv
  BY InitIInv, StepIInv, PTL DEF Spec

(* A message that was never handled was not deleted. *)
LEMMA NeverHandled ==
    ASSUME IInv, NEW r \in Requests, handled[r] = 0
    PROVE  status[r] # "deleted"
  BY DEF IInv, TypeInv, W!WorkerInv, W!WorkerTypeOK, W!AckOK

(* Whatever fails, however often messages are delivered, with any number   *)
(* of workers, and whatever other binds and unbinds do: a binding that     *)
(* last_operation reports in progress has a bind task that is about to be  *)
(* queued, queued, being handled or dead, or its handler died before it    *)
(* queued one (routes.py:204-242, worker/main.py:141-151).                 *)
THEOREM BindingsInProgressAreBacked == Spec => []BindingInProgressIsBacked
  <1>1. IInv => BindingInProgressIsBacked
    <2> SUFFICES ASSUME IInv, NEW b \in Bindings, LastOperation(rows[b]) = "in progress"
                 PROVE  /\ creator[b] # NoRequest
                        /\ pc[creator[b]] = "send" \/ Task!Unacknowledged(creator[b])
      BY DEF BindingInProgressIsBacked
    <2>1. rows[b].state = "binding"
      BY InProgressRow DEF IInv, TypeInv, DataOK
    <2>2. /\ creator[b] \in Requests /\ handled[creator[b]] = 0
          /\ pc[creator[b]] \in {"send", "sent"}
      BY <2>1 DEF IInv, RowOK
    <2>3. status[creator[b]] \in {"unsent", "visible", "inflight", "deleted", "dead"}
      BY <2>2 DEF IInv, TypeInv, W!WorkerInv, W!WorkerTypeOK, W!QueueTypeOK, W!Statuses
    <2>4. status[creator[b]] # "deleted"
      BY <2>2, NeverHandled
    <2>5. pc[creator[b]] = "sent" => status[creator[b]] # "unsent"
      BY <2>2 DEF IInv, MessageOK
    <2> QED
      BY <2>2, <2>3, <2>4, <2>5, BindingsAssumption DEF Task!Unacknowledged
  <1> QED BY <1>1, Invariance, PTL

(* Who writes to a row: a bind that puts it, an unbind that removes it, or *)
(* a worker that completes the bind.                                       *)
LEMMA WhoWrites ==
    ASSUME IInv, [Next]_vars, NEW b \in Bindings, rows'[b] # rows[b]
    PROVE  \/ \E r \in Requests :
                 /\ call[r].op = "bind" /\ call[r].id = b
                 /\ pc[r] = "write" /\ pc'[r] = "send"
                 /\ Absent(rows[b]) /\ rows'[b].creds = NoCredentials
           \/ \E r \in Requests :
                 /\ call'[r].op = "unbind" /\ call'[r].id = b /\ pc'[r] = "removed"
                 /\ rows'[b] = NoRow
           \/ \E w \in Workers : Complete(w)
  <1>1. ASSUME NEW r \in Requests, BindCreate(r)
        PROVE  /\ call[r].op = "bind" /\ call[r].id = b
               /\ pc[r] = "write" /\ pc'[r] = "send"
               /\ Absent(rows[b]) /\ rows'[b].creds = NoCredentials
    <2>1. rows' = [rows EXCEPT ![call[r].id] = NewRow(call[r].offer)]
      BY <1>1 DEF BindCreate, Answer
    <2>2. b = call[r].id /\ call[r].offer \in Offers /\ rows'[b] = NewRow(call[r].offer)
      BY <2>1 DEF IInv, TypeInv, DataOK, Calls
    <2> QED BY <1>1, <2>2, NewRowType DEF BindCreate, FreeToCreate, Running, Answer,
            IInv, TypeInv, DataOK
  <1>2. ASSUME NEW r \in Requests, UnbindRemove(r)
        PROVE  /\ call'[r].op = "unbind" /\ call'[r].id = b /\ pc'[r] = "removed"
               /\ rows'[b] = NoRow
    BY <1>2 DEF UnbindRemove, Running, IInv, TypeInv, DataOK
  <1>3. ASSUME NEW r \in Requests, Arrive(r) \/ Handle(r) \/ Abort(r) \/ Requeue(r)
        PROVE  BindCreate(r) \/ UnbindRemove(r)
    BY <1>3 DEF Handle, Arrive, Abort, Requeue, LookAtInstance, BindRead, BindSend,
       UnbindRead, UnbindSend, Answer, Goto
  <1>4. ASSUME NEW w \in Workers,
               (\E r \in Requests : Take(w, r)) \/ Cleanup(w) \/ Fail(w) \/ Loop(w)
        PROVE  rows' = rows
    BY <1>4 DEF Take, Cleanup, Fail, Loop
  <1>5. ~UNCHANGED vars
    BY DEF vars
  <1> QED BY <1>1, <1>2, <1>3, <1>4, <1>5 DEF Next, Work

(* The task of a bind that is completed has put the row, once.             *)
LEMMA CompletesOwnRow ==
    ASSUME IInv, NEW w \in Workers, Complete(w), NEW b \in Bindings, rows'[b] # rows[b]
    PROVE  /\ job[w] \in Requests /\ Put(job[w], b)
           /\ rows'[b].creds.of = job[w]
  <1>1. PICK r \in Requests : r = job[w]
    BY CompleteEffect DEF IInv
  <1>2. /\ call[r].op = "bind" /\ status[r] # "unsent"
        /\ b # call[r].id => rows'[b] = rows[b]
        /\ b = call[r].id => rows'[b].creds.of = r
    BY <1>1, CompleteEffect DEF IInv
  <1> QED BY <1>1, <1>2 DEF IInv, MessageOK, Put

(* Two binds never overwrite each other's credentials: bindings.create is  *)
(* conditional, so that until an unbind removed the row there is one bind  *)
(* whose task can write to it (storage.py:225, 240).                       *)
THEOREM OneBindWritesARow == Spec => OneBindPerRow
  <1> DEFINE Step == \A b \in Bindings :
                        LET old == rows[b].creds
                            new == rows'[b].creds
                        IN /\ old # NoCredentials /\ new # NoCredentials
                           /\ old.of # new.of
                           => \E r \in Requests : /\ call[r].op = "unbind" /\ call[r].id = b
                                                  /\ pc[r] = "removed"
  <1>1. IInv /\ [Next]_vars => Step
    <2> SUFFICES ASSUME IInv, [Next]_vars, NEW b \in Bindings,
                        rows[b].creds # NoCredentials, rows'[b].creds # NoCredentials,
                        rows[b].creds.of # rows'[b].creds.of
                 PROVE  Unbound(b)
      BY DEF Unbound
    <2>1. rows[b] \in Rows /\ NoRow.creds = NoCredentials
      BY DEF IInv, TypeInv, DataOK, NoRow
    <2>2. PICK w \in Workers : Complete(w)
      BY <2>1, WhoWrites
    <2>3. job[w] \in Requests /\ Put(job[w], b) /\ rows'[b].creds.of = job[w]
      BY <2>2, CompletesOwnRow
    <2> QED BY <2>3 DEF IInv, OneOK
  <1> HIDE DEF Step
  <1>2. IInv /\ [Next]_vars => [Step]_vars
    BY <1>1
  <1>3. Spec => [][Step]_vars
    BY <1>2, Invariance, PTL DEF Spec
  <1> QED BY <1>3 DEF OneBindPerRow, Step

(* A row that no bind puts is the trace of a removed one: whatever fails,  *)
(* it appears only when the task of a bind is carried out after an unbind  *)
(* of that binding removed a row.  This is the one way in which            *)
(* OnlyBindCreates fails.                                                  *)
THEOREM RowsComeBackAfterUnbind == Spec => ComesBackAfterUnbind
  <1> DEFINE Step == \A b \in Bindings :
                        Absent(rows[b]) /\ ~Absent(rows'[b]) =>
                            \E r \in Requests :
                               /\ call[r].id = b
                               /\ \/ call[r].op = "bind" /\ pc[r] = "write" /\ pc'[r] = "send"
                                  \/ call[r].op = "unbind" /\ pc[r] = "removed"
  <1>1. IInv /\ [Next]_vars => Step
    <2> SUFFICES ASSUME IInv, [Next]_vars, NEW b \in Bindings,
                        Absent(rows[b]), ~Absent(rows'[b])
                 PROVE  \E r \in Requests :
                           /\ call[r].id = b
                           /\ \/ call[r].op = "bind" /\ pc[r] = "write" /\ pc'[r] = "send"
                              \/ call[r].op = "unbind" /\ pc[r] = "removed"
      OBVIOUS
    <2>1. rows'[b] # rows[b] /\ rows'[b] # NoRow
      BY DEF Absent, NoRow
    <2>2. ASSUME NEW w \in Workers, Complete(w) PROVE Unbound(b)
      BY <2>1, <2>2, CompletesOwnRow DEF IInv, OneOK
    <2> QED BY <2>1, <2>2, WhoWrites DEF Unbound
  <1> HIDE DEF Step
  <1>2. IInv /\ [Next]_vars => [Step]_vars
    BY <1>1
  <1>3. Spec => [][Step]_vars
    BY <1>2, Invariance, PTL DEF Spec
  <1> QED BY <1>3 DEF ComesBackAfterUnbind, Step

------------------------------------------------------------------------------
(* Credentials that were handed out stay.  A redelivered bind generates a  *)
(* new password (worker/main.py:141-151), which takes a crash or a batch   *)
(* that outlives its visibility timeout.                                   *)

(* Credentials a binding has change or go only when an unbind removed a    *)
(* row of that binding.                                                    *)
CredentialsStay ==
    [][\A b \in Bindings :
          rows[b].creds # NoCredentials /\ rows'[b].creds # rows[b].creds => Unbound(b)']_vars

(* Credentials are of a bind that was handled to the end. *)
GivenOK == \A b \in Bindings :
              rows[b].creds # NoCredentials =>
                 rows[b].creds.of \in Requests /\ handled[rows[b].creds.of] > 0

SteadyInv == IInv /\ W!SoleOK /\ W!OnceOK /\ GivenOK

(* Nothing is handed out at the start. *)
LEMMA SteadyInit == Init => SteadyInv
  <1> SUFFICES ASSUME Init PROVE SteadyInv
    OBVIOUS
  <1>1. W!SoleOK /\ W!OnceOK
    BY SameInit, W!SoleInit DEF Init
  <1>2. GivenOK
    BY DEF Init, NoRow, GivenOK
  <1> QED BY <1>1, <1>2, InitIInv DEF SteadyInv

(* A message is handled once and for all. *)
LEMMA HandledStays ==
    ASSUME IInv, [Next]_vars, NEW r \in Requests
    PROVE  handled'[r] \in Nat /\ handled[r] <= handled'[r]
  <1>1. [W!WorkerNext]_(W!taskVars) /\ handled \in [Requests -> Nat]
    BY StepIsLoopStep, TypeInvType DEF IInv, TypeInv, W!WorkerInv, W!WorkerTypeOK
  <1>2. handled' = handled \/ \E w \in Workers : handled' = [handled EXCEPT ![job[w]] = @ + 1]
    BY <1>1 DEF W!WorkerNext, W!Send, W!Expire, W!Redrive, W!Poll, W!Ack, W!Fail, W!Crash,
       W!RequestStop, W!Restart, W!Take, W!Finish, W!Advance, W!taskVars
  <1> QED BY <1>1, <1>2

(* A binding that an unbind has removed keeps that past. *)
LEMMA UnboundStays ==
    ASSUME IInv, [Next]_vars, NEW b \in Bindings, Unbound(b)
    PROVE  Unbound(b)'
  <1>1. PICK u \in Requests : call[u].op = "unbind" /\ call[u].id = b /\ pc[u] = "removed"
    BY DEF Unbound
  <1>2. ASSUME NEW r \in Requests, Arrive(r) \/ Handle(r) \/ Abort(r) \/ Requeue(r)
        PROVE  call' = call /\ pc'[u] = "removed"
    BY <1>1, <1>2 DEF Handle, Arrive, Abort, Requeue, LookAtInstance, BindRead, BindCreate,
       BindSend, UnbindRead, UnbindSend, UnbindRemove, Answer, Goto, Running, IInv, TypeInv, DataOK
  <1>3. ASSUME NEW w \in Workers, Work(w) \/ Loop(w)
        PROVE  UNCHANGED <<call, pc>>
    BY <1>3 DEF Work, Take, Complete, Cleanup, Fail, Loop
  <1>4. call' = call /\ pc'[u] = "removed"
    BY <1>1, <1>2, <1>3 DEF Next, vars
  <1> QED BY <1>1, <1>4 DEF Unbound

(* Complete gives credentials for a message that was not handled before.   *)
LEMMA FirstHandling ==
    ASSUME SteadyInv, NEW w \in Workers, Complete(w)
    PROVE  handled[job[w]] = 0
  <1>1. W!Finish(w, "complete") /\ "complete" \in TaskSteps
    BY SameWorkerSteps DEF Complete, TaskSteps
  <1> QED BY <1>1, LoopAssumption, W!SoleFinish DEF SteadyInv, IInv, TypeInv

(* The credentials of a binding are of a handled bind, after every step. *)
LEMMA SteadyStep ==
    ASSUME W!Steady, SteadyInv, [Next]_vars
    PROVE  SteadyInv'
  <1>1. [W!WorkerNext]_(W!taskVars)
    BY StepIsLoopStep, TypeInvType DEF SteadyInv, IInv
  <1>2. W!SoleOK' /\ W!OnceOK'
    BY <1>1, LoopAssumption, W!SoleStep DEF SteadyInv, IInv, TypeInv
  <1>3. IInv'
    BY StepIInv DEF SteadyInv
  <1>4. GivenOK'
    <2> SUFFICES ASSUME NEW b \in Bindings, rows'[b].creds # NoCredentials
                 PROVE  rows'[b].creds.of \in Requests /\ handled'[rows'[b].creds.of] > 0
      BY DEF GivenOK
    <2>1. CASE rows'[b] = rows[b]
      <3>1. PICK r \in Requests : r = rows[b].creds.of /\ handled[r] > 0
        BY <2>1 DEF SteadyInv, GivenOK
      <3>2. handled[r] \in Nat
        BY DEF SteadyInv, IInv, TypeInv, W!WorkerInv, W!WorkerTypeOK
      <3> QED BY <2>1, <3>1, <3>2, HandledStays DEF SteadyInv
    <2>2. CASE rows'[b] # rows[b]
      <3>1. PICK w \in Workers : Complete(w)
        BY <2>2, WhoWrites DEF SteadyInv, NoRow
      <3>2. job[w] \in Requests /\ rows'[b].creds.of = job[w]
        BY <2>2, <3>1, CompletesOwnRow DEF SteadyInv
      <3>3. handled' = [handled EXCEPT ![job[w]] = @ + 1] /\ handled \in [Requests -> Nat]
        BY <3>1 DEF Complete, Task!Finish, SteadyInv, IInv, TypeInv, W!WorkerInv, W!WorkerTypeOK
      <3> QED BY <3>2, <3>3
    <2> QED BY <2>1, <2>2
  <1> QED BY <1>2, <1>3, <1>4 DEF SteadyInv

(* As long as no worker crashes and no batch outlives its visibility       *)
(* timeout, the credentials a binding has are not replaced, whatever       *)
(* handlers raise, and however many workers and binds there are, until an  *)
(* unbind removes the row: an application never holds a password that a    *)
(* redelivery has replaced.                                                *)
THEOREM SteadyCredentialsStay == W!Steady => (Spec => CredentialsStay)
  <1> SUFFICES ASSUME W!Steady PROVE Spec => CredentialsStay
    OBVIOUS
  <1>1. Init => SteadyInv
    BY SteadyInit
  <1>2. SteadyInv /\ [Next]_vars => SteadyInv'
    BY SteadyStep
  <1>3. SteadyInv /\ [Next]_vars =>
           [\A b \in Bindings :
               rows[b].creds # NoCredentials /\ rows'[b].creds # rows[b].creds => Unbound(b)']_vars
    <2> SUFFICES ASSUME SteadyInv, [Next]_vars, NEW b \in Bindings,
                        rows[b].creds # NoCredentials, rows'[b].creds # rows[b].creds,
                        ~Unbound(b)'
                 PROVE  FALSE
      OBVIOUS
    <2>1. ~Unbound(b)
      BY UnboundStays DEF SteadyInv
    <2>2. ~Absent(rows[b]) /\ Put(rows[b].creds.of, b) /\ handled[rows[b].creds.of] > 0
      BY <2>1 DEF SteadyInv, IInv, OneOK, GivenOK
    <2>3. ASSUME NEW w \in Workers, Complete(w) PROVE FALSE
      <3>1. job[w] \in Requests /\ Put(job[w], b)
        BY <2>3, CompletesOwnRow DEF SteadyInv
      <3>2. job[w] = rows[b].creds.of
        BY <2>1, <2>2, <3>1 DEF SteadyInv, IInv, OneOK, GivenOK
      <3> QED BY <2>2, <2>3, <3>2, FirstHandling
    <2> QED BY <2>2, <2>3, WhoWrites DEF SteadyInv, Unbound
  <1> QED BY <1>1, <1>2, <1>3, PTL DEF Spec, CredentialsStay

------------------------------------------------------------------------------
(* A platform that waits: invariants of WaitingSpec. *)

(* No half a row comes about. *)
FullOK == \A b \in Bindings :
             IF Absent(rows[b]) THEN rows[b] = NoRow ELSE Readable(rows[b])

(* One request of a binding runs at a time. *)
TurnOK == \A q, r \in Requests :
             Active(q) /\ Active(r) /\ call[q].id = call[r].id => q = r

(* A bind that has put its row and whose task is not done finds it there.  *)
PendingOK ==
    \A r \in Requests, b \in Bindings :
        Put(r, b) /\ handled[r] = 0 => rows[b].state = "binding" /\ creator[b] = r

(* Nothing is pending for the binding of a request that runs, except the   *)
(* task it is about to queue; an unbind that goes on has found it bound.   *)
ActiveOK ==
    \A r \in Requests, b \in Bindings :
        call[r].id = b /\ Active(r) =>
            /\ pc[r] # "send" => rows[b].state # "binding"
            /\ call[r].op = "unbind" /\ pc[r] \in {"send", "sent"} => rows[b].state = "bound"

WaitParts == FullOK /\ TurnOK /\ PendingOK /\ ActiveOK
WaitInv == SteadyInv /\ WaitParts

(* A step that leaves the table alone and starts no request. *)
LEMMA WaitQuiet ==
    ASSUME WaitInv,
           UNCHANGED <<call, rows, creator>>,
           \A q \in Requests : handled'[q] = 0 => handled[q] = 0,
           \A q \in Requests : /\ pc'[q] = pc[q] \/ (pc[q] = "send" /\ pc'[q] = "sent"
                                                      /\ resp'[q] # "none")
                               /\ resp'[q] = resp[q] \/ resp'[q] # "none"
    PROVE  WaitParts'
  <1>1. \A q \in Requests : Active(q)' => Active(q) /\ pc'[q] = pc[q]
    BY DEF Active
  <1>2. \A q \in Requests, b \in Bindings : Put(q, b)' => Put(q, b)
    BY DEF Put
  <1>3. FullOK' /\ TurnOK'
    BY <1>1 DEF WaitInv, WaitParts, FullOK, TurnOK, Absent, Readable
  <1>4. PendingOK'
    BY <1>2 DEF WaitInv, WaitParts, PendingOK
  <1>5. ActiveOK'
    BY <1>1 DEF WaitInv, WaitParts, ActiveOK
  <1> QED BY <1>3, <1>4, <1>5 DEF WaitParts

(* A request goes on, or starts while its binding is free. *)
LEMMA WaitGoto ==
    ASSUME WaitInv, NEW r \in Requests, NEW step \in {"look", "read", "write", "send", "sent"},
           UNCHANGED <<call, resp, rows, creator, handled>>,
           pc' = [pc EXCEPT ![r] = step],
           pc[r] = "new" => Free(call[r].id),
           pc[r] = "send" => step = "sent",
           step \in {"send", "sent"} =>
              call[r].op = "unbind" /\ (rows[call[r].id].state = "bound" \/ pc[r] = "send")
    PROVE  WaitParts'
  <1>1. /\ pc'[r] = step
        /\ \A q \in Requests : q # r => pc'[q] = pc[q]
    BY DEF WaitInv, SteadyInv, IInv, TypeInv, DataOK
  <1>2. \A q \in Requests : q # r => (Active(q)' <=> Active(q))
    BY <1>1 DEF Active
  <1>3. \A q \in Requests, b \in Bindings : Put(q, b)' => Put(q, b)
    BY <1>1 DEF Put
  <1>4. FullOK' /\ PendingOK'
    BY <1>3 DEF WaitInv, WaitParts, FullOK, PendingOK, Absent, Readable
  <1>5. CASE pc[r] = "new"
    <2>1. \A q \in Requests : q # r /\ call[q].id = call[r].id => ~Active(q)'
      BY <1>2, <1>5 DEF Free
    <2>2. TurnOK'
      BY <2>1, <1>2 DEF WaitInv, WaitParts, TurnOK
    <2>3. rows[call[r].id].state # "binding"
      BY <1>5 DEF WaitInv, WaitParts, FullOK, Free, LastOperation, Absent,
         SteadyInv, IInv, TypeInv, DataOK, Calls
    <2>4. ActiveOK'
      BY <1>1, <1>2, <1>5, <2>3 DEF WaitInv, WaitParts, ActiveOK
    <2> QED BY <1>4, <2>2, <2>4 DEF WaitParts
  <1>6. CASE pc[r] # "new"
    <2>1. Active(r)' => Active(r)
      BY <1>6 DEF Active
    <2>2. TurnOK'
      BY <1>2, <2>1 DEF WaitInv, WaitParts, TurnOK
    <2>3. ActiveOK'
      BY <1>1, <1>2, <2>1 DEF WaitInv, WaitParts, ActiveOK
    <2> QED BY <1>4, <2>2, <2>3 DEF WaitParts
  <1> QED BY <1>5, <1>6

(* What each of the steps that write to the table does to a row, when the  *)
(* platform waits. *)
LEMMA WaitCreates ==
    ASSUME WaitInv, NEW r \in Requests, BindCreate(r), pc'[r] = "send"
    PROVE  LET b == call[r].id
           IN /\ b \in Bindings /\ call[r].offer \in Offers
              /\ rows[b].state = "absent"
              /\ rows' = [rows EXCEPT ![b] = NewRow(call[r].offer)]
              /\ creator' = [creator EXCEPT ![b] = r]
              /\ pc' = [pc EXCEPT ![r] = "send"]
              /\ call[r].op = "bind" /\ pc[r] = "write" /\ resp[r] = "none"
              /\ UNCHANGED <<call, resp, handled>>
  BY DEF BindCreate, FreeToCreate, Absent, Running, Answer, tasks,
     WaitInv, SteadyInv, IInv, TypeInv, DataOK, Calls

LEMMA WaitRemoves ==
    ASSUME WaitInv, NEW r \in Requests, UnbindRemove(r)
    PROVE  LET b == call[r].id
           IN /\ b \in Bindings
              /\ rows[b].state = "bound"
              /\ rows' = [rows EXCEPT ![b] = NoRow]
              /\ creator' = [creator EXCEPT ![b] = NoRequest]
              /\ pc' = [pc EXCEPT ![r] = "removed"]
              /\ resp' = [resp EXCEPT ![r] = "200"]
              /\ call[r].op = "unbind" /\ pc[r] = "sent" /\ resp[r] = "none"
              /\ UNCHANGED <<call, handled>>
  <1>1. call[r].id \in Bindings
    BY DEF WaitInv, SteadyInv, IInv, TypeInv, DataOK, Calls
  <1>2. rows[call[r].id].state = "bound"
    BY <1>1 DEF UnbindRemove, Running, WaitInv, WaitParts, ActiveOK, Active
  <1> QED BY <1>1, <1>2 DEF UnbindRemove, Running, tasks

LEMMA WaitCompletes ==
    ASSUME WaitInv, NEW w \in Workers, Complete(w)
    PROVE  \E r \in Requests, b \in Bindings, creds \in Credentials :
              /\ b = call[r].id /\ Put(r, b) /\ handled[r] = 0
              /\ rows[b].state = "binding" /\ creator[b] = r
              /\ rows' = [rows EXCEPT ![b] = Completed(@, creds)]
              /\ handled' = [handled EXCEPT ![r] = 1]
              /\ UNCHANGED <<call, pc, resp, creator>>
  <1> DEFINE creds == [of |-> job[w], nth |-> handled[job[w]] + 1]
  <1>1. PICK r \in Requests : r = job[w]
    BY CompleteEffect DEF WaitInv, SteadyInv, IInv
  <1>2. /\ call[r].id \in Bindings /\ call[r].op = "bind" /\ status[r] # "unsent"
        /\ UNCHANGED <<call, pc, resp, creator>>
    BY <1>1, CompleteEffect DEF WaitInv, SteadyInv, IInv, Calls
  <1>3. handled[r] = 0
    BY <1>1, FirstHandling DEF WaitInv
  <1>4. creds \in Credentials
    BY <1>1, <1>3, BindingsAssumption DEF Credentials
  <1>5. /\ rows' = [rows EXCEPT ![call[r].id] = Completed(@, creds)]
        /\ handled' = [handled EXCEPT ![r] = 1]
    BY <1>1, <1>3 DEF Complete, Task!Finish
  <1>6. Put(r, call[r].id)
    BY <1>2 DEF Put, WaitInv, SteadyInv, IInv, MessageOK
  <1>7. rows[call[r].id].state = "binding" /\ creator[call[r].id] = r
    BY <1>2, <1>3, <1>6 DEF WaitInv, WaitParts, PendingOK
  <1> HIDE DEF creds
  <1> QED BY <1>2, <1>3, <1>4, <1>5, <1>6, <1>7

(* The put of a bind. *)
LEMMA WaitCreate ==
    ASSUME WaitInv, NEW r \in Requests, BindCreate(r), pc'[r] = "send"
    PROVE  WaitParts'
  <1>b. PICK b \in Bindings : b = call[r].id
    BY WaitCreates
  <1>1. /\ call[r].offer \in Offers /\ rows[b].state = "absent"
        /\ call[r].op = "bind" /\ pc[r] = "write" /\ resp[r] = "none"
        /\ UNCHANGED <<call, resp, handled>>
    BY <1>b, WaitCreates
  <1>2. /\ pc'[r] = "send" /\ creator'[b] = r /\ rows'[b] = NewRow(call[r].offer)
        /\ \A q \in Requests : q # r => pc'[q] = pc[q]
        /\ \A c \in Bindings : c # b => rows'[c] = rows[c] /\ creator'[c] = creator[c]
    BY <1>b, WaitCreates DEF WaitInv, SteadyInv, IInv, TypeInv, DataOK
  <1>3. rows'[b].state = "binding" /\ rows'[b].offer # Missing
    BY <1>1, <1>2, BindingsAssumption DEF NewRow
  <1>4. Active(r) /\ \A q \in Requests : Active(q)' <=> Active(q)
    BY <1>1, <1>2 DEF Active
  <1>5. FullOK'
    BY <1>2, <1>3 DEF WaitInv, WaitParts, FullOK, Absent, Readable
  <1>6. TurnOK'
    BY <1>1, <1>4 DEF WaitInv, WaitParts, TurnOK
  <1>7. \A q \in Requests, c \in Bindings : q # r => (Put(q, c)' <=> Put(q, c))
    BY <1>1, <1>2 DEF Put
  <1>8. \A c \in Bindings : Put(r, c)' => c = b
    BY <1>b, <1>1 DEF Put
  <1>9. PendingOK'
    BY <1>1, <1>2, <1>3, <1>7, <1>8 DEF WaitInv, WaitParts, PendingOK
  <1>10. \A q \in Requests : Active(q) /\ call[q].id = b => q = r
    BY <1>b, <1>4 DEF WaitInv, WaitParts, TurnOK
  <1>11. ActiveOK'
    BY <1>1, <1>2, <1>4, <1>10 DEF WaitInv, WaitParts, ActiveOK
  <1> QED BY <1>5, <1>6, <1>9, <1>11 DEF WaitParts

(* The row goes. *)
LEMMA WaitRemove ==
    ASSUME WaitInv, NEW r \in Requests, UnbindRemove(r)
    PROVE  WaitParts'
  <1>b. PICK b \in Bindings : b = call[r].id
    BY WaitRemoves
  <1>1. /\ rows[b].state = "bound" /\ call[r].op = "unbind" /\ pc[r] = "sent" /\ resp[r] = "none"
        /\ UNCHANGED <<call, handled>>
    BY <1>b, WaitRemoves
  <1>2. /\ pc'[r] = "removed" /\ resp'[r] # "none"
        /\ rows'[b] = NoRow /\ rows'[b].state = "absent"
        /\ \A q \in Requests : q # r => pc'[q] = pc[q] /\ resp'[q] = resp[q]
        /\ \A c \in Bindings : c # b => rows'[c] = rows[c] /\ creator'[c] = creator[c]
    BY <1>b, WaitRemoves DEF WaitInv, SteadyInv, IInv, TypeInv, DataOK, NoRow
  <1>3. /\ Active(r) /\ ~Active(r)'
        /\ \A q \in Requests : q # r => (Active(q)' <=> Active(q))
    BY <1>1, <1>2 DEF Active
  <1>4. FullOK'
    BY <1>2 DEF WaitInv, WaitParts, FullOK, Absent, Readable
  <1>5. TurnOK'
    BY <1>1, <1>3 DEF WaitInv, WaitParts, TurnOK
  <1>6. \A q \in Requests, c \in Bindings : Put(q, c)' => Put(q, c)
    BY <1>1, <1>2 DEF Put
  <1>7. PendingOK'
    BY <1>1, <1>2, <1>6 DEF WaitInv, WaitParts, PendingOK
  <1>8. \A q \in Requests : Active(q)' => call[q].id # b
    BY <1>b, <1>3 DEF WaitInv, WaitParts, TurnOK
  <1>9. ActiveOK'
    BY <1>1, <1>2, <1>3, <1>8 DEF WaitInv, WaitParts, ActiveOK
  <1> QED BY <1>4, <1>5, <1>7, <1>9 DEF WaitParts

(* The binding is bound.  Its row was full, and stays so. *)
LEMMA WaitComplete ==
    ASSUME WaitInv, NEW w \in Workers, Complete(w)
    PROVE  WaitParts'
  <1>1. PICK r \in Requests, b \in Bindings, creds \in Credentials :
           /\ b = call[r].id /\ Put(r, b) /\ handled[r] = 0
           /\ rows[b].state = "binding" /\ creator[b] = r
           /\ rows' = [rows EXCEPT ![b] = Completed(@, creds)]
           /\ handled' = [handled EXCEPT ![r] = 1]
           /\ UNCHANGED <<call, pc, resp, creator>>
    BY WaitCompletes
  <1>2. Completed(rows[b], creds).state = "bound" /\ Completed(rows[b], creds).offer = rows[b].offer
    BY DEF Completed, WaitInv, SteadyInv, IInv, TypeInv, DataOK, Rows
  <1>3. /\ rows'[b].state = "bound" /\ rows'[b].offer = rows[b].offer
        /\ handled'[r] = 1
        /\ \A q \in Requests : q # r => handled'[q] = handled[q]
        /\ \A c \in Bindings : c # b => rows'[c] = rows[c]
    BY <1>1, <1>2 DEF WaitInv, SteadyInv, IInv, TypeInv, DataOK, W!WorkerInv, W!WorkerTypeOK
  <1>4. /\ \A q \in Requests : Active(q)' <=> Active(q)
        /\ \A q \in Requests, c \in Bindings : Put(q, c)' <=> Put(q, c)
    BY <1>1 DEF Active, Put
  <1>5. FullOK'
    BY <1>1, <1>3 DEF WaitInv, WaitParts, FullOK, Absent, Readable
  <1>6. TurnOK'
    BY <1>1, <1>4 DEF WaitInv, WaitParts, TurnOK
  <1>7. PendingOK'
    BY <1>1, <1>3, <1>4 DEF WaitInv, WaitParts, PendingOK
  <1>8. ActiveOK'
    BY <1>1, <1>3, <1>4 DEF WaitInv, WaitParts, ActiveOK
  <1> QED BY <1>5, <1>6, <1>7, <1>8 DEF WaitParts

(* A handler refuses, goes on, or takes one of the steps above. *)
LEMMA WaitHandler ==
    ASSUME WaitInv, Patient, NEW r \in Requests, Arrive(r) \/ Handle(r) \/ Abort(r)
    PROVE  WaitParts'
  <1>1. ASSUME NEW code \in Codes \ {"none"}, Answer(r, code) PROVE WaitParts'
    <2>1. \A q \in Requests : pc'[q] = pc[q] /\ (resp'[q] = resp[q] \/ resp'[q] # "none")
      BY <1>1 DEF Answer, WaitInv, SteadyInv, IInv, TypeInv, DataOK
    <2>2. /\ UNCHANGED <<call, rows, creator>>
          /\ \A q \in Requests : handled'[q] = 0 => handled[q] = 0
      BY <1>1 DEF Answer, tasks
    <2> QED BY <2>1, <2>2, WaitQuiet
  <1>2. ASSUME NEW step \in {"look", "read", "write", "send"}, Goto(r, step),
               pc[r] # "send", pc[r] = "new" => Free(call[r].id),
               step = "send" => call[r].op = "unbind" /\ rows[call[r].id].state = "bound"
        PROVE  WaitParts'
    BY <1>2, WaitGoto DEF Goto, tasks
  <1>3. CASE Arrive(r)
    <2>1. PICK step \in {"look", "read"} : Goto(r, step) /\ pc[r] = "new"
      BY <1>3 DEF Arrive
    <2>2. pc'[r] # "new"
      BY <2>1 DEF Goto, WaitInv, SteadyInv, IInv, TypeInv, DataOK
    <2>3. Free(call[r].id)
      BY <2>1, <2>2 DEF Patient
    <2> QED BY <1>2, <2>1, <2>3
  <1>4. CASE LookAtInstance(r)
    BY <1>1, <1>2, <1>4 DEF LookAtInstance, Running, Codes
  <1>5. CASE BindRead(r)
    BY <1>1, <1>2, <1>5 DEF BindRead, Running, Codes
  <1>6. CASE UnbindRead(r)
    <2>1. Running(r, "unbind", "read") /\ call[r].id \in Bindings
      BY <1>6 DEF UnbindRead, WaitInv, SteadyInv, IInv, TypeInv, DataOK, Calls
    <2>2. rows[call[r].id].state # "binding"
      BY <2>1 DEF Running, Active, WaitInv, WaitParts, ActiveOK
    <2>3. ~Absent(RowOf(r)) => rows[call[r].id].state = "bound"
      BY <2>1, <2>2 DEF RowOf, Absent, WaitInv, SteadyInv, IInv, TypeInv, DataOK, Rows
    <2>4. \/ \E code \in {"404", "500", "400"} : Answer(r, code)
          \/ Goto(r, "send") /\ Readable(RowOf(r))
      BY <1>6 DEF UnbindRead
    <2>5. Readable(RowOf(r)) => ~Absent(RowOf(r))
      BY <2>1 DEF RowOf, Readable, NoRow, WaitInv, WaitParts, FullOK
    <2> QED BY <1>1, <1>2, <2>1, <2>3, <2>4, <2>5 DEF Running, Codes
  <1>7. CASE BindCreate(r)
    <2>1. pc'[r] = "send" \/ Answer(r, "422")
      BY <1>7 DEF BindCreate, WaitInv, SteadyInv, IInv, TypeInv, DataOK
    <2> QED BY <1>1, <1>7, <2>1, WaitCreate DEF Codes
  <1>8. CASE BindSend(r)
    <2>1. /\ UNCHANGED <<call, rows, creator, handled>>
          /\ pc[r] = "send" /\ pc'[r] = "sent" /\ resp'[r] = "201"
          /\ \A q \in Requests : q # r => pc'[q] = pc[q] /\ resp'[q] = resp[q]
      BY <1>8 DEF BindSend, Running, Task!Send, WaitInv, SteadyInv, IInv, TypeInv, DataOK
    <2> QED BY <2>1, WaitQuiet
  <1>9. CASE UnbindSend(r)
    <2>1. /\ UNCHANGED <<call, resp, rows, creator, handled>>
          /\ pc[r] = "send" /\ call[r].op = "unbind"
          /\ pc' = [pc EXCEPT ![r] = "sent"]
      BY <1>9 DEF UnbindSend, Running, Task!Send
    <2> QED BY <2>1, WaitGoto
  <1>10. CASE Abort(r)
    BY <1>1, <1>10 DEF Abort, Codes
  <1> QED
    BY <1>3, <1>4, <1>5, <1>6, <1>7, <1>8, <1>9, <1>10, WaitRemove DEF Handle

(* Every step keeps the invariant. *)
LEMMA WaitStep ==
    ASSUME W!Steady, WaitInv, [Next]_vars, [Patient]_vars
    PROVE  WaitInv'
  <1>1. SteadyInv'
    BY SteadyStep DEF WaitInv
  <1>2. ASSUME UNCHANGED <<call, pc, resp, rows, creator>> PROVE WaitParts'
    <2>1. \A q \in Requests : handled'[q] = 0 => handled[q] = 0
      <3> SUFFICES ASSUME NEW q \in Requests, handled'[q] = 0 PROVE handled[q] = 0
        OBVIOUS
      <3>1. handled[q] \in Nat
        BY DEF WaitInv, SteadyInv, IInv, TypeInv, W!WorkerInv, W!WorkerTypeOK
      <3> QED BY <3>1, HandledStays DEF WaitInv, SteadyInv
    <2> QED BY <1>2, <2>1, WaitQuiet
  <1>3. WaitParts'
    <2>1. CASE UNCHANGED vars
      BY <1>2, <2>1 DEF vars
    <2>2. ASSUME Patient, NEW r \in Requests, Arrive(r) \/ Handle(r) \/ Abort(r)
          PROVE  WaitParts'
      BY <2>2, WaitHandler
    <2>3. ASSUME NEW r \in Requests, Requeue(r) PROVE WaitParts'
      BY <1>2, <2>3 DEF Requeue
    <2>4. ASSUME NEW w \in Workers, Loop(w) \/ Work(w) PROVE WaitParts'
      BY <1>2, <2>4, WaitComplete DEF Loop, Work, Take, Cleanup, Fail
    <2> QED BY <2>1, <2>2, <2>3, <2>4 DEF Next
  <1> QED BY <1>1, <1>3 DEF WaitInv

(* One row written is one entry written of each of the contract's variables. *)
LEMMA RowMaps ==
    ASSUME NEW b \in Bindings, \A c \in Bindings : c # b => rows'[c] = rows[c]
    PROVE  /\ [c \in Bindings |-> rows[c].state]'
                 = [[c \in Bindings |-> rows[c].state] EXCEPT ![b] = rows'[b].state]
           /\ [c \in Bindings |-> rows[c].offer]'
                 = [[c \in Bindings |-> rows[c].offer] EXCEPT ![b] = rows'[b].offer]
           /\ [c \in Bindings |-> rows[c].creds]'
                 = [[c \in Bindings |-> rows[c].creds] EXCEPT ![b] = rows'[b].creds]
  OBVIOUS

(* What a step is to the contract. *)
LEMMA ContractStep ==
    ASSUME WaitInv, [Next]_vars
    PROVE  [Contract!ContractNext]_(Contract!contract)
  <1>t. rows \in [Bindings -> Rows] /\ rows' \in [Bindings -> Rows]
    BY StepIInv DEF WaitInv, SteadyInv, IInv, TypeInv, DataOK
  <1>1. ASSUME NEW r \in Requests, BindCreate(r), pc'[r] = "send"
        PROVE  Contract!ContractNext
    <2>1. PICK b \in Bindings : /\ rows[b].state = "absent" /\ call[r].offer \in Offers
                                /\ rows' = [rows EXCEPT ![b] = NewRow(call[r].offer)]
      BY <1>1, WaitCreates
    <2>2. /\ rows'[b].state = "binding" /\ rows'[b].offer = call[r].offer
          /\ rows'[b].creds = rows[b].creds
          /\ \A c \in Bindings : c # b => rows'[c] = rows[c]
      BY <1>t, <2>1 DEF NewRow, NoRow, Absent, WaitInv, WaitParts, FullOK
    <2>3. \A c \in Bindings : rows'[c].creds = rows[c].creds
      BY <2>2
    <2>4. Contract!Ask(b)
      <3>1. Contract!Enter(b, "absent", "binding")
        BY <2>1, <2>2, RowMaps DEF Contract!Enter
      <3>2. [c \in Bindings |-> rows[c].offer]'
              = [[c \in Bindings |-> rows[c].offer] EXCEPT ![b] = call[r].offer]
        BY <2>2, RowMaps
      <3>3. UNCHANGED [c \in Bindings |-> rows[c].creds]
        BY <2>3
      <3> QED BY <2>1, <3>1, <3>2, <3>3 DEF Contract!Ask
    <2> QED BY <2>4 DEF Contract!ContractNext
  <1>2. ASSUME NEW r \in Requests, UnbindRemove(r) PROVE Contract!ContractNext
    <2>1. PICK b \in Bindings : /\ rows[b].state = "bound"
                                /\ rows' = [rows EXCEPT ![b] = NoRow]
      BY <1>2, WaitRemoves
    <2>2. /\ rows'[b].state = "absent" /\ rows'[b].offer = Missing
          /\ rows'[b].creds = NoCredentials
          /\ \A c \in Bindings : c # b => rows'[c] = rows[c]
      BY <1>t, <2>1 DEF NoRow
    <2>3. Contract!Withdraw(b)
      BY <2>1, <2>2, RowMaps DEF Contract!Withdraw, Contract!Enter
    <2> QED BY <2>3 DEF Contract!ContractNext
  <1>3. ASSUME NEW w \in Workers, Complete(w) PROVE Contract!ContractNext
    <2>1. PICK b \in Bindings, creds \in Credentials :
             /\ rows[b].state = "binding"
             /\ rows' = [rows EXCEPT ![b] = Completed(@, creds)]
      BY <1>3, WaitCompletes
    <2>2. /\ Completed(rows[b], creds).state = "bound"
          /\ Completed(rows[b], creds).offer = rows[b].offer
          /\ Completed(rows[b], creds).creds = creds
      BY <1>t DEF Completed, Rows
    <2>3. /\ rows'[b].state = "bound" /\ rows'[b].offer = rows[b].offer /\ rows'[b].creds = creds
          /\ \A c \in Bindings : c # b => rows'[c] = rows[c]
      BY <1>t, <2>1, <2>2
    <2>4. \A c \in Bindings : rows'[c].offer = rows[c].offer
      BY <2>3
    <2>5. Contract!Issue(b)
      <3>1. Contract!Enter(b, "binding", "bound")
        BY <2>1, <2>3, RowMaps DEF Contract!Enter
      <3>2. [c \in Bindings |-> rows[c].creds]'
              = [[c \in Bindings |-> rows[c].creds] EXCEPT ![b] = creds]
        BY <2>3, RowMaps
      <3>3. UNCHANGED [c \in Bindings |-> rows[c].offer]
        BY <2>4
      <3> QED BY <2>1, <3>1, <3>2, <3>3 DEF Contract!Issue
    <2> QED BY <2>5 DEF Contract!ContractNext
  <1>4. CASE rows' = rows
    BY <1>4 DEF Contract!contract
  <1>5. ASSUME NEW r \in Requests, BindCreate(r) PROVE rows' = rows \/ pc'[r] = "send"
    BY <1>5 DEF BindCreate, Answer, WaitInv, SteadyInv, IInv, TypeInv, DataOK
  <1>6. ASSUME NEW r \in Requests, Arrive(r) \/ Handle(r) \/ Abort(r) \/ Requeue(r)
        PROVE  rows' = rows \/ BindCreate(r) \/ UnbindRemove(r)
    BY <1>6 DEF Handle, Arrive, Abort, Requeue, LookAtInstance, BindRead, BindSend,
       UnbindRead, UnbindSend, Answer, Goto
  <1>7. ASSUME NEW w \in Workers, Work(w) \/ Loop(w) PROVE rows' = rows \/ Complete(w)
    BY <1>7 DEF Work, Take, Cleanup, Fail, Loop
  <1> QED BY <1>1, <1>2, <1>3, <1>4, <1>5, <1>6, <1>7 DEF Next, vars

LEMMA WaitingIsSpec == WaitingSpec => Spec
  <1>1. [Next /\ Patient]_vars => [Next]_vars
    OBVIOUS
  <1> QED BY <1>1, PTL DEF WaitingSpec, Spec

LEMMA WaitInductive == W!Steady => (WaitingSpec => []WaitInv)
  <1> SUFFICES ASSUME W!Steady PROVE WaitingSpec => []WaitInv
    OBVIOUS
  <1>1. Init => WaitInv
    <2> SUFFICES ASSUME Init PROVE WaitInv
      OBVIOUS
    <2>1. WaitParts
      BY DEF Init, WaitParts, FullOK, TurnOK, PendingOK, ActiveOK, Active, Put, Absent, NoRow
    <2> QED BY <2>1, SteadyInit DEF WaitInv
  <1>2. WaitInv /\ [Next /\ Patient]_vars => WaitInv'
    BY WaitStep
  <1> QED BY <1>1, <1>2, PTL DEF WaitingSpec

(* To a platform that waits, and as long as no worker crashes and no batch *)
(* outlives its visibility timeout, the broker keeps the contract of       *)
(* bindings, whatever handlers and tasks raise, however often messages are *)
(* delivered and with any number of workers: what is asked for is bound    *)
(* once, with credentials that stay, and is gone after the unbind          *)
(* (routes.py:175-263, worker/main.py:141-162).                            *)
THEOREM BindingsKeepContract == W!Steady => (WaitingSpec => KeepsBindingContract)
  <1> SUFFICES ASSUME W!Steady PROVE WaitingSpec => KeepsBindingContract
    OBVIOUS
  <1>1. Init => Contract!ContractInit
    BY DEF Init, NoRow, Contract!ContractInit
  <1>2. WaitInv /\ [Next]_vars => [Contract!ContractNext]_(Contract!contract)
    BY ContractStep
  <1> QED BY <1>1, <1>2, WaitInductive, WaitingIsSpec, PTL DEF Spec, KeepsBindingContract, Contract!ContractSpec

(* To such a platform a removed binding comes back only through a bind,    *)
(* as tests/e2e/test_bind_unbind.py:58 expects: it takes an unbind before  *)
(* the bind is done, a crash or an overrun to break OnlyBindCreates.       *)
THEOREM WaitingOnlyBindCreates == W!Steady => (WaitingSpec => OnlyBindCreates)
  <1> SUFFICES ASSUME W!Steady PROVE WaitingSpec => OnlyBindCreates
    OBVIOUS
  <1> DEFINE Step == \A b \in Bindings :
                        Absent(rows[b]) /\ ~Absent(rows'[b]) =>
                            \E r \in Requests : /\ call[r].op = "bind" /\ call[r].id = b
                                                /\ pc[r] = "write" /\ pc'[r] = "send"
  <1>1. ASSUME WaitInv, [Next]_vars PROVE Step
    <2> SUFFICES ASSUME NEW b \in Bindings, Absent(rows[b]), ~Absent(rows'[b])
                 PROVE  \E r \in Requests : /\ call[r].op = "bind" /\ call[r].id = b
                                            /\ pc[r] = "write" /\ pc'[r] = "send"
      OBVIOUS
    <2>1. rows'[b] # rows[b] /\ rows'[b] # NoRow
      BY DEF Absent, NoRow
    <2>2. ASSUME NEW w \in Workers, Complete(w) PROVE FALSE
      <3>1. PICK c \in Bindings, creds \in Credentials :
               rows[c].state = "binding" /\ rows' = [rows EXCEPT ![c] = Completed(@, creds)]
        BY <2>2, WaitCompletes, <1>1
      <3> QED BY <2>1, <3>1 DEF Absent
    <2> QED BY <1>1, <2>1, <2>2, WhoWrites DEF WaitInv, SteadyInv
  <1> HIDE DEF Step
  <1>2. WaitInv /\ [Next]_vars => [Step]_vars
    BY <1>1
  <1>3. WaitingSpec => [][Step]_vars
    BY <1>2, WaitInductive, WaitingIsSpec, PTL DEF Spec
  <1> QED BY <1>3 DEF OnlyBindCreates, Step
==============================================================================
