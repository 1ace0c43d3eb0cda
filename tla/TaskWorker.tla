----------------------------- MODULE TaskWorker -----------------------------
(***************************************************************************)
(* The worker loop of services/osb/osb/worker/main.py (run, _tick and      *)
(* _handle) over a task queue, apart from what the tasks do: any number of *)
(* worker processes receive batches, handle the messages of a batch one    *)
(* after the other, and delete a message only after its handler returned.  *)
(* The modules of the broker instantiate this one and say what the steps   *)
(* of a handler do to the tables and the bucket.                           *)
(***************************************************************************)
EXTENDS TaskQueue

CONSTANTS Workers,
          Steps,        \* the steps of the task handlers
          Faults,       \* what goes wrong, see FaultKinds
          NoMessage

(* abort: an API handler dies or a call of it raises                       *)
(* fail: a call of the worker to DynamoDB or S3 raises                     *)
(* crash: a worker process dies and is started again                       *)
(* stop: a worker gets SIGTERM while it handles a batch                    *)
(* overrun: a message is delivered again while a worker holds it, because  *)
(*          its batch outlives the visibility timeout or SQS repeats it    *)
FaultKinds == {"abort", "fail", "crash", "stop", "overrun"}

VARIABLES at,           \* "poll", the step of a handler, or "ack"
          job,          \* the message a worker handles
          held,         \* the receipts of its batch, 0 for no message
          stopping,     \* Worker._stopping
          handled       \* history: how often a message was handled to the end

workerVars == <<at, job, held, stopping>>
taskVars == <<queueVars, workerVars, handled>>

WorkerTypeOK ==
    /\ QueueTypeOK
    /\ at \in [Workers -> Steps \cup {"poll", "ack"}]
    /\ job \in [Workers -> Messages \cup {NoMessage}]
    /\ held \in [Workers -> [Messages -> 0 .. MaxReceive]]
    /\ stopping \in [Workers -> BOOLEAN]
    /\ handled \in [Messages -> Nat]

WorkerInit ==
    /\ QueueInit
    /\ at = [w \in Workers |-> "poll"]
    /\ job = [w \in Workers |-> NoMessage]
    /\ held = [w \in Workers |-> [m \in Messages |-> 0]]
    /\ stopping = [w \in Workers |-> FALSE]
    /\ handled = [m \in Messages |-> 0]

Held(w) == {m \in Messages : held[w][m] > 0}

(* A worker in its receive call. *)
Idle(w) == at[w] = "poll" /\ Held(w) = {} /\ ~stopping[w]

Send(m) == Sent(m) /\ UNCHANGED <<workerVars, handled>>

(* queue.receive, at most MaxBatch messages *)
Poll(w) ==
    /\ Idle(w)
    /\ \E batch \in SUBSET Messages :
          /\ Received(batch)
          /\ held' = [held EXCEPT ![w] = [m \in Messages |->
                        IF m \in batch THEN receives'[m] ELSE 0]]
    /\ UNCHANGED <<at, job, stopping, handled>>

(* _handle begins with some message of the batch. *)
Take(w, m, step) ==
    /\ at[w] = "poll"
    /\ held[w][m] > 0
    /\ job' = [job EXCEPT ![w] = m]
    /\ at' = [at EXCEPT ![w] = step]
    /\ UNCHANGED <<queueVars, held, stopping, handled>>

(* The handler of a message goes from a step of it to another. *)
Advance(w, from, to) ==
    /\ at[w] = from
    /\ at' = [at EXCEPT ![w] = to]
    /\ UNCHANGED <<queueVars, job, held, stopping, handled>>

(* The handler of a message returns: only the acknowledgement is left. *)
Finish(w, from) ==
    /\ at[w] = from
    /\ at' = [at EXCEPT ![w] = "ack"]
    /\ handled' = [handled EXCEPT ![job[w]] = @ + 1]
    /\ UNCHANGED <<queueVars, job, held, stopping>>

(* The worker is done with its message and goes on with the batch. *)
Drop(w) == /\ at' = [at EXCEPT ![w] = "poll"]
           /\ job' = [job EXCEPT ![w] = NoMessage]
           /\ held' = [held EXCEPT ![w] = [@ EXCEPT ![job[w]] = 0]]

Ack(w) ==
    /\ at[w] = "ack"
    /\ Deleted(job[w], held[w][job[w]])
    /\ Drop(w)
    /\ UNCHANGED <<stopping, handled>>

(* An unexpected exception returns before queue.delete; mutant: it does    *)
(* not, as if delete were in a finally clause.                             *)
DeletedAnyway(w) == Deleted(job[w], held[w][job[w]])
LeftForRedrive(w) == UNCHANGED queueVars

(* The handler raises; the message waits for its next delivery. *)
Fail(w) ==
    /\ at[w] \in Steps
    /\ LeftForRedrive(w)
    /\ Drop(w)
    /\ UNCHANGED <<stopping, handled>>

(* The process dies, also when delete_message raises, and is restarted. *)
Crash(w) ==
    /\ "crash" \in Faults
    /\ Held(w) # {}
    /\ at' = [at EXCEPT ![w] = "poll"]
    /\ job' = [job EXCEPT ![w] = NoMessage]
    /\ held' = [held EXCEPT ![w] = [m \in Messages |-> 0]]
    /\ stopping' = [stopping EXCEPT ![w] = FALSE]
    /\ UNCHANGED <<queueVars, handled>>

(* request_stop sets a flag that run reads after the batch. *)
RequestStop(w) ==
    /\ "stop" \in Faults
    /\ Held(w) # {} /\ ~stopping[w]
    /\ stopping' = [stopping EXCEPT ![w] = TRUE]
    /\ UNCHANGED <<queueVars, at, job, held, handled>>

(* The stopped process is replaced by a new one. *)
Restart(w) ==
    /\ stopping[w] /\ at[w] = "poll" /\ Held(w) = {}
    /\ stopping' = [stopping EXCEPT ![w] = FALSE]
    /\ UNCHANGED <<queueVars, at, job, held, handled>>

Expire(m) == /\ "overrun" \in Faults \/ \A w \in Workers : held[w][m] = 0
             /\ Expired(m)
             /\ UNCHANGED <<workerVars, handled>>

Redrive(m) == /\ \E w \in Workers : Idle(w)
              /\ Redriven(m)
              /\ UNCHANGED <<workerVars, handled>>

WorkerNext ==
    \/ \E m \in Messages : Send(m) \/ Expire(m) \/ Redrive(m)
    \/ \E w \in Workers :
          \/ Poll(w) \/ Ack(w) \/ Fail(w) \/ Crash(w) \/ RequestStop(w) \/ Restart(w)
          \/ \E m \in Messages, step \in Steps : Take(w, m, step)
          \/ \E from \in Steps : Finish(w, from) \/ \E to \in Steps : Advance(w, from, to)

WorkerSpec == WorkerInit /\ [][WorkerNext]_taskVars

------------------------------------------------------------------------------
(* The task ledger, told from the queue and the history of handlings. *)
EntryOf(s) == CASE s = "unsent"  -> "none"
                [] s = "deleted" -> "settled"
                [] s = "dead"    -> "dead"
                [] s \in {"visible", "inflight"} -> "queued"

Ledger == INSTANCE TaskLedger
            WITH Tasks <- Messages, MaxTries <- MaxReceive,
                 entry <- [m \in Messages |-> EntryOf(status[m])],
                 tries <- receives,
                 applied <- {m \in Messages : handled[m] > 0}

(* A message leaves the queue acknowledged only if it was handled to the   *)
(* end at least once, and dead only after MaxReceive deliveries, whatever  *)
(* crashes, fails or is delivered twice (worker/main.py:61-91).            *)
KeepsLedger == Ledger!LedgerSafety
(* and it does leave the queue. *)
EmptiesLedger == Ledger!LedgerSpec
==============================================================================
