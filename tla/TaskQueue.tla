------------------------------ MODULE TaskQueue ------------------------------
(***************************************************************************)
(* An SQS standard queue with a dead-letter queue, as the broker uses it:  *)
(* TaskQueue.send / receive / delete of services/osb/osb/storage.py over   *)
(* the queues of terraform/modules/osb/sqs.tf.  The queue keeps no order.  *)
(* A received message is hidden for the visibility timeout and then comes  *)
(* back; the receive count decides when it is dead-lettered instead.       *)
(* A standard queue may also deliver a message twice for no reason: while  *)
(* it is hidden, which Expired stands for too, or once more after it was   *)
(* deleted, which is left out; a worker that dies before it deletes leads  *)
(* to the same repeated handling.  Message retention (4 days, 14 in the    *)
(* DLQ) is not modelled.                                                   *)
(***************************************************************************)
EXTENDS Naturals, FiniteSets

CONSTANTS Messages,     \* every message that can be sent
          MaxReceive,   \* maxReceiveCount of the redrive policy
          MaxBatch      \* max_messages of one receive call

VARIABLES status,       \* where each message is
          receives      \* how often it was received; also names its newest receipt

queueVars == <<status, receives>>

Statuses == {"unsent", "visible", "inflight", "deleted", "dead"}

QueueTypeOK == /\ status \in [Messages -> Statuses]
               /\ receives \in [Messages -> 0 .. MaxReceive]

QueueInit == /\ status = [m \in Messages |-> "unsent"]
             /\ receives = [m \in Messages |-> 0]

(* The message will still be delivered. *)
Deliverable(m) == status[m] \in {"visible", "inflight"}

(* The message was sent and nobody has acknowledged it. *)
Unacknowledged(m) == status[m] \in {"visible", "inflight", "dead"}

Sent(m) == /\ status[m] = "unsent"
           /\ status' = [status EXCEPT ![m] = "visible"]
           /\ UNCHANGED receives

(* What a receive call may return: mutant without the redrive limit, code. *)
ReceivableForEver(m) == status[m] = "visible"
Receivable(m) == status[m] = "visible" /\ receives[m] < MaxReceive

(* One receive call that returns the messages of batch. *)
Received(batch) ==
    /\ batch # {}
    /\ Cardinality(batch) <= MaxBatch
    /\ \A m \in batch : Receivable(m)
    /\ status' = [m \in Messages |->
                    IF m \in batch THEN "inflight" ELSE status[m]]
    /\ receives' = [m \in Messages |->
                      IF m \in batch THEN receives[m] + 1 ELSE receives[m]]

(* delete_message with a receipt.  A receipt older than the newest one may *)
(* be accepted without deleting anything; what is already dead-lettered    *)
(* is out of reach.                                                        *)
Deleted(m, receipt) ==
    /\ \/ /\ Deliverable(m)
          /\ status' = [status EXCEPT ![m] = "deleted"]
       \/ /\ ~Deliverable(m) \/ receipt # receives[m]
          /\ UNCHANGED status
    /\ UNCHANGED receives

(* The visibility timeout of a received message runs out. *)
Expired(m) == /\ status[m] = "inflight"
              /\ status' = [status EXCEPT ![m] = "visible"]
              /\ UNCHANGED receives

(* A receive call finds a message that was received MaxReceive times;      *)
(* mutant: off by one.                                                     *)
ExhaustedLate(m) == receives[m] > MaxReceive
Exhausted(m) == receives[m] = MaxReceive
Redriven(m) == /\ status[m] = "visible"
               /\ Exhausted(m)
               /\ status' = [status EXCEPT ![m] = "dead"]
               /\ UNCHANGED receives
==============================================================================
