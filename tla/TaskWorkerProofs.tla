--------------------------- MODULE TaskWorkerProofs ---------------------------
(***************************************************************************)
(* The worker loop over its queue keeps the task ledger, for any tasks,    *)
(* handlers, workers, batch sizes and receive limits and any faults.       *)
(***************************************************************************)
EXTENDS TaskWorker, FiniteSetTheorems, TLAPS

(* What the instances of TaskWorker guarantee about its constants. *)
WorkerAssumption == /\ MaxReceive \in Nat
                    /\ "poll" \notin Steps /\ "ack" \notin Steps

(* A worker that is not polling handles a message it holds. *)
BusyOK == \A w \in Workers :
             at[w] # "poll" => job[w] \in Messages /\ held[w][job[w]] > 0

(* Receipts are of deliveries that took place, of messages that were sent. *)
HoldOK == \A w \in Workers, m \in Messages :
             /\ held[w][m] <= receives[m]
             /\ status[m] = "unsent" => receives[m] = 0

(* A worker acknowledges what it handled, and only that gets deleted. *)
AckOK == /\ \A w \in Workers : at[w] = "ack" => handled[job[w]] > 0
         /\ \A m \in Messages : /\ status[m] = "deleted" => handled[m] > 0
                                /\ status[m] = "unsent" => handled[m] = 0

WorkerInv == WorkerTypeOK /\ BusyOK /\ HoldOK /\ AckOK

(* The loop starts in its invariant. *)
LEMMA WorkerInitInv ==
    ASSUME WorkerAssumption, WorkerInit
    PROVE  WorkerInv
  BY DEF WorkerAssumption, WorkerInit, QueueInit, WorkerInv, WorkerTypeOK, QueueTypeOK,
         Statuses, BusyOK, HoldOK, AckOK

(* What one receive call does to the queue and to the worker. *)
LEMMA PollEffect ==
    ASSUME WorkerAssumption, WorkerInv, NEW w \in Workers, Poll(w)
    PROVE  /\ WorkerTypeOK' /\ Idle(w)
           /\ \E batch \in SUBSET Messages :
                /\ Received(batch)
                /\ \A v \in Workers, m \in Messages :
                     held'[v][m] = IF v # w THEN held[v][m]
                                   ELSE IF m \in batch THEN receives'[m] ELSE 0
  <1> USE DEF WorkerAssumption, WorkerInv, WorkerTypeOK, QueueTypeOK
  <1>1. PICK batch \in SUBSET Messages :
           /\ Received(batch)
           /\ held' = [held EXCEPT ![w] = [m \in Messages |->
                         IF m \in batch THEN receives'[m] ELSE 0]]
    BY DEF Poll
  <1>2. QueueTypeOK'
    BY <1>1 DEF Received, Receivable, Statuses
  <1>3. [m \in Messages |-> IF m \in batch THEN receives'[m] ELSE 0]
          \in [Messages -> 0 .. MaxReceive]
    BY <1>2
  <1>4. held' \in [Workers -> [Messages -> 0 .. MaxReceive]]
    BY <1>1, <1>3
  <1>5. WorkerTypeOK' /\ Idle(w)
    BY <1>2, <1>4 DEF Poll
  <1>6. QED
    BY <1>1, <1>5

(* Every step of the loop keeps it. *)
LEMMA WorkerStepInv ==
    ASSUME WorkerAssumption, WorkerInv, [WorkerNext]_taskVars
    PROVE  WorkerInv'
  <1> USE DEF WorkerAssumption, WorkerInv, WorkerTypeOK, QueueTypeOK, BusyOK, HoldOK,
              AckOK, queueVars, workerVars
  <1>1. ASSUME NEW m \in Messages, Send(m) \/ Expire(m) \/ Redrive(m)
        PROVE  WorkerInv'
    BY <1>1 DEF Send, Sent, Expire, Expired, Redrive, Redriven, Statuses
  <1>2. ASSUME NEW w \in Workers, Poll(w)
        PROVE  WorkerInv'
    <2>1. PICK batch \in SUBSET Messages :
             /\ Received(batch)
             /\ \A v \in Workers, m \in Messages :
                  held'[v][m] = IF v # w THEN held[v][m]
                                ELSE IF m \in batch THEN receives'[m] ELSE 0
      BY <1>2, PollEffect
    <2>2. WorkerTypeOK' /\ at[w] = "poll"
      BY <1>2, PollEffect DEF Idle
    <2>3. \A m \in Messages :
             /\ receives[m] <= receives'[m]
             /\ status'[m] = "unsent" => status[m] = "unsent" /\ receives'[m] = receives[m]
             /\ status'[m] = "deleted" => status[m] = "deleted"
      BY <2>1 DEF Received, Receivable
    <2>4. BusyOK' /\ AckOK'
      BY <1>2, <2>1, <2>2, <2>3 DEF Poll
    <2>5. HoldOK'
      <3> SUFFICES ASSUME NEW v \in Workers, NEW m \in Messages
                   PROVE  /\ held'[v][m] <= receives'[m]
                          /\ status'[m] = "unsent" => receives'[m] = 0
        OBVIOUS
      <3>1. /\ receives[m] \in Nat /\ receives'[m] \in Nat /\ held[v][m] \in Nat
        BY <2>2
      <3> QED BY <2>1, <2>3, <3>1
    <2> QED BY <2>2, <2>4, <2>5
  <1>3. ASSUME NEW w \in Workers, NEW m \in Messages, NEW step \in Steps, Take(w, m, step)
        PROVE  WorkerInv'
    BY <1>3 DEF Take
  <1>4. ASSUME NEW w \in Workers, NEW from \in Steps, NEW to \in Steps, Advance(w, from, to)
        PROVE  WorkerInv'
    BY <1>4 DEF Advance
  <1>5. ASSUME NEW w \in Workers, NEW from \in Steps, Finish(w, from)
        PROVE  WorkerInv'
    <2>1. /\ job[w] \in Messages /\ held[w][job[w]] \in Nat /\ receives[job[w]] \in Nat
          /\ handled[job[w]] \in Nat
      BY <1>5 DEF Finish
    <2>2. status[job[w]] # "unsent"
      BY <1>5, <2>1 DEF Finish
    <2>3. /\ handled' \in [Messages -> Nat] /\ handled'[job[w]] > 0
          /\ \A m \in Messages : handled[m] > 0 => handled'[m] > 0
          /\ \A m \in Messages : m # job[w] => handled'[m] = handled[m]
      BY <1>5, <2>1 DEF Finish
    <2>4. WorkerTypeOK' /\ BusyOK' /\ HoldOK'
      BY <1>5, <2>3 DEF Finish
    <2>5. AckOK'
      BY <1>5, <2>1, <2>2, <2>3 DEF Finish
    <2> QED BY <2>4, <2>5
  <1>6. ASSUME NEW w \in Workers, Ack(w) \/ Fail(w)
        PROVE  WorkerInv'
    <2>1. /\ job[w] \in Messages /\ held[w][job[w]] \in Nat /\ held[w][job[w]] > 0
          /\ receives[job[w]] \in Nat
      BY <1>6 DEF Ack, Fail
    <2>2. /\ held' = [held EXCEPT ![w] = [held[w] EXCEPT ![job[w]] = 0]]
          /\ at' = [at EXCEPT ![w] = "poll"] /\ job' = [job EXCEPT ![w] = NoMessage]
          /\ UNCHANGED <<receives, stopping, handled>>
          /\ \/ status' = status
             \/ status' = [status EXCEPT ![job[w]] = "deleted"] /\ at[w] = "ack"
      BY <1>6 DEF Ack, Fail, Drop, Deleted, LeftForRedrive
    <2>3. WorkerTypeOK'
      BY <2>1, <2>2 DEF Statuses
    <2>4. BusyOK'
      BY <2>1, <2>2
    <2>5. HoldOK'
      BY <2>1, <2>2
    <2>6. AckOK'
      BY <2>1, <2>2
    <2> QED BY <2>3, <2>4, <2>5, <2>6
  <1>7. ASSUME NEW w \in Workers, Crash(w) \/ RequestStop(w) \/ Restart(w)
        PROVE  WorkerInv'
    <2>1. CASE Crash(w)
      <3>1. [m \in Messages |-> 0] \in [Messages -> 0 .. MaxReceive]
        OBVIOUS
      <3> QED BY <2>1, <3>1 DEF Crash
    <2>2. CASE RequestStop(w)
      BY <2>2 DEF RequestStop
    <2>3. CASE Restart(w)
      BY <2>3 DEF Restart
    <2> QED BY <1>7, <2>1, <2>2, <2>3
  <1>8. CASE UNCHANGED taskVars
    BY <1>8 DEF taskVars
  <1>9. QED
    BY <1>1, <1>2, <1>3, <1>4, <1>5, <1>6, <1>7, <1>8 DEF WorkerNext

(* It holds in every reachable state. *)
LEMMA WorkerInvariance == ASSUME WorkerAssumption PROVE WorkerSpec => []WorkerInv
  <1>1. WorkerInit => WorkerInv
    BY WorkerInitInv
  <1>2. WorkerInv /\ [WorkerNext]_taskVars => WorkerInv'
    BY WorkerStepInv
  <1>3. QED
    BY <1>1, <1>2, PTL DEF WorkerSpec

(* Every handling to the end needs a delivery of its own: workers that may *)
(* still bring a message to the end hold receipts that were not used.      *)
Owing(m) == {w \in Workers : held[w][m] > 0 /\ ~(at[w] = "ack" /\ job[w] = m)}
CountOK == \A m \in Messages : handled[m] + Cardinality(Owing(m)) <= receives[m]

(* Nobody owes anything at the start. *)
LEMMA CountInit == ASSUME WorkerAssumption, WorkerInit PROVE CountOK
  <1> SUFFICES ASSUME NEW m \in Messages
               PROVE  handled[m] + Cardinality(Owing(m)) <= receives[m]
    BY DEF CountOK
  <1>1. Owing(m) = {} /\ handled[m] = 0 /\ receives[m] = 0
    BY DEF WorkerInit, QueueInit, Owing
  <1> QED BY <1>1, FS_EmptySet

(* A message is not handled, and nobody new holds it. *)
LEMMA CountKept ==
    ASSUME IsFiniteSet(Workers), WorkerTypeOK, WorkerTypeOK', CountOK, NEW m \in Messages,
           Owing(m)' \subseteq Owing(m), handled'[m] = handled[m], receives[m] <= receives'[m]
    PROVE  handled'[m] + Cardinality(Owing(m)') <= receives'[m]
  <1>1. IsFiniteSet(Owing(m))
    BY FS_Subset DEF Owing
  <1>2. /\ Cardinality(Owing(m)') <= Cardinality(Owing(m))
        /\ Cardinality(Owing(m)') \in Nat /\ Cardinality(Owing(m)) \in Nat
    BY <1>1, FS_Subset, FS_CardinalityType
  <1>3. /\ handled[m] \in Nat /\ receives[m] \in Nat /\ receives'[m] \in Nat
        /\ handled[m] + Cardinality(Owing(m)) <= receives[m]
    BY DEF WorkerTypeOK, QueueTypeOK, CountOK
  <1> QED BY <1>2, <1>3

(* A worker receives it. *)
LEMMA CountReceived ==
    ASSUME IsFiniteSet(Workers), WorkerTypeOK, WorkerTypeOK', CountOK, NEW m \in Messages,
           NEW w \in Workers, Owing(m)' \subseteq Owing(m) \cup {w},
           handled'[m] = handled[m], receives'[m] = receives[m] + 1
    PROVE  handled'[m] + Cardinality(Owing(m)') <= receives'[m]
  <1>1. IsFiniteSet(Owing(m))
    BY FS_Subset DEF Owing
  <1>2. /\ IsFiniteSet(Owing(m) \cup {w})
        /\ Cardinality(Owing(m) \cup {w}) <= Cardinality(Owing(m)) + 1
    <2>1. Cardinality(Owing(m)) \in Nat
      BY <1>1, FS_CardinalityType
    <2>2. /\ IsFiniteSet(Owing(m) \cup {w})
          /\ Cardinality(Owing(m) \cup {w}) =
               IF w \in Owing(m) THEN Cardinality(Owing(m)) ELSE Cardinality(Owing(m)) + 1
      BY <1>1, FS_AddElement, Zenon
    <2> HIDE DEF Owing
    <2>3. CASE w \in Owing(m)
      BY <2>1, <2>2, <2>3
    <2>4. CASE w \notin Owing(m)
      BY <2>1, <2>2, <2>4
    <2> QED BY <2>3, <2>4
  <1>3. /\ Cardinality(Owing(m)') <= Cardinality(Owing(m) \cup {w})
        /\ Cardinality(Owing(m)') \in Nat /\ Cardinality(Owing(m)) \in Nat
        /\ Cardinality(Owing(m) \cup {w}) \in Nat
    BY <1>1, <1>2, FS_Subset, FS_CardinalityType
  <1>4. /\ handled[m] \in Nat /\ receives[m] \in Nat
        /\ handled[m] + Cardinality(Owing(m)) <= receives[m]
    BY DEF WorkerTypeOK, QueueTypeOK, CountOK
  <1> QED BY <1>2, <1>3, <1>4

(* A worker that owed it handles it to the end. *)
LEMMA CountHandled ==
    ASSUME IsFiniteSet(Workers), WorkerTypeOK, CountOK, NEW m \in Messages,
           NEW w \in Owing(m), Owing(m)' \subseteq Owing(m) \ {w},
           handled'[m] = handled[m] + 1, receives'[m] = receives[m]
    PROVE  handled'[m] + Cardinality(Owing(m)') <= receives'[m]
  <1>1. IsFiniteSet(Owing(m))
    BY FS_Subset DEF Owing
  <1>2. /\ IsFiniteSet(Owing(m) \ {w})
        /\ Cardinality(Owing(m) \ {w}) = Cardinality(Owing(m)) - 1
    BY <1>1, FS_RemoveElement
  <1>3. /\ Cardinality(Owing(m)') <= Cardinality(Owing(m) \ {w})
        /\ Cardinality(Owing(m)') \in Nat /\ Cardinality(Owing(m)) \in Nat
    BY <1>1, <1>2, FS_Subset, FS_CardinalityType
  <1>4. /\ handled[m] \in Nat /\ receives[m] \in Nat
        /\ handled[m] + Cardinality(Owing(m)) <= receives[m]
    BY DEF WorkerTypeOK, QueueTypeOK, CountOK
  <1> QED BY <1>2, <1>3, <1>4

(* Every step of the loop keeps the count. *)
LEMMA CountStep ==
    ASSUME WorkerAssumption, IsFiniteSet(Workers), WorkerInv, CountOK, [WorkerNext]_taskVars
    PROVE  CountOK'
  <1> SUFFICES ASSUME NEW m \in Messages
               PROVE  handled'[m] + Cardinality(Owing(m)') <= receives'[m]
    BY DEF CountOK
  <1>a. WorkerTypeOK /\ WorkerTypeOK'
    BY WorkerStepInv DEF WorkerInv
  <1>b. receives[m] \in Nat /\ receives[m] <= receives[m]
    BY <1>a, WorkerAssumption DEF WorkerTypeOK, QueueTypeOK, WorkerAssumption
  <1>1. ASSUME UNCHANGED <<at, job, held, receives, handled>>
        PROVE  handled'[m] + Cardinality(Owing(m)') <= receives'[m]
    <2>1. Owing(m)' = Owing(m)
      BY <1>1 DEF Owing
    <2> QED BY <1>1, <1>a, <1>b, <2>1, CountKept
  <1>2. ASSUME NEW x \in Messages, Send(x) \/ Expire(x) \/ Redrive(x)
        PROVE  handled'[m] + Cardinality(Owing(m)') <= receives'[m]
    BY <1>1, <1>2 DEF Send, Sent, Expire, Expired, Redrive, Redriven, workerVars
  <1>3. ASSUME NEW w \in Workers, Poll(w)
        PROVE  handled'[m] + Cardinality(Owing(m)') <= receives'[m]
    <2>1. PICK batch \in SUBSET Messages :
             /\ Received(batch)
             /\ \A v \in Workers, x \in Messages :
                  held'[v][x] = IF v # w THEN held[v][x]
                                ELSE IF x \in batch THEN receives'[x] ELSE 0
      BY <1>3, PollEffect
    <2>2. UNCHANGED <<at, job, handled>>
      BY <1>3 DEF Poll
    <2>3. CASE m \in batch
      <3>1. Owing(m)' \subseteq Owing(m) \cup {w}
        BY <2>1, <2>2 DEF Owing
      <3>2. receives'[m] = receives[m] + 1
        BY <2>1, <2>3 DEF Received
      <3> QED BY <1>a, <2>2, <3>1, <3>2, CountReceived
    <2>4. CASE m \notin batch
      <3>1. Owing(m)' \subseteq Owing(m)
        BY <2>1, <2>2, <2>4 DEF Owing
      <3>2. receives'[m] = receives[m]
        BY <2>1, <2>4 DEF Received
      <3> QED BY <1>a, <1>b, <2>2, <3>1, <3>2, CountKept
    <2> QED BY <2>3, <2>4
  <1>4. ASSUME NEW w \in Workers,
               Ack(w) \/ Fail(w) \/ Crash(w) \/ RequestStop(w) \/ Restart(w)
        PROVE  handled'[m] + Cardinality(Owing(m)') <= receives'[m]
    <2>1. UNCHANGED <<handled, receives>>
      BY <1>4 DEF Ack, Deleted, Fail, LeftForRedrive, Crash, RequestStop, Restart, queueVars
    <2> SUFFICES Owing(m)' \subseteq Owing(m)
      BY <1>a, <1>b, <2>1, CountKept
    <2>2. \A v \in Workers : v # w => /\ held'[v] = held[v]
                                      /\ at'[v] = at[v] /\ job'[v] = job[v]
      BY <1>4, <1>a DEF Ack, Fail, Drop, Crash, RequestStop, Restart, WorkerTypeOK
    <2>3. CASE Ack(w) \/ Fail(w)
      <3>1. at[w] # "poll" /\ job[w] \in Messages
        BY <2>3, WorkerAssumption DEF Ack, Fail, WorkerAssumption, WorkerInv, BusyOK
      <3>2. held'[w][m] = IF m = job[w] THEN 0 ELSE held[w][m]
        BY <2>3, <3>1, <1>a DEF Ack, Fail, Drop, WorkerTypeOK
      <3> QED BY <2>2, <3>2 DEF Owing
    <2>4. CASE Crash(w)
      <3>1. held'[w][m] = 0
        BY <2>4, <1>a DEF Crash, WorkerTypeOK
      <3> QED BY <2>2, <3>1 DEF Owing
    <2>5. CASE RequestStop(w) \/ Restart(w)
      BY <2>5 DEF RequestStop, Restart, Owing
    <2> QED BY <1>4, <2>3, <2>4, <2>5
  <1>5. ASSUME NEW w \in Workers, NEW x \in Messages, NEW step \in Steps, Take(w, x, step)
        PROVE  handled'[m] + Cardinality(Owing(m)') <= receives'[m]
    <2>1. UNCHANGED <<handled, receives>>
      BY <1>5 DEF Take, queueVars
    <2>2. Owing(m)' \subseteq Owing(m)
      BY <1>5, <1>a, WorkerAssumption DEF Take, Owing, WorkerTypeOK, WorkerAssumption
    <2> QED BY <1>a, <1>b, <2>1, <2>2, CountKept
  <1>6. ASSUME NEW w \in Workers, NEW from \in Steps, Finish(w, from)
        PROVE  handled'[m] + Cardinality(Owing(m)') <= receives'[m]
    <2>1. /\ at[w] = from /\ from # "poll" /\ from # "ack"
          /\ job[w] \in Messages /\ held[w][job[w]] > 0
      BY <1>6, WorkerAssumption DEF Finish, WorkerAssumption, WorkerInv, BusyOK
    <2>2. /\ UNCHANGED <<receives, job, held>>
          /\ \A v \in Workers : at'[v] = IF v = w THEN "ack" ELSE at[v]
          /\ handled'[m] = IF m = job[w] THEN handled[m] + 1 ELSE handled[m]
      BY <1>6, <1>a DEF Finish, queueVars, WorkerTypeOK
    <2>3. CASE m = job[w]
      <3>1. w \in Owing(m) /\ Owing(m)' \subseteq Owing(m) \ {w}
        BY <2>1, <2>2, <2>3 DEF Owing
      <3> QED BY <1>a, <2>2, <2>3, <3>1, CountHandled
    <2>4. CASE m # job[w]
      <3>1. Owing(m)' \subseteq Owing(m)
        BY <2>1, <2>2, <2>4 DEF Owing
      <3> QED BY <1>a, <1>b, <2>2, <2>4, <3>1, CountKept
    <2> QED BY <2>3, <2>4
  <1>7. ASSUME NEW w \in Workers, NEW from \in Steps, NEW to \in Steps, Advance(w, from, to)
        PROVE  handled'[m] + Cardinality(Owing(m)') <= receives'[m]
    <2>1. UNCHANGED <<handled, receives>>
      BY <1>7 DEF Advance, queueVars
    <2>2. Owing(m)' \subseteq Owing(m)
      BY <1>7, <1>a, WorkerAssumption DEF Advance, Owing, WorkerTypeOK, WorkerAssumption
    <2> QED BY <1>a, <1>b, <2>1, <2>2, CountKept
  <1>8. CASE UNCHANGED taskVars
    BY <1>1, <1>8 DEF taskVars, workerVars, queueVars
  <1> QED
    BY <1>2, <1>3, <1>4, <1>5, <1>6, <1>7, <1>8 DEF WorkerNext

(* A message that is being handled was handled fewer times than received.  *)
LEMMA HandledLess ==
    ASSUME WorkerAssumption, IsFiniteSet(Workers), WorkerInv, CountOK,
           NEW w \in Workers, at[w] \in Steps
    PROVE  handled[job[w]] < receives[job[w]]
  <1>1. job[w] \in Messages /\ w \in Owing(job[w])
    BY WorkerAssumption DEF WorkerAssumption, WorkerInv, BusyOK, Owing
  <1>2. IsFiniteSet(Owing(job[w]))
    BY FS_Subset DEF Owing
  <1>3. Cardinality(Owing(job[w])) \in Nat /\ Cardinality(Owing(job[w])) # 0
    BY <1>1, <1>2, FS_CardinalityType, FS_EmptySet
  <1>4. handled[job[w]] \in Nat /\ receives[job[w]] \in Nat
        /\ handled[job[w]] + Cardinality(Owing(job[w])) <= receives[job[w]]
    BY <1>1, WorkerAssumption DEF CountOK, WorkerInv, WorkerTypeOK, QueueTypeOK, WorkerAssumption
  <1> QED BY <1>3, <1>4

------------------------------------------------------------------------------
(* What redelivery is for: as long as no worker crashes and no batch       *)
(* outlives its visibility timeout, a task is handled to the end once.     *)
Steady == "crash" \notin Faults /\ "overrun" \notin Faults

(* One worker holds a message, with its newest receipt. *)
SoleOK ==
    \A w \in Workers, m \in Messages :
        held[w][m] > 0 => /\ status[m] = "inflight" /\ held[w][m] = receives[m]
                          /\ \A v \in Workers : held[v][m] > 0 => v = w

(* A message that was handled is not handled again: it is deleted, dead or *)
(* about to be acknowledged.                                               *)
OnceOK ==
    \A m \in Messages :
        /\ handled[m] <= 1
        /\ status[m] \in {"visible", "inflight"} =>
              handled[m] = 0 \/ \E w \in Workers : at[w] = "ack" /\ job[w] = m

HandledOnce == \A m \in Messages : handled[m] <= 1

(* Nobody holds anything at the start. *)
LEMMA SoleInit == ASSUME WorkerInit PROVE SoleOK /\ OnceOK
  BY DEF WorkerInit, QueueInit, SoleOK, OnceOK

(* A batch is received by a worker that held nothing, of messages nobody   *)
(* held.                                                                   *)
LEMMA SolePoll ==
    ASSUME WorkerAssumption, WorkerInv, SoleOK, OnceOK, NEW w \in Workers, Poll(w)
    PROVE  SoleOK' /\ OnceOK'
  <1>1. PICK batch \in SUBSET Messages :
           /\ Received(batch)
           /\ \A v \in Workers, m \in Messages :
                held'[v][m] = IF v # w THEN held[v][m]
                              ELSE IF m \in batch THEN receives'[m] ELSE 0
    BY PollEffect
  <1>2. /\ UNCHANGED <<at, job, handled>>
        /\ \A m \in batch : status[m] = "visible" /\ status'[m] = "inflight"
        /\ \A m \in Messages \ batch : status'[m] = status[m] /\ receives'[m] = receives[m]
    BY <1>1 DEF Poll, Received, Receivable
  <1>3. SoleOK'
    <2> SUFFICES ASSUME NEW v \in Workers, NEW m \in Messages, held'[v][m] > 0
                 PROVE  /\ status'[m] = "inflight" /\ held'[v][m] = receives'[m]
                        /\ \A u \in Workers : held'[u][m] > 0 => u = v
      BY DEF SoleOK
    <2>1. CASE m \in batch
      <3>1. \A u \in Workers : ~(held[u][m] > 0)
        BY <1>2, <2>1 DEF SoleOK
      <3>2. \A u \in Workers : held'[u][m] > 0 => u = w
        BY <1>1, <3>1
      <3> QED BY <1>1, <1>2, <2>1, <3>2
    <2>2. CASE m \notin batch
      <3>1. \A u \in Workers : held'[u][m] > 0 => u # w /\ held'[u][m] = held[u][m]
        BY <1>1, <2>2
      <3> QED BY <1>2, <2>2, <3>1 DEF SoleOK
    <2> QED BY <2>1, <2>2
  <1>4. OnceOK'
    BY <1>2 DEF OnceOK
  <1> QED BY <1>3, <1>4

(* A worker drops the message it is at: deleted, with the newest receipt,  *)
(* or left for its next delivery.                                          *)
LEMMA SoleDrop ==
    ASSUME WorkerAssumption, WorkerInv, SoleOK, OnceOK, NEW w \in Workers, Ack(w) \/ Fail(w)
    PROVE  SoleOK' /\ OnceOK'
  <1>1. /\ job[w] \in Messages /\ held[w][job[w]] > 0
        /\ status[job[w]] = "inflight" /\ held[w][job[w]] = receives[job[w]]
    <2>1. at[w] # "poll"
      BY DEF Ack, Fail, WorkerAssumption
    <2> QED BY <2>1 DEF WorkerInv, BusyOK, SoleOK
  <1>2. /\ \A m \in Messages : m # job[w] => status'[m] = status[m]
        /\ status'[job[w]] = IF at[w] = "ack" THEN "deleted" ELSE "inflight"
        /\ UNCHANGED <<receives, handled>>
    <2>1. CASE Ack(w)
      BY <1>1, <2>1 DEF Ack, Deleted, Deliverable, WorkerInv, WorkerTypeOK, QueueTypeOK
    <2>2. CASE Fail(w)
      BY <1>1, <2>2 DEF Fail, LeftForRedrive, queueVars, WorkerAssumption
    <2> QED BY <2>1, <2>2
  <1>3. /\ \A v \in Workers : v # w => at'[v] = at[v] /\ job'[v] = job[v] /\ held'[v] = held[v]
        /\ \A m \in Messages : held'[w][m] = IF m = job[w] THEN 0 ELSE held[w][m]
    BY <1>1 DEF Ack, Fail, Drop, WorkerInv, WorkerTypeOK
  <1>4. SoleOK'
    <2>1. \A v \in Workers, m \in Messages :
             held'[v][m] > 0 => held[v][m] > 0 /\ held'[v][m] = held[v][m] /\ ~(v = w /\ m = job[w])
      BY <1>3
    <2>2. \A v \in Workers, m \in Messages : held'[v][m] > 0 => m # job[w]
      BY <1>1, <2>1 DEF SoleOK
    <2> QED BY <1>2, <2>1, <2>2 DEF SoleOK
  <1>5. OnceOK'
    <2> SUFFICES ASSUME NEW m \in Messages
                 PROVE  /\ handled[m] <= 1
                        /\ status'[m] \in {"visible", "inflight"} =>
                              \/ handled[m] = 0
                              \/ \E v \in Workers : at'[v] = "ack" /\ job'[v] = m
      BY <1>2 DEF OnceOK
    <2>1. status'[m] \in {"visible", "inflight"} =>
             status[m] \in {"visible", "inflight"} /\ ~(at[w] = "ack" /\ job[w] = m)
      BY <1>1, <1>2
    <2> QED BY <1>3, <2>1 DEF OnceOK
  <1> QED BY <1>4, <1>5

(* The handler of a message that nobody else holds returns. *)
LEMMA SoleFinish ==
    ASSUME WorkerAssumption, WorkerInv, SoleOK, OnceOK,
           NEW w \in Workers, NEW from \in Steps, Finish(w, from)
    PROVE  handled[job[w]] = 0 /\ SoleOK' /\ OnceOK'
  <1>1. at[w] # "ack" /\ job[w] \in Messages /\ held[w][job[w]] > 0 /\ status[job[w]] = "inflight"
    BY DEF Finish, WorkerAssumption, WorkerInv, BusyOK, SoleOK
  <1>2. \A v \in Workers : at[v] = "ack" => job[v] # job[w]
    BY <1>1 DEF WorkerAssumption, WorkerInv, BusyOK, SoleOK
  <1>3. handled[job[w]] = 0
    BY <1>1, <1>2 DEF OnceOK
  <1>4. /\ UNCHANGED <<status, receives, job, held>> /\ at'[w] = "ack"
        /\ \A v \in Workers : v # w => at'[v] = at[v]
        /\ \A m \in Messages : handled'[m] = IF m = job[w] THEN 1 ELSE handled[m]
    BY <1>3 DEF Finish, queueVars, WorkerInv, WorkerTypeOK
  <1>5. SoleOK'
    BY <1>4 DEF SoleOK
  <1>6. OnceOK'
    <2>1. \A v \in Workers : at[v] = "ack" => at'[v] = "ack"
      BY <1>1, <1>4
    <2> QED BY <1>4, <2>1 DEF OnceOK
  <1> QED BY <1>3, <1>5, <1>6

(* Every step keeps it. *)
LEMMA SoleStep ==
    ASSUME WorkerAssumption, Steady, WorkerInv, SoleOK, OnceOK, [WorkerNext]_taskVars
    PROVE  SoleOK' /\ OnceOK'
  <1>1. CASE UNCHANGED taskVars
    BY <1>1 DEF taskVars, queueVars, workerVars, SoleOK, OnceOK
  <1>2. ASSUME NEW m \in Messages, Send(m) \/ Expire(m) \/ Redrive(m)
        PROVE  SoleOK' /\ OnceOK'
    <2>1. /\ UNCHANGED <<receives, at, job, held, handled>>
          /\ \A x \in Messages : x # m => status'[x] = status[x]
          /\ status'[m] \in {"visible", "dead"}
          /\ status'[m] = "visible" =>
                \/ status[m] \in {"visible", "inflight"}
                \/ handled[m] = 0
      BY <1>2 DEF Send, Sent, Expire, Expired, Redrive, Redriven, workerVars,
         WorkerInv, WorkerTypeOK, QueueTypeOK, AckOK
    <2>2. \A w \in Workers : ~(held[w][m] > 0)
      BY <1>2 DEF Send, Sent, Expire, Redrive, Redriven, Steady, SoleOK
    <2>3. SoleOK'
      BY <2>1, <2>2 DEF SoleOK
    <2>4. OnceOK'
      BY <2>1 DEF OnceOK
    <2> QED BY <2>3, <2>4
  <1>3. ASSUME NEW w \in Workers, RequestStop(w) \/ Restart(w)
        PROVE  SoleOK' /\ OnceOK'
    BY <1>3 DEF RequestStop, Restart, queueVars, SoleOK, OnceOK
  <1>4. ASSUME NEW w \in Workers, NEW from \in Steps \cup {"poll"}, NEW to \in Steps, at[w] = from,
               at' = [at EXCEPT ![w] = to], \A v \in Workers : v # w => job'[v] = job[v],
               UNCHANGED <<status, receives, held, handled>>
        PROVE  SoleOK' /\ OnceOK'
    <2>1. SoleOK'
      BY <1>4 DEF SoleOK
    <2>2. \A v \in Workers : at[v] = "ack" => v # w /\ at'[v] = "ack" /\ job'[v] = job[v]
      BY <1>4 DEF WorkerAssumption, WorkerInv, WorkerTypeOK
    <2>3. OnceOK'
      BY <1>4, <2>2 DEF OnceOK
    <2> QED BY <2>1, <2>3
  <1>5. ASSUME NEW w \in Workers, NEW m \in Messages, NEW step \in Steps, Take(w, m, step)
        PROVE  SoleOK' /\ OnceOK'
    BY <1>4, <1>5 DEF Take, queueVars, WorkerInv, WorkerTypeOK
  <1>6. ASSUME NEW w \in Workers, NEW from \in Steps, NEW to \in Steps, Advance(w, from, to)
        PROVE  SoleOK' /\ OnceOK'
    BY <1>4, <1>6 DEF Advance, queueVars
  <1>7. ASSUME NEW w \in Workers PROVE ~Crash(w)
    BY DEF Steady, Crash
  <1> QED BY <1>1, <1>2, <1>3, <1>5, <1>6, <1>7, SolePoll, SoleDrop, SoleFinish DEF WorkerNext

(* A message is handled to the end at most once, however often handlers    *)
(* fail and workers are stopped: apart from a message that SQS repeats     *)
(* after it was deleted, which TaskQueue leaves out, only a crash or a     *)
(* delivery of a message that is held makes the loop repeat what it has    *)
(* done (worker/main.py:61-91).                                            *)
THEOREM SteadyHandlesOnce ==
    ASSUME WorkerAssumption, Steady PROVE WorkerSpec => []HandledOnce
  <1>1. WorkerInit => WorkerInv /\ SoleOK /\ OnceOK
    BY WorkerInitInv, SoleInit
  <1>2. /\ WorkerInv /\ SoleOK /\ OnceOK
        /\ [WorkerNext]_taskVars
        => (WorkerInv /\ SoleOK /\ OnceOK)'
    BY WorkerStepInv, SoleStep
  <1>3. OnceOK => HandledOnce
    BY DEF OnceOK, HandledOnce
  <1> QED BY <1>1, <1>2, <1>3, PTL DEF WorkerSpec

------------------------------------------------------------------------------
(* The refinement: a step of the loop is a step of the ledger or none. *)

(* The entry of a message follows its status. *)
LEMMA Entries ==
    /\ EntryOf("unsent") = "none" /\ EntryOf("deleted") = "settled"
    /\ EntryOf("dead") = "dead"
    /\ EntryOf("visible") = "queued" /\ EntryOf("inflight") = "queued"
  BY DEF EntryOf

(* When one status changes, one entry does. *)
LEMMA EntryMoves ==
    ASSUME WorkerTypeOK, NEW m \in Messages, NEW s,
           status' = [status EXCEPT ![m] = s]
    PROVE  [x \in Messages |-> EntryOf(status'[x])]
             = [[x \in Messages |-> EntryOf(status[x])] EXCEPT ![m] = EntryOf(s)]
  <1>1. status'[m] = s /\ \A x \in Messages \ {m} : status'[x] = status[x]
    BY DEF WorkerTypeOK, QueueTypeOK
  <1>2. \A x \in Messages :
           EntryOf(status'[x]) = IF x = m THEN EntryOf(s) ELSE EntryOf(status[x])
    BY <1>1
  <1>3. QED
    BY <1>2

(* A step of the loop is a step of the ledger, or none. *)
LEMMA LedgerStep ==
    ASSUME WorkerAssumption, WorkerInv, WorkerNext
    PROVE  Ledger!LedgerNext \/ UNCHANGED Ledger!ledger
  <1> USE DEF WorkerAssumption, WorkerInv, WorkerTypeOK, QueueTypeOK, BusyOK, HoldOK,
              AckOK, queueVars, workerVars
  <1>1. ASSUME UNCHANGED <<status, receives, handled>>
        PROVE  UNCHANGED Ledger!ledger
    BY <1>1 DEF Ledger!ledger
  <1>2. ASSUME NEW m \in Messages, Send(m)
        PROVE  Ledger!Post(m)
    <2>1. /\ status[m] = "unsent" /\ status' = [status EXCEPT ![m] = "visible"]
          /\ UNCHANGED <<receives, handled>>
      BY <1>2 DEF Send, Sent
    <2>2. [x \in Messages |-> EntryOf(status'[x])]
            = [[x \in Messages |-> EntryOf(status[x])] EXCEPT ![m] = "queued"]
      BY <2>1, EntryMoves, Entries
    <2> QED BY <2>1, <2>2, Entries DEF Ledger!Post
  <1>3. ASSUME NEW m \in Messages, Expire(m)
        PROVE  UNCHANGED Ledger!ledger
    <2>1. /\ status[m] = "inflight" /\ status' = [status EXCEPT ![m] = "visible"]
          /\ UNCHANGED <<receives, handled>>
      BY <1>3 DEF Expire, Expired
    <2>2. \A x \in Messages : EntryOf(status'[x]) = EntryOf(status[x])
      BY <2>1, Entries
    <2> QED BY <2>1, <2>2 DEF Ledger!ledger
  <1>4. ASSUME NEW m \in Messages, Redrive(m)
        PROVE  Ledger!Bury(m)
    <2>1. /\ status[m] = "visible" /\ status' = [status EXCEPT ![m] = "dead"]
          /\ receives[m] = MaxReceive
          /\ UNCHANGED <<receives, handled>>
      BY <1>4 DEF Redrive, Redriven, Exhausted
    <2>2. [x \in Messages |-> EntryOf(status'[x])]
            = [[x \in Messages |-> EntryOf(status[x])] EXCEPT ![m] = "dead"]
      BY <2>1, EntryMoves, Entries
    <2> QED BY <2>1, <2>2, Entries DEF Ledger!Bury
  <1>5. ASSUME NEW w \in Workers, Poll(w)
        PROVE  \E batch \in SUBSET Messages : Ledger!Try(batch)
    <2>1. PICK batch \in SUBSET Messages : Received(batch) /\ handled' = handled
      BY <1>5 DEF Poll
    <2>2. /\ \A m \in batch : EntryOf(status[m]) = "queued" /\ receives[m] < MaxReceive
          /\ \A m \in Messages : EntryOf(status'[m]) = EntryOf(status[m])
          /\ receives' = [m \in Messages |->
                            IF m \in batch THEN receives[m] + 1 ELSE receives[m]]
      BY <2>1, Entries DEF Received, Receivable
    <2>3. Ledger!Try(batch)
      BY <2>1, <2>2 DEF Ledger!Try
    <2> QED BY <2>3
  <1>6. ASSUME NEW w \in Workers, NEW from \in Steps, Finish(w, from)
        PROVE  Ledger!Apply(job[w])
    <2>1. /\ job[w] \in Messages /\ held[w][job[w]] \in Nat /\ held[w][job[w]] > 0
          /\ receives[job[w]] \in Nat /\ held[w][job[w]] <= receives[job[w]]
          /\ handled[job[w]] \in Nat
      BY <1>6 DEF Finish
    <2>2. receives[job[w]] > 0
      BY <2>1
    <2>3. /\ UNCHANGED <<status, receives>>
          /\ handled' = [handled EXCEPT ![job[w]] = handled[job[w]] + 1]
      BY <1>6 DEF Finish
    <2>4. {m \in Messages : handled'[m] > 0}
            = {m \in Messages : handled[m] > 0} \cup {job[w]}
      BY <2>1, <2>3
    <2> QED BY <2>2, <2>3, <2>4 DEF Ledger!Apply
  <1>7. ASSUME NEW w \in Workers, Ack(w)
        PROVE  Ledger!Settle(job[w]) \/ UNCHANGED Ledger!ledger
    <2>1. job[w] \in Messages /\ handled[job[w]] > 0
      BY <1>7 DEF Ack
    <2>2. CASE UNCHANGED status
      BY <1>7, <2>2, <1>1 DEF Ack, Deleted
    <2>3. CASE Deliverable(job[w]) /\ status' = [status EXCEPT ![job[w]] = "deleted"]
      <3>1. [x \in Messages |-> EntryOf(status'[x])]
              = [[x \in Messages |-> EntryOf(status[x])] EXCEPT ![job[w]] = "settled"]
        BY <2>1, <2>3, EntryMoves, Entries
      <3>2. EntryOf(status[job[w]]) = "queued" /\ UNCHANGED <<receives, handled>>
        BY <1>7, <2>3, Entries DEF Ack, Deleted, Deliverable
      <3> QED BY <2>1, <3>1, <3>2 DEF Ledger!Settle
    <2> QED BY <1>7, <2>2, <2>3 DEF Ack, Deleted
  <1>8. ASSUME NEW w \in Workers,
               Fail(w) \/ Crash(w) \/ RequestStop(w) \/ Restart(w)
        PROVE  UNCHANGED <<status, receives, handled>>
    BY <1>8 DEF Fail, LeftForRedrive, Crash, RequestStop, Restart
  <1>9. CASE \E m \in Messages : Send(m) \/ Expire(m) \/ Redrive(m)
    BY <1>9, <1>2, <1>3, <1>4 DEF Ledger!LedgerNext
  <1>10. ASSUME NEW w \in Workers,
                \/ Poll(w) \/ Ack(w) \/ Fail(w) \/ Crash(w) \/ RequestStop(w) \/ Restart(w)
                \/ \E m \in Messages, step \in Steps : Take(w, m, step)
                \/ \E from \in Steps :
                      Finish(w, from) \/ \E to \in Steps : Advance(w, from, to)
         PROVE  Ledger!LedgerNext \/ UNCHANGED Ledger!ledger
    <2>1. job[w] \in Messages \/ at[w] = "poll"
      BY <1>10
    <2> HIDE DEF WorkerInv, WorkerAssumption
    <2>2. CASE Poll(w)
      BY <2>2, <1>5 DEF Ledger!LedgerNext
    <2>3. CASE Ack(w)
      BY <2>1, <2>3, <1>7 DEF Ack, Ledger!LedgerNext
    <2>4. CASE \E from \in Steps : Finish(w, from)
      <3>1. PICK from \in Steps : Finish(w, from)
        BY <2>4
      <3>2. at[w] # "poll"
        BY <3>1 DEF Finish, WorkerAssumption
      <3>3. Ledger!Apply(job[w])
        BY <3>1, <1>6
      <3>4. job[w] \in Messages
        BY <2>1, <3>2
      <3>5. \E t \in Messages :
               Ledger!Post(t) \/ Ledger!Apply(t) \/ Ledger!Settle(t) \/ Ledger!Bury(t)
        BY <3>3, <3>4 DEF Ledger!Apply
      <3> QED BY <3>5 DEF Ledger!LedgerNext
    <2>5. CASE \/ Fail(w) \/ Crash(w) \/ RequestStop(w) \/ Restart(w)
               \/ \E m \in Messages, step \in Steps : Take(w, m, step)
               \/ \E from \in Steps : \E to \in Steps : Advance(w, from, to)
      <3>1. CASE Fail(w) \/ Crash(w) \/ RequestStop(w) \/ Restart(w)
        BY <3>1, <1>1, <1>8
      <3>2. CASE \E m \in Messages, step \in Steps : Take(w, m, step)
        BY <3>2, <1>1 DEF Take
      <3>3. CASE \E from \in Steps : \E to \in Steps : Advance(w, from, to)
        BY <3>3, <1>1 DEF Advance
      <3> QED BY <2>5, <3>1, <3>2, <3>3
    <2> QED BY <1>10, <2>2, <2>3, <2>4, <2>5
  <1>11. QED
    BY <1>9, <1>10 DEF WorkerNext

(* However workers crash, fail, stop or overrun the visibility timeout,    *)
(* the queue and the loop keep the ledger: a task is settled only after it *)
(* was handled to the end, dead only after MaxReceive deliveries, and      *)
(* neither is ever undone.                                                 *)
THEOREM WorkerKeepsLedger ==
    ASSUME WorkerAssumption PROVE WorkerSpec => KeepsLedger
  <1>1. WorkerInit => Ledger!LedgerInit
    <2> SUFFICES ASSUME WorkerInit PROVE Ledger!LedgerInit
      OBVIOUS
    <2>1. \A m \in Messages : EntryOf(status[m]) = "none"
      BY Entries DEF WorkerInit, QueueInit
    <2>2. {m \in Messages : handled[m] > 0} = {} /\ receives = [m \in Messages |-> 0]
      BY DEF WorkerInit, QueueInit
    <2> QED BY <2>1, <2>2 DEF Ledger!LedgerInit
  <1>2. WorkerInv /\ [WorkerNext]_taskVars => [Ledger!LedgerNext]_(Ledger!ledger)
    <2>1. ASSUME UNCHANGED taskVars PROVE UNCHANGED Ledger!ledger
      BY <2>1 DEF taskVars, queueVars, Ledger!ledger
    <2> QED BY <2>1, LedgerStep
  <1>3. QED
    BY <1>1, <1>2, WorkerInvariance, PTL DEF WorkerSpec, KeepsLedger, Ledger!LedgerSafety
==============================================================================
