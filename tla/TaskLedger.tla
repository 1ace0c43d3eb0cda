----------------------------- MODULE TaskLedger -----------------------------
(***************************************************************************)
(* What the asynchronous side of the broker promises about a task, with no *)
(* rows, receipts or workers: a posted task is tried at most MaxTries      *)
(* times; it leaves the ledger settled only when it was applied, at least  *)
(* once and perhaps more often, and dead only after MaxTries tries; and it *)
(* does leave.                                                             *)
(***************************************************************************)
EXTENDS Naturals

CONSTANTS Tasks, MaxTries

VARIABLES entry,        \* "none", "queued", "settled" or "dead"
          tries,        \* how often the task was handed to a worker
          applied       \* the tasks a worker carried out at least once

ledger == <<entry, tries, applied>>

LedgerInit == /\ entry = [t \in Tasks |-> "none"]
              /\ tries = [t \in Tasks |-> 0]
              /\ applied = {}

Post(t) == /\ entry[t] = "none"
           /\ entry' = [entry EXCEPT ![t] = "queued"]
           /\ UNCHANGED <<tries, applied>>

(* Several tasks may be handed out together. *)
Try(batch) == /\ \A t \in batch : entry[t] = "queued" /\ tries[t] < MaxTries
              /\ tries' = [t \in Tasks |->
                             IF t \in batch THEN tries[t] + 1 ELSE tries[t]]
              /\ UNCHANGED <<entry, applied>>

(* A slow worker may apply a task that has left the ledger meanwhile. *)
Apply(t) == /\ tries[t] > 0
            /\ applied' = applied \cup {t}
            /\ UNCHANGED <<entry, tries>>

Settle(t) == /\ entry[t] = "queued"
             /\ t \in applied
             /\ entry' = [entry EXCEPT ![t] = "settled"]
             /\ UNCHANGED <<tries, applied>>

Bury(t) == /\ entry[t] = "queued"
           /\ tries[t] = MaxTries
           /\ entry' = [entry EXCEPT ![t] = "dead"]
           /\ UNCHANGED <<tries, applied>>

LedgerNext == \/ \E t \in Tasks : Post(t) \/ Apply(t) \/ Settle(t) \/ Bury(t)
              \/ \E batch \in SUBSET Tasks : Try(batch)

LedgerSafety == LedgerInit /\ [][LedgerNext]_ledger

(* Every posted task leaves the ledger. *)
LedgerProgress == \A t \in Tasks : entry[t] = "queued" ~> entry[t] # "queued"

LedgerSpec == LedgerSafety /\ LedgerProgress
==============================================================================
