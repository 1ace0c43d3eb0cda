----------------------------- MODULE AtomicStore -----------------------------
(***************************************************************************)
(* What a demo backend promises its callers.  A create takes effect at one *)
(* moment between call and answer, and refers to a row that is there at    *)
(* that moment.  A listing has one row under each key that was in use at   *)
(* one such moment, and each row was the one under its key at some such    *)
(* moment: since only branches are ever overwritten, any other listing is  *)
(* the content of the table at one moment.  It may fail instead, but only  *)
(* when keys were added meanwhile.                                         *)
(***************************************************************************)
EXTENDS DemoTables, Naturals

VARIABLES tables, call, answer,
          contents      \* of the table a pending listing asks for, since its call

vars == <<tables, call, answer, contents>>

Pending(r) == call[r] # NoCall /\ answer[r] = NoAnswer

Init ==
    /\ tables = [t \in Tables |-> {}]
    /\ call = [r \in Requests |-> NoCall]
    /\ answer = [r \in Requests |-> NoAnswer]
    /\ contents = [r \in Requests |-> {}]

Call(r, c) ==
    /\ call[r] = NoCall
    /\ call' = [call EXCEPT ![r] = c]
    /\ contents' = [contents EXCEPT ![r] = Witnessed(tables, c)]
    /\ UNCHANGED <<tables, answer>>

Answer(r, status, rows) ==
    /\ Pending(r)
    /\ answer' = [answer EXCEPT ![r] = [status |-> status, rows |-> rows]]
    /\ UNCHANGED call

Create(r) ==
    LET c == call[r]
        new == Put(c.table, tables[c.table], NewRow(r, c))
    IN /\ c.op = "create" /\ ~Dangling(tables, c)
       /\ tables' = [tables EXCEPT ![c.table] = new]
       /\ contents' = Extended(contents, call, c.table, new)
       /\ Answer(r, 201, {NewRow(r, c)})

Refuse(r) ==
    /\ call[r].op = "create" /\ Dangling(tables, call[r])
    /\ Answer(r, 404, {})
    /\ UNCHANGED <<tables, contents>>

List(r) ==
    LET c == call[r] IN
    /\ c.op = "list"
    /\ \E rows \in SUBSET Matching(UNION contents[r], c.ref), then \in contents[r] :
          /\ OnePerKey(c.table, rows)
          /\ Keys(c.table, rows) = Keys(c.table, Matching(then, c.ref))
          /\ Answer(r, 200, rows)
    /\ contents' = [contents EXCEPT ![r] = {}]
    /\ UNCHANGED tables

Fail(r) ==
    LET c == call[r] IN
    /\ c.op = "list"
    /\ \E then \in contents[r] : Keys(c.table, then) # Keys(c.table, tables[c.table])
    /\ Answer(r, 500, {})
    /\ contents' = [contents EXCEPT ![r] = {}]
    /\ UNCHANGED tables

(* The process starts anew: the tables are empty, no call is answered. *)
Restart ==
    /\ tables' = [t \in Tables |-> {}]
    /\ answer' = [r \in Requests |-> IF Pending(r) THEN Lost ELSE answer[r]]
    /\ contents' = [r \in Requests |-> {}]
    /\ UNCHANGED call

Next == \/ \E r \in Requests, c \in Calls : Call(r, c)
        \/ \E r \in Requests : Create(r) \/ Refuse(r) \/ List(r) \/ Fail(r)
        \/ Restart

Spec == Init /\ [][Next]_vars
==============================================================================
