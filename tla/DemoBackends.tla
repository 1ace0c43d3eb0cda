----------------------------- MODULE DemoBackends -----------------------------
(***************************************************************************)
(* A demo backend: one uvicorn process that runs the handlers of its       *)
(* requests in a pool of threads, over dictionaries no lock protects.  The *)
(* interpreter (CPython with its GIL) may switch threads between any two   *)
(* bytecodes.  list(d.values()) is one call into C and so one step, as is  *)
(* d[key] = row; a filtered listing is a comprehension, which can be       *)
(* interrupted before every item and raises when the dictionary has grown  *)
(* in between.                                                             *)
(***************************************************************************)
EXTENDS DemoTables, Naturals

CONSTANTS Menu,         \* what a request may call
          MaxRestarts   \* bound: how often the process starts anew

ASSUME MenuAssumption == /\ Menu \in [Requests -> SUBSET Calls]
                         /\ MaxRestarts \in Nat

VARIABLES backend,      \* which of the three
          tables,
          pc,           \* of the thread of a request
          call, answer,
          size,         \* the keys in use when an iteration began
          left,         \* those it has still to visit
          items,        \* the rows it has collected
          restarts,
          contents      \* history: of the table a pending listing asks for

iteration == <<size, left, items>>
vars == <<backend, tables, pc, call, answer, iteration, restarts, contents>>

(* The type invariant: tables are dictionaries, with one row under a key.  *)
TypeOK ==
    /\ backend \in Backends
    /\ tables \in [Tables -> SUBSET Rows]
    /\ \A t \in Tables : OnePerKey(t, tables[t])
    /\ pc \in [Requests -> {"idle", "called", "insert", "iterate", "done"}]
    /\ call \in [Requests -> Calls \cup {NoCall}]
    /\ answer \in [Requests -> Answers]
    /\ items \in [Requests -> SUBSET Rows]
    /\ size \in [Requests -> SUBSET AllKeys] /\ left \in [Requests -> SUBSET AllKeys]
    /\ \A r \in Requests : left[r] \subseteq size[r]
    /\ restarts \in 0 .. MaxRestarts
    /\ contents \in [Requests -> SUBSET SUBSET Rows]

Nothing == [r \in Requests |-> {}]

Init ==
    /\ backend \in Backends
    /\ tables = [t \in Tables |-> {}]
    /\ pc = [r \in Requests |-> "idle"]
    /\ call = [r \in Requests |-> NoCall]
    /\ answer = [r \in Requests |-> NoAnswer]
    /\ size = Nothing /\ left = Nothing /\ items = Nothing
    /\ restarts = 0
    /\ contents = Nothing

------------------------------------------------------------------------------

(* The rows of the table a request is about. *)
Table(r) == tables[call[r].table]

Answer(r, status, rows) ==
    /\ answer' = [answer EXCEPT ![r] = [status |-> status, rows |-> rows]]
    /\ pc' = [pc EXCEPT ![r] = "done"]

(* A listing ends, with its local variables. *)
End(r) ==
    /\ size' = [size EXCEPT ![r] = {}]
    /\ left' = [left EXCEPT ![r] = {}]
    /\ items' = [items EXCEPT ![r] = {}]
    /\ contents' = [contents EXCEPT ![r] = {}]

Arrive(r, c) ==
    /\ pc[r] = "idle"
    /\ c.table \in DOMAIN backend
    /\ pc' = [pc EXCEPT ![r] = "called"]
    /\ call' = [call EXCEPT ![r] = c]
    /\ contents' = [contents EXCEPT ![r] = Witnessed(tables, c)]
    /\ UNCHANGED <<backend, tables, answer, iteration, restarts>>

(* if project_id and project_id not in projects; mutant: no such check.    *)
RefusesNone(r) == FALSE
Refuses(r) == Dangling(tables, call[r])

Check(r) ==
    /\ pc[r] = "called" /\ call[r].op = "create"
    /\ ~Refuses(r)
    /\ pc' = [pc EXCEPT ![r] = "insert"]
    /\ UNCHANGED <<backend, tables, call, answer, iteration, restarts, contents>>

Refuse(r) ==
    /\ pc[r] = "called" /\ call[r].op = "create"
    /\ Refuses(r)
    /\ Answer(r, 404, {})
    /\ UNCHANGED <<backend, tables, call, iteration, restarts, contents>>

Insert(r) ==
    LET c == call[r]
        new == Put(c.table, Table(r), NewRow(r, c))
    IN /\ pc[r] = "insert"
       /\ tables' = [tables EXCEPT ![c.table] = new]
       /\ Answer(r, 201, {NewRow(r, c)})
       /\ contents' = Extended(contents, call, c.table, new)
       /\ UNCHANGED <<backend, call, iteration, restarts>>

(* list(issues.values()) *)
ListAll(r) ==
    /\ pc[r] = "called" /\ call[r].op = "list" /\ call[r].ref = NoRef
    /\ Answer(r, 200, Table(r))
    /\ End(r)
    /\ UNCHANGED <<backend, tables, call, restarts>>

(* The iterator of the comprehension notes how many items there are.       *)
Begin(r) ==
    LET now == Keys(call[r].table, Table(r)) IN
    /\ pc[r] = "called" /\ call[r].op = "list" /\ call[r].ref # NoRef
    /\ pc' = [pc EXCEPT ![r] = "iterate"]
    /\ size' = [size EXCEPT ![r] = now]
    /\ left' = [left EXCEPT ![r] = now]
    /\ UNCHANGED <<backend, tables, call, answer, items, restarts, contents>>

(* It finds that the dictionary has grown: a key was added, since none is  *)
(* ever removed.                                                           *)
Grown(r) == Keys(call[r].table, Table(r)) # size[r]

(* i.project_id == project_id; mutant: or not i.project_id                 *)
WantedOrLoose(r, row) == row.ref \in {call[r].ref, NoRef}
Wanted(r, row) == row.ref = call[r].ref

(* One turn of [i for i in items if i.project_id == project_id].           *)
Visit(r) ==
    /\ pc[r] = "iterate"
    /\ ~Grown(r)
    /\ \E row \in Table(r) :
          /\ KeyOf(call[r].table, row) \in left[r]
          /\ left' = [left EXCEPT ![r] = @ \ {KeyOf(call[r].table, row)}]
          /\ items' = [items EXCEPT ![r] =
                          IF Wanted(r, row) THEN @ \cup {row} ELSE @]
    /\ UNCHANGED <<backend, tables, pc, call, answer, size, restarts, contents>>

Finish(r) ==
    /\ pc[r] = "iterate" /\ left[r] = {}
    /\ ~Grown(r)
    /\ Answer(r, 200, items[r])
    /\ End(r)
    /\ UNCHANGED <<backend, tables, call, restarts>>

(* RuntimeError: dictionary changed size during iteration. *)
Fail(r) ==
    /\ pc[r] = "iterate"
    /\ Grown(r)
    /\ Answer(r, 500, {})
    /\ End(r)
    /\ UNCHANGED <<backend, tables, call, restarts>>

(* The process exits and is started again, with empty dictionaries. *)
Restart ==
    /\ restarts < MaxRestarts
    /\ restarts' = restarts + 1
    /\ tables' = [t \in Tables |-> {}]
    /\ answer' = [r \in Requests |->
                     IF pc[r] \in {"idle", "done"} THEN answer[r] ELSE Lost]
    /\ pc' = [r \in Requests |-> IF pc[r] = "idle" THEN "idle" ELSE "done"]
    /\ size' = Nothing /\ left' = Nothing /\ items' = Nothing
    /\ contents' = Nothing
    /\ UNCHANGED <<backend, call>>

Handle(r) == \/ Check(r) \/ Refuse(r) \/ Insert(r)
             \/ ListAll(r) \/ Begin(r) \/ Visit(r) \/ Finish(r) \/ Fail(r)

Next == \/ \E r \in Requests : Handle(r) \/ \E c \in Menu[r] : Arrive(r, c)
        \/ Restart

Spec == Init /\ [][Next]_vars

------------------------------------------------------------------------------
(* Properties. *)

(* A row that names a parent names one that is there, although the parent  *)
(* was looked up in an earlier step than the insertion                     *)
(* (backend-bitbucket-clone/app/main.py:98-110, 122-130).                  *)
ReferencesExist ==
    \A t \in Tables : \A row \in tables[t] :
        Schema[t].checked /\ row.ref # NoRef => Refers(tables, [table |-> t, ref |-> row.ref])

(* Handlers that interleave step by step keep the promise of AtomicStore:  *)
(* creates are atomic, listings are regular, and fail only when they were  *)
(* overtaken by a create (backend-jira-clone/app/main.py:87-107).          *)
Store == INSTANCE AtomicStore
KeepsStore == Store!Spec
==============================================================================
