------------------------------ MODULE DemoTables ------------------------------
(***************************************************************************)
(* The tables of the demo backends (services/backend-jira-clone,           *)
(* backend-confluence-clone, backend-bitbucket-clone): dictionaries of     *)
(* rows, which differ in whether a row refers to one of another table,     *)
(* whether that is checked, and what a row is kept under.                  *)
(***************************************************************************)
CONSTANTS Requests,     \* requests; a row is known by the one that created it
          Names,        \* names of branches
          NoRef, NoName

ASSUME TablesAssumption == NoRef \notin Requests /\ NoName \notin Names

(* A table whose rows stand alone, refer to anything, refer to a row of    *)
(* the parent that must exist, or are moreover kept under their name.      *)
Plain == [parent |-> "", checked |-> FALSE, named |-> FALSE]
Loose(p) == [parent |-> p, checked |-> FALSE, named |-> FALSE]
Child(p) == [parent |-> p, checked |-> TRUE, named |-> FALSE]
Named(p) == [parent |-> p, checked |-> TRUE, named |-> TRUE]

Jira == [projects |-> Plain, issues |-> Child("projects"), sprints |-> Loose("projects")]
Confluence == [spaces |-> Plain, pages |-> Child("spaces"), labels |-> Plain]
Bitbucket == [repos |-> Plain, pullrequests |-> Child("repos"), branches |-> Named("repos")]

Backends == {Jira, Confluence, Bitbucket}
Tables == UNION {DOMAIN b : b \in Backends}
Schema == [t \in Tables |-> (CHOOSE b \in Backends : t \in DOMAIN b)[t]]

Refs == Requests \cup {NoRef}       \* NoRef: no id in the payload, or ""
Rows == [by : Requests, ref : Refs, name : Names \cup {NoName}]

(* What a row is kept under: its uuid, or (repo_id, name). *)
KeyOf(t, row) == IF Schema[t].named THEN <<row.ref, row.name>> ELSE <<row.by>>
Keys(t, rows) == {KeyOf(t, row) : row \in rows}
AllKeys == {<<r>> : r \in Requests} \cup (Refs \X (Names \cup {NoName}))
OnePerKey(t, rows) ==
    \A x, y \in rows : KeyOf(t, x) = KeyOf(t, y) => x = y

(* table[key] = row; mutant: the row is added to a list. *)
PutAppended(t, rows, row) == rows \cup {row}
Put(t, rows, row) == {x \in rows : KeyOf(t, x) # KeyOf(t, row)} \cup {row}

(* The rows a listing asks for. *)
Matches(row, ref) == ref = NoRef \/ row.ref = ref
Matching(rows, ref) == {row \in rows : Matches(row, ref)}

(* A call of POST or GET; only tables with a checked parent are filtered.  *)
Creates == {c \in [op : {"create"}, table : Tables, ref : Refs, name : Names \cup {NoName}] :
                /\ Schema[c.table].parent = "" => c.ref = NoRef
                /\ (c.name # NoName) = Schema[c.table].named}
Lists == {c \in [op : {"list"}, table : Tables, ref : Refs, name : {NoName}] :
              ~Schema[c.table].checked => c.ref = NoRef}
Calls == Creates \cup Lists

NoCall == [op |-> "none", table |-> "", ref |-> NoRef, name |-> NoName]
NoAnswer == [status |-> 0, rows |-> {}]
Lost == [status |-> 1, rows |-> {}]
Answers == [status : {0, 1, 200, 201, 404, 500}, rows : SUBSET Rows]
NewRow(r, c) == [by |-> r, ref |-> c.ref, name |-> c.name]

(* The row a checked reference names is there. *)
Refers(tables, c) ==
    \E row \in tables[Schema[c.table].parent] : row.by = c.ref
Dangling(tables, c) ==
    Schema[c.table].checked /\ c.ref # NoRef /\ ~Refers(tables, c)

(* History: the contents a pending listing could have seen. *)
Witnessed(tables, c) == IF c.op = "list" THEN {tables[c.table]} ELSE {}
Extended(contents, call, t, new) ==
    [r \in Requests |-> IF contents[r] # {} /\ call[r].table = t
                        THEN contents[r] \cup {new} ELSE contents[r]]
==============================================================================
