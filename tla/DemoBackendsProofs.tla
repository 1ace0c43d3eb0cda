-------------------------- MODULE DemoBackendsProofs --------------------------
(***************************************************************************)
(* The demo backends keep the promise of AtomicStore, for any number of    *)
(* requests and restarts and whatever the requests call.                   *)
(***************************************************************************)
EXTENDS DemoBackends, TLAPS

(* Tables others refer to, and what a table can be. *)
Parents == {"projects", "spaces", "repos"}
Kind(t, k) ==
    \/ k = Plain
    \/ t \notin Parents /\ \E p \in Parents : k \in {Loose(p), Child(p), Named(p)}

(* A backend is made of such tables. *)
LEMMA BackendKinds ==
    ASSUME NEW b \in Backends, NEW t \in DOMAIN b
    PROVE  Kind(t, b[t])
  <1>1. CASE b = Jira
    <2>1. DOMAIN Jira = {"projects", "issues", "sprints"}
      BY DEF Jira
    <2>2. Jira["projects"] = Plain /\ Jira["issues"] = Child("projects") /\ Jira["sprints"] = Loose("projects")
      BY DEF Jira
    <2>3. QED
      BY <1>1, <2>1, <2>2 DEF Kind, Parents
  <1>2. CASE b = Confluence
    <2>1. DOMAIN Confluence = {"spaces", "pages", "labels"}
      BY DEF Confluence
    <2>2. Confluence["spaces"] = Plain /\ Confluence["pages"] = Child("spaces") /\ Confluence["labels"] = Plain
      BY DEF Confluence
    <2>3. QED
      BY <1>2, <2>1, <2>2 DEF Kind, Parents
  <1>3. CASE b = Bitbucket
    <2>1. DOMAIN Bitbucket = {"repos", "pullrequests", "branches"}
      BY DEF Bitbucket
    <2>2. Bitbucket["repos"] = Plain /\ Bitbucket["pullrequests"] = Child("repos") /\ Bitbucket["branches"] = Named("repos")
      BY DEF Bitbucket
    <2>3. QED
      BY <1>3, <2>1, <2>2 DEF Kind, Parents
  <1>4. QED
    BY <1>1, <1>2, <1>3 DEF Backends

(* A checked parent is a table kept under uuids. *)
LEMMA KindFacts ==
    ASSUME NEW t, NEW k, Kind(t, k)
    PROVE  /\ k.named \in BOOLEAN /\ k.checked \in BOOLEAN
           /\ k.checked => k.parent \in Parents
           /\ t \in Parents => ~k.named
  <1>1. CASE k = Plain
    BY <1>1 DEF Plain
  <1>2. CASE k # Plain
    <2>1. PICK p \in Parents : k \in {Loose(p), Child(p), Named(p)}
      BY <1>2 DEF Kind
    <2>2. t \notin Parents
      BY <1>2 DEF Kind
    <2>3. CASE k = Loose(p)
      BY <2>2, <2>3 DEF Loose
    <2>4. CASE k = Child(p)
      BY <2>2, <2>4 DEF Child
    <2>5. CASE k = Named(p)
      BY <2>2, <2>5 DEF Named
    <2>6. QED
      BY <2>1, <2>3, <2>4, <2>5
  <1>3. QED
    BY <1>1, <1>2

(* The schema is well formed: a checked parent is a table of its own, kept *)
(* under uuids.                                                            *)
LEMMA SchemaFacts ==
    ASSUME NEW t \in Tables
    PROVE  /\ Schema[t].named \in BOOLEAN /\ Schema[t].checked \in BOOLEAN
           /\ Schema[t].checked => /\ Schema[t].parent \in Tables
                                   /\ ~Schema[Schema[t].parent].named
  <1>1. ASSUME NEW u \in Tables
        PROVE  \E b \in Backends : u \in DOMAIN b /\ Schema[u] = b[u]
    BY <1>1 DEF Schema, Tables
  <1>2. Parents \subseteq Tables
    <2>1. "projects" \in DOMAIN Jira /\ "spaces" \in DOMAIN Confluence /\ "repos" \in DOMAIN Bitbucket
      BY DEF Jira, Confluence, Bitbucket
    <2>2. QED
      BY <2>1 DEF Tables, Backends, Parents
  <1>3. QED
    BY <1>1, <1>2, BackendKinds, KindFacts

(* The tables AtomicStore speaks of are these. *)
LEMMA SameTables ==
    /\ Store!Schema = Schema /\ Store!Tables = Tables /\ Store!Calls = Calls
    /\ Store!NoCall = NoCall /\ Store!NoAnswer = NoAnswer /\ Store!Lost = Lost
  <1>1. Store!Backends = Backends
    BY DEF Store!Backends, Store!Jira, Store!Confluence, Store!Bitbucket, Store!Plain,
           Store!Loose, Store!Child, Store!Named,
           Backends, Jira, Confluence, Bitbucket, Plain, Loose, Child, Named
  <1>2. Store!Tables = Tables
    BY <1>1 DEF Store!Tables, Tables
  <1>3. Store!Schema = Schema
    BY <1>1, <1>2 DEF Store!Schema, Schema
  <1>4. Store!Calls = Calls
    BY <1>2, <1>3 DEF Store!Calls, Store!Creates, Store!Lists, Store!Refs, Calls, Creates, Lists, Refs
  <1>5. QED
    BY <1>2, <1>3, <1>4 DEF Store!NoCall, NoCall, Store!NoAnswer, NoAnswer, Store!Lost, Lost

(* Keys of rows are keys. *)
LEMMA KeysType ==
    ASSUME NEW t, NEW rows \in SUBSET Rows
    PROVE  Keys(t, rows) \subseteq AllKeys
  BY DEF Keys, KeyOf, AllKeys, Rows

(* What a put leaves: one row per key, and no key less. *)
LEMMA PutFacts ==
    ASSUME NEW t, NEW rows \in SUBSET Rows, NEW row \in Rows, OnePerKey(t, rows)
    PROVE  /\ Put(t, rows, row) \in SUBSET Rows
           /\ OnePerKey(t, Put(t, rows, row))
           /\ Keys(t, rows) \subseteq Keys(t, Put(t, rows, row))
  <1>1. Put(t, rows, row) \in SUBSET Rows /\ OnePerKey(t, Put(t, rows, row))
    BY DEF Put, OnePerKey
  <1>2. ASSUME NEW x \in rows PROVE KeyOf(t, x) \in Keys(t, Put(t, rows, row))
    <2>1. CASE KeyOf(t, x) = KeyOf(t, row)
      BY <2>1 DEF Keys, Put
    <2>2. CASE KeyOf(t, x) # KeyOf(t, row)
      BY <2>2 DEF Keys, Put
    <2>3. QED
      BY <2>1, <2>2
  <1>3. QED
    BY <1>1, <1>2 DEF Keys

------------------------------------------------------------------------------

(* The first part of the invariant, beside the types: every row that is or *)
(* was there is the one its request made, and that request is over.        *)
Made(row) == pc[row.by] = "done" /\ row = NewRow(row.by, call[row.by])
MadeOK ==
    /\ \A t \in Tables : \A row \in tables[t] : Made(row)
    /\ \A r \in Requests : \A then \in contents[r] : \A row \in then : Made(row)

(* What a thread knows: the row it refers to is there, the table it lists  *)
(* is among the contents it could have seen.                               *)
Listing(r) == call[r].op = "list" /\ pc[r] \in {"called", "iterate"}
ThreadOK(r) ==
    /\ pc[r] = "idle" <=> call[r] = NoCall
    /\ pc[r] # "done" <=> answer[r] = NoAnswer
    /\ pc[r] = "insert" => call[r].op = "create" /\ ~Dangling(tables, call[r])
    /\ pc[r] = "iterate" => call[r].op = "list" /\ call[r].ref # NoRef
    /\ Listing(r) => Table(r) \in contents[r]

(* What an iteration has: the visited part of what it found at its start,  *)
(* although maybe in other rows.                                           *)
Visited(r, then) ==
    LET t == call[r].table IN
    /\ size[r] = Keys(t, then)
    /\ Keys(t, items[r]) = Keys(t, Matching(then, call[r].ref)) \ left[r]
IterationOK(r) ==
    /\ \E then \in contents[r] : Visited(r, then)
    /\ items[r] \subseteq Matching(UNION contents[r], call[r].ref)
    /\ OnePerKey(call[r].table, items[r])

IInv == /\ TypeOK /\ ReferencesExist /\ MadeOK
        /\ \A r \in Requests : ThreadOK(r)
        /\ \A r \in Requests : pc[r] = "iterate" => IterationOK(r)
        /\ \A r \in Requests : pc[r] # "iterate" => items[r] = {}

(* What a call holds. *)
LEMMA CallFacts ==
    ASSUME NEW c \in Calls
    PROVE  /\ c.table \in Tables /\ c.ref \in Refs /\ c.op \in {"create", "list"}
           /\ \A r \in Requests : NewRow(r, c) \in Rows
           /\ c # NoCall
  <1>1. /\ c.op \in {"create", "list"} /\ c.table \in Tables
        /\ c.ref \in Refs /\ c.name \in Names \cup {NoName}
    BY DEF Calls, Creates, Lists
  <1>2. NoCall.op = "none"
    BY DEF NoCall
  <1>3. c # NoCall
    BY <1>1, <1>2
  <1>4. ASSUME NEW r \in Requests PROVE NewRow(r, c) \in Rows
    BY <1>1 DEF NewRow, Rows
  <1>5. QED
    BY <1>1, <1>3, <1>4

(* Rows under one key refer to the same row. *)
LEMMA SameKey ==
    ASSUME NEW t, NEW x \in Rows, NEW y \in Rows, Made(x), Made(y), KeyOf(t, x) = KeyOf(t, y)
    PROVE  x.ref = y.ref
  <1>1. CASE Schema[t].named
    BY <1>1 DEF KeyOf
  <1>2. CASE ~Schema[t].named
    <2>1. x.by = y.by
      BY <1>2 DEF KeyOf
    <2>2. QED
      BY <2>1 DEF Made
  <1>3. QED
    BY <1>1, <1>2

(* A request that is not idle has made a call. *)
LEMMA Called ==
    ASSUME IInv, NEW r \in Requests, pc[r] # "idle"
    PROVE  call[r] \in Calls /\ call[r].table \in Tables /\ Table(r) \in SUBSET Rows
  <1>1. call[r] \in Calls
    BY DEF IInv, TypeOK, ThreadOK
  <1>2. call[r].table \in Tables
    BY <1>1, CallFacts
  <1>3. QED
    BY <1>1, <1>2 DEF IInv, TypeOK, Table

------------------------------------------------------------------------------

(* The invariant holds at the start. *)
LEMMA InitInv == ASSUME Init PROVE IInv
  <1>1. TypeOK
    <2>1. NoAnswer \in Answers
      BY DEF NoAnswer, Answers
    <2>2. 0 \in 0 .. MaxRestarts
      BY MenuAssumption
    <2>3. QED
      BY <2>1, <2>2 DEF Init, TypeOK, Nothing, OnePerKey
  <1>2. ReferencesExist /\ MadeOK
    BY DEF Init, ReferencesExist, MadeOK, Nothing
  <1>3. ASSUME NEW r \in Requests
        PROVE  ThreadOK(r) /\ (pc[r] = "iterate" => IterationOK(r)) /\ items[r] = {}
    BY DEF Init, ThreadOK, Listing, Nothing
  <1>4. QED
    BY <1>1, <1>2, <1>3 DEF IInv

(* An insertion: what is inserted, and that the table keeps its form.      *)
LEMMA InsertFacts ==
    ASSUME IInv, NEW r \in Requests, Insert(r)
    PROVE  LET t == call[r].table
               row == NewRow(r, call[r])
           IN /\ t \in Tables /\ row \in Rows /\ row.by = r /\ row.ref = call[r].ref
              /\ tables' = [tables EXCEPT ![t] = Put(t, tables[t], row)]
              /\ Put(t, tables[t], row) \in SUBSET Rows
              /\ OnePerKey(t, Put(t, tables[t], row))
              /\ contents' = Extended(contents, call, t, Put(t, tables[t], row))
  <1>1. call[r] \in Calls /\ call[r].table \in Tables
    BY Called DEF Insert
  <1>2. NewRow(r, call[r]) \in Rows
    BY <1>1, CallFacts
  <1>3. tables[call[r].table] \in SUBSET Rows /\ OnePerKey(call[r].table, tables[call[r].table])
    BY <1>1 DEF IInv, TypeOK
  <1>4. /\ Put(call[r].table, tables[call[r].table], NewRow(r, call[r])) \in SUBSET Rows
        /\ OnePerKey(call[r].table, Put(call[r].table, tables[call[r].table], NewRow(r, call[r])))
    BY <1>2, <1>3, PutFacts
  <1>5. NewRow(r, call[r]).by = r /\ NewRow(r, call[r]).ref = call[r].ref
    BY DEF NewRow
  <1>6. QED
    BY <1>1, <1>2, <1>4, <1>5 DEF Insert, Table

(* The history keeps its type, and keeps what it has. *)
LEMMA ExtendedFacts ==
    ASSUME contents \in [Requests -> SUBSET SUBSET Rows], NEW t, NEW new \in SUBSET Rows,
           contents' = Extended(contents, call, t, new)
    PROVE  /\ contents' \in [Requests -> SUBSET SUBSET Rows]
           /\ \A q \in Requests : /\ contents[q] \subseteq contents'[q]
                                  /\ contents'[q] \subseteq contents[q] \cup {new}
                                  /\ contents[q] # {} /\ call[q].table = t => new \in contents'[q]
  BY DEF Extended

(* Every action keeps the types. *)
LEMMA TypeStep == ASSUME IInv, [Next]_vars PROVE TypeOK'
  <1> USE DEF IInv, TypeOK
  <1>e. ASSUME NEW r \in Requests, End(r)
        PROVE  /\ items' \in [Requests -> SUBSET Rows]
               /\ size' \in [Requests -> SUBSET AllKeys] /\ left' \in [Requests -> SUBSET AllKeys]
               /\ \A q \in Requests : left'[q] \subseteq size'[q]
               /\ contents' \in [Requests -> SUBSET SUBSET Rows]
    BY <1>e DEF End
  <1>a. ASSUME NEW r \in Requests, NEW st \in {200, 201, 404, 500},
               NEW rows \in SUBSET Rows, Answer(r, st, rows)
        PROVE  /\ answer' \in [Requests -> Answers]
               /\ pc' \in [Requests -> {"idle", "called", "insert", "iterate", "done"}]
    <2>1. [status |-> st, rows |-> rows] \in Answers
      BY DEF Answers
    <2>2. QED
      BY <1>a, <2>1 DEF Answer
  <1>1. ASSUME NEW r \in Requests, NEW c \in Menu[r], Arrive(r, c) PROVE TypeOK'
    <2>1. c \in Calls /\ c.table \in Tables
      BY MenuAssumption, CallFacts
    <2>2. Witnessed(tables, c) \in SUBSET SUBSET Rows
      BY <2>1 DEF Witnessed
    <2>3. QED
      BY <1>1, <2>1, <2>2 DEF Arrive, iteration
  <1>2. ASSUME NEW r \in Requests, Check(r) PROVE TypeOK'
    BY <1>2 DEF Check, iteration
  <1>3. ASSUME NEW r \in Requests, Refuse(r) PROVE TypeOK'
    BY <1>3, <1>a DEF Refuse, iteration
  <1>4. ASSUME NEW r \in Requests, Insert(r) PROVE TypeOK'
    <2>1. tables' \in [Tables -> SUBSET Rows] /\ \A t \in Tables : OnePerKey(t, tables'[t])
      BY <1>4, InsertFacts
    <2>2. contents' \in [Requests -> SUBSET SUBSET Rows]
      BY <1>4, InsertFacts, ExtendedFacts
    <2>3. /\ answer' \in [Requests -> Answers]
          /\ pc' \in [Requests -> {"idle", "called", "insert", "iterate", "done"}]
      <3>1. {NewRow(r, call[r])} \in SUBSET Rows
        BY <1>4, InsertFacts
      <3>2. Answer(r, 201, {NewRow(r, call[r])})
        BY <1>4 DEF Insert
      <3>3. QED
        BY <1>a, <3>1, <3>2
    <2>4. QED
      BY <1>4, <2>1, <2>2, <2>3 DEF Insert, iteration
  <1>5. ASSUME NEW r \in Requests, ListAll(r) PROVE TypeOK'
    <2>1. Table(r) \in SUBSET Rows
      BY <1>5, Called DEF ListAll
    <2>2. QED
      BY <1>5, <1>a, <1>e, <2>1 DEF ListAll
  <1>6. ASSUME NEW r \in Requests, Begin(r) PROVE TypeOK'
    <2>1. Keys(call[r].table, Table(r)) \in SUBSET AllKeys
      BY <1>6, Called, KeysType DEF Begin
    <2>2. QED
      BY <1>6, <2>1 DEF Begin
  <1>7. ASSUME NEW r \in Requests, Visit(r) PROVE TypeOK'
    <2>1. Table(r) \in SUBSET Rows
      BY <1>7, Called DEF Visit, Wanted
    <2>2. QED
      BY <1>7, <2>1 DEF Visit, Wanted
  <1>8. ASSUME NEW r \in Requests, Finish(r) PROVE TypeOK'
    BY <1>8, <1>a, <1>e DEF Finish
  <1>9. ASSUME NEW r \in Requests, Fail(r) PROVE TypeOK'
    BY <1>9, <1>a, <1>e DEF Fail
  <1>10. ASSUME Restart PROVE TypeOK'
    <2>1. Lost \in Answers
      BY DEF Lost, Answers
    <2>2. restarts' \in 0 .. MaxRestarts
      BY <1>10, MenuAssumption DEF Restart
    <2>3. \A t \in Tables : OnePerKey(t, tables'[t])
      BY <1>10 DEF Restart, OnePerKey
    <2>4. QED
      BY <1>10, <2>1, <2>2, <2>3 DEF Restart, Nothing
  <1>11. CASE UNCHANGED vars
    BY <1>11 DEF vars, iteration
  <1>12. QED
    BY <1>1, <1>2, <1>3, <1>4, <1>5, <1>6, <1>7, <1>8, <1>9, <1>10, <1>11 DEF Next, Handle

(* Every row is still the one its request made. *)
LEMMA MadeStep == ASSUME IInv, [Next]_vars PROVE MadeOK'
  <1> USE DEF MadeOK
  <1>k. ASSUME NEW row \in Rows, Made(row),
               pc'[row.by] = pc[row.by], call'[row.by] = call[row.by]
        PROVE  Made(row)'
    BY <1>k DEF Made, NewRow
  <1>r. /\ \A t \in Tables : tables[t] \subseteq Rows
        /\ \A r \in Requests : \A then \in contents[r] : then \subseteq Rows
        /\ \A row \in Rows : row.by \in Requests
    BY DEF IInv, TypeOK, Rows
  <1>q. ASSUME NEW r \in Requests, pc[r] # "done",
               \A q \in Requests \ {r} : pc'[q] = pc[q] /\ call'[q] = call[q]
        PROVE  \A row \in Rows : Made(row) => Made(row)'
    <2>1. ASSUME NEW row \in Rows, Made(row) PROVE row.by \in Requests \ {r}
      BY <1>q, <1>r, <2>1 DEF Made
    <2>2. QED
      BY <1>q, <1>k, <2>1
  <1>1. ASSUME NEW r \in Requests, NEW c \in Menu[r], Arrive(r, c) PROVE MadeOK'
    <2>1. \A row \in Rows : Made(row) => Made(row)'
      BY <1>1, <1>q DEF Arrive, IInv, TypeOK
    <2>2. \A q \in Requests : contents'[q] \subseteq contents[q] \cup {tables[c.table]}
      BY <1>1 DEF Arrive, Witnessed, IInv, TypeOK
    <2>3. c.table \in Tables
      BY MenuAssumption, CallFacts
    <2>4. QED
      BY <1>1, <1>r, <2>1, <2>2, <2>3 DEF Arrive, IInv
  <1>2. ASSUME NEW r \in Requests, Insert(r) PROVE MadeOK'
    <2>1. \A row \in Rows : Made(row) => Made(row)'
      BY <1>2, <1>q DEF Insert, Answer, IInv, TypeOK
    <2> DEFINE t == call[r].table
               row == NewRow(r, call[r])
               new == Put(t, tables[t], row)
    <2>2. /\ t \in Tables /\ row \in Rows /\ row.by = r
          /\ tables' = [tables EXCEPT ![t] = new] /\ new \in SUBSET Rows
          /\ contents' = Extended(contents, call, t, new)
      BY <1>2, InsertFacts
    <2>3. ASSUME NEW x \in Rows, x = row PROVE Made(x)'
      BY <1>2, <2>3 DEF Insert, Answer, Made, NewRow, IInv, TypeOK
    <2>4. ASSUME NEW x \in new PROVE Made(x)'
      <3>1. x \in Rows /\ (x = row \/ x \in tables[t])
        BY <2>2 DEF Put
      <3>2. x \in tables[t] => Made(x)
        BY <2>2 DEF IInv
      <3>3. QED
        BY <2>1, <2>3, <3>1, <3>2
    <2>5. \A q \in Requests : contents'[q] \subseteq contents[q] \cup {new}
      <3> HIDE DEF new
      <3>1. QED
        BY <2>2, ExtendedFacts DEF IInv, TypeOK
    <2>6. \A u \in Tables : tables'[u] = tables[u] \/ tables'[u] = new
      BY <2>2 DEF IInv, TypeOK
    <2>7. QED
      <3> HIDE DEF new
      <3>1. QED
        BY <1>r, <2>1, <2>4, <2>5, <2>6 DEF IInv
  <1>3. ASSUME NEW r \in Requests, Check(r) \/ Begin(r) \/ Visit(r) PROVE MadeOK'
    <2>1. \A row \in Rows : Made(row) => Made(row)'
      BY <1>3, <1>q DEF Check, Begin, Visit, IInv, TypeOK
    <2>2. UNCHANGED <<tables, contents>>
      BY <1>3 DEF Check, Begin, Visit
    <2>3. QED
      BY <1>r, <2>1, <2>2 DEF IInv
  <1>4. ASSUME NEW r \in Requests, Refuse(r) \/ ListAll(r) \/ Finish(r) \/ Fail(r) PROVE MadeOK'
    <2>1. \A row \in Rows : Made(row) => Made(row)'
      BY <1>4, <1>q DEF Refuse, ListAll, Finish, Fail, Answer, IInv, TypeOK
    <2>2. UNCHANGED tables /\ \A q \in Requests : contents'[q] \subseteq contents[q]
      BY <1>4 DEF Refuse, ListAll, Finish, Fail, End, IInv, TypeOK
    <2>3. QED
      BY <1>r, <2>1, <2>2 DEF IInv
  <1>5. CASE Restart
    BY <1>5 DEF Restart, Nothing
  <1>6. CASE UNCHANGED vars
    BY <1>6 DEF vars, IInv, Made, NewRow
  <1>7. QED
    BY <1>1, <1>2, <1>3, <1>4, <1>5, <1>6 DEF Next, Handle

(* A row that is referred to stays: an insertion replaces rows under its   *)
(* key only, and the rows of a parent have keys of their own.              *)
LEMMA InsertKeepsRefers ==
    ASSUME IInv, NEW r \in Requests, Insert(r),
           NEW t \in Tables, Schema[t].checked, NEW ref, Refers(tables, [table |-> t, ref |-> ref])
    PROVE  Refers(tables', [table |-> t, ref |-> ref])
  <1> DEFINE u == call[r].table
             row == NewRow(r, call[r])
             p == Schema[t].parent
  <1>1. PICK x \in tables[p] : x.by = ref
    BY DEF Refers
  <1>2. p \in Tables /\ ~Schema[p].named
    BY SchemaFacts
  <1>3. /\ u \in Tables /\ row \in Rows
        /\ tables' = [tables EXCEPT ![u] = Put(u, tables[u], row)]
    BY InsertFacts
  <1>4. CASE u # p
    BY <1>1, <1>2, <1>3, <1>4 DEF Refers, IInv, TypeOK
  <1>5. CASE u = p
    <2>1. tables'[p] = Put(p, tables[p], row)
      BY <1>2, <1>3, <1>5 DEF IInv, TypeOK
    <2>2. CASE KeyOf(p, x) = KeyOf(p, row)
      <3>1. x.by = row.by
        BY <1>2, <2>2 DEF KeyOf
      <3>2. row \in tables'[p]
        BY <2>1 DEF Put
      <3>3. QED
        BY <1>1, <3>1, <3>2 DEF Refers
    <2>3. CASE KeyOf(p, x) # KeyOf(p, row)
      <3>1. x \in tables'[p]
        BY <1>1, <2>1, <2>3 DEF Put
      <3>2. QED
        BY <1>1, <3>1 DEF Refers
    <2>4. QED
      BY <2>2, <2>3
  <1>6. QED
    BY <1>4, <1>5

(* What a call refers to is what a row of the same table would refer to.   *)
LEMMA DanglingIs ==
    ASSUME NEW ts, NEW c
    PROVE  Dangling(ts, c) <=> /\ Schema[c.table].checked /\ c.ref # NoRef
                               /\ ~Refers(ts, [table |-> c.table, ref |-> c.ref])
  BY DEF Dangling, Refers

(* References still exist: the row that was looked up is still there when  *)
(* the one that refers to it is inserted.                                  *)
LEMMA ReferencesStep == ASSUME IInv, [Next]_vars PROVE ReferencesExist'
  <1>1. ASSUME NEW r \in Requests, Insert(r) PROVE ReferencesExist'
    <2> SUFFICES ASSUME NEW t \in Tables, NEW x \in tables'[t], Schema[t].checked, x.ref # NoRef
                 PROVE  Refers(tables', [table |-> t, ref |-> x.ref])
      BY DEF ReferencesExist
    <2> DEFINE u == call[r].table
               row == NewRow(r, call[r])
    <2>1. /\ u \in Tables /\ row.ref = call[r].ref
          /\ tables' = [tables EXCEPT ![u] = Put(u, tables[u], row)]
      BY <1>1, InsertFacts
    <2>2. x \in tables[t] \/ (t = u /\ x = row)
      BY <2>1 DEF Put, IInv, TypeOK
    <2>3. Refers(tables, [table |-> t, ref |-> x.ref])
      <3>1. CASE x \in tables[t]
        BY <3>1 DEF IInv, ReferencesExist
      <3>2. CASE t = u /\ x = row
        <4>1. ~Dangling(tables, call[r])
          BY <1>1 DEF Insert, IInv, ThreadOK
        <4>2. QED
          BY <2>1, <3>2, <4>1, DanglingIs
      <3>3. QED
        BY <2>2, <3>1, <3>2
    <2>4. QED
      BY <1>1, <2>3, InsertKeepsRefers
  <1>2. CASE Restart
    BY <1>2 DEF Restart, ReferencesExist
  <1>3. ASSUME UNCHANGED tables PROVE ReferencesExist'
    BY <1>3 DEF IInv, ReferencesExist, Refers
  <1>4. ASSUME NEW r \in Requests, \/ Check(r) \/ Refuse(r) \/ ListAll(r) \/ Begin(r)
                                   \/ Visit(r) \/ Finish(r) \/ Fail(r)
                                   \/ \E c \in Menu[r] : Arrive(r, c)
        PROVE  UNCHANGED tables
    BY <1>4 DEF Check, Refuse, ListAll, Begin, Visit, Finish, Fail, Arrive
  <1>5. QED
    BY <1>1, <1>2, <1>3, <1>4 DEF Next, Handle, vars

(* What threads know stays right. *)
LEMMA ThreadStep ==
    ASSUME IInv, [Next]_vars, NEW q \in Requests
    PROVE  ThreadOK(q)'
  <1> USE DEF ThreadOK, Listing, Table
  <1>t. /\ ThreadOK(q) /\ pc \in [Requests -> {"idle", "called", "insert", "iterate", "done"}]
        /\ call \in [Requests -> Calls \cup {NoCall}] /\ answer \in [Requests -> Answers]
        /\ tables \in [Tables -> SUBSET Rows]
        /\ contents \in [Requests -> SUBSET SUBSET Rows]
    BY DEF IInv, TypeOK
  <1>n. \A st \in {200, 201, 404, 500} : \A rows : [status |-> st, rows |-> rows] # NoAnswer
    BY DEF NoAnswer
  <1>1. ASSUME NEW r \in Requests, NEW c \in Menu[r], Arrive(r, c) PROVE ThreadOK(q)'
    <2>1. c \in Calls /\ c # NoCall
      BY MenuAssumption, CallFacts
    <2>2. CASE q = r
      <3>1. c.op = "list" => contents'[q] = {tables[c.table]}
        BY <1>1, <1>t, <2>2 DEF Arrive, Witnessed
      <3>2. QED
        BY <1>1, <1>t, <2>1, <2>2, <3>1 DEF Arrive
    <2>3. CASE q # r
      BY <1>1, <1>t, <2>3 DEF Arrive
    <2>4. QED
      BY <2>2, <2>3
  <1>2. ASSUME NEW r \in Requests, Check(r) PROVE ThreadOK(q)'
    BY <1>2, <1>t DEF Check, Refuses
  <1>3. ASSUME NEW r \in Requests, Refuse(r) PROVE ThreadOK(q)'
    BY <1>3, <1>t, <1>n DEF Refuse, Answer
  <1>4. ASSUME NEW r \in Requests, Insert(r) PROVE ThreadOK(q)'
    <2>1. CASE q = r
      BY <1>4, <1>t, <1>n, <2>1 DEF Insert, Answer
    <2>2. CASE q # r
      <3> DEFINE t == call[r].table
                 new == Put(t, tables[t], NewRow(r, call[r]))
      <3>1. pc'[q] = pc[q] /\ call'[q] = call[q] /\ answer'[q] = answer[q]
        BY <1>4, <1>t, <2>2 DEF Insert, Answer
      <3>2. pc[q] = "insert" => ~Dangling(tables', call[q])
        <4> SUFFICES ASSUME pc[q] = "insert" PROVE ~Dangling(tables', call[q])
          OBVIOUS
        <4>1. call[q].table \in Tables
          BY Called
        <4>2. QED
          BY <1>4, <1>t, <4>1, InsertKeepsRefers, DanglingIs
      <3>3. Listing(q) => Table(q)' \in contents'[q]
        <4> SUFFICES ASSUME Listing(q) PROVE tables'[call[q].table] \in contents'[q]
          BY <3>1
        <4>1. call[q].table \in Tables /\ tables[call[q].table] \in contents[q]
          BY <1>t, Called
        <4>2. /\ t \in Tables /\ tables' = [tables EXCEPT ![t] = new] /\ new \in SUBSET Rows
              /\ contents' = Extended(contents, call, t, new)
          BY <1>4, InsertFacts
        <4> HIDE DEF new, t
        <4>3. /\ contents[q] \subseteq contents'[q]
              /\ call[q].table = t => new \in contents'[q]
          BY <1>t, <4>1, <4>2, ExtendedFacts
        <4>4. QED
          BY <1>t, <4>1, <4>2, <4>3
      <3>4. QED
        BY <1>t, <3>1, <3>2, <3>3
    <2>3. QED
      BY <2>1, <2>2
  <1>5. ASSUME NEW r \in Requests, ListAll(r) \/ Finish(r) \/ Fail(r) PROVE ThreadOK(q)'
    <2>1. /\ UNCHANGED <<tables, call>>
          /\ q # r => pc'[q] = pc[q] /\ answer'[q] = answer[q] /\ contents'[q] = contents[q]
          /\ q = r => pc'[q] = "done" /\ answer'[q] # NoAnswer /\ pc[q] # "idle"
      BY <1>5, <1>t, <1>n DEF ListAll, Finish, Fail, Answer, End
    <2>2. QED
      BY <1>t, <2>1
  <1>6. ASSUME NEW r \in Requests, Begin(r) \/ Visit(r) PROVE ThreadOK(q)'
    BY <1>6, <1>t DEF Begin, Visit
  <1>7. CASE Restart
    <2>1. Lost # NoAnswer
      BY DEF Lost, NoAnswer
    <2>2. QED
      BY <1>7, <1>t, <2>1 DEF Restart
  <1>8. CASE UNCHANGED vars
    BY <1>8, <1>t DEF vars
  <1>9. QED
    BY <1>1, <1>2, <1>3, <1>4, <1>5, <1>6, <1>7, <1>8 DEF Next, Handle

(* One turn of the comprehension takes the row now under a key, which need *)
(* not be the row found at the start; but it matches if that one did.      *)
LEMMA VisitStep ==
    ASSUME IInv, NEW q \in Requests, Visit(q)
    PROVE  IterationOK(q)'
  <1> DEFINE t == call[q].table
             ref == call[q].ref
  <1>1. PICK row \in tables[t] :
            /\ KeyOf(t, row) \in left[q]
            /\ left' = [left EXCEPT ![q] = @ \ {KeyOf(t, row)}]
            /\ items' = [items EXCEPT ![q] = IF row.ref = ref THEN @ \cup {row} ELSE @]
    BY DEF Visit, Wanted, Table
  <1>2. pc[q] = "iterate" /\ UNCHANGED <<tables, call, size, contents>>
    BY DEF Visit, Wanted
  <1>3. /\ IterationOK(q) /\ call[q].op = "list" /\ t \in Tables
        /\ tables[t] \in contents[q] /\ tables[t] \subseteq Rows
    BY <1>2, Called DEF IInv, ThreadOK, Listing, Table
  <1>4. PICK then \in contents[q] : Visited(q, then)
    BY <1>3 DEF IterationOK
  <1>5. then \subseteq Rows /\ \A x \in then : Made(x)
    BY DEF IInv, TypeOK, MadeOK
  <1>6. row \in Rows /\ Made(row)
    BY <1>3 DEF IInv, MadeOK
  <1>7. /\ left'[q] = left[q] \ {KeyOf(t, row)}
        /\ items'[q] = IF row.ref = ref THEN items[q] \cup {row} ELSE items[q]
    BY <1>1 DEF IInv, TypeOK
  <1>8. KeyOf(t, row) \in Keys(t, Matching(then, ref)) <=> row.ref = ref \/ ref = NoRef
    <2>1. PICK x \in then : KeyOf(t, x) = KeyOf(t, row)
      BY <1>1, <1>4 DEF Visited, Keys, IInv, TypeOK
    <2>2. \A y \in then : KeyOf(t, y) = KeyOf(t, row) => y.ref = row.ref
      BY <1>5, <1>6, SameKey
    <2>3. QED
      BY <2>1, <2>2 DEF Keys, Matching, Matches
  <1>9. ref # NoRef
    BY <1>2 DEF IInv, ThreadOK
  <1>10. Keys(t, items'[q]) = Keys(t, Matching(then, ref)) \ left'[q]
    <2>1. Keys(t, items[q]) = Keys(t, Matching(then, ref)) \ left[q]
      BY <1>4 DEF Visited
    <2>2. CASE row.ref = ref
      <3>1. Keys(t, items'[q]) = Keys(t, items[q]) \cup {KeyOf(t, row)}
        BY <1>7, <2>2 DEF Keys
      <3>2. QED
        BY <1>1, <1>7, <1>8, <2>1, <2>2, <3>1
    <2>3. CASE row.ref # ref
      BY <1>7, <1>8, <1>9, <2>1, <2>3
    <2>4. QED
      BY <2>2, <2>3
  <1>11. items'[q] \subseteq Matching(UNION contents[q], ref)
    BY <1>3, <1>7 DEF IterationOK, Matching, Matches
  <1>12. OnePerKey(t, items'[q])
    <2>1. OnePerKey(t, items[q]) /\ KeyOf(t, row) \notin Keys(t, items[q])
      BY <1>1, <1>3, <1>4 DEF IterationOK, Visited
    <2>2. QED
      BY <1>7, <2>1 DEF OnePerKey, Keys
  <1>13. QED
    BY <1>2, <1>4, <1>10, <1>11, <1>12 DEF IterationOK, Visited

(* What iterations have stays right. *)
LEMMA IterationStep ==
    ASSUME IInv, [Next]_vars, NEW q \in Requests
    PROVE  /\ (pc[q] = "iterate" => IterationOK(q))'
           /\ (pc[q] # "iterate" => items[q] = {})'
  <1> DEFINE Goal == /\ (pc[q] = "iterate" => IterationOK(q))'
                     /\ (pc[q] # "iterate" => items[q] = {})'
  <1>t. /\ pc \in [Requests -> {"idle", "called", "insert", "iterate", "done"}]
        /\ pc[q] = "iterate" => IterationOK(q)
        /\ pc[q] # "iterate" => items[q] = {}
    BY DEF IInv, TypeOK
  <1>k. ASSUME UNCHANGED <<pc[q], call[q], size[q], left[q], items[q]>>,
               contents[q] \subseteq contents'[q]
        PROVE  Goal
    <2>1. ASSUME pc[q] = "iterate" PROVE IterationOK(q)'
      <3>1. PICK then \in contents[q] : Visited(q, then)
        BY <1>t, <2>1 DEF IterationOK
      <3>2. then \in contents'[q] /\ Visited(q, then)'
        BY <1>k, <3>1 DEF Visited
      <3>3. /\ items'[q] \subseteq Matching(UNION contents'[q], call'[q].ref)
            /\ OnePerKey(call'[q].table, items'[q])
        BY <1>k, <1>t, <2>1 DEF IterationOK, Matching
      <3>4. QED
        BY <3>2, <3>3 DEF IterationOK
    <2>2. QED
      BY <1>k, <1>t, <2>1
  <1>o. ASSUME NEW r \in Requests, r # q, Handle(r) \/ \E c \in Menu[r] : Arrive(r, c)
        PROVE  /\ UNCHANGED <<pc[q], call[q], size[q], left[q], items[q]>>
               /\ contents[q] \subseteq contents'[q]
    <2>1. CASE Insert(r)
      <3>1. contents[q] \subseteq contents'[q]
        BY <2>1, InsertFacts, ExtendedFacts DEF IInv, TypeOK
      <3>2. QED
        BY <1>o, <2>1, <3>1 DEF Insert, Answer, iteration, IInv, TypeOK
    <2>2. CASE Check(r) \/ Refuse(r) \/ \E c \in Menu[r] : Arrive(r, c)
      BY <1>o, <2>2 DEF Check, Refuse, Arrive, Answer, iteration, IInv, TypeOK
    <2>3. CASE Begin(r) \/ Visit(r)
      BY <1>o, <2>3 DEF Begin, Visit, IInv, TypeOK
    <2>4. CASE ListAll(r) \/ Finish(r) \/ Fail(r)
      BY <1>o, <2>4 DEF ListAll, Finish, Fail, Answer, End, IInv, TypeOK
    <2>5. QED
      BY <1>o, <2>1, <2>2, <2>3, <2>4 DEF Handle
  <1>1. CASE Begin(q)
    <2> DEFINE t == call[q].table
               now == Keys(t, tables[t])
    <2>1. /\ pc[q] = "called" /\ pc'[q] = "iterate" /\ size'[q] = now /\ left'[q] = now
          /\ UNCHANGED <<call, items, contents>>
      BY <1>1 DEF Begin, Table, IInv, TypeOK
    <2>2. items'[q] = {} /\ tables[t] \in contents[q]
      BY <1>1, <1>t, <2>1 DEF Begin, IInv, ThreadOK, Listing, Table
    <2>3. Keys(t, {}) = {} /\ Keys(t, Matching(tables[t], call[q].ref)) \subseteq now
      BY DEF Keys, Matching
    <2>4. QED
      BY <2>1, <2>2, <2>3 DEF IterationOK, Visited, OnePerKey
  <1>2. CASE Visit(q)
    <2>1. pc'[q] = "iterate"
      BY <1>2 DEF Visit
    <2>2. QED
      BY <1>2, <2>1, VisitStep
  <1>3. CASE ListAll(q) \/ Finish(q) \/ Fail(q)
    BY <1>3, <1>t DEF ListAll, Finish, Fail, Answer, End, IInv, TypeOK
  <1>4. ASSUME Check(q) \/ Refuse(q) \/ Insert(q) \/ \E c \in Menu[q] : Arrive(q, c) PROVE Goal
    BY <1>4, <1>t DEF Check, Refuse, Insert, Arrive, Answer, iteration
  <1>5. CASE Restart
    BY <1>5 DEF Restart, Nothing
  <1>6. CASE UNCHANGED vars
    BY <1>6, <1>k DEF vars, iteration
  <1>7. ASSUME NEW r \in Requests, Handle(r) \/ \E c \in Menu[r] : Arrive(r, c) PROVE Goal
    <2>1. CASE r = q
      BY <1>1, <1>2, <1>3, <1>4, <1>7, <2>1 DEF Handle
    <2>2. CASE r # q
      BY <1>k, <1>o, <1>7, <2>2
    <2>3. QED
      BY <2>1, <2>2
  <1>8. QED
    BY <1>5, <1>6, <1>7 DEF Next

(* The invariant is inductive. *)
LEMMA InvStep == ASSUME IInv, [Next]_vars PROVE IInv'
  BY TypeStep, ReferencesStep, MadeStep, ThreadStep, IterationStep DEF IInv

(* It holds of every run. *)
LEMMA Inductive == Spec => []IInv
  BY InitInv, InvStep, PTL DEF Spec

(* The tables are dictionaries, and all is of its type, whatever the       *)
(* requests and however often the process starts anew.                     *)
THEOREM BackendTypes == Spec => []TypeOK
  <1>1. IInv => TypeOK
    BY DEF IInv
  <1>2. QED
    BY Inductive, <1>1, PTL

(* A checked reference never dangles, although check and insertion are two *)
(* steps.                                                                  *)
THEOREM ReferencesAlwaysExist == Spec => []ReferencesExist
  <1>1. IInv => ReferencesExist
    BY DEF IInv
  <1>2. QED
    BY Inductive, <1>1, PTL

------------------------------------------------------------------------------

(* What AtomicStore computes with tables is what the backend does.         *)
LEMMA SameOperators ==
    /\ \A t, rows : Store!Keys(t, rows) = Keys(t, rows)
    /\ \A t, rows : Store!OnePerKey(t, rows) <=> OnePerKey(t, rows)
    /\ \A t, rows, row : Store!Put(t, rows, row) = Put(t, rows, row)
    /\ \A rows, ref : Store!Matching(rows, ref) = Matching(rows, ref)
    /\ \A r, c : Store!NewRow(r, c) = NewRow(r, c)
    /\ \A ts, c : Store!Dangling(ts, c) <=> Dangling(ts, c)
    /\ \A ts, c : Store!Witnessed(ts, c) = Witnessed(ts, c)
    /\ \A cs, cl, t, new : Store!Extended(cs, cl, t, new) = Extended(cs, cl, t, new)
  <1>1. \A t, row : Store!KeyOf(t, row) = KeyOf(t, row)
    BY SameTables DEF Store!KeyOf, KeyOf
  <1>2. \A t, rows : Store!Keys(t, rows) = Keys(t, rows)
    BY <1>1 DEF Store!Keys, Keys
  <1>3. \A t, rows : Store!OnePerKey(t, rows) <=> OnePerKey(t, rows)
    BY <1>1 DEF Store!OnePerKey, OnePerKey
  <1>4. \A t, rows, row : Store!Put(t, rows, row) = Put(t, rows, row)
    BY <1>1 DEF Store!Put, Put
  <1>5. \A rows, ref : Store!Matching(rows, ref) = Matching(rows, ref)
    BY DEF Store!Matching, Store!Matches, Matching, Matches
  <1>6. \A r, c : Store!NewRow(r, c) = NewRow(r, c)
    BY DEF Store!NewRow, NewRow
  <1>7. \A ts, c : Store!Dangling(ts, c) <=> Dangling(ts, c)
    BY SameTables DEF Store!Dangling, Store!Refers, Dangling, Refers
  <1>8. \A ts, c : Store!Witnessed(ts, c) = Witnessed(ts, c)
    BY DEF Store!Witnessed, Witnessed
  <1>9. \A cs, cl, t, new : Store!Extended(cs, cl, t, new) = Extended(cs, cl, t, new)
    BY DEF Store!Extended, Extended
  <1>10. QED
    BY <1>2, <1>3, <1>4, <1>5, <1>6, <1>7, <1>8, <1>9

(* A thread that answers is one that AtomicStore waits for. *)
LEMMA AnswerStep ==
    ASSUME IInv, NEW r \in Requests, NEW st, NEW rows,
           pc[r] \notin {"idle", "done"}, Answer(r, st, rows), UNCHANGED call
    PROVE  Store!Answer(r, st, rows)
  BY SameTables DEF Answer, Store!Answer, Store!Pending, IInv, ThreadOK

(* An iteration that ends answers with a row for each key that was in use  *)
(* when it began, each from a moment since the call.                       *)
LEMMA FinishStep ==
    ASSUME IInv, NEW r \in Requests, Finish(r)
    PROVE  Store!List(r)
  <1> DEFINE t == call[r].table
             ref == call[r].ref
  <1>1. /\ pc[r] = "iterate" /\ left[r] = {} /\ IterationOK(r) /\ call[r].op = "list"
        /\ Answer(r, 200, items[r]) /\ End(r) /\ UNCHANGED <<tables, call>>
    BY DEF Finish, IInv, ThreadOK
  <1>2. PICK then \in contents[r] : Keys(t, items[r]) = Keys(t, Matching(then, ref))
    BY <1>1 DEF IterationOK, Visited
  <1>3. items[r] \in SUBSET Matching(UNION contents[r], ref) /\ OnePerKey(t, items[r])
    BY <1>1 DEF IterationOK
  <1>4. Store!Answer(r, 200, items[r])
    BY <1>1, AnswerStep
  <1>5. contents' = [contents EXCEPT ![r] = {}]
    BY <1>1 DEF End
  <1>6. QED
    BY <1>1, <1>2, <1>3, <1>4, <1>5, SameOperators DEF Store!List

(* An unfiltered listing is the content of the table at its only step.     *)
LEMMA ListAllStep ==
    ASSUME IInv, NEW r \in Requests, ListAll(r)
    PROVE  Store!List(r)
  <1> DEFINE t == call[r].table
  <1>1. /\ pc[r] = "called" /\ call[r].op = "list" /\ call[r].ref = NoRef
        /\ Answer(r, 200, tables[t]) /\ End(r) /\ UNCHANGED <<tables, call>>
    BY DEF ListAll, Table
  <1>2. tables[t] \in contents[r] /\ OnePerKey(t, tables[t])
    BY <1>1, Called DEF IInv, TypeOK, ThreadOK, Listing, Table
  <1>3. Matching(tables[t], NoRef) = tables[t]
    BY DEF Matching, Matches
  <1>4. tables[t] \in SUBSET Matching(UNION contents[r], NoRef)
    BY <1>2 DEF Matching, Matches
  <1>5. Store!Answer(r, 200, tables[t])
    BY <1>1, AnswerStep
  <1>6. contents' = [contents EXCEPT ![r] = {}]
    BY <1>1 DEF End
  <1>7. QED
    BY <1>1, <1>2, <1>3, <1>4, <1>5, <1>6, SameOperators DEF Store!List

(* Every step of the backend is one of AtomicStore, or shows nothing of    *)
(* what it speaks of.                                                      *)
LEMMA StoreStep == ASSUME IInv, [Next]_vars PROVE [Store!Next]_(Store!vars)
  <1> USE DEF Store!Next
  <1>s. ASSUME UNCHANGED <<tables, call, answer, contents>> PROVE UNCHANGED Store!vars
    BY <1>s DEF Store!vars
  <1>1. ASSUME NEW r \in Requests, NEW c \in Menu[r], Arrive(r, c) PROVE Store!Next
    <2>1. c \in Store!Calls /\ call[r] = Store!NoCall
      BY <1>1, MenuAssumption, SameTables DEF Arrive, IInv, ThreadOK
    <2>2. Store!Call(r, c)
      BY <1>1, <2>1, SameOperators DEF Arrive, Store!Call
    <2>3. QED
      BY <2>1, <2>2
  <1>2. ASSUME NEW r \in Requests, Check(r) \/ Begin(r) \/ Visit(r) PROVE UNCHANGED Store!vars
    BY <1>2, <1>s DEF Check, Begin, Visit
  <1>3. ASSUME NEW r \in Requests, Refuse(r) PROVE Store!Next
    <2>1. Store!Answer(r, 404, {})
      BY <1>3, AnswerStep DEF Refuse
    <2>2. Store!Refuse(r)
      BY <1>3, <2>1, SameOperators DEF Refuse, Refuses, Store!Refuse
    <2>3. QED
      BY <2>2
  <1>4. ASSUME NEW r \in Requests, Insert(r) PROVE Store!Next
    <2>1. call[r].op = "create" /\ ~Dangling(tables, call[r])
      BY <1>4 DEF Insert, IInv, ThreadOK
    <2>2. Store!Answer(r, 201, {NewRow(r, call[r])})
      BY <1>4, AnswerStep DEF Insert
    <2>3. Store!Create(r)
      BY <1>4, <2>1, <2>2, SameOperators DEF Insert, Table, Store!Create
    <2>4. QED
      BY <2>3
  <1>5. ASSUME NEW r \in Requests, ListAll(r) \/ Finish(r) PROVE Store!Next
    BY <1>5, ListAllStep, FinishStep
  <1>6. ASSUME NEW r \in Requests, Fail(r) PROVE Store!Next
    <2>1. /\ call[r].op = "list" /\ pc[r] = "iterate"
          /\ contents' = [contents EXCEPT ![r] = {}]
      BY <1>6 DEF Fail, End, IInv, ThreadOK
    <2>2. \E then \in contents[r] :
              Keys(call[r].table, then) # Keys(call[r].table, tables[call[r].table])
      BY <1>6, <2>1 DEF Fail, Grown, Table, IInv, IterationOK, Visited
    <2>3. Store!Answer(r, 500, {})
      BY <1>6, AnswerStep DEF Fail
    <2>4. Store!Fail(r)
      BY <1>6, <2>1, <2>2, <2>3, SameOperators DEF Fail, Store!Fail
    <2>5. QED
      BY <2>4
  <1>7. CASE Restart
    <2>1. \A r \in Requests : pc[r] \in {"idle", "done"} <=> ~Store!Pending(r)
      BY SameTables DEF Store!Pending, IInv, ThreadOK
    <2>2. Store!Restart
      BY <1>7, <2>1, SameTables DEF Restart, Nothing, Store!Restart
    <2>3. QED
      BY <2>2
  <1>8. CASE UNCHANGED vars
    BY <1>8, <1>s DEF vars
  <1>9. QED
    BY <1>1, <1>2, <1>3, <1>4, <1>5, <1>6, <1>7, <1>8 DEF Next, Handle

(* The demo backends implement AtomicStore: no interleaving of their       *)
(* threads shows in their answers, beyond a listing that fails when it is  *)
(* overtaken by a create, and a listing of branches that were overwritten. *)
THEOREM BackendsKeepStore == Spec => KeepsStore
  <1>1. Init => Store!Init
    BY SameTables DEF Init, Store!Init, Nothing
  <1>2. IInv /\ [Next]_vars => [Store!Next]_(Store!vars)
    BY StoreStep
  <1>3. QED
    BY Inductive, <1>1, <1>2, PTL DEF Spec, KeepsStore, Store!Spec
==============================================================================
