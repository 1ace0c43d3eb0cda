-------------------------- MODULE ContextPluginProofs --------------------------
(***************************************************************************)
(* What a context plugin returns was in the store: for any store, page     *)
(* size, refresh interval and number of changes and failures.              *)
(***************************************************************************)
EXTENDS ContextPlugin, FiniteSetTheorems, TLAPS

(* A page has the first names of a listing: none is passed over.           *)
LEMMA FirstNames ==
    ASSUME NEW names \in SUBSET Keys,
           NEW j \in FirstOf(names), NEW k \in names \ FirstOf(names)
    PROVE  j < k
  <1>0. names \subseteq Nat /\ j \in Nat /\ k \in Nat
    BY PluginAssumption DEF FirstOf
  <1> DEFINE Below(n) == {i \in names : i < n}
  <1>1. IsFiniteSet(names)
    BY PluginAssumption, FS_Subset
  <1>2. SUFFICES ASSUME ~(j < k) PROVE FALSE
    OBVIOUS
  <1>3. Below(k) \subseteq Below(j) /\ Below(j) \subseteq names
    <2>1. ASSUME NEW i \in names, i < k PROVE i < j
      <3>1. i \in Nat
        BY <1>0
      <3>2. QED
        BY <1>0, <1>2, <2>1, <3>1
    <2>2. QED
      BY <2>1
  <1>4. IsFiniteSet(Below(j))
    BY <1>1, <1>3, FS_Subset
  <1>5. IsFiniteSet(Below(k)) /\ Cardinality(Below(k)) <= Cardinality(Below(j))
    BY <1>3, <1>4, FS_Subset
  <1>6. Cardinality(Below(k)) \in Nat /\ Cardinality(Below(j)) \in Nat
    BY <1>4, <1>5, FS_CardinalityType
  <1>7. Cardinality(Below(j)) < PageSize /\ ~(Cardinality(Below(k)) < PageSize)
    BY DEF FirstOf
  <1>8. QED
    BY <1>5, <1>6, <1>7, PluginAssumption

(* Time that passes stays in the ticks told apart. *)
LEMMA LaterType == ASSUME NEW t \in Ticks
                   PROVE  Later(t) \in Ticks
  BY PluginAssumption DEF Later, Ticks

(* What is parsed is a content again, and one that parses. *)
LEMMA ParsedType ==
    ASSUME NEW v \in Contents
    PROVE  Parsed(v) \in Contents /\ Parsed(v) \notin Unparsable
  BY PluginAssumption DEF Parsed, Contents

(* A refresh starts from nothing. *)
LEMMA EmptyType == Empty \in Payloads /\ Empty \in Results
  BY PluginAssumption DEF Empty, Payloads, Results, Contents

(* The types hold at the start. *)
LEMMA TypeInit == ASSUME Init PROVE TypeOK
  <1>1. Empty \in Results
    BY EmptyType
  <1>2. 0 \in Ticks /\ Interval \in Ticks
    BY PluginAssumption DEF Ticks
  <1>3. ago \in [Keys -> [Contents -> Ticks]]
    BY <1>2 DEF Init
  <1>4. skips \in BOOLEAN /\ busy \in BOOLEAN /\ more \in BOOLEAN
    BY DEF Init
  <1>5. /\ store \in Payloads /\ found \in Results
        /\ elapsed \in Ticks /\ age \in Ticks /\ cache = NoCache
    BY <1>1, <1>2 DEF Init
  <1>6. /\ ahead \subseteq Keys /\ page \subseteq Keys \ Ignored /\ events \in 0 .. MaxEvents
        /\ during \in [Keys -> SUBSET Contents]
    BY PluginAssumption DEF Init
  <1>7. QED
    BY <1>3, <1>4, <1>5, <1>6 DEF TypeOK

(* Every action keeps the types. *)
LEMMA TypeStep == ASSUME TypeOK, [Next]_vars PROVE TypeOK'
  <1> USE PluginAssumption
  <1>0. Empty \in Results /\ 0 \in Ticks
    BY EmptyType DEF Ticks
  <1>r. ASSUME Return PROVE (/\ busy \in BOOLEAN /\ more \in BOOLEAN
                             /\ ahead \subseteq Keys /\ page \subseteq Keys \ Ignored
                             /\ found \in Results /\ elapsed \in Ticks
                             /\ during \in [Keys -> SUBSET Contents])'
    BY <1>0, <1>r DEF Return
  <1>1. CASE Begin
    BY <1>0, <1>1 DEF Begin, TypeOK, Start, Payloads
  <1>2. CASE List
    BY <1>2 DEF List, TypeOK, FirstOf, Taken
  <1>3. CASE Get
    <2>1. PICK k \in page : /\ page' = page \ {k}
                            /\ found' = [found EXCEPT ![k] = Parsed(store[k])]
      BY <1>3 DEF Get
    <2>2. /\ Parsed(store[k]) \in Contents /\ Parsed(store[k]) \notin Unparsable
          /\ k \in Keys \ Ignored
      BY <2>1, ParsedType DEF TypeOK, Payloads
    <2>3. found' \in Results
      BY <2>1, <2>2 DEF TypeOK, Payloads, Results
    <2>4. QED
      BY <1>3, <2>1, <2>3 DEF Get, TypeOK
  <1>4. CASE Raise
    BY <1>4, <1>r DEF Raise, TypeOK
  <1>5. CASE Finish
    BY <1>5, <1>r DEF Finish, TypeOK, FetchedAt
  <1>6. CASE Fail
    BY <1>6, <1>r DEF Fail, TypeOK
  <1>7. CASE Tick
    <2>1. elapsed' \in Ticks /\ age' \in Ticks
      BY <1>7, LaterType DEF Tick, TypeOK
    <2>2. ASSUME NEW k \in Keys, NEW v \in Contents
          PROVE  (IF v = store[k] THEN 0 ELSE Later(ago[k][v])) \in Ticks
      BY <1>0, LaterType DEF TypeOK
    <2>3. ago' \in [Keys -> [Contents -> Ticks]]
      BY <1>7, <2>2 DEF Tick
    <2>4. QED
      BY <1>7, <2>1, <2>3 DEF Tick, TypeOK
  <1>8. ASSUME NEW k \in Keys, NEW v \in Contents, Change(k, v) PROVE TypeOK'
    <2>1. ago' \in [Keys -> [Contents -> Ticks]]
      BY <1>0, <1>8 DEF Change, TypeOK
    <2>2. during' \in [Keys -> SUBSET Contents]
      BY <1>8 DEF Change, TypeOK
    <2>3. QED
      BY <1>8, <2>1, <2>2 DEF Change, TypeOK, Payloads
  <1>9. CASE UNCHANGED vars
    BY <1>9 DEF vars, refresh, TypeOK
  <1>10. QED
    BY <1>1, <1>2, <1>3, <1>4, <1>5, <1>6, <1>7, <1>8, <1>9 DEF Next, Step

(* Type correctness of a context plugin. *)
THEOREM PluginTypes == Spec => []TypeOK
  BY TypeInit, TypeStep, PTL DEF Spec

------------------------------------------------------------------------------
(* Where a name stands in a running refresh: listed and not yet read, still *)
(* to be listed, or settled.                                                *)
DuringOK == busy => \A k \in Keys : store[k] \in during[k]
Placed(k) == \/ k \in page
             \/ more /\ k \in ahead /\ found[k] = Absent
             \/ Legible(k)
RefreshOK == busy => \A k \in Keys \ Ignored : Placed(k)

(* The history of ticks: what a name stood for during a refresh it stood    *)
(* for no longer ago than the refresh began.                                *)
AgoOK == /\ \A k \in Keys : ago[k][store[k]] = 0
         /\ busy /\ elapsed < Interval =>
               \A k \in Keys : \A v \in during[k] : ago[k][v] <= elapsed

PluginInv == TypeOK /\ DuringOK /\ RefreshOK /\ AgoOK /\ CacheIsRecent

(* No refresh is running at the start, and the history is exact. *)
LEMMA InitPlugin == ASSUME Init PROVE PluginInv
  <1>1. TypeOK
    BY TypeInit
  <1>2. DuringOK /\ RefreshOK
    BY DEF Init, DuringOK, RefreshOK
  <1>3. AgoOK
    BY <1>1 DEF Init, AgoOK, TypeOK, Payloads
  <1>4. CacheIsRecent
    BY DEF Init, CacheIsRecent
  <1>5. QED
    BY <1>1, <1>2, <1>3, <1>4 DEF PluginInv

(* An object that is absent has nothing to parse. *)
LEMMA AbsentParsed == Parsed(Absent) = Absent
  BY PluginAssumption DEF Parsed

(* Each name keeps a place. *)
LEMMA RefreshStep ==
    ASSUME PluginInv, [Next]_vars
    PROVE  DuringOK' /\ RefreshOK'
  <1> USE DEF PluginInv, DuringOK, RefreshOK
  <1>r. ASSUME Return PROVE DuringOK' /\ RefreshOK'
    BY <1>r DEF Return
  <1>1. CASE Begin
    <2>1. DuringOK'
      BY <1>1 DEF Begin
    <2>2. ASSUME NEW k \in Keys PROVE (more /\ k \in ahead /\ found[k] = Absent)'
      BY <1>1, <2>2 DEF Begin, Start, Empty
    <2>3. QED
      BY <2>1, <2>2 DEF Placed
  <1>2. CASE List
    <2>1. DuringOK'
      BY <1>2 DEF List
    <2> DEFINE present == {k \in ahead : store[k] # Absent}
    <2>2. /\ page = {} /\ busy /\ UNCHANGED <<store, found, during>>
          /\ page' = FirstOf(present) \ Ignored
          /\ more' = (FirstOf(present) # present)
          /\ ahead' = {k \in ahead : \A j \in FirstOf(present) : j < k}
      BY <1>2 DEF List, Taken
    <2>3. ASSUME NEW k \in Keys \ Ignored PROVE Placed(k)'
      <3>1. CASE Legible(k)
        BY <2>2, <3>1 DEF Placed, Legible
      <3>2. CASE ~Legible(k)
        <4>1. k \in ahead /\ found[k] = Absent
          BY <2>2, <3>2 DEF Placed
        <4>2. store[k] # Absent
          BY <2>2, <3>2, <4>1, AbsentParsed DEF Legible
        <4>3. CASE k \in FirstOf(present)
          BY <2>2, <4>3 DEF Placed
        <4>4. CASE k \notin FirstOf(present)
          <5>1. k \in present /\ present \subseteq Keys
            BY <4>1, <4>2 DEF TypeOK
          <5>2. \A j \in FirstOf(present) : j < k
            BY <4>4, <5>1, FirstNames
          <5>3. k \in ahead' /\ more'
            BY <2>2, <4>1, <4>4, <5>1, <5>2
          <5>4. QED
            BY <2>2, <4>1, <5>3 DEF Placed
        <4>5. QED
          BY <4>3, <4>4
      <3>3. QED
        BY <3>1, <3>2
    <2>4. QED
      BY <2>1, <2>3
  <1>3. CASE Get
    <2>1. PICK k \in page : /\ page' = page \ {k}
                            /\ found' = [found EXCEPT ![k] = Parsed(store[k])]
                            /\ UNCHANGED <<store, busy, more, ahead, during>>
                            /\ busy
      BY <1>3 DEF Get
    <2>2. k \in Keys /\ found \in [Keys -> Contents]
      BY <2>1 DEF TypeOK, Results, Payloads
    <2>3. Legible(k)'
      BY <2>1, <2>2 DEF Legible
    <2>4. ASSUME NEW i \in Keys \ Ignored, i # k PROVE Placed(i)'
      BY <2>1, <2>2, <2>4 DEF Placed, Legible
    <2>5. QED
      BY <2>1, <2>3, <2>4 DEF Placed
  <1>4. CASE Raise
    BY <1>4, <1>r DEF Raise
  <1>5. CASE Finish
    BY <1>5, <1>r DEF Finish
  <1>6. CASE Fail
    BY <1>6, <1>r DEF Fail
  <1>7. CASE Tick
    BY <1>7 DEF Tick, Placed, Legible
  <1>8. ASSUME NEW k \in Keys, NEW v \in Contents, Change(k, v)
        PROVE  DuringOK' /\ RefreshOK'
    <2>1. /\ store' = [store EXCEPT ![k] = v]
          /\ busy => during' = [during EXCEPT ![k] = @ \cup {v}]
          /\ UNCHANGED <<busy, more, ahead, page, found>>
          /\ store \in [Keys -> Contents] /\ during \in [Keys -> SUBSET Contents]
      BY <1>8 DEF Change, TypeOK, Payloads
    <2>2. DuringOK'
      BY <2>1
    <2>3. ASSUME NEW i \in Keys \ Ignored, busy PROVE Placed(i)'
      <3>1. during[i] \subseteq during'[i]
        BY <2>1, <2>3
      <3>2. QED
        BY <2>1, <2>3, <3>1 DEF Placed, Legible
    <2>4. QED
      BY <2>1, <2>2, <2>3
  <1>9. CASE UNCHANGED vars
    BY <1>9 DEF vars, refresh, Placed, Legible
  <1>10. QED
    BY <1>1, <1>2, <1>3, <1>4, <1>5, <1>6, <1>7, <1>8, <1>9 DEF Next, Step

(* Two ages that grow together keep their order. *)
LEMMA LaterBound ==
    ASSUME NEW a \in Ticks, NEW e \in Ticks, a <= e, Later(e) < Interval
    PROVE  Later(a) <= Later(e) /\ e < Interval
  BY PluginAssumption DEF Later, Ticks

(* Time keeps its history. *)
LEMMA AgoStep ==
    ASSUME PluginInv, [Next]_vars
    PROVE  AgoOK'
  <1> USE DEF PluginInv, AgoOK
  <1>t. /\ ago \in [Keys -> [Contents -> Ticks]] /\ store \in [Keys -> Contents]
        /\ during \in [Keys -> SUBSET Contents]
        /\ elapsed \in Ticks /\ busy \in BOOLEAN
    BY DEF TypeOK, Payloads
  <1>r. ASSUME Return, UNCHANGED <<store, ago>> PROVE AgoOK'
    BY <1>r DEF Return
  <1>1. CASE Begin
    BY <1>1, <1>t DEF Begin
  <1>2. CASE List
    BY <1>2 DEF List
  <1>3. CASE Get
    BY <1>3 DEF Get
  <1>4. CASE Raise
    BY <1>4, <1>r DEF Raise
  <1>5. CASE Finish
    BY <1>5, <1>r DEF Finish
  <1>6. CASE Fail
    BY <1>6, <1>r DEF Fail
  <1>7. CASE Tick
    <2>1. ASSUME NEW k \in Keys, NEW v \in Contents
          PROVE  ago'[k][v] = IF v = store[k] THEN 0 ELSE Later(ago[k][v])
      BY <1>7 DEF Tick
    <2>2. \A k \in Keys : ago'[k][store'[k]] = 0
      BY <1>7, <1>t, <2>1 DEF Tick
    <2>3. ASSUME busy', elapsed' < Interval, NEW k \in Keys, NEW v \in during'[k]
          PROVE  ago'[k][v] <= elapsed'
      <3>1. busy /\ elapsed' = Later(elapsed) /\ v \in during[k] /\ v \in Contents
        BY <1>7, <1>t, <2>3 DEF Tick
      <3>2. ago[k][v] \in Ticks
        BY <1>t, <3>1
      <3>3. elapsed < Interval
        BY <1>t, <2>3, <3>1, PluginAssumption DEF Later, Ticks
      <3>4. ago[k][v] <= elapsed
        BY <3>1, <3>3
      <3>5. Later(ago[k][v]) <= elapsed'
        BY <1>t, <2>3, <3>1, <3>2, <3>4, LaterBound
      <3>6. 0 <= elapsed'
        BY <1>t, <3>1, LaterType DEF Ticks
      <3>7. QED
        BY <2>1, <3>1, <3>5, <3>6
    <2>4. QED
      BY <2>2, <2>3
  <1>8. ASSUME NEW k \in Keys, NEW v \in Contents, Change(k, v) PROVE AgoOK'
    <2>1. /\ store' = [store EXCEPT ![k] = v]
          /\ ago' = [ago EXCEPT ![k] = [@ EXCEPT ![v] = 0]]
          /\ busy => during' = [during EXCEPT ![k] = @ \cup {v}]
          /\ UNCHANGED <<busy, elapsed>>
      BY <1>8 DEF Change
    <2>2. ASSUME NEW i \in Keys, NEW u \in Contents
          PROVE  ago'[i][u] = IF i = k /\ u = v THEN 0 ELSE ago[i][u]
      BY <1>t, <2>1
    <2>3. \A i \in Keys : ago'[i][store'[i]] = 0
      BY <1>t, <2>1, <2>2
    <2>4. ASSUME busy, elapsed < Interval, NEW i \in Keys, NEW u \in during'[i]
          PROVE  ago'[i][u] <= elapsed
      <3>1. u \in during[i] \/ (i = k /\ u = v)
        BY <1>t, <2>1, <2>4
      <3>2. 0 <= elapsed
        BY <1>t DEF Ticks
      <3>3. QED
        BY <1>t, <2>2, <2>4, <3>1, <3>2
    <2>5. QED
      BY <2>1, <2>3, <2>4
  <1>9. CASE UNCHANGED vars
    BY <1>9 DEF vars, refresh
  <1>10. QED
    BY <1>1, <1>2, <1>3, <1>4, <1>5, <1>6, <1>7, <1>8, <1>9 DEF Next, Step

(* The cache is filled with a settled payload, and then only gets older. *)
LEMMA CacheStep ==
    ASSUME PluginInv, [Next]_vars
    PROVE  CacheIsRecent'
  <1> USE DEF PluginInv, CacheIsRecent
  <1>t. /\ ago \in [Keys -> [Contents -> Ticks]] /\ store \in [Keys -> Contents]
        /\ during \in [Keys -> SUBSET Contents]
        /\ elapsed \in Ticks /\ age \in Ticks
    BY DEF TypeOK, Payloads
  <1>1. CASE UNCHANGED <<cache, age, ago>>
    BY <1>1
  <1>2. CASE Finish
    <2>1. /\ busy /\ ~more /\ page = {} /\ cache' = found /\ age' = elapsed /\ ago' = ago
      BY <1>2 DEF Finish, FetchedAt
    <2>2. ASSUME elapsed < Interval, NEW k \in Keys \ Ignored
          PROVE  \E v \in Contents : found[k] = Parsed(v) /\ ago[k][v] <= elapsed
      <3>1. PICK v \in during[k] : found[k] = Parsed(v)
        BY <2>1 DEF RefreshOK, Placed, Legible
      <3>2. v \in Contents /\ ago[k][v] <= elapsed
        BY <1>t, <2>1, <2>2, <3>1 DEF AgoOK
      <3>3. QED
        BY <3>1, <3>2
    <2>3. QED
      BY <2>1, <2>2
  <1>3. CASE Tick
    <2>1. /\ cache' = cache /\ age' = Later(age)
          /\ \A k \in Keys, v \in Contents :
                ago'[k][v] = IF v = store[k] THEN 0 ELSE Later(ago[k][v])
      BY <1>3 DEF Tick
    <2>2. ASSUME cache # NoCache, Later(age) < Interval, NEW k \in Keys \ Ignored
          PROVE  \E v \in Contents : cache[k] = Parsed(v) /\ ago'[k][v] <= Later(age)
      <3>1. age < Interval
        BY <1>t, <2>2, PluginAssumption DEF Later, Ticks
      <3>2. PICK v \in Contents : cache[k] = Parsed(v) /\ ago[k][v] <= age
        BY <2>2, <3>1
      <3>3. Later(ago[k][v]) <= Later(age) /\ 0 <= Later(age)
        BY <1>t, <2>2, <3>2, LaterBound, LaterType DEF Ticks
      <3>4. QED
        BY <2>1, <3>2, <3>3
    <2>3. QED
      BY <2>1, <2>2
  <1>4. ASSUME NEW k \in Keys, NEW v \in Contents, Change(k, v) PROVE CacheIsRecent'
    <2>1. ASSUME NEW i \in Keys, NEW u \in Contents
          PROVE  ago'[i][u] = 0 \/ ago'[i][u] = ago[i][u]
      BY <1>4, <1>t DEF Change
    <2>2. UNCHANGED <<cache, age>> /\ 0 <= age
      BY <1>4, <1>t DEF Change, Ticks
    <2>3. QED
      BY <2>1, <2>2
  <1>5. QED
    BY <1>1, <1>2, <1>3, <1>4
    DEF Next, Step, Begin, List, Get, Raise, Fail, vars

(* The invariant holds in every reachable state. *)
LEMMA PluginInvariance == Spec => []PluginInv
  <1>1. PluginInv /\ [Next]_vars => PluginInv'
    BY TypeStep, RefreshStep, AgoStep, CacheStep DEF PluginInv
  <1>2. QED
    BY <1>1, InitPlugin, PTL DEF Spec

(* A complete payload has under every name what it stood for at some       *)
(* moment of the refresh (s3_context.py:50-68).                            *)
THEOREM RefreshesAreRegular == Spec => []RefreshIsRegular
  <1>1. PluginInv => RefreshIsRegular
    BY DEF PluginInv, TypeOK, RefreshOK, Placed, RefreshIsRegular
  <1>2. QED
    BY <1>1, PluginInvariance, PTL

(* A payload returned from the cache was right, name by name, within the   *)
(* last refresh_interval (s3_context.py:46-48, 70).                        *)
THEOREM CachedPayloadsAreRecent == Spec => []CacheIsRecent
  <1>1. PluginInv => CacheIsRecent
    BY DEF PluginInv
  <1>2. QED
    BY <1>1, PluginInvariance, PTL
================================================================================
