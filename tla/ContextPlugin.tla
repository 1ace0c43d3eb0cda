---------------------------- MODULE ContextPlugin ----------------------------
(***************************************************************************)
(* A context plugin of the Sovereign control plane: it lists a store page  *)
(* by page, reads what it listed object by object, and keeps the result    *)
(* for a while (services/sovereign/plugins/s3_context.py over the bucket   *)
(* of artifacts, secrets_context.py over Secrets Manager).  The two differ *)
(* in what they do about an object that is gone when they read it.         *)
(* Sovereign calls a plugin again and again, one call at a time; the       *)
(* store changes at any moment: for the artifacts these are the Write and  *)
(* Erase of OsbInstances.  Time is counted in ticks, up to Interval.       *)
(***************************************************************************)
EXTENDS Naturals, FiniteSets

CONSTANTS Keys,         \* names in the store, in listing order
          Ignored,      \* names the plugin passes over (no .yaml, no leaf)
          Values, Absent,
          Unparsable,   \* values that are no YAML or JSON
          PageSize,     \* names in one answer of the listing
          Interval,     \* refresh_interval
          NoCache,
          MaxEvents     \* bound: how often the store changes or fails

ASSUME PluginAssumption ==
    /\ Keys \subseteq Nat /\ IsFiniteSet(Keys)
    /\ Ignored \subseteq Keys
    /\ Absent \notin Values /\ Unparsable \subseteq Values
    /\ PageSize \in Nat \ {0} /\ Interval \in Nat \ {0}
    /\ MaxEvents \in Nat

VARIABLES skips,        \* the plugin skips an object that is gone: Secrets, not S3
          store,        \* what is there
          busy,         \* a refresh is running
          more,         \* IsTruncated, NextToken: another page is to be listed
          ahead,        \* the names after the continuation token
          page,         \* names listed and not yet read
          found,        \* the payload under construction
          elapsed,      \* ticks since the running refresh began
          cache,        \* _Cache.payload
          age,          \* ticks since _Cache.fetched_at
          events,       \* how often the store changed or failed
          during,       \* history: what names stood for while the refresh runs
          ago           \* history: ticks since a name stood for a value

refresh == <<busy, more, ahead, page, found, elapsed, during>>
vars == <<skips, store, refresh, cache, age, events, ago>>

Contents == Values \cup {Absent}
Payloads == [Keys -> Contents]
Ticks == 0 .. Interval      \* Interval stands for at least that many

(* What a refresh collects: no name the plugin passes over, and nothing    *)
(* that does not parse (s3_context.py:58-64).                              *)
Results == {p \in Payloads : \A k \in Keys :
               p[k] \notin Unparsable /\ (k \in Ignored => p[k] = Absent)}

(* The type invariant: names and objects the plugin passes over get        *)
(* neither into a page nor into a payload.                                 *)
TypeOK ==
    /\ skips \in BOOLEAN
    /\ store \in Payloads
    /\ busy \in BOOLEAN /\ more \in BOOLEAN
    /\ ahead \subseteq Keys /\ page \subseteq Keys \ Ignored
    /\ found \in Results
    /\ elapsed \in Ticks /\ age \in Ticks
    /\ cache \in Results \cup {NoCache}
    /\ events \in 0 .. MaxEvents
    /\ during \in [Keys -> SUBSET Contents]
    /\ ago \in [Keys -> [Contents -> Ticks]]

Empty == [k \in Keys |-> Absent]

Init ==
    /\ skips \in BOOLEAN
    /\ store \in Payloads
    /\ busy = FALSE /\ more = FALSE
    /\ ahead = {} /\ page = {}
    /\ found = Empty /\ elapsed = 0
    /\ cache = NoCache /\ age = Interval
    /\ events = 0
    /\ during = [k \in Keys |-> {}]
    /\ ago = [k \in Keys |-> [v \in Contents |-> IF v = store[k] THEN 0 ELSE Interval]]

------------------------------------------------------------------------------

(* yaml.safe_load and json.loads; what they raise on is left out. *)
Parsed(v) == IF v \in Unparsable THEN Absent ELSE v

(* A cached payload is returned as it is, which changes nothing; mutant:   *)
(* the cache is never given up.                                            *)
StaleNever == cache = NoCache
Stale == cache = NoCache \/ age = Interval

(* The payload a refresh starts from; mutant: the payload of the last one. *)
StartFromCache == IF cache = NoCache THEN Empty ELSE cache
Start == Empty

Begin ==
    /\ ~busy
    /\ Stale
    /\ busy' = TRUE
    /\ more' = TRUE
    /\ ahead' = Keys
    /\ page' = {}
    /\ found' = Start
    /\ elapsed' = 0
    /\ during' = [k \in Keys |-> {store[k]}]
    /\ UNCHANGED <<skips, store, cache, age, events, ago>>

(* The first names of a listing. *)
FirstOf(names) == {k \in names : Cardinality({j \in names : j < k}) < PageSize}

(* The names of a page that are read; mutant: without the test of the name.*)
TakenAll(listed) == listed
Taken(listed) == listed \ Ignored

(* list_objects_v2, list_secrets: the next page of what is there now. *)
List ==
    LET present == {k \in ahead : store[k] # Absent}
        listed == FirstOf(present)
    IN /\ busy /\ more /\ page = {}
       /\ page' = Taken(listed)
       /\ more' = (listed # present)
       /\ ahead' = {k \in ahead : \A j \in listed : j < k}
       /\ UNCHANGED <<skips, store, busy, found, elapsed, during, cache, age, events, ago>>

(* The first object of the page is there and is read, or is gone and is    *)
(* skipped.                                                                *)
Get ==
    \E k \in page :
        /\ busy
        /\ \A j \in page : k <= j
        /\ store[k] # Absent \/ skips
        /\ page' = page \ {k}
        /\ found' = [found EXCEPT ![k] = Parsed(store[k])]
        /\ UNCHANGED <<skips, store, busy, more, ahead, elapsed, during, cache, age, events, ago>>

(* A refresh ends, with its local variables. *)
Return ==
    /\ busy' = FALSE /\ more' = FALSE
    /\ ahead' = {} /\ page' = {}
    /\ found' = Empty /\ elapsed' = 0
    /\ during' = [k \in Keys |-> {}]

(* It is gone: get_object raises, which ends the refresh. *)
Raise ==
    \E k \in page :
        /\ busy
        /\ \A j \in page : k <= j
        /\ store[k] = Absent /\ ~skips
        /\ Return
        /\ UNCHANGED <<skips, store, cache, age, events, ago>>

(* fetched_at is the time at which the refresh began; mutant: at which it  *)
(* ended.                                                                  *)
FetchedAtEnd == 0
FetchedAt == elapsed

Finish ==
    /\ busy /\ ~more /\ page = {}
    /\ cache' = found
    /\ age' = FetchedAt
    /\ Return
    /\ UNCHANGED <<skips, store, events, ago>>

(* A call to the store fails for good, which ends the refresh. *)
Fail ==
    /\ busy /\ (more \/ page # {})
    /\ events < MaxEvents
    /\ events' = events + 1
    /\ Return
    /\ UNCHANGED <<skips, store, cache, age, ago>>

(* The worker, or whoever rotates secrets, writes or removes an object. *)
Change(k, v) ==
    /\ events < MaxEvents
    /\ v # store[k]
    /\ events' = events + 1
    /\ store' = [store EXCEPT ![k] = v]
    /\ during' = IF busy THEN [during EXCEPT ![k] = @ \cup {v}] ELSE during
    /\ ago' = [ago EXCEPT ![k] = [@ EXCEPT ![v] = 0]]
    /\ UNCHANGED <<skips, busy, more, ahead, page, found, elapsed, cache, age>>

(* Time is told apart up to the interval. *)
Later(t) == IF t < Interval THEN t + 1 ELSE t

Tick ==
    /\ elapsed' = IF busy THEN Later(elapsed) ELSE elapsed
    /\ age' = Later(age)
    /\ ago' = [k \in Keys |-> [v \in Contents |-> IF v = store[k] THEN 0 ELSE Later(ago[k][v])]]
    /\ UNCHANGED <<skips, store, busy, more, ahead, page, found, during, cache, events>>

Step == Begin \/ List \/ Get \/ Raise \/ Finish

Next == \/ Step \/ Fail \/ Tick
        \/ \E k \in Keys, v \in Contents : Change(k, v)

Spec == Init /\ [][Next]_vars

(* Sovereign keeps calling the plugin, and time passes. *)
FairSpec == Spec /\ WF_vars(Step) /\ WF_vars(Tick)

------------------------------------------------------------------------------
(* Properties. *)

(* Under every name, a complete payload has what the name stood for at     *)
(* some moment of the refresh: no mixture with an earlier payload, and no  *)
(* object lost between two pages (s3_context.py:50-68).                    *)
Legible(k) == \E v \in during[k] : found[k] = Parsed(v)
RefreshIsRegular ==
    busy /\ ~more /\ page = {} => \A k \in Keys \ Ignored : Legible(k)

(* A payload that is returned from the cache was right, name by name, not  *)
(* longer ago than its refresh began: never longer than refresh_interval   *)
(* (s3_context.py:46-48, 70).                                              *)
CacheIsRecent ==
    cache # NoCache /\ age < Interval =>
        \A k \in Keys \ Ignored :
            \E v \in Contents : cache[k] = Parsed(v) /\ ago[k][v] <= age

(* Once the store stays as it is, the plugin returns just that: no         *)
(* artifact written by the worker is missed for ever and no erased one is  *)
(* served for ever.                                                        *)
Current == /\ cache # NoCache
           /\ \A k \in Keys \ Ignored : cache[k] = Parsed(store[k])
CatchesUp == <>[]Current
==============================================================================
