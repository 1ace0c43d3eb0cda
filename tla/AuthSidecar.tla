----------------------------- MODULE AuthSidecar -----------------------------
(***************************************************************************)
(* The ext_authz sidecar (services/auth-sidecar/src/main.rs): concurrent   *)
(* checks of bearer tokens share a cached copy of the key set that the     *)
(* identity provider publishes, while the provider rotates its keys.  A    *)
(* token is the name of the key it is signed with; what the jwt library    *)
(* finds out beyond the name is left open.  One action is what a check     *)
(* does up to its next await; only awaiting takes time.                    *)
(***************************************************************************)
EXTENDS Naturals

CONSTANTS Checks,       \* requests of Envoy
          Keys,         \* names of keys (kid)
          Decodable,    \* the RSA keys: of others the sidecar keeps nothing
          Lives,        \* when a key may be published: [from, until]
          Ttl,          \* cache_ttl
          Timeout,      \* the timeout of the HTTP client
          NoKey,        \* a request without bearer token or kid
          MaxTime       \* bound: checks are over by then

ASSUME SidecarAssumption ==
    /\ Decodable \subseteq Keys
    /\ Lives \subseteq [from : Nat, until : Nat]
    /\ Ttl \in Nat /\ Timeout \in Nat /\ MaxTime \in Nat
    /\ NoKey \notin Keys

VARIABLES clock,
          life,         \* when each key is published, fixed from the start
          kid,          \* the key of the token of a check, fixed from the start
          pc,           \* where the check is
          asked,        \* when its fetch of the key set began
          body,         \* the key set the provider answered it
          answer,       \* what it answered Envoy
          answered,     \* and when
          cache         \* AuthService.cache

check == <<pc, asked, body, answer, answered>>
vars == <<clock, life, kid, check, cache>>

Caches == [keys : SUBSET Keys, expires : Nat]
NoCache == [keys |-> {}, expires |-> 0]     \* None: expired from the start
Answers == {"none", "allow", "deny", "unknown kid", "failed"}

Awaiting(c) == pc[c] \in {"fetch", "body"}

(* Types, and no fetch that outlives the client's timeout.                 *)
TypeOK ==
    /\ clock \in Nat
    /\ life \in [Keys -> Lives]
    /\ kid \in [Checks -> Keys \cup {NoKey}]
    /\ pc \in [Checks -> {"new", "jwks", "fetch", "body", "done", "lost"}]
    /\ asked \in [Checks -> Nat]
    /\ body \in [Checks -> SUBSET Keys]
    /\ answer \in [Checks -> Answers]
    /\ answered \in [Checks -> Nat]
    /\ cache \in Caches
    /\ \A c \in Checks : Awaiting(c) => clock \in asked[c] .. asked[c] + Timeout

Init ==
    /\ clock = 0
    /\ life \in [Keys -> Lives]
    /\ kid \in [Checks -> Keys \cup {NoKey}]
    /\ pc = [c \in Checks |-> "new"]
    /\ asked = [c \in Checks |-> 0]
    /\ body = [c \in Checks |-> {}]
    /\ answer = [c \in Checks |-> "none"]
    /\ answered = [c \in Checks |-> 0]
    /\ cache = NoCache

(* The provider's key set at a time. *)
Published(k, t) == life[k].from <= t /\ t < life[k].until
KeysAt(t) == {k \in Keys : Published(k, t)}

------------------------------------------------------------------------------

Leave(c, step) == /\ pc' = [pc EXCEPT ![c] = step]
                  /\ asked' = [asked EXCEPT ![c] = 0]
                  /\ body' = [body EXCEPT ![c] = {}]

Answer(c, a) == /\ answer' = [answer EXCEPT ![c] = a]
                /\ answered' = [answered EXCEPT ![c] = clock]
                /\ Leave(c, "done")

(* A key that is found verifies the token or does not. *)
Verify(c, keys) ==
    \/ kid[c] \notin keys /\ Answer(c, "unknown kid")
    \/ kid[c] \in keys /\ \E a \in {"allow", "deny"} : Answer(c, a)

(* check looks at the headers, verify at the header of the token. *)
Arrive(c) ==
    /\ pc[c] = "new"
    /\ clock + Timeout <= MaxTime
    /\ \/ kid[c] = NoKey /\ Answer(c, "deny")
       \/ /\ kid[c] # NoKey
          /\ pc' = [pc EXCEPT ![c] = "jwks"]
          /\ UNCHANGED <<asked, body, answer, answered>>
    /\ UNCHANGED <<clock, life, kid, cache>>

(* The cache is used until it expires; mutant: for ever. *)
FilledOnce == cache # NoCache
Fresh == clock < cache.expires

Hit(c) ==
    /\ pc[c] = "jwks"
    /\ Fresh
    /\ Verify(c, cache.keys)
    /\ UNCHANGED <<clock, life, kid, cache>>

(* The lock is released: other checks that miss fetch as well; mutant: a   *)
(* check fetches without a look at the cache.                              *)
MissAnyway(c) ==
    /\ pc[c] = "jwks"
    /\ pc' = [pc EXCEPT ![c] = "fetch"]
    /\ asked' = [asked EXCEPT ![c] = clock]
    /\ UNCHANGED <<clock, life, kid, body, answer, answered, cache>>
Miss(c) ==
    /\ pc[c] = "jwks"
    /\ ~Fresh
    /\ pc' = [pc EXCEPT ![c] = "fetch"]
    /\ asked' = [asked EXCEPT ![c] = clock]
    /\ UNCHANGED <<clock, life, kid, body, answer, answered, cache>>

(* The provider answers; the answer is on its way. *)
Respond(c) ==
    /\ pc[c] = "fetch"
    /\ pc' = [pc EXCEPT ![c] = "body"]
    /\ body' = [body EXCEPT ![c] = KeysAt(clock)]
    /\ UNCHANGED <<clock, life, kid, asked, answer, answered, cache>>

(* The answer arrives, is stored over whatever is in the cache, and used. *)
Store(c) ==
    LET decoded == body[c] \cap Decodable
    IN /\ pc[c] = "body"
       /\ cache' = [keys |-> decoded, expires |-> clock + Ttl]
       /\ Verify(c, decoded)
       /\ UNCHANGED <<clock, life, kid>>

(* An error status, an unreadable body, no connection. *)
FetchFails(c) ==
    /\ Awaiting(c)
    /\ Answer(c, "failed")
    /\ UNCHANGED <<clock, life, kid, cache>>

(* The HTTP client gives up; mutant: it has no timeout. *)
NeverOverdue(c) == FALSE
Overdue(c) == Awaiting(c) /\ clock >= asked[c] + Timeout

GiveUp(c) == Overdue(c) /\ FetchFails(c)

(* Envoy cancels a check that takes too long for it. *)
Cancel(c) ==
    /\ Awaiting(c)
    /\ Leave(c, "lost")
    /\ UNCHANGED <<clock, life, kid, answer, answered, cache>>

(* The sidecar dies and is started again, with an empty cache. *)
Restart ==
    /\ cache' = NoCache
    /\ pc' = [c \in Checks |-> IF pc[c] \in {"new", "done"} THEN pc[c] ELSE "lost"]
    /\ asked' = [c \in Checks |-> 0]
    /\ body' = [c \in Checks |-> {}]
    /\ UNCHANGED <<clock, life, kid, answer, answered>>

(* Time passes while every check awaits something, up to its deadline. *)
Tick ==
    /\ clock < MaxTime
    /\ \A c \in Checks : pc[c] # "jwks" /\ ~Overdue(c)
    /\ clock' = clock + 1
    /\ UNCHANGED <<life, kid, check, cache>>

Step(c) == Hit(c) \/ Miss(c) \/ Store(c) \/ GiveUp(c)

Next == \/ Tick \/ Restart
        \/ \E c \in Checks : \/ Arrive(c) \/ Step(c)
                             \/ Respond(c) \/ FetchFails(c) \/ Cancel(c)

Spec == Init /\ [][Next]_vars

(* The sidecar runs and time passes; the provider may never answer. *)
FairSpec == Spec /\ WF_vars(Tick) /\ \A c \in Checks : WF_vars(Step(c))

------------------------------------------------------------------------------
(* Properties. *)

(* A token is accepted only under a key that was published, and refused    *)
(* for its unknown key only if that key was not published, at some moment  *)
(* within the cache's lifetime and the client's timeout before the answer, *)
(* in whatever order concurrent fetches end (main.rs:99-140).              *)
Recent(s, t) == s <= t /\ t <= s + Timeout + Ttl

AnswersAreRecent ==
    \A c \in Checks :
        /\ answer[c] = "allow" =>
              \E s \in 0 .. clock : Recent(s, answered[c]) /\ Published(kid[c], s)
        /\ answer[c] = "unknown kid" /\ kid[c] \in Decodable =>
              \E s \in 0 .. clock : Recent(s, answered[c]) /\ ~Published(kid[c], s)

(* Every check is answered or lost, although the provider may be silent.   *)
ChecksEnd == \A c \in Checks : pc[c] = "jwks" ~> pc[c] \in {"done", "lost"}

(* A key set that is fresh is replaced only by a fetch that had begun when *)
(* it was stored, and then by its check: the lock, released between the    *)
(* look at the cache and the store, lets no other fetch through            *)
(* (main.rs:99-132).                                                      *)
RefetchesOverlap ==
    [][Fresh /\ cache' \notin {cache, NoCache} =>
          \E c \in Checks : /\ Awaiting(c) /\ pc'[c] = "done"
                           /\ asked[c] + Ttl <= cache.expires]_vars

(* A key set in the cache stays there until it expires or the sidecar dies *)
(* (services/auth-sidecar/README.md: "fetched once on first request and    *)
(* cached for five minutes").                                              *)
FetchedOnce == [][Fresh => cache' \in {cache, NoCache}]_vars
==============================================================================
