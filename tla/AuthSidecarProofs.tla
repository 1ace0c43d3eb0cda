-------------------------- MODULE AuthSidecarProofs --------------------------
(***************************************************************************)
(* For any number of checks, any keys and any times at which they are      *)
(* published: what the sidecar answers is recent.  The invariant says of   *)
(* every answer on its way, and of the cache while it may be used, at      *)
(* which moment it was the provider's key set.  At the end, how often the  *)
(* key set is fetched.                                                     *)
(***************************************************************************)
EXTENDS AuthSidecar, TLAPS

(* An answer on its way was the key set after the request for it. *)
Bodies ==
    \A c \in Checks : pc[c] = "body" =>
        \E s \in Nat : asked[c] <= s /\ s <= clock /\ body[c] = KeysAt(s)

(* A live cache is the key set of a moment, and expires in time for it. *)
CacheIsDated ==
    Fresh => \E s \in Nat : /\ s <= clock
                            /\ cache.expires <= s + Timeout + Ttl
                            /\ cache.keys = KeysAt(s) \cap Decodable

AnswerIsRecent(c) ==
    /\ answer[c] = "allow" =>
          \E s \in 0 .. clock : Recent(s, answered[c]) /\ Published(kid[c], s)
    /\ answer[c] = "unknown kid" /\ kid[c] \in Decodable =>
          \E s \in 0 .. clock : Recent(s, answered[c]) /\ ~Published(kid[c], s)

IInv == TypeOK /\ Bodies /\ CacheIsDated /\ AnswersAreRecent

------------------------------------------------------------------------------

(* A check that is over has only its pc changed, and holds no answer of    *)
(* the provider.                                                           *)
LEMMA LeaveTypes ==
    ASSUME TypeOK, NEW c \in Checks, NEW step \in {"done", "lost"}, Leave(c, step)
    PROVE  /\ pc' \in [Checks -> {"new", "jwks", "fetch", "body", "done", "lost"}]
           /\ asked' \in [Checks -> Nat]
           /\ body' \in [Checks -> SUBSET Keys]
           /\ pc'[c] = step
           /\ \A d \in Checks \ {c} : pc'[d] = pc[d] /\ asked'[d] = asked[d] /\ body'[d] = body[d]
BY DEF TypeOK, Leave

(* An answer is given to one check only, at the present time.              *)
LEMMA AnswerTypes ==
    ASSUME TypeOK, NEW c \in Checks, NEW a \in Answers, Answer(c, a)
    PROVE  /\ answer' \in [Checks -> Answers]
           /\ answered' \in [Checks -> Nat]
           /\ answer'[c] = a /\ answered'[c] = clock
           /\ \A d \in Checks \ {c} : answer'[d] = answer[d] /\ answered'[d] = answered[d]
           /\ Leave(c, "done")
BY DEF TypeOK, Answer

(* Whatever verification says, one answer is given.                        *)
LEMMA VerifyAnswers ==
    ASSUME NEW c \in Checks, NEW keys, Verify(c, keys)
    PROVE  \E a \in Answers :
              /\ Answer(c, a)
              /\ a = "allow" => kid[c] \in keys
              /\ a = "unknown kid" => kid[c] \notin keys
BY Zenon DEF Verify, Answers

(* Answering keeps the types and the timers.                               *)
LEMMA AnswerKeepsTypes ==
    ASSUME TypeOK, NEW c \in Checks, NEW a \in Answers, Answer(c, a),
           cache' \in Caches, UNCHANGED <<clock, life, kid>>
    PROVE  TypeOK'
<1>1. /\ pc' \in [Checks -> {"new", "jwks", "fetch", "body", "done", "lost"}]
      /\ asked' \in [Checks -> Nat]
      /\ body' \in [Checks -> SUBSET Keys]
      /\ pc'[c] = "done"
      /\ \A d \in Checks \ {c} : pc'[d] = pc[d] /\ asked'[d] = asked[d] /\ body'[d] = body[d]
  BY AnswerTypes, LeaveTypes
<1>2. \A d \in Checks : Awaiting(d)' => clock' \in asked'[d] .. asked'[d] + Timeout
  BY <1>1 DEF TypeOK, Awaiting
<1>. QED  BY <1>1, <1>2, AnswerTypes DEF TypeOK

(* Types, and no fetch that outlives the client's timeout.                 *)
LEMMA TypesNext == ASSUME TypeOK, [Next]_vars PROVE TypeOK'
<1>1. CASE UNCHANGED vars
  BY <1>1 DEF vars, check, TypeOK, Awaiting
<1>2. CASE Tick
  <2>1. clock' = clock + 1 /\ clock' \in Nat  BY <1>2 DEF Tick, TypeOK
  <2>2. ASSUME NEW c \in Checks, Awaiting(c)'
        PROVE  clock' \in asked'[c] .. asked'[c] + Timeout
    <3>1. Awaiting(c) /\ asked'[c] = asked[c]  BY <1>2, <2>2 DEF Tick, Awaiting, check
    <3>2. ~(clock >= asked[c] + Timeout)  BY <1>2, <3>1 DEF Tick, Overdue
    <3>3. clock \in asked[c] .. asked[c] + Timeout /\ asked[c] \in Nat  BY <3>1 DEF TypeOK
    <3>. QED  BY <2>1, <3>1, <3>2, <3>3, SidecarAssumption DEF TypeOK
  <2>. QED  BY <1>2, <2>1, <2>2 DEF Tick, TypeOK, check
<1>3. CASE Restart
  <2>1. NoCache \in Caches  BY DEF NoCache, Caches
  <2>2. pc' \in [Checks -> {"new", "jwks", "fetch", "body", "done", "lost"}]
    BY <1>3 DEF Restart, TypeOK
  <2>3. \A c \in Checks : ~Awaiting(c)'  BY <1>3 DEF Restart, Awaiting
  <2>. QED  BY <1>3, <2>1, <2>2, <2>3 DEF Restart, TypeOK
<1>4. ASSUME NEW c \in Checks, Arrive(c) PROVE TypeOK'
  <2>1. CASE Answer(c, "deny")
    BY <1>4, <2>1, AnswerKeepsTypes DEF Arrive, Answers, TypeOK
  <2>2. CASE pc' = [pc EXCEPT ![c] = "jwks"] /\ UNCHANGED <<asked, body, answer, answered>>
    BY <1>4, <2>2 DEF Arrive, TypeOK, Awaiting
  <2>. QED  BY <1>4, <2>1, <2>2 DEF Arrive
<1>5. ASSUME NEW c \in Checks, Hit(c) PROVE TypeOK'
  <2>1. PICK a \in Answers : Answer(c, a)  BY <1>5, VerifyAnswers DEF Hit
  <2>. QED  BY <1>5, <2>1, AnswerKeepsTypes DEF Hit, TypeOK
<1>6. ASSUME NEW c \in Checks, Miss(c) PROVE TypeOK'
  BY <1>6, SidecarAssumption DEF Miss, TypeOK, Awaiting
<1>7. ASSUME NEW c \in Checks, Respond(c) PROVE TypeOK'
  BY <1>7 DEF Respond, TypeOK, Awaiting, KeysAt
<1>8. ASSUME NEW c \in Checks, Store(c) PROVE TypeOK'
  <2>1. PICK a \in Answers : Answer(c, a)  BY <1>8, VerifyAnswers DEF Store
  <2>2. cache' \in Caches  BY <1>8, SidecarAssumption DEF Store, Caches, TypeOK
  <2>. QED  BY <1>8, <2>1, <2>2, AnswerKeepsTypes DEF Store
<1>9. ASSUME NEW c \in Checks, FetchFails(c) PROVE TypeOK'
  BY <1>9, AnswerKeepsTypes DEF FetchFails, Answers, TypeOK
<1>10. ASSUME NEW c \in Checks, Cancel(c) PROVE TypeOK'
  <2>1. /\ pc' \in [Checks -> {"new", "jwks", "fetch", "body", "done", "lost"}]
        /\ asked' \in [Checks -> Nat]
        /\ body' \in [Checks -> SUBSET Keys]
        /\ pc'[c] = "lost"
        /\ \A d \in Checks \ {c} : pc'[d] = pc[d] /\ asked'[d] = asked[d]
    BY <1>10, LeaveTypes DEF Cancel
  <2>2. \A d \in Checks : Awaiting(d)' => clock' \in asked'[d] .. asked'[d] + Timeout
    BY <1>10, <2>1 DEF Cancel, TypeOK, Awaiting
  <2>. QED  BY <1>10, <2>1, <2>2 DEF Cancel, TypeOK
<1>. QED
  BY <1>1, <1>2, <1>3, <1>4, <1>5, <1>6, <1>7, <1>8, <1>9, <1>10
  DEF Next, Step, GiveUp

(* The initial state satisfies the invariant.                              *)
LEMMA InitInv == ASSUME Init PROVE IInv
<1>1. TypeOK  BY DEF Init, TypeOK, Caches, NoCache, Answers, Awaiting
<1>2. Bodies  BY DEF Init, Bodies
<1>3. CacheIsDated  BY DEF Init, CacheIsDated, Fresh, NoCache
<1>4. AnswersAreRecent  BY DEF Init, AnswersAreRecent
<1>. QED  BY <1>1, <1>2, <1>3, <1>4 DEF IInv

(* The clock never runs backwards, and the provider's history is fixed.    *)
LEMMA HistoryIsFixed ==
    ASSUME TypeOK, [Next]_vars
    PROVE  clock' \in Nat /\ clock <= clock' /\ life' = life /\ kid' = kid
<1>1. CASE UNCHANGED vars  BY <1>1 DEF vars, TypeOK
<1>2. CASE Tick  BY <1>2 DEF Tick, TypeOK
<1>3. CASE UNCHANGED <<clock, life, kid>>  BY <1>3 DEF TypeOK
<1>4. ASSUME NEW c \in Checks,
             \/ Arrive(c) \/ Step(c) \/ Respond(c) \/ FetchFails(c) \/ Cancel(c)
      PROVE  UNCHANGED <<clock, life, kid>>
  BY <1>4, Zenon DEF Step, GiveUp, Arrive, Hit, Miss, Respond, Store, FetchFails, Cancel
<1>. QED  BY <1>1, <1>2, <1>3, <1>4 DEF Next, Restart

(* What was answered in a live window stays recent as time passes.         *)
LEMMA RecentStays ==
    ASSUME TypeOK, [Next]_vars, NEW c \in Checks, AnswerIsRecent(c),
           answer'[c] = answer[c], answered'[c] = answered[c]
    PROVE  AnswerIsRecent(c)'
<1>1. 0 .. clock \subseteq 0 .. clock' /\ life' = life /\ kid' = kid
  BY HistoryIsFixed DEF TypeOK
<1>. QED  BY <1>1 DEF AnswerIsRecent, Recent, Published

(* The moments before a time.                                              *)
LEMMA Moments == ASSUME NEW s \in Nat, NEW t \in Nat, s <= t PROVE s \in 0 .. t
OBVIOUS

(* An answer given now is recent when the keys it is given under were the  *)
(* provider's so short a time ago.                                         *)
LEMMA AnswerNowIsRecent ==
    ASSUME TypeOK, [Next]_vars, clock' = clock,
           NEW c \in Checks, NEW a \in Answers, Answer(c, a),
           NEW s \in Nat, Recent(s, clock), NEW keys, keys = KeysAt(s) \cap Decodable,
           a = "allow" => kid[c] \in keys,
           a = "unknown kid" => kid[c] \notin keys
    PROVE  AnswerIsRecent(c)'
<1>1. answer'[c] = a /\ answered'[c] = clock  BY AnswerTypes
<1>2. life' = life /\ kid' = kid /\ clock' = clock /\ s \in 0 .. clock'
  <2>1. life' = life /\ kid' = kid  BY HistoryIsFixed
  <2>2. clock \in Nat /\ s <= clock  BY DEF TypeOK, Recent
  <2>3. s \in 0 .. clock  BY <2>2, Moments
  <2>4. clock' = clock  OBVIOUS
  <2>. QED  BY <2>1, <2>3, <2>4, Zenon
<1>3. a = "allow" => Published(kid[c], s)  BY DEF KeysAt
<1>4. a = "unknown kid" /\ kid[c] \in Decodable => ~Published(kid[c], s)
  BY SidecarAssumption DEF KeysAt
<1>5. Recent(s, answered[c])' /\ Published(kid[c], s)' = Published(kid[c], s)
  BY <1>1, <1>2 DEF Recent, Published
<1>. QED  BY <1>1, <1>2, <1>3, <1>4, <1>5 DEF AnswerIsRecent

(* An answer that is neither of the two claims nothing.                    *)
LEMMA OtherAnswers ==
    ASSUME TypeOK, NEW c \in Checks, NEW a \in {"deny", "failed"}, Answer(c, a)
    PROVE  AnswerIsRecent(c)'
BY DEF TypeOK, Answer, AnswerIsRecent

(* A step that gives no answer to a check leaves its answer as it is.      *)
LEMMA OnlyItsOwnAnswer ==
    ASSUME TypeOK, NEW c \in Checks, NEW a \in Answers, Answer(c, a),
           NEW d \in Checks, d # c
    PROVE  answer'[d] = answer[d] /\ answered'[d] = answered[d]
BY AnswerTypes

(* Every answer, given now or earlier, is recent after a step.             *)
LEMMA AnswersNext == ASSUME IInv, [Next]_vars PROVE AnswersAreRecent'
<1>. USE DEF IInv
<1>. SUFFICES ASSUME NEW d \in Checks PROVE AnswerIsRecent(d)'
  BY DEF AnswersAreRecent, AnswerIsRecent
<1>1. AnswerIsRecent(d)  BY DEF AnswersAreRecent, AnswerIsRecent
<1>2. CASE answer'[d] = answer[d] /\ answered'[d] = answered[d]
  BY <1>1, <1>2, RecentStays
<1>3. CASE UNCHANGED <<answer, answered>>  BY <1>2, <1>3
<1>4. ASSUME NEW c \in Checks, Arrive(c) PROVE AnswerIsRecent(d)'
  <2>1. CASE Answer(c, "deny")
    BY <2>1, <1>2, OtherAnswers, OnlyItsOwnAnswer DEF Answers
  <2>. QED  BY <1>3, <1>4, <2>1 DEF Arrive
<1>5. ASSUME NEW c \in Checks, Hit(c) PROVE AnswerIsRecent(d)'
  <2>1. PICK a \in Answers : /\ Answer(c, a)
                             /\ a = "allow" => kid[c] \in cache.keys
                             /\ a = "unknown kid" => kid[c] \notin cache.keys
    BY <1>5, VerifyAnswers DEF Hit
  <2>2. PICK s \in Nat : /\ s <= clock /\ cache.expires <= s + Timeout + Ttl
                         /\ cache.keys = KeysAt(s) \cap Decodable
    BY <1>5 DEF Hit, CacheIsDated
  <2>3. Recent(s, clock)
    BY <1>5, <2>2, SidecarAssumption DEF Hit, Fresh, Recent, TypeOK, Caches
  <2>4. CASE d = c
    BY <1>5, <2>1, <2>2, <2>3, <2>4, AnswerNowIsRecent DEF Hit
  <2>. QED  BY <2>1, <2>4, <1>2, OnlyItsOwnAnswer
<1>6. ASSUME NEW c \in Checks, Store(c) PROVE AnswerIsRecent(d)'
  <2>1. PICK a \in Answers : /\ Answer(c, a)
                             /\ a = "allow" => kid[c] \in body[c] \cap Decodable
                             /\ a = "unknown kid" => kid[c] \notin body[c] \cap Decodable
    BY <1>6, VerifyAnswers DEF Store
  <2>2. PICK s \in Nat : asked[c] <= s /\ s <= clock /\ body[c] = KeysAt(s)
    BY <1>6 DEF Store, Bodies
  <2>3. Recent(s, clock)
    BY <1>6, <2>2, SidecarAssumption DEF Store, Awaiting, Recent, TypeOK
  <2>4. CASE d = c
    BY <1>6, <2>1, <2>2, <2>3, <2>4, AnswerNowIsRecent DEF Store
  <2>. QED  BY <2>1, <2>4, <1>2, OnlyItsOwnAnswer
<1>7. ASSUME NEW c \in Checks, FetchFails(c) PROVE AnswerIsRecent(d)'
  BY <1>7, <1>2, OtherAnswers, OnlyItsOwnAnswer DEF FetchFails, Answers
<1>. QED
  BY <1>3, <1>4, <1>5, <1>6, <1>7
  DEF Next, Step, GiveUp, Tick, Restart, Miss, Respond, Cancel, vars, check

(* A cache that is used is that of a moment: the one before the step, or   *)
(* the answer that the step stores, dated by its request.                  *)
LEMMA CacheNext == ASSUME IInv, [Next]_vars PROVE CacheIsDated'
<1>. USE DEF IInv
<1>1. clock' \in Nat /\ clock <= clock' /\ life' = life  BY HistoryIsFixed
<1>2. \A s \in Nat : KeysAt(s)' = KeysAt(s)  BY <1>1 DEF KeysAt, Published
<1>3. CASE UNCHANGED cache
  <2>1. Fresh' => Fresh  BY <1>1, <1>3 DEF Fresh, TypeOK, Caches
  <2>. QED  BY <1>1, <1>2, <1>3, <2>1 DEF CacheIsDated, TypeOK
<1>4. CASE Restart
  BY <1>1, <1>4 DEF Restart, CacheIsDated, Fresh, NoCache
<1>5. ASSUME NEW c \in Checks, Store(c) PROVE CacheIsDated'
  <2>1. PICK s \in Nat : asked[c] <= s /\ s <= clock /\ body[c] = KeysAt(s)
    BY <1>5 DEF Store, Bodies
  <2>2. clock <= s + Timeout  BY <1>5, <2>1, SidecarAssumption DEF Store, Awaiting, TypeOK
  <2>3. cache'.expires = clock + Ttl /\ cache'.keys = KeysAt(s) \cap Decodable
    BY <1>5, <2>1 DEF Store
  <2>4. cache'.expires <= s + Timeout + Ttl  BY <2>2, <2>3, SidecarAssumption DEF TypeOK
  <2>5. s <= clock' /\ cache'.keys = KeysAt(s)' \cap Decodable
    BY <1>1, <1>2, <2>1, <2>3 DEF TypeOK
  <2>. QED  BY <2>4, <2>5 DEF CacheIsDated
<1>. QED
  BY <1>3, <1>4, <1>5
  DEF Next, Step, GiveUp, Tick, Arrive, Hit, Miss, Respond, FetchFails, Cancel, vars

(* An answer is on its way only after Respond, from the present key set.   *)
LEMMA BodiesNext == ASSUME IInv, [Next]_vars PROVE Bodies'
<1>. USE DEF IInv
<1>1. clock' \in Nat /\ clock <= clock' /\ life' = life  BY HistoryIsFixed
<1>2. \A s \in Nat : KeysAt(s)' = KeysAt(s)  BY <1>1 DEF KeysAt, Published
<1>. SUFFICES ASSUME NEW d \in Checks, pc'[d] = "body"
              PROVE  \E s \in Nat : asked'[d] <= s /\ s <= clock' /\ body'[d] = KeysAt(s)'
  BY DEF Bodies
<1>3. CASE pc[d] = "body" /\ asked'[d] = asked[d] /\ body'[d] = body[d]
  <2>1. PICK s \in Nat : asked[d] <= s /\ s <= clock /\ body[d] = KeysAt(s)
    BY <1>3 DEF Bodies
  <2>. QED  BY <1>1, <1>2, <1>3, <2>1 DEF TypeOK
<1>4. CASE UNCHANGED <<pc, asked, body>>  BY <1>3, <1>4
<1>5. ASSUME NEW c \in Checks, NEW step \in {"done", "lost"}, Leave(c, step)
      PROVE  pc[d] = "body" /\ asked'[d] = asked[d] /\ body'[d] = body[d]
  BY <1>5, LeaveTypes
<1>6. ASSUME NEW c \in Checks, Arrive(c) PROVE (pc[d] = "body" /\ UNCHANGED <<asked, body>>) \/ Leave(c, "done")
  BY <1>6 DEF Arrive, Answer, TypeOK
<1>7. ASSUME NEW c \in Checks, Hit(c) \/ Store(c) \/ FetchFails(c)
      PROVE  Leave(c, "done")
  BY <1>7, VerifyAnswers DEF Hit, Store, FetchFails, Answer
<1>8. ASSUME NEW c \in Checks, Miss(c)
      PROVE  pc[d] = "body" /\ asked'[d] = asked[d] /\ body'[d] = body[d]
  BY <1>8 DEF Miss, TypeOK
<1>9. ASSUME NEW c \in Checks, Respond(c)
      PROVE  \E s \in Nat : asked'[d] <= s /\ s <= clock' /\ body'[d] = KeysAt(s)'
  <2>1. CASE d = c
    <3>1. asked'[d] <= clock /\ body'[d] = KeysAt(clock) /\ clock' = clock
      BY <1>9, <2>1, SidecarAssumption DEF Respond, Awaiting, TypeOK
    <3>. QED  BY <1>2, <3>1 DEF TypeOK
  <2>2. CASE d # c
    BY <1>3, <1>9, <2>2 DEF Respond, TypeOK
  <2>. QED  BY <2>1, <2>2
<1>10. ASSUME Restart PROVE FALSE
  BY <1>10 DEF Restart
<1>11. ASSUME NEW c \in Checks, Cancel(c) PROVE Leave(c, "lost")
  BY <1>11 DEF Cancel
<1>12. CASE Tick \/ UNCHANGED vars  BY <1>4, <1>12 DEF Tick, vars, check
<1>. QED
  BY <1>3, <1>5, <1>6, <1>7, <1>8, <1>9, <1>10, <1>11, <1>12 DEF Next, Step, GiveUp

------------------------------------------------------------------------------
(* Every type of the specification holds in every reachable state.         *)
THEOREM SidecarTypes == Spec => []TypeOK
<1>1. Init => TypeOK  BY InitInv DEF IInv
<1>2. TypeOK /\ [Next]_vars => TypeOK'  BY TypesNext
<1>. QED  BY <1>1, <1>2, PTL DEF Spec

(* Tokens are accepted and refused by keys that were, or were not,         *)
(* published within the cache's lifetime and the client's timeout, however *)
(* many checks fetch at once (main.rs:99-140).                             *)
THEOREM SidecarAnswersAreRecent == Spec => []AnswersAreRecent
<1>1. Init => IInv  BY InitInv
<1>2. IInv /\ [Next]_vars => IInv'
  <2>. SUFFICES ASSUME IInv, [Next]_vars PROVE IInv'
    OBVIOUS
  <2>1. TypeOK'  BY TypesNext DEF IInv
  <2>. QED  BY <2>1, BodiesNext, CacheNext, AnswersNext DEF IInv
<1>3. IInv => AnswersAreRecent  BY DEF IInv
<1>. QED  BY <1>1, <1>2, <1>3, PTL DEF Spec

------------------------------------------------------------------------------
(* How often the key set is fetched.                                       *)

(* A fetch under way began when the cache had expired, or before what is   *)
(* in the cache was stored.                                                *)
FetchesAreDated ==
    \A c \in Checks : Awaiting(c) => \/ cache.expires <= asked[c]
                                     \/ asked[c] + Ttl <= cache.expires

(* What a step does to cache and fetches: it stores a key set, empties the *)
(* cache with all fetches, starts one, or leaves the cache alone.          *)
LEMMA CacheSteps ==
    ASSUME TypeOK, [Next]_vars
    PROVE  \/ \E c \in Checks :
                 /\ Store(c) /\ pc'[c] = "done" /\ clock' = clock
                 /\ \A d \in Checks \ {c} : pc'[d] = pc[d] /\ asked'[d] = asked[d]
           \/ Restart
           \/ \E c \in Checks : Miss(c)
           \/ /\ cache' = cache /\ clock <= clock'
              /\ \A d \in Checks : Awaiting(d)' => Awaiting(d) /\ asked'[d] = asked[d]
<1>1. ASSUME NEW c \in Checks, NEW step \in {"done", "lost"}, Leave(c, step)
      PROVE  \A d \in Checks : Awaiting(d)' => Awaiting(d) /\ asked'[d] = asked[d]
  BY <1>1, LeaveTypes DEF Awaiting
<1>2. ASSUME NEW c \in Checks, Hit(c) \/ FetchFails(c) \/ Store(c) PROVE Leave(c, "done")
  BY <1>2, VerifyAnswers DEF Hit, Store, FetchFails, Answer
<1>3. ASSUME NEW c \in Checks, Arrive(c)
      PROVE  \A d \in Checks : Awaiting(d)' => Awaiting(d) /\ asked'[d] = asked[d]
  <2>1. CASE kid[c] = NoKey
    BY <1>1, <1>3, <2>1 DEF Arrive, Answer
  <2>2. CASE kid[c] # NoKey
    BY <1>3, <2>2 DEF Arrive, Awaiting, TypeOK
  <2>. QED  BY <2>1, <2>2
<1>4. ASSUME NEW c \in Checks, Store(c)
      PROVE  /\ pc'[c] = "done" /\ clock' = clock
             /\ \A d \in Checks \ {c} : pc'[d] = pc[d] /\ asked'[d] = asked[d]
  BY <1>2, <1>4, LeaveTypes DEF Store
<1>5. ASSUME NEW c \in Checks, Respond(c)
      PROVE  \A d \in Checks : Awaiting(d)' => Awaiting(d) /\ asked'[d] = asked[d]
  BY <1>5 DEF Respond, Awaiting, TypeOK
<1>6. CASE Tick \/ UNCHANGED vars
  BY <1>6 DEF Tick, vars, check, Awaiting, TypeOK
<1>7. ASSUME NEW c \in Checks, Arrive(c) \/ Hit(c) \/ FetchFails(c) \/ Cancel(c) \/ Respond(c)
      PROVE  cache' = cache /\ clock <= clock'
  BY <1>7 DEF Arrive, Hit, FetchFails, Cancel, Respond, TypeOK
<1>. QED
  BY <1>1, <1>2, <1>3, <1>4, <1>5, <1>6, <1>7 DEF Next, Step, GiveUp, Cancel

LEMMA FetchesNext ==
    ASSUME TypeOK, FetchesAreDated, [Next]_vars
    PROVE  FetchesAreDated'
<1>1. ASSUME NEW c \in Checks, Store(c), pc'[c] = "done", clock' = clock,
             \A d \in Checks \ {c} : pc'[d] = pc[d] /\ asked'[d] = asked[d]
      PROVE  FetchesAreDated'
  <2>1. cache'.expires = clock + Ttl
    BY <1>1 DEF Store
  <2>2. \A d \in Checks : Awaiting(d)' => Awaiting(d) /\ asked'[d] = asked[d]
    BY <1>1 DEF Awaiting
  <2>3. \A d \in Checks : Awaiting(d) => asked[d] \in Nat /\ asked[d] <= clock
    BY SidecarAssumption DEF TypeOK
  <2>. QED  BY <2>1, <2>2, <2>3, SidecarAssumption DEF TypeOK, FetchesAreDated
<1>2. CASE Restart
  BY <1>2 DEF Restart, Awaiting, FetchesAreDated
<1>3. ASSUME NEW c \in Checks, Miss(c) PROVE FetchesAreDated'
  <2>1. /\ cache' = cache /\ asked'[c] = clock /\ cache.expires <= clock
        /\ \A d \in Checks \ {c} : pc'[d] = pc[d] /\ asked'[d] = asked[d]
    BY <1>3 DEF Miss, Fresh, TypeOK, Caches
  <2>. QED  BY <2>1 DEF FetchesAreDated, Awaiting
<1>4. CASE /\ cache' = cache
           /\ \A d \in Checks : Awaiting(d)' => Awaiting(d) /\ asked'[d] = asked[d]
  BY <1>4 DEF FetchesAreDated
<1>. QED  BY <1>1, <1>2, <1>3, <1>4, CacheSteps

(* Whatever the provider does, for any number of checks: only a fetch that *)
(* overlapped the one whose key set is in the cache replaces it while it   *)
(* is fresh (main.rs:99-132).                                             *)
THEOREM SidecarRefetchesOverlap == Spec => RefetchesOverlap
<1>. DEFINE Inv == TypeOK /\ FetchesAreDated
            Replaces == Fresh /\ cache' \notin {cache, NoCache} =>
                           \E c \in Checks : /\ Awaiting(c) /\ pc'[c] = "done"
                                            /\ asked[c] + Ttl <= cache.expires
<1>1. Init => Inv
  BY InitInv DEF IInv, Init, FetchesAreDated, Awaiting
<1>2. Inv /\ [Next]_vars => Inv'
  BY TypesNext, FetchesNext
<1>3. Inv /\ [Next]_vars => Replaces
  <2>. SUFFICES ASSUME Inv, [Next]_vars, Fresh, cache' # cache, cache' # NoCache
                PROVE  \E c \in Checks : /\ Awaiting(c) /\ pc'[c] = "done"
                                         /\ asked[c] + Ttl <= cache.expires
    OBVIOUS
  <2>1. PICK c \in Checks : Store(c) /\ pc'[c] = "done"
    BY CacheSteps DEF Restart, Miss
  <2>2. Awaiting(c)
    BY <2>1 DEF Store, Awaiting
  <2>3. /\ asked[c] \in Nat /\ clock \in Nat /\ cache.expires \in Nat
        /\ clock < cache.expires
    BY DEF TypeOK, Caches, Fresh
  <2>4. asked[c] <= clock
    BY <2>2, <2>3, SidecarAssumption DEF TypeOK
  <2>5. asked[c] + Ttl <= cache.expires
    <3>1. cache.expires <= asked[c] \/ asked[c] + Ttl <= cache.expires
      BY <2>2 DEF FetchesAreDated
    <3>. QED  BY <2>3, <2>4, <3>1
  <2>. QED  BY <2>1, <2>2, <2>5
<1>. HIDE DEF Replaces
<1>4. Inv /\ [Next]_vars => [Replaces]_vars
  BY <1>3
<1>5. Spec => [][Replaces]_vars
  BY <1>1, <1>2, <1>4, PTL DEF Spec
<1>. QED  BY <1>5 DEF RefetchesOverlap, Replaces

(* With one fetch at a time, the key set is fetched once for its time in   *)
(* the cache, as services/auth-sidecar/README.md says: it takes two checks *)
(* that miss together to break FetchedOnce.                                *)
Alone == \A c, d \in Checks : Awaiting(c) /\ Awaiting(d) => c = d

NoneIsFresh == \A c \in Checks : Awaiting(c) => ~Fresh

THEOREM LoneChecksFetchOnce == Spec /\ []Alone => FetchedOnce
<1>. DEFINE Inv == TypeOK /\ NoneIsFresh
<1>1. Init => Inv
  BY InitInv DEF IInv, Init, NoneIsFresh, Awaiting
<1>2. Inv /\ Alone /\ [Next]_vars => Inv'
  <2>. SUFFICES ASSUME Inv, Alone, [Next]_vars PROVE NoneIsFresh'
    BY TypesNext
  <2>1. ASSUME NEW c \in Checks, Store(c), pc'[c] = "done",
               \A d \in Checks \ {c} : pc'[d] = pc[d]
        PROVE  NoneIsFresh'
    BY <2>1 DEF Store, Awaiting, Alone, NoneIsFresh
  <2>2. CASE Restart
    BY <2>2 DEF Restart, Awaiting, NoneIsFresh
  <2>3. ASSUME NEW c \in Checks, Miss(c) PROVE NoneIsFresh'
    BY <2>3 DEF Miss, Fresh, NoneIsFresh
  <2>4. CASE /\ cache' = cache /\ clock <= clock'
             /\ \A d \in Checks : Awaiting(d)' => Awaiting(d)
    <3>1. clock \in Nat /\ clock' \in Nat /\ cache.expires \in Nat
      BY TypesNext DEF TypeOK, Caches
    <3>2. ~Fresh => ~Fresh'
      BY <2>4, <3>1 DEF Fresh
    <3>. QED  BY <2>4, <3>2 DEF NoneIsFresh
  <2>. QED  BY <2>1, <2>2, <2>3, <2>4, CacheSteps
<1>3. Inv /\ [Next]_vars => [Fresh => cache' \in {cache, NoCache}]_vars
  BY CacheSteps DEF Restart, Miss, Store, Awaiting, NoneIsFresh
<1>. QED  BY <1>1, <1>2, <1>3, PTL DEF Spec, FetchedOnce
==============================================================================
