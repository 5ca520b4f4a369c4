----------------------------- MODULE AuthCache -----------------------------
(* Client.AuthVerifyWS and Client.AuthVerifyAgent: dock's answers about    *)
(* tokens, cached for TTL in two maps under one mutex that is not held     *)
(* while the request is under way.  The goroutines of a plugin call them   *)
(* at any moment; dock answers, revokes tokens and lets them expire.       *)
(* Time is a counter; a request is given up after Timeout.                 *)
EXTENDS Integers, FiniteSets, GoMap

CONSTANTS Callers,        \* goroutines that verify tokens
          Tokens,         \* session and api tokens
          AgentTokens,    \* agent tokens
          Workspaces,     \* workspace hints
          Empty,          \* no hint
          TTL,            \* the 30s window
          Timeout,        \* the HTTP client's timeout (15s)
          Cap,            \* entries a map holds before it is swept (1000)
          TokenExpiry,    \* when each token expires by itself
          MaxTime         \* bound: the clock stops here

ASSUME TimesAssumption == TTL \in Nat \ {0} /\ Timeout \in Nat /\ MaxTime \in Nat
ASSUME CapIsNat == Cap \in Nat
ASSUME ExpiryAssumption == TokenExpiry \in [Tokens \cup AgentTokens -> Nat]

VARIABLES now,        \* the clock
          revokedAt,  \* revokedAt[t]: when dock revoked t, Never if it has not
          cache,      \* authCache and agentAuthCache, by cache key
          call,       \* call[p]: the request p waits for
          got         \* the last answer a caller was given

vars == <<now, revokedAt, cache, call, got>>

(* What is asked: a token with a workspace hint, or an agent token.        *)
Question == [kind : {"user"}, token : Tokens, ws : Workspaces \cup {Empty}]
            \cup [kind : {"agent"}, token : AgentTokens, ws : {Empty}]

AllTokens == Tokens \cup AgentTokens

Times == 0 .. MaxTime

Never == -1

(* dock's 200: what it was asked and when it answered.  Its expires_at is  *)
(* left out, because nothing in the client reads it.                       *)
Answer == [of : Question, issued : Times]

Idle == [waiting |-> FALSE]

Nothing == [none |-> TRUE]

Init == /\ now = 0
        /\ revokedAt = [t \in AllTokens |-> Never]
        /\ cache = EmptyMap
        /\ call = [p \in Callers |-> Idle]
        /\ got = Nothing

----------------------------------------------------------------------------
(* Broken variant: the hint is not part of the key.                        *)
TokenKey(q) == <<q.kind, q.token, Empty>>

(* The map and the key in it: token NUL workspace, or the agent token.     *)
CacheKey(q) == <<q.kind, q.token, q.ws>>

(* Broken variant: an entry is good for ever.                              *)
Cached(k) == Has(cache, k)

Fresh(k) == Has(cache, k) /\ now - cache[k].storeAt < TTL

(* Broken variant: a hit renews the entry.                                 *)
HitSliding(p) ==
    /\ call[p] = Idle
    /\ \E q \in Question :
         LET k == CacheKey(q)
         IN  /\ Fresh(k)
             /\ got' = [asked |-> q, res |-> cache[k].res, at |-> now]
             /\ cache' = [cache EXCEPT ![k].storeAt = now]
    /\ UNCHANGED <<now, revokedAt, call>>

(* A fresh entry answers under the mutex.                                  *)
Hit(p) ==
    /\ call[p] = Idle
    /\ \E q \in Question :
         /\ Fresh(CacheKey(q))
         /\ got' = [asked |-> q, res |-> cache[CacheKey(q)].res, at |-> now]
    /\ UNCHANGED <<now, revokedAt, cache, call>>

(* Otherwise the mutex is released and the request sent.                   *)
Miss(p) ==
    /\ call[p] = Idle
    /\ \E q \in Question :
         /\ ~ Fresh(CacheKey(q))
         /\ call' = [call EXCEPT ![p] = [waiting |-> TRUE, asked |-> q, since |-> now,
                                         answer |-> Nothing]]
    /\ UNCHANGED <<now, revokedAt, cache, got>>

(* dock accepts a token that is neither revoked nor expired; anything else *)
(* is an error.                                                            *)
Accepts(t) == revokedAt[t] = Never /\ now < TokenExpiry[t]

DockAnswers(p) ==
    /\ call[p] # Idle /\ call[p].answer = Nothing
    /\ Accepts(call[p].asked.token)
    /\ call' = [call EXCEPT ![p].answer =
                  [of |-> call[p].asked, issued |-> now]]
    /\ UNCHANGED <<now, revokedAt, cache, got>>

(* Broken variants of the sweep: everything else goes, or nothing does.    *)
SweepAll(m, k) == [j \in {k} |-> m[j]]

SweepNothing(m, k) == m

(* Past Cap entries the map that was written drops what is older than TTL. *)
Sweep(m, k) ==
    LET same == {j \in DOMAIN m : j[1] = k[1]}
        old == {j \in same : m[j].storeAt < now - TTL}
    IN  IF Cardinality(same) > Cap THEN [j \in DOMAIN m \ old |-> m[j]] ELSE m

Accepted(p) == call[p].answer # Nothing

Return(p) ==
    /\ call[p] # Idle /\ Accepted(p)
    /\ LET k == CacheKey(call[p].asked)
       IN  cache' = Sweep(Store(cache, k, [res |-> call[p].answer, storeAt |-> now]), k)
    /\ got' = [asked |-> call[p].asked, res |-> call[p].answer, at |-> now]
    /\ call' = [call EXCEPT ![p] = Idle]
    /\ UNCHANGED <<now, revokedAt>>

(* A rejection, a broken connection, a timeout or a bad body: the caller   *)
(* gets an error, and the cache is left alone.                             *)
Fail(p) ==
    /\ call[p] # Idle
    /\ call' = [call EXCEPT ![p] = Idle]
    /\ UNCHANGED <<now, revokedAt, cache, got>>

Revoke(t) ==
    /\ revokedAt[t] = Never
    /\ revokedAt' = [revokedAt EXCEPT ![t] = now]
    /\ UNCHANGED <<now, cache, call, got>>

(* Time passes; no request outlives its timeout.                           *)
Tick ==
    /\ now < MaxTime
    /\ \A p \in Callers : call[p] # Idle => now < call[p].since + Timeout
    /\ now' = now + 1
    /\ UNCHANGED <<revokedAt, cache, call, got>>

Next == \/ \E p \in Callers : Hit(p) \/ Miss(p) \/ DockAnswers(p) \/ Return(p) \/ Fail(p)
        \/ \E t \in AllTokens : Revoke(t)
        \/ Tick

Spec == Init /\ [][Next]_vars

----------------------------------------------------------------------------
CacheKeys == {<<q.kind, q.token, q.ws>> : q \in Question}

(* The types of the variables.                                             *)
TypeOK ==
    /\ now \in Times
    /\ revokedAt \in [AllTokens -> Times \cup {Never}]
    /\ DOMAIN cache \subseteq CacheKeys
    /\ \A k \in DOMAIN cache : cache[k] \in [res : Answer, storeAt : Times]
    /\ call \in [Callers -> {Idle} \cup [waiting : {TRUE}, asked : Question,
                                         since : Times, answer : {Nothing} \cup Answer]]
    /\ got \in {Nothing} \cup [asked : Question, res : Answer, at : Times]

(* An answer is about what was asked: never another token's, another       *)
(* workspace hint's or the other kind's, from the cache or from dock.      *)
AnswersTheQuestion == got # Nothing => got.res.of = got.asked

(* A token is accepted for less than TTL + Timeout after its revocation or *)
(* its expiry, whatever requests were under way then, in whatever order    *)
(* their answers are stored, and however often the entry is hit.           *)
DeadSoonRefused ==
    got # Nothing =>
      /\ got.at < TokenExpiry[got.asked.token] + TTL + Timeout
      /\ revokedAt[got.asked.token] # Never =>
           got.at < revokedAt[got.asked.token] + TTL + Timeout

(* A sweep leaves only entries of the last TTL, so that a map with more    *)
(* than Cap entries holds only what was stored within one window.          *)
OverCapIsRecent ==
    \A kind \in {"user", "agent"} :
      LET mine == {k \in DOMAIN cache : k[1] = kind}
      IN  Cardinality(mine) > Cap =>
            \A j, k \in mine : cache[j].storeAt - cache[k].storeAt <= TTL

(* An entry still fresh is never lost: neither a sweep nor another         *)
(* question's answer forces a second request within the window.            *)
FreshIsKept ==
    [][\A k \in DOMAIN cache :
         now' - cache[k].storeAt < TTL => k \in DOMAIN cache']_vars

----------------------------------------------------------------------------
(* The inductive invariant behind DeadSoonRefused: an answer is issued     *)
(* before its token is revoked or expires, is stored at most Timeout later *)
(* and is given out within TTL of being stored.                            *)
Dated(a) == /\ a.issued < TokenExpiry[a.of.token]
            /\ revokedAt[a.of.token] # Never => a.issued <= revokedAt[a.of.token]

CacheInv ==
    /\ TypeOK
    /\ \A t \in AllTokens : revokedAt[t] <= now
    /\ \A k \in DOMAIN cache :
         /\ k = CacheKey(cache[k].res.of)
         /\ cache[k].res.issued <= cache[k].storeAt
         /\ cache[k].storeAt <= cache[k].res.issued + Timeout
         /\ cache[k].storeAt <= now
         /\ Dated(cache[k].res)
    /\ \A p \in Callers : call[p] # Idle =>
         /\ call[p].since <= now /\ now <= call[p].since + Timeout
         /\ call[p].answer # Nothing =>
              /\ call[p].answer.of = call[p].asked
              /\ call[p].since <= call[p].answer.issued
              /\ call[p].answer.issued <= now
              /\ Dated(call[p].answer)
    /\ got # Nothing => got.at <= now
    /\ AnswersTheQuestion
    /\ DeadSoonRefused
=============================================================================
