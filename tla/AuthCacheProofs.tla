-------------------------- MODULE AuthCacheProofs --------------------------
(* Proofs about the verification cache, for every window, timeout and      *)
(* number of callers, tokens and workspaces.                               *)
EXTENDS AuthCache, TLAPS

LEMMA QuestionKey ==
    ASSUME NEW q \in Question
    PROVE  CacheKey(q) \in CacheKeys /\ q.token \in AllTokens
BY DEF CacheKeys, CacheKey, Question, AllTokens

(* A sweep only removes entries.                                           *)
LEMMA SweepShrinks ==
    ASSUME NEW m, NEW k
    PROVE  /\ DOMAIN Sweep(m, k) \subseteq DOMAIN m
           /\ \A j \in DOMAIN Sweep(m, k) : Sweep(m, k)[j] = m[j]
BY DEF Sweep

(* The request a caller waits for.                                         *)
LEMMA CallType ==
    ASSUME CacheInv, NEW p \in Callers, call[p] # Idle
    PROVE  call[p] \in [waiting : {TRUE}, asked : Question, since : Times,
                        answer : {Nothing} \cup Answer]
<1>1. call \in [Callers -> {Idle} \cup [waiting : {TRUE}, asked : Question,
                                        since : Times, answer : {Nothing} \cup Answer]]
  BY DEF CacheInv, TypeOK
<1> QED
  BY <1>1

LEMMA NowType ==
    ASSUME CacheInv
    PROVE  now \in Times /\ now \in Nat /\ now \in Int
BY DEF CacheInv, TypeOK, Times

LEMMA InitCacheInv == Init => CacheInv
<1> SUFFICES ASSUME Init PROVE CacheInv
  OBVIOUS
<1>1. DOMAIN cache = {} /\ now = 0 /\ now \in Times
  BY TimesAssumption DEF Init, EmptyMap, Times
<1>2. TypeOK
  BY <1>1 DEF Init, TypeOK, Never
<1>3. \A t \in AllTokens : revokedAt[t] <= now
  BY <1>1 DEF Init, Never
<1>4. AnswersTheQuestion /\ DeadSoonRefused
  BY DEF Init, AnswersTheQuestion, DeadSoonRefused
<1> QED
  BY <1>1, <1>2, <1>3, <1>4 DEF Init, CacheInv

(* What is given out was dated before the token's end, and is young.       *)
LEMMA GivenOut ==
    ASSUME CacheInv, NEW q \in Question, NEW a \in Answer, a.of = q, Dated(a),
           now < a.issued + TTL + Timeout,
           got' = [asked |-> q, res |-> a, at |-> now],
           UNCHANGED <<now, revokedAt>>
    PROVE  /\ got' \in [asked : Question, res : Answer, at : Times]
           /\ AnswersTheQuestion' /\ DeadSoonRefused' /\ got'.at <= now
<1>1. now \in Times /\ now \in Int /\ a.issued \in Int
  BY DEF CacheInv, TypeOK, Times, Answer
<1>2. q.token \in AllTokens /\ revokedAt[q.token] \in Int
  BY QuestionKey DEF CacheInv, TypeOK, Times, Never
<1>3. got'.asked = q /\ got'.res = a /\ got'.at = now
  OBVIOUS
<1>4. DeadSoonRefused'
  <2>1. now < TokenExpiry[q.token] + TTL + Timeout
    <3>1. TokenExpiry[q.token] \in Int
      BY <1>2, ExpiryAssumption DEF AllTokens
    <3>2. a.issued < TokenExpiry[q.token]
      BY DEF Dated
    <3> QED
      BY <1>1, <3>1, <3>2, TimesAssumption
  <2>2. ASSUME revokedAt[q.token] # Never
        PROVE  now < revokedAt[q.token] + TTL + Timeout
    <3>1. a.issued <= revokedAt[q.token]
      BY <2>2 DEF Dated
    <3> QED
      BY <1>1, <1>2, <3>1, TimesAssumption
  <2> QED
    BY <1>3, <2>1, <2>2 DEF DeadSoonRefused
<1> QED
  BY <1>1, <1>3, <1>4 DEF AnswersTheQuestion

LEMMA HitInv ==
    ASSUME CacheInv, NEW p \in Callers, Hit(p)
    PROVE  CacheInv'
<1>1. PICK q \in Question :
        /\ Fresh(CacheKey(q))
        /\ got' = [asked |-> q, res |-> cache[CacheKey(q)].res, at |-> now]
  BY DEF Hit
<1> DEFINE k == CacheKey(q)
           a == cache[k].res
<1>2. UNCHANGED <<now, revokedAt, cache, call>>
  BY DEF Hit
<1>3. k \in DOMAIN cache /\ now - cache[k].storeAt < TTL
  BY <1>1 DEF Fresh, Has
<1>4. cache[k] \in [res : Answer, storeAt : Times]
  BY <1>3 DEF CacheInv, TypeOK
<1>5. a \in Answer /\ cache[k].storeAt \in Int /\ a.issued \in Int /\ now \in Int
  BY <1>4, NowType DEF Answer, Times
<1>6. a.of = q
  <2>1. k = CacheKey(a.of) /\ a.of \in Question
    BY <1>3, <1>5 DEF CacheInv, Answer
  <2>2. a.of.kind = q.kind /\ a.of.token = q.token /\ a.of.ws = q.ws
    BY <2>1 DEF CacheKey
  <2> QED
    BY <2>1, <2>2 DEF Question
<1>7. Dated(a) /\ cache[k].storeAt <= a.issued + Timeout
  BY <1>3 DEF CacheInv
<1>8. now < a.issued + TTL + Timeout
  BY <1>3, <1>5, <1>7, TimesAssumption
<1>9. /\ got' \in [asked : Question, res : Answer, at : Times]
      /\ AnswersTheQuestion' /\ DeadSoonRefused' /\ got'.at <= now
  <2> HIDE DEF k, a
  <2>1. got' = [asked |-> q, res |-> a, at |-> now]
    BY <1>1 DEF k, a
  <2> QED
    BY <1>2, <1>5, <1>6, <1>7, <1>8, <2>1, GivenOut
<1>10. TypeOK'
  BY <1>2, <1>9 DEF CacheInv, TypeOK
<1> QED
  BY <1>2, <1>9, <1>10 DEF CacheInv, Dated

LEMMA MissInv ==
    ASSUME CacheInv, NEW p \in Callers, Miss(p)
    PROVE  CacheInv'
<1>1. PICK q \in Question :
        call' = [call EXCEPT ![p] = [waiting |-> TRUE, asked |-> q, since |-> now,
                                     answer |-> Nothing]]
  BY DEF Miss
<1>2. UNCHANGED <<now, revokedAt, cache, got>>
  BY DEF Miss
<1>3. now \in Times /\ now \in Int
  BY DEF CacheInv, TypeOK, Times
<1> DEFINE r == [waiting |-> TRUE, asked |-> q, since |-> now, answer |-> Nothing]
<1>4. /\ r \in [waiting : {TRUE}, asked : Question, since : Times,
               answer : {Nothing} \cup Answer]
      /\ r.since = now /\ r.answer = Nothing
  BY <1>3
<1>5. call' = [call EXCEPT ![p] = r]
  BY <1>1
<1> HIDE DEF r
<1>6. TypeOK'
  BY <1>2, <1>4, <1>5 DEF CacheInv, TypeOK
<1>7. call'[p] = r /\ \A o \in Callers \ {p} : call'[o] = call[o]
  BY <1>5 DEF CacheInv, TypeOK
<1>8. ASSUME NEW o \in Callers, call'[o] # Idle
      PROVE  /\ call'[o].since <= now /\ now <= call'[o].since + Timeout
             /\ call'[o].answer # Nothing =>
                  /\ call'[o].answer.of = call'[o].asked
                  /\ call'[o].since <= call'[o].answer.issued
                  /\ call'[o].answer.issued <= now
                  /\ Dated(call'[o].answer)
  <2>1. CASE o = p
    BY <1>3, <1>4, <1>7, <2>1, TimesAssumption
  <2>2. CASE o # p
    BY <1>7, <1>8, <2>2 DEF CacheInv
  <2> QED
    BY <2>1, <2>2
<1> QED
  BY <1>2, <1>6, <1>8 DEF CacheInv, Dated, AnswersTheQuestion, DeadSoonRefused

LEMMA DockAnswersInv ==
    ASSUME CacheInv, NEW p \in Callers, DockAnswers(p)
    PROVE  CacheInv'
<1> DEFINE q == call[p].asked
           a == [of |-> q, issued |-> now]
<1>1. /\ call[p] # Idle /\ call[p].answer = Nothing
      /\ revokedAt[q.token] = Never /\ now < TokenExpiry[q.token]
      /\ call' = [call EXCEPT ![p].answer = a]
      /\ UNCHANGED <<now, revokedAt, cache, got>>
  BY DEF DockAnswers, Accepts
<1>2. /\ call[p] \in [waiting : {TRUE}, asked : Question, since : Times,
                      answer : {Nothing} \cup Answer]
      /\ now \in Times /\ now \in Int /\ now \in Nat
  BY <1>1, CallType, NowType
<1>3. q \in Question /\ call[p].since \in Int
  <2>1. call[p].asked \in Question /\ call[p].since \in Times
    BY <1>2
  <2> QED
    BY <2>1 DEF Times
<1>5. a \in Answer /\ a.of = q /\ a.issued = now /\ Dated(a)
  BY <1>1, <1>2, <1>3 DEF Answer, Dated
<1> HIDE DEF a
<1>6. /\ call'[p] = [call[p] EXCEPT !.answer = a]
      /\ \A o \in Callers \ {p} : call'[o] = call[o]
  BY <1>1 DEF CacheInv, TypeOK
<1>7. /\ call'[p].asked = q /\ call'[p].since = call[p].since /\ call'[p].answer = a
      /\ call'[p] \in [waiting : {TRUE}, asked : Question, since : Times,
                       answer : {Nothing} \cup Answer]
  BY <1>2, <1>5, <1>6
<1>8. TypeOK'
  BY <1>1, <1>7 DEF CacheInv, TypeOK
<1>9. call[p].since <= now /\ now <= call[p].since + Timeout
  <2>1. call[p].since <= now
    BY <1>1 DEF CacheInv
  <2> QED
    BY <1>1, <2>1 DEF CacheInv
<1>10. ASSUME NEW o \in Callers, call'[o] # Idle
       PROVE  /\ call'[o].since <= now /\ now <= call'[o].since + Timeout
              /\ call'[o].answer # Nothing =>
                   /\ call'[o].answer.of = call'[o].asked
                   /\ call'[o].since <= call'[o].answer.issued
                   /\ call'[o].answer.issued <= now
                   /\ Dated(call'[o].answer)
  <2>1. CASE o = p
    BY <1>2, <1>5, <1>7, <1>9, <2>1
  <2>2. CASE o # p
    BY <1>6, <1>10, <2>2 DEF CacheInv
  <2> QED
    BY <2>1, <2>2
<1> QED
  BY <1>1, <1>8, <1>10 DEF CacheInv, Dated, AnswersTheQuestion, DeadSoonRefused

LEMMA ReturnInv ==
    ASSUME CacheInv, NEW p \in Callers, Return(p)
    PROVE  CacheInv'
<1> DEFINE q == call[p].asked
           a == call[p].answer
           k == CacheKey(q)
           e == [res |-> a, storeAt |-> now]
           full == Store(cache, k, e)
<1>1. /\ call[p] # Idle /\ a # Nothing
      /\ cache' = Sweep(full, k)
      /\ got' = [asked |-> q, res |-> a, at |-> now]
      /\ call' = [call EXCEPT ![p] = Idle]
      /\ UNCHANGED <<now, revokedAt>>
  BY DEF Return, Accepted
<1>2. call[p] \in [waiting : {TRUE}, asked : Question, since : Times,
                   answer : {Nothing} \cup Answer]
  BY <1>1, CallType
<1>3. q \in Question /\ a \in Answer /\ call[p].since \in Times
  BY <1>1, <1>2
<1>4. /\ call[p].since \in Int /\ a.issued \in Int /\ a.of \in Question
      /\ now \in Int /\ now \in Times
  BY <1>3, NowType DEF Times, Answer
<1>5. /\ a.of = q /\ call[p].since <= a.issued /\ a.issued <= now /\ Dated(a)
      /\ now <= call[p].since + Timeout
  BY <1>1 DEF CacheInv
<1>6. k \in CacheKeys
  BY <1>3, QuestionKey
<1>7. /\ e \in [res : Answer, storeAt : Times]
      /\ e.res = a /\ e.storeAt = now
  BY <1>3, <1>4
<1>8. now <= a.issued + Timeout /\ now < a.issued + TTL + Timeout
  BY <1>4, <1>5, TimesAssumption
<1> HIDE DEF q, a, k, e
<1>9. /\ got' \in [asked : Question, res : Answer, at : Times]
      /\ AnswersTheQuestion' /\ DeadSoonRefused' /\ got'.at <= now
  BY <1>1, <1>3, <1>5, <1>8, GivenOut
<1>10. /\ DOMAIN full = DOMAIN cache \cup {k} /\ full[k] = e
       /\ \A j \in DOMAIN cache \ {k} : full[j] = cache[j]
  BY DEF Store
<1> HIDE DEF full
<1>11. \A j \in DOMAIN cache' :
         /\ cache'[j] = full[j]
         /\ j = k \/ (j # k /\ j \in DOMAIN cache)
  BY <1>1, <1>10, SweepShrinks
<1>12. ASSUME NEW j \in DOMAIN cache'
       PROVE  /\ j \in CacheKeys /\ cache'[j] \in [res : Answer, storeAt : Times]
              /\ j = CacheKey(cache'[j].res.of)
              /\ cache'[j].res.issued <= cache'[j].storeAt
              /\ cache'[j].storeAt <= cache'[j].res.issued + Timeout
              /\ cache'[j].storeAt <= now
              /\ Dated(cache'[j].res)
  <2>1. CASE j = k
    <3>1. cache'[j] = e
      BY <1>10, <1>11, <2>1
    <3>2. j = CacheKey(a.of)
      BY <1>5, <2>1 DEF k
    <3> QED
      BY <1>4, <1>5, <1>6, <1>7, <1>8, <2>1, <3>1, <3>2
  <2>2. CASE j # k
    <3>1. j \in DOMAIN cache /\ cache'[j] = cache[j]
      BY <1>10, <1>11, <2>2
    <3> QED
      BY <3>1 DEF CacheInv, TypeOK
  <2> QED
    BY <2>1, <2>2
<1>13. call'[p] = Idle /\ \A o \in Callers \ {p} : call'[o] = call[o]
  BY <1>1 DEF CacheInv, TypeOK
<1>14. TypeOK'
  BY <1>1, <1>9, <1>12 DEF CacheInv, TypeOK
<1> QED
  BY <1>1, <1>9, <1>12, <1>13, <1>14 DEF CacheInv, Dated

LEMMA FailInv ==
    ASSUME CacheInv, NEW p \in Callers, Fail(p)
    PROVE  CacheInv'
<1>1. /\ call' = [call EXCEPT ![p] = Idle]
      /\ UNCHANGED <<now, revokedAt, cache, got>>
  BY DEF Fail
<1>2. call'[p] = Idle /\ \A o \in Callers \ {p} : call'[o] = call[o]
  BY <1>1 DEF CacheInv, TypeOK
<1>3. TypeOK'
  BY <1>1 DEF CacheInv, TypeOK
<1> QED
  BY <1>1, <1>2, <1>3 DEF CacheInv, Dated, AnswersTheQuestion, DeadSoonRefused

LEMMA RevokeInv ==
    ASSUME CacheInv, NEW t \in AllTokens, Revoke(t)
    PROVE  CacheInv'
<1>1. /\ revokedAt[t] = Never
      /\ revokedAt' = [revokedAt EXCEPT ![t] = now]
      /\ UNCHANGED <<now, cache, call, got>>
  BY DEF Revoke
<1>2. now \in Times /\ now \in Int
  BY NowType
<1>3. TypeOK'
  BY <1>1, <1>2 DEF CacheInv, TypeOK
<1>4. /\ revokedAt'[t] = now /\ \A u \in AllTokens \ {t} : revokedAt'[u] = revokedAt[u]
      /\ \A u \in AllTokens : revokedAt'[u] <= now
  BY <1>1, <1>2 DEF CacheInv, TypeOK
<1>5. ASSUME NEW a \in Answer, Dated(a), a.issued <= now
      PROVE  Dated(a)'
  <2>1. a.of.token \in AllTokens
    BY QuestionKey DEF Answer
  <2> QED
    BY <1>4, <1>5, <2>1 DEF Dated
<1>6. ASSUME NEW k \in DOMAIN cache
      PROVE  Dated(cache[k].res)'
  <2>1. /\ cache[k].res \in Answer /\ cache[k].res.issued \in Int /\ cache[k].storeAt \in Int
    BY DEF CacheInv, TypeOK, Answer, Times
  <2>2. /\ Dated(cache[k].res) /\ cache[k].res.issued <= cache[k].storeAt
        /\ cache[k].storeAt <= now
    BY DEF CacheInv
  <2>3. cache[k].res.issued <= now
    BY <1>2, <2>1, <2>2
  <2>4. Dated(cache[k].res)
    BY <2>2
  <2> DEFINE a == cache[k].res
  <2>5. a \in Answer /\ Dated(a) /\ a.issued <= now /\ a' = a
    BY <1>1, <2>1, <2>3, <2>4
  <2> HIDE DEF a
  <2>6. a.of.token \in AllTokens
    BY <2>5, QuestionKey DEF Answer
  <2>7. Dated(a)'
    BY <1>4, <2>5, <2>6 DEF Dated
  <2> QED
    BY <2>7 DEF a
<1>7. ASSUME NEW o \in Callers, call[o] # Idle, call[o].answer # Nothing
      PROVE  Dated(call[o].answer)'
  <2> DEFINE a == call[o].answer
  <2>1. a \in Answer
    BY <1>7, CallType
  <2>2. Dated(a) /\ a.issued <= now /\ a' = a
    BY <1>1, <1>7 DEF CacheInv
  <2> HIDE DEF a
  <2>3. a.of.token \in AllTokens
    BY <2>1, QuestionKey DEF Answer
  <2>4. Dated(a)'
    BY <1>4, <2>2, <2>3 DEF Dated
  <2> QED
    BY <2>4 DEF a
<1>8. DeadSoonRefused'
  <2> SUFFICES ASSUME got # Nothing, revokedAt'[got.asked.token] # Never
               PROVE  got.at < revokedAt'[got.asked.token] + TTL + Timeout
    BY <1>1 DEF CacheInv, DeadSoonRefused
  <2>1. got \in [asked : Question, res : Answer, at : Times] /\ got.at <= now
    BY DEF CacheInv, TypeOK
  <2>2. got.asked.token \in AllTokens /\ got.at \in Int
    BY <2>1, QuestionKey DEF Times
  <2>3. CASE got.asked.token = t
    BY <1>2, <1>4, <2>1, <2>2, <2>3, TimesAssumption
  <2>4. CASE got.asked.token # t
    BY <1>4, <2>2, <2>4 DEF CacheInv, DeadSoonRefused
  <2> QED
    BY <2>3, <2>4
<1> QED
  BY <1>1, <1>3, <1>4, <1>6, <1>7, <1>8 DEF CacheInv, AnswersTheQuestion

LEMMA TickInv ==
    ASSUME CacheInv, Tick
    PROVE  CacheInv'
<1>1. /\ now < MaxTime /\ now' = now + 1
      /\ \A p \in Callers : call[p] # Idle => now < call[p].since + Timeout
      /\ UNCHANGED <<revokedAt, cache, call, got>>
  BY DEF Tick
<1>2. now \in Nat /\ now' \in Times
  BY <1>1, NowType, TimesAssumption DEF Times
<1>3. TypeOK'
  BY <1>1, <1>2 DEF CacheInv, TypeOK
<1>4. \A t \in AllTokens : revokedAt'[t] <= now'
  <2> SUFFICES ASSUME NEW t \in AllTokens
               PROVE  revokedAt[t] <= now + 1
    BY <1>1
  <2>1. revokedAt[t] \in Int /\ revokedAt[t] <= now
    BY DEF CacheInv, TypeOK, Times, Never
  <2> QED
    BY <1>2, <2>1
<1>5. ASSUME NEW k \in DOMAIN cache
      PROVE  cache[k].storeAt <= now'
  <2>1. cache[k].storeAt \in Int /\ cache[k].storeAt <= now
    BY DEF CacheInv, TypeOK, Times
  <2> QED
    BY <1>1, <1>2, <2>1
<1>6. ASSUME NEW p \in Callers, call[p] # Idle
      PROVE  /\ call[p].since <= now' /\ now' <= call[p].since + Timeout
             /\ call[p].answer # Nothing => call[p].answer.issued <= now'
  <2>1. /\ call[p].since \in Times
        /\ call[p].answer # Nothing => call[p].answer \in Answer
    BY <1>6, CallType
  <2>2. /\ call[p].since \in Int
        /\ call[p].answer # Nothing => call[p].answer.issued \in Int
    BY <2>1 DEF Times, Answer
  <2>3. /\ call[p].since <= now
        /\ call[p].answer # Nothing => call[p].answer.issued <= now
    BY <1>6 DEF CacheInv
  <2> QED
    BY <1>1, <1>2, <1>6, <2>2, <2>3, TimesAssumption
<1>7. got # Nothing => got.at <= now'
  <2> SUFFICES ASSUME got # Nothing PROVE got.at <= now'
    OBVIOUS
  <2>1. got.at \in Int /\ got.at <= now
    BY DEF CacheInv, TypeOK, Times
  <2> QED
    BY <1>1, <1>2, <2>1
<1> QED
  BY <1>1, <1>3, <1>4, <1>5, <1>6, <1>7
     DEF CacheInv, Dated, AnswersTheQuestion, DeadSoonRefused

(* The dates of answers, entries, requests and revocations agree.          *)
THEOREM CacheInvariant == Spec => []CacheInv
<1>1. CacheInv /\ [Next]_vars => CacheInv'
  <2> SUFFICES ASSUME CacheInv, [Next]_vars PROVE CacheInv'
    OBVIOUS
  <2>1. ASSUME NEW p \in Callers,
               Hit(p) \/ Miss(p) \/ DockAnswers(p) \/ Return(p) \/ Fail(p)
        PROVE  CacheInv'
    BY <2>1, HitInv, MissInv, DockAnswersInv, ReturnInv, FailInv
  <2>2. ASSUME NEW t \in AllTokens, Revoke(t) PROVE CacheInv'
    BY <2>2, RevokeInv
  <2>3. CASE Tick
    BY <2>3, TickInv
  <2>4. CASE UNCHANGED vars
    BY <2>4 DEF vars, CacheInv, TypeOK, Dated, AnswersTheQuestion, DeadSoonRefused
  <2> QED
    BY <2>1, <2>2, <2>3, <2>4 DEF Next
<1> QED
  BY <1>1, InitCacheInv, PTL DEF Spec

(* No answer is ever given to another question than the one it answers.    *)
THEOREM CacheAnswers == Spec => []AnswersTheQuestion
<1>1. CacheInv => AnswersTheQuestion
  BY DEF CacheInv
<1> QED
  BY <1>1, CacheInvariant, PTL

(* A revoked or expired token is accepted for less than TTL + Timeout: 45  *)
(* seconds and not the 30 of the window, because an answer may be Timeout  *)
(* old when it enters the cache; and never longer, for any callers.        *)
THEOREM CacheRevocation == Spec => []DeadSoonRefused
<1>1. CacheInv => DeadSoonRefused
  BY DEF CacheInv
<1> QED
  BY <1>1, CacheInvariant, PTL

(* The types of the variables.                                             *)
THEOREM CacheTypes == Spec => []TypeOK
<1>1. CacheInv => TypeOK
  BY DEF CacheInv
<1> QED
  BY <1>1, CacheInvariant, PTL

----------------------------------------------------------------------------
(* The sweep.                                                              *)
Kind(m, kind) == {j \in DOMAIN m : j[1] = kind}

LEMMA SweepKinds ==
    ASSUME NEW m, NEW k
    PROVE  /\ \A j \in DOMAIN Sweep(m, k) :
                Sweep(m, k)[j] = m[j] /\ (Cardinality(Kind(m, k[1])) > Cap /\ j[1] = k[1] =>
                                          ~ m[j].storeAt < now - TTL)
           /\ ~ Cardinality(Kind(m, k[1])) > Cap => Sweep(m, k) = m
           /\ \A kind : kind # k[1] => Kind(Sweep(m, k), kind) = Kind(m, kind)
           /\ \A j \in DOMAIN m : ~ m[j].storeAt < now - TTL => j \in DOMAIN Sweep(m, k)
<1> DEFINE same == {j \in DOMAIN m : j[1] = k[1]}
           old == {j \in same : m[j].storeAt < now - TTL}
<1>1. same = Kind(m, k[1])
  BY DEF Kind
<1>2. CASE Cardinality(same) > Cap
  <2>1. Sweep(m, k) = [j \in DOMAIN m \ old |-> m[j]]
    BY <1>2 DEF Sweep
  <2> QED
    BY <1>1, <1>2, <2>1 DEF Kind
<1>3. CASE ~ Cardinality(same) > Cap
  <2>1. Sweep(m, k) = m
    BY <1>3 DEF Sweep
  <2> QED
    BY <1>1, <1>3, <2>1 DEF Kind
<1> QED
  BY <1>2, <1>3

(* A return stores one entry and sweeps.                                   *)
LEMMA ReturnStores ==
    ASSUME CacheInv, NEW p \in Callers, Return(p)
    PROVE  \E k : LET full == Store(cache, k, [res |-> call[p].answer, storeAt |-> now])
                  IN cache' = Sweep(full, k) /\ now' = now
BY DEF Return

LEMMA ReturnOverCap ==
    ASSUME CacheInv, CacheInv', OverCapIsRecent, NEW p \in Callers, Return(p)
    PROVE  OverCapIsRecent'
<1>1. PICK k : LET full == Store(cache, k, [res |-> call[p].answer, storeAt |-> now])
               IN cache' = Sweep(full, k) /\ now' = now
  BY ReturnStores
<1> DEFINE full == Store(cache, k, [res |-> call[p].answer, storeAt |-> now])
<1>2. cache' = Sweep(full, k) /\ now' = now
  BY <1>1
<1>3. DOMAIN full = DOMAIN cache \cup {k} /\ \A j \in DOMAIN cache \ {k} : full[j] = cache[j]
  BY DEF Store
<1> HIDE DEF full
<1> SUFFICES ASSUME NEW kind \in {"user", "agent"}, Cardinality(Kind(cache', kind)) > Cap,
                    NEW i \in Kind(cache', kind), NEW j \in Kind(cache', kind)
             PROVE  cache'[i].storeAt - cache'[j].storeAt <= TTL
  BY DEF OverCapIsRecent, Kind
<1>4. CASE kind = k[1]
  <2>1. Cardinality(Kind(full, k[1])) > Cap
    BY <1>2, <1>4, SweepKinds
  <2>2. i \in DOMAIN cache' /\ j \in DOMAIN cache' /\ i[1] = k[1] /\ j[1] = k[1]
    BY <1>4 DEF Kind
  <2>3. ~ cache'[j].storeAt < now - TTL
    BY <1>2, <2>1, <2>2, SweepKinds
  <2>4. /\ cache'[i].storeAt <= now /\ cache'[i].storeAt \in Int
        /\ cache'[j].storeAt \in Int /\ now \in Int
    BY <1>2, <2>2, NowType DEF CacheInv, TypeOK, Times
  <2> QED
    BY <2>3, <2>4, TimesAssumption
<1>5. CASE kind # k[1]
  <2>1. Kind(cache', kind) = Kind(full, kind)
    BY <1>2, <1>5, SweepKinds
  <2>2. Kind(full, kind) = Kind(cache, kind)
    BY <1>3, <1>5 DEF Kind
  <2>3. \A x \in Kind(cache, kind) : x \in DOMAIN cache' /\ x \in DOMAIN cache \ {k}
    BY <1>5, <2>1, <2>2 DEF Kind
  <2>4. cache'[i] = cache[i] /\ cache'[j] = cache[j]
    BY <1>2, <1>3, <2>1, <2>2, <2>3, SweepKinds
  <2>5. i \in Kind(cache, kind) /\ j \in Kind(cache, kind) /\ Cardinality(Kind(cache, kind)) > Cap
    BY <2>1, <2>2
  <2> QED
    BY <2>4, <2>5 DEF OverCapIsRecent, Kind
<1> QED
  BY <1>4, <1>5

(* A map over its cap holds only entries of one window, for every cap.     *)
THEOREM CacheOverCapIsRecent == Spec => []OverCapIsRecent
<1>1. Init => OverCapIsRecent
  BY DEF Init, EmptyMap, OverCapIsRecent
<1>2. CacheInv /\ CacheInv' /\ OverCapIsRecent /\ [Next]_vars => OverCapIsRecent'
  <2> SUFFICES ASSUME CacheInv, CacheInv', OverCapIsRecent, [Next]_vars
               PROVE  OverCapIsRecent'
    OBVIOUS
  <2>1. CASE UNCHANGED cache
    BY <2>1 DEF OverCapIsRecent
  <2>2. UNCHANGED cache \/ \E p \in Callers : Return(p)
    BY DEF Next, vars, Hit, Miss, DockAnswers, Fail, Revoke, Tick
  <2> QED
    BY <2>1, <2>2, ReturnOverCap
<1> QED
  BY <1>1, <1>2, CacheInvariant, PTL DEF Spec

(* No step loses an entry that is still fresh.                             *)
THEOREM CacheFreshIsKept == Spec => FreshIsKept
<1> DEFINE Kept == \A k \in DOMAIN cache :
                     now' - cache[k].storeAt < TTL => k \in DOMAIN cache'
<1>1. CacheInv /\ [Next]_vars => [Kept]_vars
  <2> SUFFICES ASSUME CacheInv, [Next]_vars, NEW j \in DOMAIN cache,
                      now' - cache[j].storeAt < TTL
               PROVE  j \in DOMAIN cache'
    OBVIOUS
  <2>1. ASSUME NEW p \in Callers, Return(p) PROVE j \in DOMAIN cache'
    <3>1. PICK k : LET full == Store(cache, k, [res |-> call[p].answer, storeAt |-> now])
                   IN cache' = Sweep(full, k) /\ now' = now
      BY <2>1, ReturnStores
    <3> DEFINE full == Store(cache, k, [res |-> call[p].answer, storeAt |-> now])
    <3>2. /\ j \in DOMAIN full
          /\ full[j].storeAt = IF j = k THEN now ELSE cache[j].storeAt
      BY DEF Store
    <3> HIDE DEF full
    <3>3. cache[j].storeAt \in Int /\ now \in Int
      BY NowType DEF CacheInv, TypeOK, Times
    <3>4. ~ full[j].storeAt < now - TTL
      BY <3>1, <3>2, <3>3, TimesAssumption
    <3>5. cache' = Sweep(full, k)
      BY <3>1 DEF full
    <3> QED
      BY <3>2, <3>4, <3>5, SweepKinds
  <2>2. UNCHANGED cache \/ \E p \in Callers : Return(p)
    BY DEF Next, vars, Hit, Miss, DockAnswers, Fail, Revoke, Tick
  <2> QED
    BY <2>1, <2>2
<1> HIDE DEF Kept
<1>2. Spec => [][Kept]_vars
  BY <1>1, CacheInvariant, PTL DEF Spec
<1> QED
  BY <1>2 DEF FreshIsKept, Kept
=============================================================================
