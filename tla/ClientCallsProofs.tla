------------------------- MODULE ClientCallsProofs --------------------------
(* Proofs about the parts of the SDK that callers use side by side: a      *)
(* profile cache, for every window, timeout and cap; the scopes of a       *)
(* cached answer, for every set of grants and any memory; the bindings of  *)
(* a plugin's table, for any columns' values; and of all of them, with the *)
(* compute tasks, that a behaviour of one is a behaviour of its part.      *)
EXTENDS MCClientCalls, ComputeTasksProofs, SequenceTheorems, TLAPS

----------------------------------------------------------------------------
(* The profile caches.                                                     *)
----------------------------------------------------------------------------
Request == [waiting : {TRUE}, id : Ids, since : Times, reply : {Nothing} \cup User]

LEMMA NowType == ASSUME ProfileInv PROVE now \in Times /\ now \in Nat /\ now \in Int
BY DEF ProfileInv, TypeOK, Times

(* The request a caller waits for, and when it was sent and answered.      *)
LEMMA CallType ==
    ASSUME ProfileInv, NEW p \in Callers, call[p] # Idle
    PROVE  /\ call[p] \in Request /\ call[p].since \in Int
           /\ call[p].reply # Nothing => call[p].reply \in User /\ call[p].reply.asOf \in Int
<1>1. call \in [Callers -> {Idle} \cup Request]
  BY DEF ProfileInv, TypeOK, Request
<1>2. call[p] \in Request
  BY <1>1
<1>3. call[p].since \in Times /\ call[p].reply \in {Nothing} \cup User
  BY <1>2 DEF Request
<1>4. call[p].reply # Nothing => call[p].reply \in User /\ call[p].reply.asOf \in Times
  BY <1>3 DEF User
<1> QED
  BY <1>2, <1>3, <1>4 DEF Times

LEMMA EntryType ==
    ASSUME ProfileInv, NEW id \in DOMAIN store
    PROVE  /\ id \in Ids /\ store[id] \in [value : User, storeAt : Times]
           /\ store[id].value \in User
           /\ store[id].storeAt \in Int /\ store[id].value.asOf \in Int
BY DEF ProfileInv, TypeOK, User, Times

(* A sweep only removes entries, and none younger than TTL.                *)
LEMMA SweepKeeps ==
    ASSUME NEW m
    PROVE  /\ \A i \in DOMAIN Sweep(m) : i \in DOMAIN m /\ Sweep(m)[i] = m[i]
           /\ ~ Cardinality(DOMAIN m) > Cap => Sweep(m) = m
           /\ Cardinality(DOMAIN m) > Cap =>
                \A i \in DOMAIN Sweep(m) : m[i].storeAt >= now - TTL
BY DEF Sweep

LEMMA InitProfileInv == Init => ProfileInv
<1> SUFFICES ASSUME Init PROVE ProfileInv
  OBVIOUS
<1>1. DOMAIN store = {} /\ now = 0 /\ now \in Times
  BY TimesAssumption DEF Init, EmptyMap, Times
<1> QED
  BY <1>1 DEF Init, ProfileInv, TypeOK, StaleAtMost

(* What is given out is of the id asked for, and young enough.             *)
LEMMA GivesInv ==
    ASSUME ProfileInv, NEW id \in Ids, NEW u \in User, u.id = id,
           now <= u.asOf + TTL + Timeout, Gives(id, u), UNCHANGED now
    PROVE  /\ got' \in [asked : Ids, value : User, at : Times]
           /\ got'.at <= now /\ StaleAtMost'
<1>1. got' = [asked |-> id, value |-> u, at |-> now] /\ now \in Times /\ now \in Int
  BY NowType DEF Gives
<1>2. got'.value = u /\ got'.asked = id /\ got'.at = now
  BY <1>1
<1> QED
  BY <1>1, <1>2 DEF StaleAtMost

LEMMA HitInv ==
    ASSUME ProfileInv, NEW p \in Callers, Hit(p)
    PROVE  ProfileInv'
<1>1. PICK id \in Ids : Fresh(id) /\ Gives(id, store[id].value)
  BY DEF Hit
<1>2. UNCHANGED <<now, store, call>>
  BY DEF Hit
<1>3. id \in DOMAIN store /\ now - store[id].storeAt <= TTL
  BY <1>1 DEF Fresh, Has
<1>4. /\ store[id].value.id = id
      /\ store[id].storeAt <= store[id].value.asOf + Timeout
  BY <1>3 DEF ProfileInv
<1>5. now <= store[id].value.asOf + TTL + Timeout
  BY <1>3, <1>4, EntryType, NowType, TimesAssumption
<1>6. /\ got' \in [asked : Ids, value : User, at : Times]
      /\ got'.at <= now /\ StaleAtMost'
  BY <1>1, <1>2, <1>3, <1>4, <1>5, EntryType, GivesInv
<1> QED
  BY <1>2, <1>6 DEF ProfileInv, TypeOK

(* A step that gives nothing out.                                          *)
LEMMA QuietInv ==
    ASSUME ProfileInv, NEW p \in Callers, NEW c \in {Idle} \cup Request,
           call' = [call EXCEPT ![p] = c], UNCHANGED <<now, got>>,
           DOMAIN store' \subseteq DOMAIN store,
           \A id \in DOMAIN store' : store'[id] = store[id],
           c # Idle => /\ c.since <= now /\ now <= c.since + Timeout
                       /\ c.reply # Nothing =>
                            /\ c.reply.id = c.id
                            /\ c.since <= c.reply.asOf /\ c.reply.asOf <= now
    PROVE  ProfileInv'
<1>1. TypeOK'
  BY DEF ProfileInv, TypeOK, Request
<1>2. call'[p] = c /\ \A o \in Callers \ {p} : call'[o] = call[o]
  BY DEF ProfileInv, TypeOK
<1>3. ASSUME NEW o \in Callers, call'[o] # Idle
      PROVE  /\ call'[o].since <= now /\ now <= call'[o].since + Timeout
             /\ call'[o].reply # Nothing =>
                  /\ call'[o].reply.id = call'[o].id
                  /\ call'[o].since <= call'[o].reply.asOf /\ call'[o].reply.asOf <= now
  <2>1. CASE o = p
    BY <1>2, <1>3, <2>1
  <2>2. CASE o # p
    <3>1. call'[o] = call[o]
      BY <1>2, <2>2
    <3> QED
      BY <1>3, <3>1 DEF ProfileInv
  <2> QED
    BY <2>1, <2>2
<1> QED
  BY <1>1, <1>3 DEF ProfileInv, StaleAtMost

LEMMA MissInv ==
    ASSUME ProfileInv, NEW p \in Callers, Miss(p)
    PROVE  ProfileInv'
<1>1. PICK id \in Ids :
        /\ store' = Without(store, id)
        /\ call' = [call EXCEPT ![p] = [waiting |-> TRUE, id |-> id, since |-> now,
                                        reply |-> Nothing]]
  BY DEF Miss
<1> DEFINE c == [waiting |-> TRUE, id |-> id, since |-> now, reply |-> Nothing]
<1>2. c \in Request /\ c.since = now /\ c.reply = Nothing
  BY NowType DEF Request
<1>3. call' = [call EXCEPT ![p] = c]
  BY <1>1
<1> HIDE DEF c
<1>4. DOMAIN store' \subseteq DOMAIN store /\ \A i \in DOMAIN store' : store'[i] = store[i]
  BY <1>1 DEF Without
<1>5. c.since <= now /\ now <= c.since + Timeout
  BY <1>2, NowType, TimesAssumption
<1>6. UNCHANGED <<now, got>>
  BY DEF Miss
<1> QED
  BY <1>2, <1>3, <1>4, <1>5, <1>6, QuietInv

LEMMA DockAnswersInv ==
    ASSUME ProfileInv, NEW p \in Callers, DockAnswers(p)
    PROVE  ProfileInv'
<1> DEFINE u == [id |-> call[p].id, asOf |-> now]
           c == [call[p] EXCEPT !.reply = u]
<1>1. call[p] # Idle /\ UNCHANGED <<now, store, got>>
      /\ call' = [call EXCEPT ![p].reply = u]
  BY DEF DockAnswers
<1>2. call[p] \in Request
  BY <1>1, CallType
<1>3. u \in User /\ u.id = call[p].id /\ u.asOf = now
  BY <1>2, NowType DEF Request, User
<1> HIDE DEF u
<1>4. /\ c \in Request /\ c.since = call[p].since /\ c.id = call[p].id /\ c.reply = u
  BY <1>2, <1>3 DEF Request
<1>5. call' = [call EXCEPT ![p] = c]
  BY <1>1, <1>2
<1> HIDE DEF c
<1>6. c.since <= now /\ now <= c.since + Timeout /\ c.reply.id = c.id
      /\ c.since <= c.reply.asOf /\ c.reply.asOf <= now
  BY <1>1, <1>3, <1>4, NowType DEF ProfileInv
<1> QED
  BY <1>1, <1>4, <1>5, <1>6, QuietInv

LEMMA FailInv ==
    ASSUME ProfileInv, NEW p \in Callers, Fail(p)
    PROVE  ProfileInv'
BY QuietInv DEF Fail

LEMMA ReturnInv ==
    ASSUME ProfileInv, NEW p \in Callers, Return(p)
    PROVE  ProfileInv'
<1> DEFINE id == call[p].id
           u == call[p].reply
           e == [value |-> u, storeAt |-> now]
           full == Store(store, id, e)
<1>1. /\ call[p] # Idle /\ u # Nothing /\ store' = Sweep(full) /\ Gives(id, u)
      /\ call' = [call EXCEPT ![p] = Idle] /\ UNCHANGED now
  BY DEF Return, Put
<1>2. call[p] \in Request /\ u \in User /\ u.asOf \in Int /\ call[p].since \in Int
  BY <1>1, CallType
<1>3. id \in Ids /\ now \in Times /\ now \in Int
  BY <1>2, NowType DEF Request
<1>4. /\ u.id = id /\ call[p].since <= u.asOf /\ u.asOf <= now
      /\ now <= call[p].since + Timeout
  BY <1>1 DEF ProfileInv
<1>5. now <= u.asOf + Timeout /\ now <= u.asOf + TTL + Timeout
  BY <1>2, <1>3, <1>4, TimesAssumption
<1>6. e \in [value : User, storeAt : Times] /\ e.value = u /\ e.storeAt = now
  BY <1>2, <1>3
<1>7. full = Store(store, id, e)
  OBVIOUS
<1> HIDE DEF id, u, e
<1>8. /\ got' \in [asked : Ids, value : User, at : Times]
      /\ got'.at <= now /\ StaleAtMost'
  BY <1>1, <1>2, <1>3, <1>4, <1>5, GivesInv
<1>9. /\ DOMAIN full = DOMAIN store \cup {id} /\ full[id] = e
      /\ \A j \in DOMAIN store \ {id} : full[j] = store[j]
  BY DEF Store
<1> HIDE DEF full
<1>10. ASSUME NEW j \in DOMAIN store'
       PROVE  /\ j \in Ids /\ store'[j] \in [value : User, storeAt : Times]
              /\ store'[j].value.id = j
              /\ store'[j].value.asOf <= store'[j].storeAt /\ store'[j].storeAt <= now
              /\ store'[j].storeAt <= store'[j].value.asOf + Timeout
  <2>1. j \in DOMAIN full /\ store'[j] = full[j]
    BY <1>1, SweepKeeps
  <2>2. CASE j = id
    BY <1>3, <1>4, <1>5, <1>6, <1>9, <2>1, <2>2
  <2>3. CASE j # id
    <3>1. j \in DOMAIN store /\ store'[j] = store[j]
      BY <1>9, <2>1, <2>3
    <3> QED
      BY <3>1, EntryType DEF ProfileInv
  <2> QED
    BY <2>2, <2>3
<1>11. call'[p] = Idle /\ \A o \in Callers \ {p} : call'[o] = call[o]
  BY <1>1 DEF ProfileInv, TypeOK
<1>12. TypeOK'
  BY <1>1, <1>8, <1>10 DEF ProfileInv, TypeOK
<1> QED
  BY <1>1, <1>8, <1>10, <1>11, <1>12 DEF ProfileInv

LEMMA TickInv ==
    ASSUME ProfileInv, Tick
    PROVE  ProfileInv'
<1>1. /\ now' = now + 1 /\ now < MaxTime /\ UNCHANGED <<store, call, got>>
      /\ now \in Int /\ now \in Times
  BY NowType DEF Tick
<1>2. TypeOK'
  <2>1. now' \in Times
    BY <1>1, TimesAssumption DEF Times
  <2> QED
    BY <1>1, <2>1 DEF ProfileInv, TypeOK
<1>3. ASSUME NEW id \in DOMAIN store PROVE store[id].storeAt <= now'
  <2>1. store[id].storeAt <= now
    BY DEF ProfileInv
  <2> QED
    BY <1>1, <2>1, EntryType
<1>4. ASSUME NEW p \in Callers, call[p] # Idle
      PROVE  /\ call[p].since <= now' /\ now' <= call[p].since + Timeout
             /\ call[p].reply # Nothing => call[p].reply.asOf <= now'
  <2>1. call[p].since <= now /\ (call[p].reply # Nothing => call[p].reply.asOf <= now)
    BY <1>4 DEF ProfileInv
  <2>2. now < call[p].since + Timeout
    BY <1>4 DEF Tick
  <2> QED
    BY <1>1, <1>4, <2>1, <2>2, CallType, TimesAssumption
<1>5. got # Nothing => got.at <= now'
  <2> SUFFICES ASSUME got # Nothing PROVE got.at <= now'
    OBVIOUS
  <2>1. got.at \in Int /\ got.at <= now
    BY DEF ProfileInv, TypeOK, Times
  <2> QED
    BY <1>1, <2>1
<1> QED
  BY <1>1, <1>2, <1>3, <1>4, <1>5 DEF ProfileInv, StaleAtMost

LEMMA NextProfileInv == ProfileInv /\ [Next]_vars => ProfileInv'
<1> SUFFICES ASSUME ProfileInv, [Next]_vars PROVE ProfileInv'
  OBVIOUS
<1>1. CASE UNCHANGED vars
  BY <1>1 DEF vars, ProfileInv, TypeOK, StaleAtMost
<1> QED
  BY <1>1, HitInv, MissInv, DockAnswersInv, ReturnInv, FailInv, TickInv DEF Next

(* Entries, requests and replies are dated in order.                       *)
THEOREM ProfileInvariant == Spec => []ProfileInv
BY InitProfileInv, NextProfileInv, PTL DEF Spec

(* A profile is of the id asked for and at most TTL + Timeout old.         *)
THEOREM ProfileStaleAtMost == Spec => []StaleAtMost
<1>1. ProfileInv => StaleAtMost
  BY DEF ProfileInv
<1> QED
  BY <1>1, ProfileInvariant, PTL

(* A put that leaves the cache over its cap leaves only recent entries.    *)
THEOREM ProfileOverCapIsRecent == Spec => OverCapIsRecent
<1> DEFINE Recent == (got' # got /\ store' # store /\ Cardinality(DOMAIN store') > Cap) =>
                       \A id \in DOMAIN store' : now - store'[id].storeAt <= TTL
<1>1. ProfileInv /\ ProfileInv' /\ [Next]_vars => [Recent]_vars
  <2> SUFFICES ASSUME ProfileInv, ProfileInv', [Next]_vars, got' # got, store' # store,
                      Cardinality(DOMAIN store') > Cap, NEW i \in DOMAIN store'
               PROVE  now - store'[i].storeAt <= TTL
    OBVIOUS
  <2>1. PICK p \in Callers : Return(p)
    BY DEF Next, vars, Hit, Miss, DockAnswers, Fail, Tick
  <2>2. PICK full : store' = Sweep(full)
    BY <2>1 DEF Return, Put
  <2>3. store'[i] = full[i]
    BY <2>2, SweepKeeps
  <2>4. Cardinality(DOMAIN full) > Cap
    BY <2>2, SweepKeeps
  <2>5. store'[i].storeAt >= now - TTL
    BY <2>2, <2>3, <2>4, SweepKeeps
  <2>6. store'[i].storeAt \in Int /\ now \in Int
    BY NowType DEF ProfileInv, TypeOK, Times
  <2> QED
    BY <2>5, <2>6, TimesAssumption
<1> HIDE DEF Recent
<1>2. Spec => [][Recent]_vars
  BY <1>1, ProfileInvariant, PTL DEF Spec
<1> QED
  BY <1>2 DEF OverCapIsRecent, Recent

----------------------------------------------------------------------------
(* The scopes of a cached answer.                                          *)
----------------------------------------------------------------------------
Answers == {answer[p] : p \in Readers}

(* No cell is an address of a pointer that is absent.                      *)
LEMMA PointsSomewhere ==
    ASSUME NEW a, NEW mem, PointsInto(a, mem), DOMAIN mem \subseteq Cells
    PROVE  a # Absent
<1>1. a["Scopes"] \subseteq Cells
  BY DEF PointsInto, Pointers
<1>2. Absent["Scopes"] = {0} /\ 0 \notin Cells
  BY CellsAssumption DEF Absent, Pointers
<1> QED
  BY <1>1, <1>2

LEMMA FreshSuits ==
    ASSUME NEW v, NEW used, Free(v, used) # {}
    PROVE  /\ Fresh3(v, used) \in [Pointers -> {{}} \cup {{c} : c \in Cells \ used}]
           /\ Suits(Fresh3(v, used), v)
<1>1. Fresh3(v, used) \in Free(v, used)
  BY DEF Fresh3
<1> QED
  BY <1>1 DEF Free

----------------------------------------------------------------------------
(* After a step the memory is the cells in use, and a fresh answer reads   *)
(* as v there; what is not of a fresh answer is as it was.                 *)
LEMMA KeepDomain ==
    ASSUME NEW fresh, NEW v, Keep(fresh, v)
    PROVE  DOMAIN memory' = CellsOf({entry'} \cup {answer'[p] : p \in Readers})
BY DEF Keep

LEMMA KeepOld ==
    ASSUME NEW fresh, NEW v, Keep(fresh, v), NEW c \in DOMAIN memory',
           \A a \in fresh, f \in Pointers : c \notin a[f]
    PROVE  memory'[c] = memory[c]
<1> DEFINE of == {f \in Pointers : \E a \in fresh : c \in a[f]}
<1>1. of = {}
  OBVIOUS
<1> QED
  BY <1>1 DEF Keep

LEMMA KeepFresh ==
    ASSUME NEW fresh, NEW v, Keep(fresh, v), NEW b \in fresh, NEW f \in Pointers,
           NEW c \in b[f], c \in DOMAIN memory',
           \A a \in fresh, g \in Pointers : c \in a[g] => g = f,
           v[f] # {}
    PROVE  memory'[c] \in v[f]
<1> DEFINE of == {g \in Pointers : \E a \in fresh : c \in a[g]}
<1>1. of = {f}
  OBVIOUS
<1>2. memory'[c] = CHOOSE x \in v[CHOOSE g \in of : TRUE] : TRUE
  BY <1>1 DEF Keep
<1>3. (CHOOSE g \in of : TRUE) = f
  BY <1>1
<1> HIDE DEF of
<1> QED
  BY <1>2, <1>3

Unused(a) == a \in [Pointers -> {{}} \cup {{c} : c \in Cells \ DOMAIN memory}] /\ Suits(a, truth)

(* A fresh answer whose cells stay in use reads as dock's.                 *)
LEMMA FreshValue ==
    ASSUME ScopesTypeOK, NEW fresh, Keep(fresh, truth), NEW b \in fresh, Unused(b),
           \A a \in fresh, f, g \in Pointers : a[f] \cap b[g] # {} => a = b,
           \A f \in Pointers : b[f] \subseteq DOMAIN memory'
    PROVE  Value(b, memory') = truth
<1>1. ASSUME NEW f \in Pointers PROVE {memory'[c] : c \in b[f]} = truth[f]
  <2>1. (b[f] = {}) <=> (truth[f] = {})
    BY DEF Unused, Suits
  <2>2. CASE b[f] = {}
    BY <2>1, <2>2
  <2>3. CASE b[f] # {}
    <3>1. PICK c : b[f] = {c}
      BY <2>3 DEF Unused
    <3>2. \A a \in fresh, g \in Pointers : c \in a[g] => g = f
      <4> SUFFICES ASSUME NEW a \in fresh, NEW g \in Pointers, c \in a[g] PROVE g = f
        OBVIOUS
      <4>1. a = b
        BY <3>1
      <4> QED
        BY <3>1, <4>1 DEF Unused, Suits
    <3>3. memory'[c] \in truth[f]
      BY <2>1, <2>3, <3>1, <3>2, KeepFresh
    <3>4. \A x, y \in truth[f] : x = y
      BY DEF ScopesTypeOK
    <3> QED
      BY <3>1, <3>3, <3>4
  <2> QED
    BY <2>2, <2>3
<1>2. truth = [f \in Pointers |-> truth[f]]
  BY DEF ScopesTypeOK
<1> QED
  BY <1>1, <1>2 DEF Value

(* An answer of before, whose cells stay in use, reads as before.          *)
LEMMA OldValue ==
    ASSUME NEW fresh, NEW v, Keep(fresh, v), \A a \in fresh : Unused(a),
           NEW b, PointsInto(b, memory), \A f \in Pointers : b[f] \subseteq DOMAIN memory'
    PROVE  Value(b, memory') = Value(b, memory)
<1>1. ASSUME NEW f \in Pointers, NEW c \in b[f] PROVE memory'[c] = memory[c]
  <2>1. c \in DOMAIN memory
    BY DEF PointsInto
  <2>2. \A a \in fresh, g \in Pointers : c \notin a[g]
    BY <2>1 DEF Unused
  <2> QED
    BY <2>2, KeepOld
<1>2. \A f \in Pointers : {memory'[c] : c \in b[f]} = {memory[c] : c \in b[f]}
  BY <1>1
<1> QED
  BY <1>2 DEF Value

Apart(a, b) ==
    a # Absent /\ b # Absent => \A f, g \in Pointers : a[f] \cap b[g] = {}

LEMMA ApartBefore ==
    ASSUME ScopesInv, NEW p \in Readers, NEW b, b = entry \/ \E q \in Readers \ {p} : b = answer[q]
    PROVE  Apart(answer[p], b)
<1> SUFFICES ASSUME answer[p] # Absent, b # Absent, NEW f \in Pointers, NEW g \in Pointers,
                    NEW c \in answer[p][f], c \in b[g]
             PROVE  FALSE
  BY DEF Apart
<1>1. c \in Cells
  BY DEF ScopesInv, ScopesTypeOK, PointsInto
<1>2. c \in CellsOf({answer[p]})
  BY <1>1 DEF CellsOf
<1>3. CASE b = entry
  <2>1. c \in CellsOf({entry})
    BY <1>1, <1>3 DEF CellsOf
  <2> QED
    BY <1>2, <2>1 DEF ScopesInv
<1>4. CASE \E q \in Readers \ {p} : b = answer[q]
  <2>1. PICK q \in Readers \ {p} : b = answer[q]
    BY <1>4
  <2>2. c \in CellsOf({answer[q], entry})
    BY <1>1, <2>1 DEF CellsOf
  <2> QED
    BY <1>2, <2>1, <2>2 DEF ScopesInv
<1> QED
  BY <1>3, <1>4

(* A step that hands out fresh answers, to at most one reader and to the   *)
(* cache, and keeps what is held in memory.                                *)
LEMMA KeepInv ==
    ASSUME ScopesInv, NEW fresh, Keep(fresh, truth), UNCHANGED truth,
           \A a \in fresh : Unused(a),
           \A a, b \in fresh, f, g \in Pointers : a[f] \cap b[g] # {} => a = b,
           entry' \in fresh \cup {Absent, entry},
           DOMAIN answer' = Readers, edited' \subseteq Readers,
           \A p \in Readers : \/ answer'[p] = answer[p]
                              \/ answer'[p] \in fresh /\ Apart(answer'[p], entry'),
           \A p \in Readers : \A q \in Readers \ {p} :
             answer'[p] = answer[p] \/ answer'[q] = answer[q],
           \A p \in Readers \ edited' : answer'[p] \in fresh \/ p \notin edited
    PROVE  ScopesInv'
<1> DEFINE held == {entry'} \cup {answer'[p] : p \in Readers}
<1>1. ScopesTypeOK /\ DOMAIN memory \subseteq Cells
  BY DEF ScopesInv, ScopesTypeOK
<1>2. DOMAIN memory' = CellsOf(held)
  BY KeepDomain
<1>3. ASSUME NEW a \in held, a # Absent
      PROVE  (Unused(a) /\ a \in fresh) \/ PointsInto(a, memory)
  BY <1>1, <1>3 DEF ScopesTypeOK
<1>4. ASSUME NEW a \in held, a # Absent
      PROVE  \A f \in Pointers : a[f] \subseteq DOMAIN memory'
  BY <1>1, <1>2, <1>3, <1>4 DEF CellsOf, PointsInto, Unused
<1>5. ASSUME NEW a \in held, a # Absent
      PROVE  PointsInto(a, memory')
  <2>1. /\ Suits(a, truth)
        /\ a = [f \in Pointers |-> a[f]]
        /\ \A f \in Pointers : a[f] = {} \/ \E c : a[f] = {c}
    <3>1. CASE Unused(a)
      <4>1. a \in [Pointers -> {{}} \cup {{c} : c \in Cells \ DOMAIN memory}] /\ Suits(a, truth)
        BY <3>1 DEF Unused
      <4>2. ASSUME NEW f \in Pointers PROVE a[f] = {} \/ \E c : a[f] = {c}
        <5>1. a[f] \in {{}} \cup {{c} : c \in Cells \ DOMAIN memory}
          BY <4>1
        <5> QED
          BY <5>1
      <4> QED
        BY <4>1, <4>2
    <3>2. CASE PointsInto(a, memory)
      <4>1. a \in [Pointers -> {{}} \cup {{c} : c \in DOMAIN memory}] /\ Suits(a, truth)
        BY <3>2 DEF PointsInto
      <4>2. ASSUME NEW f \in Pointers PROVE a[f] = {} \/ \E c : a[f] = {c}
        <5>1. a[f] \in {{}} \cup {{c} : c \in DOMAIN memory}
          BY <4>1
        <5> QED
          BY <5>1
      <4> QED
        BY <4>1, <4>2
    <3> QED
      BY <1>3, <1>5, <3>1, <3>2
  <2> QED
    BY <1>4, <1>5, <2>1 DEF PointsInto
<1>6. DOMAIN memory' \subseteq Cells
  BY <1>2 DEF CellsOf
<1>7. ScopesTypeOK'
  <2>1. \A a \in held : a = Absent \/ PointsInto(a, memory')
    BY <1>5
  <2>2. \A a \in held : (a = Absent \/ PointsInto(a, memory)')
    BY <2>1 DEF PointsInto
  <2> QED
    BY <1>1, <1>6, <2>1 DEF ScopesTypeOK, PointsInto, Absent
<1>8. ASSUME NEW p \in Readers, NEW b, b = entry' \/ \E q \in Readers \ {p} : b = answer'[q]
      PROVE  Apart(answer'[p], b)
  <2> DEFINE a == answer'[p]
  <2>1. a \in held /\ b \in held
    BY <1>8
  <2> SUFFICES ASSUME a # Absent, b # Absent, NEW f \in Pointers, NEW g \in Pointers
               PROVE  a[f] \cap b[g] = {}
    BY DEF Apart
  <2> DEFINE old == b = entry \/ \E q \in Readers \ {p} : b = answer[q]
  <2>2. CASE a = answer[p] /\ old
    BY <2>2, ApartBefore DEF Apart
  <2>3. CASE a = answer[p] /\ ~ old
    <3>1. b \in fresh
      BY <1>8, <2>3
    <3>2. PointsInto(a, memory) /\ Unused(b)
      BY <1>1, <2>3, <3>1 DEF ScopesTypeOK
    <3> QED
      BY <3>2 DEF PointsInto, Unused
  <2>4. CASE a # answer[p] /\ b = entry'
    BY <2>4 DEF Apart
  <2>5. CASE a # answer[p] /\ \E q \in Readers \ {p} : b = answer'[q]
    <3>1. PICK q \in Readers \ {p} : b = answer[q]
      BY <2>5
    <3>2. PointsInto(b, memory) /\ Unused(a)
      BY <1>1, <2>5, <3>1 DEF ScopesTypeOK
    <3> QED
      BY <3>2 DEF PointsInto, Unused
  <2> QED
    BY <1>8, <2>2, <2>3, <2>4, <2>5
<1>9. ASSUME NEW a \in held, a # Absent, a \in fresh
      PROVE  Value(a, memory') = truth
  BY <1>1, <1>4, <1>9, FreshValue
<1>10. ASSUME NEW a \in held, a # Absent, PointsInto(a, memory)
       PROVE  Value(a, memory') = Value(a, memory)
  BY <1>4, <1>10, OldValue
<1>11. ASSUME NEW p \in Readers
       PROVE  /\ \A q \in Readers \ {p} :
                   CellsOf({answer'[p]}) \cap CellsOf({answer'[q], entry'}) = {}
              /\ CellsOf({answer'[p]}) \cap CellsOf({entry'}) = {}
  BY <1>8 DEF CellsOf, Apart
<1>12. entry' # Absent => Value(entry', memory') = truth
  <2> SUFFICES ASSUME entry' # Absent PROVE Value(entry', memory') = truth
    OBVIOUS
  <2>1. CASE entry' \in fresh
    BY <1>9, <2>1
  <2>2. CASE entry' \notin fresh
    BY <1>3, <1>10, <2>2 DEF ScopesInv
  <2> QED
    BY <2>1, <2>2
<1>13. ASSUME NEW p \in Readers \ edited', answer'[p] # Absent
       PROVE  Value(answer'[p], memory') = truth
  <2>1. CASE answer'[p] \in fresh
    BY <1>9, <1>13, <2>1
  <2>2. CASE answer'[p] \notin fresh
    BY <1>3, <1>10, <1>13, <2>2 DEF ScopesInv
  <2> QED
    BY <2>1, <2>2
<1> QED
  BY <1>7, <1>11, <1>12, <1>13 DEF ScopesInv, CellsOf, Value, Absent

----------------------------------------------------------------------------
LEMMA InitScopesInv == ScopesInit => ScopesInv
<1> SUFFICES ASSUME ScopesInit PROVE ScopesInv
  OBVIOUS
<1>1. /\ truth = [f \in Pointers |-> truth[f]] /\ truth.Scopes \subseteq Grants
      /\ \A f \in Pointers : \A x, y \in truth[f] : x = y
  <2>1. PICK id \in {{}, {{<<"id">>}}}, at \in {{}, {{<<"at">>}}}, s \in {{}} \cup {{g} : g \in Grants} :
          truth = [TokenID |-> id, Scopes |-> s, TokenExpiresAt |-> at]
    BY DEF ScopesInit
  <2>2. (id = {} \/ id = {{<<"id">>}}) /\ (at = {} \/ at = {{<<"at">>}})
    OBVIOUS
  <2>3. s = {} \/ \E g \in Grants : s = {g}
    OBVIOUS
  <2>4. /\ s \subseteq Grants /\ \A x, y \in s : x = y
        /\ \A x, y \in id : x = y
        /\ \A x, y \in at : x = y
    BY <2>2, <2>3
  <2> QED
    BY <2>1, <2>4 DEF Pointers
<1>2. DOMAIN memory = {} /\ edited = {} /\ entry = Absent /\ answer = [p \in Readers |-> Absent]
  BY DEF ScopesInit
<1> QED
  BY <1>1, <1>2 DEF ScopesInv, ScopesTypeOK, CellsOf

LEMMA UnusedFresh ==
    ASSUME NEW used, DOMAIN memory \subseteq used, Free(truth, used) # {}
    PROVE  /\ Unused(Fresh3(truth, used)) /\ Fresh3(truth, used) # Absent
           /\ \A f \in Pointers : Fresh3(truth, used)[f] \subseteq Cells \ used
<1> DEFINE a == Fresh3(truth, used)
<1>1. a \in [Pointers -> {{}} \cup {{c} : c \in Cells \ used}] /\ Suits(a, truth)
  BY FreshSuits
<1> HIDE DEF a
<1>2. \A f \in Pointers : a[f] \subseteq Cells \ used
  BY <1>1
<1>3. a \in [Pointers -> {{}} \cup {{c} : c \in Cells \ DOMAIN memory}]
  BY <1>1
<1>4. "Scopes" \in Pointers /\ Absent["Scopes"] = {0} /\ 0 \notin Cells
  BY CellsAssumption DEF Absent, Pointers
<1> QED
  BY <1>1, <1>2, <1>3, <1>4 DEF Unused, a

LEMMA MissInvScopes ==
    ASSUME ScopesInv, NEW p \in Readers, MissVerifies(p)
    PROVE  ScopesInv'
<1> DEFINE out == Fresh3(truth, DOMAIN memory)
           used == DOMAIN memory \cup CellsOf({out})
           fresh == {out, entry'}
<1>1. /\ Free(truth, DOMAIN memory) # {} /\ Free(truth, used) # {}
      /\ entry' = Fresh3(truth, used) /\ answer' = [answer EXCEPT ![p] = out]
      /\ Keep(fresh, truth) /\ edited' = edited \ {p} /\ UNCHANGED truth
  BY DEF MissVerifies, Clone
<1>2. Unused(out) /\ out # Absent /\ Unused(entry')
      /\ \A f \in Pointers : entry'[f] \subseteq Cells \ used
  BY <1>1, UnusedFresh
<1>3. \A f, g \in Pointers : out[f] \cap entry'[g] = {}
  <2>1. \A f \in Pointers : out[f] \subseteq Cells
    BY <1>2 DEF Unused
  <2>2. \A f \in Pointers : out[f] \subseteq CellsOf({out})
    BY <1>2, <2>1 DEF CellsOf
  <2> QED
    BY <1>2, <2>2
<1>4. DOMAIN answer = Readers /\ edited \subseteq Readers
  BY DEF ScopesInv, ScopesTypeOK
<1> HIDE DEF out, used
<1>5. \A a, b \in fresh, f, g \in Pointers : a[f] \cap b[g] # {} => a = b
  BY <1>3
<1>6. /\ DOMAIN answer' = Readers /\ answer'[p] = out
      /\ \A q \in Readers \ {p} : answer'[q] = answer[q]
  BY <1>1, <1>4
<1>7. Apart(out, entry')
  BY <1>3 DEF Apart
<1> QED
  BY <1>1, <1>2, <1>4, <1>5, <1>6, <1>7, KeepInv

LEMMA HitInvScopes ==
    ASSUME ScopesInv, NEW p \in Readers, HitVerifies(p)
    PROVE  ScopesInv'
<1> DEFINE c == Fresh3(truth, DOMAIN memory)
           d == [f \in Pointers |-> c[f] \ entry[f]]
<1>1. entry # Absent /\ Value(entry, memory) = truth
  BY DEF HitVerifies, ScopesInv
<1>2. /\ Free(truth, DOMAIN memory) # {}
      /\ answer' = [answer EXCEPT ![p] = c] /\ entry' = entry
      /\ Keep({d}, truth) /\ edited' = edited \ {p} /\ UNCHANGED truth
  BY <1>1 DEF HitVerifies, Clone
<1>3. Unused(c) /\ c # Absent
  BY <1>2, UnusedFresh
<1>4. PointsInto(entry, memory)
  BY <1>1 DEF ScopesInv, ScopesTypeOK
<1>5. d = c
  <2>1. c = [f \in Pointers |-> c[f]]
    BY <1>3 DEF Unused
  <2>2. \A f \in Pointers : c[f] \ entry[f] = c[f]
    BY <1>3, <1>4 DEF Unused, PointsInto
  <2> QED
    BY <2>1, <2>2
<1>6. DOMAIN answer = Readers /\ edited \subseteq Readers
  BY DEF ScopesInv, ScopesTypeOK
<1>7. Apart(c, entry)
  BY <1>3, <1>4 DEF Apart, Unused, PointsInto
<1> HIDE DEF c, d
<1>8. /\ DOMAIN answer' = Readers /\ answer'[p] = c
      /\ \A q \in Readers \ {p} : answer'[q] = answer[q]
  BY <1>2, <1>6
<1> QED
  BY <1>2, <1>3, <1>5, <1>6, <1>7, <1>8, KeepInv

LEMMA ExpiresInvScopes == ASSUME ScopesInv, Expires PROVE ScopesInv'
<1>1. entry' = Absent /\ UNCHANGED <<truth, answer, edited>> /\ Keep({}, truth)
  BY DEF Expires
<1>2. DOMAIN answer = Readers /\ edited \subseteq Readers
  BY DEF ScopesInv, ScopesTypeOK
<1> QED
  BY <1>1, <1>2, KeepInv

LEMMA SameTypes ==
    ASSUME ScopesTypeOK, UNCHANGED <<truth, entry, answer>>, DOMAIN memory' = DOMAIN memory,
           edited' \subseteq Readers
    PROVE  ScopesTypeOK'
<1>1. ASSUME NEW a, PointsInto(a, memory) PROVE PointsInto(a, memory)'
  BY <1>1 DEF PointsInto, Suits
<1> QED
  BY <1>1 DEF ScopesTypeOK, Absent

LEMMA SameCells ==
    ASSUME ScopesInv, UNCHANGED <<truth, entry, answer>>, ScopesTypeOK',
           entry # Absent => Value(entry, memory') = truth,
           \A p \in Readers \ edited' : answer[p] # Absent => Value(answer[p], memory') = truth
    PROVE  ScopesInv'
<1>1. ASSUME NEW p \in Readers
      PROVE  /\ \A q \in Readers : p # q =>
                   CellsOf({answer'[p]}) \cap CellsOf({answer'[q], entry'}) = {}
             /\ CellsOf({answer'[p]}) \cap CellsOf({entry'}) = {}
  BY DEF ScopesInv
<1>2. ASSUME NEW p \in Readers \ edited', answer'[p] # Absent
      PROVE  Value(answer'[p], memory') = truth'
  BY <1>2
<1> QED
  BY <1>1, <1>2 DEF ScopesInv, CellsOf, Value, Absent

(* Writing through an answer changes what no other answer points at.       *)
LEMMA EditsInv ==
    ASSUME ScopesInv, NEW p \in Readers, Edits(p)
    PROVE  ScopesInv'
<1>1. PICK c \in CellsOf({answer[p]}) : memory' = [memory EXCEPT ![c] = {}]
  BY DEF Edits
<1>2. edited' = edited \cup {p} /\ UNCHANGED <<truth, entry, answer>>
  BY DEF Edits
<1>3. DOMAIN memory' = DOMAIN memory
  BY <1>1
<1>4. ScopesTypeOK'
  BY <1>2, <1>3, SameTypes DEF ScopesInv, ScopesTypeOK
<1>5. ASSUME NEW a, a # Absent, PointsInto(a, memory), \A f \in Pointers : c \notin a[f]
      PROVE  Value(a, memory') = Value(a, memory)
  <2>1. \A f \in Pointers : \A d \in a[f] : d \in DOMAIN memory /\ memory'[d] = memory[d]
    BY <1>1, <1>5 DEF PointsInto
  <2>2. \A f \in Pointers : {memory'[d] : d \in a[f]} = {memory[d] : d \in a[f]}
    BY <2>1
  <2> QED
    BY <2>2 DEF Value
<1>6. PICK g \in Pointers : answer[p] # Absent /\ c \in answer[p][g]
  BY DEF CellsOf
<1>7. entry # Absent => Value(entry, memory') = truth
  <2> SUFFICES ASSUME entry # Absent PROVE Value(entry, memory') = truth
    OBVIOUS
  <2>1. PointsInto(entry, memory) /\ Value(entry, memory) = truth
    BY DEF ScopesInv, ScopesTypeOK
  <2>2. \A f \in Pointers : c \notin entry[f]
    BY <1>6, ApartBefore DEF Apart
  <2> QED
    BY <1>5, <2>1, <2>2
<1>8. ASSUME NEW q \in Readers \ edited', answer[q] # Absent
      PROVE  Value(answer[q], memory') = truth
  <2>1. q # p /\ q \notin edited
    BY <1>2
  <2>2. PointsInto(answer[q], memory) /\ Value(answer[q], memory) = truth
    BY <1>8, <2>1 DEF ScopesInv, ScopesTypeOK
  <2>3. Apart(answer[p], answer[q])
    BY <2>1, ApartBefore
  <2>4. \A f \in Pointers : c \notin answer[q][f]
    BY <1>6, <1>8, <2>3 DEF Apart
  <2> QED
    BY <1>5, <1>8, <2>2, <2>4
<1> QED
  BY <1>2, <1>4, <1>7, <1>8, SameCells

LEMMA ScopesStep == ScopesInv /\ [ScopesNext]_scopeVars => ScopesInv'
<1> SUFFICES ASSUME ScopesInv, [ScopesNext]_scopeVars PROVE ScopesInv'
  OBVIOUS
<1>1. CASE UNCHANGED scopeVars
  <2>1. UNCHANGED <<truth, memory, entry, answer, edited>> /\ ScopesTypeOK
    BY <1>1 DEF scopeVars, ScopesInv
  <2>2. ScopesTypeOK'
    BY <2>1, SameTypes DEF ScopesTypeOK
  <2> QED
    BY <2>1, <2>2, SameCells DEF ScopesInv
<1> QED
  BY <1>1, MissInvScopes, HitInvScopes, ExpiresInvScopes, EditsInv DEF ScopesNext

(* The cells behind a cached answer and its copies.                        *)
THEOREM ScopesInvariant == ScopesSpec => []ScopesInv
BY InitScopesInv, ScopesStep, PTL DEF ScopesSpec

(* A reader holds dock's answer until it writes into it itself.            *)
THEOREM ScopesAnswerIsDocks == ScopesSpec => []AnswerIsDocks
<1>1. ScopesInv => AnswerIsDocks
  BY DEF ScopesInv, AnswerIsDocks
<1> QED
  BY <1>1, ScopesInvariant, PTL

(* A grant covers a scope when it is the scope, "*", or a module's "*".    *)
LEMMA CoversIsCovering ==
    ASSUME NEW g \in Seq(STRING), g # <<>>, NEW s \in Seq(STRING), s # <<>>
    PROVE  Covers(g, s) <=>
             g \in {s, <<"*">>} \cup {Append(SubSeq(s, 1, n), "*") : n \in 1 .. Len(s) - 1}
<1> DEFINE n == Len(g) - 1
<1>1. n \in Nat /\ Len(s) \in Nat /\ Len(g) = n + 1
  OBVIOUS
<1>2. ASSUME NEW k \in 1 .. Len(s) - 1, g = Append(SubSeq(s, 1, k), "*")
      PROVE  /\ n = k /\ n >= 1 /\ g[n + 1] = "*"
             /\ Len(s) > n /\ SubSeq(s, 1, n) = SubSeq(g, 1, n)
  <2>1. SubSeq(s, 1, k) \in Seq(STRING) /\ Len(SubSeq(s, 1, k)) = k
    OBVIOUS
  <2>2. Len(g) = k + 1 /\ g[k + 1] = "*"
    BY <1>2, <2>1
  <2>3. SubSeq(g, 1, k) = SubSeq(s, 1, k)
    BY <1>2, <2>1, <2>2
  <2> QED
    BY <1>1, <2>2, <2>3
<1>3. ASSUME n >= 1, g[n + 1] = "*", Len(s) > n, SubSeq(s, 1, n) = SubSeq(g, 1, n)
      PROVE  n \in 1 .. Len(s) - 1 /\ g = Append(SubSeq(s, 1, n), "*")
  <2>1. g = Append(SubSeq(g, 1, n), g[n + 1])
    BY <1>1
  <2> QED
    BY <1>1, <1>3, <2>1
<1> QED
  BY <1>2, <1>3 DEF Covers

(* HasScope decides as dock granted.                                       *)
THEOREM ScopesDecideAsGranted == ScopesSpec => []ScopesAsGranted
<1>1. ScopesInv => ScopesAsGranted
  <2> SUFFICES ASSUME ScopesInv, NEW p \in Readers \ edited, NEW s \in Asked, answer[p] # Absent
               PROVE  LET covering == {s, <<"*">>} \cup
                                      {Append(SubSeq(s, 1, n), "*") : n \in 1 .. Len(s) - 1}
                      IN  HasScope(Value(answer[p], memory).Scopes, s) <=>
                            truth.Scopes = {} \/ \E g \in truth.Scopes : g \cap covering # {}
    BY DEF ScopesAsGranted
  <2> DEFINE covering == {s, <<"*">>} \cup {Append(SubSeq(s, 1, n), "*") : n \in 1 .. Len(s) - 1}
  <2>1. Value(answer[p], memory) = truth /\ truth.Scopes \subseteq Grants
    BY DEF ScopesInv, ScopesTypeOK
  <2>2. \A g \in UNION truth.Scopes : Covers(g, s) <=> g \in covering
    BY <2>1, ScopesAssumption, CoversIsCovering
  <2> HIDE DEF covering
  <2> QED
    BY <2>1, <2>2 DEF HasScope, Unscoped, covering
<1> QED
  BY <1>1, ScopesInvariant, PTL

----------------------------------------------------------------------------
(* The bindings.                                                           *)
----------------------------------------------------------------------------
Cell == Bots \cup Threads \cup {NULL}

Extends(m, n) == n \in Seq(Cell) /\ Len(m) <= Len(n) /\ \A a \in 1 .. Len(m) : n[a] = m[a]

(* A binding whose addresses are in the memory, and what it reads as.      *)
ReadsIn(mem, b, v) == b \in [Cols -> 0 .. Len(mem)] /\ Reads(mem, b, v)

(* The invariant, with what is said of a copy said copy by copy.           *)
Bound ==
    /\ cells \in Seq(Cell)
    /\ rows \in Seq(Values) /\ meant = rows
    /\ binding \in [Cols -> 0 .. Len(cells)]
    /\ collected \in Seq([row : Nat, copy : [Cols -> Nat]])
    /\ \A i \in DOMAIN collected :
         /\ collected[i].row \in DOMAIN rows
         /\ ReadsIn(cells, collected[i].copy, rows[collected[i].row])

LEMMA Reseq ==
    ASSUME NEW S, NEW T, NEW s \in Seq(S), \A i \in DOMAIN s : s[i] \in T
    PROVE  s \in Seq(T)
<1>1. Len(s) \in Nat /\ DOMAIN s = 1 .. Len(s) /\ s = [i \in 1 .. Len(s) |-> s[i]]
  OBVIOUS
<1>2. s \in [1 .. Len(s) -> T]
  BY <1>1
<1> QED
  BY <1>1, <1>2, SeqDef

LEMMA SeqElement == ASSUME NEW S, NEW s \in Seq(S), NEW i \in DOMAIN s PROVE s[i] \in S
OBVIOUS

LEMMA BoundIsInv == Bound <=> BindingInv
<1>1. ASSUME Bound PROVE BindingInv
  <2>0. /\ collected \in Seq([row : Nat, copy : [Cols -> Nat]]) /\ rows \in Seq(Values)
    BY <1>1 DEF Bound
  <2>1. \A i \in DOMAIN collected :
          collected[i] \in [row : 1 .. Len(rows), copy : [Cols -> 0 .. Len(cells)]]
    <3> SUFFICES ASSUME NEW i \in DOMAIN collected
                 PROVE  collected[i] \in [row : 1 .. Len(rows), copy : [Cols -> 0 .. Len(cells)]]
      OBVIOUS
    <3>1. collected[i] \in [row : Nat, copy : [Cols -> Nat]]
      BY <2>0, SeqElement
    <3>2. collected[i].row \in DOMAIN rows /\ collected[i].copy \in [Cols -> 0 .. Len(cells)]
      BY <1>1 DEF Bound, ReadsIn
    <3>3. DOMAIN rows = 1 .. Len(rows)
      BY <2>0
    <3> QED
      BY <3>1, <3>2, <3>3
  <2>2. collected \in Seq([row : 1 .. Len(rows), copy : [Cols -> 0 .. Len(cells)]])
    BY <2>0, <2>1, Reseq
  <2> QED
    BY <1>1, <2>2 DEF Bound, BindingInv, BindingTypeOK, ReadsIn, Cell
<1>2. ASSUME BindingInv PROVE Bound
  <2>1. /\ rows \in Seq(Values) /\ cells \in Seq(Cell)
        /\ collected \in Seq([row : 1 .. Len(rows), copy : [Cols -> 0 .. Len(cells)]])
    BY <1>2 DEF BindingInv, BindingTypeOK, Cell
  <2>2. \A i \in DOMAIN collected :
          /\ collected[i] \in [row : Nat, copy : [Cols -> Nat]]
          /\ collected[i].row \in DOMAIN rows
          /\ collected[i].copy \in [Cols -> 0 .. Len(cells)]
    <3> SUFFICES ASSUME NEW i \in DOMAIN collected
                 PROVE  /\ collected[i] \in [row : Nat, copy : [Cols -> Nat]]
                        /\ collected[i].row \in DOMAIN rows
                        /\ collected[i].copy \in [Cols -> 0 .. Len(cells)]
      OBVIOUS
    <3>1. collected[i] \in [row : 1 .. Len(rows), copy : [Cols -> 0 .. Len(cells)]]
      BY <2>1, SeqElement
    <3>2. Len(rows) \in Nat /\ Len(cells) \in Nat /\ DOMAIN rows = 1 .. Len(rows)
      BY <2>1
    <3> QED
      BY <3>1, <3>2
  <2>3. collected \in Seq([row : Nat, copy : [Cols -> Nat]])
    <3> DEFINE S == [row : 1 .. Len(rows), copy : [Cols -> 0 .. Len(cells)]]
               T == [row : Nat, copy : [Cols -> Nat]]
    <3>1. collected \in Seq(S) /\ \A i \in DOMAIN collected : collected[i] \in T
      BY <2>1, <2>2
    <3> HIDE DEF S, T
    <3>2. collected \in Seq(T)
      BY <3>1, Reseq
    <3> QED
      BY <3>2 DEF T
  <2> QED
    BY <1>2, <2>1, <2>2, <2>3 DEF Bound, BindingInv, BindingTypeOK, ReadsIn
<1> QED
  BY <1>1, <1>2

----------------------------------------------------------------------------
LEMMA ValuesAreCells ==
    /\ \A v \in Values, c \in Cols : v[c] \in Cell
    /\ DOMAIN Unset = Cols
    /\ \A v \in Values : v = [c \in Cols |-> v[c]]
BY DEF Values, Cell, Cols, Unset

(* More memory takes nothing from what was read before.                    *)
LEMMA ReadsOn ==
    ASSUME NEW m \in Seq(Cell), NEW n, NEW b, NEW v, ReadsIn(m, b, v), Extends(m, n)
    PROVE  ReadsIn(n, b, v)
<1>1. n \in Seq(Cell) /\ Len(n) \in Nat /\ Len(m) \in Nat /\ Len(m) <= Len(n)
  BY DEF Extends
<1>2. b \in [Cols -> 0 .. Len(n)]
  BY <1>1 DEF ReadsIn, Reads
<1>3. ASSUME NEW c \in Cols PROVE Arg(n, b[c]) = v[c] /\ (b[c] # 0 => v[c] # NULL)
  <2>1. b[c] = 0 \/ b[c] \in 1 .. Len(m)
    BY <1>1 DEF ReadsIn, Reads
  <2> QED
    BY <2>1 DEF ReadsIn, Reads, Extends, Arg
<1> QED
  BY <1>2, <1>3 DEF ReadsIn, Reads

(* One column is read: its field points at the value, the others stay.     *)
LEMMA ScanReads ==
    ASSUME NEW m, NEW c \in Cols, NEW v \in Cell, m.mem \in Seq(Cell),
           m = [b |-> m.b, mem |-> m.mem], m.b \in [Cols -> 0 .. Len(m.mem)]
    PROVE  LET r == Scan(m, c, v)
           IN  /\ r = [b |-> r.b, mem |-> r.mem]
               /\ Extends(m.mem, r.mem) /\ r.b \in [Cols -> 0 .. Len(r.mem)]
               /\ Arg(r.mem, r.b[c]) = v /\ (r.b[c] # 0 => v # NULL)
               /\ \A d \in Cols \ {c} : r.b[d] = m.b[d]
<1>1. Len(m.mem) \in Nat
  OBVIOUS
<1>2. CASE v = NULL
  <2>1. Scan(m, c, v) = [b |-> [m.b EXCEPT ![c] = 0], mem |-> m.mem]
    BY <1>2 DEF Scan
  <2> QED
    BY <1>1, <1>2, <2>1 DEF Arg, Extends
<1>3. CASE v # NULL
  <2>1. Scan(m, c, v) = [b |-> [m.b EXCEPT ![c] = Len(m.mem) + 1], mem |-> Append(m.mem, v)]
    BY <1>3 DEF Scan
  <2>2. /\ Append(m.mem, v) \in Seq(Cell) /\ Len(Append(m.mem, v)) = Len(m.mem) + 1
        /\ Append(m.mem, v)[Len(m.mem) + 1] = v
        /\ \A a \in 1 .. Len(m.mem) : Append(m.mem, v)[a] = m.mem[a]
    BY <1>1
  <2> QED
    BY <1>1, <1>3, <2>1, <2>2 DEF Arg, Extends
<1> QED
  BY <1>2, <1>3

LEMMA ExtendsOn ==
    ASSUME NEW l \in Seq(Cell), NEW m \in Seq(Cell), NEW n \in Seq(Cell), Extends(l, m), Extends(m, n)
    PROVE  Extends(l, n)
BY DEF Extends

LEMMA Prefixed ==
    ASSUME NEW prefix, NEW i \in 1 .. 3
    PROVE  ColumnsPrefixed(prefix)[i][2] = Columns[i]
<1>1. CASE prefix = ""
  <2>1. ColumnsPrefixed(prefix) = [k \in 1 .. 3 |-> <<prefix, Columns[k]>>]
    BY <1>1, Zenon DEF ColumnsPrefixed
  <2> QED
    BY <2>1
<1>2. CASE prefix # ""
  <2>1. ColumnsPrefixed(prefix) = << <<prefix, "bot_user_id">>, <<prefix, "chat_thread_id">>,
                                     <<prefix, "llm_thread_id">> >>
    BY <1>2 DEF ColumnsPrefixed
  <2>2. i = 1 \/ i = 2 \/ i = 3
    OBVIOUS
  <2> QED
    BY <2>1, <2>2 DEF Columns
<1> QED
  BY <1>1, <1>2

(* Reading a row up to column n: earlier memory stays, and a whole row is  *)
(* what the binding reads as.                                              *)
LEMMA ScannedReads ==
    ASSUME Bound, NEW row \in Values, NEW prefix, NEW n \in 0 .. 3
    PROVE  LET m == Scanned(row, prefix, n)
           IN  /\ Extends(cells, m.mem) /\ m.b \in [Cols -> 0 .. Len(m.mem)]
               /\ n = 3 => ReadsIn(m.mem, m.b, row)
<1> DEFINE m0 == [b |-> binding, mem |-> cells]
           m1 == IF n >= 1 THEN Scan(m0, "bot_user_id", row.bot_user_id) ELSE m0
           m2 == IF n >= 2 THEN Scan(m1, "chat_thread_id", row.chat_thread_id) ELSE m1
           m3 == IF n = 3 THEN Scan(m2, "llm_thread_id", row.llm_thread_id) ELSE m2
           Whole(m) == /\ m = [b |-> m.b, mem |-> m.mem] /\ m.mem \in Seq(Cell)
                       /\ m.b \in [Cols -> 0 .. Len(m.mem)]
           Read(m, c) == Arg(m.mem, m.b[c]) = row[c] /\ (m.b[c] # 0 => row[c] # NULL)
<1>1. Scanned(row, prefix, n) = m3
  BY Prefixed DEF Scanned, Columns
<1>2. \A c \in Cols : row[c] \in Cell
  BY ValuesAreCells
<1>3. Whole(m0) /\ Extends(cells, m0.mem)
  BY DEF Bound, Extends
<1>4. ASSUME NEW m, Whole(m), NEW c \in Cols
      PROVE  LET r == Scan(m, c, row[c])
             IN  /\ Whole(r) /\ Extends(m.mem, r.mem) /\ Read(r, c)
                 /\ \A d \in Cols \ {c} : Read(m, d) => Read(r, d)
  <2> DEFINE r == Scan(m, c, row[c])
  <2>1. /\ r = [b |-> r.b, mem |-> r.mem] /\ Extends(m.mem, r.mem)
        /\ r.b \in [Cols -> 0 .. Len(r.mem)] /\ Read(r, c)
        /\ \A d \in Cols \ {c} : r.b[d] = m.b[d]
    BY <1>2, <1>4, ScanReads
  <2>2. r.mem \in Seq(Cell)
    BY <2>1 DEF Extends
  <2>3. ASSUME NEW d \in Cols \ {c}, Read(m, d) PROVE Read(r, d)
    <3>1. m.b[d] = 0 \/ m.b[d] \in 1 .. Len(m.mem)
      BY <1>4
    <3> QED
      BY <2>1, <2>3, <3>1 DEF Extends, Arg
  <2> QED
    BY <2>1, <2>2, <2>3
<1> HIDE DEF Whole, Read, m0
<1>5. Whole(m1) /\ Extends(cells, m1.mem) /\ (n >= 1 => Read(m1, "bot_user_id"))
  <2>1. "bot_user_id" \in Cols
    BY DEF Cols
  <2>2. CASE n >= 1
    <3>1. m1 = Scan(m0, "bot_user_id", row["bot_user_id"])
      BY <2>2
    <3>2. Whole(m1) /\ Extends(m0.mem, m1.mem) /\ Read(m1, "bot_user_id")
      BY <1>3, <1>4, <2>1, <3>1
    <3> QED
      BY <1>3, <3>2, ExtendsOn DEF Whole, Bound
  <2>3. CASE ~ n >= 1
    BY <1>3, <2>3
  <2> QED
    BY <2>2, <2>3
<1> HIDE DEF m1
<1>6. /\ Whole(m2) /\ Extends(cells, m2.mem)
      /\ n >= 2 => Read(m2, "bot_user_id") /\ Read(m2, "chat_thread_id")
  <2>1. "chat_thread_id" \in Cols /\ "bot_user_id" \in Cols \ {"chat_thread_id"}
    BY DEF Cols
  <2>2. CASE n >= 2
    <3>1. m2 = Scan(m1, "chat_thread_id", row["chat_thread_id"]) /\ n >= 1
      BY <2>2
    <3>2. Whole(m2) /\ Extends(m1.mem, m2.mem) /\ Read(m2, "chat_thread_id")
      BY <1>4, <1>5, <2>1, <3>1
    <3>3. Read(m2, "bot_user_id")
      BY <1>4, <1>5, <2>1, <3>1
    <3> QED
      BY <1>5, <3>2, <3>3, ExtendsOn DEF Whole, Bound
  <2>3. CASE ~ n >= 2
    BY <1>5, <2>3
  <2> QED
    BY <2>2, <2>3
<1> HIDE DEF m2
<1>7. /\ Whole(m3) /\ Extends(cells, m3.mem)
      /\ n = 3 => /\ Read(m3, "bot_user_id") /\ Read(m3, "chat_thread_id")
                  /\ Read(m3, "llm_thread_id")
  <2>1. /\ "llm_thread_id" \in Cols /\ "bot_user_id" \in Cols \ {"llm_thread_id"}
        /\ "chat_thread_id" \in Cols \ {"llm_thread_id"}
    BY DEF Cols
  <2>2. CASE n = 3
    <3>1. m3 = Scan(m2, "llm_thread_id", row["llm_thread_id"])
      BY <2>2
    <3>2. Whole(m3) /\ Extends(m2.mem, m3.mem) /\ Read(m3, "llm_thread_id")
      BY <1>4, <1>6, <2>1, <3>1
    <3>3. Read(m3, "bot_user_id") /\ Read(m3, "chat_thread_id")
      BY <1>4, <1>6, <2>1, <2>2, <3>1
    <3> QED
      BY <1>6, <3>2, <3>3, ExtendsOn DEF Whole, Bound
  <2>3. CASE n # 3
    BY <1>6, <2>3
  <2> QED
    BY <2>2, <2>3
<1> HIDE DEF m3
<1> QED
  BY <1>1, <1>7 DEF Whole, Read, ReadsIn, ReadsIn, Reads, Cols

----------------------------------------------------------------------------
LEMMA InitBound == BindingInit => Bound
BY DEF BindingInit, Bound, Unset, Cols

(* What is inserted is what the binding reads as.                          *)
LEMMA InsertInv ==
    ASSUME Bound, NEW mem, Extends(cells, mem), NEW b, NEW v \in Values, ReadsIn(mem, b, v),
           Insert(mem, b, v)
    PROVE  Bound'
<1> DEFINE row == [c \in Cols |-> InsertArgs(mem, b)[CHOOSE i \in 1 .. 3 : Columns[i] = c]]
<1>1. /\ rows' = Append(rows, row) /\ meant' = Append(meant, v) /\ cells' = mem
      /\ UNCHANGED <<binding, collected>>
  BY DEF Insert
<1>2. row = v
  <2>1. ASSUME NEW c \in Cols PROVE row[c] = v[c]
    <3>1. row[c] = InsertArgs(mem, b)[CHOOSE i \in 1 .. 3 : Columns[i] = c]
      BY ValuesAreCells
    <3>2. /\ (CHOOSE i \in 1 .. 3 : Columns[i] = "bot_user_id") = 1
          /\ (CHOOSE i \in 1 .. 3 : Columns[i] = "chat_thread_id") = 2
          /\ (CHOOSE i \in 1 .. 3 : Columns[i] = "llm_thread_id") = 3
      BY DEF Columns
    <3>3. /\ InsertArgs(mem, b)[1] = Arg(mem, b["bot_user_id"])
          /\ InsertArgs(mem, b)[2] = Arg(mem, b["chat_thread_id"])
          /\ InsertArgs(mem, b)[3] = Arg(mem, b["llm_thread_id"])
      BY DEF InsertArgs
    <3>4. InsertArgs(mem, b)[CHOOSE i \in 1 .. 3 : Columns[i] = c] = Arg(mem, b[c])
      BY <3>2, <3>3 DEF Cols
    <3> QED
      BY <3>1, <3>4 DEF ReadsIn, Reads
  <2>2. v = [c \in Cols |-> v[c]] /\ DOMAIN Unset = Cols
    BY ValuesAreCells
  <2> HIDE DEF row
  <2>3. row = [c \in Cols |-> row[c]]
    BY <2>2 DEF row
  <2> QED
    BY <2>1, <2>2, <2>3
<1> HIDE DEF row
<1>3. /\ rows' \in Seq(Values) /\ meant' = rows' /\ Len(rows') = Len(rows) + 1
      /\ \A k \in DOMAIN rows : k \in DOMAIN rows' /\ rows'[k] = rows[k]
  BY <1>1, <1>2 DEF Bound
<1>4. cells' \in Seq(Cell) /\ binding' \in [Cols -> 0 .. Len(cells')]
  BY <1>1 DEF Bound, Extends
<1>5. ASSUME NEW i \in DOMAIN collected
      PROVE  /\ collected[i].row \in DOMAIN rows'
             /\ ReadsIn(cells', collected[i].copy, rows'[collected[i].row])
  <2>1. /\ collected[i].row \in DOMAIN rows /\ cells \in Seq(Cell)
        /\ ReadsIn(cells, collected[i].copy, rows[collected[i].row])
    BY DEF Bound
  <2> QED
    BY <1>1, <1>3, <2>1, ReadsOn
<1> QED
  BY <1>1, <1>3, <1>4, <1>5 DEF Bound

LEMMA InsertOwnInv == ASSUME Bound, InsertOwn PROVE Bound'
<1> DEFINE n == Len(cells)
<1>1. PICK v \in Values :
        LET at(c, k) == IF v[c] = NULL THEN 0 ELSE k
        IN  Insert(cells \o <<v.bot_user_id, v.chat_thread_id, v.llm_thread_id>>,
                   [bot_user_id |-> at("bot_user_id", n + 1),
                    chat_thread_id |-> at("chat_thread_id", n + 2),
                    llm_thread_id |-> at("llm_thread_id", n + 3)], v)
  BY DEF InsertOwn
<1> DEFINE mem == cells \o <<v.bot_user_id, v.chat_thread_id, v.llm_thread_id>>
           b == [bot_user_id |-> IF v.bot_user_id = NULL THEN 0 ELSE n + 1,
                 chat_thread_id |-> IF v.chat_thread_id = NULL THEN 0 ELSE n + 2,
                 llm_thread_id |-> IF v.llm_thread_id = NULL THEN 0 ELSE n + 3]
<1>2. n \in Nat /\ cells \in Seq(Cell)
  BY DEF Bound
<1>3. v.bot_user_id \in Cell /\ v.chat_thread_id \in Cell /\ v.llm_thread_id \in Cell
  BY ValuesAreCells DEF Cols
<1>4. /\ mem \in Seq(Cell) /\ Len(mem) = n + 3 /\ \A a \in 1 .. n : mem[a] = cells[a]
      /\ mem[n + 1] = v.bot_user_id /\ mem[n + 2] = v.chat_thread_id /\ mem[n + 3] = v.llm_thread_id
  BY <1>2, <1>3
<1>5. Extends(cells, mem)
  BY <1>2, <1>4 DEF Extends
<1>6. ReadsIn(mem, b, v)
  <2>1. b \in [Cols -> 0 .. Len(mem)]
    BY <1>2, <1>4 DEF Cols
  <2> QED
    BY <1>2, <1>4, <2>1 DEF ReadsIn, ReadsIn, Reads, Cols, Arg
<1>7. Insert(mem, b, v)
  BY <1>1
<1> QED
  BY <1>5, <1>6, <1>7, InsertInv

LEMMA InsertCopyInv == ASSUME Bound, InsertCopy PROVE Bound'
<1>1. PICK i \in DOMAIN collected : Insert(cells, collected[i].copy, meant[collected[i].row])
  BY DEF InsertCopy
<1>2. /\ meant[collected[i].row] \in Values
      /\ ReadsIn(cells, collected[i].copy, meant[collected[i].row])
  BY DEF Bound
<1>3. Extends(cells, cells)
  BY DEF Bound, Extends
<1> QED
  BY <1>1, <1>2, <1>3, InsertInv

LEMMA ReadRowInv == ASSUME Bound, ReadRow PROVE Bound'
<1>1. PICK k \in DOMAIN rows, prefix \in Aliases, n \in 0 .. 3 :
        LET m == Scanned(rows[k], prefix, n)
        IN  /\ cells' = m.mem
            /\ binding' = m.b
            /\ collected' = IF n = 3 THEN Append(collected, [row |-> k, copy |-> m.b])
                            ELSE collected
  BY DEF ReadRow
<1>2. UNCHANGED <<rows, meant>>
  BY DEF ReadRow
<1> DEFINE m == Scanned(rows[k], prefix, n)
<1>3. rows[k] \in Values /\ k \in Nat
  BY DEF Bound
<1>4. /\ Extends(cells, m.mem) /\ m.b \in [Cols -> 0 .. Len(m.mem)]
      /\ n = 3 => ReadsIn(m.mem, m.b, rows[k])
  BY <1>3, ScannedReads
<1> HIDE DEF m
<1>5. /\ cells' = m.mem /\ binding' = m.b
      /\ collected' = IF n = 3 THEN Append(collected, [row |-> k, copy |-> m.b]) ELSE collected
  BY <1>1 DEF m
<1>6. cells' \in Seq(Cell) /\ m.b \in [Cols -> Nat] /\ binding' \in [Cols -> 0 .. Len(cells')]
  BY <1>4, <1>5 DEF Extends
<1>7. ASSUME NEW i \in DOMAIN collected
      PROVE  /\ collected[i].row \in DOMAIN rows
             /\ ReadsIn(cells', collected[i].copy, rows[collected[i].row])
  <2>1. /\ collected[i].row \in DOMAIN rows /\ cells \in Seq(Cell)
        /\ ReadsIn(cells, collected[i].copy, rows[collected[i].row])
    BY DEF Bound
  <2> QED
    BY <1>4, <1>5, <2>1, ReadsOn
<1>8. /\ collected' \in Seq([row : Nat, copy : [Cols -> Nat]])
      /\ \A i \in DOMAIN collected' :
           /\ collected'[i].row \in DOMAIN rows
           /\ ReadsIn(cells', collected'[i].copy, rows[collected'[i].row])
  <2>1. CASE n = 3
    <3>1. [row |-> k, copy |-> m.b] \in [row : Nat, copy : [Cols -> Nat]]
      BY <1>3, <1>6
    <3>2. collected \in Seq([row : Nat, copy : [Cols -> Nat]])
      BY DEF Bound
    <3>3. /\ collected' \in Seq([row : Nat, copy : [Cols -> Nat]])
          /\ \A i \in DOMAIN collected' :
               \/ i \in DOMAIN collected /\ collected'[i] = collected[i]
               \/ collected'[i] = [row |-> k, copy |-> m.b]
      BY <1>5, <2>1, <3>1, <3>2
    <3>4. k \in DOMAIN rows /\ ReadsIn(cells', m.b, rows[k])
      BY <1>4, <1>5, <2>1
    <3> QED
      BY <1>7, <3>3, <3>4
  <2>2. CASE n # 3
    BY <1>5, <1>7, <2>2 DEF Bound
  <2> QED
    BY <2>1, <2>2
<1> QED
  BY <1>2, <1>6, <1>8 DEF Bound

LEMMA BindingStep == BindingInv /\ [BindingNext]_bindingVars => BindingInv'
<1>0. BindingInv => Bound /\ (Bound' => BindingInv')
  <2>1. (Bound <=> BindingInv)'
    BY BoundIsInv, PTL
  <2> QED
    BY <2>1, BoundIsInv
<1> SUFFICES ASSUME Bound, [BindingNext]_bindingVars PROVE Bound'
  BY <1>0
<1>1. CASE UNCHANGED bindingVars
  BY <1>1 DEF bindingVars, Bound
<1> QED
  BY <1>1, InsertOwnInv, InsertCopyInv, ReadRowInv DEF BindingNext

THEOREM BindingInvariant == BindingSpec => []BindingInv
BY InitBound, BoundIsInv, BindingStep, PTL DEF BindingSpec

(* A collected binding keeps what was inserted as its row.                 *)
THEOREM BindingCollectedIsInserted == BindingSpec => []CollectedIsInserted
<1>1. BindingInv => CollectedIsInserted
  <2> SUFFICES ASSUME BindingInv, NEW i \in DOMAIN collected
               PROVE  LET b == collected[i].copy
                          v == meant[collected[i].row]
                      IN  /\ \A c \in Cols : Arg(cells, b[c]) = v[c]
                          /\ IsBound(b) <=> v.bot_user_id # NULL /\ v.chat_thread_id # NULL
    BY DEF CollectedIsInserted
  <2>1. Reads(cells, collected[i].copy, meant[collected[i].row])
    BY DEF BindingInv
  <2> QED
    BY <2>1 DEF Reads, Cols, IsBound, Arg
<1> QED
  BY <1>1, BindingInvariant, PTL

----------------------------------------------------------------------------
(* The parts together: what one does leaves the others as they were.       *)
----------------------------------------------------------------------------
LEMMA ClientParts == ClientSpec => Spec /\ TaskSpec /\ ScopesSpec /\ BindingSpec
<1>1. ClientInit => Init /\ TaskInit /\ ScopesInit /\ BindingInit
  BY DEF ClientInit
<1>2. [ClientNext]_<<part, vars, taskVars, scopeVars, bindingVars>> =>
        [Next]_vars /\ [TaskNext]_taskVars /\ [ScopesNext]_scopeVars /\ [BindingNext]_bindingVars
  BY DEF ClientNext
<1> QED
  BY <1>1, <1>2, PTL DEF ClientSpec, Spec, TaskSpec, ScopesSpec, BindingSpec

(* The inductive invariants hold in every behaviour of the client's parts. *)
THEOREM ClientInvariant == ClientSpec => []ClientInv
<1>1. ProfileInv /\ TaskTypeOK /\ ScopesInv /\ BindingInv => ClientInv
  BY DEF ClientInv
<1> QED
  BY <1>1, ClientParts, ProfileInvariant, TasksTypes, ScopesInvariant, BindingInvariant, PTL
=============================================================================
