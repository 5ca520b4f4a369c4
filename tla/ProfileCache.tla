---------------------------- MODULE ProfileCache ----------------------------
(* UserGet and TeamGet: profiles cached for TTL in a ttlCache of the       *)
(* process, under a mutex that is not held while the request is under way. *)
(* The two caches are two instances of this module.  Time is a counter; a  *)
(* request is given up after Timeout.                                      *)
EXTENDS Integers, FiniteSets, GoMap

CONSTANTS Callers,  \* goroutines that read profiles
          Ids,      \* ids of users (or teams)
          TTL,      \* 30s
          Timeout,  \* the HTTP client's timeout (15s)
          Cap,      \* entries the cache holds before it is swept (1000)
          MaxTime   \* bound: the clock stops here

ASSUME TimesAssumption == TTL \in Nat \ {0} /\ Timeout \in Nat /\ MaxTime \in Nat
ASSUME CapAssumption == Cap \in Nat

VARIABLES now,    \* the clock
          store,  \* the cache's map
          call,   \* call[p]: the request p waits for
          got     \* the last profile a caller was given

vars == <<now, store, call, got>>

Times == 0 .. MaxTime

(* A profile as dock had it at some time.                                  *)
User == [id : Ids, asOf : Times]

Idle == [waiting |-> FALSE]
Nothing == [none |-> TRUE]

Init == /\ now = 0
        /\ store = EmptyMap
        /\ call = [p \in Callers |-> Idle]
        /\ got = Nothing

----------------------------------------------------------------------------
(* Broken variant: get does not look at the time.                          *)
Stored(id) == Has(store, id)

Fresh(id) == Has(store, id) /\ now - store[id].storeAt <= TTL

Gives(id, u) == got' = [asked |-> id, value |-> u, at |-> now]

Hit(p) ==
    /\ call[p] = Idle
    /\ \E id \in Ids : Fresh(id) /\ Gives(id, store[id].value)
    /\ UNCHANGED <<now, store, call>>

(* get deletes a stale entry, and the request is sent.                     *)
Miss(p) ==
    /\ call[p] = Idle
    /\ \E id \in Ids :
         /\ ~ Fresh(id)
         /\ store' = Without(store, id)
         /\ call' = [call EXCEPT ![p] = [waiting |-> TRUE, id |-> id, since |-> now,
                                         reply |-> Nothing]]
    /\ UNCHANGED <<now, got>>

DockAnswers(p) ==
    /\ call[p] # Idle /\ call[p].reply = Nothing
    /\ call' = [call EXCEPT ![p].reply = [id |-> call[p].id, asOf |-> now]]
    /\ UNCHANGED <<now, store, got>>

(* Broken variant: nothing is ever swept.                                  *)
NoSweep(m) == m

(* Past Cap entries, what is older than TTL goes.                          *)
Sweep(m) ==
    IF Cardinality(DOMAIN m) > Cap
    THEN [i \in {i \in DOMAIN m : m[i].storeAt >= now - TTL} |-> m[i]]
    ELSE m

Put(id, u) == store' = Sweep(Store(store, id, [value |-> u, storeAt |-> now]))

(* Broken variant: the entry is made before the reply is looked at.        *)
ReturnAny(p) ==
    /\ call[p] # Idle
    /\ Put(call[p].id, call[p].reply)
    /\ Gives(call[p].id, call[p].reply)
    /\ call' = [call EXCEPT ![p] = Idle]
    /\ UNCHANGED now

Return(p) ==
    /\ call[p] # Idle /\ call[p].reply # Nothing
    /\ Put(call[p].id, call[p].reply)
    /\ Gives(call[p].id, call[p].reply)
    /\ call' = [call EXCEPT ![p] = Idle]
    /\ UNCHANGED now

(* A lost request or reply, a timeout, a refusal, a bad body.              *)
Fail(p) ==
    /\ call[p] # Idle
    /\ call' = [call EXCEPT ![p] = Idle]
    /\ UNCHANGED <<now, store, got>>

Tick ==
    /\ now < MaxTime
    /\ \A p \in Callers : call[p] # Idle => now < call[p].since + Timeout
    /\ now' = now + 1
    /\ UNCHANGED <<store, call, got>>

Next == \/ \E p \in Callers : Hit(p) \/ Miss(p) \/ DockAnswers(p) \/ Return(p) \/ Fail(p)
        \/ Tick

Spec == Init /\ [][Next]_vars

----------------------------------------------------------------------------
(* The types of the variables.                                             *)
TypeOK ==
    /\ now \in Times
    /\ DOMAIN store \subseteq Ids
    /\ \A id \in DOMAIN store : store[id] \in [value : User, storeAt : Times]
    /\ call \in [Callers -> {Idle} \cup [waiting : {TRUE}, id : Ids, since : Times,
                                         reply : {Nothing} \cup User]]
    /\ got \in {Nothing} \cup [asked : Ids, value : User, at : Times]

(* A profile is of the id asked for and is at most TTL + Timeout old,      *)
(* however late the reply that was cached and whoever put it there.        *)
StaleAtMost ==
    got # Nothing =>
      got.value.id = got.asked /\ got.at <= got.value.asOf + TTL + Timeout

(* The inductive invariant behind StaleAtMost: a profile is read by dock   *)
(* after its request was sent and is stored at most Timeout later.         *)
ProfileInv ==
    /\ TypeOK
    /\ \A id \in DOMAIN store :
         /\ store[id].value.id = id
         /\ store[id].value.asOf <= store[id].storeAt /\ store[id].storeAt <= now
         /\ store[id].storeAt <= store[id].value.asOf + Timeout
    /\ \A p \in Callers : call[p] # Idle =>
         /\ call[p].since <= now /\ now <= call[p].since + Timeout
         /\ call[p].reply # Nothing =>
              /\ call[p].reply.id = call[p].id
              /\ call[p].since <= call[p].reply.asOf /\ call[p].reply.asOf <= now
    /\ got # Nothing => got.at <= now
    /\ StaleAtMost

(* A put leaves the cache over Cap only with what is at most TTL old.      *)
OverCapIsRecent ==
    [][(got' # got /\ store' # store /\ Cardinality(DOMAIN store') > Cap) =>
         \A id \in DOMAIN store' : now - store'[id].storeAt <= TTL]_vars
=============================================================================
