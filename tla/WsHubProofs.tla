---------------------------- MODULE WsHubProofs ----------------------------
(* Proofs about the websocket broker, for every set of connections,        *)
(* publishers, requests and calls and every depth of the channels.         *)
EXTENDS WsHub, SequenceTheorems, TLAPS

(* A stored key is read back, every other key keeps its value.             *)
LEMMA LookupStore ==
    ASSUME NEW m, NEW k, NEW v, NEW j, NEW zero
    PROVE  Lookup(Store(m, k, v), j, zero) = IF j = k THEN v ELSE Lookup(m, j, zero)
BY DEF Lookup, Store, Has

(* A deleted key reads as the zero value, every other key keeps its value. *)
LEMMA LookupWithout ==
    ASSUME NEW m, NEW k, NEW j, NEW zero
    PROVE  Lookup(Without(m, k), j, zero) = IF j = k THEN zero ELSE Lookup(m, j, zero)
BY DEF Lookup, Without, Has

LEMMA LookupEmpty ==
    ASSUME NEW j, NEW zero
    PROVE  Lookup(EmptyMap, j, zero) = zero
BY DEF Lookup, EmptyMap, Has

(* The state of a set of peers in an arbitrary rooms map.                  *)
PeersIn(r, w, u) == Lookup(Lookup(r, w, EmptyMap), u, {})

(* No empty user map and no empty set.                                     *)
Tidy(r) == \A w \in DOMAIN r : /\ DOMAIN r[w] # {}
                               /\ \A u \in DOMAIN r[w] : r[w][u] # {}

TypedRooms(r) == /\ DOMAIN r \subseteq Workspaces
                 /\ \A w \in DOMAIN r : /\ DOMAIN r[w] \subseteq Users
                                        /\ \A u \in DOMAIN r[w] : r[w][u] \subseteq Clients

(* Registering puts the connection in its own set and touches no other.    *)
LEMMA AddClientPeers ==
    ASSUME NEW c, NEW w, NEW u
    PROVE  PeersIn(AddClient(c), w, u) =
             IF w = ident[c].ws /\ u = ident[c].user
             THEN Peers(w, u) \cup {c} ELSE Peers(w, u)
BY LookupStore DEF PeersIn, AddClient, Peers, RoomOf

LEMMA AddClientShape ==
    ASSUME NEW c \in Clients, TypedRooms(rooms), Tidy(rooms),
           ident[c] \in [ws : Workspaces, user : Users]
    PROVE  TypedRooms(AddClient(c)) /\ Tidy(AddClient(c))
<1> DEFINE w == ident[c].ws
           u == ident[c].user
           set == Peers(w, u) \cup {c}
           users == Store(RoomOf(w), u, set)
<1>1. w \in Workspaces /\ u \in Users
  OBVIOUS
<1>2. /\ DOMAIN RoomOf(w) \subseteq Users
      /\ \A x \in DOMAIN RoomOf(w) : RoomOf(w)[x] \subseteq Clients /\ RoomOf(w)[x] # {}
  BY DEF TypedRooms, Tidy, RoomOf, Lookup, EmptyMap, Has
<1>3. set \subseteq Clients /\ set # {}
  BY <1>2 DEF Peers, Lookup, Has
<1> HIDE DEF w, u, set
<1>4. /\ DOMAIN users \subseteq Users /\ DOMAIN users # {}
      /\ \A x \in DOMAIN users : users[x] \subseteq Clients /\ users[x] # {}
  BY <1>1, <1>2, <1>3 DEF Store
<1>5. AddClient(c) = Store(rooms, w, users)
  BY DEF AddClient, w, u, set
<1> HIDE DEF users
<1> QED
  BY <1>1, <1>4, <1>5 DEF Store, TypedRooms, Tidy

(* Unregistering takes the connection out of its own set and touches no    *)
(* other.                                                                  *)
LEMMA RemoveClientPeers ==
    ASSUME NEW c, NEW w, NEW u
    PROVE  PeersIn(RemoveClient(c), w, u) =
             IF w = ident[c].ws /\ u = ident[c].user
             THEN Peers(w, u) \ {c} ELSE Peers(w, u)
<1> DEFINE cw == ident[c].ws
           cu == ident[c].user
           rest == Peers(cw, cu) \ {c}
           users == IF rest = {} THEN Without(RoomOf(cw), cu)
                    ELSE Store(RoomOf(cw), cu, rest)
<1>1. CASE ~ Has(rooms, cw) \/ ~ Has(RoomOf(cw), cu)
  <2>1. RemoveClient(c) = rooms
    BY <1>1 DEF RemoveClient
  <2>2. Peers(cw, cu) = {}
    BY <1>1 DEF Peers, RoomOf, Lookup, EmptyMap, Has
  <2> QED
    BY <2>1, <2>2 DEF PeersIn, Peers, RoomOf
<1>2. CASE Has(rooms, cw) /\ Has(RoomOf(cw), cu)
  <2>1. Lookup(users, u, {}) = IF u = cu THEN rest ELSE Lookup(RoomOf(cw), u, {})
    <3>1. CASE rest = {}
      BY <3>1, LookupWithout
    <3>2. CASE rest # {}
      BY <3>2, LookupStore
    <3> QED
      BY <3>1, <3>2
  <2>2. CASE DOMAIN users = {}
    <3>1. RemoveClient(c) = Without(rooms, cw)
      BY <1>2, <2>2 DEF RemoveClient
    <3>2. Lookup(users, u, {}) = {}
      BY <2>2 DEF Lookup, Has
    <3>3. Lookup(RemoveClient(c), w, EmptyMap) = IF w = cw THEN EmptyMap ELSE RoomOf(w)
      BY <3>1, LookupWithout DEF RoomOf
    <3> HIDE DEF users, rest, cw, cu
    <3> QED
      BY <2>1, <3>2, <3>3, LookupEmpty DEF PeersIn, Peers, rest, cw, cu
  <2>3. CASE DOMAIN users # {}
    <3>1. RemoveClient(c) = Store(rooms, cw, users)
      BY <1>2, <2>3 DEF RemoveClient
    <3>2. Lookup(RemoveClient(c), w, EmptyMap) = IF w = cw THEN users ELSE RoomOf(w)
      BY <3>1, LookupStore DEF RoomOf
    <3> HIDE DEF users
    <3> QED
      BY <2>1, <3>2 DEF PeersIn, Peers
  <2> QED
    BY <2>2, <2>3
<1> QED
  BY <1>1, <1>2

LEMMA RemoveClientShape ==
    ASSUME NEW c \in Clients, TypedRooms(rooms), Tidy(rooms)
    PROVE  TypedRooms(RemoveClient(c)) /\ Tidy(RemoveClient(c))
<1> DEFINE w == ident[c].ws
           u == ident[c].user
           rest == Peers(w, u) \ {c}
           users == IF rest = {} THEN Without(RoomOf(w), u)
                    ELSE Store(RoomOf(w), u, rest)
<1>1. CASE ~ Has(rooms, w) \/ ~ Has(RoomOf(w), u)
  BY <1>1 DEF RemoveClient
<1>2. CASE Has(rooms, w) /\ Has(RoomOf(w), u)
  <2>1. /\ w \in DOMAIN rooms /\ w \in Workspaces
        /\ RoomOf(w) = rooms[w]
        /\ u \in DOMAIN RoomOf(w) /\ u \in Users
        /\ DOMAIN RoomOf(w) \subseteq Users
        /\ \A x \in DOMAIN RoomOf(w) : RoomOf(w)[x] \subseteq Clients /\ RoomOf(w)[x] # {}
    BY <1>2 DEF TypedRooms, Tidy, RoomOf, Lookup, Has
  <2>2. rest \subseteq Clients
    BY <2>1 DEF Peers, Lookup, Has
  <2> HIDE DEF rest
  <2>3. /\ DOMAIN users \subseteq Users
        /\ \A x \in DOMAIN users : users[x] \subseteq Clients /\ users[x] # {}
    BY <2>1, <2>2 DEF Store, Without
  <2>4. RemoveClient(c) = IF DOMAIN users = {} THEN Without(rooms, w)
                          ELSE Store(rooms, w, users)
    BY <1>2 DEF RemoveClient, rest
  <2> HIDE DEF users, w
  <2>5. CASE DOMAIN users = {}
    BY <2>4, <2>5 DEF Without, TypedRooms, Tidy
  <2>6. CASE DOMAIN users # {}
    BY <2>1, <2>3, <2>4, <2>6 DEF Store, TypedRooms, Tidy
  <2> QED
    BY <2>5, <2>6
<1> QED
  BY <1>1, <1>2

----------------------------------------------------------------------------
(* Runs of events.                                                         *)

LEMMA PrefixIndex ==
    ASSUME NEW w \in Seq(Nat), NEW s \in Seq(Nat)
    PROVE  /\ DOMAIN w \subseteq DOMAIN (w \o s)
           /\ \A i \in DOMAIN w : (w \o s)[i] = w[i]
           /\ DOMAIN w = 1 .. Len(w) /\ DOMAIN (w \o s) = 1 .. Len(w) + Len(s)
           /\ w \o s \in Seq(Nat)
OBVIOUS

(* A prefix of a gap-free run is a gap-free run.                           *)
LEMMA GapFreePrefix ==
    ASSUME NEW c \in Clients, NEW w \in Seq(Nat), NEW s \in Seq(Nat),
           GapFreeRun(w \o s, c)
    PROVE  GapFreeRun(w, c)
<1> DEFINE t == w \o s
<1>1. /\ DOMAIN w = 1 .. Len(w) /\ DOMAIN t = 1 .. Len(w) + Len(s)
      /\ Len(w) \in Nat /\ Len(s) \in Nat
      /\ \A i \in DOMAIN w : i \in DOMAIN t /\ t[i] = w[i]
      /\ \A i \in DOMAIN t : t[i] \in Nat
  BY PrefixIndex
<1> HIDE DEF t
<1>2. GapFreeRun(t, c)
  BY DEF t
<1>3. InOrder(w)
  BY <1>1, <1>2 DEF GapFreeRun, InOrder
<1>4. \A i \in DOMAIN w : w[i] \in from[c] + 1 .. Len(log) /\ Addressed(log[w[i]], c)
  BY <1>1, <1>2 DEF GapFreeRun
<1>5. ASSUME NEW i \in DOMAIN w, NEW e \in from[c] + 1 .. w[i], Addressed(log[e], c)
      PROVE  \E j \in DOMAIN w : w[j] = e
  <2>1. PICK j \in DOMAIN t : t[j] = e
    BY <1>1, <1>2, <1>5 DEF GapFreeRun
  <2>2. t[j] <= t[i] /\ t[i] \in Nat /\ t[j] \in Nat
    <3>1. t[i] = w[i] /\ t[i] \in Nat /\ t[j] \in Nat
      BY <1>1
    <3>2. t[i] \in from[c] + 1 .. Len(log)
      BY <1>1, <1>2 DEF GapFreeRun
    <3> QED
      BY <2>1, <3>1, <3>2
  <2>3. ~ (i < j)
    BY <1>1, <1>2, <2>2 DEF GapFreeRun, InOrder
  <2>4. i \in 1 .. Len(w) /\ j \in 1 .. Len(w) + Len(s)
    BY <1>1, <1>5, <2>1
  <2>5. j \in DOMAIN w
    BY <1>1, <2>3, <2>4
  <2> QED
    BY <1>1, <2>1, <2>5
<1> QED
  BY <1>3, <1>4, <1>5 DEF GapFreeRun

LEMMA EmptyRun ==
    ASSUME NEW c \in Clients
    PROVE  GapFreeRun(<<>>, c)
BY DEF GapFreeRun, InOrder

(* Writing the head of the channel leaves the stream as it is.             *)
LEMMA MoveHead ==
    ASSUME NEW w \in Seq(Nat), NEW s \in Seq(Nat), s # <<>>
    PROVE  /\ Append(w, Head(s)) \o Tail(s) = w \o s
           /\ Append(w, Head(s)) \in Seq(Nat) /\ Tail(s) \in Seq(Nat)
OBVIOUS

LEMMA ConcatAppend ==
    ASSUME NEW w \in Seq(Nat), NEW s \in Seq(Nat), NEW x \in Nat
    PROVE  w \o Append(s, x) = Append(w \o s, x)
OBVIOUS

LEMMA StreamType ==
    ASSUME TypeOK, NEW c \in Clients
    PROVE  /\ Stream(c) \in Seq(Nat)
           /\ Len(Stream(c)) \in Nat /\ DOMAIN Stream(c) = 1 .. Len(Stream(c))
           /\ \A i \in DOMAIN Stream(c) : Stream(c)[i] \in Nat
<1>1. wire[c] \in Seq(Nat) /\ send[c] \in Seq(Nat)
  BY DEF TypeOK
<1>2. Stream(c) \in Seq(Nat)
  BY <1>1, PrefixIndex DEF Stream
<1> HIDE DEF Stream
<1> QED
  BY <1>2

(* The invariant gives the property.                                       *)
LEMMA StreamOKGapFree ==
    ASSUME TypeOK, StreamOK
    PROVE  GapFree
<1>1. ASSUME NEW c \in Clients
      PROVE  GapFreeRun(wire[c], c)
  <2>1. wire[c] \in Seq(Nat) /\ send[c] \in Seq(Nat)
    BY DEF TypeOK
  <2>2. GapFreeRun(Stream(c), c)
    BY DEF StreamOK
  <2> QED
    BY <2>1, <2>2, GapFreePrefix DEF Stream
<1> QED
  BY <1>1 DEF GapFree

----------------------------------------------------------------------------
(* What the conjuncts of the invariant do not depend on.                   *)

LEMMA RoomsFrame ==
    ASSUME RoomsExact, UNCHANGED <<hub, rooms, handler, reader, ident>>
    PROVE  RoomsExact'
BY DEF RoomsExact, Peers, RoomOf, At, Attached

LEMMA PhasesFrame ==
    ASSUME Phases, UNCHANGED <<handler, ident, writer, reader, wire, send>>
    PROVE  Phases'
BY DEF Phases, Joined

LEMMA FanOutFrame ==
    ASSUME FanOutOK, UNCHANGED <<hub, log, todo, handler, reader, ident>>
    PROVE  FanOutOK'
BY DEF FanOutOK, Attached, Addressed

LEMMA StreamFrame ==
    ASSUME StreamOK, UNCHANGED <<log, from, ident, todo, wire, send, writer>>
    PROVE  StreamOK'
<1>1. \A c \in Clients : Stream(c)' = Stream(c)
  BY DEF Stream
<1>2. ASSUME NEW c \in Clients
      PROVE  GapFreeRun(Stream(c), c)'
  BY <1>1 DEF StreamOK, GapFreeRun, Addressed, InOrder
<1>3. ASSUME NEW c \in Clients
      PROVE  (from[c] <= Reach(c) /\ \A i \in DOMAIN Stream(c) : Stream(c)[i] <= Reach(c))'
  BY <1>1 DEF StreamOK, Reach
<1> QED
  BY <1>2, <1>3 DEF StreamOK

(* A connection can only stop being owed events.                           *)
LEMMA NothingLostFrame ==
    ASSUME NothingLost, UNCHANGED <<log, from, ident, todo, wire, send>>,
           \A c \in Clients :
             (hub' = "running" /\ Attached(c)' /\ ~ closed'[c] /\ writer'[c] # "exited")
               => /\ hub = "running" /\ Attached(c) /\ ~ closed[c]
                  /\ writer[c] # "exited"
    PROVE  NothingLost'
BY DEF NothingLost, Stream, Addressed, Reach

----------------------------------------------------------------------------
(* The steps of ServeHTTP.                                                 *)

LEMMA AdmittedIdent ==
    ASSUME NEW r \in Requests, Admitted(r)
    PROVE  [ws |-> ResolveWorkspace(r), user |-> r.user] \in [ws : Workspaces, user : Users]
BY RequestsAssumption DEF Admitted, ResolveWorkspace, RequestType

LEMMA ServeHTTPInv ==
    ASSUME HubInv, NEW c \in Clients, ServeHTTP(c)
    PROVE  HubInv'
<1>1. PICK r \in Requests :
         \/ /\ Admitted(r)
            /\ handler' = [handler EXCEPT ![c] = "registering"]
            /\ ident' = [ident EXCEPT
                            ![c] = [ws |-> ResolveWorkspace(r), user |-> r.user]]
         \/ /\ handler' = [handler EXCEPT ![c] = "refused"]
            /\ UNCHANGED ident
  BY DEF ServeHTTP
<1>2. /\ handler[c] = "idle"
      /\ UNCHANGED <<hubVars, pubVars, histVars, send, closed, writer, reader,
                     connClosed>>
  BY DEF ServeHTTP
<1>3. /\ handler'[c] \in {"registering", "refused"}
      /\ handler' \in [Clients -> {"idle", "refused", "registering", "registered", "serving"}]
      /\ ident' \in [Clients -> [ws : Workspaces \cup {Empty}, user : Users \cup {Empty}]]
      /\ handler'[c] = "registering" => ident'[c] \in [ws : Workspaces, user : Users]
      /\ \A d \in Clients \ {c} : handler'[d] = handler[d] /\ ident'[d] = ident[d]
  <2>1. /\ handler \in [Clients -> {"idle", "refused", "registering", "registered", "serving"}]
        /\ ident \in [Clients -> [ws : Workspaces \cup {Empty}, user : Users \cup {Empty}]]
    BY DEF HubInv, TypeOK
  <2>2. CASE /\ Admitted(r)
             /\ handler' = [handler EXCEPT ![c] = "registering"]
             /\ ident' = [ident EXCEPT
                             ![c] = [ws |-> ResolveWorkspace(r), user |-> r.user]]
    <3> DEFINE v == [ws |-> ResolveWorkspace(r), user |-> r.user]
    <3>1. v \in [ws : Workspaces, user : Users]
      BY <2>2, AdmittedIdent
    <3>2. v \in [ws : Workspaces \cup {Empty}, user : Users \cup {Empty}]
      BY <3>1
    <3>3. ident' = [ident EXCEPT ![c] = v]
      BY <2>2
    <3> HIDE DEF v
    <3> QED
      BY <2>1, <2>2, <3>1, <3>2, <3>3
  <2>3. CASE handler' = [handler EXCEPT ![c] = "refused"] /\ UNCHANGED ident
    BY <2>1, <2>3
  <2> QED
    BY <1>1, <2>2, <2>3
<1>4. /\ writer[c] = "off" /\ reader[c] = "off"
      /\ wire[c] = <<>> /\ send[c] = <<>>
  BY <1>2 DEF HubInv, Phases, Joined
<1>5. TypeOK'
  BY <1>2, <1>3 DEF HubInv, TypeOK, hubVars, pubVars, histVars
<1>6. /\ \A d \in Clients : Attached(d)' <=> Attached(d)
      /\ ~ Attached(c)
  BY <1>2, <1>3, <1>4 DEF Attached
<1>7. RoomsExact'
  BY <1>2, <1>3, <1>6 DEF HubInv, RoomsExact, Peers, RoomOf, At, hubVars
<1>8. Phases'
  BY <1>2, <1>3, <1>4 DEF HubInv, Phases, Joined, histVars
<1>9. FanOutOK'
  BY <1>2, <1>3, <1>6 DEF HubInv, FanOutOK, Addressed, hubVars, histVars, TypeOK
<1>10. Stream(c) = <<>>
  BY <1>4, PrefixIndex DEF Stream
<1>11. \A d \in Clients : Stream(d)' = Stream(d)
  BY <1>2 DEF Stream, histVars
<1>12. StreamOK'
  <2> SUFFICES ASSUME NEW d \in Clients
               PROVE  /\ (from[d] <= Reach(d))'
                      /\ GapFreeRun(Stream(d), d)'
                      /\ (\A i \in DOMAIN Stream(d) : Stream(d)[i] <= Reach(d))'
    BY DEF StreamOK
  <2>1. CASE d = c
    BY <1>2, <1>10, <1>11, <2>1
       DEF GapFreeRun, InOrder, HubInv, StreamOK, Reach, hubVars, histVars
  <2>2. CASE d # c
    BY <1>2, <1>3, <1>11, <2>2
       DEF HubInv, StreamOK, GapFreeRun, Addressed, Reach, hubVars, histVars
  <2> QED
    BY <2>1, <2>2
<1>13. NothingLost'
  BY <1>2, <1>3, <1>6, <1>11
     DEF HubInv, NothingLost, Addressed, Reach, hubVars, histVars
<1> QED
  BY <1>5, <1>7, <1>8, <1>9, <1>12, <1>13 DEF HubInv

LEMMA RoomsTidy ==
    ASSUME HubInv, hub = "running"
    PROVE  TypedRooms(rooms) /\ Tidy(rooms)
<1>1. TypedRooms(rooms)
  BY DEF HubInv, TypeOK, TypedRooms
<1>2. Tidy(rooms)
  BY DEF HubInv, RoomsExact, Tidy
<1> QED
  BY <1>1, <1>2

(* Register: the connection enters the room of its identity, and owes      *)
(* nothing yet.                                                            *)
LEMMA RegisterInv ==
    ASSUME HubInv, NEW c \in Clients, Register(c)
    PROVE  HubInv'
<1>1. /\ hub = "running" /\ todo = {} /\ handler[c] = "registering"
      /\ rooms' = AddClient(c)
      /\ handler' = [handler EXCEPT ![c] = "registered"]
      /\ from' = [from EXCEPT ![c] = Len(log)]
      /\ UNCHANGED <<hub, cancelled, crashed, todo, ident, send, closed, writer,
                     reader, connClosed, queue, outbox, log, wire>>
  BY DEF Register, HubSelects, pubVars
<1>2. /\ ident[c] \in [ws : Workspaces, user : Users]
      /\ writer[c] = "off" /\ reader[c] = "off"
      /\ wire[c] = <<>> /\ send[c] = <<>>
  BY <1>1 DEF HubInv, Phases, Joined
<1>3. /\ handler' \in [Clients -> {"idle", "refused", "registering", "registered", "serving"}]
      /\ handler'[c] = "registered" /\ from' \in [Clients -> Nat] /\ from'[c] = Len(log)
      /\ \A d \in Clients \ {c} : handler'[d] = handler[d] /\ from'[d] = from[d]
  BY <1>1 DEF HubInv, TypeOK
<1>4. TypedRooms(rooms') /\ Tidy(rooms')
  <2>1. TypedRooms(rooms) /\ Tidy(rooms)
    BY <1>1, RoomsTidy
  <2>2. TypedRooms(AddClient(c)) /\ Tidy(AddClient(c))
    BY <1>2, <2>1, AddClientShape
  <2> QED
    BY <1>1, <2>2
<1>5. TypeOK'
  BY <1>1, <1>3, <1>4 DEF HubInv, TypeOK, TypedRooms
<1>6. /\ Attached(c)' /\ ~ Attached(c)
      /\ \A d \in Clients \ {c} : Attached(d)' <=> Attached(d)
  BY <1>1, <1>2, <1>3 DEF Attached
<1>7. RoomsExact'
  <2>1. ASSUME NEW w \in Workspaces, NEW u \in Users
        PROVE  Peers(w, u)' = At(w, u)'
    <3>1. Peers(w, u)' = IF w = ident[c].ws /\ u = ident[c].user
                         THEN Peers(w, u) \cup {c} ELSE Peers(w, u)
      BY <1>1, AddClientPeers DEF Peers, RoomOf, PeersIn
    <3>2. Peers(w, u) = At(w, u)
      BY <1>1 DEF HubInv, RoomsExact
    <3>3. CASE w = ident[c].ws /\ u = ident[c].user
      BY <1>1, <1>2, <1>6, <3>1, <3>2, <3>3 DEF At
    <3>4. CASE ~ (w = ident[c].ws /\ u = ident[c].user)
      BY <1>1, <1>2, <1>6, <3>1, <3>2, <3>4 DEF At
    <3> QED
      BY <3>3, <3>4
  <2> QED
    BY <1>4, <2>1 DEF RoomsExact, Tidy
<1>8. Phases'
  BY <1>1, <1>2, <1>3 DEF HubInv, Phases, Joined
<1>9. FanOutOK'
  BY <1>1 DEF FanOutOK
<1>10. /\ Stream(c) = <<>>
       /\ \A d \in Clients : Stream(d)' = Stream(d)
  BY <1>1, <1>2, PrefixIndex DEF Stream
<1>11. StreamOK'
  <2> SUFFICES ASSUME NEW d \in Clients
               PROVE  /\ (from[d] <= Reach(d))'
                      /\ GapFreeRun(Stream(d), d)'
                      /\ (\A i \in DOMAIN Stream(d) : Stream(d)[i] <= Reach(d))'
    BY DEF StreamOK
  <2>1. CASE d = c
    BY <1>1, <1>3, <1>10, <2>1 DEF GapFreeRun, InOrder, Reach, HubInv, TypeOK
  <2>2. CASE d # c
    BY <1>1, <1>3, <1>10, <2>2 DEF HubInv, StreamOK, GapFreeRun, Addressed, Reach
  <2> QED
    BY <2>1, <2>2
<1>12. NothingLost'
  <2> SUFFICES ASSUME NEW d \in Clients,
                      hub = "running", Attached(d)', ~ closed[d], writer[d] # "exited",
                      NEW e \in (from[d] + 1 .. Reach(d))', Addressed(log[e], d)'
               PROVE  (\E i \in DOMAIN Stream(d) : Stream(d)[i] = e)'
    BY <1>1 DEF NothingLost
  <2>1. CASE d = c
    BY <1>1, <1>3, <2>1 DEF Reach, HubInv, TypeOK
  <2>2. CASE d # c
    BY <1>1, <1>3, <1>6, <1>10, <2>2 DEF HubInv, NothingLost, Addressed, Reach
  <2> QED
    BY <2>1, <2>2
<1> QED
  BY <1>5, <1>7, <1>8, <1>9, <1>11, <1>12 DEF HubInv

LEMMA StartPumpsInv ==
    ASSUME HubInv, NEW c \in Clients, StartPumps(c)
    PROVE  HubInv'
<1>1. /\ handler[c] = "registered"
      /\ handler' = [handler EXCEPT ![c] = "serving"]
      /\ writer' = [writer EXCEPT ![c] = "running"]
      /\ reader' = [reader EXCEPT ![c] = "reading"]
      /\ UNCHANGED <<hub, cancelled, crashed, rooms, todo, ident, send, closed,
                     connClosed, queue, outbox, log, from, wire>>
  BY DEF StartPumps, hubVars, pubVars, histVars
<1>2. TypeOK'
  BY <1>1 DEF HubInv, TypeOK
<1>3. /\ handler'[c] = "serving" /\ writer'[c] = "running" /\ reader'[c] = "reading"
      /\ \A d \in Clients \ {c} : /\ handler'[d] = handler[d]
                                  /\ writer'[d] = writer[d] /\ reader'[d] = reader[d]
      /\ writer[c] = "off"
  BY <1>1 DEF HubInv, TypeOK, Phases
<1>4. \A d \in Clients : Attached(d)' <=> Attached(d)
  BY <1>1, <1>3 DEF Attached
<1>5. RoomsExact'
  BY <1>1, <1>4 DEF HubInv, RoomsExact, Peers, RoomOf, At
<1>6. Phases'
  BY <1>1, <1>3 DEF HubInv, Phases, Joined
<1>7. FanOutOK'
  BY <1>1, <1>4 DEF HubInv, FanOutOK, Addressed, TypeOK
<1>8. \A d \in Clients : Stream(d)' = Stream(d)
  BY <1>1, <1>3 DEF Stream
<1>9. StreamOK'
  <2>1. ASSUME NEW d \in Clients
        PROVE  GapFreeRun(Stream(d), d)'
    BY <1>1, <1>8 DEF HubInv, StreamOK, GapFreeRun, Addressed, InOrder
  <2>2. ASSUME NEW d \in Clients
        PROVE  (from[d] <= Reach(d) /\ \A i \in DOMAIN Stream(d) : Stream(d)[i] <= Reach(d))'
    BY <1>1, <1>8 DEF HubInv, StreamOK, Reach
  <2> QED
    BY <2>1, <2>2 DEF StreamOK
<1>10. NothingLost'
  BY <1>1, <1>3, <1>4, <1>8 DEF HubInv, NothingLost, Addressed, Reach
<1> QED
  BY <1>2, <1>5, <1>6, <1>7, <1>9, <1>10 DEF HubInv

----------------------------------------------------------------------------
(* The steps of the publishers.                                            *)

LEMMA CallMessage ==
    ASSUME NEW a \in Calls
    PROVE  /\ BroadcastMsg(a) \in Message
           /\ BroadcastUserMsg(a) \in Message
BY CallsAssumption DEF BroadcastMsg, BroadcastUserMsg, OrElse, Message, CallType

LEMMA CallInv ==
    ASSUME HubInv, NEW p \in Publishers, Call(p)
    PROVE  HubInv'
<1>1. UNCHANGED <<hubVars, connVars, histVars, queue>>
  BY DEF Call
<1>2. \E m \in Message : outbox' = [outbox EXCEPT ![p] = <<m>>]
  BY CallMessage DEF Call
<1>3. TypeOK'
  BY <1>1, <1>2 DEF HubInv, TypeOK, hubVars, connVars, histVars
<1> QED
  BY <1>1, <1>3, RoomsFrame, PhasesFrame, FanOutFrame, StreamFrame, NothingLostFrame
     DEF HubInv, hubVars, connVars, histVars, Attached

LEMMA PublishInv ==
    ASSUME HubInv, NEW p \in Publishers, Publish(p)
    PROVE  HubInv'
<1>1. UNCHANGED <<hubVars, connVars, histVars>>
  BY DEF Publish
<1>2. PICK m \in Message : outbox[p] = <<m>>
  BY DEF Publish, HubInv, TypeOK
<1>3. queue' = Append(queue, m) /\ outbox' = [outbox EXCEPT ![p] = <<>>]
  BY <1>2 DEF Publish
<1>4. TypeOK'
  BY <1>1, <1>2, <1>3 DEF HubInv, TypeOK, hubVars, connVars, histVars
<1> QED
  BY <1>1, <1>4, RoomsFrame, PhasesFrame, FanOutFrame, StreamFrame, NothingLostFrame
     DEF HubInv, hubVars, connVars, histVars, Attached

----------------------------------------------------------------------------
(* The steps of the hub.                                                   *)

(* An event is fanned out to exactly the registered connections it is      *)
(* addressed to.                                                           *)
LEMMA TargetsExact ==
    ASSUME HubInv, hub = "running", NEW m \in Message
    PROVE  Targets(m) = {c \in Clients : Attached(c) /\ Addressed(m, c)}
<1>1. ASSUME NEW c \in Clients, Attached(c)
      PROVE  /\ ident[c].ws \in Workspaces /\ ident[c].user \in Users
             /\ ident[c] = [ws |-> ident[c].ws, user |-> ident[c].user]
  <2>1. Joined(c)
    BY <1>1 DEF HubInv, TypeOK, Phases, Attached, Joined
  <2>2. ident[c] \in [ws : Workspaces, user : Users]
    BY <2>1 DEF HubInv, Phases
  <2> QED
    BY <2>2
<1>2. \A w \in Workspaces, u \in Users : Peers(w, u) = At(w, u)
  BY DEF HubInv, RoomsExact
<1>3. TypedRooms(rooms)
  BY RoomsTidy
<1>4. m.ws \in Workspaces \cup {Empty} /\ m.user \in Users \cup {Empty}
  BY DEF Message
<1>5. CASE ~ Has(rooms, m.ws)
  <2>1. Targets(m) = {}
    BY <1>5 DEF Targets
  <2>2. \A u : Peers(m.ws, u) = {}
    BY <1>5 DEF Peers, RoomOf, Lookup, EmptyMap, Has
  <2>3. ASSUME NEW c \in Clients, Attached(c), Addressed(m, c)
        PROVE  FALSE
    <3>1. c \in At(ident[c].ws, ident[c].user)
      BY <1>1, <2>3 DEF At
    <3>2. c \in Peers(ident[c].ws, ident[c].user)
      BY <1>1, <1>2, <2>3, <3>1
    <3> QED
      BY <2>2, <2>3, <3>2 DEF Addressed
  <2> QED
    BY <2>1, <2>3
<1>6. CASE Has(rooms, m.ws) /\ m.user # Empty
  <2>1. Targets(m) = At(m.ws, m.user)
    BY <1>2, <1>3, <1>4, <1>6 DEF Targets, TypedRooms, Has
  <2> QED
    BY <1>1, <1>6, <2>1 DEF At, Addressed
<1>7. CASE Has(rooms, m.ws) /\ m.user = Empty
  <2>1. m.ws \in DOMAIN rooms /\ m.ws \in Workspaces
    BY <1>3, <1>7 DEF TypedRooms, Has
  <2>2. Targets(m) = UNION {rooms[m.ws][u] : u \in DOMAIN rooms[m.ws]}
    BY <1>7 DEF Targets
  <2>3. \A u \in DOMAIN rooms[m.ws] : u \in Users /\ rooms[m.ws][u] = At(m.ws, u)
    BY <1>2, <1>3, <2>1 DEF TypedRooms, Peers, RoomOf, Lookup, Has
  <2>4. ASSUME NEW c \in Clients, Attached(c), ident[c].ws = m.ws
        PROVE  \E u \in DOMAIN rooms[m.ws] : c \in rooms[m.ws][u]
    <3>1. c \in At(ident[c].ws, ident[c].user)
      BY <1>1, <2>4 DEF At
    <3>2. c \in Peers(ident[c].ws, ident[c].user)
      BY <1>1, <1>2, <2>4, <3>1
    <3> QED
      BY <2>1, <2>4, <3>2 DEF Peers, RoomOf, Lookup, Has
  <2>5. ASSUME NEW c, NEW u \in DOMAIN rooms[m.ws], c \in rooms[m.ws][u]
        PROVE  c \in Clients /\ Attached(c) /\ ident[c].ws = m.ws
    <3>1. c \in At(m.ws, u)
      BY <2>3, <2>5
    <3>2. c \in Clients /\ Attached(c) /\ ident[c] = [ws |-> m.ws, user |-> u]
      BY <3>1 DEF At
    <3> QED
      BY <3>2
  <2> QED
    BY <1>7, <2>2, <2>4, <2>5 DEF Addressed
<1> QED
  BY <1>5, <1>6, <1>7

(* Dispatch: the log grows by one event, which the targets have yet to be  *)
(* sent and nobody else is owed.                                           *)
LEMMA DispatchInv ==
    ASSUME HubInv, Dispatch
    PROVE  HubInv'
<1> DEFINE m == Head(queue)
<1>1. /\ hub = "running" /\ todo = {} /\ queue # <<>>
      /\ queue' = Tail(queue) /\ log' = Append(log, m) /\ todo' = Targets(m)
      /\ UNCHANGED <<hub, cancelled, crashed, rooms, connVars, outbox, from, wire>>
  BY DEF Dispatch, HubSelects
<1>2. /\ m \in Message /\ queue' \in Seq(Message)
      /\ log \in Seq(Message) /\ Len(log) \in Nat
  BY <1>1 DEF HubInv, TypeOK
<1> HIDE DEF m
<1>3. /\ log' \in Seq(Message) /\ Len(log') = Len(log) + 1
      /\ log'[Len(log) + 1] = m
      /\ \A e \in 1 .. Len(log) : log'[e] = log[e]
  BY <1>1, <1>2
<1>4. todo' = {c \in Clients : Attached(c) /\ Addressed(m, c)}
  BY <1>1, <1>2, TargetsExact
<1>5. TypeOK'
  BY <1>1, <1>2, <1>3, <1>4 DEF HubInv, TypeOK, connVars
<1>6. RoomsExact' /\ Phases'
  BY <1>1, RoomsFrame, PhasesFrame DEF HubInv, connVars
<1>7. FanOutOK'
  BY <1>1, <1>2, <1>3, <1>4 DEF FanOutOK, Attached, Addressed, connVars
<1>8. /\ \A d \in Clients : Stream(d)' = Stream(d)
      /\ \A d \in Clients : Reach(d)' \in {Len(log), Len(log) + 1}
      /\ \A d \in Clients : Reach(d) = Len(log)
  BY <1>1, <1>2, <1>3 DEF Stream, Reach, connVars
<1>9. \A d \in Clients : from[d] \in Nat
  BY DEF HubInv, TypeOK
<1>10. StreamOK'
  <2> SUFFICES ASSUME NEW d \in Clients
               PROVE  /\ (from[d] <= Reach(d))'
                      /\ GapFreeRun(Stream(d), d)'
                      /\ (\A i \in DOMAIN Stream(d) : Stream(d)[i] <= Reach(d))'
    BY DEF StreamOK
  <2> DEFINE t == Stream(d)
  <2>1. /\ GapFreeRun(t, d)
        /\ \A i \in DOMAIN t : t[i] \in Nat /\ t[i] <= Len(log)
        /\ from[d] \in Nat
    BY <1>8, <1>9, StreamType DEF HubInv, StreamOK
  <2>2. t' = t
    BY <1>8
  <2> HIDE DEF t
  <2>3. InOrder(t)
    BY <2>1 DEF GapFreeRun
  <2>4. ASSUME NEW i \in DOMAIN t
        PROVE  t[i] \in from[d] + 1 .. Len(log') /\ Addressed(log[t[i]], d)'
    <3>1. t[i] \in from[d] + 1 .. Len(log) /\ Addressed(log[t[i]], d)
      BY <2>1 DEF GapFreeRun
    <3>2. log'[t[i]] = log[t[i]]
      BY <1>2, <1>3, <2>1, <3>1
    <3>3. t[i] \in from[d] + 1 .. Len(log')
      BY <1>2, <1>3, <2>1, <3>1
    <3> QED
      BY <1>1, <2>2, <3>1, <3>2, <3>3 DEF Addressed, connVars
  <2>5. ASSUME NEW i \in DOMAIN t, NEW e \in from[d] + 1 .. t[i], Addressed(log'[e], d)
        PROVE  \E j \in DOMAIN t : t[j] = e
    <3>1. e \in 1 .. Len(log)
      BY <1>2, <2>1
    <3>2. Addressed(log[e], d)
      BY <1>3, <2>5, <3>1
    <3> QED
      BY <2>1, <3>2 DEF GapFreeRun
  <2>6. GapFreeRun(t, d)'
    BY <1>1, <2>2, <2>3, <2>4, <2>5 DEF GapFreeRun, InOrder, Addressed, connVars
  <2>7. \A i \in DOMAIN t : t[i] <= Reach(d)'
    BY <1>2, <1>8, <2>1
  <2>8. from'[d] <= Reach(d)'
    BY <1>1, <1>2, <1>8, <2>1 DEF HubInv, StreamOK
  <2> QED
    BY <2>2, <2>6, <2>7, <2>8 DEF t
<1>11. NothingLost'
  <2> SUFFICES ASSUME NEW d \in Clients,
                      Attached(d), ~ closed[d], writer[d] # "exited",
                      NEW e \in from[d] + 1 .. Reach(d)', Addressed(log'[e], d)
               PROVE  \E i \in DOMAIN Stream(d) : Stream(d)[i] = e
    <3>1. /\ closed' = closed /\ writer' = writer /\ from' = from /\ ident' = ident
          /\ \A d \in Clients : Attached(d)' <=> Attached(d)
      BY <1>1 DEF Attached, connVars
    <3> QED
      BY <1>8, <3>1 DEF NothingLost, Addressed
  <2>1. CASE e \in from[d] + 1 .. Len(log)
    <3>1. log'[e] = log[e]
      BY <1>2, <1>3, <1>9, <2>1
    <3> QED
      BY <1>1, <1>8, <2>1, <3>1 DEF HubInv, NothingLost
  <2>2. CASE e \notin from[d] + 1 .. Len(log)
    <3>1. e = Len(log) + 1 /\ Reach(d)' = Len(log) + 1
      BY <1>2, <1>8, <1>9, <2>2
    <3>2. d \in todo'
      BY <1>3, <1>4, <3>1
    <3>3. Reach(d)' = Len(log)
      BY <1>2, <1>3, <3>2 DEF Reach
    <3> QED
      BY <1>2, <3>1, <3>3
  <2> QED
    BY <2>1, <2>2
<1> QED
  BY <1>5, <1>6, <1>7, <1>10, <1>11 DEF HubInv

(* Enqueue: the event whose turn has come continues the run.               *)
LEMMA EnqueueInv ==
    ASSUME HubInv, NEW c \in Clients, Enqueue(c)
    PROVE  HubInv'
<1> DEFINE last == Len(log)
<1>1. /\ c \in todo /\ ~ closed[c]
      /\ send' = [send EXCEPT ![c] = Append(send[c], last)]
      /\ todo' = todo \ {c}
      /\ UNCHANGED <<hub, cancelled, crashed, rooms, handler, ident, closed, writer,
                     reader, connClosed, queue, outbox, log, from, wire>>
  BY DEF Enqueue, pubVars, histVars
<1>2. /\ hub = "running" /\ log # <<>> /\ Attached(c) /\ Addressed(log[last], c)
      /\ log \in Seq(Message) /\ last \in Nat /\ last > 0
      /\ wire[c] \in Seq(Nat) /\ send[c] \in Seq(Nat) /\ from[c] \in Nat
  BY <1>1 DEF HubInv, FanOutOK, TypeOK
<1>3. /\ send' \in [Clients -> Seq(Nat)]
      /\ send'[c] = Append(send[c], last)
      /\ \A d \in Clients \ {c} : send'[d] = send[d]
  BY <1>1, <1>2 DEF HubInv, TypeOK
<1>4. TypeOK'
  BY <1>1, <1>3 DEF HubInv, TypeOK
<1>5. RoomsExact'
  BY <1>1, RoomsFrame DEF HubInv
<1>6. Phases'
  <2>1. Joined(c)
    BY <1>2 DEF HubInv, TypeOK, Phases, Attached, Joined
  <2> QED
    BY <1>1, <1>3, <2>1 DEF HubInv, Phases, Joined
<1>7. FanOutOK'
  BY <1>1 DEF HubInv, FanOutOK, Attached, Addressed
<1>8. \A d \in Clients \ {c} : Stream(d)' = Stream(d) /\ Reach(d)' = Reach(d)
  BY <1>1, <1>3 DEF Stream, Reach
<1>9. Reach(c) = last - 1 /\ Reach(c)' = last
  BY <1>1 DEF Reach
<1> HIDE DEF last
<1> DEFINE t == Stream(c)
<1>10. /\ t \in Seq(Nat) /\ GapFreeRun(t, c)
       /\ \A i \in DOMAIN t : t[i] \in Nat /\ t[i] <= last - 1
       /\ from[c] <= last - 1
  BY <1>9, StreamType DEF HubInv, StreamOK
<1>11. \/ writer[c] = "exited" /\ t' = t
       \/ writer[c] # "exited" /\ t' = Append(t, last)
  BY <1>1, <1>2, <1>3, ConcatAppend DEF Stream
<1>12. writer[c] # "exited" =>
         \A e \in from[c] + 1 .. last - 1 :
           Addressed(log[e], c) => \E i \in DOMAIN t : t[i] = e
  BY <1>1, <1>2, <1>9 DEF HubInv, NothingLost
<1> HIDE DEF t
<1> DEFINE s == Append(t, last)
<1>13. /\ DOMAIN s = 1 .. Len(t) + 1 /\ DOMAIN t = 1 .. Len(t) /\ Len(t) \in Nat
       /\ s[Len(t) + 1] = last
       /\ \A i \in DOMAIN t : s[i] = t[i]
       /\ \A i \in DOMAIN s : i \in DOMAIN t \/ i = Len(t) + 1
  BY <1>2, <1>10
<1> HIDE DEF s
<1>14. ASSUME writer[c] # "exited"
       PROVE  GapFreeRun(s, c) /\ \A i \in DOMAIN s : s[i] <= last
  <2>1. InOrder(s)
    <3> SUFFICES ASSUME NEW i \in DOMAIN s, NEW j \in DOMAIN s, i < j
                 PROVE  s[i] < s[j]
      BY DEF InOrder
    <3>1. i \in DOMAIN t
      BY <1>13
    <3>2. CASE j \in DOMAIN t
      BY <1>10, <1>13, <3>1, <3>2 DEF GapFreeRun, InOrder
    <3>3. CASE j = Len(t) + 1
      BY <1>2, <1>10, <1>13, <3>1, <3>3
    <3> QED
      BY <1>13, <3>2, <3>3
  <2>2. ASSUME NEW i \in DOMAIN s
        PROVE  /\ s[i] \in from[c] + 1 .. Len(log) /\ Addressed(log[s[i]], c)
               /\ s[i] <= last
    <3>1. CASE i \in DOMAIN t
      BY <1>2, <1>10, <1>13, <3>1 DEF GapFreeRun, last
    <3>2. CASE i = Len(t) + 1
      BY <1>2, <1>10, <1>13, <3>2 DEF last
    <3> QED
      BY <1>13, <3>1, <3>2
  <2>3. ASSUME NEW i \in DOMAIN s, NEW e \in from[c] + 1 .. s[i], Addressed(log[e], c)
        PROVE  \E j \in DOMAIN s : s[j] = e
    <3>1. CASE e = last
      BY <1>13, <3>1
    <3>2. CASE e # last
      <4>1. e \in from[c] + 1 .. last - 1
        BY <1>2, <2>2, <3>2 DEF last
      <4>2. PICK j \in DOMAIN t : t[j] = e
        BY <1>12, <1>14, <2>3, <4>1
      <4> QED
        BY <1>13, <4>2
    <3> QED
      BY <3>1, <3>2
  <2> QED
    BY <2>1, <2>2, <2>3 DEF GapFreeRun
<1>15. StreamOK'
  <2> SUFFICES ASSUME NEW d \in Clients
               PROVE  /\ (from[d] <= Reach(d))'
                      /\ GapFreeRun(Stream(d), d)'
                      /\ (\A i \in DOMAIN Stream(d) : Stream(d)[i] <= Reach(d))'
    BY DEF StreamOK
  <2>1. CASE d # c
    BY <1>1, <1>8, <2>1 DEF HubInv, StreamOK, GapFreeRun, Addressed, InOrder
  <2>2. CASE d = c
    <3>1. /\ GapFreeRun(t', c) /\ \A i \in DOMAIN t' : t'[i] <= last
          /\ from[c] <= last
      <4>1. \A i \in DOMAIN t : t[i] <= last
        BY <1>2, <1>10
      <4>2. from[c] <= last
        BY <1>2, <1>10
      <4>3. CASE writer[c] = "exited" /\ t' = t
        BY <1>10, <4>1, <4>2, <4>3
      <4>4. CASE writer[c] # "exited" /\ t' = s
        BY <1>14, <4>2, <4>4
      <4> QED
        BY <1>11, <4>3, <4>4 DEF s
    <3>2. GapFreeRun(t, c)'
      BY <1>1, <3>1 DEF GapFreeRun, Addressed, InOrder
    <3> QED
      BY <1>1, <1>9, <2>2, <3>1, <3>2 DEF t
  <2> QED
    BY <2>1, <2>2
<1>16. NothingLost'
  <2> SUFFICES ASSUME NEW d \in Clients,
                      hub = "running", Attached(d), ~ closed[d], writer[d] # "exited",
                      NEW e \in from[d] + 1 .. Reach(d)', Addressed(log[e], d)
               PROVE  (\E i \in DOMAIN Stream(d) : Stream(d)[i] = e)'
    <3>1. /\ hub' = hub /\ closed' = closed /\ writer' = writer /\ from' = from
          /\ log' = log /\ ident' = ident
          /\ \A d \in Clients : Attached(d)' <=> Attached(d)
      BY <1>1 DEF Attached
    <3> QED
      BY <3>1 DEF NothingLost, Addressed
  <2>1. CASE d # c
    BY <1>8, <2>1 DEF HubInv, NothingLost
  <2>2. CASE d = c
    <3>1. t' = s
      BY <1>11, <2>2 DEF s
    <3>2. CASE e = last
      BY <1>13, <2>2, <3>1, <3>2 DEF t
    <3>3. CASE e # last
      <4>1. e \in from[c] + 1 .. last - 1
        BY <1>2, <1>9, <2>2, <3>3
      <4>2. PICK j \in DOMAIN t : t[j] = e
        BY <1>12, <2>2, <4>1
      <4>3. j \in DOMAIN s /\ s[j] = e
        BY <1>13, <4>2
      <4> QED
        BY <2>2, <3>1, <4>3 DEF t
    <3> QED
      BY <3>2, <3>3
  <2> QED
    BY <2>1, <2>2
<1> QED
  BY <1>4, <1>5, <1>6, <1>7, <1>15, <1>16 DEF HubInv

(* Evict: the connection is owed nothing any more.                         *)
LEMMA EvictInv ==
    ASSUME HubInv, NEW c \in Clients, Evict(c)
    PROVE  HubInv'
<1>1. /\ c \in todo /\ ~ closed[c]
      /\ closed' = [closed EXCEPT ![c] = TRUE]
      /\ todo' = todo \ {c}
      /\ UNCHANGED <<hub, cancelled, crashed, rooms, handler, ident, send, writer,
                     reader, connClosed, queue, outbox, log, from, wire>>
  BY DEF Evict, CloseSend, pubVars, histVars
<1>2. Len(log) \in Nat /\ \A d \in Clients : from[d] \in Nat
  BY DEF HubInv, TypeOK
<1>3. TypeOK'
  BY <1>1 DEF HubInv, TypeOK
<1>4. RoomsExact' /\ Phases'
  BY <1>1, RoomsFrame, PhasesFrame DEF HubInv
<1>5. FanOutOK'
  BY <1>1 DEF HubInv, FanOutOK, Attached, Addressed
<1>6. /\ \A d \in Clients : Stream(d)' = Stream(d)
      /\ \A d \in Clients \ {c} : Reach(d)' = Reach(d)
      /\ Reach(c) = Len(log) - 1 /\ Reach(c)' = Len(log)
  BY <1>1 DEF Stream, Reach
<1>7. StreamOK'
  <2> SUFFICES ASSUME NEW d \in Clients
               PROVE  /\ (from[d] <= Reach(d))'
                      /\ GapFreeRun(Stream(d), d)'
                      /\ (\A i \in DOMAIN Stream(d) : Stream(d)[i] <= Reach(d))'
    BY DEF StreamOK
  <2>1. GapFreeRun(Stream(d), d)'
    BY <1>1, <1>6 DEF HubInv, StreamOK, GapFreeRun, Addressed, InOrder
  <2>2. CASE d = c
    BY <1>1, <1>2, <1>6, <2>1, <2>2, StreamType DEF HubInv, StreamOK
  <2>3. CASE d # c
    BY <1>1, <1>6, <2>1, <2>3 DEF HubInv, StreamOK
  <2> QED
    BY <2>2, <2>3
<1>8. NothingLost'
  <2>1. closed'[c] /\ \A d \in Clients \ {c} : closed'[d] = closed[d]
    BY <1>1 DEF HubInv, TypeOK
  <2>2. /\ hub' = hub /\ writer' = writer /\ from' = from /\ log' = log /\ ident' = ident
        /\ \A d \in Clients : Attached(d)' <=> Attached(d)
    BY <1>1 DEF Attached
  <2> QED
    BY <1>6, <2>1, <2>2 DEF HubInv, NothingLost, Addressed
<1> QED
  BY <1>3, <1>4, <1>5, <1>7, <1>8 DEF HubInv

(* The hub's end, by cancellation or by panic: it owes nothing any more.   *)
LEMMA HubEndsInv ==
    ASSUME HubInv, CloseAll, todo' = {}, crashed' \in BOOLEAN, cancelled' = cancelled,
           UNCHANGED <<handler, ident, send, writer, reader, connClosed, pubVars,
                       histVars>>
    PROVE  HubInv'
<1>1. /\ hub' = "done" /\ rooms' = EmptyMap
      /\ closed' = [c \in Clients |-> closed[c] \/ c \in Members]
      /\ UNCHANGED <<queue, outbox, log, from, wire>>
  BY DEF CloseAll, pubVars, histVars
<1>2. closed' \in [Clients -> BOOLEAN] /\ DOMAIN rooms' = {}
  BY <1>1 DEF EmptyMap
<1>3. TypeOK'
  BY <1>1, <1>2 DEF HubInv, TypeOK
<1>4. RoomsExact' /\ FanOutOK' /\ NothingLost'
  BY <1>1 DEF RoomsExact, FanOutOK, NothingLost
<1>5. Phases'
  BY <1>1, PhasesFrame DEF HubInv
<1>6. StreamOK'
  <2> SUFFICES ASSUME NEW d \in Clients
               PROVE  /\ (from[d] <= Reach(d))'
                      /\ GapFreeRun(Stream(d), d)'
                      /\ (\A i \in DOMAIN Stream(d) : Stream(d)[i] <= Reach(d))'
    BY DEF StreamOK
  <2>1. Len(log) \in Nat /\ from[d] \in Nat
    BY DEF HubInv, TypeOK
  <2>2. Stream(d)' = Stream(d)
    BY <1>1 DEF Stream
  <2>3. GapFreeRun(Stream(d), d)'
    BY <1>1, <2>2 DEF HubInv, StreamOK, GapFreeRun, Addressed, InOrder
  <2>4. Reach(d) <= Len(log) /\ Reach(d) \in Int /\ Reach(d)' = Len(log)
    BY <1>1, <2>1 DEF Reach
  <2>5. from[d] <= Len(log)
    BY <2>1, <2>4 DEF HubInv, StreamOK
  <2>6. \A i \in DOMAIN Stream(d) : Stream(d)[i] <= Len(log)
    BY <2>1, <2>4, StreamType DEF HubInv, StreamOK
  <2> QED
    BY <1>1, <2>2, <2>3, <2>4, <2>5, <2>6
<1> QED
  BY <1>3, <1>4, <1>5, <1>6 DEF HubInv

LEMMA PanicOnClosedInv ==
    ASSUME HubInv, NEW c \in Clients, PanicOnClosed(c)
    PROVE  HubInv'
BY HubEndsInv DEF PanicOnClosed

LEMMA HubStopInv ==
    ASSUME HubInv, HubStop
    PROVE  HubInv'
BY HubEndsInv DEF HubStop, HubSelects, HubInv, TypeOK

LEMMA CancelInv ==
    ASSUME HubInv, Cancel
    PROVE  HubInv'
<1>1. /\ cancelled' = TRUE
      /\ UNCHANGED <<hub, crashed, rooms, todo, connVars, pubVars, histVars>>
  BY DEF Cancel
<1>2. TypeOK'
  BY <1>1 DEF HubInv, TypeOK, connVars, pubVars, histVars
<1> QED
  BY <1>1, <1>2, RoomsFrame, PhasesFrame, FanOutFrame, StreamFrame, NothingLostFrame
     DEF HubInv, connVars, pubVars, histVars, Attached

(* Unregister: the connection leaves its room and is owed nothing.         *)
LEMMA UnregisterInv ==
    ASSUME HubInv, NEW c \in Clients, Unregister(c)
    PROVE  HubInv'
<1>1. /\ hub = "running" /\ todo = {} /\ reader[c] = "unregistering"
      /\ rooms' = RemoveClient(c)
      /\ closed' = [closed EXCEPT ![c] = closed[c] \/ IsMember(c)]
      /\ reader' = [reader EXCEPT ![c] = "closing"]
      /\ UNCHANGED <<hub, cancelled, crashed, todo, handler, ident, send, writer,
                     connClosed, queue, outbox, log, from, wire>>
  BY DEF Unregister, HubSelects, pubVars, histVars
<1>2. /\ handler[c] = "serving" /\ ident[c] \in [ws : Workspaces, user : Users]
  BY <1>1 DEF HubInv, TypeOK, Phases, Joined
<1>3. /\ reader'[c] = "closing"
      /\ \A d \in Clients \ {c} : reader'[d] = reader[d] /\ closed'[d] = closed[d]
      /\ reader' \in [Clients -> {"off", "reading", "unregistering", "closing", "done"}]
      /\ closed' \in [Clients -> BOOLEAN]
  <2>1. (closed[c] \/ IsMember(c)) \in BOOLEAN
    BY DEF HubInv, TypeOK
  <2> QED
    BY <1>1, <2>1 DEF HubInv, TypeOK
<1>4. TypedRooms(rooms') /\ Tidy(rooms')
  <2>1. TypedRooms(RemoveClient(c)) /\ Tidy(RemoveClient(c))
    BY <1>1, RoomsTidy, RemoveClientShape
  <2> QED
    BY <1>1, <2>1
<1>5. TypeOK'
  BY <1>1, <1>3, <1>4 DEF HubInv, TypeOK, TypedRooms
<1>6. /\ ~ Attached(c)'
      /\ \A d \in Clients \ {c} : Attached(d)' <=> Attached(d)
  BY <1>1, <1>2, <1>3 DEF Attached
<1>7. RoomsExact'
  <2>1. ASSUME NEW w \in Workspaces, NEW u \in Users
        PROVE  Peers(w, u)' = At(w, u)'
    <3>1. Peers(w, u)' = IF w = ident[c].ws /\ u = ident[c].user
                         THEN Peers(w, u) \ {c} ELSE Peers(w, u)
      BY <1>1, RemoveClientPeers DEF Peers, RoomOf, PeersIn
    <3>2. Peers(w, u) = At(w, u)
      BY <1>1 DEF HubInv, RoomsExact
    <3>3. CASE w = ident[c].ws /\ u = ident[c].user
      BY <1>1, <1>2, <1>6, <3>1, <3>2, <3>3 DEF At
    <3>4. CASE ~ (w = ident[c].ws /\ u = ident[c].user)
      BY <1>1, <1>2, <1>6, <3>1, <3>2, <3>4 DEF At
    <3> QED
      BY <3>3, <3>4
  <2> QED
    BY <1>4, <2>1 DEF RoomsExact, Tidy
<1>8. Phases'
  BY <1>1, <1>2, <1>3 DEF HubInv, Phases, Joined
<1>9. FanOutOK'
  BY <1>1 DEF FanOutOK
<1>10. StreamOK'
  BY <1>1, StreamFrame DEF HubInv
<1>11. NothingLost'
  BY <1>1, <1>3, <1>6, NothingLostFrame DEF HubInv
<1> QED
  BY <1>5, <1>7, <1>8, <1>9, <1>10, <1>11 DEF HubInv

----------------------------------------------------------------------------
(* The steps of the pumps.                                                 *)

(* WriteMsg: the head of the channel moves to the wire.                    *)
LEMMA WriteMsgInv ==
    ASSUME HubInv, NEW c \in Clients, WriteMsg(c)
    PROVE  HubInv'
<1>1. /\ writer[c] = "running" /\ send[c] # <<>>
      /\ wire' = [wire EXCEPT ![c] = Append(wire[c], Head(send[c]))]
      /\ send' = [send EXCEPT ![c] = Tail(send[c])]
      /\ UNCHANGED <<hub, cancelled, crashed, rooms, todo, handler, ident, closed,
                     writer, reader, connClosed, queue, outbox, log, from>>
  BY DEF WriteMsg, hubVars, pubVars
<1>2. wire[c] \in Seq(Nat) /\ send[c] \in Seq(Nat)
  BY DEF HubInv, TypeOK
<1>3. /\ wire'[c] = Append(wire[c], Head(send[c])) /\ send'[c] = Tail(send[c])
      /\ \A d \in Clients \ {c} : wire'[d] = wire[d] /\ send'[d] = send[d]
      /\ wire' \in [Clients -> Seq(Nat)] /\ send' \in [Clients -> Seq(Nat)]
  <2>1. Append(wire[c], Head(send[c])) \in Seq(Nat) /\ Tail(send[c]) \in Seq(Nat)
    BY <1>1, <1>2, MoveHead
  <2> QED
    BY <1>1, <2>1 DEF HubInv, TypeOK
<1>4. TypeOK'
  BY <1>1, <1>3 DEF HubInv, TypeOK
<1>5. RoomsExact' /\ FanOutOK'
  BY <1>1, RoomsFrame, FanOutFrame DEF HubInv
<1>6. Phases'
  <2>1. handler[c] = "serving"
    BY <1>1 DEF HubInv, TypeOK, Phases
  <2> QED
    BY <1>1, <1>3, <2>1 DEF HubInv, Phases, Joined
<1>7. \A d \in Clients : Stream(d)' = Stream(d)
  <2> SUFFICES ASSUME NEW d \in Clients
               PROVE  Stream(d)' = Stream(d)
    OBVIOUS
  <2>1. CASE d # c
    BY <1>1, <1>3, <2>1 DEF Stream
  <2>2. CASE d = c
    <3>1. wire'[c] \o send'[c] = wire[c] \o send[c]
      BY <1>1, <1>2, <1>3, MoveHead
    <3> QED
      BY <1>1, <2>2, <3>1 DEF Stream
  <2> QED
    BY <2>1, <2>2
<1>8. StreamOK'
  <2>1. ASSUME NEW d \in Clients
        PROVE  GapFreeRun(Stream(d), d)'
    BY <1>1, <1>7 DEF HubInv, StreamOK, GapFreeRun, Addressed, InOrder
  <2>2. ASSUME NEW d \in Clients
        PROVE  (from[d] <= Reach(d) /\ \A i \in DOMAIN Stream(d) : Stream(d)[i] <= Reach(d))'
    BY <1>1, <1>7 DEF HubInv, StreamOK, Reach
  <2> QED
    BY <2>1, <2>2 DEF StreamOK
<1>9. NothingLost'
  <2>1. \A d \in Clients : Attached(d)' <=> Attached(d)
    BY <1>1 DEF Attached
  <2> QED
    BY <1>1, <1>7, <2>1 DEF HubInv, NothingLost, Addressed, Reach
<1> QED
  BY <1>4, <1>5, <1>6, <1>8, <1>9 DEF HubInv

(* A write pump that exits leaves its connection with what is on the wire. *)
LEMMA WriterExitsInv ==
    ASSUME HubInv, NEW c \in Clients, writer[c] = "running",
           writer' = [writer EXCEPT ![c] = "exited"],
           connClosed' = [connClosed EXCEPT ![c] = TRUE],
           send' \in [Clients -> Seq(Nat)],
           \A d \in Clients \ {c} : send'[d] = send[d],
           UNCHANGED <<hub, cancelled, crashed, rooms, todo, handler, ident, closed,
                       reader, queue, outbox, log, from, wire>>
    PROVE  HubInv'
<1>1. /\ writer'[c] = "exited"
      /\ \A d \in Clients \ {c} : writer'[d] = writer[d]
      /\ wire[c] \in Seq(Nat) /\ send[c] \in Seq(Nat)
  BY DEF HubInv, TypeOK
<1>2. TypeOK'
  BY DEF HubInv, TypeOK
<1>3. RoomsExact' /\ FanOutOK'
  BY RoomsFrame, FanOutFrame DEF HubInv
<1>4. Phases'
  <2>1. handler[c] = "serving"
    BY DEF HubInv, TypeOK, Phases
  <2> QED
    BY <1>1, <2>1 DEF HubInv, Phases, Joined
<1>5. /\ \A d \in Clients \ {c} : Stream(d)' = Stream(d)
      /\ Stream(c)' = wire[c]
      /\ Stream(c) = wire[c] \o send[c]
  BY <1>1 DEF Stream
<1>6. StreamOK'
  <2> SUFFICES ASSUME NEW d \in Clients
               PROVE  /\ (from[d] <= Reach(d))'
                      /\ GapFreeRun(Stream(d), d)'
                      /\ (\A i \in DOMAIN Stream(d) : Stream(d)[i] <= Reach(d))'
    BY DEF StreamOK
  <2>1. (from[d] <= Reach(d))' /\ Reach(d)' = Reach(d)
    BY DEF HubInv, StreamOK, Reach
  <2>2. CASE d # c
    BY <1>5, <2>1, <2>2 DEF HubInv, StreamOK, GapFreeRun, Addressed, InOrder
  <2>3. CASE d = c
    <3>1. GapFreeRun(Stream(c), c) /\ \A i \in DOMAIN Stream(c) : Stream(c)[i] <= Reach(c)
      BY DEF HubInv, StreamOK
    <3>2. GapFreeRun(wire[c], c)
      BY <1>1, <1>5, <3>1, GapFreePrefix
    <3>3. \A i \in DOMAIN wire[c] : wire[c][i] <= Reach(c)
      <4>1. /\ DOMAIN wire[c] \subseteq DOMAIN Stream(c)
            /\ \A i \in DOMAIN wire[c] : Stream(c)[i] = wire[c][i]
        <5> DEFINE w == wire[c]
                   s == send[c]
        <5>1. w \in Seq(Nat) /\ s \in Seq(Nat)
          BY <1>1
        <5> HIDE DEF w, s
        <5>2. DOMAIN w \subseteq DOMAIN (w \o s) /\ \A i \in DOMAIN w : (w \o s)[i] = w[i]
          BY <5>1, PrefixIndex
        <5> QED
          BY <1>5, <5>2 DEF w, s
      <4>2. ASSUME NEW i \in DOMAIN wire[c]
            PROVE  wire[c][i] <= Reach(c)
        <5>1. i \in DOMAIN Stream(c) /\ Stream(c)[i] = wire[c][i]
          BY <4>1
        <5>2. Stream(c)[i] <= Reach(c)
          BY <3>1, <5>1
        <5> QED
          BY <5>1, <5>2
      <4> QED
        BY <4>2
    <3>4. GapFreeRun(Stream(c), c)'
      BY <1>5, <3>2 DEF GapFreeRun, Addressed, InOrder
    <3> QED
      BY <1>5, <2>1, <2>3, <3>3, <3>4
  <2> QED
    BY <2>2, <2>3
<1>7. NothingLost'
  <2>1. \A d \in Clients : Attached(d)' <=> Attached(d)
    BY DEF Attached
  <2>2. \A d \in Clients : Reach(d)' = Reach(d)
    BY DEF Reach
  <2> SUFFICES ASSUME NEW d \in Clients,
                      hub = "running", Attached(d), ~ closed[d], writer'[d] # "exited",
                      NEW e \in from[d] + 1 .. Reach(d), Addressed(log[e], d)
               PROVE  (\E i \in DOMAIN Stream(d) : Stream(d)[i] = e)'
    BY <2>1, <2>2 DEF NothingLost, Addressed
  <2>3. d # c /\ writer[d] # "exited"
    BY <1>1
  <2> QED
    BY <1>5, <2>3 DEF HubInv, NothingLost
<1> QED
  BY <1>2, <1>3, <1>4, <1>6, <1>7 DEF HubInv

LEMMA WriteFailsInv ==
    ASSUME HubInv, NEW c \in Clients, WriteFails(c)
    PROVE  HubInv'
<1>1. send[c] \in Seq(Nat) /\ send[c] # <<>>
  BY DEF WriteFails, HubInv, TypeOK
<1>2. Tail(send[c]) \in Seq(Nat)
  BY <1>1
<1>3. send' = [send EXCEPT ![c] = Tail(send[c])]
  BY DEF WriteFails
<1>4. send' \in [Clients -> Seq(Nat)] /\ \A d \in Clients \ {c} : send'[d] = send[d]
  BY <1>2, <1>3 DEF HubInv, TypeOK
<1> QED
  BY <1>4, WriterExitsInv
     DEF WriteFails, WriterExits, CloseConn, hubVars, pubVars, histVars

LEMMA WriterStopsInv ==
    ASSUME HubInv, NEW c \in Clients, WriteClose(c) \/ PingFails(c)
    PROVE  HubInv'
<1>1. send' = send /\ send' \in [Clients -> Seq(Nat)]
  BY DEF WriteClose, PingFails, HubInv, TypeOK
<1> QED
  BY <1>1, WriterExitsInv
     DEF WriteClose, PingFails, WriterExits, CloseConn, hubVars, pubVars, histVars

LEMMA ReaderInv ==
    ASSUME HubInv, NEW c \in Clients, ReadFails(c) \/ ReaderExits(c)
    PROVE  HubInv'
<1>1. /\ \/ reader[c] = "reading" /\ reader' = [reader EXCEPT ![c] = "unregistering"]
         \/ reader[c] = "closing" /\ reader' = [reader EXCEPT ![c] = "done"]
      /\ connClosed' = connClosed \/ connClosed' = [connClosed EXCEPT ![c] = TRUE]
      /\ UNCHANGED <<hub, cancelled, crashed, rooms, todo, handler, ident, send,
                     closed, writer, queue, outbox, log, from, wire>>
  BY DEF ReadFails, ReaderExits, CloseConn, hubVars, pubVars, histVars
<1>2. TypeOK'
  BY <1>1 DEF HubInv, TypeOK
<1>3. /\ \A d \in Clients : Attached(d)' <=> Attached(d)
      /\ \A d \in Clients : reader'[d] = "off" <=> reader[d] = "off"
  BY <1>1 DEF Attached, HubInv, TypeOK
<1>4. RoomsExact'
  BY <1>1, <1>3 DEF HubInv, RoomsExact, Peers, RoomOf, At
<1>5. Phases'
  BY <1>1, <1>3 DEF HubInv, Phases, Joined
<1>6. FanOutOK'
  BY <1>1, <1>3 DEF HubInv, FanOutOK, Addressed, TypeOK
<1>7. StreamOK'
  BY <1>1, StreamFrame DEF HubInv
<1>8. NothingLost'
  BY <1>1, <1>3, NothingLostFrame DEF HubInv
<1> QED
  BY <1>2, <1>4, <1>5, <1>6, <1>7, <1>8 DEF HubInv

----------------------------------------------------------------------------
LEMMA InitInv == Init => HubInv
<1> SUFFICES ASSUME Init PROVE HubInv
  OBVIOUS
<1>1. TypeOK
  <2>1. DOMAIN rooms = {}
    BY DEF Init, EmptyMap
  <2>2. /\ queue \in Seq(Message) /\ log \in Seq(Message)
        /\ send \in [Clients -> Seq(Nat)] /\ wire \in [Clients -> Seq(Nat)]
    BY DEF Init
  <2>3. ident \in [Clients -> [ws : Workspaces \cup {Empty}, user : Users \cup {Empty}]]
    BY DEF Init, NoIdent
  <2> QED
    BY <2>1, <2>2, <2>3 DEF Init, TypeOK
<1>2. RoomsExact
  BY DEF Init, RoomsExact, Peers, RoomOf, At, Attached, Lookup, Has, EmptyMap
<1>3. Phases /\ FanOutOK
  BY DEF Init, Phases, FanOutOK, Joined
<1>4. \A c \in Clients : Stream(c) = <<>> /\ Reach(c) = 0 /\ from[c] = 0
  BY PrefixIndex DEF Init, Stream, Reach
<1>5. StreamOK
  BY <1>4, EmptyRun DEF StreamOK
<1>6. NothingLost
  BY DEF Init, NothingLost, Attached
<1> QED
  BY <1>1, <1>2, <1>3, <1>5, <1>6 DEF HubInv

LEMMA NextInv == HubInv /\ [Next]_vars => HubInv'
<1> SUFFICES ASSUME HubInv, [Next]_vars PROVE HubInv'
  OBVIOUS
<1>1. ASSUME NEW c \in Clients, ServeHTTP(c) PROVE HubInv'
  BY <1>1, ServeHTTPInv
<1>2. ASSUME NEW c \in Clients, Register(c) PROVE HubInv'
  BY <1>2, RegisterInv
<1>3. ASSUME NEW c \in Clients, StartPumps(c) PROVE HubInv'
  BY <1>3, StartPumpsInv
<1>4. ASSUME NEW c \in Clients, FanOut(c) PROVE HubInv'
  BY <1>4, EnqueueInv, EvictInv, PanicOnClosedInv DEF FanOut
<1>5. ASSUME NEW c \in Clients, Unregister(c) PROVE HubInv'
  BY <1>5, UnregisterInv
<1>6. ASSUME NEW c \in Clients, Write(c) \/ PingFails(c) PROVE HubInv'
  BY <1>6, WriteMsgInv, WriteFailsInv, WriterStopsInv DEF Write
<1>7. ASSUME NEW c \in Clients, ReadFails(c) \/ ReaderExits(c) PROVE HubInv'
  BY <1>7, ReaderInv
<1>8. ASSUME NEW p \in Publishers, Call(p) \/ Publish(p) PROVE HubInv'
  BY <1>8, CallInv, PublishInv
<1>9. CASE Dispatch
  BY <1>9, DispatchInv
<1>10. CASE Cancel \/ HubStop
  BY <1>10, CancelInv, HubStopInv
<1>11. CASE UNCHANGED vars
  <2>1. UNCHANGED <<hub, cancelled, crashed, rooms, queue, outbox, todo, handler, ident,
                    send, closed, writer, reader, connClosed, log, from, wire>>
    BY <1>11 DEF vars, hubVars, connVars, pubVars, histVars
  <2>2. TypeOK'
    BY <2>1 DEF HubInv, TypeOK
  <2> QED
    BY <2>1, <2>2, RoomsFrame, PhasesFrame, FanOutFrame, StreamFrame, NothingLostFrame
       DEF HubInv, Attached
<1> QED
  BY <1>1, <1>2, <1>3, <1>4, <1>5, <1>6, <1>7, <1>8, <1>9, <1>10, <1>11 DEF Next

(* The inductive invariant holds in every reachable state of the broker.   *)
THEOREM HubInvariant == Spec => []HubInv
<1>1. Init => HubInv
  BY InitInv
<1>2. HubInv /\ [Next]_vars => HubInv'
  BY NextInv
<1> QED
  BY <1>1, <1>2, PTL DEF Spec

(* The hub, the clients and the pumps keep the shape their types promise.  *)
THEOREM HubTypes == Spec => []TypeOK
<1>1. HubInv => TypeOK
  BY DEF HubInv
<1> QED
  BY <1>1, HubInvariant, PTL

(* The rooms hold exactly the registered connections, each in its own      *)
(* room, with nothing empty left behind.                                   *)
THEOREM HubRooms == Spec => []RoomsExact
<1>1. HubInv => RoomsExact
  BY DEF HubInv
<1> QED
  BY <1>1, HubInvariant, PTL

(* No subscriber ever misses an event addressed to it and sees a later     *)
(* one, or sees an event twice or out of order: the wire of a connection   *)
(* is a gap-free run, however slow its consumer, whoever closes it, and    *)
(* whatever the depths of the channels.                                    *)
THEOREM HubGapFree == Spec => []GapFree
<1>1. HubInv => GapFree
  BY StreamOKGapFree DEF HubInv
<1> QED
  BY <1>1, HubInvariant, PTL

(* An open, registered connection has been sent, or has waiting in its     *)
(* channel, every event addressed to it so far.                            *)
THEOREM HubNothingLost == Spec => []NothingLost
<1>1. HubInv => NothingLost
  BY DEF HubInv
<1> QED
  BY <1>1, HubInvariant, PTL

----------------------------------------------------------------------------
(* Why the hub panics.  It closes the channel of a connection when it      *)
(* unregisters it, when it ends and when it evicts a slow consumer; only   *)
(* the last leaves a closed channel in the rooms of a running hub.         *)
ClosedHaveLeft ==
    hub = "running" => \A c \in Clients : closed[c] => reader[c] \in {"closing", "done"}

EvictsNobody == ~ \E c \in Clients : Evict(c)

LEMMA ClosedFrame ==
    ASSUME ClosedHaveLeft, UNCHANGED <<hub, closed, reader>>
    PROVE  ClosedHaveLeft'
BY DEF ClosedHaveLeft

(* The connections that an event has yet to reach are in the rooms.        *)
LEMMA OpenToFanOut ==
    ASSUME HubInv, ClosedHaveLeft, NEW c \in todo
    PROVE  ~ closed[c]
<1>1. c \in Clients /\ hub = "running" /\ Attached(c) /\ Phases
  BY DEF HubInv, TypeOK, FanOutOK
<1>2. handler[c] = "registered" => reader[c] = "off"
  BY <1>1 DEF Phases
<1> QED
  BY <1>1, <1>2 DEF ClosedHaveLeft, Attached

LEMMA UnregisterCloses ==
    ASSUME HubInv, ClosedHaveLeft, NEW c \in Clients, Unregister(c)
    PROVE  ClosedHaveLeft'
<1> SUFFICES ASSUME NEW d \in Clients, hub' = "running", closed'[d]
             PROVE  reader'[d] \in {"closing", "done"}
  BY DEF ClosedHaveLeft
<1>1. reader \in [Clients -> {"off", "reading", "unregistering", "closing", "done"}]
      /\ closed \in [Clients -> BOOLEAN]
  BY DEF HubInv, TypeOK
<1>2. CASE d = c
  BY <1>1, <1>2 DEF Unregister
<1>3. CASE d # c
  <2>1. closed[d] /\ reader'[d] = reader[d] /\ hub = "running"
    BY <1>1, <1>3 DEF Unregister
  <2> QED
    BY <2>1 DEF ClosedHaveLeft
<1> QED
  BY <1>2, <1>3

(* The other steps of a reader, and the start of the pumps, of which only  *)
(* a connection whose channel is open is capable while the hub runs.       *)
LEMMA ReaderMoves ==
    ASSUME HubInv, ClosedHaveLeft, NEW c \in Clients,
           StartPumps(c) \/ ReadFails(c) \/ ReaderExits(c)
    PROVE  ClosedHaveLeft'
<1> SUFFICES ASSUME NEW d \in Clients, hub' = "running", closed'[d]
             PROVE  reader'[d] \in {"closing", "done"}
  BY DEF ClosedHaveLeft
<1>1. reader \in [Clients -> {"off", "reading", "unregistering", "closing", "done"}]
  BY DEF HubInv, TypeOK
<1>2. closed[d] /\ hub = "running"
  BY DEF StartPumps, ReadFails, ReaderExits, hubVars
<1>3. reader[d] \in {"closing", "done"}
  BY <1>2 DEF ClosedHaveLeft
<1>4. CASE d = c
  <2>1. ~ ReadFails(c) /\ ~ StartPumps(c)
    BY <1>3, <1>4 DEF ReadFails, StartPumps, HubInv, Phases
  <2> QED
    BY <1>1, <1>4, <2>1 DEF ReaderExits
<1>5. CASE d # c
  BY <1>1, <1>3, <1>5 DEF StartPumps, ReadFails, ReaderExits
<1> QED
  BY <1>4, <1>5

LEMMA NoPanicStep ==
    ASSUME HubInv, ClosedHaveLeft, NoHubPanic, [Next]_vars, [EvictsNobody]_vars
    PROVE  ClosedHaveLeft' /\ NoHubPanic'
<1>1. CASE UNCHANGED vars
  BY <1>1, ClosedFrame DEF vars, hubVars, connVars, NoHubPanic
<1>2. ASSUME NEW c \in Clients, ~ (UNCHANGED vars), FanOut(c)
      PROVE  ClosedHaveLeft' /\ NoHubPanic'
  <2>1. ~ Evict(c) /\ ~ PanicOnClosed(c)
    BY <1>2, OpenToFanOut DEF EvictsNobody, PanicOnClosed
  <2>2. Enqueue(c)
    BY <1>2, <2>1 DEF FanOut
  <2> QED
    BY <2>2, ClosedFrame DEF Enqueue, NoHubPanic
<1>3. ASSUME NEW c \in Clients, ServeHTTP(c) \/ Register(c) \/ Write(c) \/ PingFails(c)
      PROVE  ClosedHaveLeft' /\ NoHubPanic'
  BY <1>3, ClosedFrame
     DEF ServeHTTP, Register, Write, WriteMsg, WriteFails, WriteClose, PingFails, hubVars,
         NoHubPanic
<1>4. ASSUME NEW c \in Clients, StartPumps(c) \/ ReadFails(c) \/ ReaderExits(c)
      PROVE  ClosedHaveLeft' /\ NoHubPanic'
  BY <1>4, ReaderMoves DEF StartPumps, ReadFails, ReaderExits, hubVars, NoHubPanic
<1>5. ASSUME NEW c \in Clients, Unregister(c)
      PROVE  ClosedHaveLeft' /\ NoHubPanic'
  BY <1>5, UnregisterCloses DEF Unregister, NoHubPanic
<1>6. CASE HubStop
  BY <1>6 DEF HubStop, CloseAll, ClosedHaveLeft, NoHubPanic
<1>7. ASSUME Cancel \/ Dispatch \/ \E p \in Publishers : Call(p) \/ Publish(p)
      PROVE  ClosedHaveLeft' /\ NoHubPanic'
  BY <1>7, ClosedFrame
     DEF Cancel, Dispatch, Call, Publish, hubVars, connVars, NoHubPanic
<1> QED
  BY <1>1, <1>2, <1>3, <1>4, <1>5, <1>6, <1>7 DEF Next

(* A hub that evicts no slow consumer does not panic, whatever connections *)
(* come, go or fail and however it is stopped: eviction, which leaves the  *)
(* connection in the rooms, is the only cause of the panic.                *)
THEOREM HubPanicsOnlyByEviction == Spec /\ [][EvictsNobody]_vars => []NoHubPanic
<1>1. Init => ClosedHaveLeft /\ NoHubPanic
  BY DEF Init, ClosedHaveLeft, NoHubPanic
<1>2. HubInv /\ ClosedHaveLeft /\ NoHubPanic /\ [Next]_vars /\ [EvictsNobody]_vars
        => ClosedHaveLeft' /\ NoHubPanic'
  BY NoPanicStep
<1> QED
  BY <1>1, <1>2, HubInvariant, PTL DEF Spec

----------------------------------------------------------------------------
(* The broker implements the feed: every step of the hub, of a handler, of *)
(* a pump or of a publisher is a step of EventFeed or invisible to it, for *)
(* any connections, publishers and events and any depths of the channels.  *)

(* What the feed sees of the broker besides log, from and wire.            *)
Who == [c \in Clients |-> IF Joined(c) THEN ident[c] ELSE NoIdent]
Status == [c \in Clients |-> IF ~ Joined(c) THEN "new"
                             ELSE IF connClosed[c] \/ crashed THEN "ended"
                             ELSE "live"]

(* A connection is open until it has joined.                               *)
OpenUntilJoined == \A c \in Clients : ~ Joined(c) => ~ connClosed[c]

(* The feed, with the two names in place of their definitions.             *)
LEMMA Unseen ==
    ASSUME UNCHANGED <<log, from, wire, Who, Status>>
    PROVE  UNCHANGED Feed!feedVars
BY DEF Feed!feedVars, Who, Status

LEMMA Publishes ==
    ASSUME Len(log') = Len(log) + 1, SubSeq(log', 1, Len(log)) = log,
           UNCHANGED <<from, wire, Who, Status>>
    PROVE  Feed!FeedNext
BY DEF Feed!FeedNext, Feed!Publish, Who, Status

LEMMA Joins ==
    ASSUME NEW c \in Clients, Status[c] = "new", Status' = [Status EXCEPT ![c] = "live"],
           from' = [from EXCEPT ![c] = Len(log)],
           \A d \in Clients \ {c} : Who'[d] = Who[d],
           Who'[c].ws # Empty, Who'[c].user # Empty,
           UNCHANGED <<log, wire>>
    PROVE  Feed!FeedNext
<1>1. DOMAIN Who' = Clients
  BY DEF Who
<1>2. Feed!Join(c)
  BY <1>1 DEF Feed!Join, Who, Status
<1> QED
  BY <1>2 DEF Feed!FeedNext

LEMMA Ends ==
    ASSUME NEW S \in SUBSET Clients, \A c \in S : Status[c] = "live",
           Status' = [c \in Clients |-> IF c \in S THEN "ended" ELSE Status[c]],
           UNCHANGED <<log, from, wire, Who>>
    PROVE  Feed!FeedNext
<1>1. Feed!End(S)
  BY DEF Feed!End, Who, Status
<1> QED
  BY <1>1 DEF Feed!FeedNext

----------------------------------------------------------------------------
LEMMA InitFeed == Init => Feed!FeedInit
<1> SUFFICES ASSUME Init PROVE Feed!FeedInit
  OBVIOUS
<1>1. \A c \in Clients : ~ Joined(c)
  BY DEF Init, Joined
<1>2. Who = [c \in Clients |-> NoIdent] /\ Status = [c \in Clients |-> "new"]
  BY <1>1 DEF Who, Status
<1> QED
  BY <1>2 DEF Init, Feed!FeedInit, Feed!Nobody, NoIdent, Who, Status

LEMMA InitOpen == Init => OpenUntilJoined
BY DEF Init, OpenUntilJoined

(* The pumps run for joined connections only.                              *)
LEMMA PumpsJoined ==
    ASSUME HubInv, NEW c \in Clients, writer[c] = "running" \/ reader[c] = "closing"
    PROVE  handler[c] = "serving" /\ Joined(c)
BY DEF HubInv, Phases, Joined

(* A step that closes no connection, joins nobody and does not crash.      *)
LEMMA SameStatus ==
    ASSUME UNCHANGED <<connClosed, crashed>>,
           \A c \in Clients : Joined(c)' = Joined(c),
           \A c \in Clients : Joined(c) => ident'[c] = ident[c]
    PROVE  UNCHANGED <<Who, Status>>
BY DEF Who, Status

(* A pump that closes its connection ends a subscription that was live.    *)
LEMMA CloseEnds ==
    ASSUME HubInv, NEW c \in Clients, Joined(c), CloseConn(c),
           UNCHANGED <<handler, ident, crashed, log, from, wire>>
    PROVE  Feed!FeedNext \/ UNCHANGED Feed!feedVars
<1>1. connClosed' = [connClosed EXCEPT ![c] = TRUE] /\ connClosed \in [Clients -> BOOLEAN]
  BY DEF CloseConn, HubInv, TypeOK
<1>2. \A d \in Clients : Joined(d)' = Joined(d)
  BY DEF Joined
<1>3. UNCHANGED Who
  BY <1>2 DEF Who
<1>4. \A d \in Clients : connClosed'[d] = (d = c \/ connClosed[d])
  BY <1>1
<1> DEFINE S == IF Status[c] = "live" THEN {c} ELSE {}
<1>5. Status' = [d \in Clients |-> IF d \in S THEN "ended" ELSE Status[d]]
  <2>1. \A d \in Clients : Status'[d] = IF d \in S THEN "ended" ELSE Status[d]
    BY <1>2, <1>4 DEF Status
  <2> QED
    BY <2>1 DEF Status
<1>6. S \in SUBSET Clients /\ \A d \in S : Status[d] = "live"
  OBVIOUS
<1> HIDE DEF S
<1> QED
  BY <1>3, <1>5, <1>6, Ends

LEMMA RegisterJoins ==
    ASSUME HubInv, OpenUntilJoined, NEW c \in Clients, Register(c)
    PROVE  Feed!FeedNext /\ OpenUntilJoined'
<1>1. /\ ~ crashed /\ handler[c] = "registering"
      /\ handler' = [handler EXCEPT ![c] = "registered"]
      /\ from' = [from EXCEPT ![c] = Len(log)]
      /\ UNCHANGED <<crashed, ident, connClosed, log, wire>>
  BY DEF Register, HubSelects
<1>2. ~ Joined(c) /\ Joined(c)' /\ \A d \in Clients \ {c} : Joined(d)' = Joined(d)
  BY <1>1 DEF Joined, HubInv, TypeOK
<1>3. ident[c].ws # Empty /\ ident[c].user # Empty
  BY <1>1, EmptyAssumption DEF HubInv, Phases
<1>4. \A d \in Clients \ {c} : Who'[d] = Who[d]
  BY <1>1, <1>2 DEF Who
<1>5. Who'[c].ws # Empty /\ Who'[c].user # Empty
  BY <1>1, <1>2, <1>3 DEF Who
<1>6. Status[c] = "new"
  BY <1>2 DEF Status
<1>7. Status' = [Status EXCEPT ![c] = "live"]
  BY <1>1, <1>2 DEF Status, OpenUntilJoined
<1>8. OpenUntilJoined'
  BY <1>1, <1>2 DEF OpenUntilJoined
<1> QED
  BY <1>1, <1>4, <1>5, <1>6, <1>7, <1>8, Joins

LEMMA DispatchPublishes ==
    ASSUME HubInv, Dispatch
    PROVE  Feed!FeedNext
<1>1. /\ log' = Append(log, Head(queue)) /\ queue # <<>>
      /\ UNCHANGED <<crashed, from, wire>>
      /\ UNCHANGED <<handler, ident, connClosed>>
  BY DEF Dispatch, connVars
<1>2. log \in Seq(Message) /\ Head(queue) \in Message
  BY <1>1 DEF HubInv, TypeOK
<1>3. Len(log') = Len(log) + 1 /\ SubSeq(log', 1, Len(log)) = log
  BY <1>1, <1>2
<1>4. UNCHANGED <<Who, Status>>
  BY <1>1, SameStatus DEF Joined
<1> QED
  BY <1>1, <1>3, <1>4, Publishes

LEMMA PanicEnds ==
    ASSUME HubInv, NEW c \in Clients, PanicOnClosed(c)
    PROVE  Feed!FeedNext
<1>1. ~ crashed /\ crashed' /\ UNCHANGED <<handler, ident, connClosed, log, from, wire>>
  BY DEF PanicOnClosed, histVars
<1>2. \A d \in Clients : Joined(d)' = Joined(d)
  BY <1>1 DEF Joined
<1>3. UNCHANGED Who
  BY <1>1, <1>2 DEF Who
<1> DEFINE S == {d \in Clients : Status[d] = "live"}
<1>4. Status' = [d \in Clients |-> IF d \in S THEN "ended" ELSE Status[d]]
  <2>1. \A d \in Clients : Status'[d] = IF d \in S THEN "ended" ELSE Status[d]
    BY <1>1, <1>2 DEF Status
  <2> QED
    BY <2>1 DEF Status
<1>5. S \in SUBSET Clients /\ \A d \in S : Status[d] = "live"
  OBVIOUS
<1> HIDE DEF S
<1> QED
  BY <1>1, <1>3, <1>4, <1>5, Ends

----------------------------------------------------------------------------
(* What is written is the first event that is due.                         *)
Last(c) == IF wire[c] = <<>> THEN from[c] ELSE wire[c][Len(wire[c])]

Owed(c) == {e \in Last(c) + 1 .. Len(log) : Addressed(log[e], c)}

LEMMA Delivers ==
    ASSUME NEW c \in Clients, Status[c] = "live", Joined(c),
           NEW e \in Owed(c), \A d \in Owed(c) : e <= d,
           wire' = [wire EXCEPT ![c] = Append(@, e)],
           UNCHANGED <<log, from, Who, Status>>
    PROVE  Feed!FeedNext
<1>1. Who[c] = ident[c]
  BY DEF Who
<1>2. \A d : Feed!For(c, d) <=> Addressed(log[d], c)
  BY <1>1 DEF Feed!For, Addressed, Who
<1>3. Feed!Cursor(c) = Last(c)
  BY DEF Feed!Cursor, Last
<1>4. Feed!Due(c) = Owed(c)
  BY <1>2, <1>3 DEF Feed!Due, Owed
<1>5. Feed!Deliver(c)
  BY <1>4 DEF Feed!Deliver, Who, Status
<1> QED
  BY <1>5 DEF Feed!FeedNext

(* The positions of a wire and of what waits behind it.                    *)
LEMMA Position ==
    ASSUME NEW w \in Seq(Nat), NEW s \in Seq(Nat), s # <<>>
    PROVE  /\ Len(w) \in Nat /\ Len(w) + 1 \in DOMAIN (w \o s)
           /\ (w \o s)[Len(w) + 1] = Head(s) /\ Head(s) \in Nat
           /\ \A i \in DOMAIN (w \o s) : i \in Nat /\ i >= 1 /\ (w \o s)[i] \in Nat
           /\ \A i \in 1 .. Len(w) : i \in DOMAIN (w \o s) /\ (w \o s)[i] = w[i]
           /\ w # <<>> => Len(w) \in DOMAIN w /\ Len(w) \in 1 .. Len(w)
           /\ w = <<>> => Len(w) = 0
OBVIOUS

LEMMA HeadIsOwed ==
    ASSUME NEW c \in Clients, NEW w \in Seq(Nat), NEW s \in Seq(Nat), s # <<>>,
           wire[c] = w, GapFreeRun(w \o s, c), from[c] \in Nat, Len(log) \in Nat
    PROVE  Head(s) \in Owed(c) /\ \A d \in Owed(c) : Head(s) <= d
<1> DEFINE t == w \o s
           n == Len(w)
           e == Head(s)
<1>1. /\ n \in Nat /\ n + 1 \in DOMAIN t /\ t[n + 1] = e /\ e \in Nat
      /\ \A i \in DOMAIN t : i \in Nat /\ i >= 1 /\ t[i] \in Nat
      /\ \A i \in 1 .. n : i \in DOMAIN t /\ t[i] = w[i]
      /\ w # <<>> => n \in 1 .. n
      /\ w = <<>> => n = 0
  BY Position
<1>2. GapFreeRun(t, c)
  OBVIOUS
<1>3. Last(c) = IF w = <<>> THEN from[c] ELSE w[n]
  BY DEF Last
<1> HIDE DEF t, n, e
<1>4. e \in from[c] + 1 .. Len(log) /\ Addressed(log[e], c)
  BY <1>1, <1>2 DEF GapFreeRun
<1>5. w # <<>> => n \in DOMAIN t /\ w[n] = t[n] /\ t[n] < e
  BY <1>1, <1>2 DEF GapFreeRun, InOrder
<1>6. Last(c) \in Nat /\ Last(c) < e /\ from[c] <= Last(c)
  <2>1. CASE w = <<>>
    BY <1>1, <1>3, <1>4, <2>1
  <2>2. CASE w # <<>>
    <3>1. w[n] \in from[c] + 1 .. Len(log)
      BY <1>1, <1>2, <1>5, <2>2 DEF GapFreeRun
    <3> QED
      BY <1>1, <1>3, <1>5, <2>2, <3>1
  <2> QED
    BY <2>1, <2>2
<1>7. e \in Owed(c)
  BY <1>1, <1>4, <1>6 DEF Owed
<1>8. ASSUME NEW d \in Owed(c) PROVE e <= d
  <2>1. d \in Last(c) + 1 .. Len(log) /\ Addressed(log[d], c) /\ d \in Int
    BY <1>6 DEF Owed
  <2> SUFFICES ASSUME d < e PROVE FALSE
    BY <1>1, <2>1
  <2>2. d \in from[c] + 1 .. t[n + 1]
    BY <1>1, <1>6, <2>1
  <2>3. PICK j \in DOMAIN t : t[j] = d
    BY <1>1, <1>2, <2>1, <2>2 DEF GapFreeRun
  <2>4. j \in Nat /\ j >= 1 /\ ~ (n + 1 < j) /\ j # n + 1
    BY <1>1, <1>2, <2>3 DEF GapFreeRun, InOrder
  <2>5. j \in 1 .. n /\ w # <<>>
    BY <1>1, <2>4
  <2>6. t[j] <= t[n]
    <3>1. n \in DOMAIN t /\ t[n] \in Nat
      BY <1>1, <1>5, <2>5
    <3>2. CASE j < n
      <4>1. t[j] < t[n]
        BY <1>2, <2>3, <3>1, <3>2 DEF GapFreeRun, InOrder
      <4> QED
        BY <1>1, <3>1, <4>1
    <3>3. CASE j = n
      BY <3>1, <3>3
    <3> QED
      BY <1>1, <2>5, <3>2, <3>3
  <2> QED
    BY <1>1, <1>3, <1>5, <2>1, <2>3, <2>5, <2>6
<1> QED
  BY <1>7, <1>8 DEF e

LEMMA WriteDelivers ==
    ASSUME HubInv, NEW c \in Clients, WriteMsg(c)
    PROVE  Feed!FeedNext
<1>1. /\ ~ crashed /\ writer[c] = "running" /\ send[c] # <<>> /\ ~ connClosed[c]
      /\ wire' = [wire EXCEPT ![c] = Append(@, Head(send[c]))]
      /\ UNCHANGED <<crashed, handler, ident, connClosed, log, from>>
  BY DEF WriteMsg, hubVars
<1>2. Joined(c)
  BY <1>1, PumpsJoined
<1>3. Status[c] = "live"
  BY <1>1, <1>2 DEF Status
<1>4. UNCHANGED <<Who, Status>>
  BY <1>1, SameStatus DEF Joined
<1>5. wire[c] \in Seq(Nat) /\ send[c] \in Seq(Nat) /\ from[c] \in Nat /\ Len(log) \in Nat
  BY DEF HubInv, TypeOK
<1>6. GapFreeRun(wire[c] \o send[c], c)
  BY <1>1 DEF HubInv, StreamOK, Stream
<1>7. Head(send[c]) \in Owed(c) /\ \A d \in Owed(c) : Head(send[c]) <= d
  BY <1>1, <1>5, <1>6, HeadIsOwed
<1> QED
  BY <1>1, <1>2, <1>3, <1>4, <1>7, Delivers

----------------------------------------------------------------------------
LEMMA ServeUnseen ==
    ASSUME HubInv, NEW c \in Clients, ServeHTTP(c)
    PROVE  UNCHANGED Feed!feedVars /\ \A d \in Clients : Joined(d)' = Joined(d)
<1>1. /\ handler[c] = "idle"
      /\ \E h \in {"registering", "refused"} : handler' = [handler EXCEPT ![c] = h]
      /\ UNCHANGED ident \/ \E i : ident' = [ident EXCEPT ![c] = i]
      /\ UNCHANGED <<crashed, connClosed, log, from, wire>>
  BY DEF ServeHTTP, hubVars, histVars
<1>2. ~ Joined(c) /\ \A d \in Clients : Joined(d)' = Joined(d)
  BY <1>1 DEF Joined, HubInv, TypeOK
<1>3. \A d \in Clients : Joined(d) => ident'[d] = ident[d]
  BY <1>1, <1>2 DEF HubInv, TypeOK
<1> QED
  BY <1>1, <1>2, <1>3, SameStatus, Unseen

LEMMA StartUnseen ==
    ASSUME HubInv, NEW c \in Clients, StartPumps(c)
    PROVE  UNCHANGED Feed!feedVars /\ \A d \in Clients : Joined(d)' = Joined(d)
<1>1. /\ handler[c] = "registered" /\ handler' = [handler EXCEPT ![c] = "serving"]
      /\ UNCHANGED <<crashed, ident, connClosed, log, from, wire>>
  BY DEF StartPumps, hubVars, histVars
<1>2. \A d \in Clients : Joined(d)' = Joined(d)
  BY <1>1 DEF Joined, HubInv, TypeOK
<1> QED
  BY <1>1, <1>2, SameStatus, Unseen

(* The steps that only touch the rooms, the queues and the program         *)
(* counters of the pumps.                                                  *)
Inner ==
    \/ \E c \in Clients : Enqueue(c) \/ Evict(c) \/ Unregister(c) \/ ReadFails(c)
    \/ \E p \in Publishers : Call(p) \/ Publish(p)
    \/ Cancel \/ HubStop \/ UNCHANGED vars

LEMMA InnerUnseen ==
    ASSUME Inner
    PROVE  UNCHANGED Feed!feedVars /\ UNCHANGED <<handler, connClosed>>
<1>1. UNCHANGED <<crashed, handler, ident, connClosed, log, from, wire>>
  BY DEF Inner, Enqueue, Evict, Unregister, ReadFails, Call, Publish, Cancel, HubStop,
         vars, hubVars, connVars, pubVars, histVars
<1> QED
  BY <1>1, SameStatus, Unseen DEF Joined

(* A pump closes the connection.                                           *)
Closes(c) == WriteFails(c) \/ WriteClose(c) \/ PingFails(c) \/ ReaderExits(c)

LEMMA ClosesEnds ==
    ASSUME HubInv, NEW c \in Clients, Closes(c)
    PROVE  /\ Feed!FeedNext \/ UNCHANGED Feed!feedVars
           /\ Joined(c) /\ CloseConn(c) /\ UNCHANGED handler
<1>1. /\ writer[c] = "running" \/ reader[c] = "closing"
      /\ CloseConn(c) /\ UNCHANGED <<handler, ident, crashed, log, from, wire>>
  BY DEF Closes, WriteFails, WriteClose, PingFails, ReaderExits, WriterExits, hubVars, histVars
<1> QED
  BY <1>1, PumpsJoined, CloseEnds

LEMMA StepFeed ==
    ASSUME HubInv, OpenUntilJoined, [Next]_vars
    PROVE  (Feed!FeedNext \/ UNCHANGED Feed!feedVars) /\ OpenUntilJoined'
<1>1. ASSUME NEW c \in Clients, ServeHTTP(c) \/ StartPumps(c)
      PROVE  UNCHANGED Feed!feedVars /\ OpenUntilJoined'
  <2>1. UNCHANGED connClosed
    BY <1>1 DEF ServeHTTP, StartPumps
  <2> QED
    BY <1>1, <2>1, ServeUnseen, StartUnseen DEF OpenUntilJoined
<1>2. ASSUME NEW c \in Clients, Closes(c)
      PROVE  (Feed!FeedNext \/ UNCHANGED Feed!feedVars) /\ OpenUntilJoined'
  <2>1. Joined(c) /\ CloseConn(c) /\ UNCHANGED handler
    BY <1>2, ClosesEnds
  <2>2. OpenUntilJoined'
    BY <2>1 DEF OpenUntilJoined, Joined, CloseConn, HubInv, TypeOK
  <2> QED
    BY <1>2, <2>2, ClosesEnds
<1>3. ASSUME NEW c \in Clients, WriteMsg(c) \/ PanicOnClosed(c)
      PROVE  Feed!FeedNext /\ OpenUntilJoined'
  <2>1. UNCHANGED <<handler, connClosed>>
    BY <1>3 DEF WriteMsg, PanicOnClosed
  <2> QED
    BY <1>3, <2>1, WriteDelivers, PanicEnds DEF OpenUntilJoined, Joined
<1>4. CASE Dispatch
  <2>1. UNCHANGED <<handler, connClosed>>
    BY <1>4 DEF Dispatch, connVars
  <2> QED
    BY <1>4, <2>1, DispatchPublishes DEF OpenUntilJoined, Joined
<1>5. CASE Inner
  BY <1>5, InnerUnseen DEF OpenUntilJoined, Joined
<1> QED
  BY <1>1, <1>2, <1>3, <1>4, <1>5, RegisterJoins DEF Next, FanOut, Write, Inner, Closes

(* The broker implements the abstract feed: a subscriber is given, in      *)
(* order and one at a time, every event addressed to it since it joined,   *)
(* until its subscription ends, and nothing after.                         *)
THEOREM HubImplementsFeed == Spec => ImplementsFeed
<1>1. HubInv /\ OpenUntilJoined /\ [Next]_vars => [Feed!FeedNext]_(Feed!feedVars) /\ OpenUntilJoined'
  BY StepFeed
<1> QED
  BY <1>1, InitFeed, InitOpen, HubInvariant, PTL DEF Spec, ImplementsFeed, Feed!FeedSpec
=============================================================================
