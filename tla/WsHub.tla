------------------------------- MODULE WsHub -------------------------------
(* The websocket broker (src/wsbroker): one hub goroutine that owns the    *)
(* rooms, the HTTP handlers that register connections, the two pumps of    *)
(* every connection and the goroutines that publish.                       *)
(*                                                                         *)
(* The grain is one action per channel operation of a goroutine: the hub   *)
(* hands an event to one connection at a time while the pumps and the      *)
(* publishers run.  `log', `from' and `wire' are history: the events the   *)
(* hub has dispatched, how many there were when a connection registered,   *)
(* and the events (positions in log) written to each connection.           *)
EXTENDS Naturals, Sequences, FiniteSets, GoMap

CONSTANTS Clients,      \* connections that may be attempted
          Workspaces,   \* workspace ids other than ""
          Users,        \* user ids other than ""
          Empty,        \* the empty string
          Requests,     \* what a websocket request may look like
          Calls,        \* the calls publishers make
          Publishers,   \* goroutines that publish
          SendCap,      \* depth of a connection's send channel (256)
          QueueCap,     \* depth of the broadcast channel (64)
          MaxEvents     \* bound: events published in a behaviour

(* A request: its bearer and cookie tokens, its X-Workspace-Id header, the *)
(* user and default workspace dock answers for the token (user = Empty     *)
(* when the verification fails), and whether the upgrade succeeds.         *)
RequestType == [bearer : BOOLEAN, cookie : BOOLEAN,
                header : Workspaces \cup {Empty}, user : Users \cup {Empty},
                workspace : Workspaces \cup {Empty}, upgrades : BOOLEAN]

(* A call of the publishing API: Broadcast has no user argument.           *)
CallType == [op : {"Broadcast", "BroadcastUser"}, ws : Workspaces \cup {Empty},
             user : Users \cup {Empty}, env : Workspaces \cup {Empty}]

ASSUME EmptyAssumption == Empty \notin Workspaces \cup Users
ASSUME RequestsAssumption == Requests \subseteq RequestType
ASSUME CallsAssumption ==
    /\ Calls \subseteq CallType
    /\ \A a \in Calls : a.op = "Broadcast" => a.user = Empty
ASSUME CapAssumption == /\ SendCap \in Nat \ {0}
                        /\ QueueCap \in Nat \ {0}
                        /\ MaxEvents \in Nat
ASSUME PublishersAssumption == IsFiniteSet(Publishers)

VARIABLES
    hub,        \* the Run goroutine: "running", or "done" once closeAll ran
    cancelled,  \* the context given to Run is cancelled
    crashed,    \* a panic of the hub goroutine has ended the process
    rooms,      \* workspace -> user -> set of connections
    queue,      \* the broadcast channel
    outbox,     \* outbox[p]: <<m>> while p is blocked sending m to the queue
    todo,       \* connections the event being fanned out has yet to reach
    handler,    \* handler[c]: how far ServeHTTP is for c
    ident,      \* ident[c]: the workspace and user ServeHTTP resolved
    send,       \* send[c]: contents of the send channel
    closed,     \* closed[c]: the send channel is closed
    writer,     \* writer[c]: the write pump
    reader,     \* reader[c]: the read pump
    connClosed, \* connClosed[c]: conn.Close has been called
    log, from, wire

hubVars == <<hub, cancelled, crashed, rooms, todo>>
connVars == <<handler, ident, send, closed, writer, reader, connClosed>>
pubVars == <<queue, outbox>>
histVars == <<log, from, wire>>
vars == <<hubVars, connVars, pubVars, histVars>>

NoIdent == [ws |-> Empty, user |-> Empty]

Message == [op : {"Broadcast", "BroadcastUser"}, ws : Workspaces \cup {Empty},
            user : Users \cup {Empty}, env : Workspaces \cup {Empty}]

Init ==
    /\ hub = "running" /\ cancelled = FALSE /\ crashed = FALSE
    /\ rooms = EmptyMap
    /\ queue = <<>> /\ outbox = [p \in Publishers |-> <<>>]
    /\ todo = {}
    /\ handler = [c \in Clients |-> "idle"]
    /\ ident = [c \in Clients |-> NoIdent]
    /\ send = [c \in Clients |-> <<>>]
    /\ closed = [c \in Clients |-> FALSE]
    /\ writer = [c \in Clients |-> "off"]
    /\ reader = [c \in Clients |-> "off"]
    /\ connClosed = [c \in Clients |-> FALSE]
    /\ log = <<>>
    /\ from = [c \in Clients |-> 0]
    /\ wire = [c \in Clients |-> <<>>]

----------------------------------------------------------------------------
(* The rooms.                                                              *)

RoomOf(ws) == Lookup(rooms, ws, EmptyMap)

Peers(ws, user) == Lookup(RoomOf(ws), user, {})

IsMember(c) == c \in Peers(ident[c].ws, ident[c].user)

Members == UNION {UNION {rooms[w][u] : u \in DOMAIN rooms[w]} : w \in DOMAIN rooms}

AddClient(c) ==
    Store(rooms, ident[c].ws,
          Store(RoomOf(ident[c].ws), ident[c].user,
                Peers(ident[c].ws, ident[c].user) \cup {c}))

(* Broken variant: the workspace goes with its first empty user.           *)
RemoveWholeRoom(c) ==
    LET w == ident[c].ws
        u == ident[c].user
        rest == Peers(w, u) \ {c}
    IN  IF rest = {} THEN Without(rooms, w)
        ELSE Store(rooms, w, Store(RoomOf(w), u, rest))

(* A set that becomes empty leaves its user map, a user map that becomes   *)
(* empty leaves the rooms.                                                 *)
RemoveClient(c) ==
    LET w == ident[c].ws
        u == ident[c].user
        rest == Peers(w, u) \ {c}
        users == IF rest = {} THEN Without(RoomOf(w), u)
                 ELSE Store(RoomOf(w), u, rest)
    IN  IF ~ Has(rooms, w) \/ ~ Has(RoomOf(w), u) THEN rooms
        ELSE IF DOMAIN users = {} THEN Without(rooms, w)
        ELSE Store(rooms, w, users)

CloseSend(c) == closed' = [closed EXCEPT ![c] = TRUE]

(* Broken variant: rooms is cleared before the loop over it.               *)
CloseNobody == /\ closed' = closed
               /\ rooms' = EmptyMap
               /\ hub' = "done"

(* The deferred closeAll of Run, after a cancellation as after a panic.    *)
CloseAll ==
    /\ closed' = [c \in Clients |-> closed[c] \/ c \in Members]
    /\ rooms' = EmptyMap
    /\ hub' = "done"

----------------------------------------------------------------------------
(* Connections arrive.                                                     *)

ResolveWorkspace(r) == IF r.header # Empty THEN r.header ELSE r.workspace

Admitted(r) == /\ r.bearer \/ r.cookie
               /\ r.user # Empty
               /\ ResolveWorkspace(r) # Empty
               /\ r.upgrades

(* ServeHTTP up to its send on the register channel, or its refusal.       *)
ServeHTTP(c) ==
    /\ ~ crashed /\ handler[c] = "idle"
    /\ \E r \in Requests :
         IF Admitted(r)
         THEN /\ handler' = [handler EXCEPT ![c] = "registering"]
              /\ ident' = [ident EXCEPT
                             ![c] = [ws |-> ResolveWorkspace(r), user |-> r.user]]
         ELSE /\ handler' = [handler EXCEPT ![c] = "refused"]
              /\ UNCHANGED ident
    /\ UNCHANGED <<hubVars, pubVars, histVars, send, closed, writer, reader,
                   connClosed>>

(* Broken variant: the channels are served while an event is fanned out.   *)
SelectsDuringFanOut == ~ crashed /\ hub = "running"

HubSelects == ~ crashed /\ hub = "running" /\ todo = {}

Register(c) ==
    /\ HubSelects /\ handler[c] = "registering"
    /\ rooms' = AddClient(c)
    /\ handler' = [handler EXCEPT ![c] = "registered"]
    /\ from' = [from EXCEPT ![c] = Len(log)]
    /\ UNCHANGED <<hub, cancelled, crashed, todo, ident, send, closed, writer,
                   reader, connClosed, pubVars, log, wire>>

StartPumps(c) ==
    /\ ~ crashed /\ handler[c] = "registered"
    /\ handler' = [handler EXCEPT ![c] = "serving"]
    /\ writer' = [writer EXCEPT ![c] = "running"]
    /\ reader' = [reader EXCEPT ![c] = "reading"]
    /\ UNCHANGED <<hubVars, ident, send, closed, connClosed, pubVars, histVars>>

----------------------------------------------------------------------------
(* Publishers.                                                             *)

OrElse(a, b) == IF a # Empty THEN a ELSE b

BroadcastMsg(a) == [op |-> a.op, ws |-> OrElse(a.ws, a.env), user |-> Empty,
                    env |-> OrElse(a.env, a.ws)]

BroadcastUserMsg(a) == [op |-> a.op, ws |-> a.ws, user |-> a.user,
                        env |-> OrElse(a.env, a.ws)]

Pending == {p \in Publishers : outbox[p] # <<>>}

BelowMaxEvents == Len(log) + Len(queue) + Cardinality(Pending) < MaxEvents

(* Broadcast or BroadcastUser, up to its send on the broadcast channel.    *)
Call(p) ==
    /\ ~ crashed /\ outbox[p] = <<>> /\ BelowMaxEvents
    /\ \E a \in Calls :
         outbox' = [outbox EXCEPT
                      ![p] = << IF a.op = "Broadcast" THEN BroadcastMsg(a)
                                ELSE BroadcastUserMsg(a) >>]
    /\ UNCHANGED <<hubVars, connVars, histVars, queue>>

(* The send finds room in the broadcast channel, and the call returns.     *)
Publish(p) ==
    /\ ~ crashed /\ outbox[p] # <<>> /\ Len(queue) < QueueCap
    /\ queue' = Append(queue, outbox[p][1])
    /\ outbox' = [outbox EXCEPT ![p] = <<>>]
    /\ UNCHANGED <<hubVars, connVars, histVars>>

----------------------------------------------------------------------------
(* The hub dispatches an event.                                            *)

(* Broken variant: the loop over the users returns after the first.        *)
FirstUserTargets(m) ==
    IF ~ Has(rooms, m.ws) THEN {}
    ELSE IF m.user # Empty THEN Peers(m.ws, m.user)
    ELSE rooms[m.ws][CHOOSE u \in DOMAIN rooms[m.ws] : TRUE]

Targets(m) ==
    IF ~ Has(rooms, m.ws) THEN {}
    ELSE IF m.user # Empty THEN Peers(m.ws, m.user)
    ELSE UNION {rooms[m.ws][u] : u \in DOMAIN rooms[m.ws]}

Dispatch ==
    /\ HubSelects /\ queue # <<>>
    /\ queue' = Tail(queue)
    /\ log' = Append(log, Head(queue))
    /\ todo' = Targets(Head(queue))
    /\ UNCHANGED <<hub, cancelled, crashed, rooms, connVars, outbox, from, wire>>

Enqueue(c) ==
    /\ ~ crashed /\ c \in todo /\ ~ closed[c] /\ Len(send[c]) < SendCap
    /\ send' = [send EXCEPT ![c] = Append(@, Len(log))]
    /\ todo' = todo \ {c}
    /\ UNCHANGED <<hub, cancelled, crashed, rooms, handler, ident, closed,
                   writer, reader, connClosed, pubVars, histVars>>

(* Broken variants: a slow consumer misses the event, or is waited for.    *)
SkipEvent(c) ==
    /\ ~ crashed /\ c \in todo /\ ~ closed[c] /\ Len(send[c]) = SendCap
    /\ todo' = todo \ {c}
    /\ UNCHANGED <<hub, cancelled, crashed, rooms, connVars, pubVars, histVars>>

WaitForConsumer(c) == FALSE

(* The channel is full: it is closed, and the connection stays in rooms.   *)
Evict(c) ==
    /\ ~ crashed /\ c \in todo /\ ~ closed[c] /\ Len(send[c]) = SendCap
    /\ CloseSend(c)
    /\ todo' = todo \ {c}
    /\ UNCHANGED <<hub, cancelled, crashed, rooms, handler, ident, send,
                   writer, reader, connClosed, pubVars, histVars>>

(* A send on a closed channel panics: the deferred closeAll runs and the   *)
(* process, which recovers nowhere, ends.                                  *)
PanicOnClosed(c) ==
    /\ ~ crashed /\ c \in todo /\ closed[c]
    /\ crashed' = TRUE
    /\ CloseAll
    /\ todo' = {}
    /\ UNCHANGED <<cancelled, handler, ident, send, writer, reader, connClosed,
                   pubVars, histVars>>

----------------------------------------------------------------------------
(* Connections and the hub end.                                            *)

(* The rendezvous on the unregister channel, and removeClient.             *)
Unregister(c) ==
    /\ HubSelects /\ reader[c] = "unregistering"
    /\ rooms' = RemoveClient(c)
    /\ closed' = [closed EXCEPT ![c] = @ \/ IsMember(c)]
    /\ reader' = [reader EXCEPT ![c] = "closing"]
    /\ UNCHANGED <<hub, cancelled, crashed, todo, handler, ident, send, writer,
                   connClosed, pubVars, histVars>>

Cancel ==
    /\ ~ crashed /\ ~ cancelled
    /\ cancelled' = TRUE
    /\ UNCHANGED <<hub, crashed, rooms, todo, connVars, pubVars, histVars>>

HubStop ==
    /\ HubSelects /\ cancelled
    /\ CloseAll
    /\ UNCHANGED <<cancelled, crashed, todo, handler, ident, send, writer,
                   reader, connClosed, pubVars, histVars>>

----------------------------------------------------------------------------
(* The pumps.  A write can fail at any time, and succeeds only on a        *)
(* connection nobody has closed.                                           *)

CloseConn(c) == connClosed' = [connClosed EXCEPT ![c] = TRUE]

(* Broken variant: no deferred conn.Close.                                 *)
WriterLeavesConn(c) == /\ writer' = [writer EXCEPT ![c] = "exited"]
                       /\ UNCHANGED connClosed

WriterExits(c) == /\ writer' = [writer EXCEPT ![c] = "exited"]
                  /\ CloseConn(c)

WriteMsg(c) ==
    /\ ~ crashed /\ writer[c] = "running" /\ send[c] # <<>> /\ ~ connClosed[c]
    /\ wire' = [wire EXCEPT ![c] = Append(@, Head(send[c]))]
    /\ send' = [send EXCEPT ![c] = Tail(@)]
    /\ UNCHANGED <<hubVars, handler, ident, closed, writer, reader, connClosed,
                   pubVars, log, from>>

(* Broken variant: the loop goes on after a failed write.                  *)
WriteFailsAndGoesOn(c) ==
    /\ ~ crashed /\ writer[c] = "running" /\ send[c] # <<>>
    /\ send' = [send EXCEPT ![c] = Tail(@)]
    /\ UNCHANGED <<hubVars, handler, ident, closed, writer, reader, connClosed,
                   pubVars, histVars>>

WriteFails(c) ==
    /\ ~ crashed /\ writer[c] = "running" /\ send[c] # <<>>
    /\ send' = [send EXCEPT ![c] = Tail(@)]
    /\ WriterExits(c)
    /\ UNCHANGED <<hubVars, handler, ident, closed, reader, pubVars, histVars>>

(* The channel is closed and drained: the close frame, then the exit.      *)
WriteClose(c) ==
    /\ ~ crashed /\ writer[c] = "running" /\ send[c] = <<>> /\ closed[c]
    /\ WriterExits(c)
    /\ UNCHANGED <<hubVars, handler, ident, send, closed, reader, pubVars,
                   histVars>>

PingFails(c) ==
    /\ ~ crashed /\ writer[c] = "running"
    /\ WriterExits(c)
    /\ UNCHANGED <<hubVars, handler, ident, send, closed, reader, pubVars,
                   histVars>>

ReadFails(c) ==
    /\ ~ crashed /\ reader[c] = "reading"
    /\ reader' = [reader EXCEPT ![c] = "unregistering"]
    /\ UNCHANGED <<hubVars, handler, ident, send, closed, writer, connClosed,
                   pubVars, histVars>>

ReaderExits(c) ==
    /\ ~ crashed /\ reader[c] = "closing"
    /\ reader' = [reader EXCEPT ![c] = "done"]
    /\ CloseConn(c)
    /\ UNCHANGED <<hubVars, handler, ident, send, closed, writer, pubVars,
                   histVars>>

----------------------------------------------------------------------------
FanOut(c) == Enqueue(c) \/ Evict(c) \/ PanicOnClosed(c)

Write(c) == WriteMsg(c) \/ WriteFails(c) \/ WriteClose(c)

Next ==
    \/ \E c \in Clients : \/ ServeHTTP(c) \/ Register(c) \/ StartPumps(c)
                          \/ FanOut(c)
                          \/ Unregister(c)
                          \/ Write(c) \/ PingFails(c)
                          \/ ReadFails(c) \/ ReaderExits(c)
    \/ \E p \in Publishers : Call(p) \/ Publish(p)
    \/ Dispatch
    \/ Cancel
    \/ HubStop

(* Goroutines that can run do run.  A select picks among its ready cases   *)
(* at random, so a case that is ready again and again is taken: strong     *)
(* fairness for the hub's cases and for the senders that compete for room  *)
(* in the queue.  A write or its deadline ends, and a read on a closed     *)
(* connection fails.  Nothing obliges requests, calls, cancellation or     *)
(* network failures to happen.                                             *)
Fairness ==
    /\ SF_vars(Dispatch) /\ SF_vars(HubStop)
    /\ \A p \in Publishers : SF_vars(Publish(p))
    /\ \A c \in Clients :
         /\ SF_vars(Register(c)) /\ SF_vars(Unregister(c))
         /\ WF_vars(StartPumps(c)) /\ WF_vars(FanOut(c)) /\ WF_vars(Write(c))
         /\ WF_vars(connClosed[c] /\ ReadFails(c)) /\ WF_vars(ReaderExits(c))

Spec == Init /\ [][Next]_vars

FairSpec == Spec /\ Fairness

----------------------------------------------------------------------------
(* The types of the variables: the shape of the hub struct, of a Client    *)
(* and of the pumps' program counters.                                     *)
TypeOK ==
    /\ hub \in {"running", "done"}
    /\ cancelled \in BOOLEAN /\ crashed \in BOOLEAN
    /\ DOMAIN rooms \subseteq Workspaces
    /\ \A w \in DOMAIN rooms :
         /\ DOMAIN rooms[w] \subseteq Users
         /\ \A u \in DOMAIN rooms[w] : rooms[w][u] \subseteq Clients
    /\ queue \in Seq(Message)
    /\ \A p \in Publishers : outbox[p] = <<>> \/ \E m \in Message : outbox[p] = <<m>>
    /\ DOMAIN outbox = Publishers
    /\ todo \subseteq Clients
    /\ handler \in [Clients -> {"idle", "refused", "registering", "registered", "serving"}]
    /\ ident \in [Clients -> [ws : Workspaces \cup {Empty}, user : Users \cup {Empty}]]
    /\ send \in [Clients -> Seq(Nat)]
    /\ closed \in [Clients -> BOOLEAN]
    /\ writer \in [Clients -> {"off", "running", "exited"}]
    /\ reader \in [Clients -> {"off", "reading", "unregistering", "closing", "done"}]
    /\ connClosed \in [Clients -> BOOLEAN]
    /\ log \in Seq(Message)
    /\ from \in [Clients -> Nat]
    /\ wire \in [Clients -> Seq(Nat)]

(* A connection is in the rooms exactly from its registration until the    *)
(* hub takes its unregistration, in the room of its own workspace and      *)
(* user and in no other, and no empty set or empty user map is left        *)
(* behind (register case and removeClient, over any sequence of both).     *)
Joined(c) == handler[c] \in {"registered", "serving"}

Attached(c) == handler[c] = "registered" \/ reader[c] \in {"reading", "unregistering"}

At(w, u) == {c \in Clients : Attached(c) /\ ident[c] = [ws |-> w, user |-> u]}

RoomsExact ==
    hub = "running" =>
      /\ \A w \in Workspaces, u \in Users : Peers(w, u) = At(w, u)
      /\ \A w \in DOMAIN rooms :
           /\ DOMAIN rooms[w] # {}
           /\ \A u \in DOMAIN rooms[w] : rooms[w][u] # {}

(* What an event is addressed to: hubMsg's workspace and, unless it is "", *)
(* hubMsg's user.                                                          *)
Addressed(m, c) == /\ m.ws = ident[c].ws
                   /\ m.user = Empty \/ m.user = ident[c].user

InOrder(s) == \A i, j \in DOMAIN s : i < j => s[i] < s[j]

(* s holds, in order and once each, only events addressed to c that were   *)
(* dispatched after c registered, and misses none before its last.         *)
GapFreeRun(s, c) ==
    /\ InOrder(s)
    /\ \A i \in DOMAIN s : /\ s[i] \in from[c] + 1 .. Len(log)
                           /\ Addressed(log[s[i]], c)
    /\ \A i \in DOMAIN s : \A e \in from[c] + 1 .. s[i] :
         Addressed(log[e], c) => \E j \in DOMAIN s : s[j] = e

(* Each connection's wire carries a gap-free, duplicate-free, in-order run *)
(* of the events addressed to it: a slow consumer is cut off, it never     *)
(* misses an event and sees a later one (Run, fanOutToUser, writePump).    *)
GapFree == \A c \in Clients : GapFreeRun(wire[c], c)

(* The connection is owed every event so far: the event being fanned out   *)
(* counts once its turn has come.                                          *)
Reach(c) == IF c \in todo THEN Len(log) - 1 ELSE Len(log)

(* What the connection has been sent and, while its write pump runs, what  *)
(* waits in its channel.                                                   *)
Stream(c) == IF writer[c] = "exited" THEN wire[c] ELSE wire[c] \o send[c]

(* Until a registered connection is cut off or its write pump ends,        *)
(* everything addressed to it so far is on the wire or in its channel.     *)
NothingLost ==
    \A c \in Clients :
      (hub = "running" /\ Attached(c) /\ ~ closed[c] /\ writer[c] # "exited") =>
        \A e \in from[c] + 1 .. Reach(c) :
          Addressed(log[e], c) => \E i \in DOMAIN Stream(c) : Stream(c)[i] = e

(* The hub goroutine does not panic.                                       *)
NoHubPanic == ~ crashed

----------------------------------------------------------------------------
(* The inductive invariant behind GapFree.                                 *)

(* The program counters of ServeHTTP and of the pumps agree, and a         *)
(* connection the hub has not registered holds nothing yet.                *)
Phases ==
    \A c \in Clients :
      /\ Joined(c) => ident[c] \in [ws : Workspaces, user : Users]
      /\ handler[c] = "registering" => ident[c] \in [ws : Workspaces, user : Users]
      /\ handler[c] = "serving" => writer[c] # "off" /\ reader[c] # "off"
      /\ handler[c] # "serving" => writer[c] = "off" /\ reader[c] = "off"
      /\ ~ Joined(c) => wire[c] = <<>> /\ send[c] = <<>>

(* An event is fanned out by a running hub, to registered connections it   *)
(* is addressed to, and is the last one of the log.                        *)
FanOutOK ==
    todo # {} => /\ hub = "running"
                 /\ log # <<>>
                 /\ \A c \in todo : Attached(c) /\ Addressed(log[Len(log)], c)

(* The channel continues the wire without a gap, and does not yet hold the *)
(* event whose turn is to come, which was dispatched after c registered.   *)
StreamOK ==
    \A c \in Clients :
      /\ from[c] <= Reach(c)
      /\ GapFreeRun(Stream(c), c)
      /\ \A i \in DOMAIN Stream(c) : Stream(c)[i] <= Reach(c)

HubInv == TypeOK /\ RoomsExact /\ Phases /\ FanOutOK /\ StreamOK /\ NothingLost

----------------------------------------------------------------------------
(* The subscriber's view of the broker (EventFeed): a connection joins     *)
(* when the hub registers it, sees what is on its wire, and ends when it   *)
(* is closed or the process is gone.                                       *)
Feed == INSTANCE EventFeed WITH
          Subscribers <- Clients,
          seen <- wire,
          who <- [c \in Clients |-> IF Joined(c) THEN ident[c] ELSE NoIdent],
          status <- [c \in Clients |-> IF ~ Joined(c) THEN "new"
                                       ELSE IF connClosed[c] \/ crashed THEN "ended"
                                       ELSE "live"]

(* The hub, its channels and the pumps implement the feed: every write to  *)
(* a connection is the next event it is owed, and nothing is written to a  *)
(* connection after it is closed.                                          *)
ImplementsFeed == Feed!FeedSpec

(* An event the hub has dispatched is written to every open connection it  *)
(* is addressed to, or that connection is closed: through eviction,        *)
(* failed writes, unregistration and shutdown (fanOutToUser, the pumps).   *)
EventsArrive == Feed!Arrives

(* A connection cut off as a slow consumer leaves the rooms: the write     *)
(* pump's exit closes the connection, which ends the read pump, which      *)
(* unregisters.                                                            *)
EvictedIsReaped ==
    \A c \in Clients : (closed[c] /\ IsMember(c)) ~> (crashed \/ ~ IsMember(c))

(* A publisher blocked on the full broadcast channel gets through as long  *)
(* as the hub is not cancelled, however many publishers compete.           *)
PublishedWhileRunning ==
    \A p \in Publishers : (outbox[p] # <<>>) ~> (outbox[p] = <<>> \/ cancelled \/ crashed)

(* Cancelling the context stops the hub, and every connection it had       *)
(* registered, evicted ones and half-unregistered ones included, is        *)
(* closed.                                                                 *)
ShutdownClosesRegistered ==
    \A c \in Clients :
      (cancelled /\ handler[c] \in {"registered", "serving"}) ~>
        (crashed \/ (hub = "done" /\ connClosed[c]))

(* Broadcast and BroadcastUser return.                                     *)
BroadcastReturns ==
    \A p \in Publishers : (outbox[p] # <<>>) ~> (crashed \/ outbox[p] = <<>>)
=============================================================================
