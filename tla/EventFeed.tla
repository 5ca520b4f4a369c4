------------------------------ MODULE EventFeed ------------------------------
(* What the websocket broker promises to a subscriber, without its         *)
(* goroutines and channels: there is one sequence of events; a subscriber  *)
(* that joins is given, in order and one at a time, every later event      *)
(* addressed to it, until its subscription ends.  A subscription may end   *)
(* at any moment, and then it is told so by its connection closing: what   *)
(* it never sees is an event followed by a gap.                            *)
EXTENDS Naturals, Sequences

CONSTANTS Subscribers, Empty

VARIABLES log,      \* the events, in the order they were published
          who,      \* who[s]: the workspace and user s subscribed as
          from,     \* from[s]: how many events there were when s joined
          seen,     \* seen[s]: the events s was given, as positions in log
          status    \* status[s]: "new", "live" or "ended"

feedVars == <<log, who, from, seen, status>>

Nobody == [ws |-> Empty, user |-> Empty]

FeedInit == /\ log = <<>>
            /\ who = [s \in Subscribers |-> Nobody]
            /\ from = [s \in Subscribers |-> 0]
            /\ seen = [s \in Subscribers |-> <<>>]
            /\ status = [s \in Subscribers |-> "new"]

For(s, e) == /\ log[e].ws = who[s].ws
             /\ log[e].user = Empty \/ log[e].user = who[s].user

(* The last event s was given, or the last before it joined.               *)
Cursor(s) == IF seen[s] = <<>> THEN from[s] ELSE seen[s][Len(seen[s])]

Due(s) == {e \in Cursor(s) + 1 .. Len(log) : For(s, e)}

Publish == /\ Len(log') = Len(log) + 1
           /\ SubSeq(log', 1, Len(log)) = log
           /\ UNCHANGED <<who, from, seen, status>>

Join(s) == /\ status[s] = "new"
           /\ status' = [status EXCEPT ![s] = "live"]
           /\ from' = [from EXCEPT ![s] = Len(log)]
           /\ \A t \in Subscribers \ {s} : who'[t] = who[t]
           /\ DOMAIN who' = Subscribers
           /\ who'[s].ws # Empty /\ who'[s].user # Empty
           /\ UNCHANGED <<log, seen>>

Deliver(s) == /\ status[s] = "live"
              /\ \E e \in Due(s) :
                   /\ \A d \in Due(s) : e <= d
                   /\ seen' = [seen EXCEPT ![s] = Append(@, e)]
              /\ UNCHANGED <<log, who, from, status>>

(* One subscription ends, or all of them do.                               *)
End(S) == /\ \A s \in S : status[s] = "live"
          /\ status' = [s \in Subscribers |-> IF s \in S THEN "ended" ELSE status[s]]
          /\ UNCHANGED <<log, who, from, seen>>

FeedNext == \/ Publish
            \/ \E s \in Subscribers : Join(s) \/ Deliver(s)
            \/ \E S \in SUBSET Subscribers : End(S)

FeedSpec == FeedInit /\ [][FeedNext]_feedVars

(* Every event dispatched to a live subscriber is given to it, or its      *)
(* subscription ends: it is never left open and silent.                    *)
Arrives == \A s \in Subscribers :
             (status[s] = "live" /\ Due(s) # {}) ~>
               (status[s] = "ended" \/ Due(s) = {})
=============================================================================
