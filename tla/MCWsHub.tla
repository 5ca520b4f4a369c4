------------------------------ MODULE MCWsHub ------------------------------
(* Values for WsHub's constants.                                           *)
EXTENDS WsHub, TLC

CONSTANTS w1, w2, u1, u2

Request(header, user, workspace) ==
    [bearer |-> TRUE, cookie |-> FALSE, header |-> header, user |-> user,
     workspace |-> workspace, upgrades |-> TRUE]

Cookie(r) == [r EXCEPT !.bearer = FALSE, !.cookie = TRUE]

(* Two users in one room, one of them by a workspace header that overrides *)
(* the default.                                                            *)
TwoRequests == {Request(Empty, u1, w1), Cookie(Request(w1, u2, w2))}

(* A second workspace for the same user, and two of the ways to be refused:*)
(* no workspace, no token.                                                 *)
SomeRequests ==
    TwoRequests \cup {Request(w2, u1, w1), Request(Empty, u1, Empty),
                      [Request(Empty, u1, w1) EXCEPT !.bearer = FALSE]}

OneRequest == {Request(Empty, u1, w1)}

ToAll(ws, env) == [op |-> "Broadcast", ws |-> ws, user |-> Empty, env |-> env]

ToUser(ws, user, env) == [op |-> "BroadcastUser", ws |-> ws, user |-> user, env |-> env]

TwoCalls == {ToAll(w1, Empty), ToUser(w1, u1, w1)}

OneCall == {ToAll(w1, Empty)}

ConnSymmetry == Permutations(Clients)
=============================================================================
