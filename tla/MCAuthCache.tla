---------------------------- MODULE MCAuthCache ----------------------------
(* Values for AuthCache's constants.                                       *)
EXTENDS AuthCache, TLC

CONSTANTS t1, a1

(* Agent tokens expire while the clock runs, session tokens do not.        *)
SomeExpire == [t \in AllTokens |-> IF t \in AgentTokens THEN 2 ELSE MaxTime + 1]

CallerSymmetry == Permutations(Callers)
=============================================================================
