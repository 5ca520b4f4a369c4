--------------------------- MODULE MCClientCalls ---------------------------
(* Four parts of the SDK that share no state: the profile caches, the      *)
(* compute tasks, the scopes of a cached answer and the task bindings.  A  *)
(* behaviour is one of a single part, chosen at the start: the states are  *)
(* the union of the four, never their product.                             *)
EXTENDS ProfileCache, ComputeTasks, AuthScopes, TaskBinding, TLC

VARIABLE part

MCSkews == {-1, 1}

MCGrants == {{}, {<<"*">>}, {<<"notes", "*">>}, {<<"notes", "read">>, <<"tasks", "*">>}}

MCAsked == {<<"notes">>, <<"notes", "read">>, <<"notes", "own", "read">>, <<"notes", "*">>,
            <<"tasks", "read">>}

MCCells == 1 .. 12

ClientInit ==
    /\ part \in {"profiles", "tasks", "scopes", "bindings"}
    /\ Init /\ TaskInit /\ ScopesInit /\ BindingInit
    /\ part # "tasks" => tasks = EmptyMap /\ skew = 1
    /\ part # "scopes" => \A f \in Pointers : truth[f] = {}

ClientNext ==
    /\ UNCHANGED part
    /\ \/ part = "profiles" /\ Next /\ UNCHANGED <<taskVars, scopeVars, bindingVars>>
       \/ part = "tasks" /\ TaskNext /\ UNCHANGED <<vars, scopeVars, bindingVars>>
       \/ part = "scopes" /\ ScopesNext /\ UNCHANGED <<vars, taskVars, bindingVars>>
       \/ part = "bindings" /\ BindingNext /\ UNCHANGED <<vars, taskVars, scopeVars>>

ClientSpec == ClientInit /\ [][ClientNext]_<<part, vars, taskVars, scopeVars, bindingVars>>

(* The inductive invariants of the parts: among them that an entry of a    *)
(* cache is a reply of dock and younger than its request, that the cached  *)
(* answer and its copies share no cell, and that a collected row is what   *)
(* the table has, though a read stopped half-way or went on after it.      *)
ClientInv == ProfileInv /\ TaskTypeOK /\ ScopesInv /\ BindingInv

(* Goroutines, ids of profiles and of tasks, refs and threads are          *)
(* interchangeable; the parts use the same two sets of model values.       *)
ClientSymmetry == Permutations(Callers) \cup Permutations(Ids)
=============================================================================
