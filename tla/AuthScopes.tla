----------------------------- MODULE AuthScopes -----------------------------
(* The scopes of a cached answer of AuthVerifyWS.  TokenID, Scopes and     *)
(* TokenExpiresAt of an answer are pointers; its caller may write through  *)
(* them.  What may be nil is a set: {} for nil, {x} for a pointer to x.  A *)
(* scope is the sequence of its parts: "notes:read" is <<"notes", "read">>. *)
EXTENDS Naturals, Sequences

CONSTANTS Readers,  \* goroutines that verify one token
          Grants,   \* sets of scopes dock may grant
          Asked,    \* scopes a handler may ask for
          Cells     \* the memory: addresses

ASSUME CellsAssumption == Cells \subseteq Nat \ {0}
ASSUME ScopesAssumption == \A s \in Asked \cup UNION Grants : s \in Seq(STRING) /\ s # <<>>

VARIABLES truth,   \* dock's answer: [field -> nil or a value]
          memory,  \* the value in each cell in use
          entry,   \* the cached answer ([field -> nil or a cell]), if any
          answer,  \* answer[p]: what reader p was given last, if anything
          edited   \* readers that wrote into the answer they hold

scopeVars == <<truth, memory, entry, answer, edited>>

Pointers == {"TokenID", "Scopes", "TokenExpiresAt"}
Absent == [f \in Pointers |-> {0}]

ScopesInit ==
    /\ \E id \in {{}, {{<<"id">>}}}, at \in {{}, {{<<"at">>}}}, s \in {{}} \cup {{g} : g \in Grants} :
         truth = [TokenID |-> id, Scopes |-> s, TokenExpiresAt |-> at]
    /\ memory = [c \in {} |-> {}]
    /\ entry = Absent
    /\ answer = [p \in Readers |-> Absent]
    /\ edited = {}

----------------------------------------------------------------------------
Value(a, mem) == [f \in Pointers |-> {mem[c] : c \in a[f]}]

CellsOf(as) == {c \in Cells : \E a \in as \ {Absent}, f \in Pointers : c \in a[f]}

Suits(a, v) ==
    \A f, g \in Pointers : (a[f] = {} <=> v[f] = {}) /\ (f # g => a[f] \cap a[g] = {})

(* Cells for the fields of v that are not nil, outside of a set in use.    *)
Free(v, used) ==
    {a \in [Pointers -> {{}} \cup {{c} : c \in Cells \ used}] : Suits(a, v)}

Fresh3(v, used) == CHOOSE a \in Free(v, used) : TRUE

(* Broken variant: the scopes of the copy are those of the original.       *)
CloneShallow(a, v, used) == [Fresh3(v, used) EXCEPT !.Scopes = a.Scopes]

(* clone: cells of their own for the values v of a.                        *)
Clone(a, v, used) == Fresh3(v, used)

(* The cells in use afterwards, of which those of fresh hold the values v. *)
Keep(fresh, v) ==
    LET inUse == CellsOf({entry'} \cup {answer'[p] : p \in Readers})
        of(c) == {f \in Pointers : \E a \in fresh : c \in a[f]}
    IN  memory' = [c \in inUse |-> IF of(c) = {} THEN memory[c]
                                   ELSE CHOOSE x \in v[CHOOSE f \in of(c) : TRUE] : TRUE]

(* A miss: the decoded answer goes to the caller, a clone into the cache.  *)
MissVerifies(p) ==
    /\ entry = Absent
    /\ Free(truth, DOMAIN memory) # {}
    /\ LET out == Fresh3(truth, DOMAIN memory)
       IN  /\ Free(truth, DOMAIN memory \cup CellsOf({out})) # {}
           /\ entry' = Clone(out, truth, DOMAIN memory \cup CellsOf({out}))
           /\ answer' = [answer EXCEPT ![p] = out]
           /\ Keep({out, entry'}, truth)
    /\ edited' = edited \ {p}
    /\ UNCHANGED truth

(* A hit: the caller is given a clone of the entry.                        *)
HitVerifies(p) ==
    /\ entry # Absent
    /\ LET v == Value(entry, memory)
           c == Clone(entry, v, DOMAIN memory)
       IN  /\ Free(v, DOMAIN memory) # {}
           /\ answer' = [answer EXCEPT ![p] = c]
           /\ entry' = entry
           /\ Keep({[f \in Pointers |-> c[f] \ entry[f]]}, v)
    /\ edited' = edited \ {p}
    /\ UNCHANGED truth

(* The handler changes what it was given, in place.                        *)
Edits(p) ==
    /\ \E c \in CellsOf({answer[p]}) : memory' = [memory EXCEPT ![c] = {}]
    /\ edited' = edited \cup {p}
    /\ UNCHANGED <<truth, entry, answer>>

(* The entry is too old, or swept.                                         *)
Expires ==
    /\ entry # Absent
    /\ entry' = Absent
    /\ UNCHANGED <<truth, answer, edited>>
    /\ Keep({}, truth)

ScopesNext == Expires \/ \E p \in Readers : MissVerifies(p) \/ HitVerifies(p) \/ Edits(p)

ScopesSpec == ScopesInit /\ [][ScopesNext]_scopeVars

----------------------------------------------------------------------------
Unscoped(scopes) == scopes = {}

(* "notes:*" covers what starts with "notes:".                             *)
Covers(grant, scope) ==
    LET n == Len(grant) - 1
    IN  \/ grant = scope \/ grant = <<"*">>
        \/ /\ n >= 1 /\ grant[n + 1] = "*"
           /\ Len(scope) > n /\ SubSeq(scope, 1, n) = SubSeq(grant, 1, n)

(* Broken variant: a token with nothing for this module is unscoped too.   *)
HasScopeEmpty(scopes, scope) ==
    UNION scopes = {} \/ \E g \in UNION scopes : Covers(g, scope)

HasScope(scopes, scope) == Unscoped(scopes) \/ \E g \in UNION scopes : Covers(g, scope)

(* The types of the variables: an answer points at cells in use, a field   *)
(* is nil where dock's is.                                                 *)
PointsInto(a, mem) ==
    /\ a \in [Pointers -> {{}} \cup {{c} : c \in DOMAIN mem}]
    /\ Suits(a, truth)

ScopesTypeOK ==
    /\ truth = [f \in Pointers |-> truth[f]] /\ truth.Scopes \subseteq Grants
    /\ \A f \in Pointers : \A x, y \in truth[f] : x = y
    /\ DOMAIN memory \subseteq Cells
    /\ edited \subseteq Readers /\ DOMAIN answer = Readers
    /\ \A a \in {entry} \cup {answer[p] : p \in Readers} : a = Absent \/ PointsInto(a, memory)

(* The inductive invariant behind AnswerIsDocks: the entry and the answers *)
(* share no cell, and the entry is dock's answer.                          *)
ScopesInv ==
    /\ ScopesTypeOK
    /\ \A p, q \in Readers : p # q => CellsOf({answer[p]}) \cap CellsOf({answer[q], entry}) = {}
    /\ \A p \in Readers : CellsOf({answer[p]}) \cap CellsOf({entry}) = {}
    /\ entry # Absent => Value(entry, memory) = truth
    /\ \A p \in Readers \ edited : answer[p] # Absent => Value(answer[p], memory) = truth

(* A reader holds dock's answer in every field until it writes into it     *)
(* itself, whatever the others do to theirs and whoever's miss filled the  *)
(* cache.                                                                  *)
AnswerIsDocks ==
    \A p \in Readers \ edited : answer[p] # Absent => Value(answer[p], memory) = truth

(* HasScope decides as dock granted: no list grants everything, an empty   *)
(* one nothing, "*" and "<module>:*" all that is below them.               *)
ScopesAsGranted ==
    \A p \in Readers \ edited, s \in Asked : answer[p] # Absent =>
      LET covering == {s, <<"*">>} \cup {Append(SubSeq(s, 1, n), "*") : n \in 1 .. Len(s) - 1}
      IN  HasScope(Value(answer[p], memory).Scopes, s) <=>
            truth.Scopes = {} \/ \E g \in truth.Scopes : g \cap covering # {}
=============================================================================
