-------------------------- MODULE ApiCatalogProofs --------------------------
(* Proofs about the route catalog generator, for every package: what it    *)
(* lists, labels and joins is what the package registers and its handlers  *)
(* read.  What a loop of the code or of the reference makes is a recursive *)
(* function; it unfolds by an induction over the numbers, which rests on   *)
(* the least element of a set of them.                                     *)
EXTENDS ApiCatalog, FiniteSetTheorems, SequenceTheorems, WellFoundedInduction, TLAPS

(* A set of numbers has a least one, and induction over the numbers.       *)
LEMMA NatLeast ==
    ASSUME NEW T, T \subseteq Nat, T # {}
    PROVE  \E x \in T : \A y \in T : ~ (y < x)
<1>1. PICK x \in T : \A y \in T : <<y, x>> \notin OpToRel(<, Nat)
  BY NatLessThanWellFounded, WFMin, Zenon
<1> QED
  BY <1>1 DEF OpToRel

LEMMA NatInduct ==
    ASSUME NEW S, 0 \in S, \A n \in Nat : n \in S => n + 1 \in S
    PROVE  Nat \subseteq S
<1> SUFFICES ASSUME Nat \ S # {} PROVE FALSE
  OBVIOUS
<1>1. PICK x \in Nat \ S : \A y \in Nat \ S : ~ (y < x)
  BY NatLeast
<1>2. x # 0 /\ x - 1 \in Nat
  BY <1>1
<1>3. x - 1 \in S
  BY <1>1, <1>2
<1> QED
  BY <1>1, <1>2, <1>3

(* What a package is, body by body.                                        *)
LEMMA BodyIsSeq ==
    ASSUME NEW g \in Programs, NEW f \in Funcs
    PROVE  /\ Len(g.body[f]) \in Nat
           /\ DOMAIN g.body[f] = 1 .. Len(g.body[f])
           /\ g.body[f] \in Seq(Range(g.body[f]))
           /\ \A k \in 1 .. Len(g.body[f]) :
                LET s == g.body[f][k]
                IN  /\ s.kind \in {"group", "unseen", "use", "route", "call"}
                    /\ s.kind = "call" =>
                         /\ s.callee \in Funcs
                         /\ s.args \in Seq(Range(s.args)) /\ Len(s.args) = Len(g.params[s.callee])
<1>1. g.body[f] \in Seq(Range(g.body[f]))
  BY ProgramsAssumption
<1>2. Len(g.body[f]) \in Nat /\ DOMAIN g.body[f] = 1 .. Len(g.body[f])
  BY <1>1, LenProperties
<1>3. \A k \in 1 .. Len(g.body[f]) : g.body[f][k] \in Range(g.body[f])
  BY <1>1, <1>2, ElementOfSeq
<1>4. \A s \in Range(g.body[f]) :
        /\ s.kind \in {"group", "unseen", "use", "route", "call"}
        /\ s.kind = "call" =>
             /\ s.callee \in Funcs
             /\ s.args \in Seq(Range(s.args)) /\ Len(s.args) = Len(g.params[s.callee])
  BY ProgramsAssumption
<1> QED
  BY <1>1, <1>2, <1>3, <1>4, Zenon

(* A helper has parameters, and calls of it have an argument for each.     *)
LEMMA HelperIs ==
    ASSUME NEW g \in Programs, NEW f \in Funcs, GroupParam(g, f) # None
    PROVE  /\ DOMAIN g.params[f] = 1 .. Len(g.params[f]) /\ 1 \in DOMAIN g.params[f]
           /\ Len(g.params[f]) \in Nat \ {0}
           /\ Head(g.params[f]) = g.params[f][1]
           /\ \A i, j \in DOMAIN g.params[f] :
                g.params[f][i] = g.params[f][j] => i = j \/ g.params[f][i] = None
           /\ \A args : args \in Seq(Range(args)) /\ Len(args) = Len(g.params[f]) =>
                args # <<>> /\ Head(args) = args[1]
<1> DEFINE ps == g.params[f]
<1>1. ps \in Seq(Range(ps))
  BY ProgramsAssumption
<1>2. \A i, j \in DOMAIN ps : ps[i] = ps[j] => i = j \/ ps[i] = None
  BY ProgramsAssumption
<1>3. DOMAIN ps # {}
  BY DEF GroupParam
<1> HIDE DEF ps
<1>4. DOMAIN ps = 1 .. Len(ps) /\ Len(ps) \in Nat
  BY <1>1, LenProperties
<1>5. Len(ps) # 0 /\ 1 \in DOMAIN ps
  BY <1>3, <1>4
<1>6. ps # <<>> /\ Head(ps) = ps[1]
  BY <1>1, <1>5, HeadTailProperties, EmptySeq
<1>7. ASSUME NEW args, args \in Seq(Range(args)), Len(args) = Len(ps)
      PROVE  args # <<>> /\ Head(args) = args[1]
  <2>1. args # <<>>
    BY <1>5, <1>7, EmptySeq
  <2> QED
    BY <1>7, <2>1, HeadTailProperties
<1> QED
  BY <1>2, <1>4, <1>5, <1>6, <1>7 DEF ps

(* The groups of a context unfold, statement by statement.                 *)
LEMMA EnvsAre ==
    ASSUME NEW g \in Programs, NEW c, c.fn \in Funcs
    PROVE  Envs(g, c) = [k \in 1 .. Len(g.body[c.fn]) + 1 |->
             IF k = 1 THEN c.env ELSE After(g, g.body[c.fn][k - 1], Envs(g, c)[k - 1])]
<1> DEFINE L == Len(g.body[c.fn])
           B == g.body[c.fn]
           Is(h, n) == h = [k \in 1 .. n |-> IF k = 1 THEN c.env ELSE After(g, B[k - 1], h[k - 1])]
           S == {n \in Nat : \E h : Is(h, n + 1)}
<1>0. L \in Nat
  BY BodyIsSeq
<1>1. 0 \in S
  <2> DEFINE h == [k \in 1 .. 1 |-> c.env]
  <2>1. h = [k \in 1 .. 1 |-> IF k = 1 THEN c.env ELSE After(g, B[k - 1], h[k - 1])]
    OBVIOUS
  <2>2. Is(h, 1) /\ 1 = 0 + 1
    BY <2>1
  <2> HIDE DEF h, Is
  <2>3. \E u : Is(u, 0 + 1)
    BY <2>2, Zenon
  <2> QED
    BY <2>3
<1>2. \A n \in Nat : n \in S => n + 1 \in S
  <2> TAKE n \in Nat
  <2> HAVE n \in S
  <2>1. PICK h : Is(h, n + 1)
    OBVIOUS
  <2> DEFINE h2 == [k \in 1 .. n + 2 |-> IF k = n + 2 THEN After(g, B[n + 1], h[n + 1]) ELSE h[k]]
  <2> HIDE DEF h2
  <2>2. \A k \in 1 .. n + 1 : h2[k] = h[k]
    BY DEF h2
  <2>3. \A k \in 1 .. n + 2 : h2[k] = IF k = 1 THEN c.env ELSE After(g, B[k - 1], h2[k - 1])
    <3> TAKE k \in 1 .. n + 2
    <3>1. CASE k = n + 2
      <4>1. h2[k] = After(g, B[n + 1], h[n + 1])
        BY <3>1 DEF h2
      <4>2. k - 1 = n + 1 /\ k # 1
        BY <3>1
      <4>3. h2[k - 1] = h[n + 1]
        BY <4>2, <2>2
      <4> QED
        BY <4>1, <4>2, <4>3
    <3>2. CASE k # n + 2
      <4>1. k \in 1 .. n + 1 /\ (k # 1 => k - 1 \in 1 .. n + 1)
        BY <3>2
      <4>2. h[k] = IF k = 1 THEN c.env ELSE After(g, B[k - 1], h[k - 1])
        BY <4>1, <2>1
      <4> QED
        BY <4>1, <4>2, <2>2
    <3> QED
      BY <3>1, <3>2
  <2>4. DOMAIN h2 = 1 .. n + 2 /\ h2 = [k \in DOMAIN h2 |-> h2[k]]
    BY DEF h2
  <2>5. Is(h2, n + 2)
    BY <2>3, <2>4, Zenon
  <2>6. n + 2 = (n + 1) + 1
    OBVIOUS
  <2> QED
    BY <2>5, <2>6
<1>3. Nat \subseteq S
  BY <1>1, <1>2, NatInduct
<1>4. \E h : Is(h, L + 1)
  BY <1>0, <1>3
<1>5. Envs(g, c) = CHOOSE h : Is(h, L + 1)
  BY DEF Envs
<1> QED
  BY <1>4, <1>5

LEMMA EnvAtIs ==
    ASSUME NEW g \in Programs, NEW c, c.fn \in Funcs
    PROVE  /\ EnvAt(g, c, 1) = c.env
           /\ \A k \in 1 .. Len(g.body[c.fn]) :
                EnvAt(g, c, k + 1) = After(g, g.body[c.fn][k], EnvAt(g, c, k))
<1> DEFINE L == Len(g.body[c.fn])
           E == Envs(g, c)
<1>0. L \in Nat
  BY BodyIsSeq
<1>1. E = [k \in 1 .. L + 1 |-> IF k = 1 THEN c.env ELSE After(g, g.body[c.fn][k - 1], E[k - 1])]
  BY EnvsAre
<1> HIDE DEF E, L
<1>2. E[1] = c.env
  BY <1>0, <1>1
<1>3. ASSUME NEW k \in 1 .. L PROVE E[k + 1] = After(g, g.body[c.fn][k], E[k])
  <2>1. k + 1 \in 1 .. L + 1 /\ k + 1 # 1 /\ (k + 1) - 1 = k
    BY <1>0
  <2>2. E[k + 1] = After(g, g.body[c.fn][(k + 1) - 1], E[(k + 1) - 1])
    BY <1>1, <2>1
  <2> QED
    BY <2>1, <2>2
<1> QED
  BY <1>2, <1>3 DEF EnvAt, E, L

Outer(g) == {[fn |-> f, env |-> EmptyMap] : f \in {f \in Funcs : GroupParam(g, f) = None}}

Deeper(g, C) == C \cup UNION {CalledFrom(g, c) : c \in C}

(* So do the contexts, call by call.                                       *)
LEMMA UpToIs ==
    ASSUME NEW g
    PROVE  UpTo(g) = [n \in 0 .. Cardinality(Funcs) |->
             IF n = 0 THEN Outer(g) ELSE Deeper(g, UpTo(g)[n - 1])]
<1> DEFINE N == Cardinality(Funcs)
           Is(h, n) == h = [k \in 0 .. n |-> IF k = 0 THEN Outer(g) ELSE Deeper(g, h[k - 1])]
           S == {n \in Nat : \E h : Is(h, n)}
<1>0. N \in Nat
  BY ProgramsAssumption, FS_CardinalityType
<1>1. 0 \in S
  <2> DEFINE h == [k \in 0 .. 0 |-> Outer(g)]
  <2>1. h = [k \in 0 .. 0 |-> IF k = 0 THEN Outer(g) ELSE Deeper(g, h[k - 1])]
    OBVIOUS
  <2>2. Is(h, 0)
    BY <2>1
  <2> HIDE DEF h, Is
  <2>3. \E u : Is(u, 0)
    BY <2>2, Zenon
  <2> QED
    BY <2>3
<1>2. \A n \in Nat : n \in S => n + 1 \in S
  <2> TAKE n \in Nat
  <2> HAVE n \in S
  <2>1. PICK h : Is(h, n)
    OBVIOUS
  <2> DEFINE h2 == [k \in 0 .. n + 1 |-> IF k = n + 1 THEN Deeper(g, h[n]) ELSE h[k]]
  <2> HIDE DEF h2
  <2>2. \A k \in 0 .. n : h2[k] = h[k]
    BY DEF h2
  <2>3. \A k \in 0 .. n + 1 : h2[k] = IF k = 0 THEN Outer(g) ELSE Deeper(g, h2[k - 1])
    <3> TAKE k \in 0 .. n + 1
    <3>1. CASE k = n + 1
      <4>1. h2[k] = Deeper(g, h[n])
        BY <3>1 DEF h2
      <4>2. k - 1 = n /\ k # 0
        BY <3>1
      <4>3. h2[k - 1] = h[n]
        BY <4>2, <2>2
      <4> QED
        BY <4>1, <4>2, <4>3
    <3>2. CASE k # n + 1
      <4>1. k \in 0 .. n /\ (k # 0 => k - 1 \in 0 .. n)
        BY <3>2
      <4>2. h[k] = IF k = 0 THEN Outer(g) ELSE Deeper(g, h[k - 1])
        BY <4>1, <2>1
      <4> QED
        BY <4>1, <4>2, <2>2
    <3> QED
      BY <3>1, <3>2
  <2>4. DOMAIN h2 = 0 .. n + 1 /\ h2 = [k \in DOMAIN h2 |-> h2[k]]
    BY DEF h2
  <2>5. Is(h2, n + 1)
    BY <2>3, <2>4, Zenon
  <2> QED
    BY <2>5
<1>3. Nat \subseteq S
  BY <1>1, <1>2, NatInduct
<1>4. \E h : Is(h, N)
  BY <1>0, <1>3
<1>5. UpTo(g) = CHOOSE h : Is(h, N)
  BY DEF UpTo, Outer, Deeper
<1> QED
  BY <1>4, <1>5

LEMMA UpToSteps ==
    ASSUME NEW g
    PROVE  /\ UpTo(g)[0] = Outer(g)
           /\ \A n \in 0 .. Cardinality(Funcs) - 1 : UpTo(g)[n + 1] = Deeper(g, UpTo(g)[n])
<1> DEFINE N == Cardinality(Funcs)
           U == UpTo(g)
<1>0. N \in Nat
  BY ProgramsAssumption, FS_CardinalityType
<1>1. U = [n \in 0 .. N |-> IF n = 0 THEN Outer(g) ELSE Deeper(g, U[n - 1])]
  BY UpToIs
<1> HIDE DEF U, N
<1>2. U[0] = Outer(g)
  BY <1>0, <1>1
<1>3. ASSUME NEW n \in 0 .. N - 1 PROVE U[n + 1] = Deeper(g, U[n])
  <2>1. n + 1 \in 0 .. N /\ n + 1 # 0 /\ (n + 1) - 1 = n
    BY <1>0
  <2>2. U[n + 1] = Deeper(g, U[(n + 1) - 1])
    BY <1>1, <2>1
  <2> QED
    BY <2>1, <2>2
<1> QED
  BY <1>2, <1>3 DEF U, N

IsContext(c, g) == c.fn \in Funcs

(* A context has a function.                                               *)
LEMMA DeeperIsContext ==
    ASSUME NEW g \in Programs, NEW C, \A c \in C : IsContext(c, g)
    PROVE  \A c \in Deeper(g, C) : IsContext(c, g)
<1> SUFFICES ASSUME NEW c \in C, NEW d \in CalledFrom(g, c) PROVE IsContext(d, g)
  BY DEF Deeper
<1>1. PICK k \in StmtsOf(g, c, "call") : d = ContextOf(g, g.body[c.fn][k], EnvAt(g, c, k))
  BY DEF CalledFrom
<1>2. c.fn \in Funcs
  BY DEF IsContext
<1>3. k \in 1 .. Len(g.body[c.fn]) /\ g.body[c.fn][k].kind = "call"
  BY <1>1, <1>2, BodyIsSeq DEF StmtsOf
<1>4. g.body[c.fn][k].callee \in Funcs
  BY <1>2, <1>3, BodyIsSeq
<1>5. d.fn = g.body[c.fn][k].callee
  BY <1>1 DEF ContextOf
<1> QED
  BY <1>4, <1>5 DEF IsContext

(* What holds of the outermost contexts and is kept by calls holds of all. *)
LEMMA UpToInduct ==
    ASSUME NEW g, NEW S, Outer(g) \subseteq S,
           \A n \in 0 .. Cardinality(Funcs) - 1 :
             UpTo(g)[n] \subseteq S => Deeper(g, UpTo(g)[n]) \subseteq S
    PROVE  /\ \A n \in 0 .. Cardinality(Funcs) : UpTo(g)[n] \subseteq S
           /\ Contexts(g) \subseteq S
<1> DEFINE N == Cardinality(Funcs)
           T == {n \in Nat : n <= N => UpTo(g)[n] \subseteq S}
<1>0. N \in Nat
  BY ProgramsAssumption, FS_CardinalityType
<1>1. 0 \in T
  BY UpToSteps
<1>2. \A n \in Nat : n \in T => n + 1 \in T
  <2> TAKE n \in Nat
  <2> HAVE n \in T
  <2>1. CASE n + 1 <= N
    <3>1. n \in 0 .. N - 1
      BY <1>0, <2>1
    <3>2. UpTo(g)[n] \subseteq S
      BY <1>0, <3>1
    <3> QED
      BY <3>1, <3>2, UpToSteps
  <2> QED
    BY <1>0, <2>1
<1>3. Nat \subseteq T
  BY <1>1, <1>2, NatInduct
<1> QED
  BY <1>0, <1>3 DEF Contexts

LEMMA UpToGrows ==
    ASSUME NEW g
    PROVE  \A n \in 0 .. Cardinality(Funcs) : UpTo(g)[n] \subseteq Contexts(g)
<1> DEFINE N == Cardinality(Funcs)
           T == {j \in Nat : \A n \in 0 .. N : n + j <= N => UpTo(g)[n] \subseteq UpTo(g)[n + j]}
<1>0. N \in Nat
  BY ProgramsAssumption, FS_CardinalityType
<1>1. 0 \in T
  OBVIOUS
<1>2. \A j \in Nat : j \in T => j + 1 \in T
  <2> TAKE j \in Nat
  <2> HAVE j \in T
  <2> SUFFICES ASSUME NEW n \in 0 .. N, n + (j + 1) <= N
               PROVE  UpTo(g)[n] \subseteq UpTo(g)[n + (j + 1)]
    OBVIOUS
  <2>1. n + j \in 0 .. N - 1 /\ n + (j + 1) = (n + j) + 1
    BY <1>0
  <2>2. UpTo(g)[n] \subseteq UpTo(g)[n + j]
    BY <1>0, <2>1
  <2>3. UpTo(g)[(n + j) + 1] = Deeper(g, UpTo(g)[n + j])
    BY <2>1, UpToSteps
  <2> QED
    BY <2>1, <2>2, <2>3 DEF Deeper
<1>3. Nat \subseteq T
  BY <1>1, <1>2, NatInduct
<1>4. ASSUME NEW n \in 0 .. N PROVE UpTo(g)[n] \subseteq Contexts(g)
  <2>1. N - n \in T /\ n + (N - n) = N
    BY <1>0, <1>3
  <2> QED
    BY <1>0, <2>1 DEF Contexts
<1> QED
  BY <1>4

LEMMA ContextsAre ==
    ASSUME NEW g \in Programs
    PROVE  /\ \A n \in 0 .. Cardinality(Funcs) : \A c \in UpTo(g)[n] : IsContext(c, g)
           /\ \A c \in Contexts(g) : IsContext(c, g)
<1> DEFINE N == Cardinality(Funcs)
           S == {c \in UNION {Deeper(g, UpTo(g)[n]) : n \in 0 .. N} : IsContext(c, g)}
<1>0. N \in Nat
  BY ProgramsAssumption, FS_CardinalityType
<1>1. Outer(g) \subseteq S
  <2>1. \A c \in Outer(g) : IsContext(c, g)
    BY DEF Outer, IsContext, EmptyMap
  <2>2. Outer(g) \subseteq Deeper(g, UpTo(g)[0])
    BY UpToSteps DEF Deeper
  <2> QED
    BY <1>0, <2>1, <2>2
<1>2. ASSUME NEW n \in 0 .. N - 1, UpTo(g)[n] \subseteq S
      PROVE  Deeper(g, UpTo(g)[n]) \subseteq S
  <2>1. \A c \in Deeper(g, UpTo(g)[n]) : IsContext(c, g)
    BY <1>2, DeeperIsContext
  <2> QED
    BY <1>0, <2>1
<1>3. \A n \in 0 .. N : UpTo(g)[n] \subseteq S
  BY <1>1, <1>2, UpToInduct
<1>4. Contexts(g) \subseteq S
  BY <1>0, <1>3 DEF Contexts
<1> QED
  BY <1>3, <1>4

(* The groups that are known, statement by statement.                      *)
LEMMA KnownIs ==
    ASSUME NEW g \in Programs, NEW f \in Funcs
    PROVE  /\ Known(g, f, 1) = {GroupParam(g, f)} \ {None}
           /\ \A k \in 1 .. Len(g.body[f]) :
                LET s == g.body[f][k]
                IN  Known(g, f, k + 1) =
                      Known(g, f, k) \cup IF s.kind = "group" THEN {s.var} ELSE {}
<1> DEFINE L == Len(g.body[f])
           B == g.body[f]
           G(k) == {j \in DOMAIN B : j < k /\ B[j].kind = "group"}
           p == {GroupParam(g, f)} \ {None}
<1>0. L \in Nat /\ DOMAIN B = 1 .. L
  BY BodyIsSeq
<1>1. G(1) = {}
  BY <1>0
<1>2. ASSUME NEW k \in 1 .. L
      PROVE  G(k + 1) = G(k) \cup IF B[k].kind = "group" THEN {k} ELSE {}
  BY <1>0
<1>3. \A k : Known(g, f, k) = p \cup {B[j].var : j \in G(k)}
  BY DEF Known
<1> HIDE DEF G, p
<1>4. \A k \in 1 .. L : {B[j].var : j \in G(k + 1)} =
                          {B[j].var : j \in G(k)} \cup IF B[k].kind = "group" THEN {B[k].var} ELSE {}
  BY <1>2
<1> HIDE DEF B
<1>5. Known(g, f, 1) = p
  BY <1>1, <1>3
<1>6. \A k \in 1 .. L : Known(g, f, k + 1) =
                          Known(g, f, k) \cup IF B[k].kind = "group" THEN {B[k].var} ELSE {}
  BY <1>3, <1>4
<1> QED
  BY <1>5, <1>6 DEF B, p

(* What is known of a name is the path of its group, and what is not known *)
(* is what an outer variable holds.                                        *)
LEMMA AgreesOnAll ==
    ASSUME NEW g, Plain(g), NEW c, NEW k, NEW env, Agrees(env, g, c, k), NEW x, x \notin Hidden(g, c.fn)
    PROVE  GroupAt(g, x, EnvAt(g, c, k)).path = Lookup(env, x, OuterGroup(g, x).path)
BY DEF Agrees, GroupAt, Lookup, Has

(* So what reads right is right.                                           *)
LEMMA ReadsAsIs ==
    ASSUME NEW g, Plain(g), NEW c, NEW k, NEW env, Agrees(env, g, c, k),
           NEW e, ReadsRight(g, c.fn, k, e)
    PROVE  PrefixOfReceiver(e, env) = GroupOf(g, e, EnvAt(g, c, k)).path
<1> DEFINE x == e.name
           E == EnvAt(g, c, k)
<1>1. /\ e.is # "chain" /\ x \notin Hidden(g, c.fn)
      /\ x \in Known(g, c.fn, k) => e.is = "ident"
      /\ x \notin Known(g, c.fn, k) => OuterGroup(g, x).path = Root
  BY DEF ReadsRight
<1>2. DOMAIN env = Known(g, c.fn, k)
  BY DEF Agrees
<1>3. GroupOf(g, e, E).path = GroupAt(g, x, E).path
  BY <1>1 DEF GroupOf
<1>4. GroupAt(g, x, E).path = Lookup(env, x, OuterGroup(g, x).path)
  BY <1>1, AgreesOnAll
<1> HIDE DEF x, E
<1>5. PrefixOfReceiver(e, env) = IF e.is = "ident" THEN Lookup(env, x, Root) ELSE Root
  BY DEF PrefixOfReceiver, x
<1>6. CASE x \in DOMAIN env
  BY <1>1, <1>2, <1>4, <1>5, <1>6, <1>3 DEF Lookup, Has, E
<1>7. CASE x \notin DOMAIN env
  BY <1>1, <1>2, <1>4, <1>5, <1>7, <1>3 DEF Lookup, Has, E
<1> QED
  BY <1>6, <1>7

(* What a package of the style has at a statement.                         *)
LEMMA PlainIs ==
    ASSUME NEW g \in Programs, Plain(g), NEW f \in Funcs, NEW k \in 1 .. Len(g.body[f])
    PROVE  LET s == g.body[f][k]
           IN  /\ s.kind = "group" \/ (s.kind = "route" /\ HasSlash(s)) =>
                    ReadsRight(g, f, k, s.recv) /\ s.path.text = s.path.gin
               /\ s.kind = "call" /\ GroupParam(g, s.callee) # None =>
                    /\ GroupParam(g, s.callee) = Head(g.params[s.callee])
                    /\ ReadsRight(g, f, k, Head(s.args))
<1>1. k \in DOMAIN g.body[f]
  BY BodyIsSeq
<1> QED
  BY <1>1 DEF Plain, ReadsPath

(* A walk knows what it should at the start, after each statement and in a *)
(* helper.                                                                 *)
LEMMA AgreesAtStart ==
    ASSUME NEW g \in Programs, NEW f \in Funcs, GroupParam(g, f) = None
    PROVE  /\ [fn |-> f, env |-> EmptyMap] \in UpTo(g)[0]
           /\ Agrees(EmptyMap, g, [fn |-> f, env |-> EmptyMap], 1)
<1> DEFINE c == [fn |-> f, env |-> EmptyMap]
<1>1. c \in UpTo(g)[0]
  BY UpToSteps DEF Outer
<1>2. EnvAt(g, c, 1) = EmptyMap
  BY EnvAtIs
<1>3. Known(g, f, 1) = {} /\ DOMAIN EmptyMap = {}
  BY KnownIs DEF EmptyMap
<1> QED
  BY <1>1, <1>2, <1>3 DEF Agrees

LEMMA AgreesAfterGroup ==
    ASSUME NEW g \in Programs, NEW c, c.fn \in Funcs, NEW k \in 1 .. Len(g.body[c.fn]), NEW env,
           g.body[c.fn][k].kind = "group", Agrees(env, g, c, k)
    PROVE  Agrees(Group(g.body[c.fn][k], env), g, c, k + 1)
<1> DEFINE s == g.body[c.fn][k]
           E == EnvAt(g, c, k)
           v == With(Sub(GroupOf(g, s.recv, E), s.path), s.mids)
           w == PrefixOfReceiver(s.recv, env) \o s.path.text
<1>1. EnvAt(g, c, k + 1) = Store(E, s.var, v) /\ Group(s, env) = Store(env, s.var, w)
  BY EnvAtIs DEF After, Group
<1>2. Plain(g) => v.path = w
  <2> SUFFICES ASSUME Plain(g) PROVE v.path = w
    OBVIOUS
  <2>1. v.path = GroupOf(g, s.recv, E).path \o s.path.gin
    BY DEF With, Sub
  <2>2. ReadsRight(g, c.fn, k, s.recv) /\ s.path.text = s.path.gin
    BY PlainIs
  <2>3. PrefixOfReceiver(s.recv, env) = GroupOf(g, s.recv, E).path
    BY <2>2, ReadsAsIs
  <2> QED
    BY <2>1, <2>2, <2>3
<1>3. Known(g, c.fn, k + 1) = Known(g, c.fn, k) \cup {s.var}
  BY KnownIs
<1>4. /\ DOMAIN env = Known(g, c.fn, k)
      /\ Plain(g) => \A x : x \notin Hidden(g, c.fn) =>
           GroupAt(g, x, E).path = Lookup(env, x, OuterGroup(g, x).path)
  BY AgreesOnAll DEF Agrees
<1> HIDE DEF s, E, v, w
<1>5. DOMAIN Store(env, s.var, w) = Known(g, c.fn, k + 1)
  BY <1>3, <1>4 DEF Store
<1>6. ASSUME Plain(g), NEW x, x \notin Hidden(g, c.fn)
      PROVE  GroupAt(g, x, Store(E, s.var, v)).path = Lookup(Store(env, s.var, w), x, OuterGroup(g, x).path)
  <2>1. CASE x = s.var
    BY <1>2, <1>6, <2>1 DEF GroupAt, Store, Lookup, Has
  <2>2. CASE x # s.var
    <3>1. Lookup(Store(env, s.var, w), x, OuterGroup(g, x).path) = Lookup(env, x, OuterGroup(g, x).path)
      BY <2>2 DEF Store, Lookup, Has
    <3>2. GroupAt(g, x, Store(E, s.var, v)) = GroupAt(g, x, E)
      BY <2>2 DEF GroupAt, Store, Lookup, Has
    <3> QED
      BY <3>1, <3>2, <1>4, <1>6
  <2> QED
    BY <2>1, <2>2
<1> QED
  BY <1>1, <1>5, <1>6 DEF Agrees, s, E

LEMMA AgreesAfterOther ==
    ASSUME NEW g \in Programs, NEW c, c.fn \in Funcs, NEW k \in 1 .. Len(g.body[c.fn]), NEW env,
           g.body[c.fn][k].kind # "group", Agrees(env, g, c, k)
    PROVE  Agrees(env, g, c, k + 1)
<1> DEFINE s == g.body[c.fn][k]
           E == EnvAt(g, c, k)
           E2 == EnvAt(g, c, k + 1)
<1>1. E2 = After(g, s, E)
  BY EnvAtIs
<1>2. Known(g, c.fn, k + 1) = Known(g, c.fn, k)
  <2>1. Known(g, c.fn, k + 1) = Known(g, c.fn, k) \cup IF s.kind = "group" THEN {s.var} ELSE {}
    BY KnownIs
  <2> QED
    BY <2>1
<1>3. /\ DOMAIN env = Known(g, c.fn, k)
      /\ Plain(g) => \A x : x \notin Hidden(g, c.fn) =>
           GroupAt(g, x, E).path = Lookup(env, x, OuterGroup(g, x).path)
  BY AgreesOnAll DEF Agrees
<1>4. s.kind = "unseen" => s.var \in Hidden(g, c.fn)
  BY BodyIsSeq DEF Hidden
<1>5. s.kind # "group"
  OBVIOUS
<1> HIDE DEF s, E, E2
<1>6. ASSUME NEW x, x \notin Hidden(g, c.fn)
      PROVE  GroupAt(g, x, E2).path = GroupAt(g, x, E).path
  <2>1. CASE s.kind = "unseen"
    <3>1. x # s.var
      BY <1>4, <1>6, <2>1
    <3>2. PICK v : E2 = Store(E, s.var, v)
      BY <1>1, <2>1 DEF After
    <3> QED
      BY <3>1, <3>2 DEF GroupAt, Store, Lookup, Has
  <2>2. CASE s.kind = "use" /\ s.recv.is # "chain"
    <3> DEFINE y == s.recv.name
               v == With(GroupOf(g, s.recv, E), s.mids)
    <3>1. E2 = Store(E, y, v)
      BY <1>1, <2>2 DEF After
    <3>2. v.path = GroupAt(g, y, E).path
      BY <2>2 DEF With, GroupOf
    <3> HIDE DEF y, v
    <3> QED
      BY <3>1, <3>2 DEF GroupAt, Store, Lookup, Has
  <2>3. CASE ~ (s.kind = "unseen" \/ (s.kind = "use" /\ s.recv.is # "chain"))
    BY <1>1, <1>5, <2>3 DEF After
  <2> QED
    BY <2>1, <2>2, <2>3
<1> QED
  BY <1>2, <1>3, <1>6 DEF Agrees, E, E2

LEMMA AgreesInHelper ==
    ASSUME prog \in Programs, NEW c, c.fn \in Funcs, NEW k \in 1 .. Len(prog.body[c.fn]), NEW env,
           prog.body[c.fn][k].kind = "call", Agrees(env, prog, c, k),
           IsHelper(prog.body[c.fn][k].callee)
    PROVE  LET s == prog.body[c.fn][k]
               d == ContextOf(prog, s, EnvAt(prog, c, k))
           IN  d \in CalledFrom(prog, c) /\ d.fn = s.callee /\ Agrees(HelperEnv(s, env), prog, d, 1)
<1> DEFINE s == prog.body[c.fn][k]
           E == EnvAt(prog, c, k)
           d == ContextOf(prog, s, E)
           p == GroupParam(prog, s.callee)
           ps == prog.params[s.callee]
           At(x) == CHOOSE i \in DOMAIN ps : ps[i] = x
           first == Head(s.args)
<1>1. /\ s.callee \in Funcs /\ s.args \in Seq(Range(s.args)) /\ Len(s.args) = Len(ps)
      /\ p # None
  BY BodyIsSeq DEF IsHelper
<1>2. d \in CalledFrom(prog, c) /\ d.fn = s.callee
  BY BodyIsSeq DEF CalledFrom, StmtsOf, ContextOf
<1>3. d.env = [x \in Range(ps) \ {None} |-> GroupOf(prog, s.args[At(x)], E)]
  BY DEF ContextOf
<1>4. EnvAt(prog, d, 1) = d.env /\ Known(prog, d.fn, 1) = {p}
  <2>1. EnvAt(prog, d, 1) = d.env
    BY <1>1, <1>2, EnvAtIs
  <2>2. Known(prog, s.callee, 1) = {p} \ {None}
    BY <1>1, KnownIs
  <2> QED
    BY <1>1, <1>2, <2>1, <2>2
<1>5. HelperEnv(s, env) = [x \in {p} |-> PrefixOfReceiver(first, env)]
  BY DEF HelperEnv
<1>6. /\ 1 \in DOMAIN ps /\ Head(ps) = ps[1] /\ first = s.args[1]
      /\ \A i, j \in DOMAIN ps : ps[i] = ps[j] => i = j \/ ps[i] = None
  <2>1. \A args : args \in Seq(Range(args)) /\ Len(args) = Len(ps) =>
                   args # <<>> /\ Head(args) = args[1]
    BY <1>1, HelperIs
  <2>2. first = s.args[1]
    <3> HIDE DEF s, ps
    <3> QED
      BY <1>1, <2>1
  <2>3. /\ 1 \in DOMAIN ps /\ Head(ps) = ps[1]
        /\ \A i, j \in DOMAIN ps : ps[i] = ps[j] => i = j \/ ps[i] = None
    BY <1>1, HelperIs
  <2> QED
    BY <2>2, <2>3
<1>7. Range(ps) \ {None, p} \subseteq Hidden(prog, d.fn)
  BY <1>2 DEF Hidden
<1>8. Plain(prog) => /\ p \in Range(ps)
                     /\ GroupOf(prog, s.args[At(p)], E).path = PrefixOfReceiver(first, env)
  <2> SUFFICES ASSUME Plain(prog)
               PROVE  /\ p \in Range(ps)
                      /\ GroupOf(prog, s.args[At(p)], E).path = PrefixOfReceiver(first, env)
    OBVIOUS
  <2>1. p = Head(ps) /\ ReadsRight(prog, c.fn, k, first)
    BY <1>1, PlainIs
  <2>2. p = ps[1] /\ p \in Range(ps)
    BY <1>6, <2>1 DEF Range
  <2>3. At(p) = 1
    <3>1. \A i \in DOMAIN ps : ps[i] = p => i = 1
      BY <1>1, <1>6, <2>2
    <3>2. \E i \in DOMAIN ps : ps[i] = p
      BY <1>6, <2>2
    <3> HIDE DEF ps, p
    <3> QED
      BY <3>1, <3>2
  <2>4. PrefixOfReceiver(first, env) = GroupOf(prog, first, E).path
    BY <2>1, ReadsAsIs
  <2> QED
    BY <1>6, <2>2, <2>3, <2>4
<1> HIDE DEF s, E, d, p, ps, At, first
<1>9. Agrees(HelperEnv(s, env), prog, d, 1)
  <2>1. DOMAIN HelperEnv(s, env) = {p} /\ DOMAIN d.env = Range(ps) \ {None}
    BY <1>3, <1>5
  <2>2. ASSUME Plain(prog), NEW x \in ({p} \cup DOMAIN d.env) \ Hidden(prog, d.fn)
        PROVE  GroupAt(prog, x, d.env).path = Lookup(HelperEnv(s, env), x, OuterGroup(prog, x).path)
    <3>1. x = p
      BY <1>7, <2>1, <2>2
    <3>2. p \in DOMAIN d.env
      BY <1>1, <1>8, <2>1, <2>2
    <3>3. d.env[p] = GroupOf(prog, s.args[At(p)], E)
      BY <1>3, <2>1, <3>2
    <3>4. GroupAt(prog, p, d.env) = d.env[p]
      BY <3>2 DEF GroupAt, Lookup, Has
    <3>5. Lookup(HelperEnv(s, env), p, OuterGroup(prog, p).path) = PrefixOfReceiver(first, env)
      BY <1>5 DEF Lookup, Has
    <3> QED
      BY <1>8, <2>2, <3>1, <3>3, <3>4, <3>5
  <2> QED
    BY <1>4, <2>1, <2>2 DEF Agrees
<1> QED
  BY <1>2, <1>9 DEF s, E, d

(* Groups without middleware.                                              *)
BareEnv(env) == \A x \in DOMAIN env : env[x].mids = {}

LEMMA NoMiddleware == ToSet(<<>>) = {}
BY DEF ToSet

LEMMA BareGroup ==
    ASSUME NEW g, GroupsBare(g), NEW env, BareEnv(env), NEW e, BareChain(e)
    PROVE  GroupOf(g, e, env).mids = {}
<1>1. \A x : GroupAt(g, x, env).mids = {}
  BY DEF BareEnv, GroupsBare, GroupAt, OuterGroup, Lookup, Has, Bare
<1> DEFINE x == GroupAt(g, e.name, env)
<1>2. CASE e.is = "chain"
  <2>1. GroupOf(g, e, env).mids = x.mids \cup ToSet(e.mids)
    BY <1>2 DEF GroupOf, With, Sub
  <2>2. ToSet(e.mids) = {}
    BY <1>2, NoMiddleware DEF BareChain
  <2> QED
    BY <1>1, <2>1, <2>2
<1>3. CASE e.is # "chain"
  BY <1>1, <1>3 DEF GroupOf
<1> QED
  BY <1>2, <1>3

(* What such a package has at a statement.                                 *)
LEMMA BareIs ==
    ASSUME NEW g \in Programs, GroupsBare(g), NEW f \in Funcs, NEW k \in 1 .. Len(g.body[f])
    PROVE  LET s == g.body[f][k]
           IN  /\ s.kind \in {"group", "unseen", "use"} => ToSet(s.mids) = {}
               /\ s.kind = "call" => \A i \in DOMAIN s.args : BareChain(s.args[i])
               /\ s.kind # "call" => BareChain(s.recv)
<1>1. k \in DOMAIN g.body[f]
  BY BodyIsSeq
<1> QED
  BY <1>1, NoMiddleware DEF GroupsBare

LEMMA BareEnvs ==
    ASSUME NEW g \in Programs, GroupsBare(g), NEW c, c.fn \in Funcs, BareEnv(c.env)
    PROVE  \A k \in 1 .. Len(g.body[c.fn]) + 1 : BareEnv(EnvAt(g, c, k))
<1> DEFINE L == Len(g.body[c.fn])
           S == {n \in Nat : n <= L => BareEnv(EnvAt(g, c, n + 1))}
<1>0. L \in Nat
  BY BodyIsSeq
<1>1. 0 \in S
  BY EnvAtIs
<1>2. ASSUME NEW n \in Nat, n \in S, n + 1 <= L PROVE BareEnv(EnvAt(g, c, (n + 1) + 1))
  <2> DEFINE s == g.body[c.fn][n + 1]
             E == EnvAt(g, c, n + 1)
  <2>1. n + 1 \in 1 .. L /\ BareEnv(E)
    BY <1>0, <1>2
  <2>2. EnvAt(g, c, (n + 1) + 1) = After(g, s, E)
    BY <2>1, EnvAtIs
  <2>3. s.kind \in {"group", "unseen", "use"} => ToSet(s.mids) = {}
    BY <2>1, BareIs
  <2>4. s.kind \in {"group", "unseen", "use"} => GroupOf(g, s.recv, E).mids = {}
    BY <2>1, BareIs, BareGroup
  <2> HIDE DEF s, E
  <2>5. CASE s.kind \in {"group", "unseen"}
    <3> DEFINE v == With(Sub(GroupOf(g, s.recv, E), s.path), s.mids)
    <3>1. v.mids = {}
      BY <2>3, <2>4, <2>5 DEF With, Sub
    <3>2. After(g, s, E) = Store(E, s.var, v)
      BY <2>5 DEF After
    <3> QED
      BY <2>1, <2>2, <3>1, <3>2 DEF BareEnv, Store
  <2>6. CASE s.kind = "use" /\ s.recv.is # "chain"
    <3> DEFINE v == With(GroupOf(g, s.recv, E), s.mids)
    <3>1. v.mids = {}
      BY <2>3, <2>4, <2>6 DEF With
    <3>2. After(g, s, E) = Store(E, s.recv.name, v)
      BY <2>6 DEF After
    <3> QED
      BY <2>1, <2>2, <3>1, <3>2 DEF BareEnv, Store
  <2>7. CASE ~ (s.kind \in {"group", "unseen"} \/ (s.kind = "use" /\ s.recv.is # "chain"))
    BY <2>1, <2>2, <2>7 DEF After
  <2> QED
    BY <2>5, <2>6, <2>7
<1>3. Nat \subseteq S
  <2>1. \A n \in Nat : n \in S => n + 1 \in S
    BY <1>2
  <2> HIDE DEF S
  <2> QED
    BY <1>1, <2>1, NatInduct
<1>4. ASSUME NEW k \in 1 .. L + 1 PROVE BareEnv(EnvAt(g, c, k))
  <2>1. k - 1 \in Nat /\ k - 1 <= L /\ (k - 1) + 1 = k
    BY <1>0
  <2>2. k - 1 \in S
    BY <1>3, <2>1
  <2>3. BareEnv(EnvAt(g, c, (k - 1) + 1))
    BY <2>1, <2>2
  <2> QED
    BY <2>1, <2>3
<1> QED
  BY <1>4

(* Where no group carries middleware, none has any.                        *)
LEMMA BareContexts ==
    ASSUME NEW g \in Programs, GroupsBare(g), NEW c \in Contexts(g),
           NEW k \in 1 .. Len(g.body[c.fn]), g.body[c.fn][k].kind # "call"
    PROVE  GroupOf(g, g.body[c.fn][k].recv, EnvAt(g, c, k)).mids = {}
<1> DEFINE N == Cardinality(Funcs)
           S == {d \in UNION {Deeper(g, UpTo(g)[n]) : n \in 0 .. N} : BareEnv(d.env)}
<1>0. N \in Nat
  BY ProgramsAssumption, FS_CardinalityType
<1>1. Outer(g) \subseteq S
  <2>1. \A d \in Outer(g) : BareEnv(d.env)
    BY DEF Outer, BareEnv, EmptyMap
  <2>2. Outer(g) \subseteq Deeper(g, UpTo(g)[0])
    BY UpToSteps DEF Deeper
  <2> QED
    BY <1>0, <2>1, <2>2
<1>2. ASSUME NEW n \in 0 .. N - 1, UpTo(g)[n] \subseteq S
      PROVE  Deeper(g, UpTo(g)[n]) \subseteq S
  <2>1. ASSUME NEW b \in UpTo(g)[n], NEW d \in CalledFrom(g, b) PROVE BareEnv(d.env)
    <3>1. b.fn \in Funcs /\ BareEnv(b.env)
      BY <1>0, <1>2, ContextsAre DEF IsContext
    <3>2. PICK j \in StmtsOf(g, b, "call") : d = ContextOf(g, g.body[b.fn][j], EnvAt(g, b, j))
      BY <2>1 DEF CalledFrom
    <3> DEFINE s == g.body[b.fn][j]
               ps == g.params[s.callee]
               At(x) == CHOOSE i \in DOMAIN ps : ps[i] = x
               E == EnvAt(g, b, j)
    <3>3. /\ j \in 1 .. Len(g.body[b.fn]) /\ j \in 1 .. Len(g.body[b.fn]) + 1 /\ s.kind = "call"
          /\ s.callee \in Funcs /\ s.args \in Seq(Range(s.args)) /\ Len(s.args) = Len(ps)
      <4>1. j \in DOMAIN g.body[b.fn] /\ s.kind = "call"
        BY <3>2 DEF StmtsOf
      <4>2. /\ Len(g.body[b.fn]) \in Nat
            /\ j \in 1 .. Len(g.body[b.fn]) /\ j \in 1 .. Len(g.body[b.fn]) + 1
        BY <3>1, <4>1, BodyIsSeq
      <4> QED
        BY <3>1, <4>1, <4>2, BodyIsSeq
    <3>4. BareEnv(E)
      BY <3>1, <3>3, BareEnvs
    <3>5. DOMAIN s.args = DOMAIN ps
      <4>1. ps \in Seq(Range(ps))
        BY <3>3, ProgramsAssumption
      <4> HIDE DEF ps, s
      <4> QED
        BY <3>3, <4>1, LenProperties
    <3>6. ASSUME NEW x \in Range(ps) PROVE GroupOf(g, s.args[At(x)], E).mids = {}
      <4>1. \E i \in DOMAIN ps : ps[i] = x
        BY <3>6 DEF Range
      <4>2. At(x) \in DOMAIN s.args
        BY <3>5, <4>1
      <4>3. BareChain(s.args[At(x)])
        BY <3>1, <3>3, <4>2, BareIs
      <4> QED
        BY <3>4, <4>3, BareGroup
    <3>7. d.env = [x \in Range(ps) \ {None} |-> GroupOf(g, s.args[At(x)], E)]
      BY <3>2 DEF ContextOf
    <3> HIDE DEF ps, s, At, E
    <3> QED
      BY <3>6, <3>7 DEF BareEnv
  <2> QED
    BY <1>0, <1>2, <2>1 DEF Deeper
<1>3. c \in S
  BY <1>1, <1>2, UpToInduct
<1>4. c.fn \in Funcs /\ k \in 1 .. Len(g.body[c.fn]) + 1
  BY ContextsAre, BodyIsSeq DEF IsContext
<1>5. BareEnv(EnvAt(g, c, k))
  BY <1>3, <1>4, BareEnvs
<1> QED
  BY <1>4, <1>5, BareIs, BareGroup

(* What was handled stays so.                                              *)
LEMMA HandledGrows ==
    ASSUME NEW g, NEW rs, NEW seen, NEW rs2, NEW seen2, rs \subseteq rs2, seen \subseteq seen2
    PROVE  /\ \A c, k : Handled(g, c, k, rs, seen) => Handled(g, c, k, rs2, seen2)
           /\ \A c, k : HandledTo(g, c, k, rs, seen) => HandledTo(g, c, k, rs2, seen2)
           /\ \A f, n : Walks(f, n, g, rs, seen) => Walks(f, n, g, rs2, seen2)
           /\ \A f : HasWalked(f, g, rs, seen) => HasWalked(f, g, rs2, seen2)
<1>1. \A c, k : Handled(g, c, k, rs, seen) => Handled(g, c, k, rs2, seen2)
  BY DEF Handled
<1>2. \A c, k : HandledTo(g, c, k, rs, seen) => HandledTo(g, c, k, rs2, seen2)
  BY <1>1 DEF HandledTo
<1>3. \A f, n : Walks(f, n, g, rs, seen) => Walks(f, n, g, rs2, seen2)
  BY <1>2 DEF Walks
<1>4. \A f : HasWalked(f, g, rs, seen) => HasWalked(f, g, rs2, seen2)
  BY <1>2 DEF HasWalked
<1> QED
  BY <1>1, <1>2, <1>3, <1>4

(* A frame that has walked a statement walks the same context further.     *)
LEMMA WalksOn ==
    ASSUME NEW g \in Programs, NEW c, c.fn \in Funcs, NEW n, c \in UpTo(g)[n],
           NEW k \in 1 .. Len(g.body[c.fn]), NEW env, NEW rs, NEW seen,
           Agrees(env, g, c, k + 1), HandledTo(g, c, k, rs, seen), Handled(g, c, k, rs, seen)
    PROVE  Walks(Frame(c.fn, k + 1, env), n, g, rs, seen)
<1> DEFINE f == Frame(c.fn, k + 1, env)
<1>1. f.fn = c.fn /\ f.pc = k + 1 /\ f.env = env
  BY DEF Frame
<1>2. HandledTo(g, c, k + 1, rs, seen)
  BY DEF HandledTo
<1>3. k + 1 \in 1 .. Len(g.body[c.fn]) + 1
  BY BodyIsSeq
<1> HIDE DEF f
<1>4. /\ f.fn \in Funcs /\ f.pc \in 1 .. Len(g.body[f.fn]) + 1
      /\ c.fn = f.fn /\ Agrees(f.env, g, c, f.pc) /\ HandledTo(g, c, f.pc, rs, seen)
  BY <1>1, <1>2, <1>3
<1>5. Walks(f, n, g, rs, seen)
  BY <1>4 DEF Walks
<1> QED
  BY <1>5 DEF f

(* The frames of a stack.                                                  *)
Stacked(st, g, rs, seen) ==
    /\ st \in Seq(Range(st))
    /\ \A i \in DOMAIN st : Walks(st[i], Len(st) - i, g, rs, seen)

LEMMA StackIs ==
    ASSUME NEW st, st \in Seq(Range(st))
    PROVE  /\ Len(st) \in Nat /\ DOMAIN st = 1 .. Len(st)
           /\ st # <<>> => /\ Len(st) # 0 /\ 1 \in DOMAIN st /\ Head(st) = st[1]
                           /\ Tail(st) \in Seq(Range(Tail(st)))
                           /\ Len(Tail(st)) = Len(st) - 1
                           /\ \A i \in 1 .. Len(st) - 1 : Tail(st)[i] = st[i + 1]
<1>1. Len(st) \in Nat /\ DOMAIN st = 1 .. Len(st)
  BY LenProperties
<1>2. ASSUME st # <<>>
      PROVE  /\ Len(st) # 0 /\ 1 \in DOMAIN st /\ Head(st) = st[1]
             /\ Tail(st) \in Seq(Range(Tail(st))) /\ Len(Tail(st)) = Len(st) - 1
             /\ \A i \in 1 .. Len(st) - 1 : Tail(st)[i] = st[i + 1]
  <2>1. Len(st) \in Nat \ {0}
    BY <1>2, EmptySeq
  <2>2. Tail(st) \in Seq(Range(st)) /\ Len(Tail(st)) = Len(st) - 1
        /\ \A i \in 1 .. Len(st) - 1 : Tail(st)[i] = st[i + 1]
    BY <1>2, HeadTailProperties
  <2>3. Tail(st) \in Seq(Range(Tail(st)))
    BY <2>2, SeqOfRange
  <2> QED
    BY <1>1, <2>1, <2>2, <2>3
<1> QED
  BY <1>1, <1>2

LEMMA ConsIs ==
    ASSUME NEW x, NEW t, t \in Seq(Range(t))
    PROVE  LET u == <<x>> \o t
           IN  /\ u \in Seq(Range(u)) /\ Len(u) = Len(t) + 1 /\ u # <<>>
               /\ DOMAIN u = 1 .. Len(t) + 1
               /\ u[1] = x /\ \A i \in 1 .. Len(t) : u[i + 1] = t[i]
<1> DEFINE T == Range(t) \cup {x}
           u == <<x>> \o t
<1>1. t \in Seq(T) /\ <<x>> \in Seq(T) /\ Len(<<x>>) = 1 /\ <<x>>[1] = x
  BY SeqMonotonic
<1>2. u \in Seq(T) /\ Len(u) = 1 + Len(t)
      /\ \A i \in 1 .. 1 + Len(t) : u[i] = IF i <= 1 THEN <<x>>[i] ELSE t[i - 1]
  BY <1>1, ConcatProperties
<1>3. Len(t) \in Nat
  BY StackIs
<1>4. u \in Seq(Range(u)) /\ DOMAIN u = 1 .. Len(u)
  BY <1>2, SeqOfRange, LenProperties
<1> HIDE DEF u, T
<1>5. u[1] = x
  BY <1>1, <1>2, <1>3
<1>6. \A i \in 1 .. Len(t) : u[i + 1] = t[i]
  BY <1>2, <1>3
<1>7. u # <<>>
  BY <1>2, <1>3
<1> QED
  BY <1>2, <1>3, <1>4, <1>5, <1>6, <1>7 DEF u

(* The top frame goes on, one is pushed, one is popped.                    *)
LEMMA StackAdvances ==
    ASSUME NEW st, NEW g, NEW rs, NEW seen, NEW rs2, NEW seen2, NEW f,
           Stacked(st, g, rs, seen), st # <<>>, rs \subseteq rs2, seen \subseteq seen2,
           f.fn = st[1].fn, Walks(f, Len(st) - 1, g, rs2, seen2)
    PROVE  LET st2 == <<f>> \o Tail(st)
           IN  /\ Stacked(st2, g, rs2, seen2) /\ Len(st2) = Len(st) /\ DOMAIN st2 = DOMAIN st
               /\ \A i \in DOMAIN st : st2[i].fn = st[i].fn
<1> DEFINE st2 == <<f>> \o Tail(st)
<1>1. /\ st \in Seq(Range(st)) /\ Len(st) \in Nat \ {0} /\ DOMAIN st = 1 .. Len(st)
      /\ Tail(st) \in Seq(Range(Tail(st))) /\ Len(Tail(st)) = Len(st) - 1
      /\ \A i \in 1 .. Len(st) - 1 : Tail(st)[i] = st[i + 1]
  BY StackIs DEF Stacked
<1>2. /\ st2 \in Seq(Range(st2)) /\ Len(st2) = Len(Tail(st)) + 1
      /\ DOMAIN st2 = 1 .. Len(Tail(st)) + 1
      /\ st2[1] = f /\ \A i \in 1 .. Len(Tail(st)) : st2[i + 1] = Tail(st)[i]
  <2> DEFINE t == Tail(st)
  <2>1. t \in Seq(Range(t))
    BY <1>1
  <2> HIDE DEF t
  <2>2. LET u == <<f>> \o t
        IN  /\ u \in Seq(Range(u)) /\ Len(u) = Len(t) + 1 /\ DOMAIN u = 1 .. Len(t) + 1
            /\ u[1] = f /\ \A i \in 1 .. Len(t) : u[i + 1] = t[i]
    BY <2>1, ConsIs
  <2> QED
    BY <2>2 DEF t
<1> HIDE DEF st2
<1>3. \A i \in DOMAIN st \ {1} : st2[i] = st[i]
  <2> TAKE i \in DOMAIN st \ {1}
  <2>1. i - 1 \in 1 .. Len(st) - 1 /\ (i - 1) + 1 = i
    BY <1>1
  <2>2. st2[(i - 1) + 1] = Tail(st)[i - 1] /\ Tail(st)[i - 1] = st[(i - 1) + 1]
    BY <1>1, <1>2, <2>1
  <2> QED
    BY <2>1, <2>2
<1>4. Len(st2) = Len(st) /\ DOMAIN st2 = DOMAIN st
  BY <1>1, <1>2
<1>5. \A i \in DOMAIN st \ {1} : Walks(st[i], Len(st) - i, g, rs2, seen2)
  BY HandledGrows DEF Stacked
<1>6. \A i \in DOMAIN st2 : Walks(st2[i], Len(st2) - i, g, rs2, seen2)
  <2> TAKE i \in DOMAIN st2
  <2>1. CASE i = 1
    BY <2>1, <1>2, <1>4
  <2>2. CASE i # 1
    BY <2>2, <1>3, <1>4, <1>5
  <2> QED
    BY <2>1, <2>2
<1>7. Stacked(st2, g, rs2, seen2)
  BY <1>2, <1>6 DEF Stacked
<1>8. \A i \in DOMAIN st : st2[i].fn = st[i].fn
  BY <1>2, <1>3
<1> QED
  BY <1>4, <1>7, <1>8 DEF st2

LEMMA StackGrows ==
    ASSUME NEW st, NEW g, NEW rs, NEW seen, NEW f,
           Stacked(st, g, rs, seen), Walks(f, Len(st), g, rs, seen)
    PROVE  LET st2 == <<f>> \o st
           IN  /\ Stacked(st2, g, rs, seen) /\ DOMAIN st2 = 1 .. Len(st) + 1
               /\ st2[1] = f /\ \A i \in DOMAIN st : st2[i + 1] = st[i]
<1> DEFINE st2 == <<f>> \o st
<1>1. st \in Seq(Range(st)) /\ Len(st) \in Nat /\ DOMAIN st = 1 .. Len(st)
  BY StackIs DEF Stacked
<1>2. /\ st2 \in Seq(Range(st2)) /\ Len(st2) = Len(st) + 1
      /\ DOMAIN st2 = 1 .. Len(st) + 1
      /\ st2[1] = f /\ \A i \in 1 .. Len(st) : st2[i + 1] = st[i]
  BY <1>1, ConsIs
<1> HIDE DEF st2
<1>3. ASSUME NEW i \in DOMAIN st2 PROVE Walks(st2[i], Len(st2) - i, g, rs, seen)
  <2>1. CASE i = 1
    <3>1. Len(st2) - i = Len(st)
      BY <1>1, <1>2, <2>1
    <3> QED
      BY <2>1, <1>2, <3>1
  <2>2. CASE i # 1
    <3>1. i - 1 \in DOMAIN st /\ (i - 1) + 1 = i /\ Len(st2) - i = Len(st) - (i - 1)
      BY <1>1, <1>2, <2>2
    <3>2. st2[(i - 1) + 1] = st[i - 1]
      BY <1>1, <1>2, <3>1
    <3> QED
      BY <3>1, <3>2 DEF Stacked
  <2> QED
    BY <2>1, <2>2
<1> QED
  BY <1>1, <1>2, <1>3 DEF Stacked, st2

LEMMA StackShrinks ==
    ASSUME NEW st, NEW g, NEW rs, NEW seen, Stacked(st, g, rs, seen), st # <<>>
    PROVE  /\ Stacked(Tail(st), g, rs, seen) /\ DOMAIN Tail(st) = 1 .. Len(st) - 1
           /\ \A i \in DOMAIN Tail(st) : i + 1 \in DOMAIN st /\ Tail(st)[i] = st[i + 1]
<1> DEFINE st2 == Tail(st)
<1>1. /\ st \in Seq(Range(st)) /\ Len(st) \in Nat \ {0} /\ DOMAIN st = 1 .. Len(st)
      /\ st2 \in Seq(Range(st2)) /\ Len(st2) = Len(st) - 1
      /\ \A i \in 1 .. Len(st) - 1 : st2[i] = st[i + 1]
  BY StackIs DEF Stacked
<1>2. DOMAIN st2 = 1 .. Len(st) - 1
  BY <1>1, StackIs
<1> HIDE DEF st2
<1>3. ASSUME NEW i \in DOMAIN st2 PROVE Walks(st2[i], Len(st2) - i, g, rs, seen) /\ i + 1 \in DOMAIN st
  <2>1. i + 1 \in DOMAIN st /\ Len(st2) - i = Len(st) - (i + 1) /\ st2[i] = st[i + 1]
    BY <1>1, <1>2
  <2> QED
    BY <2>1 DEF Stacked
<1> QED
  BY <1>1, <1>2, <1>3 DEF Stacked, st2

Distinct(st) == \A i, j \in DOMAIN st : st[i].fn = st[j].fn => i = j

(* No function twice: the stack is not deeper than there are functions.    *)
LEMMA StackIsShallow ==
    ASSUME NEW st, NEW g, NEW rs, NEW seen, Stacked(st, g, rs, seen), Distinct(st)
    PROVE  Len(st) \in 0 .. Cardinality(Funcs)
<1>1. Len(st) \in Nat /\ DOMAIN st = 1 .. Len(st)
  BY StackIs DEF Stacked
<1>2. IsFiniteSet(Funcs) /\ Cardinality(Funcs) \in Nat
  BY ProgramsAssumption, FS_CardinalityType
<1>3. IsFiniteSet(1 .. Len(st)) /\ Cardinality(1 .. Len(st)) = Len(st)
  <2> DEFINE n == Len(st)
  <2>1. n \in Nat /\ 1 \in Int /\ n \in Int
    BY <1>1
  <2> HIDE DEF n
  <2>2. IsFiniteSet(1 .. n) /\ Cardinality(1 .. n) = IF 1 > n THEN 0 ELSE n - 1 + 1
    BY <2>1, FS_Interval
  <2>3. Cardinality(1 .. n) = n
    BY <2>1, <2>2
  <2> QED
    BY <2>2, <2>3 DEF n
<1> DEFINE f == [i \in 1 .. Len(st) |-> st[i].fn]
<1>4. f \in [1 .. Len(st) -> Funcs]
  BY <1>1 DEF Stacked, Walks
<1>5. ~ (Cardinality(Funcs) < Len(st))
  <2> SUFFICES ASSUME Cardinality(Funcs) < Len(st) PROVE FALSE
    OBVIOUS
  <2> DEFINE S == 1 .. Len(st)
  <2>1. IsFiniteSet(S) /\ Cardinality(Funcs) < Cardinality(S) /\ f \in [S -> Funcs]
    BY <1>3, <1>4
  <2> HIDE DEF S, f
  <2>2. \E x, y \in S : x # y /\ f[x] = f[y]
    BY <1>2, <2>1, FS_PigeonHole
  <2> QED
    BY <1>1, <2>2 DEF Distinct, S, f
<1> QED
  BY <1>1, <1>2, <1>5

----------------------------------------------------------------------------
(* The invariant, of the primed and of the unprimed state, in its parts.   *)
LEMMA Restored ==
    ASSUME prog \in Programs, prog' = prog,
           Stacked(stack', prog, routes', visited'), Distinct(stack'),
           \A i \in DOMAIN stack' : stack'[i].fn \in Reached',
           todo' \subseteq {f \in Funcs : ~ IsHelper(f)},
           visited' \subseteq {f \in Funcs : IsHelper(f)},
           \A f \in Reached' : (\A i \in DOMAIN stack' : stack'[i].fn # f) =>
             HasWalked(f, prog, routes', visited'),
           \A r \in routes' : Listed(r, prog)
    PROVE  CatalogInv'
<1>1. StackInv'
  BY DEF StackInv, Stacked
<1>2. NoRecursion'
  BY DEF NoRecursion, Distinct
<1>3. ReachedInv'
  BY DEF ReachedInv, IsHelper
<1> QED
  BY <1>1, <1>2, <1>3 DEF CatalogInv

LEMMA Parts ==
    ASSUME CatalogInv
    PROVE  /\ prog \in Programs
           /\ Stacked(stack, prog, routes, visited) /\ Distinct(stack)
           /\ \A i \in DOMAIN stack : stack[i].fn \in Reached
           /\ todo \subseteq {f \in Funcs : ~ IsHelper(f)}
           /\ visited \subseteq {f \in Funcs : IsHelper(f)}
           /\ \A f \in Reached : (\A i \in DOMAIN stack : stack[i].fn # f) =>
                HasWalked(f, prog, routes, visited)
           /\ \A r \in routes : Listed(r, prog)
BY DEF CatalogInv, StackInv, Stacked, NoRecursion, Distinct, ReachedInv, IsHelper

LEMMA InitEstablishes == Init => CatalogInv
<1> SUFFICES ASSUME Init PROVE CatalogInv
  OBVIOUS
<1>1. prog \in Programs /\ stack = <<>> /\ visited = {} /\ routes = {}
      /\ todo = {f \in Funcs : ~ IsHelper(f)}
  BY DEF Init
<1>2. StackInv /\ NoRecursion
  <2>1. stack \in Seq(Range(stack)) /\ DOMAIN stack = {}
    BY <1>1, EmptySeq
  <2> QED
    BY <2>1 DEF StackInv, NoRecursion
<1>3. Reached = {}
  BY <1>1 DEF Reached, IsHelper
<1> QED
  BY <1>1, <1>2, <1>3 DEF CatalogInv, ReachedInv, IsHelper

(* A new walk starts in the function itself, with no group.                *)
LEMMA ResolveKeeps ==
    ASSUME CatalogInv, NEW f \in Funcs, Resolve(f) PROVE CatalogInv'
<1> DEFINE F == Frame(f, 1, EmptyMap)
<1>1. /\ stack = <<>> /\ f \in todo /\ todo' = todo \ {f} /\ stack' = <<F>>
      /\ prog' = prog /\ visited' = visited /\ routes' = routes
  BY DEF Resolve
<1>2. f \in Funcs /\ GroupParam(prog, f) = None
  BY <1>1, Parts DEF IsHelper
<1>3. Walks(F, 0, prog, routes, visited)
  <2> DEFINE c == [fn |-> f, env |-> EmptyMap]
  <2>1. c \in UpTo(prog)[0] /\ c.fn = f /\ Agrees(EmptyMap, prog, c, 1)
    BY <1>2, Parts, AgreesAtStart
  <2> HIDE DEF c
  <2>2. F.fn = f /\ F.pc = 1 /\ F.env = EmptyMap
    BY DEF Frame
  <2>3. HandledTo(prog, c, 1, routes, visited)
    BY DEF HandledTo
  <2>4. 1 \in 1 .. Len(prog.body[f]) + 1
    BY Parts, BodyIsSeq
  <2> HIDE DEF F
  <2> QED
    BY <1>2, <2>1, <2>2, <2>3, <2>4 DEF Walks
<1> HIDE DEF F
<1>4. Stacked(stack', prog, routes', visited') /\ DOMAIN stack' = {1} /\ stack'[1] = F
  <2>1. stack' = <<F>> \o stack /\ Len(stack) = 0
    BY <1>1
  <2>2. Stacked(stack, prog, routes, visited) /\ Walks(F, Len(stack), prog, routes, visited)
    BY <1>3, <2>1, Parts
  <2>3. LET st2 == <<F>> \o stack
        IN  Stacked(st2, prog, routes, visited) /\ DOMAIN st2 = 1 .. Len(stack) + 1 /\ st2[1] = F
    BY <2>2, StackGrows
  <2> QED
    BY <1>1, <2>1, <2>3
<1>5. Distinct(stack')
  BY <1>4 DEF Distinct
<1>6. Reached' = Reached \cup {f}
  BY <1>1, <1>2 DEF Reached, IsHelper
<1>7. F.fn = f
  BY DEF F, Frame
<1>8. ASSUME NEW h \in Reached', \A i \in DOMAIN stack' : stack'[i].fn # h
      PROVE  HasWalked(h, prog, routes', visited')
  <2>1. h # f /\ h \in Reached
    BY <1>4, <1>6, <1>7, <1>8
  <2>2. \A i \in DOMAIN stack : stack[i].fn # h
    BY <1>1
  <2> QED
    BY <1>1, <2>1, <2>2, Parts
<1> QED
  BY <1>1, <1>4, <1>5, <1>6, <1>7, <1>8, Parts, Restored

(* The top frame is not deeper than the contexts go.                       *)
LEMMA TopWalks ==
    ASSUME CatalogInv, stack # <<>>
    PROVE  /\ Top = stack[1] /\ Top.fn \in Funcs /\ 1 \in DOMAIN stack
           /\ Top.pc \in 1 .. Len(prog.body[Top.fn]) + 1
           /\ Len(stack) - 1 \in 0 .. Cardinality(Funcs) - 1
           /\ \E c \in UpTo(prog)[Len(stack) - 1] :
                /\ c \in Contexts(prog)
                /\ c.fn = Top.fn /\ Agrees(Top.env, prog, c, Top.pc)
                /\ HandledTo(prog, c, Top.pc, routes, visited)
<1>1. Stacked(stack, prog, routes, visited) /\ Distinct(stack)
  BY Parts
<1>2. Top = stack[1] /\ 1 \in DOMAIN stack /\ Len(stack) # 0 /\ Len(stack) \in Nat
  BY <1>1, StackIs DEF Stacked, Top
<1>3. Len(stack) \in 0 .. Cardinality(Funcs)
  BY <1>1, StackIsShallow
<1>4. Cardinality(Funcs) \in Nat
  BY ProgramsAssumption, FS_CardinalityType
<1>5. Len(stack) - 1 \in 0 .. Cardinality(Funcs) - 1
  BY <1>2, <1>3, <1>4
<1>6. Walks(stack[1], Len(stack) - 1, prog, routes, visited)
  BY <1>1, <1>2 DEF Stacked
<1>7. UpTo(prog)[Len(stack) - 1] \subseteq Contexts(prog)
  BY <1>4, <1>5, UpToGrows
<1> QED
  BY <1>2, <1>5, <1>6, <1>7 DEF Walks

(* A step that walks one statement of the top frame keeps the invariant.   *)
LEMMA Advances ==
    ASSUME CatalogInv, stack # <<>>, NEW env,
           Top.pc <= Len(prog.body[Top.fn]),
           stack' = Continue(env), prog' = prog, todo' = todo, visited' = visited,
           routes \subseteq routes', \A r \in routes' : Listed(r, prog),
           \A c \in UpTo(prog)[Len(stack) - 1] :
             (c \in Contexts(prog) /\ c.fn = Top.fn /\ Agrees(Top.env, prog, c, Top.pc)) =>
               Agrees(env, prog, c, Top.pc + 1) /\ Handled(prog, c, Top.pc, routes', visited)
    PROVE  CatalogInv'
<1> DEFINE n == Len(stack) - 1
           k == Top.pc
           F == Frame(Top.fn, k + 1, env)
<1>1. PICK c \in UpTo(prog)[n] :
        /\ c \in Contexts(prog)
        /\ c.fn = Top.fn /\ Agrees(Top.env, prog, c, k) /\ HandledTo(prog, c, k, routes, visited)
  BY TopWalks
<1>2. k \in 1 .. Len(prog.body[c.fn]) /\ c.fn \in Funcs
  <2>1. k \in 1 .. Len(prog.body[Top.fn]) + 1 /\ Top.fn \in Funcs
    BY TopWalks
  <2>2. Len(prog.body[Top.fn]) \in Nat
    BY <2>1, Parts, BodyIsSeq
  <2> QED
    BY <1>1, <2>1, <2>2
<1>3. Agrees(env, prog, c, k + 1) /\ Handled(prog, c, k, routes', visited)
      /\ HandledTo(prog, c, k, routes', visited)
  BY <1>1, HandledGrows
<1>4. Walks(F, n, prog, routes', visited)
  BY <1>1, <1>2, <1>3, Parts, WalksOn
<1>5. F.fn = stack[1].fn
  BY TopWalks DEF Frame
<1>6. stack' = <<F>> \o Tail(stack)
  BY DEF Continue
<1> HIDE DEF F
<1>7. /\ Stacked(stack', prog, routes', visited') /\ DOMAIN stack' = DOMAIN stack
      /\ \A i \in DOMAIN stack : stack'[i].fn = stack[i].fn
  BY <1>4, <1>5, <1>6, Parts, StackAdvances
<1>8. Distinct(stack')
  BY <1>7, Parts DEF Distinct
<1>9. Reached' = Reached
  BY DEF Reached, IsHelper
<1>10. ASSUME NEW f \in Reached', \A i \in DOMAIN stack' : stack'[i].fn # f
       PROVE  HasWalked(f, prog, routes', visited')
  <2>1. HasWalked(f, prog, routes, visited)
    BY <1>7, <1>9, <1>10, Parts
  <2> QED
    BY <2>1, HandledGrows
<1> QED
  BY <1>7, <1>8, <1>9, <1>10, Parts, Restored

LEMMA AtStmtIs ==
    ASSUME NEW kind, AtStmt(kind)
    PROVE  /\ stack # <<>> /\ Top.pc <= Len(prog.body[Top.fn])
           /\ Stmt = prog.body[Top.fn][Top.pc] /\ Stmt.kind = kind
BY DEF AtStmt, Stmt

LEMMA AtIs ==
    ASSUME CatalogInv, NEW kind, AtStmt(kind), NEW c, c.fn = Top.fn
    PROVE  /\ c.fn \in Funcs /\ Top.pc \in 1 .. Len(prog.body[c.fn])
           /\ prog.body[c.fn][Top.pc] = Stmt /\ Stmt.kind = kind
           /\ \A other : Top.pc \in StmtsOf(prog, c, other) <=> kind = other
<1>1. /\ stack # <<>> /\ Top.pc <= Len(prog.body[Top.fn])
      /\ Stmt = prog.body[Top.fn][Top.pc] /\ Stmt.kind = kind
  BY AtStmtIs
<1>2. Top.fn \in Funcs /\ Top.pc \in 1 .. Len(prog.body[Top.fn]) + 1
  BY <1>1, TopWalks
<1>3. Len(prog.body[Top.fn]) \in Nat /\ DOMAIN prog.body[Top.fn] = 1 .. Len(prog.body[Top.fn])
  BY <1>2, Parts, BodyIsSeq
<1>4. Top.pc \in 1 .. Len(prog.body[Top.fn])
  BY <1>1, <1>2, <1>3
<1> QED
  BY <1>1, <1>2, <1>3, <1>4 DEF StmtsOf

LEMMA AssignGroupKeeps == ASSUME CatalogInv, AssignGroup PROVE CatalogInv'
<1> DEFINE k == Top.pc
           env == Group(Stmt, Top.env)
<1>1. /\ AtStmt("group") /\ stack' = Continue(env)
      /\ prog' = prog /\ todo' = todo /\ visited' = visited /\ routes' = routes
  BY DEF AssignGroup
<1>2. ASSUME NEW c, c.fn = Top.fn, Agrees(Top.env, prog, c, k)
      PROVE  Agrees(env, prog, c, k + 1) /\ Handled(prog, c, k, routes', visited)
  <2>1. c.fn \in Funcs /\ k \in 1 .. Len(prog.body[c.fn]) /\ prog.body[c.fn][k] = Stmt
        /\ Stmt.kind = "group"
    BY <1>1, <1>2, AtIs
  <2>2. k \notin StmtsOf(prog, c, "route") /\ k \notin StmtsOf(prog, c, "call")
    BY <1>1, <1>2, AtIs
  <2>3. Agrees(Group(prog.body[c.fn][k], Top.env), prog, c, k + 1)
    BY <1>2, <2>1, Parts, AgreesAfterGroup
  <2> QED
    BY <2>1, <2>2, <2>3 DEF Handled, Registers
<1> QED
  BY <1>1, <1>2, AtStmtIs, Parts, Advances

LEMMA SkipUseKeeps == ASSUME CatalogInv, SkipUse PROVE CatalogInv'
<1> DEFINE k == Top.pc
<1>1. /\ AtStmt("use") \/ AtStmt("unseen")
      /\ stack' = Continue(Top.env)
      /\ prog' = prog /\ todo' = todo /\ visited' = visited /\ routes' = routes
  BY DEF SkipUse
<1>2. ASSUME NEW c, c.fn = Top.fn, Agrees(Top.env, prog, c, k)
      PROVE  Agrees(Top.env, prog, c, k + 1) /\ Handled(prog, c, k, routes', visited)
  <2>1. c.fn \in Funcs /\ k \in 1 .. Len(prog.body[c.fn]) /\ prog.body[c.fn][k].kind # "group"
    BY <1>1, <1>2, AtIs
  <2>2. k \notin StmtsOf(prog, c, "route") /\ k \notin StmtsOf(prog, c, "call")
    BY <1>1, <1>2, AtIs
  <2>3. Agrees(Top.env, prog, c, k + 1)
    BY <1>2, <2>1, Parts, AgreesAfterOther
  <2> QED
    BY <2>2, <2>3 DEF Handled, Registers
<1> QED
  BY <1>1, <1>2, AtStmtIs, Parts, Advances

(* The route of a statement is what the context registers there.           *)
LEMMA RouteIsRegistered ==
    ASSUME CatalogInv, AtStmt("route"), HasSlash(Stmt), Named(Stmt),
           NEW c \in Contexts(prog), c.fn = Top.fn, Agrees(Top.env, prog, c, Top.pc)
    PROVE  /\ Plain(prog) => SameRoute(Route(Stmt, Top.env), RegisteredAt(prog, c, Top.pc))
           /\ Listed(Route(Stmt, Top.env), prog)
<1> DEFINE k == Top.pc
           r == Route(Stmt, Top.env)
           q == RegisteredAt(prog, c, k)
           G == GroupOf(prog, Stmt.recv, EnvAt(prog, c, k))
<1>1. /\ c.fn \in Funcs /\ k \in 1 .. Len(prog.body[c.fn]) /\ prog.body[c.fn][k] = Stmt
      /\ k \in StmtsOf(prog, c, "route") /\ Stmt.kind = "route"
  BY AtIs
<1>2. /\ q.path = G.path \o Stmt.path.gin /\ q.handler = Last(Stmt.chain)
      /\ q.mids = G.mids \cup ToSet(Front(Stmt.chain))
  BY <1>1 DEF RegisteredAt, Sub
<1>3. /\ r.path = PrefixOfReceiver(Stmt.recv, Top.env) \o Stmt.path.text
      /\ r.handler = Last(Stmt.chain) /\ r.mids = ToSet(Front(Stmt.chain))
  BY DEF Route, Middleware
<1>4. Plain(prog) => r.path = q.path
  <2> SUFFICES ASSUME Plain(prog) PROVE r.path = q.path
    OBVIOUS
  <2>1. ReadsRight(prog, c.fn, k, Stmt.recv) /\ Stmt.path.text = Stmt.path.gin
    BY <1>1, Parts, PlainIs
  <2>2. PrefixOfReceiver(Stmt.recv, Top.env) = G.path
    BY <2>1, ReadsAsIs
  <2> QED
    BY <1>2, <1>3, <2>1, <2>2
<1>5. GroupsBare(prog) => G.mids = {}
  BY <1>1, Parts, BareContexts
<1>6. q \in Registered(prog)
  BY <1>1 DEF Registered, Registers
<1> HIDE DEF r, q, G
<1>7. Plain(prog) => SameRoute(r, q)
  BY <1>2, <1>3, <1>4 DEF SameRoute
<1>8. r.mids \subseteq q.mids /\ (GroupsBare(prog) => r.mids = q.mids)
  BY <1>2, <1>3, <1>5
<1>9. q \in MayBe(r, prog)
  BY <1>2, <1>3, <1>4, <1>6 DEF MayBe
<1> QED
  BY <1>7, <1>8, <1>9 DEF Listed, r, q

LEMMA AddRouteKeeps == ASSUME CatalogInv, AddRoute PROVE CatalogInv'
<1> DEFINE k == Top.pc
           r == Route(Stmt, Top.env)
<1>1. /\ AtStmt("route") /\ stack' = Continue(Top.env)
      /\ prog' = prog /\ todo' = todo /\ visited' = visited
      /\ routes' = IF HasSlash(Stmt) /\ Named(Stmt) THEN WithRoute(routes, r) ELSE routes
  BY DEF AddRoute
<1>2. routes \subseteq routes' /\ routes' \subseteq routes \cup {r}
      /\ (HasSlash(Stmt) /\ Named(Stmt) => \E q \in routes' : SameRoute(q, r))
      /\ (~ (HasSlash(Stmt) /\ Named(Stmt)) => routes' = routes)
  <2>1. SameRoute(r, r)
    BY DEF SameRoute
  <2> HIDE DEF r
  <2> QED
    BY <1>1, <2>1 DEF WithRoute
<1>3. ASSUME NEW c \in Contexts(prog), c.fn = Top.fn, Agrees(Top.env, prog, c, k)
      PROVE  Agrees(Top.env, prog, c, k + 1) /\ Handled(prog, c, k, routes', visited)
  <2>1. c.fn \in Funcs /\ k \in 1 .. Len(prog.body[c.fn]) /\ prog.body[c.fn][k] = Stmt
        /\ Stmt.kind # "group"
    BY <1>1, <1>3, AtIs
  <2>2. k \notin StmtsOf(prog, c, "call")
    BY <1>1, <1>3, AtIs
  <2>3. Agrees(Top.env, prog, c, k + 1)
    BY <1>3, <2>1, Parts, AgreesAfterOther
  <2>4. k \in Registers(prog, c) /\ HasSlash(prog.body[c.fn][k]) /\ Plain(prog) =>
          \E q \in routes' : SameRoute(q, RegisteredAt(prog, c, k))
    <3> SUFFICES ASSUME Named(Stmt), HasSlash(Stmt), Plain(prog)
                 PROVE  \E q \in routes' : SameRoute(q, RegisteredAt(prog, c, k))
      BY <2>1 DEF Registers
    <3>1. SameRoute(r, RegisteredAt(prog, c, k))
      BY <1>1, <1>3, RouteIsRegistered
    <3> HIDE DEF r
    <3> QED
      BY <1>2, <3>1 DEF SameRoute
  <2> QED
    BY <2>2, <2>3, <2>4 DEF Handled
<1>4. HasSlash(Stmt) /\ Named(Stmt) => Listed(r, prog)
  <2>1. stack # <<>>
    BY <1>1, AtStmtIs
  <2>2. PICK c \in UpTo(prog)[Len(stack) - 1] :
          c \in Contexts(prog) /\ c.fn = Top.fn /\ Agrees(Top.env, prog, c, k)
    BY <2>1, TopWalks
  <2> QED
    BY <1>1, <2>2, RouteIsRegistered
<1>5. \A q \in routes' : Listed(q, prog)
  BY <1>2, <1>4, Parts
<1> QED
  BY <1>1, <1>2, <1>3, <1>5, AtStmtIs, Advances

(* What is not followed is no helper, was followed before, or is not       *)
(* known.                                                                  *)
LEMMA SkipCallKeeps == ASSUME CatalogInv, SkipCall PROVE CatalogInv'
<1> DEFINE k == Top.pc
<1>1. /\ AtStmt("call") /\ stack' = Continue(Top.env) /\ ~ Follows(Stmt, Top.env)
      /\ prog' = prog /\ todo' = todo /\ visited' = visited /\ routes' = routes
  BY DEF SkipCall
<1>2. ASSUME NEW c, c.fn = Top.fn, Agrees(Top.env, prog, c, k)
      PROVE  Agrees(Top.env, prog, c, k + 1) /\ Handled(prog, c, k, routes', visited)
  <2>1. c.fn \in Funcs /\ k \in 1 .. Len(prog.body[c.fn]) /\ prog.body[c.fn][k] = Stmt
        /\ Stmt.kind # "group"
    BY <1>1, <1>2, AtIs
  <2>2. k \notin StmtsOf(prog, c, "route")
    BY <1>1, <1>2, AtIs
  <2>3. Agrees(Top.env, prog, c, k + 1)
    BY <1>2, <2>1, Parts, AgreesAfterOther
  <2>4. IsFollowed(prog, c.fn, k) => FirstIsGroup(Stmt, Top.env)
    BY <1>2, <2>1 DEF IsFollowed, FirstIsGroup, ArgGroupPrefix, Has, Agrees
  <2> QED
    BY <1>1, <2>1, <2>2, <2>3, <2>4 DEF Handled, Registers, Follows, IsHelper
<1> QED
  BY <1>1, <1>2, AtStmtIs, Parts, Advances

(* At the end of a body all of it has been walked.                         *)
LEMMA ResolveReturnsKeeps == ASSUME CatalogInv, ResolveReturns PROVE CatalogInv'
<1>1. /\ stack # <<>> /\ Top.pc > Len(prog.body[Top.fn]) /\ stack' = Tail(stack)
      /\ prog' = prog /\ todo' = todo /\ visited' = visited /\ routes' = routes
  BY DEF ResolveReturns
<1>2. /\ Stacked(stack', prog, routes', visited') /\ DOMAIN stack' = 1 .. Len(stack) - 1
      /\ \A i \in DOMAIN stack' : i + 1 \in DOMAIN stack /\ stack'[i] = stack[i + 1]
  BY <1>1, Parts, StackShrinks
<1>3. Len(stack) \in Nat /\ DOMAIN stack = 1 .. Len(stack)
  BY Parts, StackIs DEF Stacked
<1>4. Distinct(stack')
  <2> SUFFICES ASSUME NEW i \in DOMAIN stack', NEW j \in DOMAIN stack', stack'[i].fn = stack'[j].fn
               PROVE  i = j
    BY DEF Distinct
  <2>1. i + 1 = j + 1
    BY <1>2, Parts DEF Distinct
  <2> QED
    BY <1>2, <1>3, <2>1
<1>5. Reached' = Reached
  BY <1>1 DEF Reached, IsHelper
<1>6. HasWalked(Top.fn, prog, routes, visited)
  <2>1. PICK c \in UpTo(prog)[Len(stack) - 1] :
          /\ c \in Contexts(prog) /\ c.fn = Top.fn /\ HandledTo(prog, c, Top.pc, routes, visited)
    BY <1>1, TopWalks
  <2>2. Top.pc = Len(prog.body[Top.fn]) + 1
    <3>1. Top.fn \in Funcs /\ Top.pc \in 1 .. Len(prog.body[Top.fn]) + 1
      BY <1>1, TopWalks
    <3>2. Len(prog.body[Top.fn]) \in Nat
      BY <3>1, Parts, BodyIsSeq
    <3> QED
      BY <1>1, <3>1, <3>2
  <2> QED
    BY <2>1, <2>2 DEF HasWalked
<1>7. ASSUME NEW f \in Reached', \A i \in DOMAIN stack' : stack'[i].fn # f
      PROVE  HasWalked(f, prog, routes', visited')
  <2>1. CASE f = Top.fn
    BY <1>1, <1>6, <2>1
  <2>2. CASE f # Top.fn
    <3>1. ASSUME NEW i \in DOMAIN stack PROVE stack[i].fn # f
      <4>1. CASE i = 1
        BY <1>1, <2>2, <4>1, TopWalks
      <4>2. CASE i # 1
        <5>1. i - 1 \in DOMAIN stack' /\ (i - 1) + 1 = i
          BY <1>2, <1>3, <4>2
        <5>2. stack'[i - 1] = stack[(i - 1) + 1]
          BY <1>2, <5>1
        <5> QED
          BY <1>7, <5>1, <5>2
      <4> QED
        BY <4>1, <4>2
    <3> QED
      BY <1>1, <1>5, <1>7, <3>1, Parts
  <2> QED
    BY <2>1, <2>2
<1> QED
  BY <1>1, <1>2, <1>4, <1>5, <1>7, Parts, Restored

(* A helper is entered in the context of the call, and was not on the      *)
(* stack.                                                                  *)
LEMMA FollowCallKeeps == ASSUME CatalogInv, FollowCall PROVE CatalogInv'
<1> DEFINE k == Top.pc
           h == Stmt.callee
           n == Len(stack) - 1
           F == Frame(Top.fn, k + 1, Top.env)
           H == Frame(h, 1, HelperEnv(Stmt, Top.env))
           st == <<F>> \o Tail(stack)
<1>1. /\ AtStmt("call") /\ Follows(Stmt, Top.env)
      /\ visited' = visited \cup {h} /\ stack' = <<H>> \o st
      /\ prog' = prog /\ todo' = todo /\ routes' = routes
  BY DEF FollowCall, Continue
<1>2. stack # <<>> /\ IsHelper(h) /\ h \notin visited
  BY <1>1, AtStmtIs DEF Follows
<1>3. PICK c \in UpTo(prog)[n] :
        /\ c \in Contexts(prog)
        /\ c.fn = Top.fn /\ Agrees(Top.env, prog, c, k) /\ HandledTo(prog, c, k, routes, visited)
  BY <1>2, TopWalks
<1>4. /\ c.fn \in Funcs /\ k \in 1 .. Len(prog.body[c.fn]) /\ prog.body[c.fn][k] = Stmt
      /\ Stmt.kind = "call"
  BY <1>1, <1>3, AtIs
<1>5. h \in Funcs /\ GroupParam(prog, h) # None
  BY <1>2, <1>4, Parts, BodyIsSeq DEF IsHelper
<1>6. Walks(F, n, prog, routes', visited')
  <2>1. Agrees(Top.env, prog, c, k + 1)
    BY <1>3, <1>4, Parts, AgreesAfterOther
  <2>2. Handled(prog, c, k, routes', visited')
    <3>1. k \notin StmtsOf(prog, c, "route")
      BY <1>1, <1>3, AtIs
    <3>2. prog.body[c.fn][k].callee \in visited'
      BY <1>1, <1>4
    <3> HIDE DEF k, h
    <3> QED
      BY <3>1, <3>2 DEF Handled, Registers
  <2>3. HandledTo(prog, c, k, routes', visited')
    <3>1. routes \subseteq routes' /\ visited \subseteq visited'
      BY <1>1
    <3> HIDE DEF k, h
    <3> QED
      BY <1>3, <3>1, HandledGrows
  <2> QED
    BY <1>3, <1>4, <2>1, <2>2, <2>3, Parts, WalksOn
<1>7. /\ Stacked(st, prog, routes', visited') /\ Len(st) = Len(stack)
      /\ DOMAIN st = DOMAIN stack /\ \A i \in DOMAIN stack : st[i].fn = stack[i].fn
  <2>1. F.fn = stack[1].fn
    BY <1>2, TopWalks DEF Frame
  <2>2. routes \subseteq routes' /\ visited \subseteq visited'
    BY <1>1
  <2> HIDE DEF F
  <2>3. Stacked(stack, prog, routes, visited) /\ Walks(F, Len(stack) - 1, prog, routes', visited')
    BY <1>6, Parts
  <2>4. LET st2 == <<F>> \o Tail(stack)
        IN  /\ Stacked(st2, prog, routes', visited') /\ Len(st2) = Len(stack)
            /\ DOMAIN st2 = DOMAIN stack /\ \A i \in DOMAIN stack : st2[i].fn = stack[i].fn
    BY <1>2, <2>1, <2>2, <2>3, StackAdvances
  <2> QED
    BY <2>4
<1>8. Walks(H, Len(st), prog, routes', visited')
  <2> DEFINE d == ContextOf(prog, Stmt, EnvAt(prog, c, k))
  <2>1. d \in CalledFrom(prog, c) /\ d.fn = h /\ Agrees(HelperEnv(Stmt, Top.env), prog, d, 1)
    BY <1>2, <1>3, <1>4, Parts, AgreesInHelper
  <2>2. Len(stack) \in Nat /\ n \in 0 .. Cardinality(Funcs) - 1
    BY <1>2, Parts, StackIs, TopWalks DEF Stacked
  <2>3. d \in UpTo(prog)[n + 1] /\ n + 1 = Len(st)
    BY <1>3, <1>7, <2>1, <2>2, UpToSteps DEF Deeper
  <2> HIDE DEF d, st, n
  <2>4. H.fn = h /\ H.pc = 1 /\ H.env = HelperEnv(Stmt, Top.env)
    BY DEF Frame
  <2>5. HandledTo(prog, d, 1, routes', visited')
    BY DEF HandledTo
  <2>6. 1 \in 1 .. Len(prog.body[h]) + 1
    BY <1>5, Parts, BodyIsSeq
  <2> HIDE DEF H, h
  <2>7. /\ H.fn \in Funcs /\ H.pc \in 1 .. Len(prog.body[H.fn]) + 1 /\ d \in UpTo(prog)[Len(st)]
        /\ d.fn = H.fn /\ Agrees(H.env, prog, d, H.pc) /\ HandledTo(prog, d, H.pc, routes', visited')
    BY <1>5, <2>1, <2>3, <2>4, <2>5, <2>6
  <2> QED
    BY <2>7 DEF Walks
<1>9. H.fn = h
  BY DEF Frame
<1> HIDE DEF F, H, st
<1>10. /\ Stacked(stack', prog, routes', visited') /\ DOMAIN stack' = 1 .. Len(st) + 1
       /\ stack'[1] = H /\ \A i \in DOMAIN st : stack'[i + 1] = st[i]
  BY <1>1, <1>7, <1>8, StackGrows
<1>11. Len(st) \in Nat /\ DOMAIN st = 1 .. Len(st)
  BY <1>7, StackIs DEF Stacked
<1>12. \A i \in DOMAIN stack' \ {1} : /\ i - 1 \in DOMAIN stack
                                      /\ stack'[i].fn = stack[i - 1].fn
  <2> TAKE i \in DOMAIN stack' \ {1}
  <2>1. i - 1 \in DOMAIN st /\ (i - 1) + 1 = i
    BY <1>10, <1>11
  <2>2. stack'[(i - 1) + 1] = st[i - 1]
    BY <1>10, <2>1
  <2> QED
    BY <1>7, <2>1, <2>2
<1>13. \A i \in DOMAIN stack : stack[i].fn # h
  BY <1>2, Parts DEF Reached
<1>14. Distinct(stack')
  <2> SUFFICES ASSUME NEW i \in DOMAIN stack', NEW j \in DOMAIN stack', stack'[i].fn = stack'[j].fn
               PROVE  i = j
    BY DEF Distinct
  <2>1. CASE i = 1 \/ j = 1
    BY <1>9, <1>10, <1>12, <1>13, <2>1
  <2>2. CASE i # 1 /\ j # 1
    <3>1. i - 1 = j - 1
      BY <1>12, <2>2, Parts DEF Distinct
    <3> QED
      BY <1>10, <1>11, <3>1
  <2> QED
    BY <2>1, <2>2
<1>15. Reached' = Reached \cup {h}
  BY <1>1 DEF Reached, IsHelper
<1>16. \A i \in DOMAIN stack' : stack'[i].fn \in Reached'
  BY <1>9, <1>10, <1>12, <1>15, Parts
<1>17. ASSUME NEW f \in Reached', \A i \in DOMAIN stack' : stack'[i].fn # f
       PROVE  HasWalked(f, prog, routes', visited')
  <2>1. 1 \in DOMAIN stack' /\ f # h
    BY <1>9, <1>10, <1>11, <1>17
  <2>2. ASSUME NEW i \in DOMAIN stack PROVE stack[i].fn # f
    <3>1. i + 1 \in DOMAIN stack' /\ stack'[i + 1].fn = stack[i].fn
      BY <1>7, <1>10, <1>11
    <3> QED
      BY <1>17, <3>1
  <2>3. HasWalked(f, prog, routes, visited)
    BY <1>15, <2>1, <2>2, Parts
  <2>4. routes \subseteq routes' /\ visited \subseteq visited'
    BY <1>1
  <2> QED
    BY <2>3, <2>4, HandledGrows
<1>18. /\ todo' \subseteq {f \in Funcs : ~ IsHelper(f)}
       /\ visited' \subseteq {f \in Funcs : IsHelper(f)}
  <2> HIDE DEF h
  <2>1. todo' \subseteq {f \in Funcs : ~ IsHelper(f)}
    BY <1>1, Parts
  <2>2. h \in {f \in Funcs : IsHelper(f)} /\ visited \subseteq {f \in Funcs : IsHelper(f)}
    BY <1>2, <1>5, Parts
  <2>3. visited' \subseteq {f \in Funcs : IsHelper(f)}
    BY <1>1, <2>2
  <2> QED
    BY <2>1, <2>3
<1>19. prog \in Programs /\ prog' = prog /\ \A r \in routes' : Listed(r, prog)
  BY <1>1, Parts
<1> QED
  BY <1>10, <1>14, <1>16, <1>17, <1>18, <1>19, Restored

LEMMA NextKeeps == CatalogInv /\ [Next]_vars => CatalogInv'
<1> SUFFICES ASSUME CatalogInv, [Next]_vars PROVE CatalogInv'
  OBVIOUS
<1>1. ASSUME NEW f \in Funcs, Resolve(f) PROVE CatalogInv'
  BY <1>1, ResolveKeeps
<1>2. CASE AssignGroup
  BY <1>2, AssignGroupKeeps
<1>3. CASE AddRoute
  BY <1>3, AddRouteKeeps
<1>4. CASE SkipUse
  BY <1>4, SkipUseKeeps
<1>5. CASE FollowCall
  BY <1>5, FollowCallKeeps
<1>6. CASE SkipCall
  BY <1>6, SkipCallKeeps
<1>7. CASE ResolveReturns
  BY <1>7, ResolveReturnsKeeps
<1>8. CASE UNCHANGED vars
  BY <1>8 DEF vars, CatalogInv, StackInv, NoRecursion, ReachedInv, Reached, IsHelper
<1> QED
  BY <1>1, <1>2, <1>3, <1>4, <1>5, <1>6, <1>7, <1>8 DEF Next

(* collectRoutes keeps its invariant in every package: each frame walks a  *)
(* context of its function, and knows its groups' paths where the package  *)
(* is in the style that the tool reads; what lies behind it is followed,   *)
(* or in the catalog; and no function is walked twice at a time.           *)
THEOREM RouteInvariant == Spec => []CatalogInv
<1>1. Init => CatalogInv
  BY InitEstablishes
<1>2. CatalogInv /\ [Next]_vars => CatalogInv'
  BY NextKeeps
<1> QED
  BY <1>1, <1>2, PTL DEF Spec

(* What the invariant says of the routes.                                  *)
LEMMA InvIsSound == CatalogInv => Sound
BY DEF CatalogInv, Sound, Listed, MayBe, SameRoute

(* More middleware is a label at least as strong.                          *)
LEMMA InvNotOverstated == CatalogInv => AuthNotOverstated
<1> SUFFICES ASSUME CatalogInv, NEW r \in routes
             PROVE  LET real == {AuthOf(q.mids) : q \in MayBe(r, prog)}
                    IN  /\ \E l \in real : Strength[AuthOf(r.mids)] <= Strength[l]
                        /\ GroupsBare(prog) => AuthOf(r.mids) \in real
  BY DEF AuthNotOverstated
<1>1. PICK q \in MayBe(r, prog) : /\ r.mids \subseteq q.mids
                                  /\ GroupsBare(prog) => r.mids = q.mids
  BY DEF CatalogInv, Listed
<1>2. Strength[AuthOf(r.mids)] <= Strength[AuthOf(q.mids)]
  <2> DEFINE a == AuthOf(r.mids)
             b == AuthOf(q.mids)
             m == Strength[a]
             n == Strength[b]
  <2>1. a \in {"", "user", "admin"} /\ b \in {"", "user", "admin"}
    BY Zenon DEF AuthOf
  <2>2. (a = "admin" => b = "admin") /\ (a = "user" => b # "")
    BY <1>1 DEF AuthOf
  <2>3. Strength[""] = 0 /\ Strength["user"] = 1 /\ Strength["admin"] = 2
    BY DEF Strength
  <2> HIDE DEF a, b
  <2>4. n = 0 \/ n = 1 \/ n = 2
    BY <2>1, <2>3, Zenon
  <2>5. m = 0 \/ (m = 1 /\ (n = 1 \/ n = 2)) \/ (m = 2 /\ n = 2)
    BY <2>1, <2>2, <2>3, Zenon
  <2> HIDE DEF m, n
  <2>6. m <= n
    BY <2>4, <2>5
  <2> QED
    BY <2>6 DEF a, b, m, n
<1> QED
  BY <1>1, <1>2

(* With nothing left, all that the program calls has been walked.          *)
LEMMA InvIsComplete == CatalogInv => CompleteWhenCalledOnce
<1> SUFFICES ASSUME CatalogInv, Done, Plain(prog), CalledOnce, ArgumentsFollowed,
                    NEW c \in Contexts(prog), NEW k \in Registers(prog, c),
                    HasSlash(prog.body[c.fn][k])
             PROVE  \E r \in routes : SameRoute(RegisteredAt(prog, c, k), r)
  BY DEF CompleteWhenCalledOnce
<1>1. todo = {} /\ stack = <<>>
  BY DEF Done
<1>2. \A f \in Reached : HasWalked(f, prog, routes, visited)
  BY <1>1, Parts
<1>3. ASSUME NEW b \in Contexts(prog), b.fn \in Reached
      PROVE  \A j \in 1 .. Len(prog.body[b.fn]) : Handled(prog, b, j, routes, visited)
  <2>1. PICK d \in Contexts(prog) :
          d.fn = b.fn /\ HandledTo(prog, d, Len(prog.body[b.fn]) + 1, routes, visited)
    BY <1>2, <1>3 DEF HasWalked
  <2>2. d = b
    BY <2>1 DEF CalledOnce
  <2>3. Len(prog.body[b.fn]) \in Nat
    BY Parts, ContextsAre, BodyIsSeq DEF IsContext
  <2> QED
    BY <2>1, <2>2, <2>3 DEF HandledTo
<1> DEFINE S == {b \in Contexts(prog) : b.fn \in Reached}
<1>4. Outer(prog) \subseteq S
  <2>1. Outer(prog) \subseteq Contexts(prog)
    <3>1. 0 \in 0 .. Cardinality(Funcs)
      BY ProgramsAssumption, FS_CardinalityType
    <3> QED
      BY <3>1, UpToGrows, UpToSteps
  <2> QED
    BY <1>1, <2>1 DEF Outer, Reached, IsHelper
<1>5. ASSUME NEW n \in 0 .. Cardinality(Funcs) - 1, UpTo(prog)[n] \subseteq S
      PROVE  Deeper(prog, UpTo(prog)[n]) \subseteq S
  <2>1. Deeper(prog, UpTo(prog)[n]) \subseteq Contexts(prog)
    <3>1. n + 1 \in 0 .. Cardinality(Funcs)
      BY ProgramsAssumption, FS_CardinalityType
    <3> QED
      BY <3>1, UpToGrows, UpToSteps
  <2>2. ASSUME NEW b \in UpTo(prog)[n], NEW d \in CalledFrom(prog, b) PROVE d.fn \in Reached
    <3>1. b \in Contexts(prog) /\ b.fn \in Reached /\ b.fn \in Funcs
      BY <1>5, Parts, ContextsAre DEF IsContext
    <3>2. PICK j \in StmtsOf(prog, b, "call") :
            d = ContextOf(prog, prog.body[b.fn][j], EnvAt(prog, b, j))
      BY DEF CalledFrom
    <3> DEFINE h == prog.body[b.fn][j].callee
    <3>3. j \in 1 .. Len(prog.body[b.fn]) /\ h \in Funcs
      BY <3>1, <3>2, Parts, BodyIsSeq DEF StmtsOf
    <3>4. /\ Handled(prog, b, j, routes, visited)
          /\ GroupParam(prog, h) # None => IsFollowed(prog, b.fn, j)
      BY <1>3, <3>1, <3>2, <3>3 DEF ArgumentsFollowed, IsHelper
    <3>5. d.fn = h
      BY <3>2 DEF ContextOf
    <3>6. GroupParam(prog, h) # None => h \in visited
      BY <3>2, <3>4 DEF Handled
    <3> QED
      BY <1>1, <3>3, <3>5, <3>6 DEF Reached, IsHelper
  <2> QED
    BY <1>5, <2>1, <2>2 DEF Deeper
<1>6. Contexts(prog) \subseteq S
  BY <1>4, <1>5, UpToInduct
<1>7. k \in 1 .. Len(prog.body[c.fn])
  BY Parts, ContextsAre, BodyIsSeq DEF Registers, StmtsOf, IsContext
<1>8. Handled(prog, c, k, routes, visited)
  BY <1>3, <1>6, <1>7
<1> QED
  BY <1>8 DEF Handled, SameRoute

----------------------------------------------------------------------------
(* The loop of FieldsOf.                                                   *)
WithField(o, f) ==
    IF Keeps(f) THEN Append(o, [name |-> FieldName(f), required |-> f.required]) ELSE o

LEMMA FieldsOfUnfolds ==
    ASSUME NEW fields, AreFields(fields)
    PROVE  \E h : /\ FieldsOf(fields) = h[Len(fields)] /\ h[0] = <<>>
                  /\ \A i \in 1 .. Len(fields) : h[i] = WithField(h[i - 1], fields[i])
<1> DEFINE L == Len(fields)
           Is(h, n) == h = [i \in 0 .. n |-> IF i = 0 THEN <<>> ELSE WithField(h[i - 1], fields[i])]
           S == {n \in Nat : \E h : Is(h, n)}
<1>0. L \in Nat
  BY LenProperties DEF AreFields
<1>1. 0 \in S
  <2> DEFINE h == [i \in 0 .. 0 |-> <<>>]
  <2>1. h = [i \in 0 .. 0 |-> IF i = 0 THEN <<>> ELSE WithField(h[i - 1], fields[i])]
    OBVIOUS
  <2>2. Is(h, 0)
    BY <2>1
  <2> HIDE DEF h, Is
  <2>3. \E u : Is(u, 0)
    BY <2>2, Zenon
  <2> QED
    BY <2>3
<1>2. \A n \in Nat : n \in S => n + 1 \in S
  <2> TAKE n \in Nat
  <2> HAVE n \in S
  <2>1. PICK g : Is(g, n)
    OBVIOUS
  <2> DEFINE h == [i \in 0 .. n + 1 |-> IF i = n + 1 THEN WithField(g[n], fields[n + 1]) ELSE g[i]]
  <2> HIDE DEF h
  <2>2. \A i \in 0 .. n : h[i] = g[i]
    BY DEF h
  <2>3. \A i \in 0 .. n + 1 : h[i] = IF i = 0 THEN <<>> ELSE WithField(h[i - 1], fields[i])
    <3> TAKE i \in 0 .. n + 1
    <3>1. CASE i = n + 1
      <4>1. h[i] = WithField(g[n], fields[n + 1])
        BY <3>1 DEF h
      <4>2. i - 1 = n /\ i # 0
        BY <3>1
      <4>3. h[i - 1] = g[n]
        BY <4>2, <2>2
      <4> QED
        BY <3>1, <4>1, <4>2, <4>3
    <3>2. CASE i # n + 1
      <4>1. i \in 0 .. n /\ (i # 0 => i - 1 \in 0 .. n)
        BY <3>2
      <4>2. g[i] = IF i = 0 THEN <<>> ELSE WithField(g[i - 1], fields[i])
        BY <4>1, <2>1
      <4> QED
        BY <4>1, <4>2, <2>2
    <3> QED
      BY <3>1, <3>2
  <2>4. DOMAIN h = 0 .. n + 1 /\ h = [i \in DOMAIN h |-> h[i]]
    BY DEF h
  <2>5. Is(h, n + 1)
    BY <2>3, <2>4, Zenon
  <2> QED
    BY <2>5
<1>3. Nat \subseteq S
  BY <1>1, <1>2, NatInduct
<1>4. PICK h : h = CHOOSE u : Is(u, L)
  OBVIOUS
<1>5. Is(h, L)
  <2>1. \E u : Is(u, L)
    BY <1>0, <1>3
  <2> HIDE DEF Is
  <2> QED
    BY <1>4, <2>1
<1>6. FieldsOf(fields) = h[L]
  BY <1>4 DEF FieldsOf, WithField
<1>7. h[0] = <<>> /\ \A i \in 1 .. L : h[i] = WithField(h[i - 1], fields[i])
  BY <1>0, <1>5
<1> QED
  BY <1>6, <1>7

(* The loops of the generator unfold.                                      *)
LEMMA LocalVarsUnfolds ==
    ASSUME NEW stmts, AreStmts(stmts)
    PROVE  \E h : /\ LocalVars(stmts) = h[Len(stmts)] /\ h[0] = EmptyMap
                  /\ \A i \in 1 .. Len(stmts) : h[i] = Declare(h[i - 1], stmts[i])
<1> DEFINE L == Len(stmts)
           Is(h, n) == h = [i \in 0 .. n |-> IF i = 0 THEN EmptyMap ELSE Declare(h[i - 1], stmts[i])]
           S == {n \in Nat : \E h : Is(h, n)}
<1>0. L \in Nat
  BY LenProperties DEF AreStmts
<1>1. 0 \in S
  <2> DEFINE h == [i \in 0 .. 0 |-> EmptyMap]
  <2>1. h = [i \in 0 .. 0 |-> IF i = 0 THEN EmptyMap ELSE Declare(h[i - 1], stmts[i])]
    OBVIOUS
  <2>2. Is(h, 0)
    BY <2>1
  <2> HIDE DEF h, Is
  <2>3. \E u : Is(u, 0)
    BY <2>2, Zenon
  <2> QED
    BY <2>3
<1>2. \A n \in Nat : n \in S => n + 1 \in S
  <2> TAKE n \in Nat
  <2> HAVE n \in S
  <2>1. PICK g : Is(g, n)
    OBVIOUS
  <2> DEFINE h == [i \in 0 .. n + 1 |-> IF i = n + 1 THEN Declare(g[n], stmts[n + 1]) ELSE g[i]]
  <2> HIDE DEF h
  <2>2. \A i \in 0 .. n : h[i] = g[i]
    BY DEF h
  <2>3. \A i \in 0 .. n + 1 : h[i] = IF i = 0 THEN EmptyMap ELSE Declare(h[i - 1], stmts[i])
    <3> TAKE i \in 0 .. n + 1
    <3>1. CASE i = n + 1
      <4>1. h[i] = Declare(g[n], stmts[n + 1])
        BY <3>1 DEF h
      <4>2. i - 1 = n /\ i # 0
        BY <3>1
      <4>3. h[i - 1] = g[n]
        BY <4>2, <2>2
      <4> QED
        BY <3>1, <4>1, <4>2, <4>3
    <3>2. CASE i # n + 1
      <4>1. i \in 0 .. n /\ (i # 0 => i - 1 \in 0 .. n)
        BY <3>2
      <4>2. g[i] = IF i = 0 THEN EmptyMap ELSE Declare(g[i - 1], stmts[i])
        BY <4>1, <2>1
      <4> QED
        BY <4>1, <4>2, <2>2
    <3> QED
      BY <3>1, <3>2
  <2>4. DOMAIN h = 0 .. n + 1 /\ h = [i \in DOMAIN h |-> h[i]]
    BY DEF h
  <2>5. Is(h, n + 1)
    BY <2>3, <2>4, Zenon
  <2> QED
    BY <2>5
<1>3. Nat \subseteq S
  BY <1>1, <1>2, NatInduct
<1>4. PICK h : h = CHOOSE u : Is(u, L)
  OBVIOUS
<1>5. Is(h, L)
  <2>1. \E u : Is(u, L)
    BY <1>0, <1>3
  <2> HIDE DEF Is
  <2> QED
    BY <1>4, <2>1
<1>6. LocalVars(stmts) = h[L]
  BY <1>4 DEF LocalVars
<1>7. h[0] = EmptyMap /\ \A i \in 1 .. L : h[i] = Declare(h[i - 1], stmts[i])
  BY <1>0, <1>5
<1> QED
  BY <1>6, <1>7

LEMMA ExtractContractUnfolds ==
    ASSUME NEW stmts, NEW ctx, AreStmts(stmts)
    PROVE  \E h : /\ ExtractContract(stmts, ctx) = h[Len(stmts)] /\ h[0] = Empty
                  /\ \A i \in 1 .. Len(stmts) : h[i] = Visit(h[i - 1], stmts[i], LocalVars(stmts), ctx)
<1> DEFINE L == Len(stmts)
           Is(h, n) == h = [i \in 0 .. n |-> IF i = 0 THEN Empty ELSE Visit(h[i - 1], stmts[i], LocalVars(stmts), ctx)]
           S == {n \in Nat : \E h : Is(h, n)}
<1>0. L \in Nat
  BY LenProperties DEF AreStmts
<1>1. 0 \in S
  <2> DEFINE h == [i \in 0 .. 0 |-> Empty]
  <2>1. h = [i \in 0 .. 0 |-> IF i = 0 THEN Empty ELSE Visit(h[i - 1], stmts[i], LocalVars(stmts), ctx)]
    OBVIOUS
  <2>2. Is(h, 0)
    BY <2>1
  <2> HIDE DEF h, Is
  <2>3. \E u : Is(u, 0)
    BY <2>2, Zenon
  <2> QED
    BY <2>3
<1>2. \A n \in Nat : n \in S => n + 1 \in S
  <2> TAKE n \in Nat
  <2> HAVE n \in S
  <2>1. PICK g : Is(g, n)
    OBVIOUS
  <2> DEFINE h == [i \in 0 .. n + 1 |-> IF i = n + 1 THEN Visit(g[n], stmts[n + 1], LocalVars(stmts), ctx) ELSE g[i]]
  <2> HIDE DEF h
  <2>2. \A i \in 0 .. n : h[i] = g[i]
    BY DEF h
  <2>3. \A i \in 0 .. n + 1 : h[i] = IF i = 0 THEN Empty ELSE Visit(h[i - 1], stmts[i], LocalVars(stmts), ctx)
    <3> TAKE i \in 0 .. n + 1
    <3>1. CASE i = n + 1
      <4>1. h[i] = Visit(g[n], stmts[n + 1], LocalVars(stmts), ctx)
        BY <3>1 DEF h
      <4>2. i - 1 = n /\ i # 0
        BY <3>1
      <4>3. h[i - 1] = g[n]
        BY <4>2, <2>2
      <4> QED
        BY <3>1, <4>1, <4>2, <4>3
    <3>2. CASE i # n + 1
      <4>1. i \in 0 .. n /\ (i # 0 => i - 1 \in 0 .. n)
        BY <3>2
      <4>2. g[i] = IF i = 0 THEN Empty ELSE Visit(g[i - 1], stmts[i], LocalVars(stmts), ctx)
        BY <4>1, <2>1
      <4> QED
        BY <4>1, <4>2, <2>2
    <3> QED
      BY <3>1, <3>2
  <2>4. DOMAIN h = 0 .. n + 1 /\ h = [i \in DOMAIN h |-> h[i]]
    BY DEF h
  <2>5. Is(h, n + 1)
    BY <2>3, <2>4, Zenon
  <2> QED
    BY <2>5
<1>3. Nat \subseteq S
  BY <1>1, <1>2, NatInduct
<1>4. PICK h : h = CHOOSE u : Is(u, L)
  OBVIOUS
<1>5. Is(h, L)
  <2>1. \E u : Is(u, L)
    BY <1>0, <1>3
  <2> HIDE DEF Is
  <2> QED
    BY <1>4, <2>1
<1>6. ExtractContract(stmts, ctx) = h[L]
  BY <1>4 DEF ExtractContract
<1>7. h[0] = Empty /\ \A i \in 1 .. L : h[i] = Visit(h[i - 1], stmts[i], LocalVars(stmts), ctx)
  BY <1>0, <1>5
<1> QED
  BY <1>6, <1>7

LEMMA CollectContractsUnfolds ==
    ASSUME NEW ms, ms \in Seq(Range(ms))
    PROVE  \E h : /\ CollectContracts(ms) = h[Len(ms)] /\ h[0] = EmptyMap
                  /\ \A i \in 1 .. Len(ms) : h[i] = Collect(h[i - 1], ms[i])
<1> DEFINE L == Len(ms)
           Is(h, n) == h = [i \in 0 .. n |-> IF i = 0 THEN EmptyMap ELSE Collect(h[i - 1], ms[i])]
           S == {n \in Nat : \E h : Is(h, n)}
<1>0. L \in Nat
  BY LenProperties
<1>1. 0 \in S
  <2> DEFINE h == [i \in 0 .. 0 |-> EmptyMap]
  <2>1. h = [i \in 0 .. 0 |-> IF i = 0 THEN EmptyMap ELSE Collect(h[i - 1], ms[i])]
    OBVIOUS
  <2>2. Is(h, 0)
    BY <2>1
  <2> HIDE DEF h, Is
  <2>3. \E u : Is(u, 0)
    BY <2>2, Zenon
  <2> QED
    BY <2>3
<1>2. \A n \in Nat : n \in S => n + 1 \in S
  <2> TAKE n \in Nat
  <2> HAVE n \in S
  <2>1. PICK g : Is(g, n)
    OBVIOUS
  <2> DEFINE h == [i \in 0 .. n + 1 |-> IF i = n + 1 THEN Collect(g[n], ms[n + 1]) ELSE g[i]]
  <2> HIDE DEF h
  <2>2. \A i \in 0 .. n : h[i] = g[i]
    BY DEF h
  <2>3. \A i \in 0 .. n + 1 : h[i] = IF i = 0 THEN EmptyMap ELSE Collect(h[i - 1], ms[i])
    <3> TAKE i \in 0 .. n + 1
    <3>1. CASE i = n + 1
      <4>1. h[i] = Collect(g[n], ms[n + 1])
        BY <3>1 DEF h
      <4>2. i - 1 = n /\ i # 0
        BY <3>1
      <4>3. h[i - 1] = g[n]
        BY <4>2, <2>2
      <4> QED
        BY <3>1, <4>1, <4>2, <4>3
    <3>2. CASE i # n + 1
      <4>1. i \in 0 .. n /\ (i # 0 => i - 1 \in 0 .. n)
        BY <3>2
      <4>2. g[i] = IF i = 0 THEN EmptyMap ELSE Collect(g[i - 1], ms[i])
        BY <4>1, <2>1
      <4> QED
        BY <4>1, <4>2, <2>2
    <3> QED
      BY <3>1, <3>2
  <2>4. DOMAIN h = 0 .. n + 1 /\ h = [i \in DOMAIN h |-> h[i]]
    BY DEF h
  <2>5. Is(h, n + 1)
    BY <2>3, <2>4, Zenon
  <2> QED
    BY <2>5
<1>3. Nat \subseteq S
  BY <1>1, <1>2, NatInduct
<1>4. PICK h : h = CHOOSE u : Is(u, L)
  OBVIOUS
<1>5. Is(h, L)
  <2>1. \E u : Is(u, L)
    BY <1>0, <1>3
  <2> HIDE DEF Is
  <2> QED
    BY <1>4, <2>1
<1>6. CollectContracts(ms) = h[L]
  BY <1>4 DEF CollectContracts
<1>7. h[0] = EmptyMap /\ \A i \in 1 .. L : h[i] = Collect(h[i - 1], ms[i])
  BY <1>0, <1>5
<1> QED
  BY <1>6, <1>7


LEMMA AppendIs ==
    ASSUME NEW o, o \in Seq(Range(o)), NEW e
    PROVE  LET u == Append(o, e)
           IN  u \in Seq(Range(u)) /\ Len(u) = Len(o) + 1 /\ ToSet(u) = ToSet(o) \cup {e}
<1> DEFINE T == Range(o) \cup {e}
           u == Append(o, e)
<1>1. o \in Seq(T) /\ e \in T
  BY SeqMonotonic
<1>2. /\ u \in Seq(T) /\ Len(u) = Len(o) + 1
      /\ \A i \in 1 .. Len(o) : u[i] = o[i]
      /\ u[Len(o) + 1] = e
  BY <1>1, AppendProperties
<1>3. u \in Seq(Range(u)) /\ DOMAIN u = 1 .. Len(u)
  BY <1>2, SeqOfRange, LenProperties
<1>4. Len(o) \in Nat /\ DOMAIN o = 1 .. Len(o)
  BY LenProperties
<1> HIDE DEF u
<1>5. ToSet(u) = ToSet(o) \cup {e}
  <2>1. DOMAIN u = DOMAIN o \cup {Len(o) + 1}
    BY <1>2, <1>3, <1>4
  <2> QED
    BY <1>2, <1>4, <2>1 DEF ToSet
<1> QED
  BY <1>2, <1>3, <1>5 DEF u

LEMMA StmtsAre ==
    ASSUME NEW stmts, AreStmts(stmts)
    PROVE  /\ Len(stmts) \in Nat /\ DOMAIN stmts = 1 .. Len(stmts)
           /\ \A i \in 1 .. Len(stmts) :
                /\ stmts[i].kind \in {"var", "call"}
                /\ stmts[i].kind = "var" =>
                     /\ stmts[i].id # NoName
                     /\ stmts[i].type.kind = "struct" => AreFields(stmts[i].type.fields)
<1>1. Len(stmts) \in Nat /\ DOMAIN stmts = 1 .. Len(stmts)
  BY LenProperties DEF AreStmts
<1>2. \A i \in 1 .. Len(stmts) : stmts[i] \in Range(stmts)
  BY <1>1, ElementOfSeq DEF AreStmts
<1> QED
  BY <1>1, <1>2 DEF AreStmts

(* The fields that stay, by name.                                          *)
LEMMA FieldsOfNames ==
    ASSUME NEW fields, AreFields(fields)
    PROVE  {f.name : f \in ToSet(FieldsOf(fields))} =
             {FieldName(f) : f \in {f \in ToSet(fields) : Keeps(f)}}
<1> DEFINE L == Len(fields)
<1>1. PICK h : /\ FieldsOf(fields) = h[L] /\ h[0] = <<>>
               /\ \A i \in 1 .. L : h[i] = WithField(h[i - 1], fields[i])
  BY FieldsOfUnfolds
<1>0. L \in Nat /\ DOMAIN fields = 1 .. L
  BY LenProperties DEF AreFields
<1> DEFINE Names(n) == {FieldName(fields[i]) : i \in {i \in 1 .. n : Keeps(fields[i])}}
           Good(o, n) == o \in Seq(Range(o)) /\ {f.name : f \in ToSet(o)} = Names(n)
           S == {n \in Nat : n <= L => Good(h[n], n)}
<1>2. 0 \in S
  <2>1. <<>> \in Seq(Range(<<>>)) /\ ToSet(<<>>) = {}
    BY EmptySeq DEF ToSet
  <2>2. Names(0) = {}
    OBVIOUS
  <2> QED
    BY <1>1, <2>1, <2>2
<1> HIDE DEF Good
<1>3. ASSUME NEW n \in Nat, n \in S, n + 1 <= L PROVE Good(h[n + 1], n + 1)
  <2> DEFINE o == h[n]
             f == fields[n + 1]
             e == [name |-> FieldName(f), required |-> f.required]
  <2>1. Good(o, n) /\ n + 1 \in 1 .. L
    BY <1>0, <1>3
  <2>2. h[n + 1] = IF Keeps(f) THEN Append(o, e) ELSE o
    <3>1. h[n + 1] = WithField(h[(n + 1) - 1], f) /\ (n + 1) - 1 = n
      BY <1>1, <2>1
    <3> QED
      BY <3>1 DEF WithField
  <2>3. Names(n + 1) = Names(n) \cup IF Keeps(f) THEN {FieldName(f)} ELSE {}
    <3>1. {i \in 1 .. n + 1 : Keeps(fields[i])} =
            {i \in 1 .. n : Keeps(fields[i])} \cup IF Keeps(f) THEN {n + 1} ELSE {}
      OBVIOUS
    <3> QED
      BY <3>1
  <2>4. e.name = FieldName(f)
    OBVIOUS
  <2> HIDE DEF o, f, e, Names
  <2>5. CASE Keeps(f)
    <3>1. Append(o, e) \in Seq(Range(Append(o, e))) /\ ToSet(Append(o, e)) = ToSet(o) \cup {e}
        BY <2>1, AppendIs DEF Good
    <3>2. {x.name : x \in ToSet(o) \cup {e}} = {x.name : x \in ToSet(o)} \cup {FieldName(f)}
      BY <2>4
    <3> QED
      BY <2>1, <2>2, <2>3, <2>5, <3>1, <3>2 DEF Good
  <2>6. CASE ~ Keeps(f)
    BY <2>1, <2>2, <2>3, <2>6 DEF Good
  <2> QED
    BY <2>5, <2>6
<1>4. Nat \subseteq S
  <2>1. \A n \in Nat : n \in S => n + 1 \in S
    BY <1>3
  <2> HIDE DEF S
  <2> QED
    BY <1>2, <2>1, NatInduct
<1>5. {f.name : f \in ToSet(FieldsOf(fields))} = Names(L)
  <2>1. Good(h[L], L)
    BY <1>0, <1>4
  <2> QED
    BY <1>1, <2>1 DEF Good
<1>6. Names(L) = {FieldName(f) : f \in {f \in ToSet(fields) : Keeps(f)}}
  BY <1>0 DEF ToSet
<1> QED
  BY <1>5, <1>6

LEMMA TypeHasFields ==
    ASSUME NEW t, t.kind = "struct" => AreFields(t.fields)
    PROVE  AreFields(FieldList(t))
<1>1. AreFields(<<>>)
  <2>1. <<>> \in Seq(Range(<<>>)) /\ Range(<<>>) = {}
    BY EmptySeq DEF Range
  <2> QED
    BY <2>1 DEF AreFields
<1>2. CASE t.kind = "struct"
  BY <1>2 DEF FieldList
<1>3. CASE t.kind # "struct"
  BY <1>1, <1>3, StructsAssumption DEF FieldList, Lookup, Has
<1> QED
  BY <1>2, <1>3

(* With one name each, the fields of a type are its JSON names.            *)
LEMMA FieldsFromTypeNames ==
    ASSUME NEW t, t.kind = "struct" => AreFields(t.fields), OneNameEach(t)
    PROVE  {f.name : f \in ToSet(FieldsFromType(t))} = JsonNames(t)
<1> DEFINE F == ToSet(FieldList(t))
<1>1. {f.name : f \in ToSet(FieldsFromType(t))} = {FieldName(f) : f \in {f \in F : Keeps(f)}}
  BY TypeHasFields, FieldsOfNames DEF FieldsFromType
<1>2. \A f \in F : f.names \in Seq(Range(f.names) \ {NoName}) /\ Len(f.names) <= 1
  <2>1. F = Range(FieldList(t))
    BY DEF ToSet, Range
  <2> QED
    BY <2>1, TypeHasFields DEF AreFields, OneNameEach
<1> HIDE DEF F
<1>3. \A f \in F : /\ f.names = <<>> => ToSet(f.names) = {}
                   /\ f.names # <<>> => ToSet(f.names) = {f.names[1]} /\ f.names[1] # NoName
  <2> TAKE f \in F
  <2> DEFINE N == f.names
  <2>1. N \in Seq(Range(N) \ {NoName}) /\ Len(N) <= 1 /\ Len(N) \in Nat /\ DOMAIN N = 1 .. Len(N)
    BY <1>2, LenProperties
  <2> HIDE DEF N
  <2>2. CASE N = <<>>
    BY <2>2 DEF ToSet, N
  <2>3. CASE N # <<>>
    <3>1. Len(N) = 1
      BY <2>1, <2>3, EmptySeq
    <3>2. DOMAIN N = {1}
      BY <2>1, <3>1
    <3>3. N[1] \in Range(N) \ {NoName}
      BY <2>1, <3>1, ElementOfSeq
    <3> QED
      BY <2>3, <3>2, <3>3 DEF ToSet, N
  <2> QED
    BY <2>2, <2>3 DEF N
<1>4. "-" # NoName
  BY DEF NoName
<1>5. JsonNames(t) = {f.tag : f \in {f \in F : f.tag \notin {NoName, "-"}}}
                     \cup UNION {ToSet(f.names) : f \in {f \in F : f.tag = NoName}}
  BY DEF JsonNames, F
<1>6. ASSUME NEW f \in F, Keeps(f)
      PROVE  FieldName(f) \in JsonNames(t)
  BY <1>3, <1>5, <1>6 DEF Keeps, FieldName
<1>7. ASSUME NEW x \in JsonNames(t)
      PROVE  \E f \in F : Keeps(f) /\ x = FieldName(f)
  <2>1. CASE x \in {f.tag : f \in {f \in F : f.tag \notin {NoName, "-"}}}
    BY <2>1 DEF Keeps, FieldName
  <2>2. CASE x \in UNION {ToSet(f.names) : f \in {f \in F : f.tag = NoName}}
    <3>1. PICK f \in F : f.tag = NoName /\ x \in ToSet(f.names)
      BY <2>2
    <3>2. f.names # <<>> /\ x = f.names[1] /\ x # NoName
      BY <1>3, <3>1
    <3> QED
      BY <1>4, <3>1, <3>2 DEF Keeps, FieldName
  <2> QED
    BY <1>5, <1>7, <2>1, <2>2
<1>8. {FieldName(f) : f \in {f \in F : Keeps(f)}} = JsonNames(t)
  BY <1>6, <1>7
<1> QED
  BY <1>1, <1>8

(* A variable has the type of its last declaration.                        *)
LEMMA LocalVarsAre ==
    ASSUME NEW stmts, AreStmts(stmts)
    PROVE  LET vs == LocalVars(stmts)
           IN  /\ \A id : id \in DOMAIN vs <=> Declarations(stmts, id) # {}
               /\ \A id : \A d \in Declarations(stmts, id) :
                    (\A j \in Declarations(stmts, id) : j <= d) => vs[id] = stmts[d].type
<1> DEFINE L == Len(stmts)
           Decl(id, n) == {i \in 1 .. n : stmts[i].kind = "var" /\ stmts[i].id = id}
           Good(vs, n) ==
             /\ \A id : id \in DOMAIN vs <=> Decl(id, n) # {}
             /\ \A id : \A d \in Decl(id, n) :
                  (\A j \in Decl(id, n) : j <= d) => vs[id] = stmts[d].type
           S(h) == {n \in Nat : n <= L => Good(h[n], n)}
<1>1. PICK h : /\ LocalVars(stmts) = h[L] /\ h[0] = EmptyMap
               /\ \A i \in 1 .. L : h[i] = Declare(h[i - 1], stmts[i])
  BY LocalVarsUnfolds
<1>0. L \in Nat /\ DOMAIN stmts = 1 .. L
  BY StmtsAre
<1>2. Good(h[0], 0)
  BY <1>1 DEF EmptyMap
<1>3. ASSUME NEW n \in Nat, Good(h[n], n), n + 1 <= L PROVE Good(h[n + 1], n + 1)
  <2> DEFINE vs == h[n]
             s == stmts[n + 1]
  <2>1. h[n + 1] = Declare(vs, s)
    <3>1. n + 1 \in 1 .. L /\ (n + 1) - 1 = n
      BY <1>0, <1>3
    <3> QED
      BY <1>1, <3>1
  <2>2. \A id : Decl(id, n + 1) =
                  Decl(id, n) \cup IF s.kind = "var" /\ s.id = id THEN {n + 1} ELSE {}
    BY <1>3
  <2>3. \A id : \A j \in Decl(id, n) : j \in Nat /\ j <= n
    OBVIOUS
  <2> HIDE DEF vs, s, Decl
  <2>4. CASE s.kind = "var"
    <3>1. h[n + 1] = Store(vs, s.id, s.type)
      BY <2>1, <2>4 DEF Declare
    <3>2. ASSUME NEW id, id # s.id
          PROVE  /\ Decl(id, n + 1) = Decl(id, n)
                 /\ id \in DOMAIN h[n + 1] <=> id \in DOMAIN vs
                 /\ id \in DOMAIN vs => h[n + 1][id] = vs[id]
      BY <2>2, <3>1, <3>2 DEF Store
    <3>3. /\ Decl(s.id, n + 1) = Decl(s.id, n) \cup {n + 1}
          /\ s.id \in DOMAIN h[n + 1] /\ h[n + 1][s.id] = s.type
      BY <2>2, <2>4, <3>1 DEF Store
    <3>4. ASSUME NEW id PROVE id \in DOMAIN h[n + 1] <=> Decl(id, n + 1) # {}
      BY <1>3, <3>2, <3>3 DEF vs
    <3>5. ASSUME NEW id, NEW d \in Decl(id, n + 1), \A j \in Decl(id, n + 1) : j <= d
          PROVE  h[n + 1][id] = stmts[d].type
      <4>1. CASE id = s.id
        <5>1. d = n + 1
          BY <2>3, <3>3, <3>5, <4>1
        <5> QED
          BY <3>3, <4>1, <5>1 DEF s
      <4>2. CASE id # s.id
        <5>1. id \in DOMAIN vs /\ vs[id] = stmts[d].type
          BY <1>3, <3>2, <3>5, <4>2 DEF vs
        <5> QED
          BY <3>2, <4>2, <5>1
      <4> QED
        BY <4>1, <4>2
    <3> QED
      BY <3>4, <3>5
  <2>5. CASE s.kind # "var"
    <3>1. h[n + 1] = vs /\ \A id : Decl(id, n + 1) = Decl(id, n)
      BY <2>1, <2>2, <2>5 DEF Declare
    <3> QED
      BY <1>3, <3>1 DEF vs
  <2> QED
    BY <2>4, <2>5
<1> HIDE DEF Good
<1>4. Nat \subseteq S(h)
  <2>1. 0 \in S(h) /\ \A n \in Nat : n \in S(h) => n + 1 \in S(h)
    BY <1>2, <1>3
  <2> HIDE DEF S
  <2> QED
    BY <2>1, NatInduct
<1>5. Good(LocalVars(stmts), L)
  BY <1>0, <1>1, <1>4
<1>6. \A id : Decl(id, L) = Declarations(stmts, id)
  BY <1>0 DEF Declarations
<1> HIDE DEF Decl
<1> QED
  BY <1>5, <1>6 DEF Good

Params == {"query", "path", "headers"}

(* A list of names, each once.                                             *)
Once(o) == /\ o \in Seq(Range(o))
           /\ IsFiniteSet(ToSet(o)) /\ Len(o) = Cardinality(ToSet(o))

LEMMA AddOnceIs ==
    ASSUME NEW o, NEW x, Once(o)
    PROVE  Once(AddOnce(o, x)) /\ ToSet(AddOnce(o, x)) = ToSet(o) \cup ({x} \ {NoName})
<1>1. DOMAIN o = 1 .. Len(o) /\ Len(o) \in Nat
  BY LenProperties DEF Once
<1>2. Contains(o, x) <=> x \in ToSet(o)
  BY <1>1 DEF Contains, ToSet
<1>3. CASE x = NoName \/ x \in ToSet(o)
  BY <1>2, <1>3 DEF AddOnce
<1>4. CASE x # NoName /\ x \notin ToSet(o)
  <2> DEFINE u == Append(o, x)
  <2>1. AddOnce(o, x) = u
    BY <1>2, <1>4 DEF AddOnce
  <2>2. u \in Seq(Range(u)) /\ Len(u) = Len(o) + 1 /\ ToSet(u) = ToSet(o) \cup {x}
    BY AppendIs DEF Once
  <2>3. IsFiniteSet(ToSet(o) \cup {x}) /\ Cardinality(ToSet(o) \cup {x}) = Cardinality(ToSet(o)) + 1
    BY <1>4, FS_AddElement DEF Once
  <2> HIDE DEF u
  <2> QED
    BY <1>4, <2>1, <2>2, <2>3 DEF Once
<1> QED
  BY <1>3, <1>4

Parts4 == {"body", "query", "path", "headers"}

(* What a call does to a contract, part by part.                           *)
Binding(s, ctx) == s.kind = "call" /\ s.on = ctx /\ s.method \in Binds

Reading(s, ctx, part) == s.kind = "call" /\ s.on = ctx /\ s.method \in ReadersOf(part)

LEMMA VisitIs ==
    ASSUME NEW c, NEW s, NEW vs, NEW ctx, DOMAIN c = Parts4
    PROVE  LET v == Visit(c, s, vs, ctx)
           IN  /\ DOMAIN v = Parts4
               /\ v.body = IF Binding(s, ctx) THEN Body(c, s, vs) ELSE c.body
               /\ \A part \in Params :
                    v[part] = IF Reading(s, ctx, part) THEN AddOnce(c[part], s.arg) ELSE c[part]
<1> DEFINE v == Visit(c, s, vs, ctx)
<1>1. /\ DOMAIN Reads = {"Query", "DefaultQuery", "GetQuery", "Param", "GetHeader"}
      /\ \A m \in DOMAIN Reads : Reads[m] \in Params
      /\ \A m \in Binds : m \notin DOMAIN Reads
  BY DEF Reads, Params, Binds
<1>2. "body" \in Parts4 /\ "body" \notin Params /\ \A part \in Params : part \in Parts4
  BY DEF Parts4, Params
<1>3. CASE Binding(s, ctx)
  <2>1. v = [c EXCEPT !.body = Body(c, s, vs)]
    BY <1>3 DEF Visit, Binding
  <2>2. \A part \in Params : ~ Reading(s, ctx, part)
    BY <1>1, <1>3 DEF Binding, Reading, ReadersOf
  <2> HIDE DEF v
  <2>3. DOMAIN v = Parts4 /\ v.body = Body(c, s, vs)
    BY <1>2, <2>1
  <2>4. \A part \in Params : v[part] = c[part]
    BY <1>2, <2>1
  <2> QED
    BY <1>3, <2>2, <2>3, <2>4 DEF v
<1>4. CASE s.kind = "call" /\ s.on = ctx /\ s.method \in DOMAIN Reads
  <2> DEFINE p == Reads[s.method]
  <2>1. ~ Binding(s, ctx) /\ p \in Params
    BY <1>1, <1>4 DEF Binding
  <2>2. v = [c EXCEPT ![p] = AddOnce(@, s.arg)]
    BY <1>4, <2>1 DEF Visit, Binding
  <2>3. \A part \in Params : Reading(s, ctx, part) <=> part = p
    BY <1>4 DEF Reading, ReadersOf
  <2> HIDE DEF v, p
  <2>4. DOMAIN v = Parts4 /\ v.body = c.body
    BY <1>2, <2>1, <2>2
  <2>5. \A part \in Params : v[part] = IF part = p THEN AddOnce(c[part], s.arg) ELSE c[part]
    BY <1>2, <2>1, <2>2
  <2> QED
    BY <2>1, <2>3, <2>4, <2>5 DEF v
<1>5. CASE ~ Binding(s, ctx) /\ ~ (s.kind = "call" /\ s.on = ctx /\ s.method \in DOMAIN Reads)
  <2>1. v = c
    BY <1>5 DEF Visit, Binding
  <2>2. \A part \in Params : ~ Reading(s, ctx, part)
    BY <1>5 DEF Reading, ReadersOf
  <2> QED
    BY <1>5, <2>1, <2>2
<1> QED
  BY <1>3, <1>4, <1>5

LEMMA HasGreatest ==
    ASSUME NEW L \in Nat, NEW T, T \subseteq 1 .. L, T # {}
    PROVE  \E x \in T : \A y \in T : y <= x
<1> DEFINE D == {n \in Nat : L - n \in T}
<1>1. D # {}
  <2>1. PICK x \in T : TRUE
    OBVIOUS
  <2>2. L - x \in Nat /\ L - (L - x) = x
    BY <2>1
  <2> QED
    BY <2>1, <2>2
<1>2. PICK m \in D : \A n \in D : ~ (n < m)
  BY <1>1, NatLeast
<1>3. ASSUME NEW y \in T PROVE y <= L - m
  <2>1. L - y \in Nat /\ L - (L - y) = y
    OBVIOUS
  <2>2. ~ (L - y < m)
    BY <1>2, <2>1
  <2> QED
    BY <2>1, <2>2, <1>2
<1> QED
  BY <1>2, <1>3

(* The contract of a handler is what it reads and binds, by induction over *)
(* its statements.                                                         *)
LEMMA ExtractIsContract ==
    ASSUME NEW stmts, NEW ctx, AreStmts(stmts)
    PROVE  IsContractOf(ExtractContract(stmts, ctx), stmts, ctx)
<1> DEFINE L == Len(stmts)
           vs == LocalVars(stmts)
           At(part, n) == {i \in CallsOn(stmts, ctx, ReadersOf(part)) : i <= n}
           Bound(n) == {i \in CallsOn(stmts, ctx, Binds) :
                          i <= n /\ Declarations(stmts, stmts[i].arg) # {}}
           Args(c, n) == \A part \in Params :
                           Once(c[part]) /\ ToSet(c[part]) = {stmts[i].arg : i \in At(part, n)}
           Latest(c, n) == /\ Bound(n) = {} => c.body = <<>>
                         /\ \A l \in Bound(n) : (\A j \in Bound(n) : j <= l) =>
                              c.body = FieldsFromType(vs[stmts[l].arg])
           Good(c, n) == DOMAIN c = Parts4 /\ Args(c, n) /\ Latest(c, n)
           S(h) == {n \in Nat : n <= L => Good(h[n], n)}
<1>1. PICK h : /\ ExtractContract(stmts, ctx) = h[L] /\ h[0] = Empty
               /\ \A i \in 1 .. L : h[i] = Visit(h[i - 1], stmts[i], vs, ctx)
  BY ExtractContractUnfolds
<1>0. L \in Nat /\ DOMAIN stmts = 1 .. L
  BY StmtsAre
<1>2. Good(h[0], 0)
  <2>1. DOMAIN Empty = Parts4 /\ Empty.body = <<>> /\ \A part \in Params : Empty[part] = <<>>
    BY DEF Empty, Parts4, Params
  <2>2. <<>> \in Seq(Range(<<>>)) /\ ToSet(<<>>) = {} /\ Len(<<>>) = 0
    BY EmptySeq DEF ToSet
  <2>3. Once(<<>>)
    BY <2>2, FS_EmptySet DEF Once
  <2>4. Bound(0) = {} /\ \A part : At(part, 0) = {}
    BY <1>0 DEF CallsOn
  <2> HIDE DEF Bound, At
  <2> QED
    BY <1>1, <2>1, <2>2, <2>3, <2>4
<1>3. ASSUME NEW n \in Nat, Good(h[n], n), n + 1 <= L PROVE Good(h[n + 1], n + 1)
  <2> DEFINE c == h[n]
             d == h[n + 1]
             s == stmts[n + 1]
  <2>1. n + 1 \in 1 .. L /\ (n + 1) - 1 = n
    BY <1>0, <1>3
  <2>2. d = Visit(c, s, vs, ctx)
    BY <1>1, <2>1
  <2>3. /\ DOMAIN d = Parts4
        /\ d.body = IF Binding(s, ctx) THEN Body(c, s, vs) ELSE c.body
        /\ \A part \in Params :
             d[part] = IF Reading(s, ctx, part) THEN AddOnce(c[part], s.arg) ELSE c[part]
    BY <1>3, <2>2, VisitIs
  <2>4. \A part \in Params : At(part, n + 1) = At(part, n)
                 \cup IF Reading(s, ctx, part) /\ s.arg # NoName THEN {n + 1} ELSE {}
    BY <1>0, <2>1 DEF CallsOn, Reading
  <2>5. Has(vs, s.arg) <=> Declarations(stmts, s.arg) # {}
    BY LocalVarsAre DEF Has
  <2>6. Has(vs, s.arg) => s.arg # NoName
    BY <2>5, StmtsAre DEF Declarations
  <2>7. Bound(n + 1) = Bound(n) \cup IF Binding(s, ctx) /\ Has(vs, s.arg) THEN {n + 1} ELSE {}
    <3>1. Bound(n + 1) = Bound(n) \cup IF Binding(s, ctx) /\ s.arg # NoName
                                            /\ Declarations(stmts, s.arg) # {} THEN {n + 1} ELSE {}
      BY <1>0, <2>1 DEF CallsOn, Binding
    <3> HIDE DEF Bound, s, vs
    <3> QED
      BY <3>1, <2>5, <2>6
  <2>8. \A j \in Bound(n) : j \in Nat /\ j <= n
    BY <1>0 DEF CallsOn
  <2>9. Args(c, n) /\ Latest(c, n)
    BY <1>3
  <2> HIDE DEF At, Bound, c, d, vs
  <2>10. Args(d, n + 1)
    <3> SUFFICES ASSUME NEW part \in Params
                 PROVE  Once(d[part]) /\ ToSet(d[part]) = {stmts[i].arg : i \in At(part, n + 1)}
      OBVIOUS
    <3> DEFINE A == {stmts[i].arg : i \in At(part, n)}
    <3>1. Once(c[part]) /\ ToSet(c[part]) = A
      BY <2>9
    <3>2. CASE Reading(s, ctx, part)
      <4>1. d[part] = AddOnce(c[part], s.arg)
        BY <2>3, <3>2
      <4>2. Once(d[part]) /\ ToSet(d[part]) = A \cup ({s.arg} \ {NoName})
        BY <3>1, <4>1, AddOnceIs
      <4>3. At(part, n + 1) = At(part, n) \cup IF s.arg # NoName THEN {n + 1} ELSE {}
        BY <2>4, <3>2
      <4>4. {stmts[i].arg : i \in At(part, n + 1)} = A \cup ({s.arg} \ {NoName})
        BY <4>3
      <4> QED
        BY <4>2, <4>4
    <3>3. CASE ~ Reading(s, ctx, part)
      BY <2>3, <2>4, <3>1, <3>3
    <3> QED
      BY <3>2, <3>3
  <2>11. Latest(d, n + 1)
    <3>1. CASE Binding(s, ctx) /\ Has(vs, s.arg)
      <4>1. d.body = FieldsFromType(vs[s.arg]) /\ Bound(n + 1) = Bound(n) \cup {n + 1}
        BY <2>3, <2>7, <3>1 DEF Body
      <4>2. \A l \in Bound(n + 1) : (\A j \in Bound(n + 1) : j <= l) => l = n + 1
        BY <2>8, <4>1
      <4> QED
        BY <4>1, <4>2
    <3>2. CASE ~ (Binding(s, ctx) /\ Has(vs, s.arg))
      <4>1. d.body = c.body /\ Bound(n + 1) = Bound(n)
        BY <2>3, <2>7, <3>2 DEF Body
      <4> QED
        BY <2>9, <4>1
    <3> QED
      BY <3>1, <3>2
  <2> QED
    BY <2>3, <2>10, <2>11 DEF d
<1> HIDE DEF Good
<1>4. Nat \subseteq S(h)
  <2>1. 0 \in S(h) /\ \A n \in Nat : n \in S(h) => n + 1 \in S(h)
    BY <1>2, <1>3
  <2> HIDE DEF S
  <2> QED
    BY <2>1, NatInduct
<1>5. Good(ExtractContract(stmts, ctx), L)
  BY <1>0, <1>1, <1>4
<1> DEFINE c == ExtractContract(stmts, ctx)
           bound == {i \in CallsOn(stmts, ctx, Binds) : Declarations(stmts, stmts[i].arg) # {}}
           last == CHOOSE i \in bound : \A j \in bound : j <= i
           decls == Declarations(stmts, stmts[last].arg)
<1>6. Bound(L) = bound /\ \A part : At(part, L) = CallsOn(stmts, ctx, ReadersOf(part))
  BY <1>0 DEF CallsOn
<1>7. bound \subseteq 1 .. L
  BY <1>0 DEF CallsOn
<1> HIDE DEF c, At, Bound, bound
<1>8. \A part \in Params :
        ToSet(c[part]) = ReadNames(stmts, ctx, part) /\ Len(c[part]) = Cardinality(ToSet(c[part]))
  BY <1>5, <1>6 DEF Good, Once, ReadNames, c
<1>9. bound = {} => c.body = <<>>
  BY <1>5, <1>6 DEF Good, c
<1>10. ASSUME bound # {}, NEW d \in decls, Cardinality(decls) = 1, OneNameEach(stmts[d].type)
       PROVE  {f.name : f \in ToSet(c.body)} = JsonNames(stmts[d].type)
  <2>1. last \in bound /\ \A j \in bound : j <= last
    <3>1. \E i \in bound : \A j \in bound : j <= i
      BY <1>0, <1>7, <1>10, HasGreatest
    <3> QED
      BY <3>1
  <2> HIDE DEF last
  <2>2. c.body = FieldsFromType(vs[stmts[last].arg])
    BY <1>5, <1>6, <2>1 DEF Good, c
  <2>3. decls = {d}
    <3>1. IsFiniteSet(decls)
      <4>1. decls \subseteq 1 .. L
        BY <1>0 DEF Declarations
      <4>2. IsFiniteSet(1 .. L)
        BY <1>0, FS_Interval
      <4> HIDE DEF decls
      <4> QED
        BY <4>1, <4>2, FS_Subset
    <3> HIDE DEF decls
    <3>2. \E x : decls = {x}
      BY <1>10, <3>1, FS_Singleton
    <3> QED
      BY <3>2
  <2>4. d \in 1 .. L /\ stmts[d].kind = "var"
    BY <1>0 DEF Declarations
  <2>5. vs[stmts[last].arg] = stmts[d].type
    <3>1. \A j \in decls : j <= d
      BY <2>3, <2>4
    <3> QED
      BY <3>1, LocalVarsAre
  <2>6. stmts[d].type.kind = "struct" => AreFields(stmts[d].type.fields)
    BY <2>4, StmtsAre
  <2> QED
    BY <1>10, <2>2, <2>5, <2>6, FieldsFromTypeNames
<1> QED
  BY <1>8, <1>9, <1>10 DEF IsContractOf, Params, bound, c

(* The contracts: of each handler under its name.                          *)
LEMMA CollectContractsAre ==
    ASSUME NEW ms, ms \in Seq(Range(ms)),
           \A i, j \in DOMAIN ms : (IsHandler(ms[i]) /\ IsHandler(ms[j]) /\ ms[i].name = ms[j].name) => i = j
    PROVE  LET out == CollectContracts(ms)
           IN  /\ \A x : x \in DOMAIN out <=> \E i \in DOMAIN ms : IsHandler(ms[i]) /\ ms[i].name = x
               /\ \A i \in DOMAIN ms : IsHandler(ms[i]) =>
                    out[ms[i].name] = ExtractContract(ms[i].body, ms[i].ctx)
<1> DEFINE L == Len(ms)
           Good(out, n) ==
             /\ \A x : x \in DOMAIN out <=> \E i \in 1 .. n : IsHandler(ms[i]) /\ ms[i].name = x
             /\ \A i \in 1 .. n : IsHandler(ms[i]) =>
                  out[ms[i].name] = ExtractContract(ms[i].body, ms[i].ctx)
           S(h) == {n \in Nat : n <= L => Good(h[n], n)}
<1>1. PICK h : /\ CollectContracts(ms) = h[L] /\ h[0] = EmptyMap
               /\ \A i \in 1 .. L : h[i] = Collect(h[i - 1], ms[i])
  BY CollectContractsUnfolds
<1>0. L \in Nat /\ DOMAIN ms = 1 .. L
  BY LenProperties
<1>2. Good(h[0], 0)
  BY <1>1 DEF EmptyMap
<1>3. ASSUME NEW n \in Nat, Good(h[n], n), n + 1 <= L PROVE Good(h[n + 1], n + 1)
  <2> DEFINE o == h[n]
             m == ms[n + 1]
             e == ExtractContract(m.body, m.ctx)
  <2>1. n + 1 \in 1 .. L /\ (n + 1) - 1 = n
    BY <1>0, <1>3
  <2>2. h[n + 1] = IF IsHandler(m) THEN Store(o, m.name, e) ELSE o
    BY <1>1, <2>1 DEF Collect
  <2>3. \A i \in 1 .. n + 1 : i = n + 1 \/ i \in 1 .. n
    OBVIOUS
  <2>4. \A i \in 1 .. n : i \in 1 .. n + 1 /\ i \in 1 .. L /\ i # n + 1
    BY <1>0, <1>3
  <2>5. \A i \in 1 .. n : IsHandler(m) /\ IsHandler(ms[i]) => ms[i].name # m.name
    BY <1>0, <2>1, <2>4
  <2>6. n + 1 \in 1 .. n + 1
    BY <2>1
  <2> HIDE DEF o, m, e
  <2>7. CASE IsHandler(m)
    <3>1. h[n + 1] = Store(o, m.name, e)
      BY <2>2, <2>7
    <3>2. ASSUME NEW x
          PROVE  x \in DOMAIN h[n + 1] <=> \E i \in 1 .. n + 1 : IsHandler(ms[i]) /\ ms[i].name = x
      <4>1. x \in DOMAIN h[n + 1] <=> x \in DOMAIN o \/ x = m.name
        BY <3>1 DEF Store
      <4>2. x \in DOMAIN o <=> \E i \in 1 .. n : IsHandler(ms[i]) /\ ms[i].name = x
        BY <1>3 DEF o
      <4> QED
        BY <2>3, <2>4, <2>6, <2>7, <4>1, <4>2 DEF m
    <3>3. ASSUME NEW i \in 1 .. n + 1, IsHandler(ms[i])
          PROVE  h[n + 1][ms[i].name] = ExtractContract(ms[i].body, ms[i].ctx)
      <4>1. CASE i = n + 1
        BY <3>1, <4>1 DEF Store, m, e
      <4>2. CASE i # n + 1
        <5>1. i \in 1 .. n /\ ms[i].name # m.name
          BY <2>3, <2>5, <2>7, <3>3, <4>2
        <5>2. ms[i].name \in DOMAIN o /\ o[ms[i].name] = ExtractContract(ms[i].body, ms[i].ctx)
          BY <1>3, <3>3, <5>1 DEF o
        <5> QED
          BY <3>1, <5>1, <5>2 DEF Store
      <4> QED
        BY <4>1, <4>2
    <3> QED
      BY <3>2, <3>3
  <2>8. CASE ~ IsHandler(m)
    <3>1. h[n + 1] = o
      BY <2>2, <2>8
    <3>2. \A i \in 1 .. n + 1 : IsHandler(ms[i]) => i \in 1 .. n
      BY <2>3, <2>8 DEF m
    <3> QED
      BY <1>3, <2>4, <3>1, <3>2 DEF o
  <2> QED
    BY <2>7, <2>8
<1> HIDE DEF Good
<1>4. Nat \subseteq S(h)
  <2>1. 0 \in S(h) /\ \A n \in Nat : n \in S(h) => n + 1 \in S(h)
    BY <1>2, <1>3
  <2> HIDE DEF S
  <2> QED
    BY <2>1, NatInduct
<1>5. Good(CollectContracts(ms), L)
  BY <1>0, <1>1, <1>4
<1> QED
  BY <1>0, <1>5 DEF Good

----------------------------------------------------------------------------
(* Each step of main keeps what the steps before it left behind.           *)
LEMMA GenInitEstablishes == GenInit => GenInv
<1> SUFFICES ASSUME GenInit PROVE GenInv
  OBVIOUS
<1>1. CatalogInv
  BY InitEstablishes DEF GenInit
<1>2. /\ step = "parse" /\ DOMAIN file = {"out", "doc"} /\ file.doc = Old
  BY DEF GenInit
<1> QED
  BY <1>1, <1>2 DEF GenInv, Joined, FilesAgree

LEMMA ParseKeeps == ASSUME GenInv, Parse PROVE GenInv'
<1>1. CatalogInv'
  BY NextKeeps DEF GenInv, Parse
<1>2. /\ (step' = "routes" /\ contracts' = CollectContracts(prog.methods)) \/ step' = "fatal"
      /\ prog' = prog /\ file' = file /\ step = "parse"
  BY DEF Parse, vars
<1> QED
  BY <1>1, <1>2 DEF GenInv, Joined, FilesAgree

LEMMA CollectRoutesKeeps == ASSUME GenInv, CollectRoutes PROVE GenInv'
<1>1. CatalogInv'
  BY NextKeeps DEF GenInv, CollectRoutes
<1>2. /\ step = "routes" /\ step' = step /\ contracts' = contracts /\ eps' = eps /\ file' = file
  BY DEF CollectRoutes, genVars
<1>3. prog' = prog
  BY DEF CollectRoutes, Next, Resolve, AssignGroup, AddRoute, SkipUse, FollowCall, SkipCall, ResolveReturns
<1> QED
  BY <1>1, <1>2, <1>3 DEF GenInv, Joined, FilesAgree

LEMMA JoinKeeps == ASSUME GenInv, Join PROVE GenInv'
<1>1. CatalogInv'
  BY NextKeeps DEF GenInv, Join
<1>2. /\ step = "routes" /\ step' = "out" /\ contracts' = contracts /\ file' = file
      /\ prog' = prog /\ routes' = routes
      /\ eps' = {Endpoint(r) : r \in routes}
  BY DEF Join, vars
<1>3. eps' = {Endpoint(r) : r \in routes}'
  BY <1>2 DEF Endpoint
<1> QED
  BY <1>1, <1>2, <1>3 DEF GenInv, Joined, FilesAgree

LEMMA WriteFileKeeps ==
    ASSUME GenInv, WriteFile("out", "doc") \/ WriteFile("doc", "exit 0") PROVE GenInv'
<1>1. CatalogInv'
  BY NextKeeps DEF GenInv, WriteFile
<1>2. contracts' = contracts /\ eps' = eps /\ prog' = prog /\ routes' = routes
  BY DEF WriteFile, vars
<1>3. {Endpoint(r) : r \in routes}' = {Endpoint(r) : r \in routes}
  BY <1>2 DEF Endpoint
<1>4. DOMAIN file = {"out", "doc"}
  BY DEF GenInv
<1>5. Joined /\ contracts = CollectContracts(prog.methods) /\ eps = {Endpoint(r) : r \in routes}
  BY DEF GenInv, Joined, WriteFile
<1>6. CASE WriteFile("out", "doc")
  <2>1. file.doc = Old /\ step = "out"
    BY <1>6 DEF GenInv, WriteFile
  <2>2. /\ DOMAIN file' = {"out", "doc"} /\ file'.doc = Old
        /\ (step' = "doc" /\ file'.out = Catalog(eps)) \/ step' = "fatal"
    BY <1>4, <1>6, <2>1 DEF WriteFile, Fatal
  <2> QED
    BY <1>1, <1>2, <1>3, <1>5, <2>2 DEF GenInv, Joined, FilesAgree
<1>7. CASE WriteFile("doc", "exit 0")
  <2>1. file.out = Catalog(eps) /\ step = "doc"
    BY <1>7 DEF GenInv, WriteFile
  <2>2. /\ DOMAIN file' = {"out", "doc"} /\ file'.out = Catalog(eps)
        /\ (step' = "exit 0" /\ file'.doc = Catalog(eps)) \/ step' = "fatal"
    BY <1>4, <1>7, <2>1 DEF WriteFile, Fatal
  <2> QED
    BY <1>1, <1>2, <1>3, <1>5, <2>2 DEF GenInv, Joined, FilesAgree
<1> QED
  BY <1>6, <1>7

(* main keeps its invariant: contracts, endpoints and files are what the   *)
(* steps before made of the package.                                       *)
THEOREM GenInvariant == GenSpec => []GenInv
<1>1. GenInit => GenInv
  BY GenInitEstablishes
<1>2. GenInv /\ [GenNext]_<<vars, genVars>> => GenInv'
  <2> SUFFICES ASSUME GenInv, [GenNext]_<<vars, genVars>> PROVE GenInv'
    OBVIOUS
  <2>1. CASE Parse
    BY <2>1, ParseKeeps
  <2>2. CASE CollectRoutes
    BY <2>2, CollectRoutesKeeps
  <2>3. CASE Join
    BY <2>3, JoinKeeps
  <2>4. CASE WriteFile("out", "doc") \/ WriteFile("doc", "exit 0")
    BY <2>4, WriteFileKeeps
  <2>5. CASE UNCHANGED <<vars, genVars>>
    <3>1. CatalogInv'
      BY <2>5, NextKeeps DEF GenInv
    <3>2. /\ step' = step /\ contracts' = contracts /\ eps' = eps /\ file' = file
          /\ prog' = prog /\ routes' = routes
      BY <2>5 DEF vars, genVars
    <3>3. {Endpoint(r) : r \in routes}' = {Endpoint(r) : r \in routes}
      BY <3>2 DEF Endpoint
    <3> QED
      BY <3>1, <3>2, <3>3 DEF GenInv, Joined, FilesAgree
  <2> QED
    BY <2>1, <2>2, <2>3, <2>4, <2>5 DEF GenNext
<1> QED
  BY <1>1, <1>2, PTL DEF GenSpec

(* With one method of a name, an endpoint has its contract.                *)
LEMMA InvEndpoints == GenInv => EndpointsAreHandlers
<1> SUFFICES ASSUME GenInv, Joined PROVE EndpointsAreHandlers
  BY DEF EndpointsAreHandlers
<1>1. prog \in Programs /\ contracts = CollectContracts(prog.methods)
      /\ eps = {Endpoint(r) : r \in routes}
  BY DEF GenInv, CatalogInv
<1> DEFINE ms == prog.methods
<1>2. /\ \A x : x \in DOMAIN contracts <=> \E i \in DOMAIN ms : IsHandler(ms[i]) /\ ms[i].name = x
      /\ \A i \in DOMAIN ms : IsHandler(ms[i]) =>
           contracts[ms[i].name] = ExtractContract(ms[i].body, ms[i].ctx)
  BY <1>1, MethodsAssumption, CollectContractsAre
<1>3. \A i \in DOMAIN ms : AreStmts(ms[i].body)
  <2>1. ms \in Seq(Range(ms)) /\ \A m \in Range(ms) : AreStmts(m.body)
    BY <1>1, MethodsAssumption
  <2> QED
    BY <2>1 DEF Range
<1>4. ASSUME NEW e \in eps
      PROVE  LET hs == {m \in {ms[i] : i \in DOMAIN ms} : IsHandler(m) /\ m.name = e.handler}
             IN  /\ hs = {} => e.contract = Empty
                 /\ \A m \in hs : IsContractOf(e.contract, m.body, m.ctx)
  <2>1. PICK r \in routes : e = Endpoint(r)
    BY <1>1
  <2>2. e.handler = r.handler /\ e.contract = Lookup(contracts, r.handler, Empty)
    BY <2>1 DEF Endpoint
  <2>3. ASSUME \A i \in DOMAIN ms : ~ (IsHandler(ms[i]) /\ ms[i].name = e.handler)
        PROVE  e.contract = Empty
    BY <1>2, <2>2, <2>3 DEF Lookup, Has
  <2>4. ASSUME NEW i \in DOMAIN ms, IsHandler(ms[i]), ms[i].name = e.handler
        PROVE  IsContractOf(e.contract, ms[i].body, ms[i].ctx)
    <3>1. e.contract = ExtractContract(ms[i].body, ms[i].ctx)
      BY <1>2, <2>2, <2>4 DEF Lookup, Has
    <3> QED
      BY <1>3, <3>1, ExtractIsContract
  <2> HIDE DEF ms
  <2> QED
    BY <2>3, <2>4
<1>5. \A r \in routes : \E e \in eps : SameRoute(e, r)
  <2>1. \A r \in routes : SameRoute(Endpoint(r), r)
    BY DEF SameRoute, Endpoint
  <2> QED
    BY <1>1, <2>1
<1> QED
  BY <1>4, <1>5 DEF EndpointsAreHandlers

(* Every route in the catalog of a package in the style that the tool      *)
(* reads is one that the program registers under that path, whatever the   *)
(* order in which the map gives the functions.                             *)
THEOREM CatalogIsSound == GenSpec => []Sound
<1>1. GenInv => Sound
  BY InvIsSound DEF GenInv
<1> QED
  BY <1>1, GenInvariant, PTL

(* When every helper of such a package is called with the same groups      *)
(* only, the first one an argument that is followed, no route with a       *)
(* literal path and a named handler is missing from a finished catalog,    *)
(* whatever the order.                                                     *)
THEOREM CatalogIsComplete == GenSpec => []CompleteWhenCalledOnce
<1>1. GenInv => CompleteWhenCalledOnce
  BY InvIsComplete DEF GenInv
<1> QED
  BY <1>1, GenInvariant, PTL

(* collectRoutes never walks a function inside its own walk, so that       *)
(* helpers that call each other end.                                       *)
THEOREM CatalogNoRecursion == GenSpec => []NoRecursion
<1>1. GenInv => NoRecursion
  BY DEF GenInv, CatalogInv
<1> QED
  BY <1>1, GenInvariant, PTL

(* No label claims a guard that the registered route does not have, and    *)
(* labels are exact where groups carry no middleware.                      *)
THEOREM CatalogAuthNotOverstated == GenSpec => []AuthNotOverstated
<1>1. GenInv => AuthNotOverstated
  BY InvNotOverstated DEF GenInv
<1> QED
  BY <1>1, GenInvariant, PTL

(* Every endpoint has the contract of its handler, each parameter once,    *)
(* and no route is lost in the join.                                       *)
THEOREM CatalogEndpointsAreHandlers == GenSpec => []EndpointsAreHandlers
<1>1. GenInv => EndpointsAreHandlers
  BY InvEndpoints
<1> QED
  BY <1>1, GenInvariant, PTL

(* After a success both files hold the same catalog, and the document is   *)
(* never newer than the embedded file.                                     *)
THEOREM CatalogFilesAgree == GenSpec => []FilesAgree
<1>1. GenInv => FilesAgree
  BY DEF GenInv
<1> QED
  BY <1>1, GenInvariant, PTL
=============================================================================
