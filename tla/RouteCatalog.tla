---------------------------- MODULE RouteCatalog ----------------------------
(* collectRoutes of api-catalog-gen.  It walks every function that is not  *)
(* a helper with a *gin.RouterGroup parameter, in the order of a Go map,   *)
(* and follows the calls of helpers with the prefix of their first         *)
(* argument, each helper once.  A program is given by the statements of    *)
(* its functions that matter: x := recv.Group(path, middleware...), the    *)
(* same in a form that the tool does not read ("unseen": a var             *)
(* declaration, several values), recv.Use(middleware...), recv.METHOD(path,*)
(* middleware..., handler) and helper(args).  An expression is a variable, *)
(* a selector like s.router or p.db, or a chained name.Group(path, ...);   *)
(* selectors and variables have different names.  A path is what the tool  *)
(* reads of it and what gin makes of it, as sequences of literals: a       *)
(* constant reads as <<>>, and gin adds a slash or takes one away.  The    *)
(* method is part of the literal.                                          *)
EXTENDS Naturals, SequencesExt, GoMap

CONSTANTS Funcs,     \* names of functions
          Programs,  \* packages: the bodies of their functions, the names of
                     \* the parameters, and the groups that fields and
                     \* outer variables hold
          None,      \* a parameter that is no group, no name
          Slashed,   \* literals with a leading slash
          AdminNames, AuthNames  \* names with "Admin" or "Auth" in them

(* What parses: every function has a body, a sequence of statements, and   *)
(* calls functions of the package with as many arguments as they take.     *)
ASSUME ProgramsAssumption ==
    /\ IsFiniteSet(Funcs)
    /\ \A g \in Programs :
         /\ DOMAIN g.body = Funcs /\ DOMAIN g.params = Funcs
         /\ \A f \in Funcs :
              /\ g.params[f] \in Seq(Range(g.params[f]))
              /\ \A i, j \in DOMAIN g.params[f] :
                   g.params[f][i] = g.params[f][j] => i = j \/ g.params[f][i] = None
              /\ g.body[f] \in Seq(Range(g.body[f]))
              /\ \A s \in Range(g.body[f]) :
                   /\ s.kind \in {"group", "unseen", "use", "route", "call"}
                   /\ s.kind = "call" =>
                        /\ s.callee \in Funcs
                        /\ s.args \in Seq(Range(s.args)) /\ Len(s.args) = Len(g.params[s.callee])

VARIABLES prog,     \* the package, which does not change
          todo,     \* functions that are not helpers and not yet walked
          stack,    \* the frames of resolve, innermost first
          visited,  \* helpers that were followed
          routes    \* the routes found

vars == <<prog, todo, stack, visited, routes>>

(* A prefix is the sequence of the literals that make it up.               *)
Root == <<>>

(* routerGroupParam: the first parameter that is a group.                  *)
GroupParam(g, f) ==
    LET groups == {i \in DOMAIN g.params[f] : g.params[f][i] # None}
    IN  IF groups = {} THEN None
        ELSE g.params[f][CHOOSE i \in groups : \A j \in groups : i <= j]

IsHelper(f) == GroupParam(prog, f) # None

Init == /\ prog \in Programs
        /\ todo = {f \in Funcs : ~ IsHelper(f)}
        /\ stack = <<>>
        /\ visited = {}
        /\ routes = {}

----------------------------------------------------------------------------
(* A known variable has its prefix; anything else is taken for the root.   *)
PrefixOfReceiver(e, env) == IF e.is = "ident" THEN Lookup(env, e.name, Root) ELSE Root

(* A call is followed with any selector or a known variable as its first   *)
(* argument.                                                               *)
ArgGroupPrefix(e, env) == e.is = "field" \/ (e.is = "ident" /\ Has(env, e.name))

Group(s, env) == Store(env, s.var, PrefixOfReceiver(s.recv, env) \o s.path.text)

(* handlerAndMiddleware: the last name of the chain and those before it; a *)
(* function literal has no name.  Broken variant: the handler is counted   *)
(* among the middleware.                                                   *)
WholeChain(chain) == chain

Middleware(chain) == Front(chain)

Named(s) == s.chain # <<>> /\ Last(s.chain) # None

(* A literal path with a leading slash.                                    *)
HasSlash(s) == s.path.text # <<>> /\ Head(s.path.text) \in Slashed

Route(s, env) == [path |-> PrefixOfReceiver(s.recv, env) \o s.path.text,
                  handler |-> Last(s.chain), mids |-> ToSet(Middleware(s.chain))]

AuthOf(mids) == IF mids \cap AdminNames # {} THEN "admin"
                ELSE IF mids \cap AuthNames # {} THEN "user" ELSE ""

SameRoute(q, r) == q.path = r.path /\ q.handler = r.handler

(* dedupRoutes: of the same method, path and handler the first stays.      *)
WithRoute(rs, r) == IF \E q \in rs : SameRoute(q, r) THEN rs ELSE rs \cup {r}

(* Broken variant: a helper's body sees its caller's groups.               *)
CallersEnv(s, env) == env

(* What a helper knows: its group parameter, wherever it is, has the       *)
(* prefix of the first argument.                                           *)
HelperEnv(s, env) ==
    [x \in {GroupParam(prog, s.callee)} |-> PrefixOfReceiver(Head(s.args), env)]

Frame(f, k, env) == [fn |-> f, pc |-> k, env |-> env]

Top == Head(stack)

Stmt == prog.body[Top.fn][Top.pc]

AtStmt(kind) == stack # <<>> /\ Top.pc <= Len(prog.body[Top.fn]) /\ Stmt.kind = kind

Continue(env) == <<Frame(Top.fn, Top.pc + 1, env)>> \o Tail(stack)

(* The next function, in whatever order the map has.                       *)
Resolve(f) ==
    /\ stack = <<>> /\ f \in todo
    /\ todo' = todo \ {f}
    /\ stack' = <<Frame(f, 1, EmptyMap)>>
    /\ UNCHANGED <<prog, visited, routes>>

AssignGroup ==
    /\ AtStmt("group")
    /\ stack' = Continue(Group(Stmt, Top.env))
    /\ UNCHANGED <<prog, todo, visited, routes>>

AddRoute ==
    /\ AtStmt("route")
    /\ routes' = IF HasSlash(Stmt) /\ Named(Stmt) THEN WithRoute(routes, Route(Stmt, Top.env))
                  ELSE routes
    /\ stack' = Continue(Top.env)
    /\ UNCHANGED <<prog, todo, visited>>

(* Middleware of a group is not looked at, nor is any other way to assign  *)
(* one.                                                                    *)
SkipUse ==
    /\ AtStmt("use") \/ AtStmt("unseen")
    /\ stack' = Continue(Top.env)
    /\ UNCHANGED <<prog, todo, visited, routes>>

FirstIsGroup(s, env) == s.args # <<>> /\ ArgGroupPrefix(Head(s.args), env)

(* Broken variants: helpers are followed again and again, or not inside    *)
(* helpers.                                                                *)
FollowsAgain(s, env) == IsHelper(s.callee) /\ FirstIsGroup(s, env)

FollowsAtTop(s, env) ==
    IsHelper(s.callee) /\ s.callee \notin visited /\ FirstIsGroup(s, env) /\ Len(stack) = 1

Follows(s, env) ==
    IsHelper(s.callee) /\ s.callee \notin visited /\ FirstIsGroup(s, env)

FollowCall ==
    /\ AtStmt("call") /\ Follows(Stmt, Top.env)
    /\ visited' = visited \cup {Stmt.callee}
    /\ stack' = <<Frame(Stmt.callee, 1, HelperEnv(Stmt, Top.env))>> \o Continue(Top.env)
    /\ UNCHANGED <<prog, todo, routes>>

SkipCall ==
    /\ AtStmt("call") /\ ~ Follows(Stmt, Top.env)
    /\ stack' = Continue(Top.env)
    /\ UNCHANGED <<prog, todo, visited, routes>>

(* The body has been walked.                                               *)
ResolveReturns ==
    /\ stack # <<>> /\ Top.pc > Len(prog.body[Top.fn])
    /\ stack' = Tail(stack)
    /\ UNCHANGED <<prog, todo, visited, routes>>

Next == \/ \E f \in Funcs : Resolve(f)
        \/ AssignGroup \/ AddRoute \/ SkipUse \/ FollowCall \/ SkipCall \/ ResolveReturns

Spec == Init /\ [][Next]_vars

Done == todo = {} /\ stack = <<>>

----------------------------------------------------------------------------
(* The reference: what a package registers when it runs.  A context is a   *)
(* function and the groups it is called with, each a prefix and the        *)
(* middleware of the group; each call is a context of its own, as deep as  *)
(* calls nest without recursion.  What no statement or parameter gives is  *)
(* what a field or an outer variable holds.  (A helper's Use does not      *)
(* reach its caller here, nor a second name of a group the first.)         *)
Bare == [path |-> Root, mids |-> {}]

OuterGroup(g, x) == Lookup(g.outer, x, Bare)

GroupAt(g, x, env) == Lookup(env, x, OuterGroup(g, x))

With(x, mids) == [path |-> x.path, mids |-> x.mids \cup ToSet(mids)]

Sub(x, path) == [path |-> x.path \o path.gin, mids |-> x.mids]

GroupOf(g, e, env) ==
    LET x == GroupAt(g, e.name, env)
    IN  IF e.is = "chain" THEN With(Sub(x, e.path), e.mids) ELSE x

After(g, s, env) ==
    CASE s.kind \in {"group", "unseen"} ->
           Store(env, s.var, With(Sub(GroupOf(g, s.recv, env), s.path), s.mids))
      [] s.kind = "use" /\ s.recv.is # "chain" ->
           Store(env, s.recv.name, With(GroupOf(g, s.recv, env), s.mids))
      [] OTHER -> env

(* The groups before each statement of a context, and after the last.      *)
Envs(g, c) ==
    LET env[k \in 1 .. Len(g.body[c.fn]) + 1] ==
          IF k = 1 THEN c.env ELSE After(g, g.body[c.fn][k - 1], env[k - 1])
    IN  env

EnvAt(g, c, k) == Envs(g, c)[k]

StmtsOf(g, c, kind) == {k \in DOMAIN g.body[c.fn] : g.body[c.fn][k].kind = kind}

ContextOf(g, s, env) ==
    LET ps == g.params[s.callee]
        At(x) == CHOOSE i \in DOMAIN ps : ps[i] = x
    IN  [fn |-> s.callee,
         env |-> [x \in Range(ps) \ {None} |-> GroupOf(g, s.args[At(x)], env)]]

CalledFrom(g, c) == {ContextOf(g, g.body[c.fn][k], EnvAt(g, c, k)) : k \in StmtsOf(g, c, "call")}

UpTo(g) ==
    LET upTo[n \in 0 .. Cardinality(Funcs)] ==
          IF n = 0 THEN {[fn |-> f, env |-> EmptyMap] : f \in {f \in Funcs : GroupParam(g, f) = None}}
          ELSE LET before == upTo[n - 1]
               IN  before \cup UNION {CalledFrom(g, c) : c \in before}
    IN  upTo

Contexts(g) == UpTo(g)[Cardinality(Funcs)]

RegisteredAt(g, c, k) ==
    LET s == g.body[c.fn][k]
        x == Sub(GroupOf(g, s.recv, EnvAt(g, c, k)), s.path)
    IN  [path |-> x.path, handler |-> Last(s.chain), mids |-> x.mids \cup ToSet(Front(s.chain))]

Registers(g, c) == {k \in StmtsOf(g, c, "route") : Named(g.body[c.fn][k])}

Registered(g) == UNION {{RegisteredAt(g, c, k) : k \in Registers(g, c)} : c \in Contexts(g)}

(* The style that the tool reads.  Known names are the group parameter and *)
(* the variables that an assignment before statement k gave a group;       *)
(* hidden ones get a group in a way it does not see.                       *)
Known(g, f, k) ==
    ({GroupParam(g, f)} \ {None})
    \cup {g.body[f][j].var : j \in {j \in DOMAIN g.body[f] : j < k /\ g.body[f][j].kind = "group"}}

Hidden(g, f) ==
    (Range(g.params[f]) \ {None, GroupParam(g, f)})
    \cup {g.body[f][j].var : j \in {j \in DOMAIN g.body[f] : g.body[f][j].kind = "unseen"}}

(* A known variable, or a name that stands for the root.                   *)
ReadsRight(g, f, k, e) ==
    /\ e.is # "chain" /\ e.name \notin Hidden(g, f)
    /\ IF e.name \in Known(g, f, k) THEN e.is = "ident" ELSE OuterGroup(g, e.name).path = Root

ReadsPath(s) == s.path.text = s.path.gin

(* Groups, and routes that are listed, have receivers and paths of that    *)
(* style, and helpers take the group as their first argument.              *)
Plain(g) ==
    \A f \in Funcs : \A k \in DOMAIN g.body[f] :
      LET s == g.body[f][k]
      IN  /\ s.kind = "group" \/ (s.kind = "route" /\ HasSlash(s)) =>
               ReadsRight(g, f, k, s.recv) /\ ReadsPath(s)
          /\ s.kind = "call" /\ GroupParam(g, s.callee) # None =>
               /\ GroupParam(g, s.callee) = Head(g.params[s.callee])
               /\ ReadsRight(g, f, k, Head(s.args))

(* In a package of that style every route in the catalog is one that the   *)
(* program registers, under the path it has there, in whatever order       *)
(* functions and helpers are walked.                                       *)
Sound == Plain(prog) => \A r \in routes : \E q \in Registered(prog) : SameRoute(q, r)

(* When each helper is called with the same groups only, and its first     *)
(* argument is one the analysis follows, the catalog has all of the        *)
(* program's routes with a literal path and a named handler, whatever the  *)
(* order of the map.                                                       *)
CalledOnce == \A c, d \in Contexts(prog) : c.fn = d.fn => c = d

IsFollowed(g, f, k) ==
    LET s == g.body[f][k]
    IN  /\ s.args # <<>>
        /\ \/ Head(s.args).is = "field"
           \/ Head(s.args).is = "ident" /\ Head(s.args).name \in Known(g, f, k)

ArgumentsFollowed ==
    \A c \in Contexts(prog) : \A k \in StmtsOf(prog, c, "call") :
      IsHelper(prog.body[c.fn][k].callee) => IsFollowed(prog, c.fn, k)

CompleteWhenCalledOnce ==
    (Done /\ Plain(prog) /\ CalledOnce /\ ArgumentsFollowed) =>
      \A c \in Contexts(prog) : \A k \in Registers(prog, c) :
        HasSlash(prog.body[c.fn][k]) =>
          \E r \in routes : SameRoute(RegisteredAt(prog, c, k), r)

(* No function is walked again inside its own walk, helpers that call each *)
(* other included, so that the recursion ends.                             *)
NoRecursion ==
    \A i, j \in DOMAIN stack : stack[i].fn = stack[j].fn => i = j

(* The label of a route claims no more than the middleware that guards it, *)
(* that of its groups included, and is exact where groups carry none.      *)
Strength == [x \in {"", "user", "admin"} |-> CASE x = "" -> 0 [] x = "user" -> 1 [] OTHER -> 2]

BareChain(e) == e.is = "chain" => e.mids = <<>>

GroupsBare(g) ==
    /\ \A x \in DOMAIN g.outer : g.outer[x].mids = {}
    /\ \A f \in Funcs : \A k \in DOMAIN g.body[f] :
         LET s == g.body[f][k]
         IN  /\ s.kind \in {"group", "unseen", "use"} => s.mids = <<>>
             /\ IF s.kind = "call" THEN \A i \in DOMAIN s.args : BareChain(s.args[i])
                ELSE BareChain(s.recv)

MayBe(r, g) == {q \in Registered(g) : q.handler = r.handler /\ (Plain(g) => q.path = r.path)}

AuthNotOverstated ==
    \A r \in routes :
      LET real == {AuthOf(q.mids) : q \in MayBe(r, prog)}
      IN  /\ \E l \in real : Strength[AuthOf(r.mids)] <= Strength[l]
          /\ GroupsBare(prog) => AuthOf(r.mids) \in real

----------------------------------------------------------------------------
(* Why the walk is right.  A frame walks a context of its function: what   *)
(* it knows, in a package of that style, is the path of the group, and     *)
(* what it has behind it is in the catalog, or followed.                   *)
Agrees(env, g, c, k) ==
    /\ DOMAIN env = Known(g, c.fn, k)
    /\ Plain(g) =>
         \A x \in (DOMAIN env \cup DOMAIN EnvAt(g, c, k)) \ Hidden(g, c.fn) :
           GroupAt(g, x, EnvAt(g, c, k)).path = Lookup(env, x, OuterGroup(g, x).path)

Handled(g, c, k, rs, seen) ==
    /\ k \in Registers(g, c) /\ HasSlash(g.body[c.fn][k]) /\ Plain(g) =>
         \E r \in rs : SameRoute(r, RegisteredAt(g, c, k))
    /\ k \in StmtsOf(g, c, "call") /\ IsFollowed(g, c.fn, k) =>
         LET h == g.body[c.fn][k].callee IN GroupParam(g, h) # None => h \in seen

HandledTo(g, c, k, rs, seen) == \A j \in 1 .. k - 1 : Handled(g, c, j, rs, seen)

Walks(f, n, g, rs, seen) ==
    /\ f.fn \in Funcs /\ f.pc \in 1 .. Len(g.body[f.fn]) + 1
    /\ \E c \in UpTo(g)[n] :
         c.fn = f.fn /\ Agrees(f.env, g, c, f.pc) /\ HandledTo(g, c, f.pc, rs, seen)

HasWalked(f, g, rs, seen) ==
    \E c \in Contexts(g) : c.fn = f /\ HandledTo(g, c, Len(g.body[f]) + 1, rs, seen)

Reached == {f \in Funcs \ todo : ~ IsHelper(f)} \cup visited

StackInv ==
    /\ stack \in Seq(Range(stack))
    /\ \A i \in DOMAIN stack :
         stack[i].fn \in Reached /\ Walks(stack[i], Len(stack) - i, prog, routes, visited)

ReachedInv ==
    /\ todo \subseteq {f \in Funcs : ~ IsHelper(f)}
    /\ visited \subseteq {f \in Funcs : IsHelper(f)}
    /\ \A f \in Reached : (\A i \in DOMAIN stack : stack[i].fn # f) =>
         HasWalked(f, prog, routes, visited)

(* A route is one of the program's, under the middleware of its own call.  *)
Listed(r, g) ==
    \E q \in MayBe(r, g) : /\ r.mids \subseteq q.mids
                           /\ GroupsBare(g) => r.mids = q.mids

CatalogInv ==
    /\ prog \in Programs
    /\ StackInv /\ NoRecursion /\ ReachedInv
    /\ \A r \in routes : Listed(r, prog)
=============================================================================
