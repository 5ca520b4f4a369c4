---------------------------- MODULE MCApiCatalog ----------------------------
(* Packages: two set-up functions and two helpers, every combination of a  *)
(* few bodies in the style that the tool reads; some that are not; and one *)
(* set of routes with every handler of up to three statements.             *)
EXTENDS ApiCatalog

CONSTANTS setup, extra, regA, regB, api, adm, grp, router, group, db

Handler(h) == <<h>>
Auth(h) == <<"AuthMiddleware", h>>
Admin(h) == <<"AuthMiddleware", "AdminMiddleware", h>>

(* A variable, a selector, a chained call; s.router is the engine, s.group *)
(* a group below it, p.db none at all.                                     *)
Var(x) == [is |-> "ident", name |-> x]
Sel(x) == [is |-> "field", name |-> x]
Chain(x, path, mids) == [is |-> "chain", name |-> x, path |-> path, mids |-> mids]

Router == Sel(router)

Outer1 == [x \in {group} |-> [path |-> <<"/api">>, mids |-> {"AuthMiddleware"}]]

(* A path that reads as gin makes it, one that gin changes, constants.     *)
P(text) == [text |-> <<text>>, gin |-> <<text>>]
Slash(text, gin) == [text |-> <<text>>, gin |-> <<gin>>]
NoPath == [text |-> <<>>, gin |-> <<>>]
Const(gin) == [text |-> <<>>, gin |-> <<gin>>]

Assign(kind, var, recv, path, mids) ==
    [kind |-> kind, var |-> var, recv |-> recv, path |-> path, mids |-> mids]
GroupStmt(var, recv, path, mids) == Assign("group", var, recv, path, mids)
Unseen(var, recv, path, mids) == Assign("unseen", var, recv, path, mids)
UseOf(recv, mids) == [kind |-> "use", recv |-> recv, mids |-> mids]
RouteOf(recv, path, chain) == [kind |-> "route", recv |-> recv, path |-> path, chain |-> chain]
CallOf(f, args) == [kind |-> "call", callee |-> f, args |-> args]

SetupBodies ==
    {<<GroupStmt(api, Router, P("/api"), <<>>), RouteOf(Var(api), P("/x"), Auth("handleX")),
       CallOf(regA, <<Var(api)>>)>>,
     <<GroupStmt(api, Router, P("/api"), <<"AuthMiddleware">>),
       GroupStmt(adm, Var(api), P("/admin"), <<>>), CallOf(regB, <<Var(adm)>>)>>,
     <<GroupStmt(api, Router, P("/v1"), <<>>), GroupStmt(api, Var(api), P("/api"), <<>>),
       CallOf(regA, <<Var(api)>>), RouteOf(Router, P("/x"), Admin("handleX")),
       RouteOf(Var(api), NoPath, Handler("handleX")), RouteOf(Var(api), P("/l"), <<None>>)>>}

ExtraBodies ==
    {<<>>, <<CallOf(regA, <<Router>>)>>,
     <<RouteOf(Router, P("/x"), Handler("handleX")), UseOf(Router, <<"AdminMiddleware">>),
       CallOf(regB, <<Var(adm)>>)>>,
     <<UseOf(Var(adm), <<"AuthMiddleware">>), CallOf(regB, <<Var(adm)>>), CallOf(setup, <<>>)>>}

RegABodies ==
    {<<RouteOf(Var(grp), P("/a"), Handler("handleAdminList"))>>,
     <<GroupStmt(api, Var(grp), P("/sub"), <<>>), RouteOf(Var(api), P("/a"), Admin("handleAdminList")),
       CallOf(regB, <<Var(api)>>)>>}

RegBBodies ==
    {<<RouteOf(Var(grp), P("/b"), Auth("handleB"))>>,
     <<RouteOf(Var(grp), P("/b"), Handler("handleB")), CallOf(regA, <<Var(grp)>>)>>,
     <<RouteOf(Var(api), P("/b"), Handler("handleB"))>>}

(* Not in that style: a selector that is a group; chained calls; paths     *)
(* that gin changes or that are constants; a group that is declared; and a *)
(* helper whose group is not its first parameter.                          *)
OddBodies ==
    {<<GroupStmt(api, Sel(group), P("/v1"), <<>>), RouteOf(Sel(group), P("/x"), Auth("handleX")),
       CallOf(regA, <<Sel(group)>>), CallOf(regA, <<Var(api)>>)>>,
     <<RouteOf(Chain(router, P("/v1"), <<"AuthMiddleware">>), P("/x"), Handler("handleX")),
       UseOf(Chain(router, P("/v1"), <<>>), <<"AdminMiddleware">>),
       CallOf(regA, <<Chain(router, P("/v1"), <<>>)>>)>>,
     <<GroupStmt(api, Router, Slash("v1", "/v1"), <<>>), RouteOf(Var(api), P("/x"), Admin("handleX")),
       GroupStmt(adm, Router, Const("/admin"), <<>>), CallOf(regA, <<Var(adm)>>),
       RouteOf(Router, Slash("y", "/y"), Handler("handleX"))>>,
     <<Unseen(api, Router, P("/v1"), <<"AuthMiddleware">>), RouteOf(Var(api), P("/x"), Handler("handleX")),
       CallOf(regA, <<Var(api)>>)>>}

SecondBodies ==
    {<<GroupStmt(api, Router, P("/v1"), <<>>), CallOf(regB, <<Sel(db), Var(api)>>),
       CallOf(regA, <<Var(api)>>)>>,
     <<GroupStmt(api, Router, P("/v1"), <<>>), CallOf(regB, <<Var(db), Var(api)>>)>>}

MCFuncs == {setup, extra, regA, regB}

MCParams == [f \in MCFuncs |-> IF f \in {regA, regB} THEN <<grp>> ELSE <<>>]

Routing(s, e, a, b) ==
    [f \in MCFuncs |-> CASE f = setup -> s [] f = extra -> e [] f = regA -> a [] OTHER -> b]

Field(names, tag, required) == [names |-> names, tag |-> tag, required |-> required]

MCStructs == [createReq |-> <<Field(<<"Name">>, "name", TRUE), Field(<<"size">>, "", FALSE),
                             Field(<<"Secret">>, "-", FALSE), Field(<<>>, "", FALSE)>>]

VarOf(id, t) == [kind |-> "var", id |-> id, type |-> t]
ReadOf(on, m, arg) == [kind |-> "call", on |-> on, method |-> m, arg |-> arg]

Inline == [kind |-> "struct", fields |-> <<Field(<<"x", "y">>, "", FALSE), Field(<<"Z">>, "z", TRUE)>>]

Stmts == {VarOf("req", [kind |-> "name", name |-> "createReq"]), VarOf("req", Inline),
          VarOf("q", [kind |-> "name", name |-> "elsewhere"]),
          ReadOf("c", "ShouldBindJSON", "req"), ReadOf("c", "BindJSON", "q"),
          ReadOf("c", "Query", "limit"), ReadOf("c", "DefaultQuery", "limit"),
          ReadOf("c", "Query", ""), ReadOf("c", "Param", "id"), ReadOf("c", "GetHeader", "If-Match"),
          ReadOf("db", "Query", "select"), ReadOf("c", "JSON", "ok")}

Bodies == UNION {[1 .. n -> Stmts] : n \in 0 .. 3}

Method(name, recv, ctx, body) == [name |-> name, recv |-> recv, ctx |-> ctx, body |-> body]

Methods(body) ==
    <<Method("handleX", "Other", "c", <<ReadOf("c", "Query", "other")>>),
      Method("handleX", "Server", "c", body), Method("handleB", "Server", None, body),
      Method("handleAdminList", "Server", "c", <<ReadOf("c", "Query", "page")>>)>>

Package(params, body, handlerBody) ==
    [params |-> params, body |-> body, outer |-> Outer1, methods |-> Methods(handlerBody)]

MCPrograms ==
    {Package(MCParams, Routing(s, e, a, b), <<>>) :
       s \in SetupBodies, e \in ExtraBodies, a \in RegABodies, b \in RegBBodies}
    \cup {Package(MCParams, Routing(s, <<>>, a, b), <<>>) :
            s \in OddBodies, a \in RegABodies, b \in RegBBodies}
    \cup {Package([MCParams EXCEPT ![regB] = ps],
                  Routing(s, <<>>, <<RouteOf(Var(grp), P("/a"), Auth("handleAdminList"))>>, b), <<>>) :
            ps \in {<<None, grp>>, <<adm, grp>>}, s \in SecondBodies,
            b \in {<<RouteOf(Var(grp), P("/b"), Auth("handleB"))>>}}
    \cup {Package(MCParams, Routing(<<RouteOf(Router, P("/x"), Handler("handleX"))>>, <<>>, <<>>, <<>>),
                  body) : body \in Bodies}
=============================================================================
