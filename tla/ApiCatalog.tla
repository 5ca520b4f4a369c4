----------------------------- MODULE ApiCatalog -----------------------------
(* main of api-catalog-gen: parse the package, extract the contract of     *)
(* every handler, walk the routes, join the two by the handler's name, and *)
(* write the catalog to two files.  A package also has methods: in source  *)
(* order, each with its receiver, its context parameter and its body.      *)
EXTENDS RouteCatalog, HandlerContracts

CONSTANT RecvType  \* -recv

VARIABLES step,       \* how far main is
          contracts,  \* the contract of each handler, by name
          eps,        \* the endpoints
          file        \* the two files, the embedded one and the document

genVars == <<step, contracts, eps, file>>

Old == [is |-> "old"]
Cut == [is |-> "cut"]
Catalog(es) == [is |-> "new", endpoints |-> es]

GenInit == /\ Init
           /\ step = "parse"
           /\ contracts = EmptyMap /\ eps = {}
           /\ file = [f \in {"out", "doc"} |-> Old]

----------------------------------------------------------------------------
(* isServerMethod, ginContextParam.                                        *)
IsHandler(m) == m.recv = RecvType /\ m.ctx # None

Collect(out, m) == IF IsHandler(m) THEN Store(out, m.name, ExtractContract(m.body, m.ctx)) ELSE out

CollectContracts(ms) ==
    LET out[i \in 0 .. Len(ms)] == IF i = 0 THEN EmptyMap ELSE Collect(out[i - 1], ms[i])
    IN  out[Len(ms)]

(* What parses, once more: a type has one method of a name.                *)
ASSUME MethodsAssumption ==
    \A g \in Programs :
      /\ g.methods \in Seq(Range(g.methods))
      /\ \A m \in Range(g.methods) : AreStmts(m.body)
      /\ \A i, j \in DOMAIN g.methods :
           (IsHandler(g.methods[i]) /\ IsHandler(g.methods[j]) /\ g.methods[i].name = g.methods[j].name)
             => i = j

(* An unreadable directory or a file that does not parse ends the run.     *)
Parse ==
    /\ step = "parse"
    /\ \/ step' = "routes" /\ contracts' = CollectContracts(prog.methods)
       \/ step' = "fatal" /\ UNCHANGED contracts
    /\ UNCHANGED <<vars, eps, file>>

CollectRoutes ==
    /\ step = "routes"
    /\ Next
    /\ UNCHANGED genVars

(* A route whose handler has no contract gets the empty one.               *)
Endpoint(r) == [path |-> r.path, handler |-> r.handler, auth |-> AuthOf(r.mids),
                contract |-> Lookup(contracts, r.handler, Empty)]

Join ==
    /\ step = "routes" /\ Done
    /\ step' = "out"
    /\ eps' = {Endpoint(r) : r \in routes}
    /\ UNCHANGED <<vars, contracts, file>>

(* Broken variant: a failed write is passed over.                          *)
AfterFailure(next) == next

(* A write that fails may have emptied the file; the run ends.             *)
Fatal(next) == "fatal"

WriteFile(f, next) ==
    /\ step = f
    /\ \/ step' = next /\ file' = [file EXCEPT ![f] = Catalog(eps)]
       \/ step' = Fatal(next) /\ \E x \in {file[f], Cut} : file' = [file EXCEPT ![f] = x]
    /\ UNCHANGED <<vars, contracts, eps>>

GenNext == Parse \/ CollectRoutes \/ Join \/ WriteFile("out", "doc") \/ WriteFile("doc", "exit 0")

GenSpec == GenInit /\ [][GenNext]_<<vars, genVars>>

----------------------------------------------------------------------------
Joined == step \in {"out", "doc", "exit 0"}

(* Every endpoint carries the contract of the method that the package has  *)
(* under the handler's name, or an empty one if it has none, and all that  *)
(* a route gives is there: nothing is lost or mixed up in the join.        *)
EndpointsAreHandlers ==
    Joined =>
      /\ \A e \in eps :
           LET ms == {m \in {prog.methods[i] : i \in DOMAIN prog.methods} :
                        IsHandler(m) /\ m.name = e.handler}
           IN  /\ ms = {} => e.contract = Empty
               /\ \A m \in ms : IsContractOf(e.contract, m.body, m.ctx)
      /\ \A r \in routes : \E e \in eps : SameRoute(e, r)

(* When the generator reports success both files are whole and the same;   *)
(* the embedded file is never older than the document.                     *)
FilesAgree ==
    /\ step = "exit 0" => file.out = Catalog(eps) /\ file.doc = file.out
    /\ file.doc # Old => file.out = Catalog(eps)

(* Why it is so: what each step of main leaves behind.                     *)
GenInv ==
    /\ CatalogInv
    /\ step \in {"parse", "routes", "out", "doc", "exit 0", "fatal"}
    /\ step = "routes" \/ Joined => contracts = CollectContracts(prog.methods)
    /\ Joined => eps = {Endpoint(r) : r \in routes}
    /\ DOMAIN file = {"out", "doc"}
    /\ step \in {"parse", "routes", "out"} => file.doc = Old
    /\ step = "doc" => file.out = Catalog(eps)
    /\ FilesAgree
=============================================================================
