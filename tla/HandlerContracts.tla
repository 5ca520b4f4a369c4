-------------------------- MODULE HandlerContracts --------------------------
(* extractContract of api-catalog-gen: what a handler reads of a request.  *)
(* A handler is the sequence of its statements that matter, in source      *)
(* order: var id T, x.ShouldBindJSON(&id), x.Query("n") and the like, where *)
(* x may or may not be the handler's context.  A name that is not a        *)
(* literal, and a target that is not a variable, is NoName.                *)
EXTENDS Naturals, SequencesExt, GoMap

CONSTANT Structs  \* package-level struct types: their fields by type name

NoName == ""

(* What parses.  A field has a tag and its names, as JSON would have them; *)
(* a variable has a name and a type.                                       *)
AreFields(fields) ==
    /\ fields \in Seq(Range(fields))
    /\ \A f \in Range(fields) : f.names \in Seq(Range(f.names) \ {NoName})

AreStmts(stmts) ==
    /\ stmts \in Seq(Range(stmts))
    /\ \A s \in Range(stmts) :
         /\ s.kind \in {"var", "call"}
         /\ s.kind = "var" => s.id # NoName /\ (s.type.kind = "struct" => AreFields(s.type.fields))

ASSUME StructsAssumption == \A t \in DOMAIN Structs : AreFields(Structs[t])

Empty == [body |-> <<>>, query |-> <<>>, path |-> <<>>, headers |-> <<>>]

(* What each method of the context reads.                                  *)
Reads == [Query |-> "query", DefaultQuery |-> "query", GetQuery |-> "query",
          Param |-> "path", GetHeader |-> "headers"]
Binds == {"ShouldBindJSON", "BindJSON", "ShouldBind"}

----------------------------------------------------------------------------
(* The JSON name of a field: its tag's, or the first of its own, in lower  *)
(* case.  What has none is embedded; a tag "-" drops the field.            *)
FieldName(f) == IF f.tag # NoName THEN f.tag ELSE IF f.names = <<>> THEN NoName ELSE f.names[1]

Keeps(f) == f.tag # "-" /\ FieldName(f) # NoName

FieldsOf(fields) ==
    LET out[i \in 0 .. Len(fields)] ==
          IF i = 0 THEN <<>>
          ELSE IF Keeps(fields[i])
               THEN Append(out[i - 1], [name |-> FieldName(fields[i]), required |-> fields[i].required])
               ELSE out[i - 1]
    IN  out[Len(fields)]

(* fieldsFromType: a struct, or the name of one or a pointer to it.        *)
FieldList(t) == IF t.kind = "struct" THEN t.fields ELSE Lookup(Structs, t.name, <<>>)

FieldsFromType(t) == FieldsOf(FieldList(t))

(* The first walk: the types of the variables, of which the last           *)
(* declaration of a name stays.                                            *)
Declare(vs, s) == IF s.kind = "var" THEN Store(vs, s.id, s.type) ELSE vs

LocalVars(stmts) ==
    LET vs[i \in 0 .. Len(stmts)] == IF i = 0 THEN EmptyMap ELSE Declare(vs[i - 1], stmts[i])
    IN  vs[Len(stmts)]

(* Broken variant: names are not remembered.                               *)
AddAgain(names, n) == IF n = NoName THEN names ELSE Append(names, n)

AddOnce(names, n) == IF n = NoName \/ Contains(names, n) THEN names ELSE Append(names, n)

Body(c, s, vs) == IF Has(vs, s.arg) THEN FieldsFromType(vs[s.arg]) ELSE c.body

(* The second walk: the calls of methods of the context.                   *)
Visit(c, s, vs, ctx) ==
    IF s.kind # "call" THEN c
    ELSE IF s.on # ctx THEN c
    ELSE IF s.method \in Binds THEN [c EXCEPT !.body = Body(c, s, vs)]
    ELSE IF s.method \in DOMAIN Reads THEN [c EXCEPT ![Reads[s.method]] = AddOnce(@, s.arg)]
    ELSE c

ExtractContract(stmts, ctx) ==
    LET vs == LocalVars(stmts)
        c[i \in 0 .. Len(stmts)] == IF i = 0 THEN Empty ELSE Visit(c[i - 1], stmts[i], vs, ctx)
    IN  c[Len(stmts)]

----------------------------------------------------------------------------
(* The reference: what the handler reads of a request, and what it binds.  *)
CallsOn(stmts, ctx, methods) ==
    {i \in DOMAIN stmts : /\ stmts[i].kind = "call" /\ stmts[i].on = ctx
                          /\ stmts[i].method \in methods /\ stmts[i].arg # NoName}

ReadersOf(part) == {m \in DOMAIN Reads : Reads[m] = part}

ReadNames(stmts, ctx, part) == {stmts[i].arg : i \in CallsOn(stmts, ctx, ReadersOf(part))}

Declarations(stmts, id) == {i \in DOMAIN stmts : stmts[i].kind = "var" /\ stmts[i].id = id}

JsonNames(t) ==
    {f.tag : f \in {f \in ToSet(FieldList(t)) : f.tag \notin {NoName, "-"}}}
    \cup UNION {ToSet(f.names) : f \in {f \in ToSet(FieldList(t)) : f.tag = NoName}}

OneNameEach(t) == \A f \in ToSet(FieldList(t)) : Len(f.names) <= 1

(* The parameters are exact, each once.  The body is that of the last bind *)
(* of a declared variable, when no other variable has its name and no two  *)
(* fields are declared together.                                           *)
IsContractOf(c, stmts, ctx) ==
    LET bound == {i \in CallsOn(stmts, ctx, Binds) : Declarations(stmts, stmts[i].arg) # {}}
        last == CHOOSE i \in bound : \A j \in bound : j <= i
        decls == Declarations(stmts, stmts[last].arg)
    IN  /\ \A part \in {"query", "path", "headers"} :
             ToSet(c[part]) = ReadNames(stmts, ctx, part) /\ Len(c[part]) = Cardinality(ToSet(c[part]))
        /\ bound = {} => c.body = <<>>
        /\ bound # {} =>
             \A d \in decls : Cardinality(decls) = 1 /\ OneNameEach(stmts[d].type) =>
               {f.name : f \in ToSet(c.body)} = JsonNames(stmts[d].type)
=============================================================================
