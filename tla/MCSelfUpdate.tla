---------------------------- MODULE MCSelfUpdate ----------------------------
(* Values for SelfUpdate's constants: the deployed binary a0 and three     *)
(* later ones; dock's directives for them, complete, unsigned, or with a   *)
(* part missing.                                                           *)
EXTENDS OtaLoop

CONSTANTS a0, a1, a2, a3, v0, v1, v2, v3

Labels == [a \in Artifacts |-> IF a = a0 THEN v0 ELSE IF a = a1 THEN v1
                             ELSE IF a = a2 THEN v2 ELSE v3]

Manifest(a) == [version |-> Labels[a], sha256 |-> a, format |-> ""]

SomeSigned == {Manifest(a1), Manifest(a2)}

Directive(a) == [version |-> Labels[a], url |-> "path", sha256 |-> a, manifest |-> Manifest(a),
                 sig |-> Manifest(a)]

Unsigned(a) == [Directive(a) EXCEPT !.sig = None]

Bare(a) == [Unsigned(a) EXCEPT !.manifest = None]

(* The releases of a1 and a2, one of a3, which nobody signed, without its  *)
(* signature or its manifest or with the manifest of a1, and one for an    *)
(* archive.                                                                *)
ManyOffers ==
    {Directive(a1), Directive(a2), Unsigned(a3), Bare(a3),
     [Directive(a1) EXCEPT !.sha256 = a3],
     [Directive(a1) EXCEPT !.manifest.format = "zip"]}

(* dock names v2 over the signed manifest of v1.                           *)
Mislabelled == {[Directive(a1) EXCEPT !.version = v2]}

BothForms(offers) == offers \cup {Resolved(d) : d \in offers}

ManyDirectives == BothForms(ManyOffers)

MislabelledDirective == BothForms(Mislabelled)
=============================================================================
