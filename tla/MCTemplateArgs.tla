--------------------------- MODULE MCTemplateArgs ---------------------------
(* Inputs for TemplateArgs: requests of up to two entries, and every args  *)
(* map over the variables a and b.  c is never given.                      *)
EXTENDS TemplateArgs

\* Requests whose keys are drawn from ks and values from vs.
MapsOver(ks, vs) ==
    {Map({<<k, f[k]>> : k \in D}) : D \in {D \in SUBSET ks : Cardinality(D) <= 2},
                                    f \in [ks -> vs]}

AllArgs == UNION {[D -> LiteralTexts] : D \in SUBSET {"a", "b"}}

\* Plain keys, templated values, a plain value that is not YAML, nested
\* lists and maps.
PassRequests ==
    MapsOver({Str("x"), Num("1"), Str("${c}")},
             {Str("${a}"), Str("${a:1}"), Str("${b}"), Str("x"), Str("${"), Str("[x"),
              List(<<Str("${b}")>>), Map({<<Str("x"), Str("${a}")>>})})

\* A templated key.
KeyRequests == MapsOver({Str("${a}")}, {Str("x")})

\* A templated key next to a plain one.
CollidingRequests == MapsOver({Str("x"), Str("${a}")}, {Str("x"), Num("1")})

\* Quoted scalars without any reference.
PlainRequests == MapsOver({Str("x")}, {Str("1"), Str("x")})

=============================================================================
