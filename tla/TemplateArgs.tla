---------------------------- MODULE TemplateArgs ----------------------------
(***************************************************************************)
(* templateargs.ProcessMap (src/template.go 358-440): a YAML request, as   *)
(* decoded into Go values, has every string run through the interpolator   *)
(* (${name} or ${name:default}) and the rendered text decoded as YAML      *)
(* again; maps and lists are walked recursively.                           *)
(*                                                                         *)
(* Texts are a small set of strings standing for what they contain: a      *)
(* word, a number, a flow list, a flow list left open (not valid YAML),   *)
(* the empty text, variable references and one malformed reference.  A Go map is a set of <<key, value>> pairs,    *)
(* and Go's map iteration order, which is random, is every order of them:  *)
(* each operator returns the SET of outcomes the code can produce.         *)
(***************************************************************************)
EXTENDS Naturals, Sequences, FiniteSets
LOCAL INSTANCE SequencesExt

CONSTANTS
    Requests,   \* the decoded YAML requests ProcessMap may be given
    ArgSets     \* the args maps (template variable -> text) it may be given

VARIABLES
    req,        \* the request map passed to ProcessMap
    args,       \* the args passed to ProcessMap
    out         \* what ProcessMap returned (an Outcome), or Pending

tvars == <<req, args, out>>

(* Decoded YAML values; every field is present so values compare.          *)
Value(k, s, items, m) == [k |-> k, s |-> s, items |-> items, m |-> m]
Str(t)   == Value("str", t, <<>>, {})
Num(t)   == Value("int", t, <<>>, {})
Null     == Value("null", "", <<>>, {})
List(sq) == Value("list", "", sq, {})
Map(ps)  == Value("map", "", <<>>, ps)

\* Only scalars can be Go map keys; a slice or map key panics on insert.
Hashable(v) == v.k \in {"str", "int", "null"}

Ok(v)   == [tag |-> "ok", val |-> v]
Failed  == [tag |-> "err", val |-> Null]
Panic   == [tag |-> "panic", val |-> Null]
Pending == [tag |-> "pending", val |-> Null]

(* The texts.  LiteralTexts contain no reference.                          *)
LiteralTexts == {"", "x", "1", "[x]", "[x"}
Refs ==
    ("${a}"   :> [name |-> "a", dflt |-> {}]) @@
    ("${a:1}" :> [name |-> "a", dflt |-> {"1"}]) @@
    ("${b}"   :> [name |-> "b", dflt |-> {}]) @@
    ("${c}"   :> [name |-> "c", dflt |-> {}])
Malformed == {"${"}
Texts == LiteralTexts \cup DOMAIN Refs \cup Malformed

(* interpolate.Parse and Render (templateargs/interpolate, not among the   *)
(* sources): a malformed text fails to parse; a variable renders its       *)
(* argument, else its default, else fails.  {} is failure.                 *)
Render(t, as) ==
    CASE t \in Malformed -> {}
      [] t \in DOMAIN Refs ->
            IF Refs[t].name \in DOMAIN as THEN {as[Refs[t].name]}
                                          ELSE Refs[t].dflt
      [] OTHER -> {t}

(* yaml.Unmarshal of a non-empty literal text into interface{}: an error   *)
(* for text that is not YAML, else the decoded value.                      *)
ValidYAML(t) == t # "[x"

Decode(t) ==
    CASE ~ValidYAML(t) -> Failed
      [] t = "1"       -> Ok(Num("1"))
      [] t = "[x]"     -> Ok(List(<<Str("x")>>))
      [] OTHER         -> Ok(Str(t))

-----------------------------------------------------------------------------
RECURSIVE processValue(_, _), processList(_, _), processMapInOrder(_, _, _),
          processListKeepGoing(_, _)

\* Mutant of processString: no special case for an empty rendering, so ""
\* is decoded by yaml.Unmarshal, which gives nil.
processStringNoEmptyCase(t, as) ==
    IF Render(t, as) = {} THEN {Failed}
    ELSE LET r == CHOOSE r \in Render(t, as) : TRUE
         IN {IF r = "" THEN Ok(Null) ELSE Decode(r)}

\* Lines 372-394: parse and render (either may fail); an empty rendering
\* is the empty string, anything else is unmarshalled as YAML, whose error
\* is returned.
processString(t, as) ==
    IF Render(t, as) = {} THEN {Failed}
    ELSE LET r == CHOOSE r \in Render(t, as) : TRUE
         IN {IF r = "" THEN Ok(Str("")) ELSE Decode(r)}

\* Mutant of processList: an element that fails is left nil and the loop
\* goes on (a dropped "return nil, err").
processListKeepGoing(items, as) ==
    IF items = <<>> THEN {Ok(List(<<>>))}
    ELSE UNION {{IF r.tag = "ok"
                    THEN Ok(List(<<IF h.tag = "ok" THEN h.val ELSE Null>>
                                 \o r.val.items))
                    ELSE r
                 : r \in processListKeepGoing(Tail(items), as)}
                : h \in processValue(Head(items), as)}

\* Lines 410-421: elements in order; the first failure is returned.
processList(items, as) ==
    IF items = <<>> THEN {Ok(List(<<>>))}
    ELSE LET heads == processValue(Head(items), as)
         IN {h \in heads : h.tag # "ok"} \cup
            UNION {{IF r.tag = "ok" THEN Ok(List(<<h.val>> \o r.val.items))
                                    ELSE r
                    : r \in processList(Tail(items), as)}
                   : h \in {o \in heads : o.tag = "ok"}}

\* replacement[newK] = newV: a later key that renders equal overwrites.
Assign(ps, key, val) == {p \in ps : p[1] # key} \cup {<<key, val>>}

\* Lines 424-439 for one iteration order sq of the entries: process the
\* key, then the value, returning the first failure; then insert, which
\* panics on an unhashable key.
processMapInOrder(sq, as, acc) ==
    IF sq = <<>> THEN {Ok(Map(acc))}
    ELSE LET keys == processValue(Head(sq)[1], as)
             vals == processValue(Head(sq)[2], as)
         IN {o \in keys : o.tag # "ok"} \cup
            UNION {{o \in vals : o.tag # "ok"} \cup
                   UNION {IF Hashable(nk.val)
                             THEN processMapInOrder(Tail(sq), as,
                                                    Assign(acc, nk.val, nv.val))
                             ELSE {Panic}
                          : nv \in {o \in vals : o.tag = "ok"}}
                   : nk \in {o \in keys : o.tag = "ok"}}

\* Lines 423-440: Go ranges over the map in an unspecified order.
processMap(ps, as) ==
    UNION {processMapInOrder(sq, as, {}) : sq \in SetToSeqs(ps)}

\* Lines 396-408: dispatch on the dynamic type; other scalars unchanged.
processValue(v, as) ==
    CASE v.k = "str"  -> processString(v.s, as)
      [] v.k = "map"  -> processMap(v.m, as)
      [] v.k = "list" -> processList(v.items, as)
      [] OTHER        -> {Ok(v)}

\* Lines 366-370.
ProcessMap(r, as) == processMap(r.m, as)

-----------------------------------------------------------------------------
Init ==
    /\ req \in Requests
    /\ args \in ArgSets
    /\ out = Pending

\* One call of ProcessMap; it returns and the program goes on.
Process ==
    /\ out = Pending
    /\ out' \in ProcessMap(req, args)
    /\ UNCHANGED <<req, args>>

Spec == Init /\ [][Process]_tvars

-----------------------------------------------------------------------------
(* What ProcessMap's comment promises: template arguments are replaced.    *)
(* A string that references a variable becomes its rendering read as YAML  *)
(* (an empty rendering stays an empty string); everything else, including  *)
(* strings without a reference, is kept; structure is kept.                *)
RECURSIVE Substituted(_, _)
Substituted(v, as) ==
    CASE v.k = "str" /\ v.s \in DOMAIN Refs \cup Malformed ->
            LET r == CHOOSE r \in Render(v.s, as) : TRUE
            IN IF r = "" THEN Str("") ELSE Decode(r).val
      [] v.k = "list" ->
            List([i \in DOMAIN v.items |-> Substituted(v.items[i], as)])
      [] v.k = "map" ->
            Map({<<Substituted(p[1], as), Substituted(p[2], as)>> : p \in v.m})
      [] OTHER -> v

\* Every string anywhere in v, key or value, can be rendered, and what it
\* renders to is empty or YAML.
RECURSIVE Processable(_, _)
Processable(v, as) ==
    CASE v.k = "str"  -> \E r \in Render(v.s, as) : r = "" \/ ValidYAML(r)
      [] v.k = "list" -> \A i \in DOMAIN v.items : Processable(v.items[i], as)
      [] v.k = "map"  -> \A p \in v.m : Processable(p[1], as) /\ Processable(p[2], as)
      [] OTHER        -> TRUE

\* processMap/processList/processString return the substituted request,
\* with nothing else changed, whenever they succeed on a request whose
\* strings all render to YAML (FailsExactlyWhenUnprocessable covers the
\* others).
ResultMatchesReference ==
    out.tag = "ok" /\ Processable(req, args) => out.val = Substituted(req, args)

\* ProcessMap fails exactly when some string in the request, at any depth,
\* cannot be rendered or renders to text yaml.Unmarshal rejects (line 393;
\* a plain string such as "[x" with no reference fails too): no failure is
\* swallowed by the walk over lists and maps, none is invented, and it
\* never panics.
FailsExactlyWhenUnprocessable ==
    out # Pending =>
        /\ out.tag \in {"ok", "err"}
        /\ (out.tag = "err" <=> ~Processable(req, args))

\* Rendering a map key never crashes the process (Go panics when a
\* slice or map is used as a map key, line 436).
NoPanic == out.tag # "panic"

\* The result does not depend on Go's random map iteration order.
OrderIndependent == Cardinality(ProcessMap(req, args)) = 1

=============================================================================
