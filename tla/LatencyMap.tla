----------------------------- MODULE LatencyMap -----------------------------
(***************************************************************************)
(* The latencies of the legacy controller's JSON report (src/benchmark.go  *)
(* 44-138, 318-342).  A LatencyMap is a slice of (quantile name, latency)  *)
(* pairs whose MarshalJSON writes a JSON object in slice order, so that   *)
(* the report lists P50 ... P100 in the order of _quantiles; its          *)
(* UnmarshalJSON reads the object back through a Go map.                  *)
(*                                                                         *)
(* JSON text is a sequence of tokens: the punctuation the code writes and  *)
(* the string literals json.Marshal makes of a Go string.  Latencies are   *)
(* the strings time.Duration.String() returns, kept abstract.             *)
(***************************************************************************)
EXTENDS Integers, SequencesExt, Functions

Punct(c) == <<"punct", c>>
JString(s) == <<"string", s>>
IsJString(t) == t[1] = "string"

\* Lines 47-56: the quantiles reported, in order, in ten-thousandths, and
\* their names.
quantiles == <<5000, 9000, 9500, 9900, 9990, 9995, 10000>>

\* Mutant of percentileMap: 0.9995 is given the name of 0.999.
percentileMapTypo ==
    (5000 :> "P50") @@ (9000 :> "P90") @@ (9500 :> "P95") @@
    (9900 :> "P99") @@ (9990 :> "P999") @@ (9995 :> "P999") @@
    (10000 :> "P100")

percentileMap ==
    (5000 :> "P50") @@ (9000 :> "P90") @@ (9500 :> "P95") @@
    (9900 :> "P99") @@ (9990 :> "P999") @@ (9995 :> "P9995") @@
    (10000 :> "P100")

Element(q, l) == [quantile |-> q, latency |-> l]

\* Lines 93-119: "{", then each pair as key ":" value with a "," before
\* every pair but the first, then "}".  json.Marshal of a Go string does
\* not fail, so neither error return is taken.
MarshalJSON(latencyMap) ==
    <<Punct("{")>>
    \o FlattenSeq([i \in 1..Len(latencyMap) |->
           (IF i # 1 THEN <<Punct(",")>> ELSE <<>>)
           \o <<JString(latencyMap[i].quantile), Punct(":"),
                JString(latencyMap[i].latency)>>])
    \o <<Punct("}")>>

(* json.Unmarshal into a map[string]string: the text must be one object    *)
(* of string members, n of them in 4n + 1 tokens; a later member with the  *)
(* same name overwrites an earlier one.                                    *)
Members(b) == (Len(b) - 1) \div 4
MemberKey(b, j) == b[2 + 4 * j][2]
MemberValue(b, j) == b[4 + 4 * j][2]

IsStringObject(b) ==
    /\ Len(b) >= 2
    /\ b[1] = Punct("{") /\ b[Len(b)] = Punct("}")
    /\ Len(b) = 2 \/ (Len(b) - 1) % 4 = 0
    /\ \A j \in 0..(Members(b) - 1) :
           /\ IsJString(b[2 + 4 * j]) /\ b[3 + 4 * j] = Punct(":")
           /\ IsJString(b[4 + 4 * j])
           /\ j < Members(b) - 1 => b[5 + 4 * j] = Punct(",")

DecodeStringMap(b) ==
    LET keys == {MemberKey(b, j) : j \in 0..(Members(b) - 1)}
        last(k) == Max({j \in 0..(Members(b) - 1) : MemberKey(b, j) = k})
    IN [k \in keys |-> MemberValue(b, last(k))]

\* The orderings of a finite set.
RECURSIVE Orderings(_)
Orderings(S) ==
    IF S = {} THEN {<<>>}
    ELSE UNION {{<<x>> \o o : o \in Orderings(S \ {x})} : x \in S}

\* Lines 122-138: unmarshal into a map (an error leaves the receiver as it
\* was), then append one element per entry in the map's range order, which
\* Go randomizes: the set of LatencyMaps the call may leave behind.
UnmarshalJSON(latencyMap, b) ==
    IF ~IsStringObject(b)
       THEN {[err |-> TRUE, lm |-> latencyMap]}
       ELSE LET m == DecodeStringMap(b)
            IN {[err |-> FALSE,
                 lm  |-> latencyMap \o [i \in 1..Len(o) |-> Element(o[i], m[o[i]])]] :
                o \in Orderings(DOMAIN m)}

\* Lines 318-327: outputJSON builds the LatencyMap by ranging over the
\* _quantiles slice, naming each quantile through _percentileMap.
outputLatencies(latencyValues) ==
    [i \in 1..Len(quantiles) |->
        Element(percentileMap[quantiles[i]], latencyValues[quantiles[i]])]

\* Lines 328-341: the latencies' part of the document MarshalIndent writes.
outputJSON(latencyValues) == MarshalJSON(outputLatencies(latencyValues))

\* What the run measured is not modelled: a distinct latency per quantile,
\* so that a latency reported under the wrong name shows.
MeasuredLatencies == [q \in DOMAIN percentileMap |-> "latency of " \o ToString(q)]

\* The LatencyMap type comment (line 75): the type exists "to preserve
\* specific ordering of elements".  A client that decodes the report's
\* latencies with UnmarshalJSON gets back the LatencyMap that was written:
\* the seven quantiles in the order of _quantiles, each with its latency.
ReportKeepsOrder ==
    \A r \in UnmarshalJSON(<<>>, outputJSON(MeasuredLatencies)) :
        ~r.err /\ r.lm = outputLatencies(MeasuredLatencies)

=============================================================================
