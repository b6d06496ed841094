------------------------------- MODULE Report -------------------------------
(***************************************************************************)
(* What the controllers print of a finished run's latencies: the legacy   *)
(* controller's text report (src/benchmark.go 77-82, 343-371) and the      *)
(* streaming controller's JSON latencies (src/unnamed/part_000 1084-1088). *)
(* A printed line is a record of its label and its value.  The labels of  *)
(* the latency lines are fmt's "%.4f" of the quantile, which is modelled  *)
(* by what it does: two quantiles that print alike share a line label, or *)
(* a JSON key.                                                             *)
(***************************************************************************)
EXTENDS LatencyMap

\* fmt's "%.<prec>f" of a quantile q given in ten-thousandths (prec <= 4):
\* q rounded to prec decimals, then its integer part, "." and prec digits.
\* Rounding half up is what Go prints for these quantiles: the only tie,
\* 0.9995 at three decimals, is held by a float64 just above it.
formatFixed(q, prec) ==
    LET r      == (2 * q + 10^(4 - prec)) \div (2 * 10^(4 - prec))
        digits == [i \in 1..prec |-> ToString((r \div 10^(prec - i)) % 10)]
    IN ToString(r \div 10^prec) \o "."
           \o FoldLeft(LAMBDA s, d : s \o d, "", digits)

\* Mutant of quantileKey: "%.3f", which prints 0.9995 as 1.000.
quantileKeyThreeDecimals(q) == formatFixed(q, 3)

\* Line 366, and line 1087 of the streaming controller: "%.4f".
quantileKey(q) == formatFixed(q, 4)

Line(label, value) == [label |-> label, value |-> value]

\* Mutant of printLatencies: the loop ranges over _quantiles[1:].
printLatenciesSkipFirst(latencyValues) ==
    <<Line("Latencies:", "")>>
    \o [i \in 1..(Len(quantiles) - 1) |->
           Line(quantileKey(quantiles[i + 1]), latencyValues[quantiles[i + 1]])]

\* Lines 365-370: "Latencies:", then "  %.4f: %v" for each quantile of
\* _quantiles, in order.
printLatencies(latencyValues) ==
    <<Line("Latencies:", "")>>
    \o [i \in 1..Len(quantiles) |->
           Line(quantileKey(quantiles[i]), latencyValues[quantiles[i]])]

\* Lines 77-82 and 302-306: the summary of the run.  Elapsed time and RPS
\* are divisions by the run's wall-clock time, which is not modelled.
Summary(totalRequests) ==
    [elapsedTime |-> "elapsed", totalRequests |-> totalRequests, rps |-> "rps"]

\* Lines 343-352: the latencies, then the three summary lines.
outputPlaintext(latencyValues, summary) ==
    printLatencies(latencyValues)
    \o <<Line("Elapsed time:", summary.elapsedTime),
         Line("Total requests:", summary.totalRequests),
         Line("RPS:", summary.rps)>>

\* Lines 1084-1088 of the streaming controller: latencies[key] = latency
\* for each quantile of _quantiles in turn, in a Go map, where a second
\* assignment to a key overwrites the first.
jsonLatencies(latencyValues) ==
    FoldLeft(LAMBDA m, q : (quantileKey(q) :> latencyValues[q]) @@ m,
             [k \in {} |-> ""], quantiles)

-----------------------------------------------------------------------------
\* The latency lines of a text report: every quantile's latency, in the
\* order of _quantiles, each under a label no other latency line has.
TextLatenciesComplete(lines) ==
    LET lat    == SubSeq(lines, 2, 1 + Len(quantiles))
        labels == {lat[i].label : i \in DOMAIN lat}
    IN /\ lines[1].label = "Latencies:"
       /\ Len(lat) = Len(quantiles) /\ Cardinality(labels) = Len(quantiles)
       /\ \A i \in 1..Len(quantiles) :
              lat[i].value = MeasuredLatencies[quantiles[i]]

\* The streaming JSON document's latencies: seven keys, and the latency of
\* every quantile under one of them.
JsonLatencyKeysDistinct ==
    LET m == jsonLatencies(MeasuredLatencies)
    IN /\ Cardinality(DOMAIN m) = Len(quantiles)
       /\ \A i \in 1..Len(quantiles) : MeasuredLatencies[quantiles[i]] \in Range(m)

====
