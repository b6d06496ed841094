-------------------------------- MODULE MCCli --------------------------------
(* Model-checking instance of Cli: command lines for every exit of         *)
(* parseAndRun, every count of positional arguments up to one past the     *)
(* documented four, and the legacy benchmark options.                      *)
EXTENDS Cli, TLC

MCWorkers2 == 0..1

\* Values of --service, --method, --headers and --request (or the body).
Flags == [service |-> "fs", method |-> "fm", headers |-> "fh",
          request |-> "fr"]

\* Positional argument lists of length 0 to 5; the i-th is "" or "a<i>".
ArgLists ==
    UNION {{[i \in 1..n |-> IF i \in E THEN "" ELSE "a" \o ToString(i)]
               : E \in SUBSET (1..n)}
           : n \in 0..5}

BOpts(mr, md, rps, fmt) ==
    [maxRequests |-> mr, maxDuration |-> md, rps |-> rps, connections |-> 1,
     concurrency |-> 2, numCPUs |-> 0, warmupRequests |-> 0,
     statsd |-> FALSE, streaming |-> FALSE, format |-> fmt]

Disabled == BOpts(0, 0, 0, "")

\* Bounded runs by count, time and rate in every output format, the two
\* invalid ones, and -n 1 --concurrency 0, which validate accepts.
BenchmarkRuns ==
    {BOpts(mr, md, rps, fmt) : mr \in {0, 2}, md \in {0, 200},
                                 rps \in {0, 10}, fmt \in {"", "JSON", "Json"}}
    \cup {BOpts(-1, 0, 0, ""), BOpts(0, -1, 0, ""),
          [BOpts(1, 0, 0, "") EXCEPT !.concurrency = 0]}

Invocation(a, p, v, m, r, o) ==
    [args |-> a, parse |-> p, version |-> v, manPage |-> m, remaining |-> r,
     flags |-> Flags, bopts |-> o]

Ok3 == <<"a1", "a2", "a3">>

MCInvocations ==
    {Invocation(TRUE, "ok", FALSE, FALSE, r, Disabled) : r \in ArgLists}
    \cup {Invocation(a, p, v, m, Ok3, Disabled)
            : a \in BOOLEAN, p \in {"ok", "help", "error"},
              v \in BOOLEAN, m \in BOOLEAN}
    \cup {Invocation(TRUE, "ok", FALSE, FALSE, Ok3, o) : o \in BenchmarkRuns}

MCOptions == {i.bopts : i \in MCInvocations}

=============================================================================
