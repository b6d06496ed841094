---------------------------- MODULE MCBenchmark ----------------------------
(* Model-checking instance of Benchmark: small option spaces.  Durations  *)
(* are in ms; rates divide 1000 so a token period is a whole ms.           *)
EXTENDS Benchmark, TLC

MCWorkers2 == 0..1

\* Bounded runs (by count, by time, paced or not), unary and streaming.
CoreOptions ==
    [maxRequests: {0, 2}, maxDuration: {0, 250}, rps: {0, 10},
     connections: {1}, concurrency: {2}, numCPUs: {0},
     warmupRequests: {0}, statsd: {FALSE}, streaming: BOOLEAN,
     format: {"text"}]

\* Invalid, disabled and failing runs, and the default connection count.
EdgeOptions ==
    [maxRequests: {-1, 0, 1}, maxDuration: {-1, 0}, rps: {0},
     connections: {0, 1}, concurrency: {-1, 0, 1}, numCPUs: {0, 1},
     warmupRequests: {0, 1}, statsd: BOOLEAN, streaming: {FALSE},
     format: {"", "JSON", "xml"}]

\* Both of the above.
CoreAndEdgeOptions == CoreOptions \cup EdgeOptions

\* --concurrency 0 or -1: validate accepts both.
BadConcurrencyOptions ==
    [maxRequests: {1}, maxDuration: {0}, rps: {0},
     connections: {1}, concurrency: {0, -1}, numCPUs: {0},
     warmupRequests: {0}, statsd: {FALSE}, streaming: {FALSE},
     format: {"text"}]

\* A request budget with a rate and a duration whose product is below 1.
SubUnitRateOptions ==
    [maxRequests: {2}, maxDuration: {50}, rps: {10},
     connections: {1}, concurrency: {1}, numCPUs: {0},
     warmupRequests: {0}, statsd: {FALSE}, streaming: {FALSE},
     format: {"text"}]

\* A request budget with a rate and a duration whose product does not fit
\* an int of IntBits bits (with 64 bits: --rps 10000000000 -d 1000000h).
OverflowRateOptions ==
    [maxRequests: {2}, maxDuration: {2000}, rps: {100},
     connections: {1}, concurrency: {1}, numCPUs: {0},
     warmupRequests: {0}, statsd: {FALSE}, streaming: {FALSE},
     format: {"text"}]

\* Both edges of the cap's conversion.
CapEdgeOptions == SubUnitRateOptions \cup OverflowRateOptions

\* --format json -d 200ms: a duration run a user may end with Ctrl-C.
JsonDurationOptions ==
    [maxRequests: {0}, maxDuration: {200}, rps: {0},
     connections: {1}, concurrency: {1}, numCPUs: {0},
     warmupRequests: {0}, statsd: {FALSE}, streaming: {FALSE},
     format: {"json"}]

=============================================================================
