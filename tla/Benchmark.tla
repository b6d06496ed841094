----------------------------- MODULE Benchmark -----------------------------
(***************************************************************************)
(* The benchmark run controller, runBenchmark in the streaming-capable     *)
(* benchmark.go (src/unnamed/part_000), with its workers (runWorker), the  *)
(* interrupt handler (stopOnInterrupt) and the limiter it drives.          *)
(*                                                                         *)
(* The controller is one goroutine that moves through phases; it blocks in *)
(* warm-up (I/O) and in wg.Wait.  Each worker is a goroutine looping on    *)
(* run.More(); its More steps are the Limiter actions, its call and record *)
(* is one step because it touches only its own benchmarkState.  The        *)
(* interrupt handler is one more goroutine that calls run.Stop() once.     *)
(* Options are the parsed flags: any record of Options can start a run.    *)
(***************************************************************************)
EXTENDS Limiter, FiniteSetsExt, Functions, Sequences

CONSTANTS
    Options,       \* the BenchmarkOptions a run may be started with
    DefaultProcs,  \* runtime.GOMAXPROCS(-1) when --cpus is not given
    CallsInWindow, \* calls take time: at most this many fit before a deadline
    IntBits        \* the width of Go's int: 64 on the platforms yab is built
                   \* for, fewer in a model whose options are scaled down

\* Callers (from Limiter) are the worker slots 0..N-1, N the largest pool.
ASSUME Callers = 0..(Cardinality(Callers) - 1)
ASSUME IntBits \in 2..31

VARIABLES
    opts,          \* the run's BenchmarkOptions (a copy, see line 948)
    phase,         \* where the controller goroutine is
    maxRequests,   \* opts.MaxRequests after the RPS * duration cap
    numConns,      \* getNumConnections(setGoMaxProcs())
    nWorkers,      \* len(states) = len(connections) * opts.Concurrency
    spawned,       \* workers started so far by the spawn loop
    wg,            \* the sync.WaitGroup counter
    states,        \* states[w]: worker w's benchmarkState
    report,        \* what the run printed, once it did
    interrupted,   \* the interrupt handler has fired
    printed        \* what went to out.Printf, one entry per section

ctlVars == <<opts, phase, maxRequests, numConns, nWorkers, spawned, wg,
             states, report, interrupted, printed>>
vars == <<ctlVars, limVars>>

Final == {"fatal", "returned", "reported", "panic"}

-----------------------------------------------------------------------------
(* BenchmarkOptions methods.                                               *)

validate(o) == o.maxDuration >= 0 /\ o.maxRequests >= 0

enabled(o) == o.maxDuration # 0 \/ o.maxRequests # 0

GoMaxInt == 2^(IntBits - 1) - 1
GoMinInt == -(2^(IntBits - 1))

\* int(x) of a non-negative float64 x = num/den truncates.  Where x does
\* not fit, the Go specification leaves the value to the implementation:
\* amd64 (CVTTSD2SI) yields the minimum int, arm64 (FCVTZS) saturates.
floatToInt(num, den) ==
    IF num \div den > GoMaxInt THEN {GoMinInt, GoMaxInt} ELSE {num \div den}

\* Lines 957-963: rpsMax = int(float64(RPS) * MaxDuration.Seconds())
\* replaces MaxRequests when lower or when MaxRequests is 0; the set of
\* the values the build may produce.
capMaxRequests(o) ==
    IF o.rps > 0 /\ o.maxDuration > 0
       THEN {IF rpsMax < o.maxRequests \/ o.maxRequests = 0
                THEN rpsMax ELSE o.maxRequests :
             rpsMax \in floatToInt(o.rps * o.maxDuration, 1000)}
       ELSE {o.maxRequests}

setGoMaxProcs(o) == IF o.numCPUs > 0 THEN o.numCPUs ELSE DefaultProcs

getNumConnections(o, goMaxProcs) ==
    IF o.connections > 0 THEN o.connections ELSE goMaxProcs * 2

(* benchmarkState (state.go is not among the sources; spec.md 4.2).        *)
newBenchmarkState == [totalRequests |-> 0, totalErrors |-> 0,
                      sent |-> 0, received |-> 0]

recordLatency(s) == [s EXCEPT !.totalRequests = @ + 1]
recordError(s) == [s EXCEPT !.totalErrors = @ + 1]
recordStreamMessages(s, sent, recv) ==
    [s EXCEPT !.sent = @ + sent, !.received = @ + recv]

\* merge sums every counter; states[1:] are merged into states[0].
mergeStates(ws) ==
    [f \in DOMAIN newBenchmarkState |->
        MapThenSumSet(LAMBDA w : states[w][f], ws)]

\* Line 979: strings.ToLower(opts.Format) == "json", for the spellings of
\* the formats the models use.
formatAsJSON(o) == o.format \in {"json", "Json", "JSON"}

R == INSTANCE Report

NoReport == [total |-> 0, errors |-> 0, sent |-> 0, received |-> 0,
             errorSummary |-> FALSE, streamSummary |-> FALSE]

-----------------------------------------------------------------------------
Init ==
    /\ opts \in Options
    /\ phase = "start"
    /\ maxRequests = 0 /\ numConns = 0 /\ nWorkers = 0
    /\ spawned = 0 /\ wg = 0
    /\ states = [w \in Callers |-> newBenchmarkState]
    /\ report = NoReport
    /\ interrupted = FALSE
    /\ printed = <<>>
    /\ run = NewRun(0, 0, 0, 0)
    /\ now = 0
    /\ lpc = [w \in Callers |-> "off"]
    /\ grants = 0
    /\ stopMark = NoStop

\* Lines 948-987: validate (fatal), enabled (silent return), the RPS cap,
\* CPUs and connection count; the parameters are printed now unless the
\* format is JSON (an unknown format warns and falls back to text).
Configure ==
    /\ phase = "start"
    /\ \/ /\ ~validate(opts)
          /\ phase' = "fatal"
          /\ UNCHANGED <<maxRequests, numConns, printed>>
       \/ /\ validate(opts) /\ ~enabled(opts)
          /\ phase' = "returned"
          /\ UNCHANGED <<maxRequests, numConns, printed>>
       \/ /\ validate(opts) /\ enabled(opts)
          /\ phase' = "warmup"
          /\ maxRequests' \in capMaxRequests(opts)
          /\ numConns' = getNumConnections(opts, setGoMaxProcs(opts))
          /\ printed' = IF formatAsJSON(opts)
                            THEN printed ELSE Append(printed, "parameters")
    /\ UNCHANGED <<opts, nWorkers, spawned, wg, states, report, interrupted,
                   limVars>>

\* Lines 989-1024: warmTransports and statsd.NewClient may fail (fatal);
\* make() of the states slice panics on a negative length; then the
\* limiter is built and the interrupt handler installed.
WarmUp ==
    /\ phase = "warmup"
    /\ \/ /\ opts.warmupRequests > 0 \/ opts.statsd
          /\ phase' = "fatal"
          /\ UNCHANGED <<nWorkers, limVars>>
       \/ /\ numConns * opts.concurrency < 0
          /\ phase' = "panic"
          /\ UNCHANGED <<nWorkers, limVars>>
       \/ /\ numConns * opts.concurrency >= 0
          /\ phase' = "spawning"
          /\ nWorkers' = numConns * opts.concurrency
          /\ run' = NewRun(maxRequests, opts.rps, opts.maxDuration, now)
          /\ UNCHANGED <<now, lpc, grants, stopMark>>
    /\ UNCHANGED <<printed, opts, maxRequests, numConns, spawned, wg,
                   states, report, interrupted>>

\* Mutant of Spawn: wg.Add(opts.Concurrency) inside the inner loop.
SpawnAddConcurrency ==
    /\ phase = "spawning"
    /\ spawned < nWorkers
    /\ wg' = wg + opts.concurrency
    /\ lpc' = [lpc EXCEPT ![spawned] = "idle"]
    /\ spawned' = spawned + 1
    /\ UNCHANGED <<printed, opts, phase, maxRequests, numConns, nWorkers,
                   states, report, interrupted, run, now, grants, stopMark>>

\* Lines 1027-1037: wg.Add(1) then go runWorker, connection-major.
Spawn ==
    /\ phase = "spawning"
    /\ spawned < nWorkers
    /\ wg' = wg + 1
    /\ lpc' = [lpc EXCEPT ![spawned] = "idle"]
    /\ spawned' = spawned + 1
    /\ UNCHANGED <<printed, opts, phase, maxRequests, numConns, nWorkers,
                   states, report, interrupted, run, now, grants, stopMark>>

SpawnDone ==
    /\ phase = "spawning"
    /\ spawned = nWorkers
    /\ phase' = "waiting"
    /\ UNCHANGED <<printed, opts, maxRequests, numConns, nWorkers, spawned,
                   wg, states, report, interrupted, limVars>>

\* Mutant of CallAndRecord: no "continue" after recordError, so a failed
\* call is also recorded as a latency.
CallAndRecordNoContinue(w) ==
    /\ lpc[w] = "true"
    /\ \/ states' = [states EXCEPT ![w] = recordLatency(recordError(@))]
       \/ states' = [states EXCEPT ![w] = recordLatency(@)]
    /\ lpc' = [lpc EXCEPT ![w] = "idle"]
    /\ UNCHANGED <<printed, opts, phase, maxRequests, numConns, nWorkers,
                   spawned, wg, report, interrupted, run, now, grants,
                   stopMark>>

\* Lines 930-944: after More returned true, one b.Call: an error is
\* recorded, otherwise the latency and, for a stream, its message counts.
CallAndRecord(w) ==
    /\ lpc[w] = "true"
    /\ \/ states' = [states EXCEPT ![w] = recordError(@)]
       \/ /\ ~opts.streaming
          /\ states' = [states EXCEPT ![w] = recordLatency(@)]
       \/ /\ opts.streaming
          /\ \E sent, recv \in 0..1 :
                states' = [states EXCEPT
                             ![w] = recordStreamMessages(recordLatency(@),
                                                         sent, recv)]
    /\ lpc' = [lpc EXCEPT ![w] = "idle"]
    /\ UNCHANGED <<printed, opts, phase, maxRequests, numConns, nWorkers,
                   spawned, wg, report, interrupted, run, now, grants,
                   stopMark>>

\* Mutant of WorkerExit: the goroutine returns without wg.Done().
WorkerExitNoDone(w) ==
    /\ lpc[w] = "false"
    /\ lpc' = [lpc EXCEPT ![w] = "done"]
    /\ UNCHANGED <<printed, opts, phase, maxRequests, numConns, nWorkers,
                   spawned, wg, states, report, interrupted, run, now,
                   grants, stopMark>>

\* Line 931: More returned false; the deferred wg.Done() (line 1033) runs.
WorkerExit(w) ==
    /\ lpc[w] = "false"
    /\ lpc' = [lpc EXCEPT ![w] = "done"]
    /\ wg' = wg - 1
    /\ UNCHANGED <<printed, opts, phase, maxRequests, numConns, nWorkers,
                   spawned, states, report, interrupted, run, now, grants,
                   stopMark>>

\* Mutant of WaitAndReport: the states are merged without wg.Wait().
WaitAndReportNoBarrier ==
    /\ phase = "waiting"
    /\ \/ /\ nWorkers = 0
          /\ phase' = "panic"
          /\ UNCHANGED <<report, printed>>
       \/ /\ nWorkers > 0
          /\ phase' = "reported"
          /\ LET overall == mergeStates(0..(nWorkers - 1))
             IN report' = [total         |-> overall.totalRequests,
                           errors        |-> overall.totalErrors,
                           sent          |-> overall.sent,
                           received      |-> overall.received,
                           errorSummary  |-> overall.totalErrors > 0,
                           streamSummary |-> opts.streaming]
          /\ printed' = Append(printed, IF formatAsJSON(opts) THEN "json"
                                                             ELSE "results")
    /\ UNCHANGED <<opts, maxRequests, numConns, nWorkers, spawned, wg,
                   states, interrupted, limVars>>

\* Lines 1040-1083: wg.Wait(), merge all states into states[0] (which
\* panics when there are none), then the error and stream summaries.
WaitAndReport ==
    /\ phase = "waiting"
    /\ wg = 0
    /\ \/ /\ nWorkers = 0
          /\ phase' = "panic"
          /\ UNCHANGED <<report, printed>>
       \/ /\ nWorkers > 0
          /\ phase' = "reported"
          /\ LET overall == mergeStates(0..(nWorkers - 1))
             IN report' = [total         |-> overall.totalRequests,
                           errors        |-> overall.totalErrors,
                           sent          |-> overall.sent,
                           received      |-> overall.received,
                           errorSummary  |-> overall.totalErrors > 0,
                           streamSummary |-> opts.streaming]
          /\ printed' = Append(printed, IF formatAsJSON(opts) THEN "json"
                                                             ELSE "results")
    /\ UNCHANGED <<opts, maxRequests, numConns, nWorkers, spawned, wg,
                   states, interrupted, limVars>>

\* Lines 1155-1164: the signal goroutine, installed before the workers
\* start, reads one os.Interrupt, prints a notice and calls run.Stop().
Interrupt ==
    /\ phase \in {"spawning", "waiting"}
    /\ ~interrupted
    /\ interrupted' = TRUE
    /\ printed' = Append(printed, "interrupted")
    /\ Stop
    /\ UNCHANGED <<opts, phase, maxRequests, numConns, nWorkers, spawned,
                   wg, states, report>>

\* The clock matters only while the limiter is in use.
Clock ==
    /\ phase \in {"spawning", "waiting"}
    /\ Tick
    /\ UNCHANGED ctlVars

\* A worker asks for more work; on a timed run, once CallsInWindow calls
\* have been made it can only do so after the clock has moved on.
WorkerMore(w) ==
    /\ lpc[w] = "idle" /\ run.timed /\ ~Expired => grants < CallsInWindow
    /\ More(w)
    /\ UNCHANGED ctlVars

Worker(w) ==
    \/ WorkerMore(w)
    \/ CallAndRecord(w)
    \/ WorkerExit(w)

Next ==
    \/ Configure \/ WarmUp \/ Spawn \/ SpawnDone \/ WaitAndReport
    \/ \E w \in Callers : Worker(w)
    \/ Interrupt
    \/ Clock

\* The Go scheduler runs every runnable goroutine and the clock advances;
\* nobody is obliged to press Ctrl-C.
Fairness ==
    /\ WF_vars(Configure) /\ WF_vars(WarmUp) /\ WF_vars(Spawn)
    /\ WF_vars(SpawnDone) /\ WF_vars(WaitAndReport)
    /\ \A w \in Callers : WF_vars(Worker(w))
    /\ WF_vars(Clock)

Spec == Init /\ [][Next]_vars /\ Fairness

-----------------------------------------------------------------------------
(* Properties.                                                             *)

Statuses == {"start", "warmup", "spawning", "waiting"} \cup Final

BenchTypeOK ==
    /\ LimiterTypeOK
    /\ opts \in Options
    /\ phase \in Statuses
    /\ {maxRequests, numConns, nWorkers} \subseteq Int
    /\ {spawned, wg} \subseteq 0..Cardinality(Callers)
    /\ states \in [Callers -> [DOMAIN newBenchmarkState -> Nat]]
    /\ lpc \in [Callers -> MoreStates \cup {"off", "done"}]
    /\ interrupted \in BOOLEAN

\* The report is taken after every worker has finished (wg.Wait before
\* the merge, wg.Add before each go statement), so it accounts for every
\* call the limiter let through: each granted call is in exactly one
\* worker's state, as a latency or as an error.
ReportMatchesWork ==
    phase = "reported" =>
        /\ \A w \in Callers : lpc[w] \in {"off", "done"}
        /\ report.total + report.errors = grants
        /\ report.total = MapThenSumSet(LAMBDA w : states[w].totalRequests,
                                        Callers)

\* Spec 4.1 ("true at most MaxRequests times across all callers") and
\* section 8 ("exactly N true returns"; TestBenchmark, src/template.go
\* 489-496 and 546-549, expects exactly n calls): a report never
\* counts more calls than the capped budget, and a budgeted run that no
\* deadline or Ctrl-C cut short reports exactly that many.
BudgetHonoured ==
    phase = "reported" /\ maxRequests > 0 =>
        /\ report.total + report.errors <= maxRequests
        /\ ~run.timed /\ ~interrupted =>
               report.total + report.errors = maxRequests

\* Every run that starts ends: it fails, returns, or reports.  Needs a
\* bound on the run (validate/enabled), a limiter that eventually says
\* false to every worker, and the barrier released by every worker.
RunTerminates == <>(phase \in Final)

\* Refinement mapping onto AbstractRun: the controller's phase, the calls
\* recorded in the workers' states, and what the report accounts for.
AbsStatus ==
    CASE phase = "start"                            -> "idle"
      [] phase \in {"warmup", "spawning", "waiting"} -> "running"
      [] phase = "reported"                         -> "done"
      [] OTHER                                      -> "stopped"

CallsRecorded ==
    MapThenSumSet(LAMBDA w : states[w].totalRequests + states[w].totalErrors,
                  Callers)

Abs == INSTANCE AbstractRun
           WITH status <- AbsStatus, made <- CallsRecorded,
                reported <- report.total + report.errors

\* runBenchmark implements AbstractRun: each worker step records exactly one
\* call (runWorker's continue after recordError), no call is recorded once
\* the report is taken (wg.Wait), the report accounts for every recorded
\* call, and every run ends.
ImplementsAbstractRun == Abs!Spec

\* A run that passed validation never crashes the process.
NoPanic == phase # "panic"

\* The RPS * duration cap only tightens a requested request budget
\* (spec.md 4.1): it never turns a bounded run into an unbounded one.
CapNeverLoosens ==
    /\ phase \in {"warmup", "spawning", "waiting", "reported"}
    /\ opts.maxRequests > 0
    => maxRequests \in 1..opts.maxRequests


\* Line 977: with --format json the parameters are held back "to maintain
\* a single JSON blob": all a JSON run prints to out is one JSON document.
\* The interrupt notice (line 1162) is printed to the same out.
SingleJSONBlob == formatAsJSON(opts) => printed \in {<<>>, <<"json">>}

\* A JSON report (outputJSON, lines 1084-1104) carries the latency of every
\* quantile of _quantiles under a key of its own: "%.4f" tells 0.999 from
\* 0.9995 (spec.md 9, numeric policy), where a key printed twice would
\* keep only the later quantile's latency.
JsonLatenciesComplete ==
    phase = "reported" /\ formatAsJSON(opts) => R!JsonLatencyKeysDistinct

=============================================================================
