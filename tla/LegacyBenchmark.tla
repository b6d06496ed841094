--------------------------- MODULE LegacyBenchmark ---------------------------
(***************************************************************************)
(* The unary-only benchmark controller of src/benchmark.go.  Its options   *)
(* checks, warm-up, state allocation, spawn loop, WaitGroup, limiter and   *)
(* interrupt handler are line for line those of the streaming controller   *)
(* (src/unnamed/part_000), so those steps are Benchmark's.  It differs in  *)
(* what it prints: the JSON switch (line 222), the warning for an unknown  *)
(* format (line 225), and the error list printed as text before the        *)
(* results in every format (line 300); its workers record no stream counts.*)
(***************************************************************************)
EXTENDS Limiter, Sequences

CONSTANTS Options, DefaultProcs, CallsInWindow, IntBits

VARIABLES opts, phase, maxRequests, numConns, nWorkers, spawned, wg,
          states, report, interrupted, printed

B == INSTANCE Benchmark

LM == INSTANCE LatencyMap

R == INSTANCE Report

vars == B!vars

(* BenchmarkOptions methods of this file, the same as the streaming       *)
(* controller's.                                                           *)

\* Lines 158-167: a negative duration or request count is an error.
validate(o) == o.maxDuration >= 0 /\ o.maxRequests >= 0

\* Lines 169-175: a run needs a duration or a request count.
enabled(o) == o.maxDuration # 0 \/ o.maxRequests # 0

\* Lines 201-207: the same cap, rpsMax = int(float64(RPS) * Seconds()).
capMaxRequests(o) ==
    IF o.rps > 0 /\ o.maxDuration > 0
       THEN {IF rpsMax < o.maxRequests \/ o.maxRequests = 0
                THEN rpsMax ELSE o.maxRequests :
             rpsMax \in B!floatToInt(o.rps * o.maxDuration, 1000)}
       ELSE {o.maxRequests}

\* Lines 142-147: GOMAXPROCS as set by --cpus, else the runtime's.
setGoMaxProcs(o) == IF o.numCPUs > 0 THEN o.numCPUs ELSE DefaultProcs

\* Lines 149-156: --connections, else two per CPU.
getNumConnections(o, goMaxProcs) ==
    IF o.connections > 0 THEN o.connections ELSE goMaxProcs * 2

\* Line 222: only "json" and "JSON" select JSON output.
formatAsJSON(o) == o.format \in {"json", "JSON"}

\* Lines 221-230: JSON holds the parameters back; any other non-empty
\* format is warned about on out, then the parameters are printed.
Banner(o) ==
    CASE formatAsJSON(o) -> <<>>
      [] o.format = ""   -> <<"parameters">>
      [] OTHER           -> <<"warning", "parameters">>

\* Mutant of Configure: the banner is printed before the enabled check.
ConfigureBannerFirst ==
    /\ phase = "start"
    /\ \/ /\ ~validate(opts)
          /\ phase' = "fatal"
          /\ UNCHANGED <<maxRequests, numConns, printed>>
       \/ /\ validate(opts) /\ ~enabled(opts)
          /\ phase' = "returned"
          /\ printed' = printed \o Banner(opts)
          /\ UNCHANGED <<maxRequests, numConns>>
       \/ /\ validate(opts) /\ enabled(opts)
          /\ phase' = "warmup"
          /\ maxRequests' \in capMaxRequests(opts)
          /\ numConns' = getNumConnections(opts, setGoMaxProcs(opts))
          /\ printed' = printed \o Banner(opts)
    /\ UNCHANGED <<opts, nWorkers, spawned, wg, states, report, interrupted,
                   limVars>>

\* Lines 192-231: validate (fatal), enabled (silent return), the RPS cap,
\* CPUs and connections, then the banner above.
Configure ==
    /\ phase = "start"
    /\ \/ /\ ~validate(opts)
          /\ phase' = "fatal"
          /\ UNCHANGED <<maxRequests, numConns, printed>>
       \/ /\ validate(opts) /\ ~enabled(opts)
          /\ phase' = "returned"
          /\ UNCHANGED <<maxRequests, numConns, printed>>
       \/ /\ validate(opts) /\ enabled(opts)
          /\ phase' = "warmup"
          /\ maxRequests' \in capMaxRequests(opts)
          /\ numConns' = getNumConnections(opts, setGoMaxProcs(opts))
          /\ printed' = printed \o Banner(opts)
    /\ UNCHANGED <<opts, nWorkers, spawned, wg, states, report, interrupted,
                   limVars>>

\* Mutant of CallAndRecord: no "continue" after recordError, so a failed
\* call is also recorded as a latency.
CallAndRecordNoContinue(w) ==
    /\ lpc[w] = "true"
    /\ \/ states' = [states EXCEPT ![w] = B!recordLatency(B!recordError(@))]
       \/ states' = [states EXCEPT ![w] = B!recordLatency(@)]
    /\ lpc' = [lpc EXCEPT ![w] = "idle"]
    /\ UNCHANGED <<printed, opts, phase, maxRequests, numConns, nWorkers,
                   spawned, wg, report, interrupted, run, now, grants,
                   stopMark>>

\* Lines 177-189: one m.call(t); an error, or one latency.
CallAndRecord(w) ==
    /\ lpc[w] = "true"
    /\ \/ states' = [states EXCEPT ![w] = B!recordError(@)]
       \/ states' = [states EXCEPT ![w] = B!recordLatency(@)]
    /\ lpc' = [lpc EXCEPT ![w] = "idle"]
    /\ UNCHANGED <<printed, opts, phase, maxRequests, numConns, nWorkers,
                   spawned, wg, report, interrupted, run, now, grants,
                   stopMark>>

\* Mutant of Spawn: wg.Add(opts.Concurrency) for each worker.
SpawnAddConcurrency == B!SpawnAddConcurrency

\* Lines 233-267: warmTransports, statsd client, states, limiter, handler.
WarmUp == B!WarmUp

\* Lines 269-281: wg.Add(1) then go runWorker, connection-major.
Spawn == B!Spawn

\* Line 284: the spawn loop is done; the controller blocks in wg.Wait().
SpawnDone == B!SpawnDone

\* Lines 276-279: More returned false; the deferred wg.Done() runs.
WorkerExit(w) == B!WorkerExit(w)

\* Line 300: printErrors writes the error list, as text, when a call failed.
printErrors(overall) ==
    IF overall.totalErrors > 0 THEN <<"errors">> ELSE <<>>

\* Lines 300-314: the error list, then outputJSON or outputPlaintext.
Results(o, overall) ==
    printErrors(overall) \o <<IF formatAsJSON(o) THEN "json" ELSE "results">>

\* Lines 336-340: MarshalIndent fails, and outputJSON is fatal, when the
\* LatencyMap's MarshalJSON does not write valid JSON.
JsonMarshalFails(o) ==
    formatAsJSON(o) /\ ~LM!IsStringObject(LM!outputJSON(LM!MeasuredLatencies))

\* Mutant of WaitAndReport: the states are merged without wg.Wait().
WaitAndReportNoBarrier ==
    /\ phase = "waiting"
    /\ \/ /\ nWorkers = 0
          /\ phase' = "panic"
          /\ UNCHANGED <<report, printed>>
       \/ /\ nWorkers > 0
          /\ LET overall == B!mergeStates(0..(nWorkers - 1))
             IN IF JsonMarshalFails(opts)
                   THEN /\ phase' = "fatal"
                        /\ printed' = printed \o printErrors(overall)
                        /\ UNCHANGED report
                   ELSE /\ phase' = "reported"
                        /\ report' = [B!NoReport EXCEPT
                                        !.total = overall.totalRequests,
                                        !.errors = overall.totalErrors,
                                        !.errorSummary = overall.totalErrors > 0]
                        /\ printed' = printed \o Results(opts, overall)
    /\ UNCHANGED <<opts, maxRequests, numConns, nWorkers, spawned, wg,
                   states, interrupted, limVars>>

\* Lines 283-315: wg.Wait(), states[0] (a panic when there are none),
\* merge, printErrors, then JSON or plain text.
WaitAndReport ==
    /\ phase = "waiting"
    /\ wg = 0
    /\ \/ /\ nWorkers = 0
          /\ phase' = "panic"
          /\ UNCHANGED <<report, printed>>
       \/ /\ nWorkers > 0
          /\ LET overall == B!mergeStates(0..(nWorkers - 1))
             IN IF JsonMarshalFails(opts)
                   THEN /\ phase' = "fatal"
                        /\ printed' = printed \o printErrors(overall)
                        /\ UNCHANGED report
                   ELSE /\ phase' = "reported"
                        /\ report' = [B!NoReport EXCEPT
                                        !.total = overall.totalRequests,
                                        !.errors = overall.totalErrors,
                                        !.errorSummary = overall.totalErrors > 0]
                        /\ printed' = printed \o Results(opts, overall)
    /\ UNCHANGED <<opts, maxRequests, numConns, nWorkers, spawned, wg,
                   states, interrupted, limVars>>

\* Lines 372-383: the signal goroutine prints a notice and calls Stop().
Interrupt == B!Interrupt

Worker(w) ==
    \/ B!WorkerMore(w)
    \/ CallAndRecord(w)
    \/ WorkerExit(w)

Init == B!Init

Next ==
    \/ Configure \/ WarmUp \/ Spawn \/ SpawnDone \/ WaitAndReport
    \/ \E w \in Callers : Worker(w)
    \/ Interrupt
    \/ B!Clock

\* As for Benchmark: every goroutine is scheduled, nobody must press Ctrl-C.
Fairness ==
    /\ WF_vars(Configure) /\ WF_vars(WarmUp) /\ WF_vars(Spawn)
    /\ WF_vars(SpawnDone) /\ WF_vars(WaitAndReport)
    /\ \A w \in Callers : WF_vars(Worker(w))
    /\ WF_vars(B!Clock)

Spec == Init /\ [][Next]_vars /\ Fairness

-----------------------------------------------------------------------------
(* Properties.                                                             *)

\* After wg.Wait() the merged report accounts for every call the limiter
\* let through, as a latency or as an error, and no worker is still running.
LegacyReportMatchesWork == B!ReportMatchesWork

\* A JSON report can be read back as it was written: a client decoding its
\* latencies with LatencyMap.UnmarshalJSON (lines 121-138) gets the seven
\* quantiles in the order of _quantiles, which the LatencyMap type (lines
\* 75-76) exists to preserve, each with its own latency.
JsonReportKeepsOrder ==
    phase = "reported" /\ formatAsJSON(opts) => LM!ReportKeepsOrder

\* A text report (outputPlaintext, lines 343-352, and printLatencies) shows
\* the latency of every quantile of _quantiles, in that order, each on a
\* line whose label no other latency line has.
LegacyTextReport ==
    phase = "reported" /\ ~formatAsJSON(opts) =>
        R!TextLatenciesComplete(
            R!outputPlaintext(LM!MeasuredLatencies, R!Summary(report.total)))

=============================================================================
