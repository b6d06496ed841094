--------------------------------- MODULE Cli ---------------------------------
(***************************************************************************)
(* The command line (main.go, in src/template.go 162-357) composed with    *)
(* the legacy benchmark controller it hands over to.  parseAndRun parses   *)
(* the flags, may stop at help, version or the man page, fills service,    *)
(* method, headers and request from the positional arguments, and calls   *)
(* runWithOptions.  That loads the inputs, builds the serializer and the   *)
(* transport (all outside src/: each either works or fails), makes ONE     *)
(* call, prints its response, and then runs runBenchmark of               *)
(* src/benchmark.go with the same options.  Every failure is out.Fatalf,  *)
(* which ends the process.                                                 *)
(*                                                                         *)
(* The controller's phase variable carries the command line's phases too: *)
(* runBenchmark starts in "start" once the response has been printed.      *)
(***************************************************************************)
EXTENDS LegacyBenchmark

CONSTANTS
    Invocations   \* command lines: the parse outcome, flags, positional
                  \* arguments and benchmark options

VARIABLES
    argv,         \* the invocation being run
    request,      \* service, method, headers and request after line 277
    sent          \* calls made by runWithOptions' makeRequest (0 or 1)

cliVars == <<argv, request, sent>>
allVars == <<vars, cliVars>>

CliPhases == {"parse", "prepare", "call"}
CliEnds == {"help", "version", "manpage"}

\* Lines 208-218: args[index] overrides the flag when present and non-empty.
fromPositional(args, index, s) ==
    IF Len(args) <= index \/ args[index + 1] = "" THEN s ELSE args[index + 1]

\* Mutant of positional: headers and request read the other way round.
positionalSwapped(args, f) ==
    [service |-> fromPositional(args, 0, f.service),
     method  |-> fromPositional(args, 1, f.method),
     headers |-> IF Len(args) > 3 THEN fromPositional(args, 3, f.headers)
                                  ELSE f.headers,
     request |-> fromPositional(args, 2, f.request)]

\* Lines 266-277: service, method, then [headers] request.
positional(args, f) ==
    [service |-> fromPositional(args, 0, f.service),
     method  |-> fromPositional(args, 1, f.method),
     headers |-> IF Len(args) > 3 THEN fromPositional(args, 2, f.headers)
                                  ELSE f.headers,
     request |-> fromPositional(args, IF Len(args) > 3 THEN 3 ELSE 2,
                                f.request)]

ProgramInit ==
    /\ argv \in Invocations
    /\ request = argv.flags
    /\ sent = 0
    /\ opts = argv.bopts
    /\ phase = "parse"
    /\ maxRequests = 0 /\ numConns = 0 /\ nWorkers = 0
    /\ spawned = 0 /\ wg = 0
    /\ states = [w \in Callers |-> B!newBenchmarkState]
    /\ report = B!NoReport
    /\ interrupted = FALSE
    /\ printed = <<>>
    /\ run = NewRun(0, 0, 0, 0)
    /\ now = 0
    /\ lpc = [w \in Callers |-> "off"]
    /\ grants = 0
    /\ stopMark = NoStop

\* Lines 226-282: no arguments or --help write the help to out; a parse
\* error is fatal; --version prints to out; --man-page writes to stdout;
\* otherwise the positional arguments are read and runWithOptions runs.
Parse ==
    /\ phase = "parse"
    /\ CASE ~argv.args \/ argv.parse = "help" ->
                /\ phase' = "help"
                /\ printed' = <<"help">>
                /\ UNCHANGED request
         [] argv.parse = "error" ->
                /\ phase' = "fatal"
                /\ UNCHANGED <<printed, request>>
         [] argv.version ->
                /\ phase' = "version"
                /\ printed' = <<"version">>
                /\ UNCHANGED request
         [] argv.manPage ->
                /\ phase' = "manpage"
                /\ UNCHANGED <<printed, request>>
         [] OTHER ->
                /\ phase' = "prepare"
                /\ request' = positional(argv.remaining, argv.flags)
                /\ UNCHANGED printed
    /\ UNCHANGED <<argv, sent, opts, maxRequests, numConns, nWorkers, spawned,
                   wg, states, report, interrupted, limVars>>

\* Lines 285-313: body and headers input, serializer, transport and the
\* request are built, each of which may fail (Fatalf); then the timeout
\* defaults to one second.
Prepare ==
    /\ phase = "prepare"
    /\ phase' \in {"fatal", "call"}
    /\ UNCHANGED <<argv, request, sent, printed, opts, maxRequests, numConns,
                   nWorkers, spawned, wg, states, report, interrupted,
                   limVars>>

\* Lines 315-349 and 352-357: makeRequest sends the call; a failed call, an
\* unparsable response or a failed MarshalIndent is fatal; otherwise the
\* response is printed and runBenchmark starts with the same options.
Call ==
    /\ phase = "call"
    /\ sent' = sent + 1
    /\ \/ phase' = "fatal" /\ UNCHANGED printed
       \/ phase' = "start" /\ printed' = Append(printed, "response")
    /\ UNCHANGED <<argv, request, opts, maxRequests, numConns, nWorkers,
                   spawned, wg, states, report, interrupted, limVars>>

Program ==
    \/ Parse \/ Prepare \/ Call
    \/ Next /\ UNCHANGED cliVars

\* The process runs to its end: main's goroutine, then the controller's.
ProgramFairness ==
    /\ WF_allVars(Parse) /\ WF_allVars(Prepare) /\ WF_allVars(Call)
    /\ Fairness

ProgramSpec == ProgramInit /\ [][Program]_allVars /\ ProgramFairness

-----------------------------------------------------------------------------
(* Properties.                                                             *)

\* The documented forms "[service] [method] [request]" and "[service]
\* [method] [headers] [request]" (lines 270-272): the i-th argument fills
\* the i-th slot of the form its count selects, an empty argument keeps
\* the flag's value, and anything past the fourth is ignored.
UsageReading(args, f) ==
    LET form == IF Len(args) >= 4
                   THEN <<"service", "method", "headers", "request">>
                   ELSE <<"service", "method", "request">>
        given(k) == {i \in DOMAIN form :
                         i <= Len(args) /\ form[i] = k /\ args[i] # ""}
    IN [k \in {"service", "method", "headers", "request"} |->
           IF given(k) = {} THEN f[k] ELSE args[CHOOSE i \in given(k) : TRUE]]

\* After parseAndRun, the request holds what the usage line promises.
PositionalMatchesUsage ==
    /\ phase # "parse" /\ argv.args /\ argv.parse = "ok"
    /\ ~argv.version /\ ~argv.manPage
    => request = UsageReading(argv.remaining, argv.flags)

\* spec.md (a): with benchmarking off yab is a curl-like single-shot
\* invoker: the process makes one call and prints only its response.
CurlLike ==
    phase = "returned" => sent = 1 /\ printed = <<"response">>

\* The whole program implements AbstractRun: the command line's steps are
\* part of the idle phase, its own call is not a benchmark call, and help,
\* version, the man page and every fatal error end the run unreported.
ProgramStatus ==
    IF phase \in CliPhases THEN "idle"
    ELSE IF phase \in CliEnds THEN "stopped" ELSE B!AbsStatus

ProgramAbs == INSTANCE AbstractRun
                  WITH status <- ProgramStatus, made <- B!CallsRecorded,
                       reported <- report.total + report.errors

ProgramImplementsAbstractRun == ProgramAbs!Spec

\* spec.md, Error Handling: invalid benchmark options are "Fatal; reported
\* before any calls".  runWithOptions makes its call first.
ConfigErrorBeforeAnyCall == ~validate(opts) => sent = 0

=============================================================================
