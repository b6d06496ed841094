----------------------------- MODULE AbstractRun -----------------------------
(***************************************************************************)
(* What a benchmark run promises its user, whatever the workers, the       *)
(* limiter and the WaitGroup do inside: the run is set up and then either  *)
(* stops without a report or makes calls one at a time; it reports exactly *)
(* the calls it made, makes none after that, and always ends.              *)
(*                                                                         *)
(* Both controllers (Benchmark, LegacyBenchmark) are shown to implement    *)
(* this specification under a refinement mapping.                          *)
(***************************************************************************)
EXTENDS Naturals

VARIABLES
    status,    \* "idle", "running", "done" (reported) or "stopped"
    made,      \* calls completed so far, successful or not
    reported   \* the number of calls the report accounts for

avars == <<status, made, reported>>

Init ==
    /\ status = "idle"
    /\ made = 0
    /\ reported = 0

\* The options are accepted and the run is set up.
Start ==
    /\ status = "idle"
    /\ status' = "running"
    /\ UNCHANGED <<made, reported>>

\* One call completes and is counted.
Call ==
    /\ status = "running"
    /\ made' = made + 1
    /\ UNCHANGED <<status, reported>>

\* The run reports every call it made.
Finish ==
    /\ status = "running"
    /\ status' = "done"
    /\ reported' = made
    /\ UNCHANGED made

\* The run ends without a report: bad options, disabled, a fatal error or
\* a crash.
Abort ==
    /\ status \in {"idle", "running"}
    /\ status' = "stopped"
    /\ UNCHANGED <<made, reported>>

Next == Start \/ Call \/ Finish \/ Abort

\* A run always comes to an end.
Spec == Init /\ [][Next]_avars /\ WF_avars(Finish \/ Abort)

=============================================================================
