------------------------------ MODULE Limiter ------------------------------
(***************************************************************************)
(* limiter.Run: the one write-shared object of a benchmark.  Every worker  *)
(* loops on run.More(); the interrupt handler calls run.Stop().            *)
(*                                                                         *)
(* limiter/limiter.go is not among the repository sources here, so the     *)
(* gate is modelled from spec.md section 4.1: More() reads the stop flag   *)
(* (1), the deadline (2) and the shared counter (3), blocks for a token    *)
(* when RPS-gated until the token, the deadline or Stop comes (4), then   *)
(* atomically decrements the counter and returns true (5).  The contract  *)
(* of 4.1 (true at most MaxRequests times across all callers, false once  *)
(* the deadline elapses or Stop was called) and section 8 (exactly N true *)
(* returns, zero after Stop) fix step (5) as one atomic action that       *)
(* re-reads all three before it decrements: the steps of several callers  *)
(* interleave, the decision to return true does not.                      *)
(*                                                                         *)
(* Time is in milliseconds.  Nothing but the deadline and the token bucket *)
(* looks at the clock, so Tick jumps straight to the next of those two     *)
(* instants.                                                               *)
(***************************************************************************)
EXTENDS Integers, FiniteSets

CONSTANTS
    Callers,    \* goroutines that call More (the benchmark workers)
    TimeBound   \* the clock never passes this instant (bounds the model)

VARIABLES
    run,        \* the limiter.Run record built by New
    now,        \* the monotonic clock, in ms
    lpc,        \* lpc[c]: where caller c is inside More
    grants,     \* history: how many More calls returned true
    stopMark    \* history: grants and in-flight callers at the first Stop

limVars == <<run, now, lpc, grants, stopMark>>

\* Positions of a caller inside More(); "true"/"false" is its result.
InMore == {"deadline", "count", "take", "grant"}
MoreStates == {"idle", "true", "false"} \cup InMore

\* limiter.New(maxRequests, rps, maxDuration) at time t (spec 4.1,
\* "At construction"): a counter only if maxRequests > 0, a deadline only
\* if maxDuration > 0, a token bucket of period 1s/rps only if rps > 0.
NewRun(maxRequests, rps, maxDuration, t) ==
    [ bounded   |-> maxRequests > 0,
      limit     |-> IF maxRequests > 0 THEN maxRequests ELSE 0,
      remaining |-> IF maxRequests > 0 THEN maxRequests ELSE 0,
      timed     |-> maxDuration > 0,
      deadline  |-> t + maxDuration,
      period    |-> IF rps > 0 THEN 1000 \div rps ELSE 0,
      nextToken |-> t,
      stopped   |-> FALSE ]

Expired == run.timed /\ now >= run.deadline
TokenReady == now >= run.nextToken

SetLpc(c, s) == lpc' = [lpc EXCEPT ![c] = s]

\* Step (1): a call enters More and reads the stop flag.
MoreBegin(c) ==
    /\ lpc[c] = "idle"
    /\ SetLpc(c, IF run.stopped THEN "false" ELSE "deadline")
    /\ UNCHANGED <<run, now, grants, stopMark>>

\* Step (2): the deadline has passed -> false.
MoreCheckDeadline(c) ==
    /\ lpc[c] = "deadline"
    /\ SetLpc(c, IF Expired THEN "false" ELSE "count")
    /\ UNCHANGED <<run, now, grants, stopMark>>

\* Step (3): the shared counter is exhausted -> false; otherwise go on to
\* the token bucket when RPS-gated.
MoreCheckCount(c) ==
    /\ lpc[c] = "count"
    /\ SetLpc(c, CASE run.bounded /\ run.remaining = 0 -> "false"
                   [] run.period > 0                   -> "take"
                   [] OTHER                            -> "grant")
    /\ UNCHANGED <<run, now, grants, stopMark>>

\* Mutant of MoreTake: the bucket is not advanced when a token is taken.
MoreTakeNoAdvance(c) ==
    /\ lpc[c] = "take"
    /\ run.stopped \/ Expired \/ TokenReady
    /\ SetLpc(c, IF run.stopped \/ Expired THEN "false" ELSE "grant")
    /\ UNCHANGED <<run, now, grants, stopMark>>

\* Step (4): block until a token is available, the deadline comes or Stop
\* is called (spec 5: "The limiter may block up to the remaining deadline;
\* cancellation is via Stop()").  Taking a token schedules the next one a
\* period on.
MoreTake(c) ==
    /\ lpc[c] = "take"
    /\ run.stopped \/ Expired \/ TokenReady
    /\ IF run.stopped \/ Expired
          THEN /\ SetLpc(c, "false")
               /\ UNCHANGED run
          ELSE /\ SetLpc(c, "grant")
               /\ run' = [run EXCEPT !.nextToken = now + run.period]
    /\ UNCHANGED <<now, grants, stopMark>>

\* Whether step (5) may return true: not stopped, not past the deadline,
\* budget left.
MayGrant == ~run.stopped /\ ~Expired /\ (run.bounded => run.remaining > 0)

\* Mutant of MoreGrant: step (5) decrements without re-reading the
\* counter, trusting the read of step (3).
MoreGrantNoRecheck(c) ==
    /\ lpc[c] = "grant"
    /\ IF ~run.stopped /\ ~Expired
          THEN /\ run' = IF run.bounded THEN [run EXCEPT !.remaining = @ - 1]
                                        ELSE run
               /\ SetLpc(c, "true")
               /\ grants' = grants + 1
          ELSE /\ SetLpc(c, "false")
               /\ UNCHANGED <<run, grants>>
    /\ UNCHANGED <<now, stopMark>>

\* Mutant of MoreGrant: step (5) does not re-read the stop flag.
MoreGrantNoStopCheck(c) ==
    /\ lpc[c] = "grant"
    /\ IF ~Expired /\ (run.bounded => run.remaining > 0)
          THEN /\ run' = IF run.bounded THEN [run EXCEPT !.remaining = @ - 1]
                                        ELSE run
               /\ SetLpc(c, "true")
               /\ grants' = grants + 1
          ELSE /\ SetLpc(c, "false")
               /\ UNCHANGED <<run, grants>>
    /\ UNCHANGED <<now, stopMark>>

\* Step (5): atomically decrement the remaining count and return true, or
\* return false when the run was stopped, expired or used up meanwhile.
MoreGrant(c) ==
    /\ lpc[c] = "grant"
    /\ IF MayGrant
          THEN /\ run' = IF run.bounded THEN [run EXCEPT !.remaining = @ - 1]
                                        ELSE run
               /\ SetLpc(c, "true")
               /\ grants' = grants + 1
          ELSE /\ SetLpc(c, "false")
               /\ UNCHANGED <<run, grants>>
    /\ UNCHANGED <<now, stopMark>>

\* Run.Stop(): idempotent; the grants made before the first call are
\* remembered in stopMark.
Stop ==
    /\ run' = [run EXCEPT !.stopped = TRUE]
    /\ stopMark' = IF run.stopped THEN stopMark ELSE [grants |-> grants]
    /\ UNCHANGED <<now, lpc, grants>>

\* Instants at which something waits on the clock.
Wakeups ==
    {t \in {run.deadline} : run.timed} \cup
    {t \in {run.nextToken} : \E c \in Callers : lpc[c] = "take"}

Tick ==
    LET later == {t \in Wakeups : t > now /\ t <= TimeBound}
    IN /\ later # {}
       /\ now' = CHOOSE t \in later : \A u \in later : t <= u
       /\ UNCHANGED <<run, lpc, grants, stopMark>>

\* All steps of More for caller c.
More(c) ==
    \/ MoreBegin(c)
    \/ MoreCheckDeadline(c)
    \/ MoreCheckCount(c)
    \/ MoreTake(c)
    \/ MoreGrant(c)

NoStop == [grants |-> 0]

-----------------------------------------------------------------------------
(* Properties of the gate, shared by every spec that drives it.            *)

\* The counter is untouched without a budget and never below zero.
LimiterTypeOK ==
    /\ run.limit \in Nat
    /\ run.remaining \in 0..run.limit
    /\ {run.bounded, run.timed, run.stopped} \subseteq BOOLEAN
    /\ {run.deadline, run.period, run.nextToken} \subseteq Nat
    /\ now \in 0..TimeBound
    /\ grants \in Nat
    /\ stopMark.grants \in Nat

\* Spec 4.1 "Stop" and section 8 ("zero true returns after Stop()"): once
\* Stop has been called no More call returns true, not even one that had
\* passed the stop check, or was waiting for a token, when Stop came.
NoGrantAfterStop == run.stopped => grants = stopMark.grants

\* Spec 4.1 "paces true-returns at the target rate" (limiter_test.go
\* TestRateLimited): every true return took a token, tokens are a period
\* apart, and a caller woken by the deadline gets none, so by time now
\* (the run starts at 0) at most now / period + 1 calls have been let
\* through, after the deadline as before it.
PacedByRate ==
    run.period > 0 => grants <= now \div run.period + 1

=============================================================================
