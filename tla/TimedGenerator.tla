--------------------------- MODULE TimedGenerator ----------------------------
(***************************************************************************)
(* Generator on a machine that keeps up: computing takes no time, only     *)
(* waiting does.  The calling thread sleeps or waits at most one polling   *)
(* period (generator.py:203, 206-209), a queued capture starts as soon as  *)
(* a worker is free, and a running one ends by the deadline it computed    *)
(* when it started (tls13.py:388, 229-239).  Setup, which resolves the     *)
(* domain (generator.py:151), takes as long as it takes.                   *)
(*                                                                         *)
(* The unit of time is a fraction of the polling period, so that a poll    *)
(* begun just before a limit ends after it: nothing cuts a sleep or a wait *)
(* to what is left of the overall timeout.                                 *)
(*                                                                         *)
(* Every behaviour of TimedSpec is one of Generator!Spec; the two new      *)
(* variables only say when the clock has to hold still.                    *)
(***************************************************************************)
EXTENDS Generator

CONSTANT PollingPeriod  \* the 0.05 s of lines 203 and 206

ASSUME PollingPeriodAssumption == PollingPeriod \in Nat \ {0}

VARIABLES
    deadline,     \* of each running capture: local `deadline` of tls13.py:388
    waiting_since \* when the calling thread began its last sleep, wait or join

tvars == <<vars, deadline, waiting_since>>

TimedInit ==
    /\ Init
    /\ deadline = [a \in Attempts |-> 0]
    /\ waiting_since = 0

\* A capture with no time left raises before it does anything (tls13.py:374).
TimedStart(a) ==
    /\ StartAttempt(a)
    /\ deadline' = [deadline EXCEPT ![a] =
                       IF AttemptTimeout(a) > 0 THEN now + AttemptTimeout(a) ELSE now]
    /\ UNCHANGED waiting_since

TimedFinish(a) ==
    /\ FinishAttempt(a)
    /\ deadline' = [deadline EXCEPT ![a] = 0]
    /\ UNCHANGED waiting_since

TimedFillStop ==
    /\ FillStop
    /\ waiting_since' = now
    /\ UNCHANGED deadline

\* The join of line 269 begins.
TimedCancel ==
    /\ Cancel
    /\ waiting_since' = now
    /\ UNCHANGED deadline

\* How long the calling thread sleeps or waits (201-209): until the next
\* submission when only the rate holds it back, one polling period at most.
\* A delay of zero, with which the loop goes round without waiting once every
\* attempt is started, is time spent computing: it counts as a whole period.
PollingTime ==
    LET delay == next_start - waiting_since IN
    IF Interval # 0 /\ Cardinality(pending) < Concurrency /\ delay \in 1..PollingPeriod
        THEN delay ELSE PollingPeriod

\* Somebody has something to do that takes no time.
MainIsBusy ==
    \/ pc \in {"top", "fill", "collect", "report", "cleanup"}
    \/ pc \in {"wait", "sleep"} /\ now >= waiting_since + PollingTime
    \/ pc = "wait" /\ Snapshot # {}
    \/ pc = "shutdown" /\ Joined
PoolIsBusy ==
    \E a \in Attempts :
        \/ future[a] = "running" /\ now >= deadline[a]
        \/ future[a] = "queued" /\ Cardinality(InState({"running"})) < Concurrency

TimedTick ==
    /\ ~MainIsBusy
    /\ ~PoolIsBusy
    /\ Tick
    /\ UNCHANGED <<deadline, waiting_since>>

\* The remaining steps of Generator, whose time does not matter.
OtherMain ==
    \/ Prepare
    \/ Refuse
    \/ TopTimedOut
    \/ TopExhausted
    \/ TopContinue
    \/ FillSubmit
    \/ WakeUp
    \/ WaitReturn
    \/ \E a \in Attempts : Collect(a)
    \/ CollectEnd
    \/ Report
    \/ ReportRaises
    \/ Return
    \/ Interrupt
    \/ Over

TimedNext ==
    \/ OtherMain /\ UNCHANGED <<deadline, waiting_since>>
    \/ TimedFillStop
    \/ TimedCancel
    \/ \E a \in Attempts : TimedStart(a) \/ TimedFinish(a)
    \/ TimedTick

TimedSpec == TimedInit /\ [][TimedNext]_tvars

-----------------------------------------------------------------------------
(* Properties *)

\* --overall-timeout bounds the search from the moment its clock starts until
\* the function returns, the joining of the pool included, up to one polling
\* period: a sleep or a wait may begin just before the limit (203, 206), but
\* the timeout of the last attempts is cut to what is left (170, 189-194, 269).
OverallTimeoutBoundsSearch ==
    /\ OverallTimeout # 0
    /\ pc \notin {"setup", "returned", "abandoned"}
    => now < started_at + OverallTimeout + PollingPeriod

\* --connection-timeout bounds every capture from its submission on, as no
\* attempt has to queue behind another one (180, 195); and the joining of the
\* pool, however the search ends, as what waited for a worker is cancelled.
ConnectionTimeoutBoundsAttempt ==
    /\ \A a \in InState(Live) : now <= submitted_at[a] + ConnectionTimeout
    /\ pc = "shutdown" => now <= waiting_since + ConnectionTimeout

\* README.md:119: "Use --overall-timeout and --max-attempts to bound a run."
\* A run begins with the call, at time 0, and is given a polling period of
\* grace; what the setup takes before line 154 is not in the bound.
ReadmeOverallTimeoutBoundsRun ==
    /\ OverallTimeout # 0
    /\ pc \notin {"returned", "abandoned"}
    => now <= OverallTimeout + PollingPeriod
=============================================================================
