------------------------------ MODULE Generator ------------------------------
(***************************************************************************)
(* The proof search of generator.py, generate_connection_proof (127-269):  *)
(* the calling thread, which submits captures to a ThreadPoolExecutor,     *)
(* polls for finished ones, verifies candidates and decides how the search *)
(* ends; the pool's worker threads, each running one capture; the clock;   *)
(* and KeyboardInterrupt, which may strike the calling thread anywhere.    *)
(*                                                                         *)
(* A future is identified with its attempt number, the value the code      *)
(* stores under it in `pending` (line 196).  What a capture brings back is *)
(* abstracted to what the search tells apart: an error it handles, an      *)
(* exception it does not, or a proof with its work hash (a number) and the *)
(* verdict verify_connection_proof will give on it.                        *)
(*                                                                         *)
(* A unit of time may be any length: a wait or a sleep may return at any   *)
(* moment, and nothing here depends on how long one lasts (0.05 s at most, *)
(* lines 203 and 206; TimedGenerator keeps that time).  An interval that   *)
(* no float holds (line 198) is a matter of Setup and Cli.                 *)
(***************************************************************************)
EXTENDS Integers, FiniteSets

CONSTANTS
    Concurrency,        \* options.concurrency: pool size and limit on pending
    MaxAttempts,        \* options.max_attempts, 0 for no limit
    OverallTimeout,     \* options.overall_timeout, 0 for no limit
    ConnectionTimeout,  \* options.connection_timeout
    Interval,           \* 1 / connections_per_second, 0 for -1 (unlimited)
    WorkTarget,         \* context.connection_work_target
    Works,              \* the work hashes a capture may come back with
    AttemptCap,         \* bound: attempts of one search
    MaxTime             \* bound: the clock stops here unless the search needs it

\* _validate_options, lines 59-73, and the bounds of the model.
ASSUME ConcurrencyAssumption == Concurrency \in Nat \ {0}
ASSUME LimitsAssumption ==
    /\ MaxAttempts \in Nat
    /\ OverallTimeout \in Nat
    /\ ConnectionTimeout \in Nat \ {0}
    /\ Interval \in Nat
ASSUME WorksAssumption == Works \subseteq Nat /\ WorkTarget \in Nat
ASSUME BoundsAssumption ==
    /\ AttemptCap \in Nat
    /\ MaxAttempts <= AttemptCap
    /\ MaxTime \in Nat

Attempts == 1..AttemptCap

NoWork == -1            \* no proof captured (yet)

\* A finished capture, by what the search will make of it (214-241, 247-253).
ProofKinds == {"valid", "rejected", "raises"}
Finished == {"failed", "crashed"} \cup ProofKinds
Live == {"queued", "running"}
FutureStates == {"unused", "cancelled"} \cup Live \cup Finished

Outcomes == {"none", "proof", "timed_out", "exhausted", "refused", "escaped",
             "interrupted"}

LoopPoints == {"top", "fill", "wait", "sleep", "collect", "report"}
Points == {"setup", "cleanup", "shutdown", "returned", "abandoned"} \cup LoopPoints

VARIABLES
    pc,                  \* where the calling thread is
    now,                 \* time.monotonic()
    started_at,
    next_start,          \* earliest time of the next submission
    attempts_started,
    attempts_completed,
    pending,             \* keys of the pending dictionary
    done,                \* what wait returned and the loop has not popped yet
    best_value,          \* None is NoWork
    preflight_complete,
    outcome,             \* how the search ends, "none" while it loops
    winner,              \* attempt whose proof is the return value, 0 for none
    future,              \* state of each attempt's future
    work,                \* work hash of each attempt's captured proof
    submitted_at         \* the `now` of line 183 at each submission

clock == <<now>>
limits == <<started_at, next_start, submitted_at>>
counters == <<attempts_started, attempts_completed>>
findings == <<best_value, preflight_complete>>
verdict == <<outcome, winner>>
pool == <<future, work>>
vars == <<pc, now, started_at, next_start, attempts_started, attempts_completed,
          pending, done, best_value, preflight_complete, outcome, winner,
          future, work, submitted_at>>

TypeOK ==
    /\ pc \in Points
    /\ now \in Nat
    /\ started_at \in Nat
    /\ next_start \in Nat
    /\ attempts_started \in 0..AttemptCap
    /\ attempts_completed \in Nat
    /\ pending \subseteq Attempts
    /\ done \subseteq pending
    /\ best_value \in Works \cup {NoWork}
    /\ preflight_complete \in BOOLEAN
    /\ outcome \in Outcomes
    /\ winner \in Attempts \cup {0}
    /\ future \in [Attempts -> FutureStates]
    /\ work \in [Attempts -> Works \cup {NoWork}]
    /\ submitted_at \in [Attempts -> Nat]

Init ==
    /\ pc = "setup"
    /\ now = 0
    /\ started_at = 0
    /\ next_start = 0
    /\ attempts_started = 0
    /\ attempts_completed = 0
    /\ pending = {}
    /\ done = {}
    /\ best_value = NoWork
    /\ preflight_complete = FALSE
    /\ outcome = "none"
    /\ winner = 0
    /\ future = [a \in Attempts |-> "unused"]
    /\ work = [a \in Attempts |-> NoWork]
    /\ submitted_at = [a \in Attempts |-> 0]

-----------------------------------------------------------------------------
(* Helpers.  Mutants are defined just before the definition they replace:  *)
(* they show that the properties see a slip of the code at that place.      *)

Started == {a \in Attempts : future[a] # "unused"}
InState(S) == {a \in Attempts : future[a] \in S}
Collected == Started \ pending

MeetsTargetStrictly(a) == work[a] < WorkTarget
MeetsTarget(a) == work[a] <= WorkTarget
HasProof(a) == future[a] \in ProofKinds
AttemptsUsedUp == MaxAttempts # 0 /\ attempts_started >= MaxAttempts
RateLimited == Interval # 0 /\ now < next_start

\* The timeout handed to _capture with attempt a (189-194).  It may be zero or
\* negative: the check of line 170 read an earlier clock.
Remaining(a) == OverallTimeout - (submitted_at[a] - started_at)
AttemptTimeoutUncut(a) == ConnectionTimeout
AttemptTimeoutPerPhase(a) == 2 * ConnectionTimeout
AttemptTimeout(a) ==
    IF OverallTimeout # 0 /\ Remaining(a) < ConnectionTimeout
        THEN Remaining(a) ELSE ConnectionTimeout

\* Lines 218-220: the best hash is kept before anything is verified.
IsBetterOnlyFirst(a) == best_value = NoWork
IsBetter(a) == best_value = NoWork \/ work[a] < best_value
KeepBest(a) == best_value' = IF IsBetter(a) THEN work[a] ELSE best_value

\* A candidate is verified when no candidate was before it (223-231) or when
\* it meets the target (233-241): one call of verify_connection_proof at most.
IsVerifiedFirstOnly(a) == ~preflight_complete
IsVerifiedWinnersOnly(a) == MeetsTarget(a)
IsVerified(a) == ~preflight_complete \/ MeetsTarget(a)
Passes(a) == HasProof(a) /\ (IsVerified(a) => future[a] = "valid")

\* Lines 198-199.
NextStartCatchUp == IF Interval = 0 THEN next_start ELSE next_start + Interval
NextStart ==
    IF Interval = 0 THEN next_start
    ELSE IF next_start < now THEN now + Interval
    ELSE next_start + Interval

-----------------------------------------------------------------------------
(* The calling thread *)

\* Lines 134-165: options, context, root bundle and DNS are settled before
\* the clock of the search is read.
Prepare ==
    /\ pc = "setup"
    /\ pc' = "top"
    /\ started_at' = now
    /\ next_start' = now
    /\ UNCHANGED <<clock, counters, pending, done, findings, verdict, pool, submitted_at>>

\* Any of them may be refused: the function raises, no pool exists yet.
Refuse ==
    /\ pc = "setup"
    /\ pc' = "returned"
    /\ outcome' = "refused"
    /\ UNCHANGED <<clock, limits, counters, pending, done, findings, winner, pool>>

\* An exception leaves the loop through the finally clause.
Leave(reason) ==
    /\ pc' = "cleanup"
    /\ outcome' = reason
    /\ UNCHANGED winner

OutOfTime == OverallTimeout # 0 /\ now - started_at >= OverallTimeout
NothingLeftToStart == AttemptsUsedUp
NothingLeftNever == FALSE
NothingLeft == AttemptsUsedUp /\ pending = {}

\* Lines 168-173.
TopTimedOut ==
    /\ pc = "top"
    /\ OutOfTime
    /\ Leave("timed_out")
    /\ UNCHANGED <<clock, limits, counters, pending, done, findings, pool>>

\* Lines 174-178.
TopExhausted ==
    /\ pc = "top"
    /\ ~OutOfTime
    /\ NothingLeft
    /\ Leave("exhausted")
    /\ UNCHANGED <<clock, limits, counters, pending, done, findings, pool>>

TopContinue ==
    /\ pc = "top"
    /\ ~OutOfTime
    /\ ~NothingLeft
    /\ pc' = "fill"
    /\ UNCHANGED <<clock, limits, counters, pending, done, findings, verdict, pool>>

MayFillOneMore == Cardinality(pending) <= Concurrency /\ ~AttemptsUsedUp /\ ~RateLimited
MayFill == Cardinality(pending) < Concurrency /\ ~AttemptsUsedUp /\ ~RateLimited

\* One turn of the loop of lines 180-199.
FillSubmit ==
    LET a == attempts_started + 1 IN
    /\ pc = "fill"
    /\ MayFill
    /\ attempts_started < AttemptCap
    /\ attempts_started' = a
    /\ pending' = pending \cup {a}
    /\ future' = [future EXCEPT ![a] = "queued"]
    /\ submitted_at' = [submitted_at EXCEPT ![a] = now]
    /\ next_start' = NextStart
    /\ UNCHANGED <<pc, clock, started_at, attempts_completed, done, findings, verdict, work>>

\* The loop ends (180-185), or the model's bound on attempts is reached; with
\* nothing pending the thread sleeps (201-204), otherwise it waits (206-209).
FillStop ==
    /\ pc = "fill"
    /\ ~MayFill \/ attempts_started = AttemptCap
    /\ pc' = IF pending = {} THEN "sleep" ELSE "wait"
    /\ UNCHANGED <<clock, limits, counters, pending, done, findings, verdict, pool>>

WakeUp ==
    /\ pc = "sleep"
    /\ pc' = "top"
    /\ UNCHANGED <<clock, limits, counters, pending, done, findings, verdict, pool>>

\* Line 209: wait takes a snapshot of the finished futures, empty on a timeout.
SnapshotOfErrors == pending \cap InState({"failed", "crashed"})
Snapshot == pending \cap InState(Finished)
WaitReturn ==
    /\ pc = "wait"
    /\ pc' = "collect"
    /\ done' = Snapshot
    /\ UNCHANGED <<clock, limits, counters, pending, findings, verdict, pool>>

PopTwice(a) ==
    /\ pc = "collect"
    /\ a \in done
    /\ done' = done \ {a}
    /\ attempts_completed' = attempts_completed + 1
    /\ UNCHANGED <<clock, limits, attempts_started, pending, pool>>

\* Lines 210-212: the loop body starts by taking the future off the books.
Pop(a) ==
    /\ pc = "collect"
    /\ a \in done
    /\ done' = done \ {a}
    /\ pending' = pending \ {a}
    /\ attempts_completed' = attempts_completed + 1
    /\ UNCHANGED <<clock, limits, attempts_started, pool>>

\* future.result() raises one of the exceptions of lines 247-252.
CollectFailed(a) ==
    /\ Pop(a)
    /\ future[a] = "failed"
    /\ UNCHANGED <<pc, findings, verdict>>

\* Verification raises one of them.
CollectRejected(a) ==
    /\ Pop(a)
    /\ future[a] = "rejected"
    /\ IsVerified(a)
    /\ KeepBest(a)
    /\ UNCHANGED <<pc, preflight_complete, verdict>>

\* A proof short of the target; the first sound one completes the preflight.
CollectMiss(a) ==
    /\ Pop(a)
    /\ Passes(a)
    /\ ~MeetsTarget(a)
    /\ KeepBest(a)
    /\ preflight_complete' = TRUE
    /\ UNCHANGED <<pc, verdict>>

\* Lines 242-245: the return leaves the rest of `done` unread.
CollectWinner(a) ==
    /\ Pop(a)
    /\ Passes(a)
    /\ MeetsTarget(a)
    /\ KeepBest(a)
    /\ preflight_complete' = TRUE
    /\ pc' = "cleanup"
    /\ outcome' = "proof"
    /\ winner' = a

\* An exception that lines 247-252 do not name, from the worker or from the
\* verification, ends the search.
CollectEscape(a) ==
    /\ Pop(a)
    /\ \/ future[a] = "crashed" /\ UNCHANGED best_value
       \/ future[a] = "raises" /\ IsVerified(a) /\ KeepBest(a)
    /\ Leave("escaped")
    /\ UNCHANGED preflight_complete

CollectEnd ==
    /\ pc = "collect"
    /\ done = {}
    /\ pc' = "report"
    /\ UNCHANGED <<clock, limits, counters, pending, done, findings, verdict, pool>>

\* Lines 255-265.
Report ==
    /\ pc = "report"
    /\ pc' = "top"
    /\ UNCHANGED <<clock, limits, counters, pending, done, findings, verdict, pool>>

\* The caller's callback raises, which nothing inside the function catches.
ReportRaises ==
    /\ pc = "report"
    /\ attempts_completed > 0
    /\ Leave("escaped")
    /\ UNCHANGED <<clock, limits, counters, pending, done, findings, pool>>

\* Lines 267-269: whatever no worker has picked up is cancelled, from the
\* pending dictionary and then from the pool's own queue.
Cancel ==
    /\ pc = "cleanup"
    /\ pc' = "shutdown"
    /\ future' = [a \in Attempts |->
                     IF future[a] = "queued" THEN "cancelled" ELSE future[a]]
    /\ UNCHANGED <<clock, limits, counters, pending, done, findings, verdict, work>>

\* Line 269, wait=True: the pool is joined before the answer leaves.
JoinedAtOnce == TRUE
Joined == InState({"running"}) = {}
Return ==
    /\ pc = "shutdown"
    /\ Joined
    /\ pc' = "returned"
    /\ UNCHANGED <<clock, limits, counters, pending, done, findings, verdict, pool>>

\* KeyboardInterrupt is raised in the calling thread wherever it is.  Inside
\* the finally clause it skips what is left of it and replaces the answer.  One
\* that strikes inside a step (between 188 and 196, or 211 and 243) is taken to
\* strike before it: the caller, who gets no counts, cannot tell the difference.
Interrupt ==
    /\ pc \notin {"returned", "abandoned"}
    /\ pc' = CASE pc = "setup" -> "returned"
               [] pc \in LoopPoints -> "cleanup"
               [] OTHER -> "abandoned"
    /\ outcome' = "interrupted"
    /\ UNCHANGED <<clock, limits, counters, pending, done, findings, winner, pool>>

-----------------------------------------------------------------------------
(* The worker threads: the pool starts queued captures in any order, at most *)
(* Concurrency at a time.                                                    *)

StartAttempt(a) ==
    /\ future[a] = "queued"
    /\ Cardinality(InState({"running"})) < Concurrency
    /\ future' = [future EXCEPT ![a] = "running"]
    /\ UNCHANGED <<pc, clock, limits, counters, pending, done, findings, verdict, work>>

\* capture_tls13_proof raises before it connects when its timeout is not
\* positive (tls13.py:374); otherwise the network decides.
FinishAttempt(a) ==
    /\ future[a] = "running"
    /\ \/ \E kind \in {"failed", "crashed"} :
              /\ kind = "crashed" => AttemptTimeout(a) > 0
              /\ future' = [future EXCEPT ![a] = kind]
              /\ UNCHANGED work
       \/ \E kind \in ProofKinds, w \in Works :
              /\ AttemptTimeout(a) > 0
              /\ future' = [future EXCEPT ![a] = kind]
              /\ work' = [work EXCEPT ![a] = w]
    /\ UNCHANGED <<pc, clock, limits, counters, pending, done, findings, verdict>>

\* Time passes; past MaxTime only when the search depends on it, to submit its
\* next attempt or to time out.
ClockIsNeeded ==
    \/ RateLimited
    \/ OverallTimeout # 0 /\ pc # "setup" /\ now - started_at < OverallTimeout
Tick ==
    /\ pc \notin {"returned", "abandoned"}
    /\ now < MaxTime \/ ClockIsNeeded
    /\ now' = now + 1
    /\ UNCHANGED <<pc, limits, counters, pending, done, findings, verdict, pool>>

\* The function is over; captures of an abandoned pool may still run.
Over ==
    /\ pc \in {"returned", "abandoned"}
    /\ InState(Live) = {}
    /\ UNCHANGED vars

-----------------------------------------------------------------------------
Collect(a) ==
    \/ CollectFailed(a)
    \/ CollectRejected(a)
    \/ CollectMiss(a)
    \/ CollectWinner(a)
    \/ CollectEscape(a)

MainThread ==
    \/ Prepare
    \/ Refuse
    \/ TopTimedOut
    \/ TopExhausted
    \/ TopContinue
    \/ FillSubmit
    \/ FillStop
    \/ WakeUp
    \/ WaitReturn
    \/ \E a \in Attempts : Collect(a)
    \/ CollectEnd
    \/ Report
    \/ ReportRaises
    \/ Cancel
    \/ Return

Worker(a) == StartAttempt(a) \/ FinishAttempt(a)

Next ==
    \/ MainThread
    \/ Interrupt
    \/ \E a \in Attempts : Worker(a)
    \/ Tick
    \/ Over

Spec == Init /\ [][Next]_vars

\* The interpreter keeps running the calling thread and the workers, a capture
\* ends (every socket call in it carries a timeout), and time passes.  Nobody
\* has to press Ctrl-C.
Fairness ==
    /\ WF_vars(MainThread)
    /\ \A a \in Attempts : WF_vars(Worker(a))
    /\ WF_vars(Tick)

FairSpec == Spec /\ Fairness
-----------------------------------------------------------------------------
(* Properties *)

\* What the search is for, stated without the code's own tests.
Good(a) == future[a] = "valid" /\ work[a] <= WorkTarget

\* No more than options.concurrency connections are queued or open at once,
\* even after the search was abandoned: the pool only holds what the pending
\* dictionary holds (180, 195-196).
BoundedConcurrency == Cardinality(InState(Live)) <= Concurrency

\* The attempt counts of the progress reports and of the error messages are
\* the truth: attempts 1..attempts_started and no others were submitted, each is
\* either pending or was popped once, popped only after it finished, and
\* neither limit is ever passed (174, 180-181, 188, 196, 209-212).
Accounting ==
    /\ \A a \in Attempts : future[a] # "unused" <=> a <= attempts_started
    /\ \A a \in pending : a <= attempts_started
    /\ \A a \in 1..attempts_started : a \notin pending => future[a] \in Finished
    /\ \A a \in done : future[a] \in Finished
    /\ attempts_started = attempts_completed + Cardinality(pending)
    /\ Cardinality(pending) <= Concurrency
    /\ MaxAttempts # 0 => attempts_started <= MaxAttempts

\* connections_per_second: k intervals separate an attempt from its k-th
\* successor, so an idle period is never followed by a burst (184-199).
RateLimit ==
    \A i, j \in 1..attempts_started :
        i < j => submitted_at[j] >= submitted_at[i] + (j - i) * Interval

\* Whatever path led to the return (the preflight verifies without the
\* target, a later candidate only with it), the returned proof was verified
\* and meets the target (223-245).
ReturnedProofIsGood == outcome = "proof" => winner \in Attempts /\ Good(winner)

\* A good proof the loop has popped is the one it returns; it is given up
\* only by an interruption during the cleanup.
NoGoodProofSetAside == \A a \in Collected : Good(a) => winner = a

\* "no proof met the target in N attempts" is said only when all N attempts
\* were looked at and none of them was good (174-178).
ExhaustedMeansNoneGood ==
    outcome = "exhausted" =>
        /\ attempts_completed = MaxAttempts
        /\ \A a \in 1..MaxAttempts : future[a] \in Finished /\ ~Good(a)

\* When the function returns or raises, no capture of it is queued or running;
\* only a second interruption leaves threads behind (266-269).
CleanExit ==
    /\ pc = "returned" => InState(Live) = {}
    /\ pc \in {"shutdown", "returned"} => InState({"queued"}) = {}

\* The best work hash reported is the least among all proofs looked at,
\* verified or not, and there is one as soon as one proof was (218-220).
BestIsLeast ==
    LET seen == {a \in Collected : HasProof(a)} IN
    IF seen = {} THEN best_value = NoWork
    ELSE /\ \E a \in seen : best_value = work[a]
         /\ \A a \in seen : best_value <= work[a]

\* The preflight is complete exactly when a sound proof was looked at: the
\* flag never rises on an unverified one, and proofs keep being verified until
\* one passes (222-231; README.md "validates the first usable proof completely").
PreflightIsEarned ==
    preflight_complete <=> \E a \in Collected : future[a] = "valid"

\* A search bounded by --max-attempts ends, without --overall-timeout and
\* whatever its captures bring (174-178).
Termination == <>(pc \in {"returned", "abandoned"})

\* Without limits the search still never sits on a good proof: it is decided
\* and over some time after the capture.
GoodProofEndsSearch ==
    \A a \in Attempts :
        (a \in pending /\ Good(a)) ~> (pc \in {"returned", "abandoned"})

\* The search implements its promise.
Search ==
    INSTANCE ProofSearch WITH
        opened <- Started,
        judged <- Collected,
        good <- {a \in Attempts : Good(a)},
        answer <- outcome,
        chosen <- winner,
        delivered <- pc \in {"returned", "abandoned"}
SearchSpec == Search!Spec
=============================================================================
