--------------------------- MODULE GeneratorProofs ---------------------------
(***************************************************************************)
(* Proofs about the proof search of Generator, for every value of its      *)
(* constants.  Each invariant is proved inductive relative to the ones     *)
(* before it: types, then the books (futures, pending dictionary and       *)
(* counters agree), then what the search knows and answers.                *)
(*                                                                         *)
(* The last part is about its timeouts: TimedSpec only holds the clock     *)
(* still, so what was proved of Spec carries over, and the argument        *)
(* follows one deadline: a queued capture always finds a free worker, so   *)
(* it starts at the time it was submitted, so its deadline lies within     *)
(* both timeouts counted from there.                                       *)
(***************************************************************************)
EXTENDS TimedGenerator, FiniteSetTheorems, TLAPS

-----------------------------------------------------------------------------
(* Type correctness *)

\* The initial values have their types.
LEMMA TypeInit == Init => TypeOK
<1> SUFFICES ASSUME Init PROVE TypeOK
  OBVIOUS
<1>1. pc \in Points
  BY DEF Init, Points
<1>2. now \in Nat /\ started_at \in Nat /\ next_start \in Nat
  BY DEF Init
<1>3. attempts_started \in 0..AttemptCap /\ attempts_completed \in Nat
  BY BoundsAssumption DEF Init
<1>4. pending \subseteq Attempts /\ done \subseteq pending
  BY DEF Init
<1>5. best_value \in Works \cup {NoWork}
  BY DEF Init
<1>6. preflight_complete \in BOOLEAN
  BY DEF Init
<1>7. outcome \in Outcomes /\ winner \in Attempts \cup {0}
  BY DEF Init, Outcomes
<1>8. future \in [Attempts -> FutureStates]
  BY DEF Init, FutureStates
<1>9. work \in [Attempts -> Works \cup {NoWork}]
  BY DEF Init
<1>10. submitted_at \in [Attempts -> Nat]
  BY DEF Init
<1> QED
  BY <1>1, <1>2, <1>3, <1>4, <1>5, <1>6, <1>7, <1>8, <1>9, <1>10 DEF TypeOK

\* Popping a future keeps the types of what it touches.
LEMMA PopType ==
  ASSUME TypeOK, NEW a \in Attempts, Pop(a)
  PROVE  /\ now' \in Nat /\ started_at' \in Nat /\ next_start' \in Nat
         /\ attempts_started' \in 0..AttemptCap /\ attempts_completed' \in Nat
         /\ pending' \subseteq Attempts /\ done' \subseteq pending'
         /\ future' \in [Attempts -> FutureStates]
         /\ work' \in [Attempts -> Works \cup {NoWork}]
         /\ submitted_at' \in [Attempts -> Nat]
  BY DEF TypeOK, Pop, clock, limits, pool

\* Every step of the calling thread, of a worker and of the clock keeps the
\* types.
LEMMA TypeStep == TypeOK /\ [Next]_vars => TypeOK'
<1> SUFFICES ASSUME TypeOK, [Next]_vars PROVE TypeOK'
  OBVIOUS
<1> USE DEF clock, limits, counters, findings, verdict, pool
<1>1. CASE Prepare
  BY <1>1 DEF TypeOK, Prepare, Points, LoopPoints
<1>2. CASE Refuse
  BY <1>2 DEF TypeOK, Refuse, Points, Outcomes
<1>3. CASE TopTimedOut
  BY <1>3 DEF TypeOK, TopTimedOut, Leave, Points, Outcomes
<1>4. CASE TopExhausted
  BY <1>4 DEF TypeOK, TopExhausted, Leave, Points, Outcomes
<1>5. CASE TopContinue
  BY <1>5 DEF TypeOK, TopContinue, Points, LoopPoints
<1>6. CASE FillSubmit
  <2>1. attempts_started + 1 \in Attempts
    BY <1>6, BoundsAssumption DEF TypeOK, FillSubmit, Attempts
  <2>2. future' \in [Attempts -> FutureStates]
    BY <1>6, <2>1 DEF TypeOK, FillSubmit, FutureStates, Live
  <2>3. submitted_at' \in [Attempts -> Nat]
    BY <1>6, <2>1 DEF TypeOK, FillSubmit
  <2>4. next_start' \in Nat
    BY <1>6, LimitsAssumption DEF TypeOK, FillSubmit, NextStart
  <2>5. attempts_started' \in 0..AttemptCap
    BY <1>6, <2>1 DEF FillSubmit, Attempts
  <2>6. pending' \subseteq Attempts /\ done' \subseteq pending'
    BY <1>6, <2>1 DEF TypeOK, FillSubmit
  <2> QED
    BY <1>6, <2>2, <2>3, <2>4, <2>5, <2>6 DEF TypeOK, FillSubmit
<1>7. CASE FillStop
  BY <1>7 DEF TypeOK, FillStop, Points, LoopPoints
<1>8. CASE WakeUp
  BY <1>8 DEF TypeOK, WakeUp, Points, LoopPoints
<1>9. CASE WaitReturn
  BY <1>9 DEF TypeOK, WaitReturn, Snapshot, Points, LoopPoints
<1>10. ASSUME NEW a \in Attempts, Collect(a) PROVE TypeOK'
  <2>1. Pop(a)
    BY <1>10 DEF Collect, CollectFailed, CollectRejected, CollectMiss,
                 CollectWinner, CollectEscape
  <2>2. pc' \in Points
    BY <1>10, <2>1 DEF Collect, CollectFailed, CollectRejected, CollectMiss,
         CollectWinner, CollectEscape, Leave, TypeOK, Points, Pop
  <2>3. best_value' \in Works \cup {NoWork}
    BY <1>10 DEF Collect, CollectFailed, CollectRejected, CollectMiss,
         CollectWinner, CollectEscape, KeepBest, TypeOK
  <2>4. preflight_complete' \in BOOLEAN
    BY <1>10 DEF Collect, CollectFailed, CollectRejected, CollectMiss,
         CollectWinner, CollectEscape, TypeOK
  <2>5. outcome' \in Outcomes /\ winner' \in Attempts \cup {0}
    BY <1>10 DEF Collect, CollectFailed, CollectRejected, CollectMiss,
         CollectWinner, CollectEscape, Leave, TypeOK, Outcomes
  <2> QED
    BY <2>1, <2>2, <2>3, <2>4, <2>5, PopType DEF TypeOK
<1>11. CASE CollectEnd
  BY <1>11 DEF TypeOK, CollectEnd, Points, LoopPoints
<1>12. CASE Report
  BY <1>12 DEF TypeOK, Report, Points, LoopPoints
<1>13. CASE ReportRaises
  BY <1>13 DEF TypeOK, ReportRaises, Leave, Points, Outcomes
<1>14. CASE Cancel
  BY <1>14 DEF TypeOK, Cancel, Points, FutureStates
<1>15. CASE Return
  BY <1>15 DEF TypeOK, Return, Points
<1>16. CASE Interrupt
  BY <1>16 DEF TypeOK, Interrupt, Points, Outcomes
<1>17. ASSUME NEW a \in Attempts, Worker(a) PROVE TypeOK'
  <2>1. CASE StartAttempt(a)
    BY <2>1 DEF TypeOK, StartAttempt, FutureStates, Live
  <2>2. CASE FinishAttempt(a)
    BY <2>2 DEF TypeOK, FinishAttempt, FutureStates, Finished
  <2> QED
    BY <1>17, <2>1, <2>2 DEF Worker
<1>18. CASE Tick
  BY <1>18 DEF TypeOK, Tick
<1>19. CASE UNCHANGED vars
  BY <1>19 DEF TypeOK, vars
<1> QED
  BY <1>1, <1>2, <1>3, <1>4, <1>5, <1>6, <1>7, <1>8, <1>9, <1>10, <1>11, <1>12,
     <1>13, <1>14, <1>15, <1>16, <1>17, <1>18, <1>19
  DEF Next, MainThread, Over

\* Type correctness of the search, the ground of every other proof.
THEOREM TypeCorrect == Spec => []TypeOK
<1> QED BY TypeInit, TypeStep, PTL DEF Spec
-----------------------------------------------------------------------------
(* The books: futures, the pending dictionary and the counters agree *)

\* Every set of attempts is finite and has a size.
LEMMA AttemptsFinite ==
  ASSUME NEW S \in SUBSET Attempts
  PROVE  IsFiniteSet(S) /\ Cardinality(S) \in Nat
<1>1. IsFiniteSet(Attempts)
  BY FS_Interval, BoundsAssumption DEF Attempts
<1> QED BY <1>1, FS_Subset, FS_CardinalityType

\* Nothing was submitted at first.
LEMMA AccountingInit == Init => Accounting
<1> SUFFICES ASSUME Init PROVE Accounting
  OBVIOUS
<1>1. Cardinality(pending) = 0
  BY FS_EmptySet DEF Init
<1>2. \A a \in Attempts : future[a] = "unused" /\ ~(a <= attempts_started)
  BY BoundsAssumption DEF Init, Attempts
<1> QED
  BY <1>1, <1>2, ConcurrencyAssumption, LimitsAssumption DEF Init, Accounting

\* A step that leaves the books alone leaves them right.
LEMMA AccountingFrame ==
  ASSUME Accounting,
         UNCHANGED <<attempts_started, attempts_completed, pending, done, future>>
  PROVE  Accounting'
  BY DEF Accounting

\* Submitting adds one attempt to the books, under both limits (180-196).
LEMMA AccountingSubmit ==
  ASSUME TypeOK, Accounting, FillSubmit
  PROVE  Accounting'
<1> DEFINE a == attempts_started + 1
<1>1. a \in Attempts /\ a \notin pending /\ attempts_started \in Nat
  BY BoundsAssumption DEF TypeOK, Accounting, FillSubmit, Attempts
<1>2. pending' = pending \cup {a} /\ attempts_started' = a
      /\ future' = [future EXCEPT ![a] = "queued"]
      /\ UNCHANGED <<attempts_completed, done>>
  BY DEF FillSubmit
<1>3. Cardinality(pending') = Cardinality(pending) + 1
  BY <1>1, <1>2, AttemptsFinite, FS_AddElement DEF TypeOK
<1>4. Cardinality(pending) < Concurrency /\ Cardinality(pending) \in Nat
  BY AttemptsFinite DEF TypeOK, FillSubmit, MayFill
<1>5. MaxAttempts # 0 => attempts_started < MaxAttempts
  BY <1>1, LimitsAssumption DEF FillSubmit, MayFill, AttemptsUsedUp
<1>6. \A b \in Attempts : future'[b] = IF b = a THEN "queued" ELSE future[b]
  BY <1>1, <1>2 DEF TypeOK
<1>7. \A b \in Attempts : future'[b] # "unused" <=> b <= attempts_started'
  BY <1>1, <1>2, <1>6 DEF Accounting, Attempts
<1>8. \A b \in pending' : b <= attempts_started'
  BY <1>1, <1>2 DEF Accounting, TypeOK, Attempts
<1>9. \A b \in 1..attempts_started' : b \notin pending' => future'[b] \in Finished
  BY <1>1, <1>2, <1>6, BoundsAssumption DEF Accounting, Attempts
<1>10. \A b \in done' : future'[b] \in Finished
  BY <1>1, <1>2, <1>6 DEF Accounting, TypeOK
<1> QED
  BY <1>1, <1>2, <1>3, <1>4, <1>5, <1>7, <1>8, <1>9, <1>10,
     ConcurrencyAssumption, LimitsAssumption
  DEF Accounting, TypeOK

\* Popping moves one attempt from pending to completed (211-212).
LEMMA AccountingPop ==
  ASSUME TypeOK, Accounting, NEW a \in Attempts, Pop(a)
  PROVE  Accounting'
<1>1. pending' = pending \ {a} /\ attempts_completed' = attempts_completed + 1
      /\ a \in pending /\ a \in done /\ done' = done \ {a}
      /\ UNCHANGED <<attempts_started, future>>
  BY DEF Pop, pool, TypeOK
<1>2. Cardinality(pending') = Cardinality(pending) - 1 /\ Cardinality(pending) \in Nat
  BY <1>1, AttemptsFinite, FS_RemoveElement DEF TypeOK
<1> QED
  BY <1>1, <1>2, ConcurrencyAssumption DEF Accounting, TypeOK

\* A future that moves on without becoming unused, and that was not finished
\* before, does not disturb the books.
LEMMA AccountingMove ==
  ASSUME TypeOK, Accounting,
         UNCHANGED <<attempts_started, attempts_completed, pending, done>>,
         future' \in [Attempts -> FutureStates],
         \A a \in Attempts : future'[a] # future[a] =>
             future[a] \in Live /\ future'[a] # "unused"
  PROVE  Accounting'
<1>1. \A a \in Attempts : future[a] \in Finished => future'[a] \in Finished
  BY DEF Live, Finished, ProofKinds
<1>2. \A a \in Attempts : future'[a] # "unused" <=> future[a] # "unused"
  BY DEF Live
<1>3. 1..attempts_started \subseteq Attempts
  BY BoundsAssumption DEF TypeOK, Attempts
<1> QED
  BY <1>1, <1>2, <1>3 DEF Accounting, TypeOK

\* What a worker still has or may get is in the pending dictionary; what was
\* collected is finished.
LEMMA LiveIsPending ==
  ASSUME TypeOK, Accounting, NEW a \in Attempts
  PROVE  /\ future[a] \in Live => a \in pending
         /\ a \in Collected <=> a \in 1..attempts_started /\ a \notin pending
         /\ a \in Collected => future[a] \in Finished
<1>1. a \in Nat /\ a >= 1 /\ attempts_started \in Nat
  BY BoundsAssumption DEF Attempts, TypeOK
<1>2. a \in 1..attempts_started <=> future[a] # "unused"
  BY <1>1 DEF Accounting
<1>3. a \in 1..attempts_started /\ a \notin pending => future[a] \in Finished
  BY DEF Accounting
<1>4. "unused" \notin Live /\ Live \cap Finished = {}
  BY DEF Live, Finished, ProofKinds
<1> QED
  BY <1>2, <1>3, <1>4 DEF Collected, Started

\* Every step keeps the books.
LEMMA AccountingStep == TypeOK /\ Accounting /\ [Next]_vars => Accounting'
<1> SUFFICES ASSUME TypeOK, Accounting, [Next]_vars PROVE Accounting'
  OBVIOUS
<1> USE DEF clock, limits, counters, findings, verdict, pool
<1>1. CASE FillSubmit
  BY <1>1, AccountingSubmit
<1>2. CASE WaitReturn
  BY <1>2 DEF WaitReturn, Snapshot, InState, Accounting
<1>3. ASSUME NEW a \in Attempts, Collect(a) PROVE Accounting'
  BY <1>3, AccountingPop
  DEF Collect, CollectFailed, CollectRejected, CollectMiss, CollectWinner, CollectEscape
<1>4. CASE Cancel
  BY <1>4, TypeStep, AccountingMove DEF Cancel, TypeOK, Live, FutureStates
<1>5. ASSUME NEW a \in Attempts, StartAttempt(a) PROVE Accounting'
  BY <1>5, AccountingMove DEF StartAttempt, TypeOK, Live, FutureStates
<1>6. ASSUME NEW a \in Attempts, FinishAttempt(a) PROVE Accounting'
  BY <1>6, AccountingMove DEF FinishAttempt, TypeOK, Live, FutureStates, Finished, ProofKinds
<1>7. CASE \/ Prepare \/ Refuse \/ TopTimedOut \/ TopExhausted \/ TopContinue
           \/ FillStop \/ WakeUp \/ CollectEnd \/ Report \/ ReportRaises
           \/ Return \/ Interrupt \/ Tick \/ UNCHANGED vars
  BY <1>7, AccountingFrame
  DEF Prepare, Refuse, TopTimedOut, TopExhausted, TopContinue, FillStop, WakeUp,
      CollectEnd, Report, ReportRaises, Return, Interrupt, Tick, Leave, vars
<1> QED
  BY <1>1, <1>2, <1>3, <1>4, <1>5, <1>6, <1>7
  DEF Next, MainThread, Worker, Over

\* The counts the search reports are the truth, under both limits.
THEOREM AccountingHolds == Spec => []Accounting
<1> QED BY TypeCorrect, AccountingInit, AccountingStep, PTL DEF Spec

\* The pool never holds more than options.concurrency connections: whatever it
\* holds is pending.
THEOREM ConcurrencyIsBounded == Spec => []BoundedConcurrency
<1>1. TypeOK /\ Accounting => BoundedConcurrency
  <2> SUFFICES ASSUME TypeOK, Accounting PROVE BoundedConcurrency
    OBVIOUS
  <2>1. \A a \in Attempts : future[a] \in Live => a \in pending
    BY LiveIsPending
  <2>2. InState(Live) \subseteq pending
    BY <2>1 DEF InState
  <2>3. Cardinality(InState(Live)) <= Cardinality(pending)
    BY <2>2, AttemptsFinite, FS_Subset DEF TypeOK
  <2>4. Cardinality(InState(Live)) \in Nat /\ Cardinality(pending) \in Nat
    BY <2>2, AttemptsFinite DEF TypeOK, InState
  <2> QED
    BY <2>3, <2>4, ConcurrencyAssumption DEF Accounting, BoundedConcurrency
<1> QED BY <1>1, TypeCorrect, AccountingHolds, PTL
-----------------------------------------------------------------------------
(* The rate limit *)

\* Nothing was submitted in the future, and with a limit next_start keeps a
\* whole interval from the last submission, two from the one before, and so on:
\* the strengthening that makes RateLimit inductive.
SubmittedInThePast == \A i \in 1..attempts_started : submitted_at[i] <= now
NextStartAhead ==
    Interval # 0 =>
        \A i \in 1..attempts_started :
            next_start >= submitted_at[i] + (attempts_started + 1 - i) * Interval

RateInv == RateLimit /\ SubmittedInThePast /\ NextStartAhead

\* Initially nothing was submitted.
LEMMA RateInit == Init => RateInv
  BY DEF Init, RateInv, RateLimit, SubmittedInThePast, NextStartAhead

\* A step that submits nothing disturbs none of them.
LEMMA RateFrame ==
  ASSUME TypeOK, RateInv, UNCHANGED <<attempts_started, next_start, submitted_at>>,
         now' = now \/ now' = now + 1
  PROVE  RateInv'
<1>1. SubmittedInThePast'
  <2>1. \A i \in 1..attempts_started : i \in Attempts
    BY BoundsAssumption DEF TypeOK, Attempts
  <2>2. \A i \in 1..attempts_started : submitted_at[i] \in Nat
    BY <2>1 DEF TypeOK
  <2> QED BY <2>2 DEF RateInv, SubmittedInThePast, TypeOK
<1> QED BY <1>1 DEF RateInv, RateLimit, NextStartAhead

\* Reading the clock for the first time (154-155) comes before any submission.
LEMMA RatePrepare ==
  ASSUME attempts_started = 0, UNCHANGED <<attempts_started, submitted_at>>
  PROVE  RateInv'
  BY DEF RateInv, RateLimit, SubmittedInThePast, NextStartAhead

\* The submission at `now` comes at next_start or later (184), and moves
\* next_start one interval ahead of both (199).
LEMMA RateSubmit ==
  ASSUME TypeOK, RateInv, FillSubmit
  PROVE  RateInv'
<1> DEFINE s == attempts_started
<1>1. s \in Nat /\ s + 1 \in Attempts /\ now \in Nat /\ next_start \in Nat
      /\ Interval \in Nat /\ 1..(s + 1) \subseteq Attempts
  BY BoundsAssumption, LimitsAssumption DEF TypeOK, FillSubmit, Attempts
<1>2. attempts_started' = s + 1 /\ now' = now
      /\ submitted_at' = [submitted_at EXCEPT ![s + 1] = now]
      /\ next_start' = NextStart
  BY DEF FillSubmit, clock
<1>3. Interval # 0 => now >= next_start
  BY <1>1 DEF FillSubmit, MayFill, RateLimited
<1>4. \A i \in 1..s : submitted_at'[i] = submitted_at[i] /\ submitted_at[i] \in Nat
  BY <1>1, <1>2 DEF TypeOK
<1>5. submitted_at'[s + 1] = now
  BY <1>1, <1>2 DEF TypeOK
<1>6. ASSUME NEW i \in 1..s
      PROVE  /\ (s + 1 - i) * Interval \in Int
             /\ now >= submitted_at[i] + (s + 1 - i) * Interval
  <2>1. (s + 1 - i) * Interval \in Int
    BY <1>1
  <2>2. CASE Interval = 0
    BY <1>1, <1>4, <2>2 DEF RateInv, SubmittedInThePast
  <2>3. CASE Interval # 0
    BY <1>1, <1>3, <1>4, <2>1, <2>3 DEF RateInv, NextStartAhead
  <2> QED BY <2>1, <2>2, <2>3
<1>7. RateLimit'
  <2> SUFFICES ASSUME NEW i \in 1..(s + 1), NEW j \in 1..(s + 1), i < j
               PROVE  submitted_at'[j] >= submitted_at'[i] + (j - i) * Interval
    BY <1>2 DEF RateLimit
  <2>1. CASE j = s + 1
    BY <1>1, <1>4, <1>5, <1>6, <2>1
  <2>2. CASE j # s + 1
    <3>1. i \in 1..s /\ j \in 1..s
      BY <1>1, <2>2
    <3> QED BY <1>4, <3>1 DEF RateInv, RateLimit
  <2> QED BY <2>1, <2>2
<1>8. SubmittedInThePast'
  <2> SUFFICES ASSUME NEW i \in 1..(s + 1) PROVE submitted_at'[i] <= now
    BY <1>2 DEF SubmittedInThePast
  <2>1. CASE i = s + 1
    BY <1>1, <1>5, <2>1
  <2>2. CASE i # s + 1
    <3>1. i \in 1..s
      BY <1>1, <2>2
    <3> QED BY <1>4, <3>1 DEF RateInv, SubmittedInThePast
  <2> QED BY <2>1, <2>2
<1>9. NextStartAhead'
  <2> SUFFICES ASSUME Interval # 0, NEW i \in 1..(s + 1)
               PROVE  next_start' >= submitted_at'[i] + (s + 2 - i) * Interval
    BY <1>1, <1>2 DEF NextStartAhead
  <2>1. next_start' = now + Interval
    BY <1>1, <1>2, <1>3 DEF NextStart
  <2>2. CASE i = s + 1
    BY <1>1, <1>5, <2>1, <2>2
  <2>3. CASE i # s + 1
    <3>1. i \in 1..s
      BY <1>1, <2>3
    <3>2. (s + 2 - i) * Interval = (s + 1 - i) * Interval + Interval
      BY <1>1, <3>1
    <3> QED BY <1>1, <1>4, <1>6, <2>1, <3>1, <3>2
  <2> QED BY <2>2, <2>3
<1> QED BY <1>7, <1>8, <1>9 DEF RateInv

\* During the setup no attempt was made: what Prepare needs.
SetupIsBlank == pc = "setup" => attempts_started = 0

\* No attempt is submitted, and no future exists, while the setup lasts (134-165).
LEMMA SetupStep == TypeOK /\ SetupIsBlank /\ [Next]_vars => SetupIsBlank'
<1> SUFFICES ASSUME TypeOK, SetupIsBlank, [Next]_vars PROVE SetupIsBlank'
  OBVIOUS
<1> USE DEF SetupIsBlank, counters
<1>1. ASSUME NEW a \in Attempts, Collect(a) PROVE SetupIsBlank'
  BY <1>1 DEF Collect, CollectFailed, CollectRejected, CollectMiss, CollectWinner,
              CollectEscape, Pop, Leave
<1>2. ASSUME NEW a \in Attempts, Worker(a) PROVE SetupIsBlank'
  BY <1>2 DEF Worker, StartAttempt, FinishAttempt
<1>3. CASE UNCHANGED vars
  BY <1>3 DEF vars
<1> QED
  BY <1>1, <1>2, <1>3
  DEF Next, MainThread, Over, Prepare, Refuse, TopTimedOut, TopExhausted,
      TopContinue, FillSubmit, FillStop, WakeUp, WaitReturn, CollectEnd, Report,
      ReportRaises, Cancel, Return, Interrupt, Tick, Leave, LoopPoints

\* Spec keeps the setup blank: no attempt precedes Prepare.
LEMMA SetupBlank == Spec => []SetupIsBlank
<1>1. Init => SetupIsBlank
  BY DEF Init, SetupIsBlank
<1> QED BY <1>1, SetupStep, TypeCorrect, PTL DEF Spec

\* Every step keeps the rate.
LEMMA RateStep == TypeOK /\ SetupIsBlank /\ RateInv /\ [Next]_vars => RateInv'
<1> SUFFICES ASSUME TypeOK, SetupIsBlank, RateInv, [Next]_vars PROVE RateInv'
  OBVIOUS
<1> USE DEF clock, limits, counters
<1>1. CASE Prepare
  BY <1>1, RatePrepare DEF Prepare, SetupIsBlank
<1>2. CASE FillSubmit
  BY <1>2, RateSubmit
<1>3. ASSUME NEW a \in Attempts, Collect(a) PROVE RateInv'
  BY <1>3, RateFrame
  DEF Collect, CollectFailed, CollectRejected, CollectMiss, CollectWinner,
      CollectEscape, Pop
<1>4. ASSUME NEW a \in Attempts, Worker(a) PROVE RateInv'
  BY <1>4, RateFrame DEF Worker, StartAttempt, FinishAttempt
<1>5. CASE \/ Refuse \/ TopTimedOut \/ TopExhausted \/ TopContinue
           \/ FillStop \/ WakeUp \/ WaitReturn \/ CollectEnd \/ Report
           \/ ReportRaises \/ Cancel \/ Return \/ Interrupt \/ Tick
           \/ UNCHANGED vars
  BY <1>5, RateFrame
  DEF Refuse, TopTimedOut, TopExhausted, TopContinue, FillStop, WakeUp, WaitReturn,
      CollectEnd, Report, ReportRaises, Cancel, Return, Interrupt, Tick, vars
<1> QED
  BY <1>1, <1>2, <1>3, <1>4, <1>5 DEF Next, MainThread, Over

\* connections_per_second is kept over any stretch of attempts, however long
\* the search idled in between.
THEOREM RateIsLimited == Spec => []RateLimit
<1>1. Spec => []RateInv
  BY SetupBlank, TypeCorrect, RateInit, RateStep, PTL DEF Spec
<1>2. RateInv => RateLimit
  BY DEF RateInv
<1> QED BY <1>1, <1>2, PTL
-----------------------------------------------------------------------------
(* What was collected stays as it was *)

\* Nothing but a pop changes the set of collected attempts, and their captures
\* are settled.
Settled ==
    /\ Collected' = Collected
    /\ \A a \in Collected : future'[a] = future[a] /\ work'[a] = work[a]

\* A future that moves is a live one or a new one, hence not a collected one.
LEMMA SettledMove ==
  ASSUME TypeOK, Accounting, pending' = pending,
         \A a \in Attempts : future'[a] # future[a] \/ work'[a] # work[a] =>
             future[a] \in Live /\ future'[a] # "unused"
  PROVE  Settled
<1>1. \A a \in Attempts : future'[a] # "unused" <=> future[a] # "unused"
  BY DEF Live
<1>2. Collected' = Collected
  BY <1>1 DEF Collected, Started
<1>3. \A a \in Collected : a \in Attempts /\ future[a] \notin Live
  <2> SUFFICES ASSUME NEW a \in Collected PROVE a \in Attempts /\ future[a] \notin Live
    OBVIOUS
  <2>1. a \in Attempts
    BY DEF Collected, Started
  <2>2. future[a] \in Finished
    BY <2>1, LiveIsPending
  <2> QED BY <2>1, <2>2 DEF Live, Finished, ProofKinds
<1> QED BY <1>2, <1>3 DEF Settled

\* A submitted attempt is pending, not collected.
LEMMA SettledSubmit ==
  ASSUME TypeOK, Accounting, FillSubmit
  PROVE  Settled
<1> DEFINE a == attempts_started + 1
<1>1. a \in Attempts /\ future[a] = "unused"
  BY BoundsAssumption DEF TypeOK, Accounting, FillSubmit, Attempts
<1>2. /\ pending' = pending \cup {a} /\ work' = work
      /\ \A b \in Attempts : future'[b] = IF b = a THEN "queued" ELSE future[b]
  BY <1>1 DEF FillSubmit, TypeOK
<1>3. Collected' = Collected
  BY <1>1, <1>2 DEF Collected, Started
<1>4. \A b \in Collected : b \in Attempts /\ b # a
  BY <1>1 DEF Collected, Started
<1> QED BY <1>2, <1>3, <1>4 DEF Settled

\* A pop adds just the popped attempt.
LEMMA CollectedPop ==
  ASSUME TypeOK, Accounting, NEW a \in Attempts, Pop(a)
  PROVE  /\ Collected' = Collected \cup {a}
         /\ a \notin Collected
         /\ a \in Started
         /\ future' = future /\ work' = work
<1>1. a \in pending /\ pending' = pending \ {a} /\ future' = future /\ work' = work
  BY DEF Pop, pool, TypeOK
<1>2. a \in Started
  BY <1>1 DEF Accounting, Started
<1> QED BY <1>1, <1>2 DEF Collected, Started

\* Every step either collects an attempt or leaves the collected ones and what
\* the search knows about them alone.
LEMMA CollectOrSettled ==
  ASSUME TypeOK, Accounting, [Next]_vars
  PROVE  \/ \E a \in Attempts : Collect(a)
         \/ Settled /\ UNCHANGED findings
<1> USE DEF clock, limits, counters, findings, verdict, pool
<1>1. CASE FillSubmit
  BY <1>1, SettledSubmit DEF FillSubmit
<1>2. CASE Cancel
  <2>1. \A a \in Attempts : future'[a] = IF future[a] = "queued" THEN "cancelled"
                                                              ELSE future[a]
    BY <1>2 DEF Cancel
  <2> QED BY <1>2, <2>1, SettledMove DEF Cancel, Live
<1>3. ASSUME NEW a \in Attempts, StartAttempt(a)
      PROVE  Settled /\ UNCHANGED findings
  BY <1>3, SettledMove DEF StartAttempt, TypeOK, Live
<1>4. ASSUME NEW a \in Attempts, FinishAttempt(a)
      PROVE  Settled /\ UNCHANGED findings
  <2>1. \A b \in Attempts : future'[b] # future[b] \/ work'[b] # work[b] => b = a
    BY <1>4 DEF FinishAttempt, TypeOK
  <2>2. future[a] \in Live /\ future'[a] # "unused"
    BY <1>4 DEF FinishAttempt, TypeOK, Live, ProofKinds
  <2> QED BY <1>4, <2>1, <2>2, SettledMove DEF FinishAttempt
<1>5. CASE \/ Prepare \/ Refuse \/ TopTimedOut \/ TopExhausted \/ TopContinue
           \/ FillStop \/ WakeUp \/ WaitReturn \/ CollectEnd \/ Report
           \/ ReportRaises \/ Return \/ Interrupt \/ Tick \/ UNCHANGED vars
  <2>1. UNCHANGED <<pending, future, work, best_value, preflight_complete>>
    BY <1>5
    DEF Prepare, Refuse, TopTimedOut, TopExhausted, TopContinue, FillStop, WakeUp,
        WaitReturn, CollectEnd, Report, ReportRaises, Return, Interrupt, Tick, vars
  <2> QED BY <2>1, SettledMove
<1> QED
  BY <1>1, <1>2, <1>3, <1>4, <1>5 DEF Next, MainThread, Worker, Over

-----------------------------------------------------------------------------
(* What the search knows: the best hash and the preflight *)

\* A captured proof carries a work hash.
ProofsHaveWork == \A a \in Attempts : HasProof(a) => work[a] \in Works

\* A captured proof comes with its work hash (215-217), which never changes.
LEMMA ProofsHaveWorkStep ==
  TypeOK /\ Accounting /\ ProofsHaveWork /\ [Next]_vars => ProofsHaveWork'
<1> SUFFICES ASSUME TypeOK, Accounting, ProofsHaveWork, [Next]_vars
             PROVE  ProofsHaveWork'
  OBVIOUS
<1> USE DEF ProofsHaveWork, HasProof, pool
<1>1. ASSUME NEW a \in Attempts, Pop(a) PROVE ProofsHaveWork'
  BY <1>1 DEF Pop
<1>2. CASE FillSubmit
  <2>1. \A b \in Attempts : future'[b] = future[b] \/ future'[b] = "queued"
    BY <1>2 DEF FillSubmit, TypeOK
  <2> QED BY <1>2, <2>1 DEF FillSubmit, ProofKinds
<1>3. CASE Cancel
  BY <1>3 DEF Cancel, ProofKinds
<1>4. ASSUME NEW a \in Attempts, StartAttempt(a) PROVE ProofsHaveWork'
  BY <1>4 DEF StartAttempt, TypeOK, ProofKinds
<1>5. ASSUME NEW a \in Attempts, FinishAttempt(a) PROVE ProofsHaveWork'
  BY <1>5 DEF FinishAttempt, TypeOK, ProofKinds
<1>6. CASE UNCHANGED vars
  BY <1>6 DEF vars
<1> QED
  BY <1>1, <1>2, <1>3, <1>4, <1>5, <1>6
  DEF Next, MainThread, Collect, CollectFailed, CollectRejected, CollectMiss,
      CollectWinner, CollectEscape, Worker, Over, Prepare, Refuse, TopTimedOut,
      TopExhausted, TopContinue, FillStop, WakeUp, WaitReturn, CollectEnd, Report,
      ReportRaises, Return, Interrupt, Tick
\* Initially nothing was captured or collected.
LEMMA KnownInit == Init => ProofsHaveWork /\ BestIsLeast /\ PreflightIsEarned
<1> SUFFICES ASSUME Init PROVE ProofsHaveWork /\ BestIsLeast /\ PreflightIsEarned
  OBVIOUS
<1>1. \A a \in Attempts : future[a] = "unused"
  BY DEF Init
<1>2. Collected = {}
  BY <1>1 DEF Collected, Started
<1>3. ProofsHaveWork
  BY <1>1 DEF ProofsHaveWork, HasProof, ProofKinds
<1>4. BestIsLeast
  BY <1>2 DEF BestIsLeast, Init
<1>5. ~preflight_complete
  BY DEF Init
<1>6. PreflightIsEarned
  BY <1>2, <1>5 DEF PreflightIsEarned
<1> QED BY <1>3, <1>4, <1>6

\* Collecting an attempt without a proof leaves the best hash alone, collecting
\* one with a proof keeps the lesser of the two.
LEMMA BestCollect ==
  ASSUME TypeOK, Accounting, ProofsHaveWork, BestIsLeast,
         NEW a \in Attempts, Collect(a)
  PROVE  BestIsLeast'
<1> DEFINE seen == {b \in Collected : HasProof(b)}
<1>1. Pop(a)
  BY DEF Collect, CollectFailed, CollectRejected, CollectMiss, CollectWinner,
         CollectEscape
<1>2. /\ Collected' = Collected \cup {a} /\ a \notin Collected
      /\ future' = future /\ work' = work
  BY <1>1, CollectedPop
<1>3. \/ ~HasProof(a) /\ best_value' = best_value
      \/ HasProof(a) /\ KeepBest(a)
  BY DEF Collect, CollectFailed, CollectRejected, CollectMiss, CollectWinner,
         CollectEscape, Passes, HasProof, ProofKinds, findings
<1>4. \A b \in seen : work[b] \in Nat
  BY WorksAssumption DEF ProofsHaveWork, Collected, Started
<1>5. \A b \in seen : work[b] # NoWork
  BY <1>4 DEF NoWork
<1>6. CASE ~HasProof(a)
  <2>1. {b \in Collected' : HasProof(b)'} = seen
    BY <1>2, <1>6 DEF HasProof
  <2> QED BY <1>2, <1>3, <1>6, <2>1 DEF BestIsLeast, HasProof
<1>7. CASE HasProof(a)
  <2>1. {b \in Collected' : HasProof(b)'} = seen \cup {a}
    BY <1>2, <1>7 DEF HasProof
  <2>2. work[a] \in Nat
    BY <1>7, WorksAssumption DEF ProofsHaveWork
  <2>3. best_value' = IF best_value = NoWork \/ work[a] < best_value
                         THEN work[a] ELSE best_value
    BY <1>3, <1>7 DEF KeepBest, IsBetter
  <2>4. /\ \E b \in seen \cup {a} : best_value' = work[b]
        /\ \A b \in seen \cup {a} : best_value' <= work[b]
    <3>1. CASE seen = {}
      <4>1. best_value = NoWork
        BY <3>1 DEF BestIsLeast
      <4> QED BY <2>2, <2>3, <3>1, <4>1
    <3>2. CASE seen # {}
      <4>1. PICK c \in seen : best_value = work[c]
        BY <3>2 DEF BestIsLeast
      <4>2. \A b \in seen : best_value <= work[b]
        BY <3>2 DEF BestIsLeast
      <4>3. best_value \in Nat /\ best_value # NoWork
        BY <1>4, <1>5, <4>1
      <4> QED BY <1>4, <2>2, <2>3, <4>1, <4>2, <4>3
    <3> QED BY <3>1, <3>2
  <2> QED BY <1>2, <2>1, <2>4 DEF BestIsLeast
<1> QED BY <1>6, <1>7

\* The preflight flag follows the first sound proof (223-231).
LEMMA PreflightCollect ==
  ASSUME TypeOK, Accounting, PreflightIsEarned, NEW a \in Attempts, Collect(a)
  PROVE  PreflightIsEarned'
<1>1. Pop(a)
  BY DEF Collect, CollectFailed, CollectRejected, CollectMiss, CollectWinner,
         CollectEscape
<1>2. Collected' = Collected \cup {a} /\ future' = future
  BY <1>1, CollectedPop
<1>3. CASE preflight_complete' = preflight_complete /\ future[a] # "valid"
  BY <1>2, <1>3 DEF PreflightIsEarned
<1>4. CASE preflight_complete' /\ (preflight_complete \/ future[a] = "valid")
  BY <1>2, <1>4 DEF PreflightIsEarned
<1>5. CASE CollectFailed(a) \/ CollectRejected(a) \/ CollectEscape(a)
  BY <1>3, <1>5 DEF CollectFailed, CollectRejected, CollectEscape, findings
<1>6. CASE CollectMiss(a) \/ CollectWinner(a)
  <2>1. preflight_complete' /\ Passes(a)
    BY <1>6 DEF CollectMiss, CollectWinner
  <2> QED BY <1>4, <2>1 DEF Passes, IsVerified
<1> QED BY <1>5, <1>6 DEF Collect

\* A step that keeps the collected attempts keeps what is known of them.
LEMMA KnownSettled ==
  ASSUME Settled, UNCHANGED findings, BestIsLeast, PreflightIsEarned
  PROVE  BestIsLeast' /\ PreflightIsEarned'
<1> USE DEF Settled, findings
<1>1. \A a \in Collected : HasProof(a)' <=> HasProof(a)
  BY DEF HasProof
<1>2. {a \in Collected' : HasProof(a)'} = {a \in Collected : HasProof(a)}
  BY <1>1
<1>3. BestIsLeast'
  <2> DEFINE seen == {a \in Collected : HasProof(a)}
  <2>1. \A a \in seen : work'[a] = work[a]
    OBVIOUS
  <2> QED BY <1>2, <2>1 DEF BestIsLeast
<1>4. PreflightIsEarned'
  BY DEF PreflightIsEarned
<1> QED BY <1>3, <1>4

KnownInv == ProofsHaveWork /\ BestIsLeast /\ PreflightIsEarned

\* Every step keeps what the search says it knows in line with what it saw.
LEMMA KnownStep == TypeOK /\ Accounting /\ KnownInv /\ [Next]_vars => KnownInv'
<1> SUFFICES ASSUME TypeOK, Accounting, KnownInv, [Next]_vars PROVE KnownInv'
  OBVIOUS
<1>1. ProofsHaveWork'
  BY ProofsHaveWorkStep DEF KnownInv
<1>2. CASE \E a \in Attempts : Collect(a)
  BY <1>1, <1>2, BestCollect, PreflightCollect DEF KnownInv
<1>3. CASE Settled /\ UNCHANGED findings
  BY <1>1, <1>3, KnownSettled DEF KnownInv
<1> QED BY <1>2, <1>3, CollectOrSettled

\* The best hash of a progress report is the least of all proofs looked at.
THEOREM BestHashIsLeast == Spec => []BestIsLeast
<1>1. Spec => []KnownInv
  BY TypeCorrect, AccountingHolds, KnownInit, KnownStep, PTL DEF Spec, KnownInv
<1> QED BY <1>1, PTL DEF KnownInv

\* The first usable proof is validated completely before the search trusts the
\* root bundle and the signature mask with the rest.
THEOREM PreflightIsSound == Spec => []PreflightIsEarned
<1>1. Spec => []KnownInv
  BY TypeCorrect, AccountingHolds, KnownInit, KnownStep, PTL DEF Spec, KnownInv
<1> QED BY <1>1, PTL DEF KnownInv

-----------------------------------------------------------------------------
(* How the search ends *)

\* The answer and the place of the calling thread agree, an answer that names
\* an attempt names a good one, no collected good attempt goes unnamed, and an
\* exhausted search has nothing pending.
AnswerInv ==
    /\ outcome = "none" <=> pc \in {"setup"} \cup LoopPoints
    /\ outcome = "none" => winner = 0
    /\ winner # 0 => winner \in Collected /\ Good(winner)
    /\ outcome = "proof" => winner # 0
    /\ NoGoodProofSetAside
    /\ outcome = "exhausted" => winner = 0 /\ AttemptsUsedUp /\ pending = {}

\* There is no answer at first.
LEMMA AnswerInit == Init => AnswerInv
<1> SUFFICES ASSUME Init PROVE AnswerInv
  OBVIOUS
<1>1. Collected = {}
  BY DEF Init, Collected, Started
<1> QED BY <1>1 DEF Init, AnswerInv, NoGoodProofSetAside

\* Collecting: only a verified proof that meets the target is returned, and
\* every other attempt that is popped is not a good one (213-253).
LEMMA AnswerCollect ==
  ASSUME TypeOK, Accounting, AnswerInv, NEW a \in Attempts, Collect(a)
  PROVE  AnswerInv'
<1>1. Pop(a)
  BY DEF Collect, CollectFailed, CollectRejected, CollectMiss, CollectWinner,
         CollectEscape
<1>2. /\ Collected' = Collected \cup {a} /\ future' = future /\ work' = work
  BY <1>1, CollectedPop
<1>3. \A b : Good(b)' <=> Good(b)
  BY <1>2 DEF Good
<1>4. outcome = "none" /\ winner = 0 /\ \A b \in Collected : ~Good(b)
  <2>1. outcome = "none" /\ winner = 0
    BY <1>1 DEF Pop, AnswerInv, LoopPoints
  <2>2. 0 \notin Collected
    BY DEF Collected, Started, Attempts
  <2> QED BY <2>1, <2>2 DEF AnswerInv, NoGoodProofSetAside
<1>5. CASE CollectFailed(a) \/ CollectRejected(a) \/ CollectMiss(a)
  <2>1. ~Good(a)
    BY <1>5 DEF CollectFailed, CollectRejected, CollectMiss, Good, MeetsTarget
  <2>2. pc' = pc /\ outcome' = outcome /\ winner' = winner
    BY <1>5 DEF CollectFailed, CollectRejected, CollectMiss, verdict
  <2> QED BY <1>2, <1>3, <1>4, <2>1, <2>2 DEF AnswerInv, NoGoodProofSetAside
<1>6. CASE CollectWinner(a)
  <2>1. Good(a)
    BY <1>6 DEF CollectWinner, Passes, IsVerified, MeetsTarget, Good
  <2>2. pc' = "cleanup" /\ outcome' = "proof" /\ winner' = a
    BY <1>6 DEF CollectWinner
  <2>3. a # 0
    BY DEF Attempts
  <2> QED
    BY <1>2, <1>3, <1>4, <2>1, <2>2, <2>3
    DEF AnswerInv, NoGoodProofSetAside, LoopPoints
<1>7. CASE CollectEscape(a)
  <2>1. ~Good(a)
    BY <1>7 DEF CollectEscape, Good
  <2>2. pc' = "cleanup" /\ outcome' = "escaped" /\ winner' = winner
    BY <1>7 DEF CollectEscape, Leave
  <2> QED
    BY <1>2, <1>3, <1>4, <2>1, <2>2 DEF AnswerInv, NoGoodProofSetAside, LoopPoints
<1> QED BY <1>5, <1>6, <1>7 DEF Collect

\* A step that collects nothing keeps the answer's witnesses.
LEMMA AnswerSettled ==
  ASSUME AnswerInv, Settled, winner' = winner
  PROVE  /\ winner' # 0 => winner' \in Collected' /\ Good(winner)'
         /\ NoGoodProofSetAside'
<1>1. \A a \in Collected : Good(a)' <=> Good(a)
  BY DEF Settled, Good
<1>2. winner' # 0 => winner' \in Collected' /\ Good(winner)'
  BY DEF AnswerInv, Settled, Good
<1>3. NoGoodProofSetAside'
  BY <1>1 DEF AnswerInv, NoGoodProofSetAside, Settled
<1> QED BY <1>2, <1>3

\* Every step keeps the answer justified: only a collected attempt changes it to
\* a proof, and only a full count to an exhausted search (174-178, 242-245).
LEMMA AnswerStep == TypeOK /\ Accounting /\ AnswerInv /\ [Next]_vars => AnswerInv'
<1> SUFFICES ASSUME TypeOK, Accounting, AnswerInv, [Next]_vars PROVE AnswerInv'
  OBVIOUS
<1>1. CASE \E a \in Attempts : Collect(a)
  BY <1>1, AnswerCollect
<1>2. CASE Settled /\ ~(\E a \in Attempts : Collect(a))
  <2>1. winner' = winner
    BY <1>2
    DEF Next, MainThread, Worker, Over, Prepare, Refuse, TopTimedOut, TopExhausted,
        TopContinue, FillSubmit, FillStop, WakeUp, WaitReturn, CollectEnd, Report,
        ReportRaises, Cancel, Return, Interrupt, StartAttempt, FinishAttempt, Tick,
        Leave, verdict, vars
  <2>2. /\ outcome' = "none" <=> pc' \in {"setup"} \cup LoopPoints
        /\ outcome' = "none" => outcome = "none"
        /\ outcome' = "proof" => outcome = "proof"
    BY <1>2
    DEF AnswerInv, Next, MainThread, Worker, Over, Prepare, Refuse, TopTimedOut,
        TopExhausted, TopContinue, FillSubmit, FillStop, WakeUp, WaitReturn,
        CollectEnd, Report, ReportRaises, Cancel, Return, Interrupt, StartAttempt,
        FinishAttempt, Tick, Leave, verdict, vars, LoopPoints
  <2>3. outcome' = "exhausted" => winner' = 0 /\ AttemptsUsedUp' /\ pending' = {}
    <3>1. CASE TopExhausted
      BY <3>1
      DEF TopExhausted, NothingLeft, AttemptsUsedUp, Leave, AnswerInv, LoopPoints,
          counters
    <3>2. CASE ~TopExhausted
      <4>1. outcome' = "exhausted" =>
              outcome = "exhausted" /\ UNCHANGED <<attempts_started, pending>>
        BY <1>2, <3>2
        DEF AnswerInv, Next, MainThread, Worker, Over, Prepare, Refuse, TopTimedOut,
            TopContinue, FillSubmit, FillStop, WakeUp, WaitReturn, CollectEnd,
            Report, ReportRaises, Cancel, Return, Interrupt, StartAttempt,
            FinishAttempt, Tick, Leave, verdict, counters, vars, LoopPoints
      <4> QED BY <2>1, <4>1 DEF AnswerInv, AttemptsUsedUp
    <3> QED BY <3>1, <3>2
  <2> QED BY <1>2, <2>1, <2>2, <2>3, AnswerSettled DEF AnswerInv
<1> QED BY <1>1, <1>2, CollectOrSettled

\* Whatever the answer says of the collected attempts is so; the three theorems
\* below read their property off it.
THEOREM AnswerIsJustified == Spec => []AnswerInv
<1> QED BY TypeCorrect, AccountingHolds, AnswerInit, AnswerStep, PTL DEF Spec

\* The returned proof was verified and meets the target.
THEOREM OnlyGoodProofsReturned == Spec => []ReturnedProofIsGood
<1>1. TypeOK /\ AnswerInv => ReturnedProofIsGood
  BY DEF TypeOK, AnswerInv, ReturnedProofIsGood
<1> QED BY <1>1, TypeCorrect, AnswerIsJustified, PTL

\* No good proof that the loop looked at is lost to another answer.
THEOREM NoGoodProofLost == Spec => []NoGoodProofSetAside
<1>1. AnswerInv => NoGoodProofSetAside
  BY DEF AnswerInv
<1> QED BY <1>1, AnswerIsJustified, PTL

\* "no proof met the target in N attempts" is true of all N attempts.
THEOREM ExhaustedIsHonest == Spec => []ExhaustedMeansNoneGood
<1>1. TypeOK /\ Accounting /\ AnswerInv => ExhaustedMeansNoneGood
  <2> SUFFICES ASSUME TypeOK, Accounting, AnswerInv, outcome = "exhausted"
               PROVE  /\ attempts_completed = MaxAttempts
                      /\ \A a \in 1..MaxAttempts : future[a] \in Finished /\ ~Good(a)
    BY DEF ExhaustedMeansNoneGood
  <2>1. winner = 0 /\ pending = {} /\ attempts_started = MaxAttempts
    BY LimitsAssumption DEF AnswerInv, AttemptsUsedUp, Accounting, TypeOK
  <2>2. attempts_completed = MaxAttempts
    BY <2>1, FS_EmptySet DEF Accounting, TypeOK
  <2>3. ASSUME NEW a \in 1..MaxAttempts PROVE future[a] \in Finished /\ ~Good(a)
    <3>1. a \in Attempts /\ a # 0
      BY BoundsAssumption, LimitsAssumption DEF Attempts
    <3>2. a \in Collected
      BY <2>1, <3>1, LiveIsPending
    <3> QED BY <2>1, <3>1, <3>2, LiveIsPending DEF AnswerInv, NoGoodProofSetAside
  <2> QED BY <2>2, <2>3
<1> QED BY <1>1, TypeCorrect, AccountingHolds, AnswerIsJustified, PTL

-----------------------------------------------------------------------------
(* The pool at the end *)

\* No future goes back to waiting once it was cancelled or picked up.
LEMMA NothingRequeued ==
  ASSUME TypeOK, [Next]_vars, pc # "fill"
  PROVE  InState({"queued"})' \subseteq InState({"queued"})
<1> USE DEF InState, pool
<1>1. ASSUME NEW a \in Attempts, Pop(a)
      PROVE  InState({"queued"})' \subseteq InState({"queued"})
  BY <1>1 DEF Pop
<1>2. ASSUME NEW a \in Attempts, Worker(a)
      PROVE  InState({"queued"})' \subseteq InState({"queued"})
  BY <1>2 DEF Worker, StartAttempt, FinishAttempt, TypeOK, ProofKinds
<1>3. CASE Cancel
  BY <1>3 DEF Cancel
<1>4. CASE UNCHANGED vars
  BY <1>4 DEF vars
<1> QED
  BY <1>1, <1>2, <1>3, <1>4
  DEF Next, MainThread, Collect, CollectFailed, CollectRejected, CollectMiss,
      CollectWinner, CollectEscape, Over, Prepare, Refuse, TopTimedOut,
      TopExhausted, TopContinue, FillSubmit, FillStop, WakeUp, WaitReturn,
      CollectEnd, Report, ReportRaises, Return, Interrupt, Tick

\* During the setup there is no pool.
LEMMA SetupHasNoPool ==
  ASSUME TypeOK, Accounting, SetupIsBlank, pc = "setup"
  PROVE  Started = {} /\ InState(Live) = {} /\ InState({"queued"}) = {}
<1>1. \A a \in Attempts : future[a] = "unused"
  BY DEF Accounting, SetupIsBlank, Attempts
<1> QED BY <1>1 DEF Started, InState, Live

\* Every step keeps a shut-down pool empty: cancelled futures stay so, and the
\* join waits for the running ones (266-269).
LEMMA CleanExitStep ==
  TypeOK /\ Accounting /\ SetupIsBlank /\ CleanExit /\ [Next]_vars => CleanExit'
<1> SUFFICES ASSUME TypeOK, Accounting, SetupIsBlank, CleanExit, [Next]_vars
             PROVE  CleanExit'
  OBVIOUS
<1>1. CASE Return
  <2>1. InState(Live) = {}
    BY <1>1 DEF Return, Joined, CleanExit, InState, Live
  <2> QED BY <1>1, <2>1 DEF Return, CleanExit, InState, Live, pool
<1>2. CASE Cancel
  BY <1>2 DEF Cancel, CleanExit, InState
<1>3. CASE pc = "setup" /\ (Refuse \/ Interrupt)
  BY <1>3, SetupHasNoPool DEF Refuse, Interrupt, CleanExit, InState, pool
<1>4. CASE pc' = pc /\ pc' \in {"shutdown", "returned"}
  <2>1. InState({"queued"})' \subseteq InState({"queued"})
    BY <1>4, NothingRequeued
  <2>2. InState({"queued"})' = {}
    BY <1>4, <2>1 DEF CleanExit
  <2>3. CASE pc = "shutdown"
    BY <1>4, <2>2, <2>3 DEF CleanExit
  <2>4. CASE pc = "returned"
    <3>1. InState(Live) = {}
      BY <2>4 DEF CleanExit
    <3>2. CASE UNCHANGED future
      BY <1>4, <2>2, <3>1, <3>2 DEF CleanExit, InState
    <3>3. ASSUME NEW a \in Attempts, Worker(a) PROVE FALSE
      BY <3>1, <3>3 DEF Worker, StartAttempt, FinishAttempt, InState, Live
    <3> QED
      BY <2>4, <3>2, <3>3
      DEF Next, MainThread, Over, Prepare, Refuse, TopTimedOut, TopExhausted,
          TopContinue, FillSubmit, FillStop, WakeUp, WaitReturn, Collect,
          CollectFailed, CollectRejected, CollectMiss, CollectWinner,
          CollectEscape, Pop, CollectEnd, Report, ReportRaises, Cancel, Return,
          Interrupt, Tick, vars, pool
  <2> QED BY <1>4, <2>3, <2>4
<1>5. CASE pc' \notin {"shutdown", "returned"}
  BY <1>5 DEF CleanExit
<1>6. \/ Return
      \/ Cancel
      \/ pc = "setup" /\ (Refuse \/ Interrupt)
      \/ pc' = pc
      \/ pc' \notin {"shutdown", "returned"}
  <2>1. CASE \E a \in Attempts : Collect(a)
    BY <2>1 DEF Collect, CollectFailed, CollectRejected, CollectMiss,
                CollectWinner, CollectEscape, Leave
  <2>2. CASE (\E a \in Attempts : Worker(a)) \/ Tick \/ Over \/ UNCHANGED vars
    BY <2>2 DEF Worker, StartAttempt, FinishAttempt, Tick, Over, vars
  <2>3. CASE \/ Prepare \/ TopTimedOut \/ TopExhausted \/ TopContinue \/ FillSubmit
             \/ FillStop \/ WakeUp \/ WaitReturn \/ CollectEnd \/ Report
             \/ ReportRaises
    BY <2>3 DEF Prepare, TopTimedOut, TopExhausted, TopContinue, FillSubmit, FillStop,
                WakeUp, WaitReturn, CollectEnd, Report, ReportRaises, Leave
  <2>4. CASE Refuse
    BY <2>4 DEF Refuse
  <2>5. CASE Interrupt
    BY <2>5 DEF Interrupt
  <2> QED BY <2>1, <2>2, <2>3, <2>4, <2>5 DEF Next, MainThread
<1> QED BY <1>1, <1>2, <1>3, <1>4, <1>5, <1>6

\* A returned search left no connection open and none to be opened.
THEOREM PoolIsJoined == Spec => []CleanExit
<1>1. Init => CleanExit
  BY DEF Init, CleanExit
<1> QED
  BY <1>1, CleanExitStep, SetupBlank, TypeCorrect, AccountingHolds, PTL DEF Spec

-----------------------------------------------------------------------------
(* The search implements ProofSearch *)

\* The attempts handed out are numbered without a gap.
LEMMA StartedNumbers ==
  ASSUME TypeOK, Accounting
  PROVE  /\ Started = 1..attempts_started
         /\ Cardinality(Started) = attempts_started
         /\ Started \ Collected = pending
<1>1. attempts_started \in Nat /\ \A a \in Attempts : a \in Nat /\ a >= 1
  BY BoundsAssumption DEF TypeOK, Attempts
<1>2. 1..attempts_started \subseteq Attempts
  BY BoundsAssumption DEF TypeOK, Attempts
<1>3. Started = 1..attempts_started
  BY <1>1, <1>2 DEF Started, Accounting
<1>4. Cardinality(1..attempts_started) = attempts_started
  BY <1>1, FS_Interval
<1>5. pending \subseteq Started
  BY <1>1, <1>3 DEF Accounting, TypeOK
<1> QED BY <1>3, <1>4, <1>5 DEF Collected

\* The search starts where its promise starts.
LEMMA SearchInit == Init => Search!Init
<1> SUFFICES ASSUME Init PROVE Search!Init
  OBVIOUS
<1>1. \A a \in Attempts : future[a] = "unused"
  BY DEF Init
<1>2. Started = {} /\ Collected = {} /\ {a \in Attempts : Good(a)} = {}
  BY <1>1 DEF Started, Collected, Good
<1> QED BY <1>2 DEF Init, Search!Init
\* Steps of the pool and of the calling thread that the abstract search does not
\* see, and the captures it sees.
LEMMA SearchFrame ==
  ASSUME UNCHANGED <<pending, future, work, outcome, winner>>,
         pc' \in {"returned", "abandoned"} <=> pc \in {"returned", "abandoned"}
  PROVE  UNCHANGED Search!vars
<1>1. Started' = Started /\ Collected' = Collected
  BY DEF Started, Collected
<1>2. {a \in Attempts : Good(a)}' = {a \in Attempts : Good(a)}
  BY DEF Good
<1>3. (pc \in {"returned", "abandoned"})' = (pc \in {"returned", "abandoned"})
  OBVIOUS
<1> QED BY <1>1, <1>2, <1>3 DEF Search!vars

\* The instance counts with the same Cardinality.
LEMMA SameCardinality == \A S : Search!Cardinality(S) = Cardinality(S)
  BY DEF Search!Cardinality, Cardinality

\* A submission opens the next attempt.
LEMMA SearchSubmit ==
  ASSUME TypeOK, Accounting, AnswerInv, FillSubmit
  PROVE  Search!Next
<1> DEFINE a == attempts_started + 1
<1>1. a \in Attempts /\ future[a] = "unused" /\ attempts_started \in Nat
  BY BoundsAssumption DEF TypeOK, Accounting, FillSubmit, Attempts
<1>2. outcome = "none"
  BY DEF AnswerInv, FillSubmit, LoopPoints
<1>3. Cardinality(Started) = attempts_started /\ Started \ Collected = pending
  BY StartedNumbers
<1>4. Cardinality(pending) < Concurrency /\ (MaxAttempts # 0 => a <= MaxAttempts)
  BY <1>1, LimitsAssumption DEF FillSubmit, MayFill, AttemptsUsedUp
<1>5. \A b \in Attempts : future'[b] = IF b = a THEN "queued" ELSE future[b]
  BY <1>1 DEF FillSubmit, TypeOK
<1>6. Started' = Started \cup {a}
  BY <1>1, <1>5 DEF Started
<1>7. Collected' = Collected
  BY SettledSubmit DEF Settled
<1>8. \A b \in Attempts : Good(b)' <=> Good(b)
  BY <1>1, <1>5 DEF Good, FillSubmit
<1>9. UNCHANGED <<pc, outcome, winner>>
  BY DEF FillSubmit, verdict
<1>10. {b \in Attempts : Good(b)}' = {b \in Attempts : Good(b)}
  BY <1>8
<1>11. (pc \in {"returned", "abandoned"})' = (pc \in {"returned", "abandoned"})
  BY <1>9
<1>12. /\ a = Search!Cardinality(Started) + 1
       /\ Search!Cardinality(Started \ Collected) < Concurrency
  BY <1>3, <1>4, SameCardinality
<1>13. Search!Open(a)
  BY <1>2, <1>4, <1>6, <1>7, <1>9, <1>10, <1>11, <1>12, Zenon DEF Search!Open
<1> QED BY <1>1, <1>13 DEF Search!Next, Search!Attempts, Attempts

\* A pop judges the attempt: it is accepted, dismissed or ends the search.
LEMMA SearchCollect ==
  ASSUME TypeOK, Accounting, AnswerInv, NEW a \in Attempts, Collect(a)
  PROVE  Search!Next
<1>1. Pop(a)
  BY DEF Collect, CollectFailed, CollectRejected, CollectMiss, CollectWinner,
         CollectEscape
<1>2. /\ Collected' = Collected \cup {a} /\ a \notin Collected /\ a \in Started
      /\ future' = future /\ work' = work
  BY <1>1, CollectedPop
<1>3. Started' = Started /\ {b \in Attempts : Good(b)}' = {b \in Attempts : Good(b)}
  BY <1>2 DEF Started, Good
<1>4. outcome = "none" /\ pc = "collect"
  BY <1>1 DEF Pop, AnswerInv, LoopPoints
<1>5. a \in Search!Attempts
  BY DEF Attempts, Search!Attempts
<1>6. CASE CollectFailed(a) \/ CollectRejected(a) \/ CollectMiss(a)
  <2>1. ~Good(a)
    BY <1>6 DEF CollectFailed, CollectRejected, CollectMiss, Good, MeetsTarget
  <2>2. UNCHANGED <<pc, outcome, winner>>
    BY <1>6 DEF CollectFailed, CollectRejected, CollectMiss, verdict
  <2>3. Search!Dismiss(a)
    BY <1>2, <1>3, <1>4, <2>1, <2>2 DEF Search!Dismiss
  <2> QED BY <1>5, <2>3 DEF Search!Next
<1>7. CASE CollectWinner(a)
  <2>1. Good(a)
    BY <1>7 DEF CollectWinner, Passes, IsVerified, MeetsTarget, Good
  <2>2. pc' = "cleanup" /\ outcome' = "proof" /\ winner' = a
    BY <1>7 DEF CollectWinner
  <2>3. (pc \in {"returned", "abandoned"})' = (pc \in {"returned", "abandoned"})
    BY <1>4, <2>2
  <2>4. Search!Accept(a)
    BY <1>2, <1>3, <1>4, <2>1, <2>2, <2>3 DEF Search!Accept
  <2> QED BY <1>5, <2>4 DEF Search!Next
<1>8. CASE CollectEscape(a)
  <2>1. ~Good(a)
    BY <1>8 DEF CollectEscape, Good
  <2>2. pc' = "cleanup" /\ outcome' = "escaped" /\ winner' = winner
    BY <1>8 DEF CollectEscape, Leave
  <2>3. (pc \in {"returned", "abandoned"})' = (pc \in {"returned", "abandoned"})
    BY <1>4, <2>2
  <2>4. Search!Escape(a)
    BY <1>2, <1>3, <1>4, <2>1, <2>2, <2>3 DEF Search!Escape
  <2> QED BY <1>5, <2>4 DEF Search!Next
<1> QED BY <1>6, <1>7, <1>8 DEF Collect

\* Leaving the loop without a proof gives up; with nothing left to try only when
\* every attempt was judged.
LEMMA SearchGiveUp ==
  ASSUME TypeOK, Accounting, AnswerInv,
         TopTimedOut \/ TopExhausted \/ ReportRaises
  PROVE  Search!Next
<1>1. outcome = "none" /\ pc' = "cleanup" /\ pc \in LoopPoints
  BY DEF TopTimedOut, TopExhausted, ReportRaises, AnswerInv, LoopPoints, Leave
<1>2. UNCHANGED <<pending, future, work, winner>>
  BY DEF TopTimedOut, TopExhausted, ReportRaises, Leave, pool
<1>3. /\ Started' = Started /\ Collected' = Collected
      /\ {a \in Attempts : Good(a)}' = {a \in Attempts : Good(a)}
  BY <1>2 DEF Started, Collected, Good
<1>4. (pc \in {"returned", "abandoned"})' = (pc \in {"returned", "abandoned"})
  BY <1>1 DEF LoopPoints
<1>5. CASE TopTimedOut
  <2>1. outcome' = "timed_out" /\ OverallTimeout # 0
    BY <1>5 DEF TopTimedOut, Leave, OutOfTime
  <2>2. Search!GiveUp("timed_out")
    BY <1>1, <1>2, <1>3, <1>4, <2>1 DEF Search!GiveUp
  <2> QED BY <2>2 DEF Search!Next
<1>6. CASE TopExhausted
  <2>1. outcome' = "exhausted" /\ pending = {} /\ AttemptsUsedUp
    BY <1>6 DEF TopExhausted, Leave, NothingLeft
  <2>2. attempts_started = MaxAttempts /\ MaxAttempts # 0
    BY <2>1, LimitsAssumption DEF AttemptsUsedUp, Accounting, TypeOK
  <2>3. Search!Cardinality(Started) = MaxAttempts /\ Collected = Started
    BY <2>1, <2>2, StartedNumbers, SameCardinality DEF Collected
  <2>4. outcome = "none" /\ outcome' = "exhausted" /\ winner' = winner
    BY <1>1, <1>2, <2>1
  <2>5. Search!GiveUp("exhausted")
    <3>1. "exhausted" # "timed_out" /\ "exhausted" # "refused"
      OBVIOUS
    <3> QED BY <1>3, <1>4, <2>2, <2>3, <2>4, <3>1, Zenon DEF Search!GiveUp
  <2> QED BY <2>5 DEF Search!Next
<1>7. CASE ReportRaises
  <2>1. outcome' = "escaped"
    BY <1>7 DEF ReportRaises, Leave
  <2>2. Search!GiveUp("escaped")
    BY <1>1, <1>2, <1>3, <1>4, <2>1 DEF Search!GiveUp
  <2> QED BY <2>2 DEF Search!Next
<1> QED BY <1>5, <1>6, <1>7

\* Cancelling, starting and failing captures is invisible; a capture of a good
\* proof is the environment's move.
LEMMA SearchPool ==
  ASSUME TypeOK, Accounting,
         Cancel \/ \E a \in Attempts : Worker(a)
  PROVE  Search!Next \/ UNCHANGED Search!vars
<1>1. UNCHANGED <<outcome, winner>>
      /\ (pc \in {"returned", "abandoned"})' = (pc \in {"returned", "abandoned"})
  BY DEF Cancel, Worker, StartAttempt, FinishAttempt, verdict
<1>2. UNCHANGED pending
  BY DEF Cancel, Worker, StartAttempt, FinishAttempt
<1>3. \A a \in Attempts : future'[a] # "unused" <=> future[a] # "unused"
  BY DEF Cancel, Worker, StartAttempt, FinishAttempt, TypeOK, ProofKinds
<1>4. Started' = Started /\ Collected' = Collected
  BY <1>2, <1>3 DEF Started, Collected
<1>5. CASE \A a \in Attempts : Good(a)' <=> Good(a)
  <2>1. {a \in Attempts : Good(a)}' = {a \in Attempts : Good(a)}
    BY <1>5
  <2> QED BY <1>1, <1>4, <2>1 DEF Search!vars
<1>6. ASSUME NEW a \in Attempts, FinishAttempt(a), Good(a)', ~Good(a)
      PROVE  Search!Next
  <2>1. \A b \in Attempts : b # a => (Good(b)' <=> Good(b))
    BY <1>6 DEF FinishAttempt, Good, TypeOK
  <2>2. {b \in Attempts : Good(b)}' = {b \in Attempts : Good(b)} \cup {a}
    BY <1>6, <2>1
  <2>3. a \in Started \ Collected
    BY <1>6, LiveIsPending DEF FinishAttempt, Live, Started, Collected
  <2>4. Search!Produce(a)
    BY <1>1, <1>4, <2>2, <2>3 DEF Search!Produce
  <2> QED BY <2>4 DEF Search!Next, Search!Attempts, Attempts
<1>7. ASSUME NEW a \in Attempts, FinishAttempt(a)
      PROVE  \/ Good(a)' /\ ~Good(a)
             \/ \A b \in Attempts : Good(b)' <=> Good(b)
  <2>1. ~Good(a)
    BY <1>7 DEF FinishAttempt, Good
  <2>2. \A b \in Attempts : b # a => (Good(b)' <=> Good(b))
    BY <1>7 DEF FinishAttempt, Good, TypeOK
  <2> QED BY <2>1, <2>2
<1>8. ASSUME NEW a \in Attempts, StartAttempt(a)
      PROVE  \A b \in Attempts : Good(b)' <=> Good(b)
  BY <1>8 DEF StartAttempt, Good, TypeOK
<1>9. Cancel => \A b \in Attempts : Good(b)' <=> Good(b)
  BY DEF Cancel, Good
<1> QED BY <1>5, <1>6, <1>7, <1>8, <1>9 DEF Worker

\* Every step of the search is a step of its promise or invisible to it.
LEMMA SearchStep ==
  TypeOK /\ Accounting /\ SetupIsBlank /\ AnswerInv /\ [Next]_vars
    => [Search!Next]_(Search!vars)
<1> SUFFICES ASSUME TypeOK, Accounting, SetupIsBlank, AnswerInv, [Next]_vars
             PROVE  Search!Next \/ UNCHANGED Search!vars
  OBVIOUS
<1>1. CASE FillSubmit
  BY <1>1, SearchSubmit
<1>2. CASE \E a \in Attempts : Collect(a)
  BY <1>2, SearchCollect
<1>3. CASE TopTimedOut \/ TopExhausted \/ ReportRaises
  BY <1>3, SearchGiveUp
<1>4. CASE Cancel \/ \E a \in Attempts : Worker(a)
  BY <1>4, SearchPool
<1>5. CASE \/ Prepare \/ TopContinue \/ FillStop \/ WakeUp \/ WaitReturn
           \/ CollectEnd \/ Report \/ Tick \/ UNCHANGED vars
  <2>1. UNCHANGED <<pending, future, work, outcome, winner>>
    BY <1>5 DEF Prepare, TopContinue, FillStop, WakeUp, WaitReturn, CollectEnd,
                Report, Tick, verdict, pool, vars
  <2>2. pc' \in {"returned", "abandoned"} <=> pc \in {"returned", "abandoned"}
    BY <1>5 DEF Prepare, TopContinue, FillStop, WakeUp, WaitReturn, CollectEnd,
                Report, Tick, vars
  <2> QED BY <2>1, <2>2, SearchFrame
<1>6. ASSUME Refuse \/ Return \/ Interrupt
      PROVE  /\ UNCHANGED <<pending, future, work, winner>>
             /\ Started' = Started /\ Collected' = Collected
             /\ {a \in Attempts : Good(a)}' = {a \in Attempts : Good(a)}
  <2>1. UNCHANGED <<pending, future, work, winner>>
    BY <1>6 DEF Refuse, Return, Interrupt, verdict, pool
  <2> QED BY <2>1 DEF Started, Collected, Good
<1>7. CASE Refuse
  <2>1. outcome = "none" /\ pc = "setup" /\ Started = {}
    BY <1>7, SetupHasNoPool DEF Refuse, AnswerInv
  <2>2. Search!Refuse
    BY <1>6, <1>7, <2>1 DEF Refuse, Search!Refuse
  <2> QED BY <2>2 DEF Search!Next
<1>8. CASE Return
  <2>1. outcome # "none" /\ outcome' = outcome
    BY <1>8 DEF Return, AnswerInv, LoopPoints, verdict
  <2>2. Search!Deliver
    BY <1>6, <1>8, <2>1 DEF Return, Search!Deliver
  <2> QED BY <2>2 DEF Search!Next
<1>9. CASE Interrupt
  <2>1. Search!Interrupt
    BY <1>6, <1>9 DEF Interrupt, Search!Interrupt
  <2> QED BY <2>1 DEF Search!Next
<1> QED
  BY <1>1, <1>2, <1>3, <1>4, <1>5, <1>7, <1>8, <1>9 DEF Next, MainThread, Over

\* generate_connection_proof keeps the promise of ProofSearch.
THEOREM SearchImplemented == Spec => SearchSpec
<1> QED
  BY TypeCorrect, AccountingHolds, SetupBlank, AnswerIsJustified, SearchInit,
     SearchStep, PTL
  DEF Spec, SearchSpec, Search!Spec

-----------------------------------------------------------------------------
(* The timed search is a search *)

\* A timed step is a step of the search, or leaves its variables alone.
LEMMA TimedStepIsStep == [TimedNext]_tvars => [Next]_vars
<1> SUFFICES ASSUME [TimedNext]_tvars PROVE [Next]_vars
  OBVIOUS
<1>1. CASE OtherMain
  BY <1>1 DEF OtherMain, Next, MainThread
<1>2. CASE TimedFillStop \/ TimedCancel \/ TimedTick
  BY <1>2 DEF TimedFillStop, TimedCancel, TimedTick, Next, MainThread
<1>3. ASSUME NEW a \in Attempts, TimedStart(a) \/ TimedFinish(a) PROVE Next
  BY <1>3 DEF TimedStart, TimedFinish, Next, Worker
<1>4. CASE UNCHANGED tvars
  BY <1>4 DEF tvars
<1> QED BY <1>1, <1>2, <1>3, <1>4 DEF TimedNext

\* Holding the clock still takes nothing from the search's promise: whatever
\* is proved of Spec holds of TimedSpec.
THEOREM TimedRefines == TimedSpec => Spec
<1>1. TimedInit => Init
  BY DEF TimedInit
<1> QED BY <1>1, TimedStepIsStep, PTL DEF TimedSpec, Spec

-----------------------------------------------------------------------------
(* The inductive invariant *)

TimedTypeOK ==
    /\ deadline \in [Attempts -> Nat]
    /\ waiting_since \in Nat

\* No queue forms in the pool: what waits for a worker was submitted just now,
\* before the search's time was up.
QueuedJustNow ==
    \A a \in Attempts : future[a] = "queued" =>
        /\ submitted_at[a] = now
        /\ OverallTimeout # 0 => now <= started_at + OverallTimeout

\* A running capture is before its deadline, which lies within the
\* connection's timeout and the search's.
DeadlinesInBounds ==
    \A a \in Attempts : future[a] = "running" =>
        /\ submitted_at[a] <= now
        /\ now <= deadline[a]
        /\ deadline[a] <= submitted_at[a] + ConnectionTimeout
        /\ OverallTimeout # 0 => deadline[a] <= started_at + OverallTimeout

\* The loop body runs on the clock the check of line 170 read, and a sleep or a
\* wait that begins in it ends one polling period later at most.
LoopInTime ==
    /\ pc = "fill" => ~OutOfTime
    /\ pc \in {"wait", "sleep"} =>
          /\ waiting_since <= now
          /\ now <= waiting_since + PollingPeriod
          /\ OverallTimeout # 0 => waiting_since < started_at + OverallTimeout

\* While the pool is joined nothing waits for a worker, and what runs was
\* submitted before the join began.
JoiningLastOnes ==
    pc = "shutdown" => \A a \in Attempts :
        /\ future[a] # "queued"
        /\ future[a] = "running" => submitted_at[a] <= waiting_since

\* The join has not outlasted one connection's timeout.
JoinInTime == pc = "shutdown" => now <= waiting_since + ConnectionTimeout

TimedInv ==
    /\ TimedTypeOK
    /\ QueuedJustNow
    /\ DeadlinesInBounds
    /\ LoopInTime
    /\ JoiningLastOnes
    /\ JoinInTime
    /\ OverallTimeoutBoundsSearch

-----------------------------------------------------------------------------
(* Lemmas *)

\* At first nothing runs and no time has passed.
LEMMA TimedInit_Inv == TimedInit => TimedInv
<1> SUFFICES ASSUME TimedInit PROVE TimedInv
  OBVIOUS
<1>1. \A a \in Attempts : future[a] = "unused"
  BY DEF TimedInit, Init
<1>2. pc = "setup"
  BY DEF TimedInit, Init
<1>3. TimedTypeOK
  BY DEF TimedInit, TimedTypeOK
<1> QED
  BY <1>1, <1>2, <1>3 DEF TimedInv, QueuedJustNow, DeadlinesInBounds, LoopInTime,
     JoiningLastOnes, JoinInTime, OverallTimeoutBoundsSearch

\* With something queued a worker is free: whatever the pool holds is pending,
\* and no more is pending than the pool has workers (180, 195-196).
LEMMA QueuedFindsWorker ==
  ASSUME TypeOK, Accounting, NEW a \in Attempts, future[a] = "queued"
  PROVE  Cardinality(InState({"running"})) < Concurrency
<1> DEFINE R == InState({"running"})
<1>1. a \in pending /\ R \subseteq pending
  BY LiveIsPending DEF InState, Live
<1>2. a \notin R /\ R \subseteq Attempts
  BY DEF InState
<1>3. R \subseteq pending \ {a}
  BY <1>1, <1>2
<1>4. IsFiniteSet(pending) /\ Cardinality(pending) \in Nat
  BY AttemptsFinite DEF TypeOK
<1>5. Cardinality(pending \ {a}) = Cardinality(pending) - 1
      /\ IsFiniteSet(pending \ {a})
  BY <1>1, <1>4, FS_RemoveElement
<1>6. Cardinality(R) <= Cardinality(pending \ {a}) /\ Cardinality(R) \in Nat
  BY <1>2, <1>3, <1>5, FS_Subset, AttemptsFinite
<1>7. Cardinality(pending) <= Concurrency
  BY DEF Accounting
<1> QED
  BY <1>4, <1>5, <1>6, <1>7, ConcurrencyAssumption

\* The timeout of an attempt submitted in time stays within both limits (189-194).
LEMMA AttemptTimeoutInBounds ==
  ASSUME TypeOK, NEW a \in Attempts
  PROVE  /\ AttemptTimeout(a) \in Int
         /\ AttemptTimeout(a) <= ConnectionTimeout
         /\ OverallTimeout # 0 =>
               submitted_at[a] + AttemptTimeout(a) <= started_at + OverallTimeout
  BY LimitsAssumption DEF AttemptTimeout, Remaining, TypeOK

\* A step in no time that leaves the clocks alone, and neither submits nor
\* starts a capture, disturbs no deadline.
LEMMA PoolFrame ==
  ASSUME TimedInv,
         UNCHANGED <<now, started_at, submitted_at, waiting_since>>,
         deadline' \in [Attempts -> Nat],
         \A a \in Attempts : future'[a] \in Live =>
             future'[a] = future[a] /\ deadline'[a] = deadline[a]
  PROVE  TimedTypeOK' /\ QueuedJustNow' /\ DeadlinesInBounds'
  BY DEF TimedInv, TimedTypeOK, QueuedJustNow, DeadlinesInBounds, Live

\* The join goes on while the futures move towards their ends.
LEMMA JoinFrame ==
  ASSUME TimedInv, pc' = "shutdown" => pc = "shutdown",
         UNCHANGED <<now, submitted_at, waiting_since>>,
         \A a \in Attempts : future'[a] \in Live => future'[a] = future[a]
  PROVE  JoiningLastOnes' /\ JoinInTime'
  BY DEF TimedInv, JoiningLastOnes, JoinInTime, Live

\* What depends on the place of the calling thread alone.
LEMMA PcFrame ==
  ASSUME TimedInv, UNCHANGED <<pc, now, started_at, waiting_since>>
  PROVE  LoopInTime' /\ JoinInTime' /\ OverallTimeoutBoundsSearch'
  BY DEF TimedInv, LoopInTime, JoinInTime, OverallTimeoutBoundsSearch, OutOfTime

-----------------------------------------------------------------------------
(* One lemma per kind of step *)

\* Submitting (180-196) is done in time, on the clock that was just read.
LEMMA TimedSubmit ==
  ASSUME TypeOK, Accounting, TimedInv, FillSubmit, UNCHANGED <<deadline, waiting_since>>
  PROVE  TimedInv'
<1> DEFINE a == attempts_started + 1
<1>1. a \in Attempts
  BY BoundsAssumption DEF TypeOK, FillSubmit, Attempts
<1>2. /\ pc = "fill" /\ UNCHANGED <<pc, now, started_at>>
      /\ future' = [future EXCEPT ![a] = "queued"]
      /\ submitted_at' = [submitted_at EXCEPT ![a] = now]
  BY DEF FillSubmit, clock
<1>3. \A b \in Attempts : b # a =>
         future'[b] = future[b] /\ submitted_at'[b] = submitted_at[b]
  BY <1>2 DEF TypeOK
<1>4. future'[a] = "queued" /\ submitted_at'[a] = now
  BY <1>1, <1>2 DEF TypeOK
<1>5. OverallTimeout # 0 => now <= started_at + OverallTimeout
  BY <1>2, LimitsAssumption DEF TypeOK, TimedInv, LoopInTime, OutOfTime
<1>6. QueuedJustNow'
  BY <1>2, <1>3, <1>4, <1>5 DEF TimedInv, QueuedJustNow
<1>7. DeadlinesInBounds'
  BY <1>2, <1>3, <1>4 DEF TimedInv, DeadlinesInBounds
<1>8. LoopInTime' /\ JoinInTime' /\ OverallTimeoutBoundsSearch'
  BY <1>2, PcFrame
<1>9. JoiningLastOnes'
  BY <1>2 DEF JoiningLastOnes
<1> QED
  BY <1>6, <1>7, <1>8, <1>9 DEF TimedInv, TimedTypeOK

\* The search's clock starts (154-155) before anything was submitted.
LEMMA TimedPrepare ==
  ASSUME TypeOK, Accounting, SetupIsBlank, TimedInv, Prepare,
         UNCHANGED <<deadline, waiting_since>>
  PROVE  TimedInv'
<1>1. /\ pc = "setup" /\ pc' = "top" /\ started_at' = now
      /\ UNCHANGED <<now, future, submitted_at>>
  BY DEF Prepare, clock, pool
<1>2. \A a \in Attempts : future[a] = "unused"
  BY <1>1 DEF SetupIsBlank, Accounting, Attempts
<1>3. TimedTypeOK' /\ QueuedJustNow' /\ DeadlinesInBounds'
  BY <1>1, <1>2 DEF TimedInv, TimedTypeOK, QueuedJustNow, DeadlinesInBounds
<1>4. OverallTimeoutBoundsSearch'
  BY <1>1, LimitsAssumption, PollingPeriodAssumption
  DEF TypeOK, OverallTimeoutBoundsSearch
<1> QED
  BY <1>1, <1>3, <1>4 DEF TimedInv, LoopInTime, JoiningLastOnes, JoinInTime

\* The other steps of the calling thread take no time and move pc only.
LEMMA TimedMain ==
  ASSUME TypeOK, TimedInv, OtherMain, ~Prepare, ~FillSubmit,
         UNCHANGED <<deadline, waiting_since>>
  PROVE  TimedInv'
<1> USE DEF clock, limits, pool
<1>1. UNCHANGED <<now, started_at, submitted_at, future>>
  <2>1. ASSUME NEW a \in Attempts, Collect(a)
        PROVE  UNCHANGED <<now, started_at, submitted_at, future>>
    BY <2>1 DEF Collect, CollectFailed, CollectRejected, CollectMiss,
                CollectWinner, CollectEscape, Pop
  <2> QED
    BY <2>1 DEF OtherMain, Refuse, TopTimedOut, TopExhausted, TopContinue, WakeUp,
       WaitReturn, CollectEnd, Report, ReportRaises, Return, Interrupt, Over, vars
<1>2. /\ pc' = "fill" => pc = "fill" \/ (pc = "top" /\ ~OutOfTime)
      /\ pc' \in {"wait", "sleep"} => pc' = pc
      /\ pc' = "shutdown" => pc = "shutdown"
      /\ pc \in {"setup", "returned", "abandoned"} =>
            pc' \in {"setup", "returned", "abandoned"}
  <2>1. ASSUME NEW a \in Attempts, Collect(a)
        PROVE  pc = "collect" /\ pc' \in {"collect", "cleanup"}
    BY <2>1 DEF Collect, CollectFailed, CollectRejected, CollectMiss,
                CollectWinner, CollectEscape, Pop, Leave
  <2> QED
    BY <2>1 DEF OtherMain, Refuse, TopTimedOut, TopExhausted, TopContinue, WakeUp,
       WaitReturn, CollectEnd, Report, ReportRaises, Return, Interrupt, Over, vars,
       Leave, LoopPoints
<1>3. TimedTypeOK' /\ QueuedJustNow' /\ DeadlinesInBounds'
  BY <1>1, PoolFrame DEF TimedInv, TimedTypeOK
<1>4. JoiningLastOnes' /\ JoinInTime'
  BY <1>1, <1>2, JoinFrame
<1>5. LoopInTime'
  BY <1>1, <1>2 DEF TimedInv, LoopInTime, OutOfTime
<1>6. OverallTimeoutBoundsSearch'
  BY <1>1, <1>2 DEF TimedInv, OverallTimeoutBoundsSearch
<1> QED
  BY <1>3, <1>4, <1>5, <1>6 DEF TimedInv

\* The wait or the sleep (201-209) begins on the clock the loop read.
LEMMA TimedStop ==
  ASSUME TypeOK, TimedInv, TimedFillStop
  PROVE  TimedInv'
<1>1. /\ pc = "fill" /\ pc' \in {"wait", "sleep"} /\ waiting_since' = now
      /\ UNCHANGED <<now, started_at, submitted_at, future, deadline>>
  BY DEF TimedFillStop, FillStop, clock, limits, pool
<1>2. now \in Nat /\ started_at \in Nat /\ ~OutOfTime
  BY <1>1 DEF TypeOK, TimedInv, LoopInTime
<1>3. LoopInTime'
  BY <1>1, <1>2, LimitsAssumption, PollingPeriodAssumption DEF LoopInTime, OutOfTime
<1>4. TimedTypeOK'
  BY <1>1, <1>2 DEF TimedInv, TimedTypeOK
<1>5. QueuedJustNow' /\ DeadlinesInBounds'
  BY <1>1 DEF TimedInv, QueuedJustNow, DeadlinesInBounds
<1>6. OverallTimeoutBoundsSearch'
  BY <1>1 DEF TimedInv, OverallTimeoutBoundsSearch
<1> QED
  BY <1>1, <1>3, <1>4, <1>5, <1>6 DEF TimedInv, JoiningLastOnes, JoinInTime

\* Cancelling (267-269) leaves the running captures only, all of them submitted.
LEMMA TimedCancelled ==
  ASSUME TypeOK, TimedInv, TimedCancel
  PROVE  TimedInv'
<1>1. /\ pc = "cleanup" /\ pc' = "shutdown" /\ waiting_since' = now
      /\ future' = [a \in Attempts |->
                       IF future[a] = "queued" THEN "cancelled" ELSE future[a]]
      /\ UNCHANGED <<now, started_at, submitted_at, deadline>>
  BY DEF TimedCancel, Cancel, clock, limits
<1>2. \A a \in Attempts : /\ future'[a] # "queued"
                          /\ future'[a] = "running" => future[a] = "running"
  BY <1>1
<1>3. QueuedJustNow' /\ DeadlinesInBounds'
  BY <1>1, <1>2 DEF TimedInv, QueuedJustNow, DeadlinesInBounds
<1>4. JoiningLastOnes'
  BY <1>1, <1>2 DEF TimedInv, JoiningLastOnes, DeadlinesInBounds
<1>5. TimedTypeOK' /\ JoinInTime'
  BY <1>1, LimitsAssumption DEF TypeOK, TimedInv, TimedTypeOK, JoinInTime
<1>6. LoopInTime' /\ OverallTimeoutBoundsSearch'
  BY <1>1 DEF TimedInv, LoopInTime, OverallTimeoutBoundsSearch
<1> QED
  BY <1>3, <1>4, <1>5, <1>6 DEF TimedInv

\* A worker starts a capture (195) at the time it was submitted, so the deadline
\* of tls13.py:388 counts from there.
LEMMA TimedStarted ==
  ASSUME TypeOK, TimedInv, NEW a \in Attempts, TimedStart(a)
  PROVE  TimedInv'
<1>1. /\ future[a] = "queued" /\ future' = [future EXCEPT ![a] = "running"]
      /\ UNCHANGED <<pc, now, started_at, submitted_at, waiting_since>>
      /\ deadline' = [deadline EXCEPT ![a] =
                         IF AttemptTimeout(a) > 0 THEN now + AttemptTimeout(a) ELSE now]
  BY DEF TimedStart, StartAttempt, clock, limits
<1>2. /\ submitted_at[a] = now /\ now \in Nat /\ started_at \in Nat
      /\ OverallTimeout # 0 => now <= started_at + OverallTimeout
  BY <1>1 DEF TypeOK, TimedInv, QueuedJustNow
<1>3. deadline[a]' = IF AttemptTimeout(a) > 0 THEN now + AttemptTimeout(a) ELSE now
  BY <1>1 DEF TimedInv, TimedTypeOK
<1>4. /\ deadline[a]' \in Nat /\ now <= deadline[a]'
      /\ deadline[a]' <= submitted_at[a] + ConnectionTimeout
      /\ OverallTimeout # 0 => deadline[a]' <= started_at + OverallTimeout
  BY <1>2, <1>3, AttemptTimeoutInBounds, LimitsAssumption
<1>5. \A b \in Attempts : b # a => future'[b] = future[b] /\ deadline'[b] = deadline[b]
  BY <1>1 DEF TypeOK, TimedInv, TimedTypeOK
<1>6. future'[a] = "running"
  BY <1>1 DEF TypeOK
<1>7. TimedTypeOK'
  BY <1>1, <1>3, <1>4 DEF TimedInv, TimedTypeOK
<1>8. QueuedJustNow'
  BY <1>1, <1>5, <1>6 DEF TimedInv, QueuedJustNow
<1>9. DeadlinesInBounds'
  <2> SUFFICES ASSUME NEW b \in Attempts, future'[b] = "running"
               PROVE  /\ submitted_at[b] <= now
                      /\ now <= deadline'[b]
                      /\ deadline'[b] <= submitted_at[b] + ConnectionTimeout
                      /\ OverallTimeout # 0 =>
                            deadline'[b] <= started_at + OverallTimeout
    BY <1>1 DEF DeadlinesInBounds
  <2>1. CASE b = a
    BY <2>1, <1>2, <1>4
  <2>2. CASE b # a
    BY <2>2, <1>5 DEF TimedInv, DeadlinesInBounds
  <2> QED BY <2>1, <2>2
<1>10. LoopInTime' /\ JoinInTime' /\ OverallTimeoutBoundsSearch'
  BY <1>1, PcFrame
<1>11. JoiningLastOnes'
  BY <1>1 DEF TimedInv, JoiningLastOnes
<1> QED
  BY <1>7, <1>8, <1>9, <1>10, <1>11 DEF TimedInv

\* A capture that ends takes its deadline with it.
LEMMA TimedFinished ==
  ASSUME TypeOK, TimedInv, NEW a \in Attempts, TimedFinish(a)
  PROVE  TimedInv'
<1>1. /\ UNCHANGED <<pc, now, started_at, submitted_at, waiting_since>>
      /\ deadline' = [deadline EXCEPT ![a] = 0]
  BY DEF TimedFinish, FinishAttempt, clock, limits
<1>2. PICK kind \in Finished : future' = [future EXCEPT ![a] = kind]
  BY DEF TimedFinish, FinishAttempt, Finished
<1>3. future'[a] \notin Live
  BY <1>2 DEF TypeOK, Live, Finished, ProofKinds
<1>4. \A b \in Attempts : b # a => future'[b] = future[b] /\ deadline'[b] = deadline[b]
  BY <1>1, <1>2 DEF TypeOK, TimedInv, TimedTypeOK
<1>5. deadline' \in [Attempts -> Nat]
  BY <1>1 DEF TimedInv, TimedTypeOK
<1>6. TimedTypeOK' /\ QueuedJustNow' /\ DeadlinesInBounds'
  BY <1>1, <1>3, <1>4, <1>5, PoolFrame
<1>7. JoiningLastOnes' /\ JoinInTime'
  BY <1>1, <1>3, <1>4, JoinFrame
<1>8. LoopInTime' /\ OverallTimeoutBoundsSearch'
  BY <1>1, PcFrame
<1> QED
  BY <1>6, <1>7, <1>8 DEF TimedInv

\* No sleep and no wait is longer than the polling period (203, 206-208).
LEMMA PollingTimeInBounds ==
  ASSUME TypeOK, TimedTypeOK
  PROVE  PollingTime \in Nat /\ PollingTime <= PollingPeriod
  BY PollingPeriodAssumption DEF TypeOK, TimedTypeOK, PollingTime

\* The clock moves only when nothing is queued, every running capture has time
\* left, and the calling thread waits for one of them, for the next poll, or
\* in the setup.
LEMMA TimedTicked ==
  ASSUME TypeOK, Accounting, TimedInv, TimedTick
  PROVE  TimedInv'
<1>1. /\ pc \notin {"top", "fill", "collect", "report", "cleanup", "returned", "abandoned"}
      /\ pc \in {"wait", "sleep"} => now < waiting_since + PollingPeriod
      /\ pc = "shutdown" => \E a \in Attempts : future[a] = "running"
      /\ now' = now + 1
      /\ UNCHANGED <<pc, started_at, submitted_at, future, deadline, waiting_since>>
  <2>1. pc \in {"wait", "sleep"} => ~(now >= waiting_since + PollingTime)
    BY DEF TimedTick, MainIsBusy
  <2>2. /\ PollingTime \in Nat /\ PollingTime <= PollingPeriod
        /\ now \in Nat /\ waiting_since \in Nat
    BY PollingTimeInBounds DEF TypeOK, TimedInv, TimedTypeOK
  <2> QED
    BY <2>1, <2>2, PollingPeriodAssumption
    DEF TimedTick, Tick, MainIsBusy, Joined, InState, limits, pool
<1>2. now \in Nat /\ started_at \in Nat /\ waiting_since \in Nat
  BY DEF TypeOK, TimedInv, TimedTypeOK
<1>3. \A a \in Attempts : future[a] # "queued"
  BY QueuedFindsWorker DEF TimedTick, PoolIsBusy
<1>4. \A a \in Attempts : future[a] = "running" => now < deadline[a] /\ deadline[a] \in Nat
  BY <1>2 DEF TimedTick, PoolIsBusy, TimedInv, TimedTypeOK
<1>5. QueuedJustNow'
  BY <1>1, <1>3 DEF QueuedJustNow
<1>6. DeadlinesInBounds'
  <2>1. \A a \in Attempts : submitted_at[a] \in Nat
    BY DEF TypeOK
  <2> QED
    BY <1>1, <1>2, <1>4, <2>1 DEF TimedInv, DeadlinesInBounds
<1>7. LoopInTime'
  BY <1>1, <1>2, PollingPeriodAssumption DEF TimedInv, LoopInTime
<1>8. JoiningLastOnes' /\ JoinInTime'
  <2>1. JoiningLastOnes'
    BY <1>1 DEF TimedInv, JoiningLastOnes
  <2>2. ASSUME pc = "shutdown" PROVE now + 1 <= waiting_since + ConnectionTimeout
    <3>1. PICK a \in Attempts : future[a] = "running"
      BY <2>2, <1>1
    <3>2. submitted_at[a] <= waiting_since /\ submitted_at[a] \in Nat
      BY <2>2, <3>1 DEF TimedInv, JoiningLastOnes, TypeOK
    <3>3. deadline[a] <= submitted_at[a] + ConnectionTimeout
      BY <3>1 DEF TimedInv, DeadlinesInBounds
    <3> QED
      BY <3>1, <3>2, <3>3, <1>2, <1>4, LimitsAssumption
  <2> QED
    BY <1>1, <2>1, <2>2 DEF JoinInTime
<1>9. OverallTimeoutBoundsSearch'
  <2> SUFFICES ASSUME OverallTimeout # 0, pc \notin {"setup", "returned", "abandoned"}
               PROVE  now + 1 < started_at + OverallTimeout + PollingPeriod
    BY <1>1 DEF OverallTimeoutBoundsSearch
  <2>1. CASE pc \in {"wait", "sleep"}
    BY <2>1, <1>1, <1>2, LimitsAssumption, PollingPeriodAssumption
    DEF TimedInv, LoopInTime
  <2>2. CASE pc = "shutdown"
    <3>1. PICK a \in Attempts : future[a] = "running"
      BY <2>2, <1>1
    <3>2. deadline[a] <= started_at + OverallTimeout
      BY <3>1 DEF TimedInv, DeadlinesInBounds
    <3> QED
      BY <3>1, <3>2, <1>2, <1>4, LimitsAssumption, PollingPeriodAssumption
  <2> QED
    BY <2>1, <2>2, <1>1 DEF TypeOK, Points, LoopPoints
<1> QED
  BY <1>1, <1>5, <1>6, <1>7, <1>8, <1>9 DEF TimedInv, TimedTypeOK

\* Every step of the timed search keeps the invariant.
LEMMA TimedStep ==
  TypeOK /\ Accounting /\ SetupIsBlank /\ TimedInv /\ [TimedNext]_tvars => TimedInv'
<1> SUFFICES ASSUME TypeOK, Accounting, SetupIsBlank, TimedInv, [TimedNext]_tvars
             PROVE  TimedInv'
  OBVIOUS
<1>1. CASE OtherMain /\ UNCHANGED <<deadline, waiting_since>>
  BY <1>1, TimedPrepare, TimedSubmit, TimedMain
<1>2. CASE TimedFillStop
  BY <1>2, TimedStop
<1>3. CASE TimedCancel
  BY <1>3, TimedCancelled
<1>4. ASSUME NEW a \in Attempts, TimedStart(a) \/ TimedFinish(a) PROVE TimedInv'
  BY <1>4, TimedStarted, TimedFinished
<1>5. CASE TimedTick
  BY <1>5, TimedTicked
<1>6. CASE UNCHANGED tvars
  BY <1>6 DEF tvars, vars, TimedInv, TimedTypeOK, QueuedJustNow, DeadlinesInBounds,
     LoopInTime, JoiningLastOnes, JoinInTime, OverallTimeoutBoundsSearch, OutOfTime
<1> QED BY <1>1, <1>2, <1>3, <1>4, <1>5, <1>6 DEF TimedNext

-----------------------------------------------------------------------------
(* Theorems *)

\* The invariant holds of every timed search.
LEMMA TimedInvHolds == TimedSpec => []TimedInv
<1>1. TimedSpec => [](TypeOK /\ Accounting /\ SetupIsBlank)
  BY TimedRefines, TypeCorrect, AccountingHolds, SetupBlank, PTL
<1> QED
  BY <1>1, TimedInit_Inv, TimedStep, PTL DEF TimedSpec

\* A search with an overall timeout is over within one polling period of
\* started_at + OverallTimeout, the joining of its pool included, whatever the
\* period and the interval (170, 189-194, 203, 206, 269).
THEOREM OverallTimeoutHolds == TimedSpec => []OverallTimeoutBoundsSearch
<1>1. TimedInv => OverallTimeoutBoundsSearch
  BY DEF TimedInv
<1> QED BY <1>1, TimedInvHolds, PTL

\* No capture lasts longer than the connection timeout from its submission on,
\* and the join of the pool no longer than that from its beginning (180, 195,
\* 269).
THEOREM ConnectionTimeoutHolds == TimedSpec => []ConnectionTimeoutBoundsAttempt
<1>1. TypeOK /\ TimedInv => ConnectionTimeoutBoundsAttempt
  <2> SUFFICES ASSUME TypeOK, TimedInv PROVE ConnectionTimeoutBoundsAttempt
    OBVIOUS
  <2>1. ASSUME NEW a \in InState(Live)
        PROVE  now <= submitted_at[a] + ConnectionTimeout
    <3>1. a \in Attempts /\ now \in Nat /\ submitted_at[a] \in Nat
      BY DEF InState, TypeOK
    <3>2. CASE future[a] = "queued"
      BY <3>1, <3>2, LimitsAssumption DEF TimedInv, QueuedJustNow
    <3>3. CASE future[a] = "running"
      BY <3>1, <3>3, LimitsAssumption DEF TimedInv, DeadlinesInBounds, TimedTypeOK
    <3> QED BY <2>1, <3>2, <3>3 DEF InState, Live
  <2>2. pc = "shutdown" => now <= waiting_since + ConnectionTimeout
    BY DEF TimedInv, JoinInTime
  <2> QED BY <2>1, <2>2 DEF ConnectionTimeoutBoundsAttempt
<1>2. TimedSpec => []TypeOK
  BY TimedRefines, TypeCorrect, PTL
<1> QED BY <1>1, <1>2, TimedInvHolds, PTL

=============================================================================
