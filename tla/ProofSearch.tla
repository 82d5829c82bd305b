----------------------------- MODULE ProofSearch -----------------------------
(***************************************************************************)
(* What generate_connection_proof (generator.py:127-269) promises its      *)
(* caller, without threads, clocks or polling: attempts are opened one     *)
(* after another, a bounded number at a time; each opened attempt may turn *)
(* out good (a proof that meets the work target and verifies); the search  *)
(* judges attempts one by one, never sets a good one aside, and ends with  *)
(* exactly one answer.  Generator implements this module.                  *)
(***************************************************************************)
EXTENDS Naturals, FiniteSets

CONSTANTS
    Concurrency,     \* options.concurrency
    MaxAttempts,     \* options.max_attempts, 0 for no limit
    OverallTimeout,  \* options.overall_timeout, 0 for no limit
    AttemptCap       \* bound of the model on the attempts of one search

Attempts == 1..AttemptCap

Answers == {"none", "proof", "timed_out", "exhausted", "refused", "escaped",
            "interrupted"}

VARIABLES
    opened,     \* attempts handed out so far
    judged,     \* attempts whose outcome the search has looked at
    good,       \* attempts that captured a proof worth returning
    answer,     \* how the search ends, "none" until it is decided
    chosen,     \* the attempt whose proof is the answer, 0 for none
    delivered   \* the caller has the answer

vars == <<opened, judged, good, answer, chosen, delivered>>

TypeOK ==
    /\ opened \subseteq Attempts
    /\ judged \subseteq opened
    /\ good \subseteq opened
    /\ answer \in Answers
    /\ chosen \in opened \cup {0}
    /\ delivered \in BOOLEAN

Init ==
    /\ opened = {}
    /\ judged = {}
    /\ good = {}
    /\ answer = "none"
    /\ chosen = 0
    /\ delivered = FALSE

\* Attempts are numbered in the order they are opened, within both limits.
Open(a) ==
    /\ answer = "none"
    /\ a = Cardinality(opened) + 1
    /\ Cardinality(opened \ judged) < Concurrency
    /\ MaxAttempts # 0 => a <= MaxAttempts
    /\ opened' = opened \cup {a}
    /\ UNCHANGED <<judged, good, answer, chosen, delivered>>

\* An open attempt captures a good proof: the network decides, at any time,
\* even when the search no longer looks.
Produce(a) ==
    /\ a \in opened \ judged
    /\ good' = good \cup {a}
    /\ UNCHANGED <<opened, judged, answer, chosen, delivered>>

\* The search sets an attempt aside: never a good one.
Dismiss(a) ==
    /\ answer = "none"
    /\ a \in opened \ (judged \cup good)
    /\ judged' = judged \cup {a}
    /\ UNCHANGED <<opened, good, answer, chosen, delivered>>

\* The first good attempt the search looks at is its answer.
Accept(a) ==
    /\ answer = "none"
    /\ a \in good \ judged
    /\ judged' = judged \cup {a}
    /\ answer' = "proof"
    /\ chosen' = a
    /\ UNCHANGED <<opened, good, delivered>>

\* An unforeseen error of one attempt ends the whole search.
Escape(a) ==
    /\ answer = "none"
    /\ a \in opened \ (judged \cup good)
    /\ judged' = judged \cup {a}
    /\ answer' = "escaped"
    /\ UNCHANGED <<opened, good, chosen, delivered>>

GiveUp(reason) ==
    /\ answer = "none"
    /\ reason = "timed_out" => OverallTimeout # 0
    /\ reason = "exhausted" =>
           /\ MaxAttempts # 0
           /\ Cardinality(opened) = MaxAttempts
           /\ judged = opened
    /\ reason = "refused" => opened = {}
    /\ answer' = reason
    /\ UNCHANGED <<opened, judged, good, chosen, delivered>>

\* KeyboardInterrupt replaces an answer that was not delivered yet.
Interrupt ==
    /\ ~delivered
    /\ answer' = "interrupted"
    /\ UNCHANGED <<opened, judged, good, chosen>>
    /\ delivered' \in BOOLEAN

Deliver ==
    /\ answer # "none"
    /\ ~delivered
    /\ delivered' = TRUE
    /\ UNCHANGED <<opened, judged, good, answer, chosen>>

\* A search that never starts is refused and delivered in one step.
Refuse ==
    /\ answer = "none"
    /\ opened = {}
    /\ answer' = "refused"
    /\ delivered' = TRUE
    /\ UNCHANGED <<opened, judged, good, chosen>>

Next ==
    \/ \E a \in Attempts :
           Open(a) \/ Produce(a) \/ Dismiss(a) \/ Accept(a) \/ Escape(a)
    \/ \E reason \in {"timed_out", "exhausted", "escaped"} : GiveUp(reason)
    \/ Interrupt
    \/ Deliver
    \/ Refuse

Spec == Init /\ [][Next]_vars
==============================================================================
