--------------------------------- MODULE Cli ---------------------------------
(***************************************************************************)
(* `p2c-tools generate` (cli.py:109-150, 227-237): the arguments are       *)
(* parsed and become an envelope and options, generate_connection_proof    *)
(* checks them, resolves the domain and searches, ConnectionProof.write    *)
(* publishes what it returned, a report is printed, and main turns the way *)
(* this ended into an exit status.  The search and the file are taken by   *)
(* what they promise, ProofSearch and AtomicFile, which Generator and      *)
(* ProofFile are shown to keep.                                            *)
(***************************************************************************)
EXTENDS Setup, FiniteSets

CONSTANTS
    Concurrency, MaxAttempts, OverallTimeout, AttemptCap,   \* of the search
    Keeper,         \* this run as a writer of the destination, without
    Replacer,       \* and with --overwrite
    Nothing,
    Foreign,
    Arguments,      \* command lines: records of the fields Setup asks
    Bundles,        \* of root certificates: "pinned", "custom", "unusable"
    DnsAnswers      \* what getaddrinfo may say: sequences, <<>> for an error

ASSUME WritersAssumption ==
    Keeper # Replacer /\ {Keeper, Replacer} \cap {Nothing, Foreign} = {}

\* The search is one of these constants for every command line it accepts.
ASSUME ArgumentsAssumption ==
    \A a \in Arguments : AreOptions(a) =>
        /\ a.concurrency = Concurrency
        /\ a.max_attempts = MaxAttempts
        /\ a.overall_timeout # 0 <=> OverallTimeout # 0

ASSUME DnsAssumption == \A said \in DnsAnswers : said \in Seq(ToSet(said))

VARIABLES
    args,
    answers,    \* of getaddrinfo
    endpoints,  \* what resolve_endpoints made of them
    dialed,     \* the endpoint of each attempt, in the order they were opened
    me,         \* Keeper or Replacer, by the arguments
    pc,         \* what _generate is doing
    status,     \* exit status, Running before the end
    opened, judged, good, answer, chosen, delivered,    \* ProofSearch
    target, reply                                       \* AtomicFile

search_vars == <<opened, judged, good, answer, chosen, delivered>>
file_vars == <<target, reply>>
setup_vars == <<args, answers, endpoints, dialed>>
vars == <<me, pc, status, args, answers, endpoints, dialed, search_vars, file_vars>>

Search == INSTANCE ProofSearch
File == INSTANCE AtomicFile WITH
            Writers <- {Keeper, Replacer},
            Overwriters <- {Replacer}

Running == 999
Cancelled == 130
UsageError == 2
FlushFailed == 120      \* of the interpreter, at its own end

Init ==
    /\ me \in {Keeper, Replacer}
    /\ pc = "parse"
    /\ status = Running
    /\ args \in Arguments
    /\ answers = <<>> /\ endpoints = <<>> /\ dialed = <<>>
    /\ Search!Init
    /\ File!Init

Exit(code) == pc' = "exit" /\ status' = code /\ UNCHANGED me
Continue(point) == pc' = point /\ UNCHANGED <<me, status>>

\* argparse exits by itself; the mask is the argument it has a list for.
Parse ==
    /\ pc = "parse"
    /\ IF args.mask \in 1..7 THEN Continue("envelope") ELSE Exit(UsageError)
    /\ UNCHANGED <<setup_vars, search_vars, file_vars>>

\* Lines 110-126: a field that from_dict refuses is an error.
MakeEnvelope ==
    /\ pc = "envelope"
    /\ IF IsEnvelope(args) THEN Continue("setup") ELSE Exit(1)
    /\ UNCHANGED <<setup_vars, search_vars, file_vars>>

\* generator.py:132-153; the bundle is read before the domain is resolved.
PrepareSearch ==
    /\ pc = "setup"
    /\ Continue("search")
    /\ \E bundle \in Bundles :
        \/ /\ AreOptions(args) /\ IsContext(args, bundle)
           /\ answers' \in DnsAnswers
           /\ endpoints' = ResolveEndpoints(args, answers')
           /\ IF endpoints' = <<>> THEN Search!Refuse ELSE UNCHANGED search_vars
        \/ /\ ~(AreOptions(args) /\ IsContext(args, bundle))
           /\ Search!Refuse
           /\ UNCHANGED <<answers, endpoints>>
    /\ UNCHANGED <<args, dialed, file_vars>>

\* Each attempt gets the next endpoint, in turns (generator.py:186-187).
DialNext == endpoints[1 + (Len(dialed) % Len(endpoints))]

\* What the checks let pass and the first connection runs into: an interval that
\* is no float ends the search right after its first submission (198), and a
\* capture whose timeout no socket takes comes back with nothing (tls13.py:391).
StoppedByRate ==
    opened # {} /\ ~HasInterval(args) =>
        /\ UNCHANGED <<opened, judged>>
        /\ answer' \in {"none", "escaped", "interrupted"}
NothingCaptured == ~FitsSocket(args) => good' = {}

Searching ==
    /\ pc = "search"
    /\ ~delivered
    /\ Search!Next
    /\ answer' # "refused"
    /\ StoppedByRate
    /\ NothingCaptured
    /\ dialed' = IF opened' = opened THEN dialed ELSE Append(dialed, DialNext)
    /\ UNCHANGED <<me, pc, status, args, answers, endpoints, file_vars>>

\* Lines 227-237.  An exception main does not catch ends the interpreter, with
\* the same status as an error it reports.  Of a write, "killed" stands here for
\* Ctrl-C: a process that is killed leaves no status of its own.
StatusOf(result) == IF result \in {"interrupted", "killed"} THEN Cancelled ELSE 1

SearchEnds ==
    /\ pc = "search"
    /\ delivered
    /\ IF answer = "proof" THEN Continue("write") ELSE Exit(StatusOf(answer))
    /\ UNCHANGED <<setup_vars, search_vars, file_vars>>

\* Line 141.
Write ==
    /\ pc = "write"
    /\ File!Publish(me) \/ File!Answer(me)
    /\ UNCHANGED <<me, pc, status, setup_vars, search_vars>>

\* A mutant of WriteEnds.
WriteEndsUnlessKilled ==
    /\ pc = "write"
    /\ reply[me] \in {"ok", "error", "killed"}
    /\ IF reply[me] # "killed" THEN Continue("print") ELSE Exit(StatusOf(reply[me]))
    /\ UNCHANGED <<setup_vars, search_vars, file_vars>>
WriteEnds ==
    /\ pc = "write"
    /\ reply[me] \in {"ok", "error", "killed"}
    /\ IF reply[me] = "ok" THEN Continue("print") ELSE Exit(StatusOf(reply[me]))
    /\ UNCHANGED <<setup_vars, search_vars, file_vars>>

\* Lines 142-150; standard output may be closed, which shows now or when it is
\* flushed at the exit.
PrintReport ==
    /\ pc = "print"
    /\ \E code \in {0, 1, FlushFailed} : Exit(code)
    /\ UNCHANGED <<setup_vars, search_vars, file_vars>>

\* Ctrl-C outside the search and the write, which have their own.
Interrupt ==
    /\ pc \in {"parse", "envelope", "setup", "print"}
    /\ Exit(Cancelled)
    /\ UNCHANGED <<setup_vars, search_vars, file_vars>>

Intrude ==
    /\ File!Intrude
    /\ UNCHANGED <<me, pc, status, setup_vars, search_vars>>

Over == pc = "exit" /\ UNCHANGED vars

Next ==
    \/ Parse
    \/ MakeEnvelope
    \/ PrepareSearch
    \/ Searching
    \/ SearchEnds
    \/ Write
    \/ WriteEnds
    \/ PrintReport
    \/ Interrupt
    \/ Intrude
    \/ Over

Spec == Init /\ [][Next]_vars

-----------------------------------------------------------------------------
(* Properties *)

\* A script may trust the exit status: 0 says that the destination holds this
\* run's proof, a good one; 2 that nothing was begun; 130 that Ctrl-C struck;
\* a search that found nothing is 1 and has published nothing.
StatusIsTrue ==
    /\ target = me => delivered /\ answer = "proof" /\ chosen \in good
    /\ status = 0 => target = me
    /\ status = UsageError => answers = <<>> /\ answer = "none"
    /\ answer \in {"timed_out", "exhausted", "refused", "escaped"} /\ pc = "exit" => status = 1
    /\ answer = "interrupted" /\ pc = "exit" => status = Cancelled

\* Once a connection is opened nobody who asks for the same fields later finds
\* them wrong: the challenge and ClientHello of each attempt (tls13.py:114-122),
\* the target and the dates of each candidate (hashes.py:62, verify.py:134), the
\* pool (generator.py:163) and whoever reads the proof from its file
\* (envelope.py:101).  Two arguments are found out by the first connection only,
\* and no search goes on with them: a rate without an interval gets no second
\* connection (generator.py:198), and a proof comes of no connection whose
\* timeout no socket takes (tls13.py:391).
StartedContextIsUsable ==
    /\ opened # {} =>
           /\ IsClaim(args) /\ IsHello(args)
           /\ IsDisplayHash(args.work_target)
           /\ IsVerifiable(args)
           /\ args.concurrency > 0
           /\ IsEnvelope(args)
    /\ Cardinality(opened) > 1 => HasInterval(args)
    /\ answer = "proof" => FitsSocket(args) /\ HasInterval(args)

DialedTo(a) == Cardinality({i \in DOMAIN dialed : dialed[i] = a})

\* Connections go to permitted addresses of the domain only, and to all of them
\* in equal shares, whatever the resolver repeats: no address gets two
\* connections more than another one (generator.py:90-107, 186-187).
ConnectionsAreSpread ==
    /\ \A i \in DOMAIN dialed : Permits(args, dialed[i])
    /\ \A a, b \in ToSet(answers) :
           Permits(args, a) /\ Permits(args, b) => DialedTo(a) <= DialedTo(b) + 1
=============================================================================
