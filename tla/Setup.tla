--------------------------------- MODULE Setup --------------------------------
(***************************************************************************)
(* What stands between the arguments of `p2c-tools generate` and the first *)
(* connection: the fields of the envelope (envelope.py, domain.py), the    *)
(* options and the context of the search (generator.py:59-153), and the    *)
(* addresses of the domain (76-110).  All of it is asked once; a search    *)
(* then relies on it for hours.                                            *)
(*                                                                         *)
(* Limits are constants; a text is a sequence of characters, a domain the  *)
(* sequence of its labels, and a float that is not finite a number of its  *)
(* own.                                                                    *)
(***************************************************************************)
EXTENDS Integers, SequencesExt

CONSTANTS
    HashDigits,         \* of a hash: 64
    MaxIndex,           \* 0xFFFFFFFF, of input_index and of the roots version
    MaxValidationTime,  \* 0x7FFFFFFFFFFFFFFF
    MaxDate,            \* the last second datetime can represent
    MaxLabel, MaxDomain,            \* 63 and 253
    MaxPort, MaxConcurrency,        \* 65535 and MAX_CONCURRENCY
    NotFinite,          \* a float that is infinite or no number
    MaxSeconds,         \* the longest timeout a socket takes, about 2^63 ns
    MaxFloat,           \* the largest integer a float holds, about 2^1024
    Parsable, GlobalIps \* of the texts that getaddrinfo calls addresses

ASSUME LimitsAssumption ==
    /\ {HashDigits, MaxIndex, MaxValidationTime, MaxDate, MaxLabel, MaxDomain,
        MaxPort, MaxConcurrency, NotFinite, MaxSeconds, MaxFloat} \subseteq Nat
    /\ GlobalIps \subseteq Parsable

HexDigits == {"0", "f"}
LabelCharacters == HexDigits \cup {"z", "-"}

-----------------------------------------------------------------------------
(* The envelope.  Mutants come just before what they replace. *)

\* is_canonical_domain, domain.py:4-16.
DomainSize(domain) ==
    FoldLeft(LAMBDA size, label : size + Len(label), Len(domain) - 1, domain)
IsCanonicalDomain(domain) ==
    /\ DomainSize(domain) \in 1..MaxDomain
    /\ \A i \in DOMAIN domain :
        /\ Len(domain[i]) \in 1..MaxLabel
        /\ Head(domain[i]) # "-" /\ Last(domain[i]) # "-"
        /\ ToSet(domain[i]) \subseteq LabelCharacters

\* _require_hex with the size of a hash, envelope.py:43-54.
IsHex(text) ==
    /\ text # <<>> /\ Len(text) % 2 = 0
    /\ ToSet(text) \subseteq HexDigits
    /\ Len(text) = HashDigits

\* from_dict and __post_init__, envelope.py:76-95 and 101-144, which ask the
\* same; the placeholder of the proof is always right (cli.py:122-126).
IsEnvelope(args) ==
    /\ IsCanonicalDomain(args.domain)
    /\ IsHex(args.txid) /\ IsHex(args.work_target)
    /\ args.input_index \in 0..MaxIndex
    /\ args.roots_version \in 1..MaxIndex
    /\ args.mask \in 1..7
    /\ args.validation_time \in 1..MaxValidationTime

-----------------------------------------------------------------------------
(* The options and the context, in this order, before any connection       *)

\* _validate_options, generator.py:59-73, which sets no upper limit to the rate
\* and to the timeouts.
AreOptions(args) ==
    /\ args.port \in 1..MaxPort
    /\ args.rate >= -1 /\ args.rate # 0
    /\ args.concurrency \in 1..MaxConcurrency
    /\ args.connection_timeout # NotFinite /\ args.connection_timeout > 0
    /\ args.overall_timeout # NotFinite /\ args.overall_timeout >= 0
    /\ args.max_attempts >= 0

\* datetime.fromtimestamp, 141-144.
IsDate(time) == time <= MaxDate

\* _load_roots, verify.py:97-120, for a bundle that is "pinned", another one
\* that can be used ("custom") or one that cannot.
AreRoots(args, bundle) ==
    /\ args.roots_version = 1
    /\ bundle = "pinned" \/ (bundle = "custom" /\ args.allow_unpinned_roots)

IsContextOfAnyTime(args, bundle) == args.mask \in 1..7 /\ AreRoots(args, bundle)
IsContext(args, bundle) ==
    /\ args.mask \in 1..7
    /\ IsDate(args.validation_time)
    /\ AreRoots(args, bundle)

\* resolve_endpoints, 76-110, of what getaddrinfo answers: the scope of an
\* address, which its text leaves out (93), counts for its identity (102).
Permits(args, a) == a.ip \in Parsable /\ (args.allow_private_addresses \/ a.ip \in GlobalIps)
IsNewText(seen, a) == \A i \in DOMAIN seen : seen[i].ip # a.ip
IsNew(seen, a) == a \notin ToSet(seen)
ResolveEndpoints(args, answers) ==
    LET seen[i \in 0..Len(answers)] ==
            IF i = 0 THEN <<>>
            ELSE IF Permits(args, answers[i]) /\ IsNew(seen[i - 1], answers[i])
                 THEN Append(seen[i - 1], answers[i]) ELSE seen[i - 1]
    IN  seen[Len(answers)]

-----------------------------------------------------------------------------
(* What the search and whoever reads its proof ask of the same fields later *)

\* _display_hash_to_internal, hashes.py:15-28.
IsDisplayHash(text) == Len(text) = HashDigits /\ ToSet(text) \subseteq HexDigits
\* claim_challenge, hashes.py:37-44: for every challenge.
IsClaim(args) == args.input_index \in 0..MaxIndex /\ IsDisplayHash(args.txid)
\* build_client_hello and capture_tls13_proof before it connects, tls13.py:114-122
\* and 373-375.
IsHello(args) ==
    /\ args.mask \in 1..7
    /\ IsCanonicalDomain(args.domain)
    /\ args.connection_timeout # NotFinite /\ args.connection_timeout > 0
\* The timeout of an attempt, cut to what the search has, generator.py:189-194
\* (the time it has used is nothing beside MaxSeconds), and settimeout, which refuses a longer one (tls13.py:391, OverflowError).
AttemptTimeout(args) ==
    IF args.overall_timeout # 0 /\ args.overall_timeout < args.connection_timeout
        THEN args.overall_timeout ELSE args.connection_timeout
FitsSocket(args) == AttemptTimeout(args) <= MaxSeconds
\* 1.0 / connections_per_second, generator.py:197-198.
HasInterval(args) == args.rate = -1 \/ args.rate \in 1..MaxFloat
\* _check_supplied_certificate_times, verify.py:130-136, and _verify_path.
IsVerifiable(args) == IsDate(args.validation_time) /\ args.roots_version = 1
=============================================================================
