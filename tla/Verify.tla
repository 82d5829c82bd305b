------------------------------- MODULE Verify --------------------------------
(***************************************************************************)
(* The verification of proofs (verify.py) as its callers use it, while     *)
(* somebody may replace the root bundle on disk: a search validates the    *)
(* bundle once (generator.py:146), verifies its first candidates without   *)
(* the work target and later ones with it (222-245), each time reading the *)
(* bundle again; the proof it returns is then verified from the file by    *)
(* `p2c-tools verify`, which also meets proofs no search has made.         *)
(*                                                                         *)
(* A proof is the set of checks it fails, its work hash, and the bundles   *)
(* under which its path validates.                                         *)
(***************************************************************************)
EXTENDS Hashes

CONSTANTS
    Bundles,        \* contents of the root bundle file
    Pinned,         \* the one with the hash ROOTS_V1_SHA256
    BundleFlaw,     \* of each: "none", "missing", "pem", "version", "empty", "exponents"
    Target,         \* connection_work_target: the digits somebody typed
    HashSize,       \* bytes of a hash: 32
    Proofs,         \* records, see ProofType
    RootsVersion,   \* root_certificates_version of the envelope
    MaxCandidates   \* bound: candidates of the search

\* Certificates are decoded, then their exponents bounded (75-85); "read" and
\* "roots" are _load_roots (97-120).  Two flaws are in what x509 reads of a
\* certificate: "version", while it loads, and "extensions", while it is used.
Own == {"structure", "scheme", "certificates", "version", "exponents", "times",
        "usage", "extensions", "signature"}
Works == [1..HashSize -> 0..(Base - 1)]
\* A chain is loaded in order, so at most one of two flaws stops it.
Flaws == {flaws \in SUBSET Own : ~({"certificates", "version"} \subseteq flaws)}
ProofType == [flaws : Flaws, work : Works, paths : SUBSET Bundles]

ASSUME BundlesAssumption ==
    /\ Pinned \in Bundles
    /\ BundleFlaw[Pinned] = "none"
ASSUME TargetAssumption ==
    /\ HashSize \in Nat
    /\ Target \in [1..(2 * HashSize) -> 0..(HexBase - 1)]
ASSUME ProofsAssumption == Proofs \subseteq ProofType /\ MaxCandidates \in Nat

\* Mutants come just before the definition they replace: they show that the
\* properties see a slip of the code at that place.
ChecksExponentsLate == <<"structure", "scheme", "target", "certificates", "read",
    "roots", "times", "usage", "path", "signature", "exponents">>

\* verify_connection_proof, 352-367.
Checks == <<"structure", "scheme", "target", "certificates", "exponents", "read",
    "roots", "times", "usage", "path", "signature">>
\* validate_root_bundle, 123-127.
RootChecks == <<"read", "roots">>
\* What tls13.py has checked of a captured proof (455-476, verify.py:92-94).
CaptureChecks == {"structure", "scheme", "certificates", "version", "exponents"}

VARIABLES
    file,               \* content of the bundle file
    swapped,            \* it was replaced since the beginning
    enforce_root_pin,   \* the option of the search
    session,            \* what the caller is doing
    candidates,
    preflight_complete,
    proof,              \* the proof of the current call
    any_target,         \* its target was replaced by f...f (224)
    pin,                \* enforce_root_pin of the current call
    todo,               \* checks the current call has not made yet
    roots,              \* the bytes it has read
    verdict             \* its result: "accepted", or the check that failed

options == <<enforce_root_pin>>
disk == <<file, swapped>>
search == <<candidates, preflight_complete>>
call == <<proof, any_target, pin, todo, roots, verdict>>
vars == <<file, swapped, enforce_root_pin, session, candidates,
          preflight_complete, proof, any_target, pin, todo, roots, verdict>>

NoProof == [flaws |-> {}, work |-> [i \in 1..HashSize |-> 0], paths |-> {}]

\* Either a search begins (its options checked), or a proof file of any origin
\* is verified by cli.py:79-81.
Init ==
    /\ file \in Bundles
    /\ swapped = FALSE
    /\ enforce_root_pin \in BOOLEAN
    /\ candidates = 0
    /\ preflight_complete = FALSE
    /\ roots = file
    /\ verdict = "none"
    /\ any_target = FALSE
    /\ \/ session = "validating" /\ proof = NoProof /\ todo = RootChecks
          /\ pin = enforce_root_pin
       \/ session = "reading" /\ proof \in Proofs /\ todo = Checks /\ pin = TRUE

-----------------------------------------------------------------------------
(* One call *)

\* The bytes that are hashed are the ones that are parsed (99-114).
HashedReadAgain == file
Hashed == roots

RootsAreUsable ==
    /\ RootsVersion = 1
    /\ pin => Hashed = Pinned
    /\ BundleFlaw[roots] = "none"

\* "f" * 64 in the preflight (224), else the target of the envelope (360).
Highest == [i \in 1..(2 * HashSize) |-> HexBase - 1]
MeetsTarget == MeetsWorkTarget(proof.work, IF any_target THEN Highest ELSE Target)

Holds(check) ==
    /\ check \in Own => check \notin proof.flaws
    /\ check = "target" => MeetsTarget
    /\ check = "read" => BundleFlaw[file] # "missing"
    /\ check = "roots" => RootsAreUsable
    /\ check = "certificates" => "version" \notin proof.flaws
    /\ check = "usage" => "extensions" \notin proof.flaws
    /\ check = "path" => roots \in proof.paths

Pass ==
    /\ todo # <<>>
    /\ Holds(Head(todo))
    /\ todo' = Tail(todo)
    /\ verdict' = IF Tail(todo) = <<>> THEN "accepted" ELSE "none"
    /\ roots' = IF Head(todo) = "read" THEN file ELSE roots
    /\ UNCHANGED <<disk, options, session, search, proof, any_target, pin>>

\* A failure is a ProofFormatError or a ProofVerificationError, but x509 has
\* errors of its own that nobody turns into one: InvalidVersion while it loads
\* the certificates of the proof (79) or of the bundle (114), and what
\* leaf.extensions raises on extensions it cannot parse (146, 153).
Escapes(check) ==
    \/ check = "certificates" /\ "version" \in proof.flaws
    \/ /\ check = "roots" /\ BundleFlaw[roots] = "version"
       /\ RootsVersion = 1 /\ (pin => Hashed = Pinned)
    \/ check = "usage" /\ "extensions" \in proof.flaws
Fail ==
    /\ todo # <<>>
    /\ ~Holds(Head(todo))
    /\ verdict' = IF Escapes(Head(todo)) THEN "escaped" ELSE Head(todo)
    /\ todo' = <<>>
    /\ UNCHANGED <<disk, options, session, search, proof, any_target, pin, roots>>

-----------------------------------------------------------------------------
(* The callers *)

Finished(s) == session = s /\ todo = <<>>
Verifies(p, any, use_pin) ==
    /\ proof' = p
    /\ any_target' = any
    /\ pin' = use_pin
    /\ todo' = Checks
    /\ verdict' = "none"
    /\ UNCHANGED roots

\* The first bundle read decides whether the search begins at all.
Validated ==
    /\ Finished("validating")
    /\ session' = IF verdict = "accepted" THEN "searching" ELSE "over"
    /\ UNCHANGED <<disk, options, search, call>>

\* generator.py:223-241: no verification for a candidate after the preflight
\* that misses the target.
WinsAlways(p) == TRUE
Wins(p) == MeetsWorkTarget(p.work, Target)

Candidate(p) ==
    /\ session = "searching"
    /\ candidates < MaxCandidates
    /\ p.flaws \cap CaptureChecks = {}
    /\ candidates' = candidates + 1
    /\ \/ /\ ~preflight_complete \/ Wins(p)
          /\ Verifies(p, ~preflight_complete, enforce_root_pin)
          /\ session' = "verifying"
       \/ /\ preflight_complete /\ ~Wins(p)
          /\ UNCHANGED <<session, call>>
    /\ UNCHANGED <<disk, options, preflight_complete>>

\* A rejected candidate costs nothing but itself; an exception nobody expects
\* costs the search (247-252).
Accepted ==
    /\ Finished("verifying")
    /\ verdict = "accepted"
    /\ preflight_complete' = TRUE
    /\ session' = IF Wins(proof) THEN "returned" ELSE "searching"
    /\ UNCHANGED <<disk, options, candidates, call>>
Rejected ==
    /\ Finished("verifying")
    /\ verdict # "accepted"
    /\ session' = IF verdict = "escaped" THEN "over" ELSE "searching"
    /\ UNCHANGED <<disk, options, search, call>>

\* The returned proof is read from the file it was written to (cli.py:80-81):
\* the pin is always enforced.
Reread ==
    /\ session = "returned"
    /\ Verifies(proof, FALSE, TRUE)
    /\ session' = "rereading"
    /\ UNCHANGED <<disk, options, search>>

\* Somebody installs another bundle.
ReplaceFile ==
    /\ session # "over"
    /\ \E b \in Bundles \ {file} : file' = b
    /\ swapped' = TRUE
    /\ UNCHANGED <<options, session, search, call>>

Over ==
    /\ \/ session \in {"over"}
       \/ session = "searching" /\ candidates = MaxCandidates
       \/ session \in {"reading", "rereading"} /\ todo = <<>>
    /\ UNCHANGED vars

Next ==
    \/ Pass
    \/ Fail
    \/ Validated
    \/ \E p \in Proofs : Candidate(p)
    \/ Accepted
    \/ Rejected
    \/ Reread
    \/ ReplaceFile
    \/ Over

Spec == Init /\ [][Next]_vars

-----------------------------------------------------------------------------
(* Properties *)

\* The current call has loaded its roots and goes by them.
TrustsRoots ==
    verdict = "accepted" \/ (todo # <<>> /\ Head(todo) \in {"times", "usage", "path", "signature"})

\* With the pin enforced no call ever goes by another bundle than the pinned
\* one, whenever the file is replaced (99-107).
PinnedRootsOnly == pin /\ TrustsRoots => roots = Pinned

\* "Checking the integer is cheap and precedes path/signature verification"
\* (55): no key with an oversized exponent, the server's or a root's, reaches
\* either of them.
BoundedExponentsOnly ==
    TrustsRoots => "exponents" \notin proof.flaws /\ BundleFlaw[roots] # "exponents"

DisplayValue(digits) == Number(FromHex(digits))
Displayed(work) == Number(Reverse(work))

\* The number that decides is the one people read: a proof is accepted with its
\* own target, or refused for it, as its hash on display (hashes.py:31-34) and
\* the target as typed compare, digit by digit from the left.
TargetIsNumeric ==
    /\ verdict = "accepted" /\ ~any_target /\ session # "validating" =>
           Displayed(proof.work) <= DisplayValue(Target)
    /\ verdict = "target" => Displayed(proof.work) > DisplayValue(Target)

\* What a search with the pin returns, over either of its two ways of
\* verifying, `p2c-tools verify` accepts: only the bundle can be to blame.
ReturnedVerifies ==
    session = "rereading" /\ enforce_root_pin =>
        verdict \in {"none", "accepted", "read", "roots"}
=============================================================================
