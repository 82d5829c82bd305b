----------------------------- MODULE VerifyProofs -----------------------------
(***************************************************************************)
(* Theorems about Verify: which roots and which keys a call goes by, and   *)
(* whom a refusal of a returned proof can blame, whatever bundles there    *)
(* are and whenever they are replaced.                                     *)
(*                                                                         *)
(* The invariant says what a call knows: it has made the checks in front   *)
(* of what is left to do, and but for the one that reads the file they     *)
(* hold still.  The caller adds what it knows of the proof.                *)
(***************************************************************************)
EXTENDS Verify, DataLemmas

\* What is left of a list of checks after k of them.
Suffix(s, k) == [i \in 1..(Len(s) - k) |-> s[i + k]]
\* The first k checks hold.
Known(s, k) == \A i \in 1..k : s[i] # "read" => Holds(s[i])

\* A call that makes the checks of s: some have held, and the rest is to do or
\* given up.
CallInv(s) ==
    \E k \in 0..Len(s) :
        /\ Known(s, k)
        /\ \/ todo = Suffix(s, k) /\ (verdict = "accepted" => k = Len(s))
           \/ todo = <<>> /\ verdict # "accepted"

\* Nothing about the proof itself makes verification with the pin fail.
Blameless(p) ==
    /\ Own \cap p.flaws = {}
    /\ Pinned \in p.paths
    /\ MeetsWorkTarget(p.work, Target)

CallerInv ==
    /\ session = "verifying" => pin = enforce_root_pin
    /\ session = "rereading" => pin = TRUE /\ any_target = FALSE
    /\ session \in {"returned", "rereading"} /\ enforce_root_pin => Blameless(proof)

\* The current or last call is about a proof.
OfProof == session \in {"verifying", "returned", "rereading", "reading"}
IInv ==
    /\ \/ CallInv(Checks)
       \/ CallInv(RootChecks) /\ proof = NoProof /\ ~OfProof
    /\ CallerInv
    /\ ReturnedVerifies

\* What the numbers of a call are: its proof is one there is, and a refusal for
\* the target was about the target of the envelope.
TargetInv ==
    /\ proof \in Proofs \cup {NoProof}
    /\ any_target \in BOOLEAN
    /\ verdict = "target" => ~MeetsWorkTarget(proof.work, Target)

-----------------------------------------------------------------------------

\* The two lists of checks (verify.py:123-127, 352-367), one by one.
LEMMA ChecksAre ==
    /\ Len(Checks) = 11
    /\ Checks[1] = "structure" /\ Checks[2] = "scheme" /\ Checks[3] = "target"
    /\ Checks[4] = "certificates" /\ Checks[5] = "exponents" /\ Checks[6] = "read"
    /\ Checks[7] = "roots" /\ Checks[8] = "times" /\ Checks[9] = "usage"
    /\ Checks[10] = "path" /\ Checks[11] = "signature"
    /\ Len(RootChecks) = 2
    /\ RootChecks[1] = "read" /\ RootChecks[2] = "roots"
  BY DEF Checks, RootChecks

\* Nothing is done yet.
LEMMA WholeSuffix == Suffix(Checks, 0) = Checks /\ Suffix(RootChecks, 0) = RootChecks
  BY DEF Suffix, Checks, RootChecks

\* A suffix is empty at the end, and else goes on with the next check.
LEMMA SuffixStep ==
    ASSUME NEW s, Len(s) \in Nat, NEW k \in 0..Len(s)
    PROVE  /\ (Suffix(s, k) = <<>>) <=> (k = Len(s))
           /\ k < Len(s) => /\ Head(Suffix(s, k)) = s[k + 1]
                            /\ Tail(Suffix(s, k)) = Suffix(s, k + 1)
<1> DEFINE entries == {s[i] : i \in 1..Len(s)}
<1>1. Suffix(s, k) \in Seq(entries) /\ Len(Suffix(s, k)) = Len(s) - k
  BY DEF Suffix
<1>2. (Suffix(s, k) = <<>>) <=> (k = Len(s))
  BY <1>1
<1>3. ASSUME k < Len(s)
      PROVE  Head(Suffix(s, k)) = s[k + 1]
  BY <1>1, <1>3 DEF Suffix
<1>4. ASSUME k < Len(s)
      PROVE  Tail(Suffix(s, k)) = Suffix(s, k + 1)
  BY <1>1, <1>4 DEF Suffix
<1>5. QED
  BY <1>2, <1>3, <1>4
\* The check a call makes next.
LEMMA NextCheck ==
    ASSUME NEW s \in {Checks, RootChecks}, NEW k \in 0..Len(s),
           todo = Suffix(s, k), todo # <<>>
    PROVE  k < Len(s) /\ Head(todo) = s[k + 1]
  BY ChecksAre, SuffixStep

-----------------------------------------------------------------------------
(* The call *)

\* What a check found stays true while its call lasts, but for the file.
LEMMA HoldsStill ==
    ASSUME NEW c, c # "read",
           proof' = proof, any_target' = any_target, pin' = pin,
           roots' = roots \/ c \notin {"roots", "path"}
    PROVE  Holds(c)' <=> Holds(c)
<1>1. MeetsTarget' <=> MeetsTarget
  BY DEF MeetsTarget
<1>2. c = "roots" => (RootsAreUsable' <=> RootsAreUsable)
  BY DEF RootsAreUsable, Hashed
<1>3. QED
  BY <1>1, <1>2 DEF Holds

\* Steps that leave the call alone, the replacement of the file among them.
LEMMA CallStays ==
    ASSUME NEW s, CallInv(s), UNCHANGED call
    PROVE  CallInv(s)'
<1>1. PICK k \in 0..Len(s) :
        /\ Known(s, k)
        /\ \/ todo = Suffix(s, k) /\ (verdict = "accepted" => k = Len(s))
           \/ todo = <<>> /\ verdict # "accepted"
  BY DEF CallInv
<1>2. Known(s, k)'
  BY <1>1, HoldsStill DEF Known, call
<1>3. QED
  BY <1>1, <1>2 DEF CallInv, call

\* A check that held: reading replaces the roots before anything depends on them.
LEMMA CallPasses ==
    ASSUME NEW s \in {Checks, RootChecks}, CallInv(s), Pass
    PROVE  CallInv(s)'
<1>1. PICK k \in 0..Len(s) : Known(s, k) /\ todo = Suffix(s, k)
  BY DEF CallInv, Pass
<1>2. Len(s) \in Nat
  BY ChecksAre
<1>3. /\ k < Len(s)
      /\ Head(todo) = s[k + 1]
      /\ todo' = Suffix(s, k + 1)
      /\ (todo' = <<>>) <=> (k + 1 = Len(s))
  <2>1. k < Len(s)
    BY <1>1, <1>2, SuffixStep DEF Pass
  <2>2. k + 1 \in 0..Len(s)
    BY <1>2, <2>1
  <2>3. Head(todo) = s[k + 1] /\ todo' = Suffix(s, k + 1)
    BY <1>1, <1>2, <2>1, SuffixStep DEF Pass
  <2>4. QED
    BY <1>2, <2>1, <2>2, <2>3, SuffixStep
<1>4. Known(s, k + 1)'
  <2> SUFFICES ASSUME NEW i \in 1..(k + 1), s[i] # "read"
               PROVE  Holds(s[i])'
    BY DEF Known
  <2>1. Holds(s[i])
    BY <1>1, <1>2, <1>3 DEF Known, Pass
  <2>2. roots' = roots \/ s[i] \notin {"roots", "path"}
    <3>1. CASE s[k + 1] # "read"
      BY <1>3, <3>1 DEF Pass
    <3>2. CASE s = Checks /\ s[k + 1] = "read"
      BY <1>3, <3>2, ChecksAre
    <3>3. CASE s = RootChecks /\ s[k + 1] = "read"
      BY <1>3, <3>3, ChecksAre
    <3>4. QED
      BY <3>1, <3>2, <3>3
  <2>3. QED
    BY <2>1, <2>2, HoldsStill DEF Pass
<1>5. k + 1 \in 0..Len(s) /\ (verdict' = "accepted" => k + 1 = Len(s))
  BY <1>2, <1>3 DEF Pass
<1>6. QED
  BY <1>3, <1>4, <1>5 DEF CallInv

\* A check that failed.
LEMMA CallFails ==
    ASSUME NEW s \in {Checks, RootChecks}, CallInv(s), Fail
    PROVE  CallInv(s)'
<1>1. PICK k \in 0..Len(s) : Known(s, k) /\ todo = Suffix(s, k)
  BY DEF CallInv, Fail
<1>2. k < Len(s) /\ Head(todo) = s[k + 1]
  BY <1>1, NextCheck DEF Fail
<1>3. Head(todo) # "accepted"
  BY <1>2, ChecksAre
<1>4. Known(s, k)'
  BY <1>1, HoldsStill DEF Known, Fail
<1>5. QED
  BY <1>3, <1>4 DEF CallInv, Fail

\* A new call has checked nothing.
LEMMA CallBegins ==
    ASSUME NEW p, NEW any, NEW use_pin, Verifies(p, any, use_pin)
    PROVE  CallInv(Checks)'
<1>1. Known(Checks, 0)'
  BY DEF Known
<1>2. QED
  BY <1>1, WholeSuffix, ChecksAre DEF CallInv, Verifies

-----------------------------------------------------------------------------
(* The callers *)

\* A proof that was accepted with the pin enforced, in the preflight or not,
\* passes every check that is about itself.
LEMMA AcceptedIsBlameless ==
    ASSUME CallInv(Checks), verdict = "accepted", pin = TRUE, Wins(proof)
    PROVE  Blameless(proof)
<1>1. Known(Checks, 11)
  BY ChecksAre DEF CallInv
<1>2. \A i \in 1..11 : Checks[i] # "read" => Holds(Checks[i])
  BY <1>1 DEF Known
<1>3. /\ Holds("structure") /\ Holds("scheme") /\ Holds("certificates")
      /\ Holds("exponents") /\ Holds("times") /\ Holds("signature")
  BY <1>2, ChecksAre
<1>4. Holds("roots") /\ Holds("usage") /\ Holds("path")
  BY <1>2, ChecksAre
<1>5. Own \cap proof.flaws = {}
  <2>1. \A c \in Own \ {"version", "extensions"} : c \notin proof.flaws
    BY <1>3, <1>4 DEF Holds, Own
  <2>2. "version" \notin proof.flaws /\ "extensions" \notin proof.flaws
    BY <1>3, <1>4 DEF Holds
  <2>3. QED
    BY <2>1, <2>2
<1>6. Pinned \in proof.paths
  BY <1>4 DEF Holds, RootsAreUsable, Hashed
<1>7. QED
  BY <1>5, <1>6 DEF Blameless, Wins

\* A blameless proof fails by the bundle only.
LEMMA BlamelessFails ==
    ASSUME CallInv(Checks), Fail, pin = TRUE, any_target = FALSE, Blameless(proof)
    PROVE  verdict' \in {"read", "roots"}
<1>1. PICK k \in 0..Len(Checks) : Known(Checks, k) /\ todo = Suffix(Checks, k)
  BY DEF CallInv, Fail
<1>2. k \in 0..10 /\ Head(todo) = Checks[k + 1]
  <2>1. k < Len(Checks) /\ Head(todo) = Checks[k + 1]
    BY <1>1, NextCheck DEF Fail
  <2>2. QED
    BY <2>1, ChecksAre
<1>3. ~Holds(Checks[k + 1])
  BY <1>2 DEF Fail
<1>4. MeetsTarget
  BY DEF MeetsTarget, Blameless
<1>5. proof.flaws \cap Own = {}
  BY DEF Blameless
<1>6. k \geq 7 => roots \in proof.paths
  <2>1. ASSUME k \geq 7
        PROVE  Holds("roots")
    BY <1>1, <1>2, <2>1, ChecksAre DEF Known
  <2>2. QED
    BY <2>1 DEF Holds, RootsAreUsable, Hashed, Blameless
<1>7. Checks[k + 1] \in {"read", "roots"}
  <2>1. CASE k \in 0..4
    BY <1>2, <1>3, <1>4, <1>5, <2>1, ChecksAre DEF Holds, Own
  <2>2. CASE k \in 5..6
    BY <2>2, ChecksAre
  <2>3. CASE k \in 7..10
    BY <1>3, <1>5, <1>6, <2>3, ChecksAre DEF Holds, Own
  <2>4. QED
    BY <1>2, <2>1, <2>2, <2>3
<1>8. ~Escapes(Checks[k + 1])
  BY <1>7, BundlesAssumption DEF Escapes, Hashed
<1>9. QED
  BY <1>2, <1>7, <1>8 DEF Fail

\* The invariant holds at first, is kept by every step, and holds always.
LEMMA InitIsRight == Init => IInv
<1> SUFFICES ASSUME Init PROVE IInv
  OBVIOUS
<1>1. CASE session = "validating" /\ todo = RootChecks /\ proof = NoProof
  <2>1. Known(RootChecks, 0)
    BY DEF Known
  <2>2. CallInv(RootChecks)
    BY <1>1, <2>1, WholeSuffix, ChecksAre DEF CallInv, Init
  <2>3. QED
    BY <1>1, <2>2 DEF IInv, CallerInv, ReturnedVerifies, OfProof
<1>2. CASE session = "reading" /\ todo = Checks
  <2>1. Known(Checks, 0)
    BY DEF Known
  <2>2. CallInv(Checks)
    BY <1>2, <2>1, WholeSuffix, ChecksAre DEF CallInv, Init
  <2>3. QED
    BY <1>2, <2>2 DEF IInv, CallerInv, ReturnedVerifies
<1>3. QED
  BY <1>1, <1>2 DEF Init

\* One step of the induction for each action.
LEMMA StepIsRight == IInv /\ [Next]_vars => IInv'
<1> SUFFICES ASSUME IInv, [Next]_vars PROVE IInv'
  OBVIOUS
<1> USE DEF IInv, CallerInv, ReturnedVerifies, OfProof
<1>1. CASE Pass
  <2>1. CallInv(Checks) => CallInv(Checks)'
    BY <1>1, CallPasses
  <2>2. CallInv(RootChecks) => CallInv(RootChecks)'
    BY <1>1, CallPasses
  <2>3. QED
    BY <1>1, <2>1, <2>2 DEF Pass, options, search
<1>2. CASE Fail
  <2>1. CallInv(Checks) => CallInv(Checks)'
    BY <1>2, CallFails
  <2>2. CallInv(RootChecks) => CallInv(RootChecks)'
    BY <1>2, CallFails
  <2>3. session = "rereading" /\ enforce_root_pin => verdict' \in {"read", "roots"}
    BY <1>2, BlamelessFails
  <2>4. QED
    BY <1>2, <2>1, <2>2, <2>3 DEF Fail, options, search
<1>3. CASE Validated
  <2>1. CallInv(Checks) => CallInv(Checks)'
    BY <1>3, CallStays DEF Validated
  <2>2. CallInv(RootChecks) => CallInv(RootChecks)'
    BY <1>3, CallStays DEF Validated
  <2>3. QED
    BY <1>3, <2>1, <2>2 DEF Validated, options, call
<1>4. ASSUME NEW p \in Proofs, Candidate(p)
      PROVE  IInv'
  <2>1. CASE Verifies(p, ~preflight_complete, enforce_root_pin) /\ session' = "verifying"
    <3>1. CallInv(Checks)'
      BY <2>1, CallBegins
    <3>2. QED
      BY <1>4, <2>1, <3>1 DEF Candidate, Verifies, options
  <2>2. CASE UNCHANGED <<session, call>>
    <3>1. CallInv(Checks) => CallInv(Checks)'
      BY <2>2, CallStays
    <3>2. CallInv(RootChecks) => CallInv(RootChecks)'
      BY <2>2, CallStays
    <3>3. QED
      BY <1>4, <2>2, <3>1, <3>2 DEF Candidate, options, call
  <2>3. QED
    BY <1>4, <2>1, <2>2 DEF Candidate
<1>5. CASE Accepted
  <2>1. CallInv(Checks) /\ CallInv(Checks)'
    BY <1>5, CallStays DEF Accepted, Finished
  <2>2. session' = "returned" /\ enforce_root_pin => Blameless(proof)
    BY <1>5, <2>1, AcceptedIsBlameless DEF Accepted, Finished
  <2>3. QED
    BY <1>5, <2>1, <2>2 DEF Accepted, Finished, options, call
<1>6. CASE Rejected
  <2>1. CallInv(Checks)'
    BY <1>6, CallStays DEF Rejected, Finished
  <2>2. QED
    BY <1>6, <2>1 DEF Rejected, options, call
<1>7. CASE Reread
  <2>1. CallInv(Checks)'
    BY <1>7, CallBegins DEF Reread
  <2>2. QED
    BY <1>7, <2>1 DEF Reread, Verifies, options
<1>8. CASE ReplaceFile \/ UNCHANGED vars
  <2>1. UNCHANGED <<options, session, search, call>>
    BY <1>8 DEF ReplaceFile, vars, options, search, call
  <2>2. CallInv(Checks) => CallInv(Checks)'
    BY <2>1, CallStays
  <2>3. CallInv(RootChecks) => CallInv(RootChecks)'
    BY <2>1, CallStays
  <2>4. QED
    BY <2>1, <2>2, <2>3 DEF options, call
<1>9. QED
  BY <1>1, <1>2, <1>3, <1>4, <1>5, <1>6, <1>7, <1>8 DEF Next, Over

\* Hence it holds in every state.
LEMMA AlwaysRight == Spec => []IInv
  BY InitIsRight, StepIsRight, PTL DEF Spec

-----------------------------------------------------------------------------
(* Theorems *)

\* A call that goes by its roots has found them usable, and its exponents
\* bounded.
LEMMA TrustIsEarned ==
    ASSUME IInv, TrustsRoots
    PROVE  RootsAreUsable /\ "exponents" \notin proof.flaws
<1>0. PICK s \in {Checks, RootChecks} : CallInv(s) /\ (s = RootChecks => proof = NoProof)
  <2>1. Checks # RootChecks
    BY ChecksAre
  <2>2. QED
    BY <2>1 DEF IInv
<1>1. PICK k \in 0..Len(s) :
        /\ Known(s, k)
        /\ \/ todo = Suffix(s, k) /\ (verdict = "accepted" => k = Len(s))
           \/ todo = <<>> /\ verdict # "accepted"
  BY <1>0 DEF CallInv
<1>2. \/ s = Checks /\ k \in 7..11
      \/ s = RootChecks /\ k = 2
  <2>1. CASE verdict = "accepted"
    <3>1. k = Len(s)
      BY <1>1, <2>1
    <3>2. CASE s = Checks
      BY <3>1, <3>2, ChecksAre
    <3>3. CASE s = RootChecks
      BY <3>1, <3>3, ChecksAre
    <3>4. QED
      BY <1>0, <3>2, <3>3
  <2>2. CASE verdict # "accepted"
    <3>1. Head(todo) \in {"times", "usage", "path", "signature"} /\ todo # <<>>
      BY <2>2 DEF TrustsRoots
    <3>2. k < Len(s) /\ s[k + 1] \in {"times", "usage", "path", "signature"}
      BY <1>1, <3>1, NextCheck
    <3>3. CASE s = Checks
      <4>1. k \in 0..10 /\ k \notin 0..6
        BY <3>2, <3>3, ChecksAre
      <4>2. QED
        BY <3>3, <4>1
    <3>4. CASE s = RootChecks
      <4>1. k \in 0..1
        BY <3>2, <3>4, ChecksAre
      <4>2. QED
        BY <3>2, <3>4, <4>1, ChecksAre
    <3>5. QED
      BY <1>0, <3>3, <3>4
  <2>3. QED
    BY <2>1, <2>2
<1>3. CASE s = Checks /\ k \in 7..11
  <2>1. Holds("roots") /\ Holds("exponents")
    BY <1>1, <1>3, ChecksAre DEF Known
  <2>2. QED
    BY <2>1 DEF Holds, Own
<1>4. CASE s = RootChecks /\ k = 2
  <2>1. Holds("roots")
    BY <1>1, <1>4, ChecksAre DEF Known
  <2>2. QED
    BY <1>0, <1>4, <2>1 DEF Holds, NoProof
<1>5. QED
  BY <1>2, <1>3, <1>4

\* With the pin enforced no call goes by another bundle than the pinned one,
\* whatever the file held before, between or after (verify.py:97-120).
THEOREM OnlyPinnedRoots == Spec => []PinnedRootsOnly
<1>1. IInv => PinnedRootsOnly
  BY TrustIsEarned DEF PinnedRootsOnly, RootsAreUsable, Hashed
<1>2. QED
  BY AlwaysRight, <1>1, PTL

\* No key with an oversized exponent reaches a path or a signature check
\* (verify.py:52-85).
THEOREM OnlyBoundedExponents == Spec => []BoundedExponentsOnly
<1>1. IInv => BoundedExponentsOnly
  BY TrustIsEarned DEF BoundedExponentsOnly, RootsAreUsable
<1>2. QED
  BY AlwaysRight, <1>1, PTL

\* A proof returned by a search with the pin is refused by `p2c-tools verify`
\* for nothing but the bundle it finds, whichever of the search's two ways of
\* verifying accepted it (generator.py:222-245, cli.py:79-81).
THEOREM WhatIsReturnedVerifies == Spec => []ReturnedVerifies
<1>1. IInv => ReturnedVerifies
  BY DEF IInv
<1>2. QED
  BY AlwaysRight, <1>1, PTL

-----------------------------------------------------------------------------
(* The work target as a number *)

\* Turning a byte string round twice changes nothing.
LEMMA ReverseTwice ==
    ASSUME NEW S, NEW b \in Seq(S)
    PROVE  /\ Reverse(b) \in Seq(S)
           /\ Len(Reverse(b)) = Len(b)
           /\ \A i \in 1..Len(b) : Reverse(b)[i] = b[Len(b) - i + 1]
           /\ Reverse(Reverse(b)) = b
<1>1. Len(b) \in Nat
  OBVIOUS
<1>2. Reverse(b) \in [1..Len(b) -> S]
  <2>1. \A i \in 1..Len(b) : (Len(b) - i) + 1 \in 1..Len(b)
    BY <1>1
  <2>2. QED
    BY <2>1 DEF Reverse
<1>3. Reverse(b) \in Seq(S) /\ Len(Reverse(b)) = Len(b)
  BY <1>1, <1>2, FunctionIsSequence
<1>4. \A i \in 1..Len(b) : Reverse(b)[i] = b[Len(b) - i + 1]
  BY DEF Reverse
<1>5. Reverse(Reverse(b)) = [i \in 1..Len(b) |-> b[i]]
  <2>1. \A i \in 1..Len(b) :
            /\ (Len(b) - i) + 1 \in 1..Len(b)
            /\ (Len(b) - ((Len(b) - i) + 1)) + 1 = i
    BY <1>1
  <2>2. \A i \in 1..Len(b) : Reverse(b)[(Len(b) - i) + 1] = b[i]
    BY <1>4, <2>1
  <2>3. Reverse(Reverse(b)) = [i \in 1..Len(b) |-> Reverse(b)[(Len(b) - i) + 1]]
    BY <1>3 DEF Reverse
  <2>4. QED
    BY <2>2, <2>3
<1>6. QED
  BY <1>3, <1>4, <1>5

\* Two hexadecimal digits make a byte.
ByteOf(high, low) == HexBase * high + low \in Byte

\* They do, and two of the greatest make the greatest byte.
LEMMA HexPair ==
    /\ \A high, low \in 0..(HexBase - 1) : ByteOf(high, low)
    /\ HexBase * (HexBase - 1) + (HexBase - 1) = Base - 1
    /\ HexBase \in Nat \ {0}
<1>1. HexBase \in Nat \ {0} /\ Base = HexBase * HexBase
  BY HexAssumption, BaseAssumption
<1>2. HexBase * (HexBase - 1) = HexBase * HexBase - HexBase
  BY <1>1
<1>3. HexBase * (HexBase - 1) + (HexBase - 1) = Base - 1
  BY <1>1, <1>2
<1>4. ASSUME NEW high \in 0..(HexBase - 1), NEW low \in 0..(HexBase - 1)
      PROVE  ByteOf(high, low)
  <2>1. HexBase * high + low <= HexBase * (HexBase - 1) + (HexBase - 1)
    BY <1>1, QuotientLess
  <2>2. HexBase * high + low \in Nat
    BY <1>1
  <2>3. Base - 1 \in Nat
    BY BaseAssumption
  <2>4. QED
    BY <1>3, <2>1, <2>2, <2>3 DEF ByteOf, Byte
<1>5. QED
  BY <1>1, <1>3, <1>4

\* Two hexadecimal digits are a byte, whatever they are.
LEMMA DigitsAreBytes ==
    ASSUME NEW digits \in [1..(2 * HashSize) -> 0..(HexBase - 1)]
    PROVE  /\ FromHex(digits) \in Seq(Byte)
           /\ Len(FromHex(digits)) = HashSize
           /\ \A i \in 1..HashSize :
                 FromHex(digits)[i] = HexBase * digits[2 * i - 1] + digits[2 * i]
<1>1. HashSize \in Nat /\ 2 * HashSize \in Nat /\ (2 * HashSize) \div 2 = HashSize
  BY TargetAssumption
<1>2. Len(digits) = 2 * HashSize
  <2>1. 2 * HashSize \in Nat
    BY <1>1
  <2>2. QED
    BY <2>1, FunctionIsSequence
<1>3. FromHex(digits) =
          [i \in 1..HashSize |-> HexBase * digits[2 * i - 1] + digits[2 * i]]
  BY <1>1, <1>2 DEF FromHex
<1>4. \A i \in 1..HashSize : HexBase * digits[2 * i - 1] + digits[2 * i] \in Byte
  <2> TAKE i \in 1..HashSize
  <2>1. 2 * i - 1 \in 1..(2 * HashSize) /\ 2 * i \in 1..(2 * HashSize)
    BY <1>1
  <2>2. digits[2 * i - 1] \in 0..(HexBase - 1) /\ digits[2 * i] \in 0..(HexBase - 1)
    BY <2>1
  <2>3. ByteOf(digits[2 * i - 1], digits[2 * i])
    BY <2>2, HexPair
  <2>4. QED
    BY <2>3 DEF ByteOf
<1>5. FromHex(digits) \in [1..HashSize -> Byte]
  BY <1>3, <1>4
<1>6. QED
  BY <1>1, <1>3, <1>5, FunctionIsSequence


\* A hash as bytes is one, whichever way round.
LEMMA WorkIsBytes ==
    ASSUME NEW work \in Works
    PROVE  /\ Reverse(work) \in Seq(Byte)
           /\ Len(Reverse(work)) = HashSize
           /\ Displayed(work) \in Nat
<1>1. work \in Seq(Byte) /\ Len(work) = HashSize
  BY TargetAssumption, FunctionIsSequence DEF Works, Byte
<1>2. Reverse(work) \in Seq(Byte) /\ Len(Reverse(work)) = HashSize
  BY <1>1, ReverseTwice
<1>3. Number(Reverse(work)) \in Nat
  BY <1>2, NumberIsNat
<1>4. QED
  BY <1>2, <1>3 DEF Displayed

\* The comparison of meets_work_target is the one of the displayed numbers:
\* both its sides are turned round, the target once more by its decoding
\* (hashes.py:15-28, 58-63).
LEMMA MeetsIsNumeric ==
    ASSUME NEW work \in Works, NEW digits \in [1..(2 * HashSize) -> 0..(HexBase - 1)]
    PROVE  /\ MeetsWorkTarget(work, digits) <=> Displayed(work) <= DisplayValue(digits)
           /\ Displayed(work) \in Nat
           /\ DisplayValue(digits) \in Nat
<1>1. FromHex(digits) \in Seq(Byte)
  BY DigitsAreBytes
<1>2. Reverse(Reverse(FromHex(digits))) = FromHex(digits)
  BY <1>1, ReverseTwice
<1>3. Little(DisplayHashToInternal(digits)) = DisplayValue(digits)
  BY <1>2 DEF Little, DisplayHashToInternal, DisplayValue
<1>4. Little(work) = Displayed(work)
  BY DEF Little, Displayed
<1>5. DisplayValue(digits) \in Nat
  BY <1>1, NumberIsNat DEF DisplayValue
<1>6. QED
  BY <1>3, <1>4, <1>5, WorkIsBytes DEF MeetsWorkTarget

\* Every hash meets the target of the preflight (generator.py:224).
LEMMA HighestIsMet ==
    ASSUME NEW work \in Works
    PROVE  MeetsWorkTarget(work, Highest)
<1>1. Highest \in [1..(2 * HashSize) -> 0..(HexBase - 1)]
  BY HexPair DEF Highest
<1>2. /\ FromHex(Highest) \in Seq(Byte) /\ Len(FromHex(Highest)) = HashSize
      /\ \A i \in 1..HashSize : FromHex(Highest)[i] = Base - 1
  <2>1. \A i \in 1..HashSize : 2 * i - 1 \in 1..(2 * HashSize) /\ 2 * i \in 1..(2 * HashSize)
    BY TargetAssumption
  <2>2. \A i \in 1..HashSize : Highest[2 * i - 1] = HexBase - 1 /\ Highest[2 * i] = HexBase - 1
    BY <2>1 DEF Highest
  <2>3. \A i \in 1..HashSize :
            FromHex(Highest)[i] = HexBase * (HexBase - 1) + (HexBase - 1)
    BY <1>1, <2>2, DigitsAreBytes
  <2>4. QED
    BY <1>1, <2>3, DigitsAreBytes, HexPair
<1>3. \A i \in 1..HashSize : Reverse(work)[i] <= FromHex(Highest)[i]
  <2> TAKE i \in 1..HashSize
  <2>1. Reverse(work)[i] \in Byte
    BY WorkIsBytes
  <2>2. QED
    BY <1>2, <2>1, BaseAssumption DEF Byte
<1>4. Number(Reverse(work)) <= Number(FromHex(Highest))
  BY <1>2, <1>3, WorkIsBytes, NumberMonotone
<1>5. QED
  BY <1>1, <1>4, MeetsIsNumeric DEF Displayed, DisplayValue

\* No hash is below that of no proof.
LEMMA NoProofIsLeast == Displayed(NoProof.work) <= DisplayValue(Target)
<1>1. NoProof.work \in Works /\ NoProof.work \in Seq(Byte) /\ Len(NoProof.work) = HashSize
  <2>1. 0 \in Byte /\ 0 \in 0..(Base - 1)
    BY BaseAssumption DEF Byte
  <2>2. NoProof.work \in [1..HashSize -> Byte] /\ NoProof.work \in Works
    BY <2>1 DEF NoProof, Works
  <2>3. QED
    BY <2>2, TargetAssumption, FunctionIsSequence
<1>2. \A i \in 1..HashSize : Reverse(NoProof.work)[i] = 0
  <2>1. \A i \in 1..HashSize : HashSize - i + 1 \in 1..HashSize
    BY TargetAssumption
  <2>2. \A i \in 1..HashSize : NoProof.work[i] = 0
    BY DEF NoProof
  <2>3. QED
    BY <1>1, <2>1, <2>2, ReverseTwice
<1>3. FromHex(Target) \in Seq(Byte) /\ Len(FromHex(Target)) = HashSize
  BY TargetAssumption, DigitsAreBytes
<1>4. \A i \in 1..HashSize : Reverse(NoProof.work)[i] <= FromHex(Target)[i]
  <2> TAKE i \in 1..HashSize
  <2>1. FromHex(Target)[i] \in Byte
    BY <1>3
  <2>2. QED
    BY <1>2, <2>1, BaseAssumption DEF Byte
<1>5. QED
  BY <1>1, <1>3, <1>4, WorkIsBytes, NumberMonotone DEF Displayed, DisplayValue

\* The proof of a call has a hash.
LEMMA ProofHasWork == TargetInv => proof.work \in Works
<1>1. NoProof.work \in Works
  BY BaseAssumption DEF NoProof, Works
<1>2. \A p \in Proofs : p.work \in Works
  BY ProofsAssumption DEF ProofType
<1>3. QED
  BY <1>1, <1>2 DEF TargetInv

\* A call whose target is the highest does not fail for it.
LEMMA TargetInvHolds == Spec => []TargetInv
<1>1. Init => TargetInv
  BY DEF Init, TargetInv
<1>2. TargetInv /\ [Next]_vars => TargetInv'
  <2> SUFFICES ASSUME TargetInv, [Next]_vars PROVE TargetInv'
    OBVIOUS
  <2>1. CASE Pass
    BY <2>1 DEF Pass, TargetInv
  <2>2. CASE Fail
    <3>1. verdict' = "target" => ~MeetsTarget
      <4>1. verdict' = "target" => Head(todo) = "target" /\ ~Holds(Head(todo))
        BY <2>2 DEF Fail
      <4>2. MeetsTarget => Holds("target")
        BY DEF Holds, Own
      <4>3. QED
        BY <4>1, <4>2
    <3>2. MeetsWorkTarget(proof.work, Highest)
      BY ProofHasWork, HighestIsMet
    <3>3. verdict' = "target" => ~MeetsWorkTarget(proof.work, Target)
      BY <3>1, <3>2 DEF MeetsTarget
    <3>4. QED
      BY <2>2, <3>3 DEF Fail, TargetInv
  <2>3. CASE Validated \/ Accepted \/ Rejected \/ ReplaceFile \/ UNCHANGED vars
    BY <2>3 DEF Validated, Accepted, Rejected, ReplaceFile, vars, call, TargetInv
  <2>4. ASSUME NEW p \in Proofs, Candidate(p)
        PROVE  TargetInv'
    BY <2>4 DEF Candidate, Verifies, call, TargetInv
  <2>5. CASE Reread
    BY <2>5 DEF Reread, Verifies, TargetInv
  <2>6. QED
    BY <2>1, <2>2, <2>3, <2>4, <2>5 DEF Next, Over
<1>3. QED
  BY <1>1, <1>2, PTL DEF Spec

\* A proof is accepted with its own target, or refused for it, as the number
\* people read in its hash and the number they typed compare, for every size of
\* a hash (hashes.py:15-63, verify.py:326-367).
THEOREM TargetDecidesByNumber == Spec => []TargetIsNumeric
<1>1. IInv /\ TargetInv => TargetIsNumeric
  <2> SUFFICES ASSUME IInv, TargetInv PROVE TargetIsNumeric
    OBVIOUS
  <2>1. /\ MeetsWorkTarget(proof.work, Target)
              <=> Displayed(proof.work) <= DisplayValue(Target)
        /\ Displayed(proof.work) \in Nat
        /\ DisplayValue(Target) \in Nat
    BY ProofHasWork, TargetAssumption, MeetsIsNumeric
  <2>2. ASSUME verdict = "accepted", any_target = FALSE
        PROVE  Displayed(proof.work) <= DisplayValue(Target)
    <3>1. CASE CallInv(Checks)
      <4>1. Known(Checks, 11)
        BY <2>2, <3>1, ChecksAre DEF CallInv
      <4>2. Holds("target")
        BY <4>1, ChecksAre DEF Known
      <4>3. QED
        BY <2>1, <2>2, <4>2 DEF Holds, MeetsTarget
    <3>2. CASE proof = NoProof
      BY <3>2, NoProofIsLeast
    <3>3. QED
      BY <3>1, <3>2 DEF IInv
  <2>3. verdict = "target" => Displayed(proof.work) > DisplayValue(Target)
    BY <2>1 DEF TargetInv
  <2>4. ~any_target => any_target = FALSE
    BY DEF TargetInv
  <2>5. QED
    BY <2>2, <2>3, <2>4 DEF TargetIsNumeric
<1>2. QED
  BY AlwaysRight, TargetInvHolds, <1>1, PTL

=============================================================================
