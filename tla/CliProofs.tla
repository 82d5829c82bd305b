------------------------------- MODULE CliProofs -------------------------------
(***************************************************************************)
(* Theorems about Cli: what a search relies on once it has begun, and what *)
(* the destination and the exit status say, for all command lines, answers *)
(* of the resolver, limits and bounds.                                     *)
(***************************************************************************)
EXTENDS Cli, DataLemmas, FiniteSetTheorems

\* All checks before the first connection have been passed.
Usable == IsEnvelope(args) /\ AreOptions(args) /\ \E b \in Bundles : IsContext(args, b)

\* What was checked by the time the program is at a point.
SetupInv ==
    /\ pc = "setup" => IsEnvelope(args)
    /\ pc = "search" /\ ~delivered => Usable
    /\ opened # {} => Usable

\* What the first connection finds out: it stays the only one, or brings nothing.
FoundOut ==
    /\ pc \in {"parse", "envelope", "setup"} => opened = {}
    /\ good \subseteq opened
    /\ opened # {} /\ ~HasInterval(args) =>
           Cardinality(opened) = 1 /\ answer \in {"none", "escaped", "interrupted"}
    /\ ~FitsSocket(args) => good = {}

Writers == {Keeper, Replacer}
\* The types the proofs need.
TypeInv ==
    /\ me \in Writers
    /\ reply \in [Writers -> File!Replies \cup {"published"}]
    /\ pc \in {"parse", "envelope", "setup", "search", "write", "print", "exit"}

\* The search has returned a good proof.
HasProof == delivered /\ answer = "proof" /\ chosen \in good

\* Why the destination holds what it holds, and what is known before the end.
FileInv ==
    /\ answer = "proof" => chosen \in good
    /\ target = me => HasProof
    /\ pc \in {"write", "print"} => HasProof
    /\ reply[me] \in {"published", "ok"} => target = me
    /\ pc = "print" => target = me
    /\ pc \in {"parse", "envelope", "setup"} => answers = <<>> /\ answer = "none"
    /\ pc # "exit" => status = Running

IInv == TypeInv /\ SetupInv /\ FoundOut /\ FileInv /\ StatusIsTrue

-----------------------------------------------------------------------------

\* The beginning of a run.
LEMMA InitIsRight == Init => IInv
<1> SUFFICES ASSUME Init PROVE IInv
  OBVIOUS
<1>1. target # me /\ status = 999
  BY WritersAssumption DEF Init, File!Init, Running
<1>2. reply = [w \in Writers |-> "none"]
  BY DEF Init, File!Init, Writers
<1>3. TypeInv
  BY <1>2 DEF Init, TypeInv, File!Replies, Writers
<1>4. SetupInv
  BY DEF Init, SetupInv, Search!Init
<1>5. FileInv
  BY <1>1, <1>2, <1>3 DEF Init, FileInv, TypeInv, Search!Init
<1>6. StatusIsTrue
  BY <1>1 DEF Init, StatusIsTrue, Search!Init, UsageError
<1>7. FoundOut
  BY DEF Init, FoundOut, Search!Init
<1>8. QED
  BY <1>3, <1>4, <1>5, <1>6, <1>7 DEF IInv

\* Fields that were accepted are accepted by whoever asks for them again.
LEMMA UsableIsEnough ==
    ASSUME Usable
    PROVE  /\ IsClaim(args) /\ IsHello(args)
           /\ IsDisplayHash(args.work_target)
           /\ IsVerifiable(args)
           /\ args.concurrency > 0
           /\ IsEnvelope(args)
<1>1. IsDisplayHash(args.txid) /\ IsDisplayHash(args.work_target)
  BY DEF Usable, IsEnvelope, IsHex, IsDisplayHash
<1>2. IsClaim(args)
  BY <1>1 DEF Usable, IsEnvelope, IsClaim
<1>3. IsHello(args)
  BY DEF Usable, IsEnvelope, AreOptions, IsHello
<1>4. IsVerifiable(args)
  BY DEF Usable, IsContext, AreRoots, IsVerifiable
<1>5. args.concurrency > 0
  BY LimitsAssumption DEF Usable, AreOptions
<1>6. QED
  BY <1>1, <1>2, <1>3, <1>4, <1>5 DEF Usable
-----------------------------------------------------------------------------
(* The steps.  Those that end the program or go on to the next point leave *)
(* the search and the file alone.                                          *)

\* Steps between the calls.
LEMMA PointsMove ==
    ASSUME IInv, Parse \/ MakeEnvelope \/ PrintReport \/ Interrupt
    PROVE  IInv'
<1> USE DEF IInv
<1>1. UNCHANGED <<setup_vars, search_vars, file_vars, me>>
  BY DEF Parse, MakeEnvelope, PrintReport, Interrupt, Exit, Continue
<1>2. /\ pc \in {"parse", "envelope", "setup", "print"}
      /\ pc' \in {"envelope", "setup", "exit"}
      /\ pc' # "exit" => status' = status /\ pc \in {"parse", "envelope"}
      /\ pc' = "setup" => IsEnvelope(args)
      /\ pc' = "exit" => \/ status' = UsageError /\ pc = "parse"
                         \/ status' \in {1, Cancelled, FlushFailed}
                         \/ status' = 0 /\ pc = "print"
  BY DEF Parse, MakeEnvelope, PrintReport, Interrupt, Exit, Continue
<1>3. TypeInv'
  BY <1>1, <1>2 DEF TypeInv, file_vars
<1>4. SetupInv'
  BY <1>1, <1>2 DEF SetupInv, Usable, setup_vars, search_vars
<1>5. FileInv'
  BY <1>1, <1>2 DEF FileInv, HasProof, setup_vars, search_vars, file_vars
<1>6. StatusIsTrue'
  BY <1>1, <1>2 DEF StatusIsTrue, FileInv, HasProof, UsageError, Cancelled, FlushFailed,
                    Running, setup_vars, search_vars, file_vars
<1>7. FoundOut'
  BY <1>1, <1>2 DEF FoundOut, setup_vars, search_vars
<1>8. QED
  BY <1>3, <1>4, <1>5, <1>6, <1>7

\* The checks and the resolution: either the context is usable or the search is
\* over before it began.
LEMMA SearchIsPrepared ==
    ASSUME IInv, PrepareSearch
    PROVE  IInv'
<1> USE DEF IInv
<1>1. /\ pc = "setup" /\ pc' = "search"
      /\ UNCHANGED <<args, dialed, file_vars, me, status>>
      /\ UNCHANGED <<opened, judged, good, chosen>>
  BY DEF PrepareSearch, Continue, Search!Refuse, search_vars
<1>2. \/ \E b \in Bundles : AreOptions(args) /\ IsContext(args, b)
      \/ delivered'
  BY DEF PrepareSearch, Search!Refuse
<1>3. answer' \in {"none", "refused"}
  BY DEF PrepareSearch, Search!Refuse, search_vars, FileInv
<1>4. target # me
  BY <1>1 DEF FileInv, HasProof
<1>5. TypeInv'
  BY <1>1 DEF TypeInv, file_vars
<1>6. SetupInv'
  BY <1>1, <1>2 DEF SetupInv, Usable
<1>7. FileInv'
  BY <1>1, <1>3, <1>4 DEF FileInv, file_vars
<1>8. StatusIsTrue'
  BY <1>1, <1>4 DEF StatusIsTrue, FileInv, Running, UsageError, file_vars
<1>9. FoundOut'
  BY <1>1 DEF FoundOut
<1>10. QED
  BY <1>5, <1>6, <1>7, <1>8, <1>9

\* A step of ProofSearch: an answer with a proof is a good one.
LEMMA SearchGoesOn ==
    ASSUME IInv, Searching
    PROVE  IInv'
<1> USE DEF IInv
<1>1. /\ pc = "search" /\ ~delivered
      /\ UNCHANGED <<me, pc, status, args, answers, endpoints, file_vars>>
  BY DEF Searching
<1>2. answer' = "proof" => chosen' \in good'
  BY DEF Searching, FileInv, Search!Next, Search!Open, Search!Produce, Search!Dismiss,
         Search!Accept, Search!Escape, Search!GiveUp, Search!Interrupt, Search!Deliver,
         Search!Refuse
<1>3. target # me
  BY <1>1 DEF FileInv, HasProof
<1>4. TypeInv'
  BY <1>1 DEF TypeInv, file_vars
<1>5. SetupInv'
  BY <1>1 DEF SetupInv, Usable
<1>6. FileInv'
  BY <1>1, <1>2, <1>3 DEF FileInv, file_vars
<1>7. StatusIsTrue'
  BY <1>1, <1>3 DEF StatusIsTrue, FileInv, Running, UsageError, file_vars
<1>8. FoundOut'
  <2>2. good' \subseteq opened'
    BY DEF Searching, FoundOut, Search!Next, Search!Open, Search!Produce, Search!Dismiss,
           Search!Accept, Search!Escape, Search!GiveUp, Search!Interrupt, Search!Deliver,
           Search!Refuse
  <2>3. ASSUME opened' # {}, ~HasInterval(args)
        PROVE  Cardinality(opened') = 1 /\ answer' \in {"none", "escaped", "interrupted"}
    <3>1. CASE opened # {}
      BY <2>3, <3>1 DEF Searching, StoppedByRate, FoundOut
    <3>2. CASE opened = {}
      <4>1. PICK a : opened' = {a} /\ Search!Open(a)
        BY <2>3, <3>2 DEF Searching, FoundOut, Search!Next, Search!Open, Search!Produce,
           Search!Dismiss, Search!Accept, Search!Escape, Search!GiveUp, Search!Interrupt,
           Search!Deliver, Search!Refuse
      <4>2. QED
        BY <4>1, FS_Singleton DEF Search!Open
    <3>3. QED
      BY <3>1, <3>2
  <2>4. ~FitsSocket(args) => good' = {}
    BY DEF Searching, NothingCaptured
  <2>5. QED
    BY <1>1, <2>2, <2>3, <2>4 DEF FoundOut
<1>9. QED
  BY <1>4, <1>5, <1>6, <1>7, <1>8

\* The search or the write has ended.
LEMMA CallsEnd ==
    ASSUME IInv, SearchEnds \/ WriteEnds
    PROVE  IInv'
<1> USE DEF IInv
<1>1. UNCHANGED <<setup_vars, search_vars, file_vars, me>>
  BY DEF SearchEnds, WriteEnds, Exit, Continue
<1>2. \/ pc' = "write" /\ status' = status /\ pc = "search" /\ delivered /\ answer = "proof"
      \/ pc' = "print" /\ status' = status /\ pc = "write" /\ reply[me] = "ok"
      \/ pc' = "exit" /\ pc = "write" /\ status' \in {1, Cancelled}
      \/ /\ pc' = "exit" /\ pc = "search" /\ answer # "proof"
         /\ status' = IF answer \in {"interrupted", "killed"} THEN Cancelled ELSE 1
  BY DEF SearchEnds, WriteEnds, Exit, Continue, StatusOf
<1>3. TypeInv'
  BY <1>1, <1>2 DEF TypeInv, file_vars
<1>4. SetupInv'
  BY <1>1, <1>2 DEF SetupInv, Usable, setup_vars, search_vars
<1>5. FileInv'
  BY <1>1, <1>2 DEF FileInv, HasProof, setup_vars, search_vars, file_vars
<1>6. StatusIsTrue'
  BY <1>1, <1>2 DEF StatusIsTrue, FileInv, HasProof, UsageError, Cancelled, FlushFailed,
                    Running, setup_vars, search_vars, file_vars
<1>7. FoundOut'
  BY <1>1, <1>2 DEF FoundOut, setup_vars, search_vars
<1>8. QED
  BY <1>3, <1>4, <1>5, <1>6, <1>7

\* The destination becomes ours only while writing, and stays ours.
LEMMA FileMoves ==
    ASSUME IInv, Write \/ Intrude
    PROVE  IInv'
<1> USE DEF IInv
<1>1. UNCHANGED <<me, pc, status, setup_vars, search_vars>>
  BY DEF Write, Intrude
<1>2. target' = me => target = me \/ pc = "write"
  BY WritersAssumption DEF Write, Intrude, File!Answer, File!Intrude, TypeInv, Writers
<1>3. target = me => target' = me
  BY WritersAssumption DEF Write, Intrude, File!Publish, File!Answer, File!Intrude, TypeInv,
                           Writers
<1>4. /\ reply' \in [Writers -> File!Replies \cup {"published"}]
      /\ reply'[me] \in {"published", "ok"} => target' = me
  <2>1. CASE File!Publish(me)
    BY <2>1 DEF File!Publish, TypeInv
  <2>2. CASE File!Answer(me)
    BY <2>2 DEF File!Answer, File!Replies, TypeInv, FileInv
  <2>3. CASE File!Intrude
    BY <1>3, <2>3 DEF File!Intrude, TypeInv, FileInv
  <2>4. QED
    BY <2>1, <2>2, <2>3 DEF Write, Intrude
<1>5. TypeInv'
  BY <1>1, <1>4 DEF TypeInv
<1>6. SetupInv'
  BY <1>1 DEF SetupInv, Usable, setup_vars, search_vars
<1>7. FileInv'
  BY <1>1, <1>2, <1>3, <1>4 DEF FileInv, HasProof, setup_vars, search_vars
<1>8. StatusIsTrue'
  BY <1>1, <1>2, <1>3 DEF StatusIsTrue, FileInv, HasProof, setup_vars, search_vars
<1>9. FoundOut'
  BY <1>1 DEF FoundOut, setup_vars, search_vars
<1>10. QED
  BY <1>5, <1>6, <1>7, <1>8, <1>9

\* All actions together.
LEMMA StepIsRight == IInv /\ [Next]_vars => IInv'
<1> SUFFICES ASSUME IInv, [Next]_vars PROVE IInv'
  OBVIOUS
<1>1. CASE UNCHANGED vars
  BY <1>1 DEF IInv, TypeInv, SetupInv, FoundOut, Usable, FileInv, HasProof,
              StatusIsTrue, vars, search_vars, file_vars
<1>2. QED
  BY <1>1, PointsMove, SearchIsPrepared, SearchGoesOn, CallsEnd, FileMoves DEF Next, Over

\* Hence the invariant holds in every state.
LEMMA AlwaysRight == Spec => []IInv
  BY InitIsRight, StepIsRight, PTL DEF Spec

-----------------------------------------------------------------------------
(* Theorems *)

\* Once a connection is opened nobody who asks for the same fields again finds
\* them wrong, and what only the first connection finds out, a rate without an
\* interval or a timeout no socket takes, leads to no second connection or to no
\* proof, for every command line and all limits (envelope.py:57-144,
\* generator.py:132-153 and 189-198, tls13.py:391).
THEOREM StartedIsUsable == Spec => []StartedContextIsUsable
<1>1. IInv => StartedContextIsUsable
  <2> SUFFICES ASSUME IInv PROVE StartedContextIsUsable
    OBVIOUS
  <2>1. Cardinality({}) = 0
    BY FS_EmptySet
  <2>2. Cardinality(opened) > 1 => HasInterval(args)
    BY <2>1 DEF IInv, FoundOut
  <2>3. answer = "proof" => opened # {} /\ good # {}
    BY DEF IInv, FileInv, FoundOut
  <2>4. answer = "proof" => FitsSocket(args) /\ HasInterval(args)
    BY <2>3 DEF IInv, FoundOut
  <2>5. QED
    BY <2>2, <2>4, UsableIsEnough DEF IInv, SetupInv, StartedContextIsUsable
<1>2. QED
  BY AlwaysRight, <1>1, PTL

\* The exit status says what became of the run and of the destination
\* (cli.py:109-150, 227-237).
THEOREM StatusTold == Spec => []StatusIsTrue
<1>1. IInv => StatusIsTrue
  BY DEF IInv
<1>2. QED
  BY AlwaysRight, <1>1, PTL

-----------------------------------------------------------------------------
(* The addresses                                                           *)

\* How often a is in a sequence.
Count(s, a) == Cardinality({i \in 1..Len(s) : s[i] = a})

\* One more at the end counts once, for itself.
LEMMA CountAppend ==
    ASSUME NEW S, NEW s \in Seq(S), NEW x \in S, NEW a
    PROVE  /\ Count(s, a) \in Nat
           /\ Count(Append(s, x), a) = IF x = a THEN Count(s, a) + 1 ELSE Count(s, a)
<1> DEFINE places == {i \in 1..Len(s) : s[i] = a}
           more == {i \in 1..Len(Append(s, x)) : Append(s, x)[i] = a}
<1>1. Len(s) \in Nat /\ Len(Append(s, x)) = Len(s) + 1
  OBVIOUS
<1>2. /\ Append(s, x)[Len(s) + 1] = x
      /\ \A i \in 1..Len(s) : Append(s, x)[i] = s[i]
  OBVIOUS
<1>3. IsFiniteSet(places) /\ Len(s) + 1 \notin places
  <2>1. IsFiniteSet(1..Len(s))
    BY <1>1, FS_Interval
  <2>2. QED
    BY <1>1, <2>1, FS_Subset
<1>4. Cardinality(places) \in Nat
  BY <1>3, FS_CardinalityType
<1>5. CASE x = a
  <2>1. more = places \cup {Len(s) + 1}
    BY <1>1, <1>2, <1>5
  <2>2. Cardinality(places \cup {Len(s) + 1}) = Cardinality(places) + 1
    BY <1>3, FS_AddElement
  <2>3. QED
    BY <1>4, <1>5, <2>1, <2>2 DEF Count
<1>6. CASE x # a
  <2>1. more = places
    BY <1>1, <1>2, <1>6
  <2>2. QED
    BY <1>4, <1>6, <2>1 DEF Count
<1>7. QED
  BY <1>5, <1>6

\* The remainder of what has one on its face.
LEMMA RemainderOf ==
    ASSUME NEW n \in Nat \ {0}, NEW q \in Nat, NEW r \in 0..(n - 1), NEW v, v = n * q + r
    PROVE  v % n = r
  OBVIOUS

\* What resolve_endpoints promises of its answers: all the permitted ones, once
\* each.
Resolved(a, said, found) ==
    /\ found \in Seq(ToSet(said))
    /\ \A i, j \in 1..Len(found) : found[i] = found[j] => i = j
    /\ \A x : (\E i \in 1..Len(found) : found[i] = x) <=> x \in ToSet(said) /\ Permits(a, x)

\* It is kept for every answer of the resolver (generator.py:90-107).
LEMMA ResolveShape ==
    ASSUME NEW a, NEW said, said \in Seq(ToSet(said))
    PROVE  Resolved(a, said, ResolveEndpoints(a, said))
<1> DEFINE V == Seq(ToSet(said))
           n == Len(said)
           Picks(i, s) == Permits(a, said[i]) /\ IsNew(s, said[i])
           step == [i \in 1..n |->
                       [s \in V |-> IF Picks(i, s) THEN Append(s, said[i]) ELSE s]]
           Solves(f) == f = [i \in 0..n |->
                               IF i = 0 THEN <<>>
                               ELSE IF Permits(a, said[i]) /\ IsNew(f[i - 1], said[i])
                                    THEN Append(f[i - 1], said[i]) ELSE f[i - 1]]
<1>1. n \in Nat /\ \A i \in 1..n : said[i] \in ToSet(said)
  BY DEF ToSet
<1>2. <<>> \in V
  OBVIOUS
<1>3. step \in [1..n -> [V -> V]]
  <2>1. ASSUME NEW i \in 1..n, NEW s \in V
        PROVE  (IF Picks(i, s) THEN Append(s, said[i]) ELSE s) \in V
    <3>1. Append(s, said[i]) \in V
      BY <1>1
    <3>2. QED
      BY <3>1
  <2> HIDE DEF V, n, Picks
  <2>2. QED
    BY <2>1
<1>4. PICK f \in [0..n -> V] : f[0] = <<>> /\ \A i \in 1..n : f[i] = step[i][f[i - 1]]
  <2>1. StepsIn(V, n, step)
    BY <1>3 DEF StepsIn
  <2> HIDE DEF V, n, step
  <2>2. \E f : Follows(f, V, <<>>, n, step)
    BY <1>1, <1>2, <2>1, ForwardRecursion
  <2>3. QED
    BY <2>2 DEF Follows
<1>5. Solves(f)
  <2>1. f = [i \in 0..n |-> f[i]]
    BY <1>4
  <2>2. ASSUME NEW i \in 1..n
        PROVE  f[i] = IF Permits(a, said[i]) /\ IsNew(f[i - 1], said[i])
                      THEN Append(f[i - 1], said[i]) ELSE f[i - 1]
    <3>1. i - 1 \in 0..n
      BY <1>1
    <3>2. f[i - 1] \in V
      BY <1>4, <3>1
    <3>3. step[i][f[i - 1]] =
            IF Picks(i, f[i - 1]) THEN Append(f[i - 1], said[i]) ELSE f[i - 1]
      <4> HIDE DEF V, n, Picks
      <4>1. QED
        BY <3>2
    <3>4. f[i] = step[i][f[i - 1]]
      BY <1>4
    <3>5. QED
      BY <3>3, <3>4
  <2> HIDE DEF V, n, step
  <2>3. \A i \in 0..n : i = 0 \/ i \in 1..n
    BY <1>1
  <2>4. QED
    BY <1>4, <2>1, <2>2, <2>3
<1> DEFINE c == CHOOSE g : Solves(g)
<1>6. Solves(c)
  <2>1. \E g : Solves(g)
    BY <1>5
  <2> HIDE DEF Solves
  <2>2. QED
    BY <2>1
<1>7. ResolveEndpoints(a, said) = c[n]
  BY DEF ResolveEndpoints
<1> HIDE DEF c
<1>8. /\ c[0] = <<>>
      /\ \A i \in 1..n : c[i] = IF Picks(i, c[i - 1]) THEN Append(c[i - 1], said[i])
                                ELSE c[i - 1]
  <2>1. 0 \in 0..n /\ \A i \in 1..n : i \in 0..n /\ i # 0
    BY <1>1
  <2>2. \A i \in 0..n : c[i] = IF i = 0 THEN <<>>
                               ELSE IF Permits(a, said[i]) /\ IsNew(c[i - 1], said[i])
                                    THEN Append(c[i - 1], said[i]) ELSE c[i - 1]
    <3> HIDE DEF n
    <3>1. QED
      BY <1>6
  <2>3. QED
    BY <2>1, <2>2
<1> DEFINE Found(s, i) ==
              /\ s \in V
              /\ \A j, k \in 1..Len(s) : s[j] = s[k] => j = k
              /\ \A x : (\E j \in 1..Len(s) : s[j] = x)
                         <=> \E j \in 1..i : said[j] = x /\ Permits(a, x)
           T == {i \in 0..n : Found(c[i], i)}
<1>9. 0 \in T
  <2>1. Found(<<>>, 0)
    OBVIOUS
  <2>2. 0 \in 0..n
    BY <1>1
  <2> HIDE DEF Found, n
  <2>3. QED
    BY <1>8, <2>1, <2>2
<1>10. \A i \in 0..(n - 1) : i \in T => i + 1 \in T
  <2> SUFFICES ASSUME NEW i \in 0..(n - 1), Found(c[i], i)
               PROVE  Found(c[i + 1], i + 1) /\ i + 1 \in 0..n
    <3> HIDE DEF Found
    <3>1. QED
      OBVIOUS
  <2> DEFINE s == c[i]
             x == said[i + 1]
  <2>1. i + 1 \in 1..n /\ (i + 1) - 1 = i /\ i + 1 \in 0..n /\ i \in Nat
    BY <1>1
  <2>2. c[i + 1] = IF Picks(i + 1, s) THEN Append(s, x) ELSE s
    <3> HIDE DEF n, Picks
    <3>1. QED
      BY <1>8, <2>1
  <2>3. x \in ToSet(said)
    BY <1>1, <2>1
  <2>4. s \in V /\ ToSet(s) = {s[j] : j \in 1..Len(s)}
    BY DEF ToSet
  <2>5. Found(c[i + 1], i + 1)
    <3>1. CASE Permits(a, x) /\ x \notin ToSet(s)
      <4>1. c[i + 1] = Append(s, x)
        BY <2>2, <3>1 DEF IsNew
      <4>2. /\ Append(s, x) \in V /\ Len(Append(s, x)) = Len(s) + 1 /\ Len(s) \in Nat
            /\ Append(s, x)[Len(s) + 1] = x
            /\ \A j \in 1..Len(s) : Append(s, x)[j] = s[j]
        BY <2>3, <2>4
      <4>3. \A j \in 1..Len(s) : s[j] # x
        BY <2>4, <3>1
      <4>4. \A j, k \in 1..(Len(s) + 1) : Append(s, x)[j] = Append(s, x)[k] => j = k
        BY <4>2, <4>3
      <4>5. \A y : (\E j \in 1..(Len(s) + 1) : Append(s, x)[j] = y)
                      <=> (y = x \/ \E j \in 1..Len(s) : s[j] = y)
        BY <4>2
      <4>6. \A y : (\E j \in 1..(i + 1) : said[j] = y /\ Permits(a, y))
                      <=> (y = x \/ \E j \in 1..i : said[j] = y /\ Permits(a, y))
        BY <2>1, <3>1
      <4> DEFINE t == Append(s, x)
      <4>7. t \in V /\ \A j, k \in 1..Len(t) : t[j] = t[k] => j = k
        BY <4>2, <4>4
      <4>8. ASSUME NEW y
            PROVE  (\E j \in 1..Len(t) : t[j] = y)
                      <=> \E j \in 1..(i + 1) : said[j] = y /\ Permits(a, y)
        <5>1. (\E j \in 1..Len(t) : t[j] = y) <=> (y = x \/ \E j \in 1..Len(s) : s[j] = y)
          BY <4>2, <4>5
        <5>2. (\E j \in 1..Len(s) : s[j] = y)
                 <=> \E j \in 1..i : said[j] = y /\ Permits(a, y)
          OBVIOUS
        <5>3. (\E j \in 1..(i + 1) : said[j] = y /\ Permits(a, y))
                 <=> (y = x \/ \E j \in 1..i : said[j] = y /\ Permits(a, y))
          BY <4>6
        <5>4. QED
          BY <5>1, <5>2, <5>3
      <4> HIDE DEF t, V
      <4>9. QED
        <5>1. c[i + 1] = t
          BY <4>1 DEF t
        <5>2. QED
          BY <5>1, <4>7, <4>8
    <3>2. CASE ~Permits(a, x) \/ x \in ToSet(s)
      <4>1. c[i + 1] = s
        BY <2>2, <3>2 DEF IsNew
      <4>2. Permits(a, x) => \E j \in 1..i : said[j] = x /\ Permits(a, x)
        BY <2>4, <3>2
      <4>3. \A y : (\E j \in 1..(i + 1) : said[j] = y /\ Permits(a, y))
                      <=> (\E j \in 1..i : said[j] = y /\ Permits(a, y))
        BY <2>1, <4>2
      <4>4. QED
        BY <4>1, <4>3
    <3>3. QED
      BY <3>1, <3>2
  <2>6. QED
    BY <2>1, <2>5
<1>11. Found(c[n], n)
  <2>1. 0 \in Int /\ n \in Int /\ n \in 0..n
    BY <1>1
  <2>2. 0..n \subseteq T
    <3> HIDE DEF T, n
    <3>1. QED
      BY <1>9, <1>10, <2>1, IntervalInduction
  <2> HIDE DEF Found, n
  <2>3. QED
    BY <2>1, <2>2
<1>12. \A x : x \in ToSet(said) <=> \E j \in 1..n : said[j] = x
  BY DEF ToSet
<1>13. QED
  BY <1>7, <1>11, <1>12 DEF Resolved

\* The connections opened so far have gone to the addresses in turns: q rounds,
\* and the first r addresses once more.
InTurns(found, made) ==
    /\ made \in Seq(ToSet(found))
    /\ found # <<>> =>
         \E q \in Nat, r \in 0..(Len(found) - 1) :
            /\ Len(made) = Len(found) * q + r
            /\ \A e \in 1..Len(found) : Count(made, found[e]) = IF e <= r THEN q + 1 ELSE q

\* There is an address whenever a search runs, and each got its share.
SpreadInv ==
    /\ Resolved(args, answers, endpoints)
    /\ InTurns(endpoints, dialed)
    /\ pc \in {"parse", "envelope", "setup"} => dialed = <<>>
    /\ pc = "search" /\ ~delivered => endpoints # <<>>

\* Of nothing comes nothing.
LEMMA NothingResolved == \A a : Resolved(a, <<>>, <<>>)
<1>1. ToSet(<<>>) = {} /\ <<>> \in Seq({}) /\ Len(<<>>) = 0
  BY DEF ToSet
<1>2. QED
  BY <1>1 DEF Resolved

\* Nobody has been called yet.
LEMMA NobodyCalled ==
    ASSUME NEW S, NEW found \in Seq(S)
    PROVE  InTurns(found, <<>>)
<1>1. <<>> \in Seq(ToSet(found)) /\ Len(<<>>) = 0 /\ Len(found) \in Nat
  OBVIOUS
<1>2. \A a : Count(<<>>, a) = 0
  <2> TAKE a
  <2>1. {i \in 1..Len(<<>>) : <<>>[i] = a} = {}
    BY <1>1
  <2>2. QED
    BY <2>1, FS_EmptySet DEF Count
<1>3. ASSUME found # <<>>
      PROVE  \E q \in Nat, r \in 0..(Len(found) - 1) :
                /\ Len(<<>>) = Len(found) * q + r
                /\ \A e \in 1..Len(found) :
                     Count(<<>>, found[e]) = IF e <= r THEN q + 1 ELSE q
  <2>1. Len(found) # 0
    BY <1>3
  <2>2. 0 \in 0..(Len(found) - 1) /\ Len(<<>>) = Len(found) * 0 + 0
    BY <1>1, <2>1
  <2>3. \A e \in 1..Len(found) : Count(<<>>, found[e]) = IF e <= 0 THEN 0 + 1 ELSE 0
    BY <1>2
  <2>4. QED
    BY <2>2, <2>3
<1>4. QED
  BY <1>1, <1>3 DEF InTurns

\* The next connection goes to the address whose turn it is.
LEMMA TurnsGoOn ==
    ASSUME NEW a, NEW said, NEW found, NEW made, Resolved(a, said, found),
           InTurns(found, made), found # <<>>
    PROVE  InTurns(found, Append(made, found[1 + (Len(made) % Len(found))]))
<1> DEFINE n == Len(found)
<1>1. n \in Nat \ {0} /\ found \in Seq(ToSet(said))
  BY DEF Resolved
<1>2. made \in Seq(ToSet(found)) /\ ToSet(found) = {found[e] : e \in 1..n}
  BY <1>1 DEF InTurns, ToSet
<1>3. PICK q \in Nat, r \in 0..(n - 1) :
         /\ Len(made) = n * q + r
         /\ \A e \in 1..n : Count(made, found[e]) = IF e <= r THEN q + 1 ELSE q
  BY DEF InTurns
<1>4. Len(made) % n = r
  <2> HIDE DEF n
  <2>1. QED
    BY <1>1, <1>3, RemainderOf
<1> DEFINE x == found[1 + r]
           more == Append(made, x)
<1>5. 1 + r \in 1..n /\ x \in ToSet(found)
  <2>1. 1 + r \in 1..n
    BY <1>1
  <2>2. QED
    BY <1>2, <2>1
<1>6. more \in Seq(ToSet(found)) /\ Len(more) = Len(made) + 1
  <2> HIDE DEF x
  <2>1. QED
    BY <1>2, <1>5
<1>7. \A e \in 1..n : found[e] = x <=> e = 1 + r
  BY <1>5 DEF Resolved
<1>8. \A e \in 1..n : Count(more, found[e]) =
                      IF e = 1 + r THEN Count(made, found[e]) + 1 ELSE Count(made, found[e])
  <2> TAKE e \in 1..n
  <2>1. Count(more, found[e]) =
          IF x = found[e] THEN Count(made, found[e]) + 1 ELSE Count(made, found[e])
    <3> HIDE DEF x
    <3>1. QED
      BY <1>2, <1>5, CountAppend
  <2>2. x = found[e] <=> e = 1 + r
    BY <1>7
  <2> HIDE DEF x, more
  <2>3. QED
    BY <2>1, <2>2
<1> HIDE DEF x, more, n
<1>9. \A e \in 1..n : Count(more, found[e]) = IF e <= r + 1 THEN q + 1 ELSE q
  <2> TAKE e \in 1..n
  <2>1. Count(made, found[e]) = IF e <= r THEN q + 1 ELSE q
    BY <1>3
  <2>2. Count(more, found[e]) =
          IF e = 1 + r THEN Count(made, found[e]) + 1 ELSE Count(made, found[e])
    BY <1>8
  <2>3. e \in Nat /\ r \in Nat
    BY <1>1
  <2>4. QED
    BY <2>1, <2>2, <2>3
<1>10. \E p \in Nat, t \in 0..(n - 1) :
          /\ Len(more) = n * p + t
          /\ \A e \in 1..n : Count(more, found[e]) = IF e <= t THEN p + 1 ELSE p
  <2>1. CASE r + 1 < n
    <3>1. r + 1 \in 0..(n - 1) /\ Len(more) = n * q + (r + 1)
      BY <1>1, <1>3, <1>6, <2>1
    <3>2. QED
      BY <1>9, <3>1
  <2>2. CASE ~(r + 1 < n)
    <3>1. r + 1 = n
      BY <1>1, <2>2
    <3>2. n * (q + 1) = n * q + n /\ n * q \in Nat
      BY <1>1
    <3>3. 0 \in 0..(n - 1) /\ q + 1 \in Nat /\ Len(more) = n * (q + 1) + 0
      BY <1>1, <1>3, <1>6, <3>1, <3>2
    <3>4. \A e \in 1..n : Count(more, found[e]) = IF e <= 0 THEN (q + 1) + 1 ELSE q + 1
      BY <1>1, <1>9, <3>1
    <3>5. QED
      BY <3>3, <3>4
  <2>3. QED
    BY <2>1, <2>2
<1>11. InTurns(found, more)
  BY <1>6, <1>10 DEF InTurns, n
<1>12. QED
  BY <1>4, <1>11 DEF more, x, n

\* Each step keeps the shares, and they are the ones of the property.
LEMMA SpreadHolds == Spec => []SpreadInv
<1>1. Init => SpreadInv
  <2> SUFFICES ASSUME Init PROVE SpreadInv
    OBVIOUS
  <2>1. answers = <<>> /\ endpoints = <<>> /\ dialed = <<>> /\ pc = "parse"
    BY DEF Init
  <2>2. <<>> \in Seq({})
    OBVIOUS
  <2>3. InTurns(<<>>, <<>>)
    BY <2>2, NobodyCalled
  <2>4. QED
    BY <2>1, <2>3, NothingResolved DEF SpreadInv
<1>2. SpreadInv /\ [Next]_vars => SpreadInv'
  <2> SUFFICES ASSUME SpreadInv, [Next]_vars PROVE SpreadInv'
    OBVIOUS
  <2>1. CASE PrepareSearch
    <3>1. dialed' = <<>> /\ args' = args /\ pc' = "search"
      BY <2>1 DEF PrepareSearch, Continue, SpreadInv
    <3>2. /\ Resolved(args, answers', endpoints')
          /\ ~delivered' => endpoints' # <<>>
      <4>1. CASE UNCHANGED <<answers, endpoints>> /\ Search!Refuse
        BY <4>1 DEF SpreadInv, Search!Refuse
      <4>2. CASE /\ answers' \in DnsAnswers
                 /\ endpoints' = ResolveEndpoints(args, answers')
                 /\ IF endpoints' = <<>> THEN Search!Refuse ELSE UNCHANGED search_vars
        <5>1. answers' \in Seq(ToSet(answers'))
          BY <4>2, DnsAssumption
        <5>2. endpoints' = <<>> => delivered'
          BY <4>2 DEF Search!Refuse
        <5>3. QED
          BY <4>2, <5>1, <5>2, ResolveShape
      <4>3. QED
        BY <2>1, <4>1, <4>2 DEF PrepareSearch
    <3>3. InTurns(endpoints', <<>>)
      <4>1. endpoints' \in Seq(ToSet(answers'))
        BY <3>2 DEF Resolved
      <4>2. QED
        BY <4>1, NobodyCalled
    <3>4. QED
      BY <3>1, <3>2, <3>3 DEF SpreadInv
  <2>2. CASE Searching
    <3>1. /\ pc = "search" /\ ~delivered /\ endpoints # <<>>
          /\ UNCHANGED <<pc, args, answers, endpoints>>
      BY <2>2 DEF Searching, SpreadInv
    <3>2. dialed' = dialed \/ dialed' = Append(dialed, DialNext)
      BY <2>2 DEF Searching
    <3>3. InTurns(endpoints, dialed')
      <4>1. InTurns(endpoints, Append(dialed, DialNext))
        BY <3>1, TurnsGoOn DEF SpreadInv, DialNext
      <4>2. QED
        BY <3>2, <4>1 DEF SpreadInv
    <3>4. QED
      BY <3>1, <3>3 DEF SpreadInv
  <2>3. CASE ~PrepareSearch /\ ~Searching
    <3>1. UNCHANGED setup_vars /\ UNCHANGED delivered
      BY <2>3 DEF Next, Parse, MakeEnvelope, SearchEnds, Write, WriteEnds, PrintReport,
                  Interrupt, Intrude, Over, vars, setup_vars, search_vars
    <3>2. pc' \in {"parse", "envelope", "setup"} => pc \in {"parse", "envelope", "setup"}
      BY <2>3 DEF Next, Parse, MakeEnvelope, SearchEnds, Write, WriteEnds, PrintReport,
                  Interrupt, Intrude, Over, vars, Exit, Continue
    <3>3. pc' = "search" => pc = "search"
      BY <2>3 DEF Next, Parse, MakeEnvelope, SearchEnds, Write, WriteEnds, PrintReport,
                  Interrupt, Intrude, Over, vars, Exit, Continue
    <3>4. QED
      BY <3>1, <3>2, <3>3 DEF SpreadInv, setup_vars
  <2>4. QED
    BY <2>1, <2>2, <2>3
<1>3. QED
  BY <1>1, <1>2, PTL DEF Spec

\* However many addresses there are, whatever the resolver repeats or leaves
\* out and however long the search, connections go to permitted addresses only
\* and to all of them in equal shares (generator.py:90-107, 186-187).
THEOREM ConnectionsSpread == Spec => []ConnectionsAreSpread
<1>1. SpreadInv => ConnectionsAreSpread
  <2> SUFFICES ASSUME SpreadInv PROVE ConnectionsAreSpread
    OBVIOUS
  <2>1. /\ endpoints \in Seq(ToSet(answers)) /\ dialed \in Seq(ToSet(endpoints))
        /\ ToSet(endpoints) = {endpoints[e] : e \in 1..Len(endpoints)}
        /\ DOMAIN dialed = 1..Len(dialed)
    BY DEF SpreadInv, Resolved, InTurns, ToSet
  <2>2. \A i \in DOMAIN dialed : Permits(args, dialed[i])
    <3> TAKE i \in DOMAIN dialed
    <3>1. dialed[i] \in ToSet(endpoints)
      BY <2>1
    <3>2. PICK e \in 1..Len(endpoints) : endpoints[e] = dialed[i]
      BY <2>1, <3>1
    <3>3. QED
      BY <3>2 DEF SpreadInv, Resolved
  <2>3. ASSUME NEW a \in ToSet(answers), NEW b \in ToSet(answers),
               Permits(args, a), Permits(args, b)
        PROVE  DialedTo(a) <= DialedTo(b) + 1
    <3>1. PICK e \in 1..Len(endpoints) : endpoints[e] = a
      BY <2>3 DEF SpreadInv, Resolved
    <3>2. PICK g \in 1..Len(endpoints) : endpoints[g] = b
      BY <2>3 DEF SpreadInv, Resolved
    <3>3. endpoints # <<>>
      BY <3>1
    <3>4. PICK q \in Nat, r \in 0..(Len(endpoints) - 1) :
             \A h \in 1..Len(endpoints) :
                Count(dialed, endpoints[h]) = IF h <= r THEN q + 1 ELSE q
      BY <3>3 DEF SpreadInv, InTurns
    <3>5. Count(dialed, a) \in {q, q + 1} /\ Count(dialed, b) \in {q, q + 1}
      BY <3>1, <3>2, <3>4
    <3>6. DialedTo(a) = Count(dialed, a) /\ DialedTo(b) = Count(dialed, b)
      BY <2>1 DEF DialedTo, Count
    <3>7. QED
      BY <3>5, <3>6
  <2>4. QED
    BY <2>2, <2>3 DEF ConnectionsAreSpread
<1>2. QED
  BY SpreadHolds, <1>1, PTL

=============================================================================
