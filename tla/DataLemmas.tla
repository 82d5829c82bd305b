------------------------------ MODULE DataLemmas -------------------------------
(***************************************************************************)
(* Lemmas about data, which the proofs about the components share.  The    *)
(* induction theorems of the library take a predicate as parameter, which  *)
(* the provers cannot instantiate: here a predicate is the set of numbers  *)
(* it holds of.  From them follow: the recursions the modules write have   *)
(* solutions; how a sequence of sequences is flattened; what the           *)
(* big-endian integers of Python are, that they go into bytes and back,    *)
(* and how they compare; and what slices there are.                        *)
(***************************************************************************)
EXTENDS Bytes, Integers, Sequences, SequencesExt, SequenceTheorems, WellFoundedInduction, TLAPS

\* A set of natural numbers with a member has a least one.
LEMMA LeastNumber ==
  ASSUME NEW T \in SUBSET Nat, T # {}
  PROVE  \E x \in T : \A y \in T : x <= y
<1>1. IsWellFoundedOn(OpToRel(<, Nat), Nat)
  BY NatLessThanWellFounded
<1>2. PICK x \in T : \A y \in T : <<y, x>> \notin OpToRel(<, Nat)
  BY <1>1, WFMin
<1>3. \A y \in T : ~(y < x)
  BY <1>2 DEF OpToRel
<1>4. \A y \in T : x \in Nat /\ y \in Nat
  BY <1>2
<1>5. \A y \in T : x <= y
  BY <1>3, <1>4
<1> QED BY <1>2, <1>5

\* What holds of 0 and passes from each number to the next holds of all.
LEMMA NatSetInduction ==
  ASSUME NEW S, 0 \in S, \A n \in Nat : n \in S => n + 1 \in S
  PROVE  Nat \subseteq S
<1> SUFFICES ASSUME Nat \ S # {} PROVE FALSE
  OBVIOUS
<1>1. PICK x \in Nat \ S : \A y \in Nat \ S : x <= y
  BY LeastNumber
<1>2. x # 0 /\ x - 1 \in Nat /\ x - 1 \notin Nat \ S
  BY <1>1
<1>3. (x - 1) + 1 \in S
  BY <1>2
<1> QED BY <1>1, <1>3

\* The same, from m up to n.
LEMMA IntervalInduction ==
  ASSUME NEW m \in Int, NEW n \in Int, NEW S, m <= n => m \in S,
         \A i \in m..(n - 1) : i \in S => i + 1 \in S
  PROVE  m..n \subseteq S
<1> DEFINE T == {k \in Nat : m + k <= n => m + k \in S}
<1>1. 0 \in T
  OBVIOUS
<1>2. ASSUME NEW k \in Nat, k \in T PROVE k + 1 \in T
  <2> SUFFICES ASSUME m + (k + 1) <= n PROVE m + (k + 1) \in S
    OBVIOUS
  <2>1. m + k \in m..(n - 1) /\ m + k \in S
    BY <1>2
  <2>2. (m + k) + 1 \in S
    BY <2>1
  <2> QED BY <2>2
<1>3. Nat \subseteq T
  <2> HIDE DEF T
  <2> QED BY <1>1, <1>2, NatSetInduction
<1>4. \A i \in m..n : i - m \in Nat /\ m + (i - m) = i
  OBVIOUS
<1> QED BY <1>3, <1>4

-----------------------------------------------------------------------------
(* Recursive functions *)

\* n steps, each from a value in V to one.
StepsIn(V, n, step) == step \in [1..n -> [V -> V]]
\* f takes them one after the other, from z.
Follows(f, V, z, n, step) ==
  f \in [0..n -> V] /\ f[0] = z /\ \A i \in 1..n : f[i] = step[i][f[i - 1]]

\* A recursion that counts up has a solution with values in V if each step has.
LEMMA ForwardRecursion ==
  ASSUME NEW V, NEW z \in V, NEW n \in Nat, NEW step, StepsIn(V, n, step)
  PROVE  \E f : Follows(f, V, z, n, step)
<1>0. step \in [1..n -> [V -> V]]
  BY DEF StepsIn
<1> DEFINE Solves(f, k) == /\ f \in [0..k -> V] /\ f[0] = z
                           /\ \A i \in 1..k : f[i] = step[i][f[i - 1]]
           T == {k \in 0..n : \E f : Solves(f, k)}
<1>1. \E f : Solves(f, 0)
  <2>1. Solves([i \in 0..0 |-> z], 0)
    OBVIOUS
  <2> HIDE DEF Solves
  <2> QED BY <2>1
<1>2. ASSUME NEW k \in 0..(n - 1), NEW f, Solves(f, k) PROVE \E g : Solves(g, k + 1)
  <2> DEFINE x == step[k + 1][f[k]]
             g == [i \in 0..(k + 1) |-> IF i <= k THEN f[i] ELSE x]
  <2>1. f \in [0..k -> V] /\ f[0] = z /\ \A i \in 1..k : f[i] = step[i][f[i - 1]]
    BY <1>2
  <2>2. k \in Nat /\ k \in 0..k /\ k + 1 \in 1..n /\ f[k] \in V
    BY <2>1
  <2>3. x \in V
    BY <1>0, <2>2
  <2>4. g \in [0..(k + 1) -> V]
    <3> HIDE DEF x
    <3> QED BY <2>1, <2>2, <2>3
  <2>5. g[0] = z
    BY <2>1, <2>2
  <2>6. ASSUME NEW i \in 1..(k + 1) PROVE g[i] = step[i][g[i - 1]]
    <3>1. i - 1 \in 0..(k + 1) /\ i - 1 <= k /\ g[i - 1] = f[i - 1]
      BY <2>2
    <3>2. CASE i <= k
      <4>1. i \in 1..k /\ g[i] = f[i]
        BY <3>2
      <4> QED BY <2>1, <3>1, <4>1
    <3>3. CASE ~(i <= k)
      <4>1. i = k + 1 /\ i - 1 = k
        BY <2>2, <3>3
      <4>2. g[i] = x
        BY <3>3
      <4> QED BY <3>1, <4>1, <4>2
    <3> QED BY <3>2, <3>3
  <2>7. Solves(g, k + 1)
    <3> HIDE DEF g
    <3> QED BY <2>4, <2>5, <2>6
  <2> HIDE DEF Solves, g
  <2> QED BY <2>7
<1>3. 0..n \subseteq T
  <2> HIDE DEF Solves
  <2>1. 0 \in T
    BY <1>1
  <2>2. \A k \in 0..(n - 1) : k \in T => k + 1 \in T
    BY <1>2
  <2>3. 0 \in Int /\ n \in Int
    OBVIOUS
  <2> HIDE DEF T
  <2> QED BY <2>1, <2>2, <2>3, IntervalInduction
<1>4. \E f : Solves(f, n)
  <2> HIDE DEF Solves
  <2>1. n \in 0..n
    OBVIOUS
  <2> QED BY <2>1, <1>3
<1> QED BY <1>4 DEF Follows

\* A walk from position p in 0..n to a later one, next[p], until it stops.
WalksIn(n, Stop, next) ==
  Stop \subseteq 0..n /\ \A p \in (0..n) \ Stop : next[p] \in (p + 1)..n
\* f has the items met on the way, in front of what there is where it stops.
Walked(f, n, Stop, base, item, next) ==
  f = [p \in 0..n |-> IF p \in Stop THEN base[p] ELSE <<item[p]>> \o f[next[p]]]

\* The recursion of a walk has a solution.
LEMMA WalkRecursion ==
  ASSUME NEW n \in Nat, NEW Stop, NEW base, NEW item, NEW next, WalksIn(n, Stop, next)
  PROVE  \E f : Walked(f, n, Stop, base, item, next)
<1>0. Stop \subseteq 0..n /\ \A p \in (0..n) \ Stop : next[p] \in (p + 1)..n
  BY DEF WalksIn
<1> DEFINE Solves(f, m) ==
              f = [p \in m..n |-> IF p \in Stop THEN base[p] ELSE <<item[p]>> \o f[next[p]]]
           T == {k \in 0..n : \E f : Solves(f, n - k)}
<1>1. \E f : Solves(f, n)
  <2>1. n \in Stop
    BY <1>0
  <2>2. Solves([p \in n..n |-> base[p]], n)
    BY <2>1
  <2> HIDE DEF Solves
  <2> QED BY <2>2
<1>2. ASSUME NEW m \in 0..(n - 1), NEW f, Solves(f, m + 1) PROVE \E g : Solves(g, m)
  <2> DEFINE x == IF m \in Stop THEN base[m] ELSE <<item[m]>> \o f[next[m]]
             g == [p \in m..n |-> IF p = m THEN x ELSE f[p]]
  <2>1. ASSUME NEW p \in m..n
        PROVE  g[p] = IF p \in Stop THEN base[p] ELSE <<item[p]>> \o g[next[p]]
    <3>1. p \in 0..n /\ m \in 0..n
      OBVIOUS
    <3>2. p \notin Stop => next[p] \in m..n /\ next[p] # m /\ g[next[p]] = f[next[p]]
      <4> SUFFICES ASSUME p \notin Stop PROVE next[p] \in m..n /\ next[p] # m
        OBVIOUS
      <4>1. next[p] \in (p + 1)..n
        BY <1>0, <3>1
      <4> QED BY <4>1
    <3>3. CASE p = m
      BY <3>2, <3>3
    <3>4. CASE p # m
      <4>1. p \in (m + 1)..n
        BY <3>4
      <4>2. f[p] = IF p \in Stop THEN base[p] ELSE <<item[p]>> \o f[next[p]]
        BY <1>2, <4>1
      <4>3. g[p] = f[p]
        BY <3>4
      <4> HIDE DEF g
      <4> QED BY <3>2, <4>2, <4>3
    <3> QED BY <3>3, <3>4
  <2>2. g = [p \in m..n |-> IF p \in Stop THEN base[p] ELSE <<item[p]>> \o g[next[p]]]
    BY <2>1
  <2>3. Solves(g, m)
    BY <2>2
  <2> HIDE DEF g, Solves
  <2> QED BY <2>3
<1>3. 0..n \subseteq T
  <2> HIDE DEF Solves
  <2>1. 0 \in T
    <3>1. n - 0 = n /\ 0 \in 0..n
      OBVIOUS
    <3> QED BY <1>1, <3>1
  <2>2. ASSUME NEW k \in 0..(n - 1), k \in T PROVE k + 1 \in T
    <3>1. n - (k + 1) \in 0..(n - 1) /\ (n - (k + 1)) + 1 = n - k /\ k + 1 \in 0..n
      OBVIOUS
    <3>2. \E f : Solves(f, n - k)
      BY <2>2
    <3>3. \E g : Solves(g, n - (k + 1))
      BY <1>2, <3>1, <3>2
    <3> QED BY <3>1, <3>3
  <2>3. 0 \in Int /\ n \in Int
    OBVIOUS
  <2> HIDE DEF T
  <2> QED BY <2>1, <2>2, <2>3, IntervalInduction
<1>4. \E f : Solves(f, 0)
  <2> HIDE DEF Solves
  <2>1. n \in 0..n /\ n - n = 0
    OBVIOUS
  <2>2. \E f : Solves(f, n - n)
    BY <2>1, <1>3
  <2> QED BY <2>1, <2>2
<1> QED BY <1>4 DEF Walked

-----------------------------------------------------------------------------
(* Flattening a sequence of sequences *)

\* The recursion of FlattenSeq has a solution, for a sequence of any length.
LEMMA FlattenRecursion ==
  ASSUME NEW s, NEW n \in Nat
  PROVE  \E f : f = [i \in 1..n |-> IF i = 1 THEN s[i] ELSE f[i - 1] \o s[i]]
<1> DEFINE Solves(f, k) == f = [i \in 1..k |-> IF i = 1 THEN s[i] ELSE f[i - 1] \o s[i]]
           T == {k \in Nat : \E f : Solves(f, k)}
<1>1. 0 \in T
  <2>1. Solves([i \in 1..0 |-> s[i]], 0)
    OBVIOUS
  <2> QED BY <2>1
<1>2. ASSUME NEW k \in Nat, k \in T PROVE k + 1 \in T
  <2>1. PICK f : Solves(f, k)
    BY <1>2
  <2> DEFINE g == [i \in 1..(k + 1) |->
                      IF i <= k THEN f[i] ELSE IF i = 1 THEN s[i] ELSE f[i - 1] \o s[i]]
  <2>2. \A i \in 1..(k + 1) : g[i] = IF i = 1 THEN s[i] ELSE g[i - 1] \o s[i]
    <3> SUFFICES ASSUME NEW i \in 1..(k + 1)
                 PROVE  g[i] = IF i = 1 THEN s[i] ELSE g[i - 1] \o s[i]
      OBVIOUS
    <3>1. i # 1 => i - 1 \in 1..(k + 1) /\ i - 1 <= k /\ g[i - 1] = f[i - 1]
      OBVIOUS
    <3>2. CASE i <= k
      <4>1. i \in 1..k
        BY <3>2
      <4>2. f[i] = IF i = 1 THEN s[i] ELSE f[i - 1] \o s[i]
        BY <4>1, <2>1
      <4> QED BY <3>1, <3>2, <4>2
    <3>3. CASE ~(i <= k)
      BY <3>1, <3>3
    <3> QED BY <3>2, <3>3
  <2>3. Solves(g, k + 1)
    BY <2>2
  <2>4. \E h : Solves(h, k + 1)
    <3> HIDE DEF g, Solves
    <3> QED BY <2>3
  <2>5. k + 1 \in Nat
    OBVIOUS
  <2> HIDE DEF Solves
  <2> QED BY <2>4, <2>5
<1>3. n \in T
  <2> HIDE DEF T
  <2> QED BY <1>1, <1>2, NatSetInduction
<1> QED BY <1>3

\* FlattenSeq takes the last value of the solution.
LEMMA FlattenBySteps ==
  ASSUME NEW s, Len(s) \in Nat \ {0}
  PROVE  \E f : /\ f = [i \in 1..Len(s) |-> IF i = 1 THEN s[i] ELSE f[i - 1] \o s[i]]
                /\ FlattenSeq(s) = f[Len(s)]
<1> DEFINE f == CHOOSE g : g = [i \in 1..Len(s) |-> IF i = 1 THEN s[i] ELSE g[i - 1] \o s[i]]
<1>1. \E g : g = [i \in 1..Len(s) |-> IF i = 1 THEN s[i] ELSE g[i - 1] \o s[i]]
  BY FlattenRecursion
<1>2. f = [i \in 1..Len(s) |-> IF i = 1 THEN s[i] ELSE f[i - 1] \o s[i]]
  BY <1>1
<1>3. FlattenSeq(s) = f[Len(s)]
  BY DEF FlattenSeq
<1> QED BY <1>2, <1>3

\* A function on 1..n with values in S is a sequence of length n.
LEMMA FunctionIsSequence ==
  ASSUME NEW S, NEW n \in Nat, NEW f \in [1..n -> S]
  PROVE  f \in Seq(S) /\ Len(f) = n
  OBVIOUS

\* Where the elements of two sequences are in their concatenation.
LEMMA ConcatShape ==
  ASSUME NEW S, NEW s \in Seq(S), NEW t \in Seq(S)
  PROVE  /\ s \o t \in Seq(S)
         /\ Len(s \o t) = Len(s) + Len(t)
         /\ \A p \in 1..Len(s) : (s \o t)[p] = s[p]
         /\ \A j \in 1..Len(t) : (s \o t)[Len(s) + j] = t[j]
  OBVIOUS

\* The n elements of a sequence after its first a ones.
LEMMA PieceShape ==
  ASSUME NEW S, NEW s \in Seq(S), NEW a \in Nat, NEW n \in Nat, a + n <= Len(s)
  PROVE  /\ SubSeq(s, a + 1, a + n) \in Seq(S)
         /\ Len(SubSeq(s, a + 1, a + n)) = n
         /\ \A j \in 1..n : SubSeq(s, a + 1, a + n)[j] = s[a + j]
  OBVIOUS

\* The first k elements of m, flattened.
FlatPrefix(m, k) == FlattenSeq([i \in 1..k |-> m[i]])

\* Flattening nothing gives nothing.
LEMMA FlatPrefixEmpty ==
  ASSUME NEW m
  PROVE  FlatPrefix(m, 0) = <<>>
<1>1. [i \in 1..0 |-> m[i]] = <<>>
  OBVIOUS
<1> QED BY <1>1 DEF FlatPrefix, FlattenSeq

\* Flattening one element more appends it.
LEMMA FlatPrefixNext ==
  ASSUME NEW S, NEW m, NEW k \in Nat, \A i \in 1..(k + 1) : m[i] \in Seq(S)
  PROVE  /\ FlatPrefix(m, k) \in Seq(S)
         /\ FlatPrefix(m, k + 1) = FlatPrefix(m, k) \o m[k + 1]
<1> DEFINE s(j) == [i \in 1..j |-> m[i]]
<1>1. \A j \in 0..(k + 1) : s(j) \in Seq(Seq(S)) /\ Len(s(j)) = j
  <2> SUFFICES ASSUME NEW j \in 0..(k + 1)
               PROVE  s(j) \in Seq(Seq(S)) /\ Len(s(j)) = j
    OBVIOUS
  <2>1. s(j) \in [1..j -> Seq(S)]
    OBVIOUS
  <2> QED BY <2>1, FunctionIsSequence
<1>2. k + 1 \in Nat \ {0} /\ Len(s(k + 1)) = k + 1
  BY <1>1
<1>3. PICK g : /\ g = [i \in 1..(k + 1) |-> IF i = 1 THEN m[i] ELSE g[i - 1] \o m[i]]
               /\ FlatPrefix(m, k + 1) = g[k + 1]
  <2>1. PICK g : /\ g = [i \in 1..(k + 1) |->
                            IF i = 1 THEN s(k + 1)[i] ELSE g[i - 1] \o s(k + 1)[i]]
                 /\ FlattenSeq(s(k + 1)) = g[k + 1]
    <3> HIDE DEF s
    <3> QED BY <1>2, FlattenBySteps
  <2>2. \A i \in 1..(k + 1) : s(k + 1)[i] = m[i]
    OBVIOUS
  <2>3. g = [i \in 1..(k + 1) |-> IF i = 1 THEN m[i] ELSE g[i - 1] \o m[i]]
    <3> HIDE DEF s
    <3> QED BY <2>1, <2>2
  <2>4. FlatPrefix(m, k + 1) = g[k + 1]
    BY <2>1 DEF FlatPrefix
  <2> QED BY <2>3, <2>4
<1>4. CASE k = 0
  <2>1. FlatPrefix(m, k) = <<>>
    BY <1>4, FlatPrefixEmpty
  <2>2. g[1] = m[1] /\ m[1] \in Seq(S)
    BY <1>3, <1>4
  <2>3. <<>> \o m[1] = m[1]
    BY <2>2
  <2> QED BY <2>1, <2>2, <2>3, <1>3, <1>4
<1>5. CASE k # 0
  <2>1. k \in Nat \ {0} /\ Len(s(k)) = k
    BY <1>1, <1>5
  <2>2. PICK f : /\ f = [i \in 1..k |-> IF i = 1 THEN m[i] ELSE f[i - 1] \o m[i]]
                 /\ FlatPrefix(m, k) = f[k]
    <3>1. PICK f : /\ f = [i \in 1..k |-> IF i = 1 THEN s(k)[i] ELSE f[i - 1] \o s(k)[i]]
                   /\ FlattenSeq(s(k)) = f[k]
      <4> HIDE DEF s
      <4> QED BY <2>1, FlattenBySteps
    <3>2. \A i \in 1..k : s(k)[i] = m[i]
      OBVIOUS
    <3>3. f = [i \in 1..k |-> IF i = 1 THEN m[i] ELSE f[i - 1] \o m[i]]
      <4> HIDE DEF s
      <4> QED BY <3>1, <3>2
    <3>4. FlatPrefix(m, k) = f[k]
      BY <3>1 DEF FlatPrefix
    <3> QED BY <3>3, <3>4
  <2> DEFINE T == {i \in 1..k : f[i] = g[i] /\ f[i] \in Seq(S)}
  <2>3. 1 \in T
    <3>1. 1 \in 1..k /\ 1 \in 1..(k + 1)
      BY <2>1
    <3>2. f[1] = m[1] /\ g[1] = m[1]
      BY <3>1, <2>2, <1>3
    <3> QED BY <3>1, <3>2
  <2>4. ASSUME NEW i \in 1..(k - 1), i \in T PROVE i + 1 \in T
    <3>1. i + 1 \in 1..k /\ i + 1 \in 1..(k + 1) /\ i + 1 # 1 /\ (i + 1) - 1 = i
      BY <2>1
    <3>2. f[i + 1] = f[i] \o m[i + 1]
      BY <3>1, <2>2
    <3>3. g[i + 1] = g[i] \o m[i + 1]
      BY <3>1, <1>3
    <3>4. f[i] = g[i] /\ f[i] \in Seq(S) /\ m[i + 1] \in Seq(S)
      BY <2>4, <3>1
    <3>5. f[i + 1] = g[i + 1] /\ f[i + 1] \in Seq(S)
      BY <3>2, <3>3, <3>4
    <3> QED BY <3>1, <3>5
  <2>5. k \in T
    <3>1. 1 \in Int /\ k \in Int /\ k \in 1..k
      BY <2>1
    <3> HIDE DEF T
    <3>2. 1..k \subseteq T
      BY <2>3, <2>4, <3>1, IntervalInduction
    <3> QED BY <3>1, <3>2
  <2>6. k + 1 \in 1..(k + 1) /\ k + 1 # 1 /\ (k + 1) - 1 = k
    BY <2>1
  <2>7. g[k + 1] = g[k] \o m[k + 1]
    BY <2>6, <1>3
  <2> QED BY <2>2, <2>5, <2>7, <1>3
<1> QED BY <1>4, <1>5

\* Concatenation is associative.
LEMMA ConcatTwice ==
  ASSUME NEW S, NEW x \in Seq(S), NEW y \in Seq(S), NEW z \in Seq(S)
  PROVE  (x \o y) \o z = x \o (y \o z)
  BY ConcatAssociative

\* Flattening takes the first piece, and then the others.
LEMMA FlattenCons ==
  ASSUME NEW S, NEW x \in Seq(S), NEW s \in Seq(Seq(S))
  PROVE  /\ FlattenSeq(<<x>> \o s) = x \o FlattenSeq(s)
         /\ FlattenSeq(s) \in Seq(S)
<1> DEFINE m == <<x>> \o s
           n == Len(s)
           T == {k \in 0..n : /\ FlatPrefix(m, k + 1) = x \o FlatPrefix(s, k)
                              /\ FlatPrefix(s, k) \in Seq(S)}
<1>1. n \in Nat /\ m \in Seq(Seq(S)) /\ Len(m) = n + 1
  OBVIOUS
<1>2. m[1] = x /\ \A i \in 1..n : m[i + 1] = s[i] /\ s[i] \in Seq(S)
  OBVIOUS
<1>3. \A i \in 1..(n + 1) : m[i] \in Seq(S)
  BY <1>1
<1> HIDE DEF m
<1>4. 0 \in T
  <2>1. FlatPrefix(m, 0) = <<>> /\ FlatPrefix(s, 0) = <<>>
    BY FlatPrefixEmpty
  <2>2. FlatPrefix(m, 0 + 1) = FlatPrefix(m, 0) \o m[0 + 1]
    <3>1. \A i \in 1..(0 + 1) : m[i] \in Seq(S)
      BY <1>1, <1>3
    <3>2. PICK z : z = 0
      OBVIOUS
    <3>3. z \in Nat /\ \A i \in 1..(z + 1) : m[i] \in Seq(S)
      BY <3>1, <3>2
    <3>4. FlatPrefix(m, z + 1) = FlatPrefix(m, z) \o m[z + 1]
      BY <3>3, FlatPrefixNext
    <3> QED BY <3>2, <3>4
  <2>3. FlatPrefix(m, 0 + 1) = x
    <3>1. m[0 + 1] = x /\ <<>> \o x = x
      BY <1>2
    <3> QED BY <2>1, <2>2, <3>1
  <2>4. x \o <<>> = x /\ <<>> \in Seq(S) /\ 0 \in 0..n
    BY <1>1
  <2> QED BY <2>1, <2>3, <2>4
<1>5. \A k \in 0..(n - 1) : k \in T => k + 1 \in T
  <2> SUFFICES ASSUME NEW k \in 0..(n - 1), k \in T PROVE k + 1 \in T
    OBVIOUS
  <2>1. PICK j : j = k + 1
    OBVIOUS
  <2>2. j \in 0..n /\ j \in 1..n /\ j \in Nat /\ k \in Nat
    BY <1>1, <2>1
  <2>3. FlatPrefix(m, j + 1) = FlatPrefix(m, j) \o m[j + 1]
    <3>1. \A i \in 1..(j + 1) : m[i] \in Seq(S)
      <4>1. \A i \in 1..(j + 1) : i \in 1..(n + 1)
        BY <1>1, <2>2
      <4> QED BY <1>3, <4>1
    <3> QED BY <2>2, <3>1, FlatPrefixNext
  <2>4. FlatPrefix(s, k + 1) = FlatPrefix(s, k) \o s[k + 1]
    <3>1. \A i \in 1..(k + 1) : s[i] \in Seq(S)
      BY <1>1, <1>2, <2>1, <2>2
    <3> HIDE DEF n
    <3> QED BY <2>2, <3>1, FlatPrefixNext
  <2>5. FlatPrefix(m, k + 1) = x \o FlatPrefix(s, k) /\ FlatPrefix(s, k) \in Seq(S)
    OBVIOUS
  <2>6. m[j + 1] = s[j] /\ s[j] \in Seq(S)
    BY <1>2, <2>2
  <2>7. PICK f, y : f = FlatPrefix(s, k) /\ y = s[j]
    OBVIOUS
  <2>8. f \in Seq(S) /\ y \in Seq(S)
    BY <2>5, <2>6, <2>7
  <2>9. (x \o f) \o y = x \o (f \o y) /\ f \o y \in Seq(S)
    <3>1. (x \o f) \o y = x \o (f \o y)
      BY ONLY <2>8, x \in Seq(S), ConcatTwice, SMTT(30)
    <3>2. f \o y \in Seq(S)
      BY <2>8
    <3> QED BY <3>1, <3>2
  <2> QED BY <2>1, <2>2, <2>3, <2>4, <2>5, <2>6, <2>7, <2>9
<1>6. 0..n \subseteq T
  <2>1. 0 \in Int /\ n \in Int
    BY <1>1
  <2> HIDE DEF T, n
  <2> QED BY <1>4, <1>5, <2>1, IntervalInduction
<1>7. n \in T
  <2>1. n \in 0..n
    BY <1>1
  <2> HIDE DEF T, n
  <2> QED BY <1>6, <2>1
<1>8. FlatPrefix(m, n + 1) = FlattenSeq(m) /\ FlatPrefix(s, n) = FlattenSeq(s)
  <2>1. [i \in 1..(n + 1) |-> m[i]] = m /\ [i \in 1..n |-> s[i]] = s
    BY <1>1
  <2> QED BY <2>1 DEF FlatPrefix
<1> QED BY <1>7, <1>8 DEF m

-----------------------------------------------------------------------------
(* Byte strings *)

Byte == 0..(Base - 1)

-----------------------------------------------------------------------------
(* Arithmetic *)

\* Quotient and remainder of what has them on its face.
LEMMA QuotientOf ==
  ASSUME NEW b \in Nat \ {0}, NEW v \in Nat, NEW d \in 0..(b - 1)
  PROVE  (b * v + d) \div b = v /\ (b * v + d) % b = d
  OBVIOUS

\* Every number has a quotient and a remainder.
LEMMA QuotientExists ==
  ASSUME NEW b \in Nat \ {0}, NEW v \in Nat
  PROVE  /\ v \div b \in Nat /\ v % b \in 0..(b - 1)
         /\ v = b * (v \div b) + (v % b)
  OBVIOUS

\* A smaller quotient makes a smaller number.
LEMMA QuotientLess ==
  ASSUME NEW b \in Nat \ {0}, NEW q \in Nat, NEW p \in Nat, q <= p,
         NEW d \in 0..(b - 1), NEW e \in 0..(b - 1), q = p => d <= e
  PROVE  b * q + d <= b * p + e
<1>1. CASE q = p
  BY <1>1
<1>2. CASE q < p
  <2>1. b * q + b <= b * p
    BY <1>2
  <2>2. b * q \in Nat /\ b * p \in Nat
    OBVIOUS
  <2> QED BY <2>1, <2>2
<1> QED BY <1>1, <1>2

-----------------------------------------------------------------------------
(* Number *)

\* The value of a byte string, byte by byte from the left.
LEMMA NumberShape ==
  ASSUME NEW b \in Seq(Byte)
  PROVE  \E v \in [0..Len(b) -> Nat] :
            /\ v[0] = 0
            /\ \A i \in 1..Len(b) : v[i] = Base * v[i - 1] + b[i]
            /\ Number(b) = v[Len(b)]
<1> DEFINE n == Len(b)
           step == [i \in 1..n |-> [x \in Nat |-> Base * x + b[i]]]
           Solves(f) == f = [i \in 0..n |-> IF i = 0 THEN 0 ELSE Base * f[i - 1] + b[i]]
<1>1. n \in Nat /\ Base \in Nat /\ \A i \in 1..n : b[i] \in Nat
  BY BaseAssumption DEF Byte
<1>2. \A x \in Nat : \A i \in 1..n : Base * x + b[i] \in Nat
  <2> HIDE DEF n
  <2> QED BY <1>1
<1>3. step \in [1..n -> [Nat -> Nat]]
  <2> HIDE DEF n
  <2> QED BY <1>2
<1>4. PICK f \in [0..n -> Nat] : f[0] = 0 /\ \A i \in 1..n : f[i] = step[i][f[i - 1]]
  <2>1. StepsIn(Nat, n, step) /\ 0 \in Nat
    BY <1>3 DEF StepsIn
  <2> HIDE DEF n, step
  <2>2. \E f : Follows(f, Nat, 0, n, step)
    BY <1>1, <2>1, ForwardRecursion
  <2> QED BY <2>2 DEF Follows
<1>5. \A i \in 1..n : f[i - 1] \in Nat /\ f[i] = Base * f[i - 1] + b[i]
  <2> TAKE i \in 1..n
  <2>1. i - 1 \in 0..n
    BY <1>1
  <2>2. f[i - 1] \in Nat
    BY <1>4, <2>1
  <2>3. step[i][f[i - 1]] = Base * f[i - 1] + b[i]
    <3> HIDE DEF n
    <3> QED BY <2>2
  <2> HIDE DEF step
  <2> QED BY <1>4, <2>2, <2>3
<1>6. Solves(f)
  <2> HIDE DEF n, step
  <2>1. f = [i \in 0..n |-> f[i]]
    BY <1>4
  <2>2. \A i \in 0..n : f[i] = IF i = 0 THEN 0 ELSE Base * f[i - 1] + b[i]
    BY <1>1, <1>4, <1>5
  <2> QED BY <2>1, <2>2
<1> DEFINE c == CHOOSE g : Solves(g)
<1>7. Solves(c)
  <2>1. \E g : Solves(g)
    BY <1>6
  <2> HIDE DEF Solves
  <2> QED BY <2>1
<1>8. Number(b) = c[n]
  BY DEF Number
<1> HIDE DEF c
<1>9. \A i \in 0..n : c[i] = IF i = 0 THEN 0 ELSE Base * c[i - 1] + b[i]
  <2> HIDE DEF n
  <2> QED BY <1>7
<1> DEFINE T == {i \in 0..n : c[i] = f[i]}
<1>10. 0..n \subseteq T
  <2>1. 0 \in T
    <3>1. 0 \in 0..n
      BY <1>1
    <3>2. c[0] = 0
      BY <1>9, <3>1
    <3> QED BY <1>4, <3>1, <3>2
  <2>2. \A i \in 0..(n - 1) : i \in T => i + 1 \in T
    <3> SUFFICES ASSUME NEW i \in 0..(n - 1), i \in T PROVE i + 1 \in T
      OBVIOUS
    <3>1. i + 1 \in 0..n /\ i + 1 \in 1..n /\ (i + 1) - 1 = i /\ i + 1 # 0
      BY <1>1
    <3>2. c[i] = f[i]
      OBVIOUS
    <3>3. c[i + 1] = Base * c[i] + b[i + 1]
      BY <1>9, <3>1
    <3>4. f[i + 1] = Base * f[i] + b[i + 1]
      BY <1>5, <3>1
    <3> QED BY <3>1, <3>2, <3>3, <3>4
  <2>3. 0 \in Int /\ n \in Int
    BY <1>1
  <2> HIDE DEF T, n
  <2> QED BY <2>1, <2>2, <2>3, IntervalInduction
<1>11. Number(b) = f[n]
  BY <1>1, <1>8, <1>10
<1> QED BY <1>4, <1>5, <1>11

\* w holds the values of the first bytes of b, of none up to n of them.
Values(b, n, w) ==
  /\ w \in [0..n -> Nat]
  /\ \A i \in 1..n : b[i] \in Byte /\ w[i] = Base * w[i - 1] + b[i]

\* The values of a byte string end in its own.
LEMMA NumberValues ==
  ASSUME NEW b \in Seq(Byte)
  PROVE  \E w : Values(b, Len(b), w) /\ w[0] = 0 /\ Number(b) = w[Len(b)]
<1>1. PICK v \in [0..Len(b) -> Nat] :
         /\ v[0] = 0
         /\ \A i \in 1..Len(b) : v[i] = Base * v[i - 1] + b[i]
         /\ Number(b) = v[Len(b)]
  BY NumberShape
<1>2. \A i \in 1..Len(b) : b[i] \in Byte
  OBVIOUS
<1>3. Values(b, Len(b), v)
  BY <1>1, <1>2 DEF Values
<1> QED BY <1>1, <1>3

\* It is a number.
LEMMA NumberIsNat ==
  ASSUME NEW b \in Seq(Byte)
  PROVE  Number(b) \in Nat
<1>1. PICK v \in [0..Len(b) -> Nat] : Number(b) = v[Len(b)]
  BY NumberShape
<1>2. Len(b) \in 0..Len(b)
  OBVIOUS
<1> QED BY <1>1, <1>2

\* Greater bytes make no smaller number.
LEMMA NumberMonotone ==
  ASSUME NEW a \in Seq(Byte), NEW b \in Seq(Byte), Len(a) = Len(b),
         \A i \in 1..Len(a) : a[i] <= b[i]
  PROVE  Number(a) <= Number(b)
<1> DEFINE n == Len(a)
<1>1. n \in Nat /\ Base \in Nat \ {0} /\ Len(b) = n
  BY BaseAssumption
<1>2. PICK v \in [0..n -> Nat] :
         v[0] = 0 /\ (\A i \in 1..n : v[i] = Base * v[i - 1] + a[i]) /\ Number(a) = v[n]
  BY NumberShape
<1>3. PICK w \in [0..n -> Nat] :
         w[0] = 0 /\ (\A i \in 1..n : w[i] = Base * w[i - 1] + b[i]) /\ Number(b) = w[n]
  <2> HIDE DEF n
  <2> QED BY <1>1, NumberShape
<1>4. \A i \in 1..n : a[i] \in Byte /\ b[i] \in Byte /\ a[i] <= b[i]
  BY <1>1
<1> HIDE DEF n
<1> DEFINE T == {i \in 0..n : v[i] <= w[i]}
<1>5. 0 \in T
  BY <1>1, <1>2, <1>3
<1>6. \A i \in 0..(n - 1) : i \in T => i + 1 \in T
  <2> SUFFICES ASSUME NEW i \in 0..(n - 1), i \in T PROVE i + 1 \in T
    OBVIOUS
  <2>1. i + 1 \in 0..n /\ i + 1 \in 1..n /\ (i + 1) - 1 = i /\ i \in 0..n
    BY <1>1
  <2>2. v[i] \in Nat /\ w[i] \in Nat /\ v[i] <= w[i]
    BY <2>1, <1>2, <1>3
  <2>3. v[i + 1] = Base * v[i] + a[i + 1] /\ w[i + 1] = Base * w[i] + b[i + 1]
    BY <2>1, <1>2, <1>3
  <2>4. a[i + 1] \in 0..(Base - 1) /\ b[i + 1] \in 0..(Base - 1) /\ a[i + 1] <= b[i + 1]
    BY <2>1, <1>4 DEF Byte
  <2>5. Base * v[i] + a[i + 1] <= Base * w[i] + b[i + 1]
    BY <2>2, <2>4, <1>1, QuotientLess
  <2> QED BY <2>1, <2>3, <2>5
<1>7. 0 \in Int /\ n \in Int /\ n \in 0..n
  BY <1>1
<1>8. 0..n \subseteq T
  <2> HIDE DEF T
  <2> QED BY <1>5, <1>6, <1>7, IntervalInduction
<1> QED BY <1>2, <1>3, <1>7, <1>8

-----------------------------------------------------------------------------
(* Digits *)

\* rest holds what is left of n after each of width divisions.
Quotients(width, n, rest) ==
  /\ rest \in [0..width -> Nat]
  /\ rest[0] = n
  /\ \A k \in 1..width : rest[k] = rest[k - 1] \div Base
  /\ Digits(width, n) = [i \in 1..width |-> rest[width - i] % Base]

\* The bytes of a number are its remainders, from the right.
LEMMA DigitsShape ==
  ASSUME NEW width \in Nat, NEW n \in Nat
  PROVE  /\ \E rest : Quotients(width, n, rest)
         /\ Digits(width, n) \in Seq(Byte)
         /\ Len(Digits(width, n)) = width
<1> DEFINE step == [i \in 1..width |-> [x \in Nat |-> x \div Base]]
           Solves(f) == f = [k \in 0..width |-> IF k = 0 THEN n ELSE f[k - 1] \div Base]
<1>1. Base \in Nat \ {0}
  BY BaseAssumption
<1>2. \A x \in Nat : x \div Base \in Nat
  BY <1>1, QuotientExists
<1>3. step \in [1..width -> [Nat -> Nat]]
  BY <1>2
<1>4. PICK f \in [0..width -> Nat] : f[0] = n /\ \A i \in 1..width : f[i] = step[i][f[i - 1]]
  <2>1. StepsIn(Nat, width, step)
    BY <1>3 DEF StepsIn
  <2> HIDE DEF step
  <2>2. \E f : Follows(f, Nat, n, width, step)
    BY <2>1, ForwardRecursion
  <2> QED BY <2>2 DEF Follows
<1>5. \A i \in 1..width : f[i] = f[i - 1] \div Base
  <2> TAKE i \in 1..width
  <2>1. i - 1 \in 0..width
    OBVIOUS
  <2>2. f[i - 1] \in Nat
    BY <1>4, <2>1
  <2>3. step[i][f[i - 1]] = f[i - 1] \div Base
    BY <2>2
  <2> HIDE DEF step
  <2> QED BY <1>4, <2>3
<1>6. Solves(f)
  <2> HIDE DEF step
  <2>1. f = [i \in 0..width |-> f[i]]
    BY <1>4
  <2>2. \A i \in 0..width : f[i] = IF i = 0 THEN n ELSE f[i - 1] \div Base
    BY <1>4, <1>5
  <2> QED BY <2>1, <2>2
<1> DEFINE c == CHOOSE g : Solves(g)
<1>7. Solves(c)
  <2>1. \E g : Solves(g)
    BY <1>6
  <2> HIDE DEF Solves
  <2> QED BY <2>1
<1>8. Digits(width, n) = [i \in 1..width |-> c[width - i] % Base]
  BY DEF Digits
<1> HIDE DEF c
<1>9. \A i \in 0..width : c[i] = IF i = 0 THEN n ELSE c[i - 1] \div Base
  BY <1>7
<1> DEFINE T == {i \in 0..width : c[i] = f[i]}
<1>10. 0..width \subseteq T
  <2>1. 0 \in T
    <3>1. 0 \in 0..width
      OBVIOUS
    <3>2. c[0] = n
      BY <1>9, <3>1
    <3> QED BY <1>4, <3>1, <3>2
  <2>2. \A i \in 0..(width - 1) : i \in T => i + 1 \in T
    <3> SUFFICES ASSUME NEW i \in 0..(width - 1), i \in T PROVE i + 1 \in T
      OBVIOUS
    <3>1. i + 1 \in 0..width /\ i + 1 \in 1..width /\ (i + 1) - 1 = i /\ i + 1 # 0
      OBVIOUS
    <3>2. c[i] = f[i]
      OBVIOUS
    <3>3. c[i + 1] = c[i] \div Base
      BY <1>9, <3>1
    <3>4. f[i + 1] = f[i] \div Base
      BY <1>5, <3>1
    <3> QED BY <3>1, <3>2, <3>3, <3>4
  <2>3. 0 \in Int /\ width \in Int
    OBVIOUS
  <2> HIDE DEF T
  <2> QED BY <2>1, <2>2, <2>3, IntervalInduction
<1>11. \A i \in 1..width : width - i \in 0..width /\ c[width - i] = f[width - i]
  BY <1>10
<1>12. Digits(width, n) = [i \in 1..width |-> f[width - i] % Base]
  BY <1>8, <1>11
<1>13. \A i \in 1..width : f[width - i] % Base \in Byte
  <2> TAKE i \in 1..width
  <2>1. f[width - i] \in Nat
    BY <1>4, <1>11
  <2> QED BY <1>1, <2>1, QuotientExists DEF Byte
<1>14. Digits(width, n) \in [1..width -> Byte]
  BY <1>12, <1>13
<1>15. Digits(width, n) \in Seq(Byte) /\ Len(Digits(width, n)) = width
  BY <1>14, FunctionIsSequence
<1>16. Quotients(width, n, f)
  BY <1>4, <1>5, <1>12 DEF Quotients
<1> QED BY <1>15, <1>16

\* One byte less is the quotient, and the byte the remainder.
LEMMA ValuesStep ==
  ASSUME NEW b, NEW n \in Nat, NEW w, Values(b, n, w), NEW i \in 1..n
  PROVE  w[i] \div Base = w[i - 1] /\ w[i] % Base = b[i]
<1>1. Base \in Nat \ {0} /\ i - 1 \in 0..n
  BY BaseAssumption
<1>2. w[i - 1] \in Nat /\ w[i] = Base * w[i - 1] + b[i] /\ b[i] \in 0..(Base - 1)
  BY <1>1 DEF Values, Byte
<1>3. PICK v, d, x : v = w[i - 1] /\ d = b[i] /\ x = w[i]
  OBVIOUS
<1>4. v \in Nat /\ d \in 0..(Base - 1) /\ x = Base * v + d
  BY <1>2, <1>3
<1>5. x \div Base = v /\ x % Base = d
  BY <1>1, <1>4, QuotientOf
<1> QED BY <1>3, <1>5

\* A byte string is the digits of its value: reading a length loses nothing.
LEMMA DigitsOfNumber ==
  ASSUME NEW b \in Seq(Byte)
  PROVE  Digits(Len(b), Number(b)) = b
<1> DEFINE n == Len(b)
<1>1. n \in Nat /\ Base \in Nat \ {0} /\ b \in [1..n -> Byte]
  BY BaseAssumption
<1>2. PICK v : Values(b, n, v) /\ Number(b) = v[n]
  BY NumberValues
<1> HIDE DEF n
<1>3. PICK z : z = v[n]
  OBVIOUS
<1>4. n \in Nat /\ z \in Nat /\ \A i \in 0..n : v[i] \in Nat
  BY <1>1, <1>2, <1>3 DEF Values
<1>5. PICK rest : Quotients(n, z, rest)
  BY <1>4, DigitsShape
<1>5a. /\ rest[0] = z
       /\ \A k \in 1..n : rest[k] = rest[k - 1] \div Base
       /\ Digits(n, z) = [i \in 1..n |-> rest[n - i] % Base]
  BY <1>5 DEF Quotients
<1>6. \A i \in 1..n : v[i] \div Base = v[i - 1] /\ v[i] % Base = b[i]
  BY <1>1, <1>2, ValuesStep
<1> DEFINE T == {k \in 0..n : rest[k] = v[n - k]}
<1>7. 0 \in T
  BY <1>1, <1>3, <1>5a
<1>8. \A k \in 0..(n - 1) : k \in T => k + 1 \in T
  <2> SUFFICES ASSUME NEW k \in 0..(n - 1), rest[k] = v[n - k]
               PROVE  k + 1 \in 0..n /\ rest[k + 1] = v[n - (k + 1)]
    OBVIOUS
  <2>1. /\ k + 1 \in 0..n /\ k + 1 \in 1..n /\ (k + 1) - 1 = k
        /\ n - k \in 1..n /\ (n - k) - 1 = n - (k + 1)
    BY <1>1
  <2>2. rest[k + 1] = rest[k] \div Base
    BY <1>5a, <2>1
  <2>3. v[n - k] \div Base = v[n - (k + 1)]
    BY <1>6, <2>1
  <2> QED BY <2>1, <2>2, <2>3
<1>9. 0..n \subseteq T
  <2>1. 0 \in Int /\ n \in Int
    BY <1>1
  <2> HIDE DEF T
  <2> QED BY <1>7, <1>8, <2>1, IntervalInduction
<1>10. \A i \in 1..n : rest[n - i] % Base = b[i]
  <2> TAKE i \in 1..n
  <2>1. n - i \in 0..n /\ n - (n - i) = i
    BY <1>1
  <2>2. rest[n - i] = v[i]
    BY <1>9, <2>1
  <2> QED BY <1>6, <2>2
<1>11. Digits(n, z) = b
  BY <1>1, <1>5a, <1>10
<1> QED BY <1>2, <1>3, <1>11 DEF n

\* Two byte strings of the same value end in the same bytes, as far as both go.
LEMMA SameValueSameEnd ==
  ASSUME NEW n \in Nat, NEW m \in Nat, n <= m, NEW a, NEW b, NEW v, NEW w,
         Values(a, n, v), Values(b, m, w), v[n] = w[m]
  PROVE  v[0] = w[m - n]
<1>0. /\ \A i \in 1..n : v[i] \div Base = v[i - 1]
      /\ \A i \in 1..m : w[i] \div Base = w[i - 1]
  <2>1. ASSUME NEW i \in 1..n PROVE v[i] \div Base = v[i - 1]
    BY ONLY <2>1, Values(a, n, v), ValuesStep, n \in Nat
  <2>2. ASSUME NEW i \in 1..m PROVE w[i] \div Base = w[i - 1]
    BY <2>2, ValuesStep
  <2> QED BY <2>1, <2>2
<1> DEFINE T == {k \in 0..n : v[n - k] = w[m - k]}
<1>1. 0 \in T
  OBVIOUS
<1>2. \A k \in 0..(n - 1) : k \in T => k + 1 \in T
  <2> SUFFICES ASSUME NEW k \in 0..(n - 1), v[n - k] = w[m - k]
               PROVE  k + 1 \in 0..n /\ v[n - (k + 1)] = w[m - (k + 1)]
    OBVIOUS
  <2>1. /\ k + 1 \in 0..n /\ n - k \in 1..n /\ m - k \in 1..m
        /\ (n - k) - 1 = n - (k + 1) /\ (m - k) - 1 = m - (k + 1)
    OBVIOUS
  <2>2. v[n - k] \div Base = v[(n - k) - 1]
    BY <1>0, <2>1
  <2>3. w[m - k] \div Base = w[(m - k) - 1]
    BY <1>0, <2>1
  <2> QED BY <2>1, <2>2, <2>3
<1>3. 0..n \subseteq T
  <2>1. 0 \in Int /\ n \in Int
    OBVIOUS
  <2> HIDE DEF T
  <2> QED BY <1>1, <1>2, <2>1, IntervalInduction
<1>4. n \in T /\ n - n = 0
  BY <1>3
<1> QED BY <1>4

\* A product of what is not zero is not, and neither is more.
LEMMA ProductAndMore ==
  ASSUME NEW b \in Nat \ {0}, NEW x \in Nat \ {0}, NEW d \in Nat
  PROVE  b * x + d \in Nat \ {0}
<1>1. b * x \in Nat /\ b * x >= b
  OBVIOUS
<1> QED BY <1>1

\* A byte string that begins with something is longer than any other of less
\* bytes can express.
LEMMA LongerIsGreater ==
  ASSUME NEW a \in Seq(Byte), NEW b \in Seq(Byte), Len(a) < Len(b), b[1] # 0
  PROVE  Number(a) # Number(b)
<1> SUFFICES ASSUME Number(a) = Number(b) PROVE FALSE
  OBVIOUS
<1> DEFINE n == Len(a)
           m == Len(b)
<1>1. n \in Nat /\ m \in Nat /\ n <= m /\ m - n \in 1..m /\ Base \in Nat \ {0}
  BY BaseAssumption
<1>3. PICK v : Values(a, n, v) /\ v[0] = 0 /\ Number(a) = v[n]
  BY NumberValues
<1>4. PICK w : Values(b, m, w) /\ w[0] = 0 /\ Number(b) = w[m]
  BY NumberValues
<1>5. v[n] = w[m]
  BY <1>3, <1>4
<1> HIDE DEF n, m
<1>6. v[0] = w[m - n]
  BY <1>1, <1>3, <1>4, <1>5, SameValueSameEnd
<1> DEFINE T == {i \in 1..m : w[i] \in Nat \ {0}}
<1>7. 1 \in T
  <2>1. 1 \in 1..m /\ 1 - 1 = 0 /\ Base * 0 = 0
    BY <1>1
  <2>2. b[1] \in Nat \ {0}
    BY <1>1, <1>4, <2>1, SMTT(30) DEF Byte, Values
  <2>3. w[1] = Base * 0 + b[1]
    BY <1>4, <2>1 DEF Values
  <2> QED BY <2>1, <2>2, <2>3
<1>8. \A i \in 1..(m - 1) : i \in T => i + 1 \in T
  <2> SUFFICES ASSUME NEW i \in 1..(m - 1), w[i] \in Nat \ {0}
               PROVE  i + 1 \in 1..m /\ w[i + 1] \in Nat \ {0}
    OBVIOUS
  <2>1. i + 1 \in 1..m /\ (i + 1) - 1 = i /\ i \in 0..m
    BY <1>1
  <2>2. w[i + 1] = Base * w[i] + b[i + 1]
    BY <1>4, <2>1 DEF Values
  <2>3. b[i + 1] \in Nat
    BY <1>1, <1>4, <2>1 DEF Byte, Values
  <2>4. Base * w[i] + b[i + 1] \in Nat \ {0}
    BY <1>1, <2>3, ProductAndMore
  <2> QED BY <2>1, <2>2, <2>4
<1>9. 1..m \subseteq T
  <2>1. 1 \in Int /\ m \in Int
    BY <1>1
  <2> HIDE DEF T
  <2> QED BY <1>7, <1>8, <2>1, IntervalInduction
<1>10. w[m - n] \in Nat \ {0}
  BY <1>1, <1>9
<1> QED BY <1>3, <1>6, <1>10

\* Without a leading zero there is only one width for a number.
LEMMA WidthIsUnique ==
  ASSUME NEW a \in Seq(Byte), NEW b \in Seq(Byte), a # <<>>, b # <<>>,
         a[1] # 0, b[1] # 0, Number(a) = Number(b)
  PROVE  Len(a) = Len(b)
<1>1. ~(Len(a) < Len(b)) /\ ~(Len(b) < Len(a))
  BY LongerIsGreater
<1>2. Len(a) \in Nat /\ Len(b) \in Nat
  OBVIOUS
<1> QED BY <1>1, <1>2

-----------------------------------------------------------------------------
(* Slices *)

\* A slice inside the data.
LEMMA SliceShape ==
  ASSUME NEW S, NEW data \in Seq(S), NEW from \in Nat, NEW to \in Nat,
         from <= to, to <= Len(data)
  PROVE  /\ Slice(data, from, to) \in Seq(S)
         /\ Len(Slice(data, from, to)) = to - from
         /\ \A j \in 1..(to - from) : Slice(data, from, to)[j] = data[from + j]
<1> DEFINE n == to - from
<1>1. n \in Nat /\ from + n <= Len(data) /\ from + n = to /\ Len(data) \in Nat
  OBVIOUS
<1>2. Slice(data, from, to) = SubSeq(data, from + 1, from + n)
  <2>1. (IF to < Len(data) THEN to ELSE Len(data)) = from + n
    BY <1>1
  <2> QED BY <2>1 DEF Slice
<1> HIDE DEF n
<1>3. /\ SubSeq(data, from + 1, from + n) \in Seq(S)
      /\ Len(SubSeq(data, from + 1, from + n)) = n
      /\ \A j \in 1..n : SubSeq(data, from + 1, from + n)[j] = data[from + j]
  BY <1>1, PieceShape, SMTT(30)
<1> QED BY <1>2, <1>3 DEF n

\* Two slices next to each other are one.
LEMMA SliceJoin ==
  ASSUME NEW S, NEW data \in Seq(S), NEW a \in Nat, NEW b \in Nat, NEW c \in Nat,
         a <= b, b <= c, c <= Len(data)
  PROVE  Slice(data, a, b) \o Slice(data, b, c) = Slice(data, a, c)
<1> DEFINE s == Slice(data, a, b)
           t == Slice(data, b, c)
           u == Slice(data, a, c)
<1>0. b <= Len(data) /\ a <= c
  OBVIOUS
<1>1. /\ s \in Seq(S) /\ Len(s) = b - a
      /\ \A j \in 1..(b - a) : s[j] = data[a + j]
  <2>1. b <= Len(data)
    BY <1>0
  <2> QED BY <2>1, SliceShape
<1>2. /\ t \in Seq(S) /\ Len(t) = c - b
      /\ \A j \in 1..(c - b) : t[j] = data[b + j]
  BY SliceShape
<1>3. /\ u \in Seq(S) /\ Len(u) = c - a
      /\ \A j \in 1..(c - a) : u[j] = data[a + j]
  BY <1>0, SliceShape
<1> HIDE DEF s, t, u
<1>4. /\ s \o t \in Seq(S) /\ Len(s \o t) = (b - a) + (c - b)
      /\ \A j \in 1..(b - a) : (s \o t)[j] = s[j]
      /\ \A j \in 1..(c - b) : (s \o t)[(b - a) + j] = t[j]
  <2>1. /\ s \o t \in Seq(S)
        /\ Len(s \o t) = Len(s) + Len(t)
        /\ \A p \in 1..Len(s) : (s \o t)[p] = s[p]
        /\ \A j \in 1..Len(t) : (s \o t)[Len(s) + j] = t[j]
    <3>1. s \in Seq(S) /\ t \in Seq(S)
      BY <1>1, <1>2
    <3> QED BY <3>1, ConcatShape
  <2>2. Len(s) = b - a /\ Len(t) = c - b
    BY <1>1, <1>2
  <2> QED BY <2>1, <2>2
<1>5. \A j \in 1..Len(u) : (s \o t)[j] = u[j]
  <2> TAKE j \in 1..Len(u)
  <2>1. j \in 1..(c - a)
    BY <1>3
  <2>2. CASE j <= b - a
    <3>1. j \in 1..(b - a)
      BY <2>1, <2>2
    <3> QED BY <1>1, <1>3, <1>4, <2>1, <3>1
  <2>3. CASE ~(j <= b - a)
    <3> DEFINE k == j - (b - a)
    <3>1. k \in 1..(c - b) /\ (b - a) + k = j /\ b + k = a + j
      BY <2>1, <2>3
    <3> HIDE DEF k
    <3>2. (s \o t)[(b - a) + k] = t[k] /\ t[k] = data[b + k]
      BY <1>2, <1>4, <3>1
    <3>3. (s \o t)[j] = data[a + j]
      BY <3>1, <3>2
    <3> QED BY <1>3, <2>1, <3>3
  <2> QED BY <2>2, <2>3
<1>6. Len(s \o t) = Len(u)
  BY <1>3, <1>4
<1>7. s \o t = u
  BY <1>3, <1>4, <1>5, <1>6, SeqEqual
<1> QED BY <1>7 DEF s, t, u

\* A slice that is all of the data.
LEMMA SliceWhole ==
  ASSUME NEW S, NEW data \in Seq(S)
  PROVE  Slice(data, 0, Len(data)) = data
<1>1. 0 \in Nat /\ Len(data) \in Nat /\ 0 <= Len(data) /\ Len(data) <= Len(data)
  OBVIOUS
<1>2. /\ Slice(data, 0, Len(data)) \in Seq(S)
      /\ Len(Slice(data, 0, Len(data))) = Len(data) - 0
      /\ \A j \in 1..(Len(data) - 0) : Slice(data, 0, Len(data))[j] = data[0 + j]
  <2>1. PICK z, n : z = 0 /\ n = Len(data)
    OBVIOUS
  <2>2. /\ Slice(data, z, n) \in Seq(S)
        /\ Len(Slice(data, z, n)) = n - z
        /\ \A j \in 1..(n - z) : Slice(data, z, n)[j] = data[z + j]
    BY <1>1, <2>1, SliceShape
  <2> QED BY <2>1, <2>2
<1>3. /\ Len(Slice(data, 0, Len(data))) = Len(data)
      /\ \A j \in 1..Len(data) : Slice(data, 0, Len(data))[j] = data[j]
  BY <1>1, <1>2
<1> QED BY <1>2, <1>3, SeqEqual

\* A slice that ends where it begins.
LEMMA SliceEmpty ==
  ASSUME NEW S, NEW data \in Seq(S), NEW a \in 0..Len(data)
  PROVE  Slice(data, a, a) = <<>>
<1>1. Slice(data, a, a) \in Seq(S) /\ Len(Slice(data, a, a)) = 0
  BY SliceShape
<1> QED BY <1>1

\* A slice of one element.
LEMMA SliceOne ==
  ASSUME NEW S, NEW data \in Seq(S), NEW a \in 0..(Len(data) - 1)
  PROVE  Slice(data, a, a + 1) = <<data[a + 1]>>
<1>1. a \in Nat /\ a + 1 \in Nat /\ a <= a + 1 /\ a + 1 <= Len(data) /\ (a + 1) - a = 1
  OBVIOUS
<1>2. PICK c : c = a + 1
  OBVIOUS
<1>3. /\ Slice(data, a, c) \in Seq(S) /\ Len(Slice(data, a, c)) = c - a
      /\ \A j \in 1..(c - a) : Slice(data, a, c)[j] = data[a + j]
  BY <1>1, <1>2, SliceShape
<1>4. Len(Slice(data, a, c)) = 1 /\ Slice(data, a, c)[1] = data[a + 1]
  BY <1>1, <1>2, <1>3
<1>5. PICK s, x : s = Slice(data, a, c) /\ x = data[a + 1]
  OBVIOUS
<1>6. s \in Seq(S) /\ Len(s) = 1 /\ s[1] = x
  BY <1>3, <1>4, <1>5
<1>7. s = <<x>>
  BY <1>6
<1> QED BY <1>2, <1>5, <1>7

-----------------------------------------------------------------------------
(* Bytes that account for a piece of the data *)

\* These bytes are the data from offset a to offset b.
Covers(data, a, b, bytes) ==
  /\ a \in Nat /\ b \in Nat /\ a <= b /\ b <= Len(data)
  /\ bytes \in Seq(Byte) /\ bytes = Slice(data, a, b)

\* A slice covers what it was cut from.
LEMMA SliceCovers ==
  ASSUME NEW data \in Seq(Byte), NEW a \in Nat, NEW b \in Nat, a <= b, b <= Len(data)
  PROVE  Covers(data, a, b, Slice(data, a, b)) /\ Len(Slice(data, a, b)) = b - a
<1>1. Slice(data, a, b) \in Seq(Byte) /\ Len(Slice(data, a, b)) = b - a
  BY SliceShape
<1> QED BY <1>1 DEF Covers

\* What covers two pieces next to each other covers both.
LEMMA CoversJoin ==
  ASSUME NEW data \in Seq(Byte), NEW a, NEW b, NEW c, NEW x, NEW y,
         Covers(data, a, b, x), Covers(data, b, c, y)
  PROVE  Covers(data, a, c, x \o y)
<1>1. /\ a \in Nat /\ b \in Nat /\ c \in Nat /\ a <= b /\ b <= c /\ c <= Len(data)
      /\ x \in Seq(Byte) /\ y \in Seq(Byte)
      /\ x = Slice(data, a, b) /\ y = Slice(data, b, c)
  BY DEF Covers
<1>2. Slice(data, a, b) \o Slice(data, b, c) = Slice(data, a, c)
  BY <1>1, SliceJoin
<1>3. x \o y \in Seq(Byte) /\ a <= c
  BY <1>1
<1> QED BY <1>1, <1>2, <1>3 DEF Covers

\* What covers everything is the data.
LEMMA CoversAll ==
  ASSUME NEW data \in Seq(Byte), NEW x, Covers(data, 0, Len(data), x)
  PROVE  x = data
  BY SliceWhole DEF Covers

\* Nothing covers no data.
LEMMA CoversNothing ==
  ASSUME NEW data \in Seq(Byte), NEW a \in 0..Len(data)
  PROVE  Covers(data, a, a, <<>>)
<1>1. Slice(data, a, a) = <<>>
  BY SliceEmpty
<1>2. <<>> \in Seq(Byte) /\ a \in Nat /\ a <= a /\ a <= Len(data)
  OBVIOUS
<1> QED BY <1>1, <1>2 DEF Covers

-----------------------------------------------------------------------------
(* Readers of lists *)

\* f takes P into V.
Takes(f, P, V) == \A p \in P : f[p] \in V
\* The values of f along a path.
Along(f, path) == [i \in 1..Len(path) |-> f[path[i]]]

\* They are a sequence as long as the path.
LEMMA AlongShape ==
  ASSUME NEW P, NEW V, NEW f, Takes(f, P, V), NEW path \in Seq(P)
  PROVE  /\ Along(f, path) \in Seq(V) /\ Len(Along(f, path)) = Len(path)
         /\ \A i \in 1..Len(path) : Along(f, path)[i] = f[path[i]]
<1>1. Len(path) \in Nat /\ \A i \in 1..Len(path) : path[i] \in P
  OBVIOUS
<1>2. Along(f, path) \in [1..Len(path) -> V]
  BY <1>1 DEF Along, Takes
<1>3. \A i \in 1..Len(path) : Along(f, path)[i] = f[path[i]]
  BY DEF Along
<1> QED BY <1>1, <1>2, <1>3, FunctionIsSequence

\* One step in front of a path.
LEMMA AlongCons ==
  ASSUME NEW f, NEW p, NEW path, NEW P, NEW V, Takes(f, P, V), p \in P, path \in Seq(P)
  PROVE  Along(f, <<p>> \o path) = <<f[p]>> \o Along(f, path)
<1> DEFINE long == <<p>> \o path
           n == Len(path)
<1>1. /\ n \in Nat /\ long \in Seq(P) /\ Len(long) = n + 1 /\ long[1] = p
      /\ \A i \in 1..n : long[i + 1] = path[i]
  OBVIOUS
<1>2. PICK s, x, y : s = Along(f, long) /\ x = <<f[p]>> /\ y = Along(f, path)
  OBVIOUS
<1>3. s \in Seq(V) /\ Len(s) = n + 1 /\ \A i \in 1..(n + 1) : s[i] = f[long[i]]
  <2>1. PICK z : z = long
    OBVIOUS
  <2> HIDE DEF long
  <2>2. z \in Seq(P) /\ Len(z) = n + 1
    BY <1>1, <2>1
  <2>3. /\ Along(f, z) \in Seq(V) /\ Len(Along(f, z)) = Len(z)
        /\ \A i \in 1..Len(z) : Along(f, z)[i] = f[z[i]]
    BY ONLY <2>2, Takes(f, P, V), AlongShape
  <2> QED BY <1>2, <2>1, <2>2, <2>3
<1>4. y \in Seq(V) /\ Len(y) = n /\ \A i \in 1..n : y[i] = f[path[i]]
  <2>1. /\ Along(f, path) \in Seq(V) /\ Len(Along(f, path)) = Len(path)
        /\ \A i \in 1..Len(path) : Along(f, path)[i] = f[path[i]]
    BY ONLY path \in Seq(P), Takes(f, P, V), AlongShape
  <2> QED BY <1>2, <2>1
<1>5. x \in Seq(V) /\ Len(x) = 1 /\ x[1] = f[p]
  BY <1>2 DEF Takes
<1> HIDE DEF long, n
<1>6. /\ x \o y \in Seq(V) /\ Len(x \o y) = Len(x) + Len(y)
      /\ \A i \in 1..Len(x) : (x \o y)[i] = x[i]
      /\ \A j \in 1..Len(y) : (x \o y)[Len(x) + j] = y[j]
  <2>1. x \in Seq(V) /\ y \in Seq(V)
    BY <1>4, <1>5
  <2> QED BY ONLY <2>1, ConcatShape
<1>7. Len(s) = Len(x \o y)
  BY <1>1, <1>3, <1>4, <1>5, <1>6
<1>8. \A i \in 1..Len(s) : s[i] = (x \o y)[i]
  <2> TAKE i \in 1..Len(s)
  <2>1. i \in 1..(n + 1)
    BY <1>3
  <2>2. CASE i = 1
    <3>1. (x \o y)[1] = f[p]
      BY <1>5, <1>6
    <3> QED BY <1>1, <1>3, <2>1, <2>2, <3>1
  <2>3. CASE i # 1
    <3>1. PICK j : j = i - 1
      OBVIOUS
    <3>2. j \in 1..n /\ j + 1 = i /\ 1 + j = i
      BY <1>1, <2>1, <2>3, <3>1
    <3>3. (x \o y)[1 + j] = f[path[j]]
      BY <1>4, <1>5, <1>6, <3>2
    <3>4. s[i] = f[path[j]]
      BY <1>1, <1>3, <2>1, <3>2
    <3> QED BY <3>2, <3>3, <3>4
  <2> QED BY <2>2, <2>3
<1>9. s = x \o y
  BY <1>3, <1>6, <1>7, <1>8, SeqEqual
<1> QED BY <1>2, <1>9 DEF long

\* A reader of a list: at the offsets where it does not stop there is an item,
\* which the bytes in piece account for.
Reader(data, V, Stop, base, item, next, piece) ==
  /\ WalksIn(Len(data), Stop, next)
  /\ \A p \in Stop : base[p] \in Seq(V)
  /\ \A p \in (0..Len(data)) \ Stop :
        item[p] \in V /\ Covers(data, p, next[p], piece[p])

\* What it has read from offset start on: the items along a path, whose pieces
\* account for the data up to offset last, where it stopped.
HasRead(data, Stop, base, item, piece, start, path, last, result) ==
  /\ path \in Seq((0..Len(data)) \ Stop) /\ last \in Stop
  /\ result = Along(item, path) \o base[last]
  /\ Along(piece, path) \in Seq(Seq(Byte))
  /\ Covers(data, start, last, FlattenSeq(Along(piece, path)))

\* One item in front.
LEMMA ReadOneMore ==
  ASSUME NEW data \in Seq(Byte), NEW V, NEW Stop, NEW base, NEW item, NEW next, NEW piece,
         Reader(data, V, Stop, base, item, next, piece),
         NEW p \in (0..Len(data)) \ Stop, NEW path, NEW last, NEW result,
         HasRead(data, Stop, base, item, piece, next[p], path, last, result)
  PROVE  HasRead(data, Stop, base, item, piece, p, <<p>> \o path, last, <<item[p]>> \o result)
<1> DEFINE P == (0..Len(data)) \ Stop
<1>1. /\ path \in Seq(P) /\ last \in Stop /\ result = Along(item, path) \o base[last]
      /\ Along(piece, path) \in Seq(Seq(Byte))
      /\ Covers(data, next[p], last, FlattenSeq(Along(piece, path)))
  BY DEF HasRead
<1>2. base[last] \in Seq(V) /\ item[p] \in V /\ Covers(data, p, next[p], piece[p])
  BY <1>1 DEF Reader
<1>3. Takes(item, P, V) /\ Takes(piece, P, Seq(Byte))
  BY DEF Reader, Covers, Takes
<1>4. p \in P
  OBVIOUS
<1> HIDE DEF P
<1>5. Along(item, <<p>> \o path) = <<item[p]>> \o Along(item, path)
  <2>1. PICK Q : Q = P
    OBVIOUS
  <2>2. path \in Seq(Q) /\ p \in Q /\ Takes(item, Q, V)
    BY <1>1, <1>3, <1>4, <2>1
  <2> QED BY ONLY <2>2, AlongCons
<1>6. Along(piece, <<p>> \o path) = <<piece[p]>> \o Along(piece, path)
  <2>1. PICK Q, W : Q = P /\ W = Seq(Byte)
    OBVIOUS
  <2>2. path \in Seq(Q) /\ p \in Q /\ Takes(piece, Q, W)
    BY <1>1, <1>3, <1>4, <2>1
  <2> QED BY ONLY <2>2, AlongCons
<1>7. <<item[p]>> \o result = Along(item, <<p>> \o path) \o base[last]
  <2>1. PICK x, y, z : x = <<item[p]>> /\ y = Along(item, path) /\ z = base[last]
    OBVIOUS
  <2>2. y \in Seq(V)
    BY <1>1, <1>3, <2>1, AlongShape
  <2>3. x \in Seq(V) /\ z \in Seq(V)
    BY <1>2, <2>1
  <2>4. (x \o y) \o z = x \o (y \o z)
    BY ONLY <2>2, <2>3, ConcatTwice, SMTT(30)
  <2> QED BY <1>1, <1>5, <2>1, <2>4
<1>8. <<p>> \o path \in Seq(P)
  BY <1>1, <1>4
<1>9. PICK s, t : s = Along(piece, path) /\ t = piece[p]
  OBVIOUS
<1>10. s \in Seq(Seq(Byte)) /\ t \in Seq(Byte)
  BY <1>1, <1>3, <1>4, <1>9 DEF Takes
<1>11. <<t>> \o s \in Seq(Seq(Byte))
  BY <1>10
<1>12. FlattenSeq(<<t>> \o s) = t \o FlattenSeq(s)
  BY <1>10, FlattenCons
<1>13. Covers(data, p, last, t \o FlattenSeq(s))
  BY <1>1, <1>2, <1>9, CoversJoin
<1> QED BY <1>1, <1>6, <1>7, <1>8, <1>9, <1>11, <1>12, <1>13 DEF HasRead, P

\* Wherever it starts, the reader accounts for what it has read.
LEMMA ReaderCovers ==
  ASSUME NEW data \in Seq(Byte), NEW V, NEW Stop, NEW base, NEW item, NEW next, NEW piece,
         Reader(data, V, Stop, base, item, next, piece),
         NEW c, Walked(c, Len(data), Stop, base, item, next)
  PROVE  \E path, last : HasRead(data, Stop, base, item, piece, 0, path, last, c[0])
<1> DEFINE n == Len(data)
           Good(p) == \E path, last :
                         HasRead(data, Stop, base, item, piece, p, path, last, c[p])
           T == {k \in 0..n : \A p \in (n - k)..n : Good(p)}
<1>1. n \in Nat
  OBVIOUS
<1>2. \A p \in 0..n : c[p] = IF p \in Stop THEN base[p] ELSE <<item[p]>> \o c[next[p]]
  BY DEF Walked
<1>3. /\ Stop \subseteq 0..n
      /\ \A p \in (0..n) \ Stop : next[p] \in (p + 1)..n
      /\ \A p \in Stop : base[p] \in Seq(V)
  BY DEF Reader, WalksIn
<1>4. ASSUME NEW p \in Stop PROVE Good(p)
  <2>1. c[p] = base[p] /\ base[p] \in Seq(V)
    BY <1>2, <1>3
  <2>2. Along(item, <<>>) = <<>> /\ Along(piece, <<>>) = <<>>
    BY DEF Along
  <2>3. <<>> \o base[p] = base[p]
    BY <2>1
  <2>4. Covers(data, p, p, <<>>)
    BY <1>3, CoversNothing
  <2>5. FlattenSeq(<<>>) = <<>>
    BY DEF FlattenSeq
  <2>6. <<>> \in Seq((0..Len(data)) \ Stop) /\ <<>> \in Seq(Seq(Byte))
    OBVIOUS
  <2>7. HasRead(data, Stop, base, item, piece, p, <<>>, p, c[p])
    BY <2>1, <2>2, <2>3, <2>4, <2>5, <2>6 DEF HasRead
  <2> QED BY <2>7
<1>5. ASSUME NEW p \in (0..n) \ Stop, Good(next[p]) PROVE Good(p)
  <2>1. PICK path, last : HasRead(data, Stop, base, item, piece, next[p], path, last, c[next[p]])
    BY <1>5
  <2>2. c[p] = <<item[p]>> \o c[next[p]]
    BY <1>2
  <2>3. HasRead(data, Stop, base, item, piece, p, <<p>> \o path, last, <<item[p]>> \o c[next[p]])
    BY <2>1, ReadOneMore
  <2> QED BY <2>2, <2>3
<1> HIDE DEF Good, n
<1>6. Good(n)
  <2>1. n \in 0..n /\ n \notin (n + 1)..n
    BY <1>1
  <2>2. n \in Stop
    <3>1. ~(\E q : q \in (n + 1)..n)
      BY <1>1
    <3> QED BY <1>3, <2>1, <3>1
  <2> QED BY <1>4, <2>2
<1>7. 0..n \subseteq T
  <2>1. 0 \in T
    BY <1>1, <1>6
  <2>2. \A k \in 0..(n - 1) : k \in T => k + 1 \in T
    <3> SUFFICES ASSUME NEW k \in 0..(n - 1), \A p \in (n - k)..n : Good(p)
                 PROVE  k + 1 \in 0..n /\ \A p \in (n - (k + 1))..n : Good(p)
      OBVIOUS
    <3> DEFINE m == n - (k + 1)
    <3>1. /\ k + 1 \in 0..n /\ m \in 0..n /\ m + 1 = n - k
          /\ \A p \in m..n : p = m \/ p \in (n - k)..n
      BY <1>1
    <3> HIDE DEF m
    <3>2. Good(m)
      <4>1. CASE m \in Stop
        BY <1>4, <4>1
      <4>2. CASE m \notin Stop
        <5>1. next[m] \in (n - k)..n
          BY <1>3, <3>1, <4>2
        <5> QED BY <1>5, <3>1, <4>2, <5>1
      <4> QED BY <4>1, <4>2
    <3> QED BY <3>1, <3>2 DEF m
  <2>3. 0 \in Int /\ n \in Int
    BY <1>1
  <2> HIDE DEF T
  <2> QED BY <2>1, <2>2, <2>3, IntervalInduction
<1>8. Good(0)
  <2>1. n \in 0..n /\ 0 \in (n - n)..n
    BY <1>1
  <2> QED BY <1>7, <2>1
<1> QED BY <1>8 DEF Good

\* A reader that stops at the end of the data, or puts broken at the end.
Ends(n, broken) == [p \in 0..n |-> IF p = n THEN <<>> ELSE <<broken>>]
\* All data is in the pieces of the items along a path.
ReadAll(data, Stop, item, piece, path, result) ==
  /\ path \in Seq((0..Len(data)) \ Stop)
  /\ result = Along(item, path)
  /\ data = FlattenSeq(Along(piece, path))

\* Without broken in the result, the items account for all of the data.
LEMMA ReadToEnd ==
  ASSUME NEW data \in Seq(Byte), NEW broken, NEW V, NEW Stop, NEW item, NEW next, NEW piece,
         Reader(data, V, Stop, Ends(Len(data), broken), item, next, piece),
         NEW c, Walked(c, Len(data), Stop, Ends(Len(data), broken), item, next),
         broken \notin ToSet(c[0])
  PROVE  \E path : ReadAll(data, Stop, item, piece, path, c[0])
<1> DEFINE n == Len(data)
           base == Ends(n, broken)
<1>1. n \in Nat
  OBVIOUS
<1>2. PICK path, last : HasRead(data, Stop, base, item, piece, 0, path, last, c[0])
  BY ReaderCovers
<1>3. /\ path \in Seq((0..n) \ Stop) /\ last \in Stop
      /\ c[0] = Along(item, path) \o base[last]
      /\ Covers(data, 0, last, FlattenSeq(Along(piece, path)))
  BY <1>2 DEF HasRead
<1>4. last \in 0..n /\ base[last] \in Seq(V)
  BY <1>3 DEF Reader, WalksIn
<1>5. Takes(item, (0..n) \ Stop, V)
  BY DEF Reader, Takes
<1>6. PICK s : s = Along(item, path)
  OBVIOUS
<1>7. s \in Seq(V) /\ c[0] = s \o base[last]
  <2>1. PICK P : P = (0..n) \ Stop
    OBVIOUS
  <2>2. path \in Seq(P) /\ Takes(item, P, V)
    BY <1>3, <1>5, <2>1
  <2>3. Along(item, path) \in Seq(V)
    BY ONLY <2>2, AlongShape
  <2> QED BY <1>3, <1>6, <2>3
<1>8. last = n
  <2> SUFFICES ASSUME last # n PROVE FALSE
    OBVIOUS
  <2>1. base[last] = <<broken>>
    BY <1>4 DEF Ends
  <2> HIDE DEF base
  <2>2. <<broken>> \in Seq(V)
    BY <1>4, <2>1
  <2>3. PICK t, u : t = <<broken>> /\ u = s \o t
    OBVIOUS
  <2>4. t \in Seq(V) /\ Len(t) = 1 /\ t[1] = broken
    BY <2>2, <2>3
  <2>5. u \in Seq(V) /\ Len(u) = Len(s) + Len(t) /\ u[Len(s) + 1] = t[1] /\ Len(s) \in Nat
    BY <1>7, <2>3, <2>4
  <2>6. Len(s) + 1 \in DOMAIN u
    BY <2>4, <2>5
  <2>7. broken \in ToSet(u)
    BY <2>4, <2>5, <2>6 DEF ToSet
  <2> QED BY <1>7, <2>1, <2>3, <2>7
<1>9. base[last] = <<>>
  BY <1>1, <1>8 DEF Ends
<1>10. c[0] = s
  <2>1. s \o <<>> = s
    BY <1>7
  <2> QED BY <1>7, <1>9, <2>1
<1>11. FlattenSeq(Along(piece, path)) = data
  BY <1>3, <1>8, CoversAll
<1> QED BY <1>3, <1>6, <1>10, <1>11 DEF ReadAll

-----------------------------------------------------------------------------
(* What was written, read again *)

\* n can be written in as many bytes as width.
FitsIn(width, n) == n \in Nat /\ Number(Digits(width, n)) = n

\* The digits of a number, one by one.
LEMMA DigitsOf ==
  ASSUME NEW width \in 1..3, NEW n \in Nat, NEW k \in 1..width
  PROVE  /\ k = 1 => Digits(width, n)[width] = n % Base
         /\ k = 2 => Digits(width, n)[width - 1] = (n \div Base) % Base
         /\ k = 3 => Digits(width, n)[width - 2] = ((n \div Base) \div Base) % Base
<1>1. PICK rest : Quotients(width, n, rest)
  BY DigitsShape
<1>2. Digits(width, n) = [i \in 1..width |-> rest[width - i] % Base]
  BY <1>1 DEF Quotients
<1>3. rest[0] = n /\ \A j \in 1..width : rest[j] = rest[j - 1] \div Base
  BY <1>1 DEF Quotients
<1>4. 1 - 1 = 0 /\ 2 - 1 = 1
  OBVIOUS
<1>5. rest[1] = n \div Base /\ (width >= 2 => rest[2] = (n \div Base) \div Base)
  <2>1. rest[1] = rest[1 - 1] \div Base
    BY <1>3
  <2>2. ASSUME width >= 2 PROVE rest[2] = rest[2 - 1] \div Base
    BY <1>3, <2>2
  <2> QED BY <1>3, <1>4, <2>1, <2>2
<1>6. CASE k = 1
  <2>1. Digits(width, n)[width] = rest[width - width] % Base
    BY <1>2
  <2> QED BY <1>3, <1>6, <2>1
<1>7. CASE k = 2
  <2>1. Digits(width, n)[width - 1] = rest[width - (width - 1)] % Base
    BY <1>2, <1>7
  <2>2. width - (width - 1) = 1
    OBVIOUS
  <2> QED BY <1>5, <1>7, <2>1, <2>2
<1>8. CASE k = 3
  <2>1. Digits(width, n)[width - 2] = rest[width - (width - 2)] % Base
    BY <1>2, <1>8
  <2>2. width - (width - 2) = 2
    OBVIOUS
  <2> QED BY <1>5, <1>8, <2>1, <2>2
<1> QED BY <1>6, <1>7, <1>8

\* One byte holds 256 numbers, two hold 65536.
LEMMA SmallNumbersFit ==
  ASSUME Base = 256, NEW n \in Nat
  PROVE  /\ n < 256 => FitsIn(1, n)
         /\ n < 65536 => FitsIn(2, n) /\ FitsIn(3, n)
<1>1. Base = 256
  OBVIOUS
<1>2. ASSUME n < 256 PROVE FitsIn(1, n)
  <2>1. PICK b : b = Digits(1, n)
    OBVIOUS
  <2>0. 1 \in 1..3 /\ 1 \in 1..1 /\ n \in Nat
    OBVIOUS
  <2>2. b \in Seq(Byte) /\ Len(b) = 1
    BY <2>1, DigitsShape
  <2>3. b[1] = n % Base
    BY ONLY <2>0, <2>1, DigitsOf
  <2>4. PICK v : v[0] = 0 /\ (\A i \in 1..Len(b) : v[i] = Base * v[i - 1] + b[i])
                 /\ Number(b) = v[Len(b)]
    BY <2>2, NumberShape
  <2>5. v[1] = Base * v[1 - 1] + b[1]
    BY <2>2, <2>4
  <2>6. v[1 - 1] = 0 /\ n % 256 = n
    BY <1>2, <2>4
  <2>7. v[1] = n
    BY <1>1, <2>3, <2>5, <2>6
  <2> QED BY <2>1, <2>2, <2>4, <2>7 DEF FitsIn
<1>3. ASSUME n < 65536 PROVE FitsIn(2, n)
  <2>1. PICK b : b = Digits(2, n)
    OBVIOUS
  <2>0. 2 \in 1..3 /\ 1 \in 1..2 /\ 2 \in 1..2 /\ n \in Nat
    OBVIOUS
  <2>2. b \in Seq(Byte) /\ Len(b) = 2
    BY <2>1, DigitsShape
  <2>3. b[2] = n % Base /\ b[2 - 1] = (n \div Base) % Base
    BY ONLY <2>0, <2>1, DigitsOf
  <2>4. PICK v : v[0] = 0 /\ (\A i \in 1..Len(b) : v[i] = Base * v[i - 1] + b[i])
                 /\ Number(b) = v[Len(b)]
    BY <2>2, NumberShape
  <2>5. v[1] = Base * v[1 - 1] + b[1] /\ v[2] = Base * v[2 - 1] + b[2]
    BY <2>2, <2>4
  <2>6. v[1 - 1] = 0 /\ 2 - 1 = 1 /\ (n \div 256) % 256 = n \div 256
        /\ 256 * (n \div 256) + (n % 256) = n
    BY <1>3, <2>4
  <2>7. v[1] = n \div 256
    BY <1>1, <2>3, <2>5, <2>6
  <2>8. v[2] = n
    BY <1>1, <2>3, <2>5, <2>6, <2>7
  <2> QED BY <2>1, <2>2, <2>4, <2>8 DEF FitsIn
<1>4. ASSUME n < 65536 PROVE FitsIn(3, n)
  <2>1. PICK b : b = Digits(3, n)
    OBVIOUS
  <2>0. 3 \in 1..3 /\ 1 \in 1..3 /\ 2 \in 1..3 /\ 3 \in 1..3 /\ n \in Nat
    OBVIOUS
  <2>2. b \in Seq(Byte) /\ Len(b) = 3
    BY <2>1, DigitsShape
  <2>3. b[3] = n % Base /\ b[3 - 1] = (n \div Base) % Base
        /\ b[3 - 2] = ((n \div Base) \div Base) % Base
    BY ONLY <2>0, <2>1, DigitsOf
  <2>4. PICK v : v[0] = 0 /\ (\A i \in 1..Len(b) : v[i] = Base * v[i - 1] + b[i])
                 /\ Number(b) = v[Len(b)]
    BY <2>2, NumberShape
  <2>5. v[1] = Base * v[1 - 1] + b[1] /\ v[2] = Base * v[2 - 1] + b[2]
        /\ v[3] = Base * v[3 - 1] + b[3]
    BY <2>2, <2>4
  <2>6. v[1 - 1] = 0 /\ 2 - 1 = 1 /\ 3 - 1 = 2 /\ 3 - 2 = 1 /\ (n \div 256) % 256 = n \div 256
        /\ ((n \div 256) \div 256) % 256 = 0 /\ 256 * (n \div 256) + (n % 256) = n
    BY <1>4, <2>4
  <2>7. v[1] = 0
    BY <1>1, <2>3, <2>5, <2>6
  <2>8. v[2] = n \div 256
    BY <1>1, <2>3, <2>5, <2>6, <2>7
  <2>9. v[3] = n
    BY <1>1, <2>3, <2>5, <2>6, <2>8
  <2> QED BY <2>1, <2>2, <2>4, <2>9 DEF FitsIn
<1> QED BY <1>2, <1>3, <1>4

\* The two halves of what is covered.
LEMMA CoversParts ==
  ASSUME NEW data \in Seq(Byte), NEW a, NEW c, NEW x \in Seq(Byte), NEW y \in Seq(Byte),
         Covers(data, a, c, x \o y), NEW b, b = a + Len(x)
  PROVE  Covers(data, a, b, x) /\ Covers(data, b, c, y)
<1>1. a \in Nat /\ c \in Nat /\ a <= c /\ c <= Len(data) /\ x \o y = Slice(data, a, c)
  BY DEF Covers
<1>2. Len(x) \in Nat /\ Len(y) \in Nat /\ Len(x \o y) = Len(x) + Len(y)
  BY ConcatShape
<1>3. /\ Slice(data, a, c) \in Seq(Byte) /\ Len(Slice(data, a, c)) = c - a
      /\ \A j \in 1..(c - a) : Slice(data, a, c)[j] = data[a + j]
  BY <1>1, SliceShape
<1>4. b = a + Len(x)
  OBVIOUS
<1>12. data \in Seq(Byte)
  OBVIOUS
<1>8. Len(x) + Len(y) = c - a
  BY <1>1, <1>2, <1>3
<1>5. b \in Nat /\ a <= b /\ b <= c /\ c - b = Len(y) /\ b - a = Len(x)
  <2>1. a \in Nat /\ c \in Nat
    BY <1>1
  <2> QED BY ONLY <2>1, <1>2, <1>4, <1>8
<1>6. x = Slice(data, a, b)
  <2>1. PICK s : s = Slice(data, a, b)
    OBVIOUS
  <2>2. s \in Seq(Byte) /\ Len(s) = b - a /\ \A j \in 1..(b - a) : s[j] = data[a + j]
    <3>1. a \in Nat /\ b \in Nat /\ a <= b /\ b <= Len(data)
      BY <1>1, <1>5
    <3>2. /\ Slice(data, a, b) \in Seq(Byte) /\ Len(Slice(data, a, b)) = b - a
          /\ \A j \in 1..(b - a) : Slice(data, a, b)[j] = data[a + j]
      BY ONLY <1>12, <3>1, SliceShape
    <3> QED BY <2>1, <3>2
  <2>3. ASSUME NEW j \in 1..Len(x) PROVE x[j] = s[j]
    <3>1. (x \o y)[j] = x[j]
      BY ConcatShape
    <3>2. j \in 1..(c - a) /\ j \in 1..(b - a)
      BY <1>1, <1>2, <1>5
    <3> QED BY <1>1, <1>3, <2>2, <3>1, <3>2
  <2>4. Len(s) = Len(x)
    BY <1>5, <2>2
  <2> QED BY <2>1, <2>2, <2>3, <2>4
<1>7. y = Slice(data, b, c)
  <2>1. PICK s : s = Slice(data, b, c)
    OBVIOUS
  <2>2. s \in Seq(Byte) /\ Len(s) = c - b /\ \A j \in 1..(c - b) : s[j] = data[b + j]
    <3>1. b \in Nat /\ c \in Nat /\ b <= c /\ c <= Len(data)
      BY <1>1, <1>5
    <3>2. /\ Slice(data, b, c) \in Seq(Byte) /\ Len(Slice(data, b, c)) = c - b
          /\ \A j \in 1..(c - b) : Slice(data, b, c)[j] = data[b + j]
      BY ONLY <1>12, <3>1, SliceShape
    <3> QED BY <2>1, <3>2
  <2>3. ASSUME NEW j \in 1..Len(y) PROVE y[j] = s[j]
    <3>1. (x \o y)[Len(x) + j] = y[j]
      BY ConcatShape
    <3>2. Len(x) + j \in 1..(c - a) /\ j \in 1..(c - b) /\ a + (Len(x) + j) = b + j
      BY <1>1, <1>2, <1>4, <1>5
    <3> QED BY <1>1, <1>3, <2>2, <3>1, <3>2
  <2>4. Len(s) = Len(y)
    BY <1>5, <2>2
  <2> QED BY <2>1, <2>2, <2>3, <2>4
<1>9. a \in Nat /\ b \in Nat /\ c \in Nat /\ a <= b /\ b <= c /\ c <= Len(data) /\ b <= Len(data)
  BY <1>1, <1>5
<1>10. Covers(data, a, b, x)
  BY <1>6, <1>9 DEF Covers
<1>11. Covers(data, b, c, y)
  BY <1>7, <1>9 DEF Covers
<1> QED BY <1>10, <1>11

\* A list of byte strings, flattened.
LEMMA FlatBytes ==
  ASSUME NEW s \in Seq(Seq(Byte))
  PROVE  FlattenSeq(s) \in Seq(Byte)
<1>1. PICK x : x = <<>>
  OBVIOUS
<1>2. x \in Seq(Byte)
  BY <1>1
<1> QED BY <1>2, FlattenCons

\* Where piece k ends.
EndOf(s, k) == Len(FlatPrefix(s, k))

\* Pieces put together are found again where they were put.
LEMMA PiecesCover ==
  ASSUME NEW s \in Seq(Seq(Byte))
  PROVE  /\ FlattenSeq(s) \in Seq(Byte)
         /\ EndOf(s, 0) = 0 /\ EndOf(s, Len(s)) = Len(FlattenSeq(s))
         /\ \A k \in 0..Len(s) : EndOf(s, k) \in 0..Len(FlattenSeq(s))
         /\ \A k \in 0..(Len(s) - 1) :
               /\ Covers(FlattenSeq(s), EndOf(s, k), EndOf(s, k + 1), s[k + 1])
               /\ EndOf(s, k + 1) = EndOf(s, k) + Len(s[k + 1])
<1>1. PICK n : n = Len(s)
  OBVIOUS
<1>2. n \in Nat /\ \A i \in 1..n : s[i] \in Seq(Byte)
  BY <1>1
<1>3. PICK whole : whole = FlattenSeq(s)
  OBVIOUS
<1>4. whole \in Seq(Byte)
  BY <1>3, FlatBytes
<1>5. FlatPrefix(s, n) = whole
  <2>1. s = [i \in 1..n |-> s[i]]
    BY <1>1
  <2> QED BY <1>3, <2>1 DEF FlatPrefix
<1>6. FlatPrefix(s, 0) = <<>>
  BY FlatPrefixEmpty
<1>7. ASSUME NEW k \in 0..(n - 1)
      PROVE  /\ FlatPrefix(s, k) \in Seq(Byte) /\ s[k + 1] \in Seq(Byte)
             /\ FlatPrefix(s, k + 1) = FlatPrefix(s, k) \o s[k + 1]
  <2>1. k \in Nat /\ \A i \in 1..(k + 1) : s[i] \in Seq(Byte)
    BY <1>2
  <2> QED BY <2>1, FlatPrefixNext
<1> DEFINE Has(k) == Covers(whole, 0, EndOf(s, k), FlatPrefix(s, k))
           T == {j \in 0..n : Has(n - j)}
<1>8. 0..n \subseteq T
  <2>1. 0 \in T
    <3>1. Slice(whole, 0, Len(whole)) = whole /\ Len(whole) \in Nat
      BY <1>4, SliceWhole
    <3>2. Covers(whole, 0, Len(whole), whole)
      BY <1>4, <3>1 DEF Covers
    <3>3. n - 0 = n
      BY <1>2
    <3> QED BY <1>2, <1>5, <3>2, <3>3 DEF EndOf
  <2>2. ASSUME NEW j \in 0..(n - 1), j \in T PROVE j + 1 \in T
    <3>1. PICK k : k = n - (j + 1)
      OBVIOUS
    <3>2. k \in 0..(n - 1) /\ k + 1 = n - j
      BY <1>2, <3>1
    <3>3. Covers(whole, 0, EndOf(s, k + 1), FlatPrefix(s, k) \o s[k + 1])
      BY <1>7, <2>2, <3>2
    <3>5. EndOf(s, k) = 0 + Len(FlatPrefix(s, k))
      BY <1>7, <3>2 DEF EndOf
    <3>6. Has(k)
      BY <1>4, <1>7, <3>2, <3>3, <3>5, CoversParts
    <3> QED BY <1>2, <2>2, <3>1, <3>6
  <2> HIDE DEF T
  <2>3. 0 \in Int /\ n \in Int /\ (0 <= n => 0 \in T)
    BY <1>2, <2>1
  <2> QED BY <2>2, <2>3, IntervalInduction
<1>9. ASSUME NEW k \in 0..n PROVE Has(k)
  <2>1. n - k \in 0..n /\ n - (n - k) = k
    BY <1>2
  <2> QED BY <1>8, <2>1
<1>10. ASSUME NEW k \in 0..(n - 1)
       PROVE  Covers(whole, EndOf(s, k), EndOf(s, k + 1), s[k + 1])
              /\ EndOf(s, k + 1) = EndOf(s, k) + Len(s[k + 1])
  <2>1. k + 1 \in 0..n
    BY <1>2
  <2>2. Covers(whole, 0, EndOf(s, k + 1), FlatPrefix(s, k) \o s[k + 1])
    BY <1>7, <1>9, <2>1
  <2>4. EndOf(s, k) = 0 + Len(FlatPrefix(s, k))
    BY <1>7 DEF EndOf
  <2>3. Covers(whole, EndOf(s, k), EndOf(s, k + 1), s[k + 1])
    BY <1>4, <1>7, <2>2, <2>4, CoversParts
  <2>5. Len(FlatPrefix(s, k) \o s[k + 1]) = Len(FlatPrefix(s, k)) + Len(s[k + 1])
    BY <1>7, ConcatShape
  <2>6. EndOf(s, k + 1) = EndOf(s, k) + Len(s[k + 1])
    BY <1>7, <2>5 DEF EndOf
  <2> QED BY <2>3, <2>6
<1>11. ASSUME NEW k \in 0..n PROVE EndOf(s, k) \in 0..Len(whole)
  <2>1. Covers(whole, 0, EndOf(s, k), FlatPrefix(s, k))
    BY <1>9
  <2> QED BY <1>4, <2>1 DEF Covers
<1>12. EndOf(s, 0) = 0 /\ EndOf(s, n) = Len(whole)
  BY <1>5, <1>6 DEF EndOf
<1> QED BY <1>1, <1>3, <1>4, <1>10, <1>11, <1>12


\* The reader finds the entries of e where the pieces in s begin.
Placed(s, e, Stop, item, next) ==
  /\ Len(e) = Len(s)
  /\ \A k \in 0..(Len(s) - 1) :
        /\ EndOf(s, k) \notin Stop
        /\ item[EndOf(s, k)] = e[k + 1] /\ next[EndOf(s, k)] = EndOf(s, k + 1)

\* A list that was written piece by piece, each where the reader looks for it,
\* is what the reader returns.
LEMMA ReadsBack ==
  ASSUME NEW s \in Seq(Seq(Byte)), NEW data, data = FlattenSeq(s),
         NEW V, NEW e \in Seq(V),
         NEW broken, NEW Stop, NEW item, NEW next, NEW c,
         Walked(c, Len(data), Stop, Ends(Len(data), broken), item, next),
         Len(data) \in Stop, Placed(s, e, Stop, item, next)
  PROVE  c[0] = e
<1>1. PICK n : n = Len(s)
  OBVIOUS
<1>0. Len(e) = Len(s) /\ \A k \in 0..(Len(s) - 1) :
         /\ EndOf(s, k) \notin Stop
         /\ item[EndOf(s, k)] = e[k + 1] /\ next[EndOf(s, k)] = EndOf(s, k + 1)
  BY DEF Placed
<1>2. n \in Nat /\ n = Len(e)
  BY <1>0, <1>1
<1>7. /\ data \in Seq(Byte) /\ EndOf(s, 0) = 0 /\ EndOf(s, n) = Len(data)
      /\ \A k \in 0..n : EndOf(s, k) \in 0..Len(data)
  BY <1>1, PiecesCover
<1>9. ASSUME NEW p \in 0..Len(data)
      PROVE  c[p] = IF p \in Stop THEN Ends(Len(data), broken)[p]
                    ELSE <<item[p]>> \o c[next[p]]
  BY DEF Walked
<1> DEFINE T == {j \in 0..n : c[EndOf(s, n - j)] = Slice(e, n - j, n)}
<1>10. 0..n \subseteq T
  <2>1. 0 \in T
    <3>1. Len(data) \in 0..Len(data) /\ Len(data) \in Nat
      BY <1>7
    <3>3. c[Len(data)] = <<>>
      BY <1>9, <3>1 DEF Ends
    <3>4. Slice(e, n, n) = <<>>
      BY <1>2, SliceEmpty
    <3>5. n - 0 = n
      BY <1>2
    <3> QED BY <1>2, <1>7, <3>3, <3>4, <3>5
  <2>2. ASSUME NEW j \in 0..(n - 1), j \in T PROVE j + 1 \in T
    <3>1. PICK k : k = n - (j + 1)
      OBVIOUS
    <3>2. k \in 0..(n - 1) /\ k + 1 = n - j /\ k + 1 \in 1..n /\ k \in Nat /\ k + 1 <= n /\ k \in 0..n
      BY <1>2, <3>1
    <3>3. PICK x, p, q : x = e[k + 1] /\ p = EndOf(s, k) /\ q = EndOf(s, k + 1)
      OBVIOUS
    <3>7. p \in 0..Len(data) /\ p \notin Stop /\ item[p] = x /\ next[p] = q
      BY <1>0, <1>1, <1>7, <3>2, <3>3
    <3>8. c[p] = <<x>> \o c[q]
      BY <1>9, <3>7
    <3>9. c[q] = Slice(e, k + 1, n)
      BY <2>2, <3>2, <3>3
    <3>10. Slice(e, k, k + 1) = <<x>>
      <4>1. k \in 0..(Len(e) - 1)
        BY <1>2, <3>2
      <4>2. Slice(e, k, k + 1) = <<e[k + 1]>>
        BY <4>1, SliceOne
      <4> QED BY <3>3, <4>2
    <3>11. Slice(e, k, k + 1) \o Slice(e, k + 1, n) = Slice(e, k, n)
      <4>1. PICK m : m = k + 1
        OBVIOUS
      <4>2. k \in Nat /\ m \in Nat /\ n \in Nat /\ k <= m /\ m <= n /\ n <= Len(e)
        BY <1>2, <3>2, <4>1
      <4>3. Slice(e, k, m) \o Slice(e, m, n) = Slice(e, k, n)
        BY <4>2, SliceJoin
      <4> QED BY <4>1, <4>3
    <3>12. c[p] = Slice(e, k, n)
      BY <3>8, <3>9, <3>10, <3>11
    <3> QED BY <1>2, <3>1, <3>2, <3>3, <3>12
  <2> HIDE DEF T
  <2>3. 0 \in Int /\ n \in Int /\ (0 <= n => 0 \in T)
    BY <1>2, <2>1
  <2> QED BY <2>2, <2>3, IntervalInduction
<1>11. n - n = 0 /\ n \in 0..n
  BY <1>2
<1>12. n \in T
  BY <1>10, <1>11
<1>13. c[0] = Slice(e, 0, Len(e))
  BY <1>2, <1>7, <1>11, <1>12
<1> QED BY <1>13, SliceWhole
=============================================================================
