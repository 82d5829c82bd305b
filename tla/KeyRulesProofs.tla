---------------------------- MODULE KeyRulesProofs -----------------------------
(***************************************************************************)
(* Theorems about KeyRules, for every key and every byte string: what the  *)
(* DER reader accepts it has read in the only way there is, and a key that *)
(* its owner restricted is, once its certificate is loaded, used only when *)
(* its restrictions permit it and refused only when they do not.           *)
(*                                                                         *)
(* For the second, Writes says that bytes are the DER of a list of         *)
(* elements; what is written is what is read (WritesRead), and what is     *)
(* read was written (ReadWrites).  So the parameters PermittedAny lists    *)
(* byte by byte are a PermittedList of elements, and the invariant of the  *)
(* loop, Looked, says what it has found among those it has passed.  What   *)
(* PermittedAny has beyond Permitted never gets past the load              *)
(* (DefaultSpelled, LoadedHolds).                                          *)
(***************************************************************************)
EXTENDS KeyRules, DataLemmas

\* Half is a number.
LEMMA HalfIsNat == Half \in Nat /\ Base \in Nat \ {0}
<1>1. Base \in Nat \ {0} /\ 2 \in Nat \ {0}
  BY BaseAssumption
<1>2. Base \div 2 \in Nat
  BY <1>1, QuotientExists
<1> QED BY <1>1, <1>2 DEF Half

\* What an element is made of: where it is, its first bytes, its length.
Parts(encoded, p) ==
    /\ p + 2 <= ValueAt(encoded, p)
    /\ ValueAt(encoded, p) <= NextAt(encoded, p)
    /\ NextAt(encoded, p) <= Len(encoded)
    /\ {ValueAt(encoded, p), SizeAt(encoded, p), NextAt(encoded, p)} \subseteq Nat
    /\ {TagAt(encoded, p), FirstAt(encoded, p)} \subseteq Byte

\* An element lies inside the data, and ends after it begins.
LEMMA ElementParts ==
  ASSUME NEW encoded \in Seq(Byte), NEW p \in 0..(Len(encoded) - 1), IsElement(encoded, p)
  PROVE  Parts(encoded, p)
<1> DEFINE n == Len(encoded)
           count == FirstAt(encoded, p) - Half
<1>1. n \in Nat /\ Base \in Nat \ {0} /\ Half \in Nat
  BY HalfIsNat
<1>2. p + 1 \in 1..n /\ p + 2 \in 1..n
  BY DEF IsElement
<1>3. TagAt(encoded, p) \in Byte /\ FirstAt(encoded, p) \in Byte
  BY <1>2 DEF TagAt, FirstAt
<1>4. FirstAt(encoded, p) \in Nat
  BY <1>1, <1>3 DEF Byte
<1>5. CASE IsLong(encoded, p)
  <2>1. /\ count \in 1..MaxLengthBytes
        /\ Len(LengthDigits(encoded, p)) = count
        /\ SizeAt(encoded, p) <= n - ValueAt(encoded, p)
        /\ ValueAt(encoded, p) = p + 2 + count
        /\ SizeAt(encoded, p) = Number(LengthDigits(encoded, p))
    BY <1>5 DEF IsElement, ValueAt, SizeAt
  <2>2. count \in Nat
    BY <2>1, BoundsAssumption
  <2>3. LengthDigits(encoded, p) \in Seq(Byte)
    <3>1. LengthDigits(encoded, p)
            = SubSeq(encoded, p + 2 + 1, IF p + 2 + count < n THEN p + 2 + count ELSE n)
      BY DEF LengthDigits, Slice
    <3> HIDE DEF count, n
    <3>2. (IF p + 2 + count < n THEN p + 2 + count ELSE n) \in Nat
      BY <1>1, <2>2
    <3> QED BY <1>1, <1>2, <3>1, <3>2 DEF n
  <2>4. SizeAt(encoded, p) \in Nat
    BY <2>1, <2>3, NumberIsNat
  <2> HIDE DEF count
  <2> QED BY <1>1, <1>2, <1>3, <2>1, <2>2, <2>4 DEF Parts, NextAt
<1>6. CASE ~IsLong(encoded, p)
  <2>1. ValueAt(encoded, p) = p + 2 /\ SizeAt(encoded, p) = FirstAt(encoded, p)
    BY <1>6 DEF ValueAt, SizeAt
  <2>2. SizeAt(encoded, p) <= n - ValueAt(encoded, p)
    BY DEF IsElement
  <2> QED BY <1>1, <1>2, <1>3, <1>4, <2>1, <2>2 DEF Parts, NextAt
<1> QED BY <1>5, <1>6

\* A length that the reader accepts is the one that is written for it.
LEMMA LongLength ==
  ASSUME NEW digits \in Seq(Byte), Len(digits) \in 1..MaxLengthBytes, IsNeededLength(digits)
  PROVE  DerLength(Number(digits)) = <<Half + Len(digits)>> \o digits
<1> DEFINE n == Number(digits)
           Fits(w) == w \in 1..MaxLengthBytes /\ Number(Digits(w, n)) = n /\ Digits(w, n)[1] # 0
           width == CHOOSE w \in 1..MaxLengthBytes :
                       Number(Digits(w, n)) = n /\ Digits(w, n)[1] # 0
<1>1. n \in Nat /\ ~(n < Half) /\ digits[1] # 0
  BY NumberIsNat, HalfIsNat DEF IsNeededLength
<1>2. Digits(Len(digits), n) = digits
  BY DigitsOfNumber
<1>3. Fits(width)
  <2>1. Fits(Len(digits))
    BY <1>1, <1>2
  <2> HIDE DEF n
  <2> QED BY <2>1
<1>4. ASSUME NEW w, Fits(w) PROVE w = Len(digits)
  <2> DEFINE other == Digits(w, n)
  <2>1. w \in Nat \ {0}
    BY <1>4, BoundsAssumption
  <2> HIDE DEF n
  <2>2. other \in Seq(Byte) /\ Len(other) = w
    BY <1>1, <2>1, DigitsShape
  <2>3. other # <<>> /\ digits # <<>>
    BY <2>1, <2>2
  <2>4. other[1] # 0 /\ Number(other) = Number(digits)
    BY <1>4 DEF n
  <2> HIDE DEF other
  <2>5. Len(other) = Len(digits)
    BY <1>1, <2>2, <2>3, <2>4, WidthIsUnique
  <2> QED BY <2>2, <2>5
<1>5. DerLength(n) = <<Half + width>> \o Digits(width, n)
  BY <1>1 DEF DerLength
<1> HIDE DEF width, n
<1>6. width = Len(digits)
  <2> HIDE DEF Fits
  <2> QED BY <1>3, <1>4
<1> QED BY <1>2, <1>5, <1>6 DEF n

\* An element, written again, is what was read.
LEMMA ElementIsExact ==
  ASSUME NEW encoded \in Seq(Byte), NEW p \in 0..(Len(encoded) - 1), IsElement(encoded, p)
  PROVE  Der(Element(encoded, p).tag, Element(encoded, p).value)
           = Slice(encoded, p, NextAt(encoded, p))
<1> DEFINE n == Len(encoded)
           tag == TagAt(encoded, p)
           first == FirstAt(encoded, p)
           at == ValueAt(encoded, p)
           size == SizeAt(encoded, p)
           next == NextAt(encoded, p)
           value == Slice(encoded, at, next)
           digits == LengthDigits(encoded, p)
<1>1. /\ p + 2 <= at /\ at <= next /\ next <= n
      /\ at \in Nat /\ size \in Nat /\ next \in Nat /\ tag \in Byte /\ first \in Byte
  BY ElementParts DEF Parts
<1>2. n \in Nat /\ p \in Nat /\ Half \in Nat /\ first \in Nat /\ next = at + size
  BY <1>1, HalfIsNat DEF NextAt, Byte
<1>3. Der(Element(encoded, p).tag, Element(encoded, p).value)
        = <<tag>> \o DerLength(Len(value)) \o value
  BY DEF Der, Element
<1>4. value \in Seq(Byte) /\ Len(value) = size
  <2> HIDE DEF at, next, size, n
  <2>1. value \in Seq(Byte) /\ Len(value) = next - at
    BY <1>1, SliceShape DEF n
  <2> QED BY <1>1, <1>2, <2>1
<1>5. <<tag>> = Slice(encoded, p, p + 1) /\ <<first>> = Slice(encoded, p + 1, p + 2)
  <2>1. p + 1 \in 0..(n - 1)
    BY <1>1, <1>2
  <2>2. Slice(encoded, p, p + 1) = <<encoded[p + 1]>>
    BY SliceOne
  <2>3. PICK q : q = p + 1
    OBVIOUS
  <2>4. Slice(encoded, q, q + 1) = <<encoded[q + 1]>>
    BY <2>1, <2>3, SliceOne
  <2>5. q + 1 = p + 2
    BY <1>2, <2>3
  <2> QED BY <2>2, <2>3, <2>4, <2>5 DEF TagAt, FirstAt
<1>6. DerLength(size) = Slice(encoded, p + 1, at)
  <2>1. CASE IsLong(encoded, p)
    <3>1. /\ first - Half \in 1..MaxLengthBytes /\ Len(digits) = first - Half
          /\ IsNeededLength(digits) /\ size = Number(digits)
          /\ at = p + 2 + (first - Half)
          /\ digits = Slice(encoded, p + 2, at)
      BY <2>1 DEF IsElement, SizeAt, ValueAt, LengthDigits
    <3> HIDE DEF tag, first, at, size, next, digits, n
    <3>2. digits \in Seq(Byte)
      <4>1. p + 2 \in Nat /\ at <= n
        BY <1>1, <1>2
      <4> QED BY <1>1, <3>1, <4>1, SliceShape DEF n
    <3>3. DerLength(size) = <<Half + Len(digits)>> \o digits
      BY <3>1, <3>2, LongLength
    <3>4. Half + Len(digits) = first
      BY <1>2, <3>1
    <3>5. Slice(encoded, p + 1, p + 2) \o Slice(encoded, p + 2, at) = Slice(encoded, p + 1, at)
      <4>1. /\ p + 1 \in Nat /\ p + 2 \in Nat /\ p + 1 <= p + 2 /\ p + 2 <= at
            /\ at <= Len(encoded) /\ at \in Nat
        BY <1>1, <1>2 DEF n
      <4>2. PICK a, b : a = p + 1 /\ b = p + 2
        OBVIOUS
      <4>3. Slice(encoded, a, b) \o Slice(encoded, b, at) = Slice(encoded, a, at)
        BY <4>1, <4>2, SliceJoin
      <4> QED BY <4>2, <4>3
    <3> QED BY <1>5, <3>1, <3>3, <3>4, <3>5
  <2>2. CASE ~IsLong(encoded, p)
    <3>1. size = first /\ at = p + 2 /\ ~(first >= Half)
      BY <2>2 DEF SizeAt, ValueAt, IsLong
    <3> HIDE DEF tag, first, at, size, next, digits, n
    <3>2. size < Half
      BY <1>2, <3>1
    <3>3. DerLength(size) = <<size>>
      BY <3>2 DEF DerLength
    <3> QED BY <1>5, <3>1, <3>3
  <2> QED BY <2>1, <2>2
<1> HIDE DEF tag, first, at, size, next, digits, n
<1>7. Slice(encoded, p, p + 1) \o Slice(encoded, p + 1, at) = Slice(encoded, p, at)
  <2>1. /\ p + 1 \in Nat /\ p <= p + 1 /\ p + 1 <= at /\ at <= Len(encoded) /\ at \in Nat
    BY <1>1, <1>2 DEF n
  <2>2. PICK a : a = p + 1
    OBVIOUS
  <2>3. Slice(encoded, p, a) \o Slice(encoded, a, at) = Slice(encoded, p, at)
    BY <1>2, <2>1, <2>2, SliceJoin
  <2> QED BY <2>2, <2>3
<1>8. Slice(encoded, p, at) \o Slice(encoded, at, next) = Slice(encoded, p, next)
  <2>1. p <= at /\ next <= Len(encoded)
    BY <1>1, <1>2 DEF n
  <2> QED BY <1>1, <1>2, <2>1, SliceJoin
<1>9. Der(Element(encoded, p).tag, Element(encoded, p).value)
        = (<<tag>> \o DerLength(size)) \o value
  BY <1>3, <1>4
<1> QED BY <1>5, <1>6, <1>7, <1>8, <1>9 DEF next

-----------------------------------------------------------------------------
(* The reader of elements *)

\* Where the reader stops, and what it finds elsewhere.
Stops(encoded) == {p \in 0..Len(encoded) : p = Len(encoded) \/ ~IsElement(encoded, p)}
Items(encoded) == [p \in 0..Len(encoded) |-> Element(encoded, p)]
Nexts(encoded) == [p \in 0..Len(encoded) |-> NextAt(encoded, p)]
Pieces(encoded) ==
    [p \in 0..Len(encoded) |-> Der(Element(encoded, p).tag, Element(encoded, p).value)]
\* What the reader collects: tags and values, and Broken.
Elements == [tag : Nat, value : Seq(Byte)]

\* It is a reader in the sense of DataLemmas.
LEMMA ElementsReader ==
  ASSUME NEW encoded \in Seq(Byte)
  PROVE  Reader(encoded, Elements, Stops(encoded), Ends(Len(encoded), Broken),
                Items(encoded), Nexts(encoded), Pieces(encoded))
<1> DEFINE n == Len(encoded)
<1>1. n \in Nat
  OBVIOUS
<1>2. ASSUME NEW p \in (0..n) \ Stops(encoded)
      PROVE  /\ Nexts(encoded)[p] \in (p + 1)..n
             /\ Items(encoded)[p] \in Elements
             /\ Covers(encoded, p, Nexts(encoded)[p], Pieces(encoded)[p])
  <2>1. p \in 0..n /\ p \in 0..(n - 1) /\ IsElement(encoded, p)
    BY <1>1 DEF Stops
  <2> DEFINE at == ValueAt(encoded, p)
             next == NextAt(encoded, p)
  <2>2. /\ at \in Nat /\ next \in Nat /\ TagAt(encoded, p) \in Byte
        /\ p + 2 <= at /\ at <= next /\ next <= n
    BY <2>1, ElementParts DEF Parts
  <2>3. Element(encoded, p) \in Elements
    <3> HIDE DEF at, next
    <3>1. Slice(encoded, at, next) \in Seq(Byte)
      BY <2>2, SliceShape
    <3>2. TagAt(encoded, p) \in Nat
      BY <2>2, HalfIsNat DEF Byte
    <3> QED BY <3>1, <3>2 DEF Element, Elements, at, next
  <2>4. Covers(encoded, p, next, Slice(encoded, p, next))
    <3> HIDE DEF at, next
    <3>1. p \in Nat /\ p <= next
      BY <2>1, <2>2
    <3> QED BY <2>2, <3>1, SliceCovers
  <2>5. /\ Nexts(encoded)[p] = next /\ Items(encoded)[p] = Element(encoded, p)
        /\ Pieces(encoded)[p] = Slice(encoded, p, next)
    BY <2>1, ElementIsExact DEF Nexts, Items, Pieces
  <2> HIDE DEF at, next
  <2> QED BY <1>1, <2>1, <2>2, <2>3, <2>4, <2>5
<1>3. WalksIn(n, Stops(encoded), Nexts(encoded))
  BY <1>2 DEF WalksIn, Stops
<1>4. ASSUME NEW p \in Stops(encoded) PROVE Ends(n, Broken)[p] \in Seq(Elements)
  <2>1. Broken \in Elements
    BY HalfIsNat DEF Broken, Elements
  <2>2. PICK x : x = Broken
    OBVIOUS
  <2>3. <<x>> \in Seq(Elements) /\ <<>> \in Seq(Elements) /\ p \in 0..n
    BY <2>1, <2>2 DEF Stops
  <2> QED BY <2>2, <2>3 DEF Ends
<1> QED BY <1>2, <1>3, <1>4 DEF Reader

\* What DerElements computes.
LEMMA ElementsWalk ==
  ASSUME NEW encoded \in Seq(Byte)
  PROVE  \E c : /\ Walked(c, Len(encoded), Stops(encoded), Ends(Len(encoded), Broken),
                          Items(encoded), Nexts(encoded))
                /\ DerElements(encoded) = c[0]
<1> DEFINE n == Len(encoded)
           Is(f) == Walked(f, n, Stops(encoded), Ends(n, Broken), Items(encoded),
                           Nexts(encoded))
           Walk(f) == f = [p \in 0..n |->
                              IF p = n THEN <<>>
                              ELSE IF ~IsElement(encoded, p) THEN <<Broken>>
                              ELSE <<Element(encoded, p)>> \o f[NextAt(encoded, p)]]
<1>1. n \in Nat
  OBVIOUS
<1>2. \E f : Is(f)
  <2>1. WalksIn(n, Stops(encoded), Nexts(encoded))
    BY ElementsReader DEF Reader
  <2> HIDE DEF n
  <2> QED BY <1>1, <2>1, WalkRecursion
<1>3. ASSUME NEW f PROVE Is(f) <=> Walk(f)
  <2>1. \A p \in 0..n :
          (IF p \in Stops(encoded) THEN Ends(n, Broken)[p]
           ELSE <<Items(encoded)[p]>> \o f[Nexts(encoded)[p]])
            = IF p = n THEN <<>>
              ELSE IF ~IsElement(encoded, p) THEN <<Broken>>
              ELSE <<Element(encoded, p)>> \o f[NextAt(encoded, p)]
    BY DEF Stops, Ends, Items, Nexts
  <2> QED BY <2>1 DEF Walked
<1> DEFINE c == CHOOSE f : Walk(f)
<1>4. Walk(c)
  <2>1. \E f : Walk(f)
    <3> HIDE DEF Is, Walk
    <3> QED BY <1>2, <1>3
  <2> HIDE DEF Walk
  <2> QED BY <2>1
<1>5. DerElements(encoded) = c[0]
  BY DEF DerElements
<1> HIDE DEF c, Walk, Is
<1>6. Is(c)
  BY <1>3, <1>4
<1> QED BY <1>5, <1>6 DEF Is

\* Whatever the data: when the reader accepts it, it has read it exactly.
LEMMA ReaderIsExact ==
  ASSUME NEW encoded \in Seq(Byte), IsDer(encoded)
  PROVE  LET elements == DerElements(encoded)
         IN  encoded = FlattenSeq([i \in DOMAIN elements |->
                                      Der(elements[i].tag, elements[i].value)])
<1>1. PICK c : /\ Walked(c, Len(encoded), Stops(encoded), Ends(Len(encoded), Broken),
                         Items(encoded), Nexts(encoded))
               /\ DerElements(encoded) = c[0]
  BY ElementsWalk
<1>2. Broken \notin ToSet(c[0])
  BY <1>1 DEF IsDer
<1>3. PICK path : ReadAll(encoded, Stops(encoded), Items(encoded), Pieces(encoded), path, c[0])
  BY <1>1, <1>2, ElementsReader, ReadToEnd
<1> DEFINE P == (0..Len(encoded)) \ Stops(encoded)
           e == Along(Items(encoded), path)
<1>4. path \in Seq(P) /\ c[0] = e /\ encoded = FlattenSeq(Along(Pieces(encoded), path))
  BY <1>3 DEF ReadAll
<1>5. [i \in DOMAIN e |-> Der(e[i].tag, e[i].value)] = Along(Pieces(encoded), path)
  <2>1. \A i \in 1..Len(path) : path[i] \in 0..Len(encoded)
    BY <1>4
  <2>2. \A i \in 1..Len(path) :
           Der(Items(encoded)[path[i]].tag, Items(encoded)[path[i]].value)
             = Pieces(encoded)[path[i]]
    BY <2>1 DEF Items, Pieces
  <2>3. DOMAIN e = 1..Len(path) /\ \A i \in 1..Len(path) : e[i] = Items(encoded)[path[i]]
    BY DEF Along
  <2> HIDE DEF e
  <2>4. [i \in DOMAIN e |-> Der(e[i].tag, e[i].value)]
          = [i \in 1..Len(path) |-> Pieces(encoded)[path[i]]]
    BY <2>2, <2>3
  <2> QED BY <2>4 DEF Along
<1> QED BY <1>1, <1>4, <1>5

-----------------------------------------------------------------------------
(* The keys *)

\* The algorithm of a key is a byte string: the key never changes.
LeafInv == leaf \in Leaves

\* No step exchanges the key.
LEMMA LeafStays == Spec => []LeafInv
<1>1. Init => LeafInv
  BY DEF Init, LeafInv
<1>2. LeafInv /\ [Next]_vars => LeafInv'
  BY DEF LeafInv, Next, vars, Load, LoadFails, Start, ReadAlgorithm, ReadHash, ReadMaskGeneration,
         ReadSaltLength, ReadTrailer, RefuseParameter, EndParameters, CheckSignature, Over,
         GoTo, Seen
<1> QED BY <1>1, <1>2, PTL DEF Spec

\* What the DER reader accepts it has read in the only way there is: the
\* elements, written again with the lengths DER prescribes, are the bytes that
\* were read (_der_elements, verify.py:193-217), for every key.
THEOREM DerReadExactly == Spec => []DerIsExact
<1>1. LeafInv => DerIsExact
  <2> SUFFICES ASSUME LeafInv, IsDer(leaf.algorithm) PROVE DerIsExact
    BY DEF DerIsExact
  <2> DEFINE encoded == leaf.algorithm
  <2>1. encoded \in Seq(Byte)
    BY LeavesAssumption DEF LeafInv, IsKey, Byte
  <2> HIDE DEF encoded
  <2>2. IsDer(encoded)
    BY DEF encoded
  <2> QED BY <2>1, <2>2, ReaderIsExact DEF DerIsExact, encoded
<1> QED BY <1>1, LeafStays, PTL

\* 128, to which a byte is compared.
LEMMA HalfIs == Half = 128 /\ Base = 256
<1>1. Base = 256 /\ 256 \div 2 = 128
  BY BoundsAssumption
<1> QED BY <1>1 DEF Half

\* A length of less than 64 kB.
IsShort(n) == n \in Nat /\ n < 65536

\* How a length of up to 64 kB is written: f is the first byte, d the others.
IsLongForm(n, f, d) ==
    /\ f \in Byte /\ f = Half + Len(d)
    /\ d \in Seq(Byte) /\ (Len(d) = 1 \/ Len(d) = 2)
    /\ Number(d) = n /\ IsNeededLength(d)

\* One or two bytes of length are not too many.
LEMMA WidthFits ==
  ASSUME NEW k, k = 1 \/ k = 2
  PROVE  k \in 1..MaxLengthBytes /\ Half + k \in Byte /\ (Half + k) - Half = k /\ Half + k >= Half
<1>1. k \in 1..MaxLengthBytes
  BY BoundsAssumption
<1>2. Half + k \in Byte /\ (Half + k) - Half = k /\ Half + k >= Half
  BY HalfIs DEF Byte
<1> QED BY <1>1, <1>2

\* A number of one or two bytes that needs them.
LEMMA LongForm ==
  ASSUME NEW n \in Nat, n >= 128, NEW d \in Seq(Byte), Len(d) = 1 \/ Len(d) = 2,
         Number(d) = n, d[1] # 0, NEW f, f = Half + Len(d)
  PROVE  IsLongForm(n, f, d) /\ DerLength(n) = <<f>> \o d
<1>0. Len(d) = 1 \/ Len(d) = 2
  OBVIOUS
<1>1. Len(d) \in 1..MaxLengthBytes /\ Half + Len(d) \in Byte
  BY ONLY <1>0, WidthFits
<1>2. IsNeededLength(d)
  BY HalfIs DEF IsNeededLength
<1>3. DerLength(Number(d)) = <<Half + Len(d)>> \o d
  BY <1>1, <1>2, LongLength
<1>4. f \in Byte
  BY <1>1
<1> QED BY <1>2, <1>3, <1>4 DEF IsLongForm

\* The length of up to 64 kB, as it is written.
LEMMA LengthWritten ==
  ASSUME NEW n \in Nat, IsShort(n)
  PROVE  /\ n < 128 => DerLength(n) = <<n>>
         /\ n >= 128 => \E f, d : IsLongForm(n, f, d) /\ DerLength(n) = <<f>> \o d
<1>1. ASSUME n < 128 PROVE DerLength(n) = <<n>>
  BY <1>1, HalfIs DEF DerLength
<1>2. n < 65536
  BY SMT DEF IsShort
<1>3. ASSUME n >= 128, n < 256
      PROVE  \E f, d : IsLongForm(n, f, d) /\ DerLength(n) = <<f>> \o d
  <2>1. PICK d : d = Digits(1, n)
    OBVIOUS
  <2>0. 1 \in 1..3 /\ 1 \in 1..1 /\ 1 \in Nat /\ n \in Nat
    OBVIOUS
  <2>2. d \in Seq(Byte) /\ Len(d) = 1
    BY ONLY <2>0, <2>1, DigitsShape
  <2>3. d[1] = n % Base
    BY ONLY <2>0, <2>1, DigitsOf
  <2>4. FitsIn(1, n)
    BY <1>3, HalfIs, SmallNumbersFit
  <2>5. d[1] # 0
    BY <1>3, <2>3, HalfIs
  <2>6. Number(d) = n
    BY <2>1, <2>4 DEF FitsIn
  <2>7. PICK f : f = Half + Len(d)
    OBVIOUS
  <2>8. IsLongForm(n, f, d) /\ DerLength(n) = <<f>> \o d
    BY ONLY <1>3, <2>0, <2>2, <2>5, <2>6, <2>7, LongForm
  <2> QED BY <2>8
<1>4. ASSUME n >= 256
      PROVE  \E f, d : IsLongForm(n, f, d) /\ DerLength(n) = <<f>> \o d
  <2>1. PICK d : d = Digits(2, n)
    OBVIOUS
  <2>0. 2 \in 1..3 /\ 2 \in 1..2 /\ 2 \in Nat /\ n \in Nat /\ 2 - 1 = 1
    OBVIOUS
  <2>2. d \in Seq(Byte) /\ Len(d) = 2
    BY ONLY <2>0, <2>1, DigitsShape
  <2>3. d[2 - 1] = (n \div Base) % Base
    BY ONLY <2>0, <2>1, DigitsOf
  <2>4. FitsIn(2, n)
    BY <1>2, HalfIs, SmallNumbersFit, SMT
  <2>5. d[1] # 0
    <3>1. (n \div 256) % 256 # 0
      BY <1>2, <1>4, SMT
    <3> QED BY <2>0, <2>3, <3>1, HalfIs
  <2>6. Number(d) = n /\ n >= 128
    BY <1>4, <2>1, <2>4 DEF FitsIn
  <2>7. PICK f : f = Half + Len(d)
    OBVIOUS
  <2>8. IsLongForm(n, f, d) /\ DerLength(n) = <<f>> \o d
    BY ONLY <2>0, <2>2, <2>5, <2>6, <2>7, LongForm
  <2> QED BY <2>8
<1>5. n < 128 \/ (n >= 128 /\ n < 256) \/ n >= 256
  OBVIOUS
<1>6. n < 128 => ~(n >= 128)
  OBVIOUS
<1>7. CASE n < 128
  BY <1>1, <1>6, <1>7
<1>8. CASE n >= 128 /\ n < 256
  BY <1>3, <1>6, <1>8
<1>9. CASE n >= 256
  <2>1. ~(n < 128)
    BY <1>9
  <2> QED BY <1>4, <1>9, <2>1
<1> QED BY <1>5, <1>7, <1>8, <1>9

\* What can be written as an element and be read again.
IsWritable(tag, value) ==
    /\ tag \in Byte /\ tag % 32 # 31
    /\ value \in Seq(Byte) /\ IsShort(Len(value))

\* An element is a byte string a little longer than its value.
LEMMA DerBytes ==
  ASSUME NEW tag, NEW value, IsWritable(tag, value)
  PROVE  /\ Der(tag, value) \in Seq(Byte)
         /\ Len(value) + 2 <= Len(Der(tag, value)) /\ Len(Der(tag, value)) <= Len(value) + 4
         /\ DerLength(Len(value)) \in Seq(Byte)
         /\ Der(tag, value) = <<tag>> \o (DerLength(Len(value)) \o value)
<1>1. PICK n, l : n = Len(value) /\ l = DerLength(Len(value))
  OBVIOUS
<1>2. n \in Nat /\ IsShort(n) /\ value \in Seq(Byte) /\ tag \in Byte
  BY <1>1 DEF IsWritable
<1>3. l \in Seq(Byte) /\ 1 <= Len(l) /\ Len(l) <= 3
  <2>1. CASE n < 128
    <3>1. l = <<n>>
      BY <1>1, <1>2, <2>1, LengthWritten
    <3>2. n \in Byte
      BY <1>2, <2>1, HalfIs DEF Byte
    <3> QED BY <3>1, <3>2
  <2>2. CASE n >= 128
    <3>1. PICK f, d : IsLongForm(n, f, d) /\ DerLength(n) = <<f>> \o d
      BY ONLY <1>2, <2>2, LengthWritten
    <3>2. f \in Byte /\ d \in Seq(Byte) /\ (Len(d) = 1 \/ Len(d) = 2)
      BY <3>1 DEF IsLongForm
    <3>3. PICK x : x = <<f>>
      OBVIOUS
    <3>4. x \in Seq(Byte) /\ Len(x) = 1 /\ l = x \o d
      BY <1>1, <3>1, <3>2, <3>3
    <3>5. x \o d \in Seq(Byte) /\ Len(x \o d) = Len(x) + Len(d)
      BY ONLY <3>2, <3>4, ConcatShape
    <3> QED BY <3>2, <3>4, <3>5
  <2> QED BY <1>2, <2>1, <2>2
<1>4. PICK t : t = <<tag>>
  OBVIOUS
<1>5. t \in Seq(Byte) /\ Len(t) = 1
  BY <1>2, <1>4
<1>10. t \in Seq(Byte) /\ l \in Seq(Byte) /\ value \in Seq(Byte)
  BY <1>2, <1>3, <1>5
<1>6. (t \o l) \o value = t \o (l \o value)
  BY ONLY <1>10, ConcatTwice
<1>7. Der(tag, value) = (t \o l) \o value
  BY <1>1, <1>4 DEF Der
<1>8. l \o value \in Seq(Byte) /\ Len(l \o value) = Len(l) + Len(value)
  BY ONLY <1>10, ConcatShape
<1>9. t \o (l \o value) \in Seq(Byte) /\ Len(t \o (l \o value)) = Len(t) + Len(l \o value)
  <2>1. PICK u : u = l \o value
    OBVIOUS
  <2>2. u \in Seq(Byte)
    BY <1>8, <2>1
  <2>3. t \o u \in Seq(Byte) /\ Len(t \o u) = Len(t) + Len(u)
    BY ONLY <1>10, <2>2, ConcatShape
  <2> QED BY <2>1, <2>3
<1> QED BY <1>1, <1>2, <1>3, <1>4, <1>5, <1>6, <1>7, <1>8, <1>9

\* The byte at an offset is what covers it.
LEMMA ByteCovered ==
  ASSUME NEW data \in Seq(Byte), NEW p, NEW q, NEW b, Covers(data, p, q, <<b>>)
  PROVE  q = p + 1 /\ data[q] = b /\ p \in 0..(Len(data) - 1)
<1>1. PICK x : x = <<b>>
  OBVIOUS
<1>2. p \in Nat /\ q \in Nat /\ p <= q /\ q <= Len(data) /\ x = Slice(data, p, q)
  BY <1>1 DEF Covers
<1>3. Len(x) = 1 /\ x[1] = b
  BY <1>1
<1>4. q - p = 1
  BY <1>2, <1>3, SliceCovers
<1>5. q = p + 1 /\ p \in 0..(Len(data) - 1)
  BY <1>2, <1>4
<1>6. Slice(data, p, p + 1) = <<data[p + 1]>>
  BY <1>5, SliceOne
<1>7. <<data[p + 1]>>[1] = data[p + 1]
  OBVIOUS
<1> QED BY <1>2, <1>3, <1>5, <1>6, <1>7

\* An element, read where it was written.
LEMMA ElementGot ==
  ASSUME NEW data \in Seq(Byte), NEW p, NEW q, NEW tag, NEW value, IsWritable(tag, value),
         Covers(data, p, q, Der(tag, value))
  PROVE  /\ p \in 0..(Len(data) - 1) /\ IsElement(data, p) /\ NextAt(data, p) = q
         /\ Element(data, p) = [tag |-> tag, value |-> value]
<1>0. tag \in Byte /\ tag % 32 # 31 /\ value \in Seq(Byte) /\ IsShort(Len(value))
      /\ Len(value) \in Nat
  BY DEF IsWritable
<1>1. PICK n, l, t : n = Len(value) /\ l = DerLength(Len(value)) /\ t = <<tag>>
  OBVIOUS
<1>2. l \in Seq(Byte) /\ Der(tag, value) = t \o (l \o value) /\ t \in Seq(Byte) /\ Len(t) = 1
  <2>1. /\ DerLength(Len(value)) \in Seq(Byte)
        /\ Der(tag, value) = <<tag>> \o (DerLength(Len(value)) \o value)
    BY ONLY IsWritable(tag, value), DerBytes
  <2>2. t \in Seq(Byte) /\ Len(t) = 1
    BY <1>0, <1>1
  <2> QED BY <1>1, <2>1, <2>2
<1>3. l \o value \in Seq(Byte)
  BY <1>0, <1>2
<1>4. PICK a : a = p + Len(t)
  OBVIOUS
<1>5. Covers(data, p, a, t) /\ Covers(data, a, q, l \o value)
  BY ONLY data \in Seq(Byte), Covers(data, p, q, Der(tag, value)), <1>2, <1>3, <1>4, CoversParts
<1>6. PICK m : m = a + Len(l)
  OBVIOUS
<1>7. Covers(data, a, m, l) /\ Covers(data, m, q, value)
  BY ONLY data \in Seq(Byte), <1>0, <1>2, <1>5, <1>6, CoversParts
<1>8. a = p + 1 /\ data[a] = tag /\ p \in 0..(Len(data) - 1)
  BY <1>1, <1>5, ByteCovered
<1>9. /\ m \in Nat /\ q \in Nat /\ a <= m /\ m <= q /\ q <= Len(data)
      /\ value = Slice(data, m, q) /\ q - m = n /\ q = m + n
  <2>1. m \in Nat /\ q \in Nat /\ m <= q /\ q <= Len(data) /\ value = Slice(data, m, q)
    BY <1>7 DEF Covers
  <2>2. Len(value) = q - m
    BY <2>1, SliceCovers
  <2>3. a <= m
    BY <1>7 DEF Covers
  <2> QED BY <1>1, <2>1, <2>2, <2>3
<1>10. TagAt(data, p) = tag /\ Len(data) \in Nat
  BY <1>8 DEF TagAt
<1>11. Half = 128
  BY HalfIs
<1>12. CASE n < 128
  <2>1. l = <<n>>
    BY <1>0, <1>1, <1>12, LengthWritten
  <2>2. m = a + 1 /\ data[m] = n
    BY <1>7, <2>1, ByteCovered
  <2>3. FirstAt(data, p) = n
    <3>1. p + 2 = m
      BY <1>8, <2>2
    <3> QED BY <2>2, <3>1 DEF FirstAt
  <2>4. ~IsLong(data, p)
    BY <1>0, <1>1, <1>11, <1>12, <2>3 DEF IsLong
  <2>5. SizeAt(data, p) = n /\ ValueAt(data, p) = m
    <3>1. p + 2 = m
      BY <1>8, <2>2
    <3> QED BY <2>3, <2>4, <3>1 DEF SizeAt, ValueAt
  <2>6. NextAt(data, p) = q
    BY <1>9, <2>5 DEF NextAt
  <2>7. Element(data, p) = [tag |-> tag, value |-> value]
    BY <1>9, <1>10, <2>5, <2>6 DEF Element
  <2>8. IsElement(data, p)
    <3>1. Len(data) - p >= 2 /\ n <= Len(data) - m
      BY <1>8, <1>9, <1>10, <2>2
    <3> QED BY <1>0, <1>10, <2>4, <2>5, <3>1 DEF IsElement
  <2> QED BY <1>8, <2>6, <2>7, <2>8
<1>13. CASE n >= 128
  <2>1. PICK x, d : IsLongForm(n, x, d) /\ DerLength(n) = <<x>> \o d
    BY ONLY <1>0, <1>1, <1>13, LengthWritten
  <2>15. /\ x \in Byte /\ x = Half + Len(d) /\ d \in Seq(Byte) /\ (Len(d) = 1 \/ Len(d) = 2)
         /\ Number(d) = n /\ IsNeededLength(d)
    BY <2>1 DEF IsLongForm
  <2>2. PICK f, b : f = <<x>> /\ b = a + Len(f)
    OBVIOUS
  <2>3. f \in Seq(Byte) /\ Len(f) = 1 /\ l = f \o d /\ x - Half = Len(d) /\ x >= Half
        /\ Len(d) \in Nat /\ Len(d) \in 1..MaxLengthBytes
    <3>4. Len(d) = 1 \/ Len(d) = 2
      BY <2>15
    <3>5. x = Half + Len(d)
      BY <2>15
    <3>1. x - Half = Len(d) /\ x >= Half /\ Len(d) \in Nat /\ Len(d) \in 1..MaxLengthBytes
      <4>1. (Half + Len(d)) - Half = Len(d) /\ Half + Len(d) >= Half /\ Len(d) \in 1..MaxLengthBytes
        BY ONLY <3>4, WidthFits
      <4> QED BY <2>15, <3>5, <4>1
    <3>2. l = f \o d
      BY <1>1, <2>1, <2>2
    <3>3. f \in Seq(Byte) /\ Len(f) = 1
      BY <2>2, <2>15
    <3> QED BY <3>1, <3>2, <3>3
  <2>4. Covers(data, a, b, f) /\ Covers(data, b, m, d)
    BY ONLY data \in Seq(Byte), <1>7, <2>15, <2>2, <2>3, CoversParts
  <2>5. b = a + 1 /\ data[b] = x
    BY <2>2, <2>4, ByteCovered
  <2>6. b \in Nat /\ d = Slice(data, b, m) /\ m - b = Len(d)
    <3>1. b \in Nat /\ b <= m /\ m \in Nat /\ m <= Len(data) /\ d = Slice(data, b, m)
      BY <2>4 DEF Covers
    <3> QED BY <3>1, SliceCovers
  <2>7. p + 2 = b /\ p + 2 + Len(d) = m
    BY <1>8, <1>9, <2>3, <2>5, <2>6
  <2>8. FirstAt(data, p) = x
    BY <2>5, <2>7 DEF FirstAt
  <2>9. IsLong(data, p) /\ FirstAt(data, p) - Half = Len(d)
    BY <2>3, <2>8 DEF IsLong
  <2>10. LengthDigits(data, p) = d
    BY <2>6, <2>7, <2>9 DEF LengthDigits
  <2>11. SizeAt(data, p) = n /\ ValueAt(data, p) = m
    BY <2>15, <2>7, <2>9, <2>10 DEF SizeAt, ValueAt
  <2>12. NextAt(data, p) = q
    BY <1>9, <2>11 DEF NextAt
  <2>13. Element(data, p) = [tag |-> tag, value |-> value]
    BY <1>9, <1>10, <2>11, <2>12 DEF Element
  <2>14. IsElement(data, p)
    <3>2. PICK all : all = Len(data)
      OBVIOUS
    <3>3. p \in 0..(all - 1) /\ m \in Nat /\ q \in Nat /\ q = m + n /\ q <= all /\ all \in Nat
          /\ a = p + 1 /\ b = a + 1 /\ b \in Nat /\ b <= all
      <4>1. b <= Len(data)
        BY <2>4 DEF Covers
      <4> QED BY <1>8, <1>9, <1>10, <2>5, <2>6, <3>2, <4>1
    <3>4. all - p >= 2 /\ n <= all - m
      BY ONLY <3>3, <1>0, <1>1
    <3>1. Len(data) - p >= 2 /\ n <= Len(data) - m
      BY <3>2, <3>4
    <3> QED BY <1>0, <1>10, <2>15, <2>3, <2>9, <2>10, <2>11, <3>1 DEF IsElement
  <2> QED BY <1>8, <2>12, <2>13, <2>14
<1> QED BY <1>0, <1>1, <1>12, <1>13

\* One element in front of a piece of a sequence.
LEMMA SliceCons ==
  ASSUME NEW S, NEW a \in Seq(S), NEW k \in Nat, NEW m, m = k + 1, m <= Len(a)
  PROVE  Slice(a, k, Len(a)) = <<a[m]>> \o Slice(a, m, Len(a)) /\ a[m] \in S
         /\ Slice(a, m, Len(a)) \in Seq(S)
<1>1. PICK n : n = Len(a)
  OBVIOUS
<1>2. n \in Nat /\ m \in Nat /\ k <= m /\ m <= n /\ n <= Len(a) /\ k \in 0..(Len(a) - 1)
      /\ m \in 1..Len(a)
  BY <1>1
<1>3. Slice(a, k, m) \o Slice(a, m, n) = Slice(a, k, n)
  BY <1>2, SliceJoin
<1>4. Slice(a, k, k + 1) = <<a[k + 1]>>
  BY <1>2, SliceOne
<1>5. m = k + 1
  OBVIOUS
<1>6. Slice(a, k, m) = <<a[m]>>
  BY <1>4, <1>5
<1>7. Slice(a, m, n) \in Seq(S)
  BY <1>2, SliceShape
<1>8. a[m] \in S
  BY <1>2
<1> QED BY <1>1, <1>3, <1>6, <1>7, <1>8

\* Flattening two sequences one after the other.
LEMMA FlattenConcat ==
  ASSUME NEW S, NEW a \in Seq(Seq(S)), NEW b \in Seq(Seq(S))
  PROVE  /\ FlattenSeq(a \o b) = FlattenSeq(a) \o FlattenSeq(b)
         /\ FlattenSeq(a) \in Seq(S) /\ FlattenSeq(b) \in Seq(S)
<1>1. PICK n, W : n = Len(a) /\ W = Seq(S)
  OBVIOUS
<1>2. n \in Nat /\ a \in Seq(W) /\ b \in Seq(W)
  BY <1>1
<1>3. ASSUME NEW s \in Seq(Seq(S)) PROVE FlattenSeq(s) \in Seq(S)
  <2>1. PICK x : x = <<>>
    OBVIOUS
  <2>2. x \in Seq(S)
    BY <2>1
  <2> QED BY <2>2, FlattenCons
<1> DEFINE T == {j \in 0..n : FlattenSeq(Slice(a, n - j, n) \o b)
                                = FlattenSeq(Slice(a, n - j, n)) \o FlattenSeq(b)}
<1>4. 0 \in T
  <2>1. Slice(a, n, n) = <<>>
    BY <1>1, <1>2, SliceEmpty
  <2>2. n - 0 = n
    BY <1>2
  <2>3. FlattenSeq(<<>>) = <<>>
    BY FlatPrefixEmpty DEF FlattenSeq
  <2>4. PICK e : e = <<>>
    OBVIOUS
  <2>5. PICK z : z = FlattenSeq(b)
    OBVIOUS
  <2>6. z \in Seq(S)
    BY <1>3, <2>5
  <2>7. e \o b = b /\ e \o z = z
    BY <2>4, <2>6
  <2>8. FlattenSeq(Slice(a, n - 0, n) \o b) = FlattenSeq(Slice(a, n - 0, n)) \o FlattenSeq(b)
    BY <2>1, <2>2, <2>3, <2>4, <2>5, <2>7
  <2> QED BY <1>2, <2>8
<1>5. ASSUME NEW j \in 0..(n - 1), j \in T PROVE j + 1 \in T
  <2>1. PICK k, m : k = n - (j + 1) /\ m = k + 1
    OBVIOUS
  <2>2. k \in Nat /\ m <= n /\ m = n - j /\ m \in Nat
    BY <1>2, <2>1
  <2>3. Slice(a, k, n) = <<a[m]>> \o Slice(a, m, n) /\ a[m] \in W /\ Slice(a, m, n) \in Seq(W)
    BY <1>1, <1>2, <2>1, <2>2, SliceCons
  <2>4. PICK x, r, f, g : x = a[m] /\ r = Slice(a, m, n) /\ f = FlattenSeq(r) /\ g = FlattenSeq(b)
    OBVIOUS
  <2>5. x \in Seq(S) /\ r \in Seq(Seq(S)) /\ f \in Seq(S) /\ g \in Seq(S)
    BY <1>1, <1>3, <2>3, <2>4
  <2>6. FlattenSeq(r \o b) = f \o g
    BY <1>5, <2>2, <2>4
  <2>7. r \o b \in Seq(Seq(S))
    BY <2>5
  <2>8. FlattenSeq(<<x>> \o (r \o b)) = x \o FlattenSeq(r \o b)
    BY <2>5, <2>7, FlattenCons
  <2>9. FlattenSeq(<<x>> \o r) = x \o f
    BY <2>4, <2>5, FlattenCons
  <2>10. (<<x>> \o r) \o b = <<x>> \o (r \o b)
    <3>1. PICK y : y = <<x>>
      OBVIOUS
    <3>2. y \in Seq(Seq(S))
      BY <2>5, <3>1
    <3>4. PICK V : V = Seq(S)
      OBVIOUS
    <3>5. y \in Seq(V) /\ r \in Seq(V) /\ b \in Seq(V)
      BY <2>5, <3>2, <3>4
    <3>3. (y \o r) \o b = y \o (r \o b)
      BY ONLY <3>5, ConcatTwice, SMTT(40)
    <3> QED BY <3>1, <3>3
  <2>11. (x \o f) \o g = x \o (f \o g)
    <3>1. x \in Seq(S) /\ f \in Seq(S) /\ g \in Seq(S)
      BY <2>5
    <3> QED BY ONLY <3>1, ConcatTwice, SMTT(40)
  <2>12. FlattenSeq(Slice(a, k, n) \o b) = FlattenSeq(Slice(a, k, n)) \o g
    BY <2>3, <2>4, <2>6, <2>8, <2>9, <2>10, <2>11
  <2>13. j + 1 \in 0..n
    BY <1>2
  <2> QED BY <2>1, <2>4, <2>12, <2>13
<1>6. 0..n \subseteq T
  <2> HIDE DEF T
  <2>1. 0 \in Int /\ n \in Int /\ (0 <= n => 0 \in T)
    BY <1>2, <1>4
  <2> QED BY <1>5, <2>1, IntervalInduction
<1>7. n \in T /\ n - n = 0
  <2> HIDE DEF T
  <2>1. n \in 0..n /\ n - n = 0
    BY <1>2
  <2> QED BY <1>6, <2>1
<1>8. FlattenSeq(Slice(a, 0, n) \o b) = FlattenSeq(Slice(a, 0, n)) \o FlattenSeq(b)
  BY <1>7
<1>9. Slice(a, 0, n) = a
  BY <1>1, SliceWhole
<1> QED BY <1>3, <1>8, <1>9

\* What a list of elements is written as.
Written(els) == FlattenSeq([i \in DOMAIN els |-> Der(els[i].tag, els[i].value)])
\* x is the bytes of these elements, which can be read again.
Writes(x, els) ==
    /\ els \in Seq(Elements)
    /\ \A i \in 1..Len(els) : IsWritable(els[i].tag, els[i].value)
    /\ x = Written(els)

\* The pieces are byte strings.
LEMMA WrittenPieces ==
  ASSUME NEW x, NEW els, Writes(x, els)
  PROVE  \E s \in Seq(Seq(Byte)) : /\ Len(s) = Len(els) /\ x = FlattenSeq(s)
            /\ s = [i \in DOMAIN els |-> Der(els[i].tag, els[i].value)]
            /\ \A i \in 1..Len(els) : s[i] = Der(els[i].tag, els[i].value)
<1>1. /\ els \in Seq(Elements) /\ Len(els) \in Nat /\ DOMAIN els = 1..Len(els)
      /\ \A i \in 1..Len(els) : IsWritable(els[i].tag, els[i].value)
      /\ x = FlattenSeq([i \in DOMAIN els |-> Der(els[i].tag, els[i].value)])
  BY DEF Writes, Written
<1>2. PICK s : s = [i \in 1..Len(els) |-> Der(els[i].tag, els[i].value)]
  OBVIOUS
<1>3. \A i \in 1..Len(els) : Der(els[i].tag, els[i].value) \in Seq(Byte)
  BY <1>1, DerBytes
<1>4. s \in [1..Len(els) -> Seq(Byte)]
  BY <1>2, <1>3
<1>5. s \in Seq(Seq(Byte)) /\ Len(s) = Len(els)
  BY <1>1, <1>4, FunctionIsSequence
<1>7. DOMAIN els = 1..Len(els)
  BY <1>1
<1>8. s = [i \in DOMAIN els |-> Der(els[i].tag, els[i].value)]
  BY <1>2, <1>7
<1>11. x = FlattenSeq([i \in DOMAIN els |-> Der(els[i].tag, els[i].value)])
  BY <1>1
<1>9. x = FlattenSeq(s)
  BY ONLY <1>8, <1>11, Zenon
<1>10. \A i \in 1..Len(els) : s[i] = Der(els[i].tag, els[i].value)
  BY <1>2
<1>6. /\ Len(s) = Len(els) /\ x = FlattenSeq(s)
      /\ s = [i \in DOMAIN els |-> Der(els[i].tag, els[i].value)]
      /\ \A i \in 1..Len(els) : s[i] = Der(els[i].tag, els[i].value)
  BY <1>5, <1>8, <1>9, <1>10
<1> QED BY <1>5, <1>6

\* What was written is what is read.
LEMMA WritesRead ==
  ASSUME NEW x, NEW els, Writes(x, els)
  PROVE  x \in Seq(Byte) /\ DerElements(x) = els /\ IsDer(x)
<1>1. PICK s \in Seq(Seq(Byte)) : /\ Len(s) = Len(els) /\ x = FlattenSeq(s)
         /\ \A i \in 1..Len(els) : s[i] = Der(els[i].tag, els[i].value)
  BY WrittenPieces
<1>2. els \in Seq(Elements) /\ Len(els) \in Nat
      /\ \A i \in 1..Len(els) : IsWritable(els[i].tag, els[i].value)
  BY DEF Writes
<1>3. x \in Seq(Byte)
  BY <1>1, FlatBytes
<1>4. PICK c : /\ Walked(c, Len(x), Stops(x), Ends(Len(x), Broken), Items(x), Nexts(x))
               /\ DerElements(x) = c[0]
  BY <1>3, ElementsWalk
<1>5. PICK n : n = Len(els)
  OBVIOUS
<1>6. Len(x) \in Stops(x)
  BY <1>3 DEF Stops
<1>7. ASSUME NEW k \in 0..(n - 1)
      PROVE  /\ EndOf(s, k) \notin Stops(x)
             /\ Items(x)[EndOf(s, k)] = els[k + 1] /\ Nexts(x)[EndOf(s, k)] = EndOf(s, k + 1)
  <2>1. k + 1 \in 1..n
    BY <1>2, <1>5
  <2>2. PICK e, p, q : e = els[k + 1] /\ p = EndOf(s, k) /\ q = EndOf(s, k + 1)
    OBVIOUS
  <2>3. e \in Elements /\ IsWritable(e.tag, e.value)
    BY <1>2, <1>5, <2>1, <2>2
  <2>4. Covers(x, p, q, Der(e.tag, e.value))
    <3>1. k \in 0..(Len(s) - 1)
      BY <1>1, <1>5
    <3>2. Covers(FlattenSeq(s), EndOf(s, k), EndOf(s, k + 1), s[k + 1])
      BY <3>1, PiecesCover
    <3> QED BY <1>1, <1>5, <2>1, <2>2, <3>2
  <2>5. /\ p \in 0..(Len(x) - 1) /\ IsElement(x, p) /\ NextAt(x, p) = q
        /\ Element(x, p) = [tag |-> e.tag, value |-> e.value]
    BY ONLY <1>3, <2>3, <2>4, ElementGot
  <2>6. e = [tag |-> e.tag, value |-> e.value]
    BY <2>3 DEF Elements
  <2>7. p \in 0..Len(x) /\ p # Len(x)
    <3>1. PICK all : all = Len(x)
      OBVIOUS
    <3>2. all \in Nat /\ p \in 0..(all - 1)
      BY <1>3, <2>5, <3>1
    <3>3. p \in 0..all /\ p # all
      BY ONLY <3>2
    <3> QED BY <3>1, <3>3
  <2>8. p \notin Stops(x) /\ Items(x)[p] = e /\ Nexts(x)[p] = q
    BY <2>5, <2>6, <2>7 DEF Stops, Items, Nexts
  <2> QED BY <2>2, <2>8
<1>8. PICK Stop, item, next, V, broken :
         /\ Stop = Stops(x) /\ item = Items(x) /\ next = Nexts(x) /\ V = Elements
         /\ broken = Broken
  OBVIOUS
<1>9. s \in Seq(Seq(Byte)) /\ x = FlattenSeq(s) /\ els \in Seq(V)
  BY <1>1, <1>2, <1>8
<1>10. Walked(c, Len(x), Stop, Ends(Len(x), broken), item, next) /\ Len(x) \in Stop
  BY <1>4, <1>6, <1>8
<1>14. Placed(s, els, Stop, item, next)
  <2>1. \A k \in 0..(Len(s) - 1) :
         /\ EndOf(s, k) \notin Stop
         /\ item[EndOf(s, k)] = els[k + 1] /\ next[EndOf(s, k)] = EndOf(s, k + 1)
    BY <1>1, <1>5, <1>7, <1>8
  <2> QED BY <1>1, <2>1 DEF Placed
<1>11. c[0] = els
  BY ONLY <1>9, <1>10, <1>14, ReadsBack
<1>12. Broken \notin ToSet(els)
  <2>1. ASSUME NEW i \in 1..Len(els) PROVE els[i] # Broken
    <3>1. els[i].tag \in Byte
      BY <1>2 DEF IsWritable
    <3>2. Broken.tag = Base
      BY DEF Broken
    <3>3. Base \notin Byte
      BY HalfIs DEF Byte
    <3> QED BY <3>1, <3>2, <3>3
  <2>2. DOMAIN els = 1..Len(els)
    BY <1>2
  <2> QED BY <2>1, <2>2 DEF ToSet
<1> QED BY <1>3, <1>4, <1>11, <1>12 DEF IsDer

\* An element alone.
LEMMA WritesOne ==
  ASSUME NEW tag, NEW value, IsWritable(tag, value)
  PROVE  Writes(Der(tag, value), <<[tag |-> tag, value |-> value]>>)
<1>1. PICK e, els, d, s : /\ e = [tag |-> tag, value |-> value] /\ els = <<e>>
                          /\ d = Der(tag, value) /\ s = <<d>>
  OBVIOUS
<1>2. e \in Elements /\ e.tag = tag /\ e.value = value
  <2>1. tag \in Nat /\ value \in Seq(Byte)
    BY HalfIs DEF IsWritable, Byte
  <2> QED BY <1>1, <2>1 DEF Elements
<1>3. els \in Seq(Elements) /\ Len(els) = 1 /\ els[1] = e /\ DOMAIN els = 1..1
  BY <1>1, <1>2
<1>4. d \in Seq(Byte)
  BY <1>1, DerBytes
<1>5. [i \in DOMAIN els |-> Der(els[i].tag, els[i].value)] = s
  <2>1. \A i \in 1..1 : i = 1
    OBVIOUS
  <2>2. s = [i \in 1..1 |-> d]
    BY <1>1
  <2>3. \A i \in 1..1 : Der(els[i].tag, els[i].value) = d
    BY <1>1, <1>2, <1>3, <2>1
  <2> QED BY <1>3, <2>2, <2>3
<1>6. FlattenSeq(s) = d
  <2>1. PICK z : z = <<>>
    OBVIOUS
  <2>2. z \in Seq(Seq(Byte)) /\ <<d>> \o z = s /\ d \o z = d
    BY <1>1, <1>4, <2>1
  <2>3. FlattenSeq(<<d>> \o z) = d \o FlattenSeq(z)
    BY <1>4, <2>2, FlattenCons
  <2>4. FlattenSeq(z) = z
    BY <2>1, FlatPrefixEmpty DEF FlattenSeq
  <2> QED BY <2>2, <2>3, <2>4
<1>7. Written(els) = d
  BY <1>5, <1>6 DEF Written
<1>8. \A i \in 1..Len(els) : IsWritable(els[i].tag, els[i].value)
  <2>1. \A i \in 1..Len(els) : i = 1
    BY <1>3
  <2> QED BY <1>2, <1>3, <2>1
<1>9. Writes(d, els)
  BY <1>3, <1>7, <1>8 DEF Writes
<1> QED BY <1>1, <1>9

\* No element at all.
LEMMA WritesNothing == Writes(<<>>, <<>>)
<1>1. PICK z : z = <<>>
  OBVIOUS
<1>2. z \in Seq(Elements) /\ Len(z) = 0 /\ DOMAIN z = 1..0
  BY <1>1
<1>3. [i \in DOMAIN z |-> Der(z[i].tag, z[i].value)] = z
  BY <1>1, <1>2
<1>4. FlattenSeq(z) = z
  BY <1>1, FlatPrefixEmpty DEF FlattenSeq
<1>5. Writes(z, z)
  BY <1>2, <1>3, <1>4 DEF Writes, Written
<1> QED BY <1>1, <1>5

\* Elements one after the other.
LEMMA WritesJoin ==
  ASSUME NEW x, NEW a, NEW y, NEW b, Writes(x, a), Writes(y, b)
  PROVE  Writes(x \o y, a \o b)
<1>1. /\ a \in Seq(Elements) /\ \A i \in 1..Len(a) : IsWritable(a[i].tag, a[i].value)
      /\ b \in Seq(Elements) /\ \A i \in 1..Len(b) : IsWritable(b[i].tag, b[i].value)
  BY DEF Writes
<1>2. PICK s \in Seq(Seq(Byte)) : /\ Len(s) = Len(a) /\ x = FlattenSeq(s)
         /\ \A i \in 1..Len(a) : s[i] = Der(a[i].tag, a[i].value)
  BY WrittenPieces
<1>3. PICK t \in Seq(Seq(Byte)) : /\ Len(t) = Len(b) /\ y = FlattenSeq(t)
         /\ \A i \in 1..Len(b) : t[i] = Der(b[i].tag, b[i].value)
  BY WrittenPieces
<1>4. FlattenSeq(s \o t) = x \o y
  BY <1>2, <1>3, FlattenConcat
<1>5. PICK els, u : els = a \o b /\ u = s \o t
  OBVIOUS
<1>6. /\ els \in Seq(Elements) /\ Len(els) = Len(a) + Len(b)
      /\ \A p \in 1..Len(a) : els[p] = a[p]
      /\ \A j \in 1..Len(b) : els[Len(a) + j] = b[j]
  BY ONLY <1>1, <1>5, ConcatShape
<1>7. /\ u \in Seq(Seq(Byte)) /\ Len(u) = Len(a) + Len(b)
      /\ \A p \in 1..Len(a) : u[p] = s[p]
      /\ \A j \in 1..Len(b) : u[Len(a) + j] = t[j]
  <2>1. PICK W : W = Seq(Byte)
    OBVIOUS
  <2>2. s \in Seq(W) /\ t \in Seq(W)
    BY <2>1
  <2>3. /\ s \o t \in Seq(W) /\ Len(s \o t) = Len(s) + Len(t)
        /\ \A p \in 1..Len(s) : (s \o t)[p] = s[p]
        /\ \A j \in 1..Len(t) : (s \o t)[Len(s) + j] = t[j]
    BY ONLY <2>2, ConcatShape
  <2> QED BY <1>2, <1>3, <1>5, <2>1, <2>3
<1>8. PICK n, m : n = Len(a) /\ m = Len(b)
  OBVIOUS
<1>9. n \in Nat /\ m \in Nat
  BY <1>1, <1>8
<1>10. ASSUME NEW i \in 1..(n + m)
       PROVE  IsWritable(els[i].tag, els[i].value) /\ u[i] = Der(els[i].tag, els[i].value)
  <2>1. CASE i <= n
    <3>1. i \in 1..n
      BY <1>9, <2>1
    <3> QED BY <1>1, <1>2, <1>6, <1>7, <1>8, <3>1
  <2>2. CASE ~(i <= n)
    <3>1. PICK j : j = i - n
      OBVIOUS
    <3>2. j \in 1..m /\ n + j = i
      BY <1>9, <2>2, <3>1
    <3> QED BY <1>1, <1>3, <1>6, <1>7, <1>8, <3>2
  <2> QED BY <2>1, <2>2
<1>11. [i \in DOMAIN els |-> Der(els[i].tag, els[i].value)] = u
  <2>1. DOMAIN els = 1..(n + m)
    BY <1>6, <1>8, <1>9
  <2>2. u = [i \in 1..(n + m) |-> u[i]]
    BY <1>7, <1>8, <1>9
  <2> QED BY <1>10, <2>1, <2>2
<1>12. Writes(x \o y, els)
  BY <1>4, <1>5, <1>6, <1>8, <1>10, <1>11 DEF Writes, Written
<1> QED BY <1>5, <1>12

\* An element as the reader returns it.
Item(tag, value) == [tag |-> tag, value |-> value]

\* The tags are bytes of which one has a single byte.
IsTag(tag) == tag \in Byte /\ tag % 32 # 31 /\ tag # Broken.tag

\* Those of the names, the integers and the parameters are.
LEMMA Tags ==
  /\ \A tag \in {SEQUENCE, OID, NULL, INTEGER, BIT_STRING} : IsTag(tag)
  /\ \A tag \in {160, 161, 162, 163} : IsTag(tag)
<1>1. Broken.tag = 256
  BY HalfIs DEF Broken
<1>2. Byte = 0..255
  BY HalfIs DEF Byte
<1>3. \A tag \in {48, 6, 5, 2, 3, 160, 161, 162, 163} :
         tag \in 0..255 /\ tag % 32 # 31 /\ tag # 256
  BY SMT
<1> QED BY <1>1, <1>2, <1>3, SMT DEF IsTag, SEQUENCE, OID, NULL, INTEGER, BIT_STRING

\* Below a length of less than 64 kB are only such.
LEMMA ShortLess ==
  ASSUME NEW m \in Nat, NEW n \in Nat, IsShort(n), m <= n
  PROVE  IsShort(m)
  BY SMT DEF IsShort

\* A certificate is short, and so are names.
LEMMA ShortNumbers == \A n \in Nat : n <= 20000 => IsShort(n)
  BY SMT DEF IsShort

\* What the reader accepts can be written, as what was read.
LEMMA ReadWrites ==
  ASSUME NEW x \in Seq(Byte), IsShort(Len(x)), IsDer(x)
  PROVE  Writes(x, DerElements(x))
<1>1. PICK c : /\ Walked(c, Len(x), Stops(x), Ends(Len(x), Broken), Items(x), Nexts(x))
               /\ DerElements(x) = c[0]
  BY ElementsWalk
<1>2. Broken \notin ToSet(c[0])
  BY <1>1 DEF IsDer
<1>3. PICK path : ReadAll(x, Stops(x), Items(x), Pieces(x), path, c[0])
  BY <1>1, <1>2, ElementsReader, ReadToEnd
<1> DEFINE P == (0..Len(x)) \ Stops(x)
<1>4. path \in Seq(P) /\ c[0] = Along(Items(x), path)
  BY <1>3 DEF ReadAll
<1>5. ASSUME NEW p \in P
      PROVE  Items(x)[p] \in Elements /\ IsWritable(Items(x)[p].tag, Items(x)[p].value)
  <2>1. p \in 0..Len(x) /\ p # Len(x) /\ IsElement(x, p)
    BY DEF Stops
  <2>2. p \in 0..(Len(x) - 1)
    <3>1. PICK n : n = Len(x)
      OBVIOUS
    <3>2. n \in Nat /\ p \in 0..n /\ p # n
      BY <2>1, <3>1
    <3>3. p \in 0..(n - 1)
      BY ONLY <3>2
    <3> QED BY <3>1, <3>3
  <2>3. Parts(x, p)
    BY <2>1, <2>2, ElementParts
  <2>4. PICK a, b, n : a = ValueAt(x, p) /\ b = NextAt(x, p) /\ n = Len(x)
    OBVIOUS
  <2>5. a \in Nat /\ b \in Nat /\ n \in Nat /\ a <= b /\ b <= n /\ TagAt(x, p) \in Byte
    BY <2>3, <2>4 DEF Parts
  <2>6. Slice(x, a, b) \in Seq(Byte) /\ Len(Slice(x, a, b)) = b - a
    <3>1. a \in Nat /\ b \in Nat /\ a <= b /\ b <= Len(x)
      BY <2>4, <2>5
    <3> QED BY <3>1, SliceShape
  <2>7. IsShort(b - a)
    <3>1. b - a \in Nat /\ b - a <= n
      BY <2>5
    <3> QED BY <2>4, <2>5, <3>1, ShortLess
  <2>8. TagAt(x, p) % 32 # 31
    BY <2>1 DEF IsElement
  <2>9. Items(x)[p] = [tag |-> TagAt(x, p), value |-> Slice(x, a, b)]
    BY <2>1, <2>4 DEF Items, Element
  <2>10. TagAt(x, p) \in Nat
    <3>1. Byte \subseteq Nat
      BY HalfIs DEF Byte
    <3> QED BY <2>5, <3>1
  <2> QED BY <2>5, <2>6, <2>7, <2>8, <2>9, <2>10 DEF Elements, IsWritable
<1>6. PICK e : e = DerElements(x)
  OBVIOUS
<1>7. /\ e \in Seq(Elements) /\ Len(e) = Len(path)
      /\ \A i \in 1..Len(path) : e[i] = Items(x)[path[i]]
  <2>1. PICK f, Q, V : f = Items(x) /\ Q = P /\ V = Elements
    OBVIOUS
  <2>2. Takes(f, Q, V) /\ path \in Seq(Q)
    BY <1>4, <1>5, <2>1 DEF Takes
  <2>3. /\ Along(f, path) \in Seq(V) /\ Len(Along(f, path)) = Len(path)
        /\ \A i \in 1..Len(path) : Along(f, path)[i] = f[path[i]]
    BY ONLY <2>2, AlongShape
  <2> QED BY <1>1, <1>4, <1>6, <2>1, <2>3
<1>8. ASSUME NEW i \in 1..Len(e) PROVE IsWritable(e[i].tag, e[i].value)
  <2>1. path[i] \in P /\ e[i] = Items(x)[path[i]]
    BY <1>4, <1>7
  <2> QED BY <1>5, <2>1
<1>9. x = Written(e)
  BY <1>6, ReaderIsExact DEF Written
<1> QED BY <1>6, <1>7, <1>8, <1>9 DEF Writes

\* What is written determines the bytes.
LEMMA WritesSame ==
  ASSUME NEW x, NEW y, NEW els, Writes(x, els), Writes(y, els)
  PROVE  x = y
  BY DEF Writes

\* What is written is read as a single element.
LEMMA SingleBack ==
  ASSUME NEW tag, NEW value, IsWritable(tag, value)
  PROVE  /\ IsSingle(Der(tag, value), tag) /\ Single(Der(tag, value)) = value
         /\ Der(tag, value) \in Seq(Byte)
<1>1. PICK x, e, els : x = Der(tag, value) /\ e = [tag |-> tag, value |-> value] /\ els = <<e>>
  OBVIOUS
<1>2. Writes(x, els)
  BY <1>1, WritesOne
<1>3. x \in Seq(Byte) /\ DerElements(x) = els
  BY <1>2, WritesRead
<1>4. Len(els) = 1 /\ els[1] = e /\ e.tag = tag /\ e.value = value
  BY <1>1
<1>5. IsSingle(x, tag) /\ Single(x) = value
  BY <1>3, <1>4 DEF IsSingle, Single
<1> QED BY <1>1, <1>3, <1>5

\* What is read as a single element was written as one.
LEMMA SingleIs ==
  ASSUME NEW x \in Seq(Byte), IsShort(Len(x)), NEW tag, IsTag(tag), IsSingle(x, tag)
  PROVE  /\ IsWritable(tag, Single(x)) /\ x = Der(tag, Single(x)) /\ IsDer(x)
<1>1. PICK els, e : els = DerElements(x) /\ e = els[1]
  OBVIOUS
<1>2. Len(els) = 1 /\ e.tag = tag /\ Single(x) = e.value
  BY <1>1 DEF IsSingle, Single
<1>3. e # Broken
  BY <1>2 DEF IsTag
<1>4. IsDer(x)
  <2>1. PICK c : /\ Walked(c, Len(x), Stops(x), Ends(Len(x), Broken), Items(x), Nexts(x))
                 /\ DerElements(x) = c[0]
    BY ElementsWalk
  <2>2. els \in Seq(Elements)
    <3>1. \E path, last : HasRead(x, Stops(x), Ends(Len(x), Broken), Items(x), Pieces(x),
                                  0, path, last, c[0])
      BY <2>1, ElementsReader, ReaderCovers
    <3>2. PICK path, last : HasRead(x, Stops(x), Ends(Len(x), Broken), Items(x), Pieces(x),
                                    0, path, last, c[0])
      BY <3>1
    <3> DEFINE P == (0..Len(x)) \ Stops(x)
    <3>3. /\ path \in Seq(P) /\ last \in Stops(x)
          /\ c[0] = Along(Items(x), path) \o Ends(Len(x), Broken)[last]
      BY <3>2 DEF HasRead
    <3>4. Ends(Len(x), Broken)[last] \in Seq(Elements)
      BY <3>3, ElementsReader DEF Reader
    <3>5. Along(Items(x), path) \in Seq(Elements)
      <4>1. PICK f, Q, V : f = Items(x) /\ Q = P /\ V = Elements
        OBVIOUS
      <4>2. Takes(f, Q, V) /\ path \in Seq(Q)
        BY <3>3, <4>1, ElementsReader DEF Takes, Reader
      <4>3. Along(f, path) \in Seq(V)
        BY ONLY <4>2, AlongShape
      <4> QED BY <4>1, <4>3
    <3> QED BY <1>1, <2>1, <3>3, <3>4, <3>5
  <2>3. DOMAIN els = 1..1
    BY <1>2, <2>2
  <2>4. \A i \in DOMAIN els : els[i] = e
    <3>1. \A i \in 1..1 : i = 1
      OBVIOUS
    <3> QED BY <1>1, <2>3, <3>1
  <2> QED BY <1>1, <1>3, <2>4 DEF IsDer, ToSet
<1>5. Writes(x, els)
  BY <1>1, <1>4, ReadWrites
<1>6. els \in Seq(Elements) /\ \A i \in 1..Len(els) : IsWritable(els[i].tag, els[i].value)
  BY <1>5 DEF Writes
<1>7. IsWritable(tag, e.value) /\ e \in Elements
  <2>1. 1 \in 1..Len(els)
    BY <1>2
  <2>2. IsWritable(els[1].tag, els[1].value) /\ els[1] \in Elements
    BY <1>6, <2>1
  <2> QED BY <1>1, <1>2, <2>2
<1>8. e = [tag |-> tag, value |-> e.value]
  BY <1>2, <1>7 DEF Elements
<1>9. els = <<e>>
  BY <1>1, <1>2, <1>6
<1>10. Writes(Der(tag, e.value), <<[tag |-> tag, value |-> e.value]>>)
  BY <1>7, WritesOne
<1>11. Writes(Der(tag, e.value), els)
  BY <1>8, <1>9, <1>10
<1>12. x = Der(tag, e.value)
  BY <1>5, <1>11, WritesSame
<1> QED BY <1>2, <1>4, <1>7, <1>12

\* A sequence of one element, and of two.
LEMMA OneElement ==
  ASSUME NEW S, NEW els \in Seq(S), NEW a \in S
  PROVE  els = <<a>> <=> Len(els) = 1 /\ els[1] = a
  OBVIOUS
\* Its tail has the second one.
LEMMA TwoElements ==
  ASSUME NEW S, NEW els \in Seq(S), NEW a \in S, NEW b \in S
  PROVE  /\ els = <<a>> \o <<b>> <=> Len(els) = 2 /\ els[1] = a /\ els[2] = b
         /\ els = <<a>> \o <<b>> <=> els # <<>> /\ els[1] = a /\ Tail(els) = <<b>>
<1>1. PICK x, y : x = <<a>> /\ y = <<b>>
  OBVIOUS
<1>2. x \in Seq(S) /\ y \in Seq(S) /\ Len(x) = 1 /\ Len(y) = 1 /\ x[1] = a /\ y[1] = b
  BY <1>1
<1>3. PICK z : z = x \o y
  OBVIOUS
<1>4. z \in Seq(S) /\ Len(z) = 2 /\ z[1] = a /\ z[2] = b
  <2>1. /\ x \o y \in Seq(S) /\ Len(x \o y) = Len(x) + Len(y)
        /\ \A p \in 1..Len(x) : (x \o y)[p] = x[p]
        /\ \A j \in 1..Len(y) : (x \o y)[Len(x) + j] = y[j]
    BY ONLY <1>2, ConcatShape
  <2>2. 1 \in 1..1 /\ 1 + 1 = 2
    OBVIOUS
  <2>3. (x \o y)[Len(x) + 1] = y[1]
    BY <1>2, <2>1, <2>2
  <2> QED BY <1>2, <1>3, <2>1, <2>2, <2>3
<1>5. els = z <=> Len(els) = 2 /\ els[1] = a /\ els[2] = b
  <2>1. ASSUME Len(els) = 2, els[1] = a, els[2] = b PROVE els = z
    <3>1. \A i \in 1..Len(els) : els[i] = z[i]
      <4>1. \A i \in 1..2 : i = 1 \/ i = 2
        OBVIOUS
      <4> QED BY <1>4, <2>1, <4>1
    <3> QED BY <1>4, <2>1, <3>1, SeqEqual
  <2> QED BY <1>4, <2>1
<1>6. Len(els) = 2 /\ els[1] = a /\ els[2] = b <=> els # <<>> /\ els[1] = a /\ Tail(els) = y
  <2>1. PICK n : n = Len(els)
    OBVIOUS
  <2>2. n \in Nat /\ (els # <<>> <=> n # 0)
    BY <2>1
  <2>3. ASSUME n # 0
        PROVE  /\ Tail(els) \in Seq(S) /\ Len(Tail(els)) = n - 1
               /\ \A i \in 1..(n - 1) : Tail(els)[i] = els[i + 1]
    BY <2>1, <2>2, <2>3
  <2>4. ASSUME n = 2, els[2] = b PROVE Tail(els) = y
    <3>1. Tail(els) \in Seq(S) /\ Len(Tail(els)) = 1 /\ Tail(els)[1] = b
      <4>1. 2 # 0 /\ 2 - 1 = 1 /\ 1 \in 1..1 /\ 1 + 1 = 2
        OBVIOUS
      <4>2. Tail(els)[1] = els[1 + 1]
        BY <2>3, <2>4, <4>1
      <4> QED BY <2>3, <2>4, <4>1, <4>2
    <3>2. \A i \in 1..Len(Tail(els)) : Tail(els)[i] = y[i]
      <4>1. \A i \in 1..1 : i = 1
        OBVIOUS
      <4> QED BY <1>2, <3>1, <4>1
    <3> QED BY <1>2, <3>1, <3>2, SeqEqual
  <2>5. ASSUME n # 0, Tail(els) = y PROVE n = 2 /\ els[2] = b
    <3>1. n - 1 = 1
      BY <1>2, <2>3, <2>5
    <3>2. n = 2
      BY <2>2, <3>1
    <3>3. 1 \in 1..(n - 1) /\ 1 + 1 = 2
      BY <3>2
    <3> QED BY <1>2, <2>3, <2>5, <3>2, <3>3
  <2>6. 2 # 0
    OBVIOUS
  <2>7. (n = 2 /\ els[2] = b) <=> (n # 0 /\ Tail(els) = y)
    BY <2>4, <2>5, <2>6
  <2> QED BY <2>1, <2>2, <2>7
<1> QED BY <1>1, <1>3, <1>5, <1>6

\* The tail of a pair.
LEMMA TailOfPair ==
  ASSUME NEW S, NEW a \in S, NEW b \in S
  PROVE  Tail(<<a>> \o <<b>>) = <<b>>
<1>1. PICK z : z = <<a>> \o <<b>>
  OBVIOUS
<1>2. z \in Seq(S) /\ Len(z) = 2 /\ z[2] = b /\ z # <<>>
  BY <1>1
<1>3. PICK t : t = Tail(z)
  OBVIOUS
<1>4. t \in Seq(S) /\ Len(t) = 2 - 1 /\ \A i \in 1..Len(t) : t[i] = z[i + 1]
  BY <1>2, <1>3, HeadTailProperties
<1>5. Len(t) = 1 /\ t[1] = b
  <2>1. 2 - 1 = 1 /\ 1 + 1 = 2 /\ 1 \in 1..1
    OBVIOUS
  <2> QED BY <1>2, <1>4, <2>1
<1>6. t = <<b>>
  BY <1>4, <1>5
<1> QED BY ONLY <1>1, <1>3, <1>6, Zenon

-----------------------------------------------------------------------------
(* Names of hash functions *)

\* An object identifier can be written.
LEMMA OidWritten ==
  ASSUME NEW oid \in {Sha256, Mgf1, IdRsassaPss}
  PROVE  /\ IsWritable(OID, oid) /\ Der(OID, oid) \in Seq(Byte) /\ Len(Der(OID, oid)) \in Nat
         /\ Len(Der(OID, oid)) <= 36 /\ Item(OID, oid) \in Elements
         /\ Writes(Der(OID, oid), <<Item(OID, oid)>>)
<1>1. oid \in Seq(Byte) /\ Len(oid) <= 32
  BY OidsAssumption DEF Byte
<1>2. IsShort(Len(oid))
  <2>1. PICK n : n = Len(oid)
    OBVIOUS
  <2>2. n \in Nat /\ n <= 20000
    BY <1>1, <2>1, SMT
  <2> QED BY <2>1, <2>2, ShortNumbers
<1>3. IsWritable(OID, oid)
  BY <1>1, <1>2, Tags DEF IsTag, IsWritable
<1>4. Der(OID, oid) \in Seq(Byte) /\ Len(Der(OID, oid)) <= Len(oid) + 4
  BY <1>3, DerBytes
<1>5. Len(Der(OID, oid)) \in Nat /\ Len(Der(OID, oid)) <= 36
  <2>1. PICK n, m : n = Len(oid) /\ m = Len(Der(OID, oid))
    OBVIOUS
  <2>2. n \in Nat /\ n <= 32 /\ m \in Nat /\ m <= n + 4
    BY <1>1, <1>4, <2>1
  <2>3. m <= 36
    BY ONLY <2>2
  <2> QED BY <2>1, <2>2, <2>3
<1>6. Item(OID, oid) \in Elements
  <2>1. OID \in Nat
    BY DEF OID
  <2> QED BY <1>1, <2>1 DEF Item, Elements
<1>7. Writes(Der(OID, oid), <<Item(OID, oid)>>)
  BY <1>3, WritesOne DEF Item
<1> QED BY <1>3, <1>4, <1>5, <1>6, <1>7

\* So can NULL.
LEMMA NullWritten ==
  /\ Der(NULL, <<>>) \in Seq(Byte) /\ Len(Der(NULL, <<>>)) \in Nat /\ Len(Der(NULL, <<>>)) <= 4
  /\ Item(NULL, <<>>) \in Elements
  /\ Writes(Der(NULL, <<>>), <<Item(NULL, <<>>)>>)
<1>1. PICK z : z = <<>>
  OBVIOUS
<1>2. z \in Seq(Byte) /\ Len(z) = 0
  BY <1>1
<1>3. IsWritable(NULL, z)
  BY <1>2, Tags, ShortNumbers DEF IsTag, IsWritable
<1>4. Der(NULL, z) \in Seq(Byte) /\ Len(Der(NULL, z)) <= Len(z) + 4
  BY <1>3, DerBytes
<1>5. NULL \in Nat
  BY DEF NULL
<1>6. Item(NULL, z) \in Elements
  BY <1>2, <1>5 DEF Item, Elements
<1>7. Writes(Der(NULL, z), <<Item(NULL, z)>>)
  BY <1>3, WritesOne DEF Item
<1>8. Len(Der(NULL, z)) \in Nat /\ Len(Der(NULL, z)) <= 4
  BY <1>2, <1>4
<1> QED BY <1>1, <1>4, <1>6, <1>7, <1>8

\* The names of SHA-256 are what the code takes for one.
LEMMA NameIs ==
  ASSUME NEW x \in Seq(Byte), IsShort(Len(x))
  PROVE  IsDer(x) /\ IsSha256(x) <=> x \in Sha256Names
<1>1. PICK a, b, p, q : /\ a = Item(OID, Sha256) /\ b = Item(NULL, <<>>)
                        /\ p = Der(OID, Sha256) /\ q = Der(NULL, <<>>)
  OBVIOUS
<1>2. a \in Elements /\ b \in Elements /\ Writes(p, <<a>>) /\ Writes(q, <<b>>)
      /\ Writes(p \o q, <<a>> \o <<b>>)
  <2>1. a \in Elements /\ b \in Elements /\ Writes(p, <<a>>) /\ Writes(q, <<b>>)
    BY <1>1, OidWritten, NullWritten
  <2> QED BY <2>1, WritesJoin
<1>3. Sha256Names = {p, p \o q}
  BY <1>1 DEF Sha256Names
<1>4. PICK els : els = DerElements(x)
  OBVIOUS
<1>5. IsSha256(x) <=> els # <<>> /\ els[1] = a /\ (Len(els) = 1 \/ Tail(els) = <<b>>)
  BY <1>1, <1>4 DEF IsSha256, Item
<1>6. ASSUME x \in Sha256Names PROVE IsDer(x) /\ IsSha256(x)
  <2>1. CASE x = p
    <3>1. IsDer(x) /\ els = <<a>>
      BY <1>2, <1>4, <2>1, WritesRead
    <3>2. els # <<>> /\ els[1] = a /\ Len(els) = 1
      BY <3>1
    <3> QED BY <1>5, <3>1, <3>2
  <2>2. CASE x = p \o q
    <3>1. IsDer(x) /\ els = <<a>> \o <<b>>
      BY <1>2, <1>4, <2>2, WritesRead
    <3>2. els \in Seq(Elements)
      BY <1>2, <3>1
    <3>3. els # <<>> /\ els[1] = a /\ Tail(els) = <<b>>
      <4>1. PICK E : E = Elements
        OBVIOUS
      <4>2. els \in Seq(E) /\ a \in E /\ b \in E
        BY <1>2, <3>2, <4>1
      <4>3. els = <<a>> \o <<b>> => els # <<>>
        BY ONLY <4>2, TwoElements
      <4>4. els = <<a>> \o <<b>> => els[1] = a
        BY ONLY <4>2, TwoElements
      <4>5. els = <<a>> \o <<b>> => Tail(els) = <<b>>
        BY ONLY <4>2, TailOfPair
      <4> QED BY <3>1, <4>3, <4>4, <4>5
    <3> QED BY <1>5, <3>1, <3>3
  <2> QED BY <1>3, <1>6, <2>1, <2>2
<1>7. ASSUME IsDer(x), IsSha256(x) PROVE x \in Sha256Names
  <2>1. Writes(x, els)
    BY <1>4, <1>7, ReadWrites
  <2>2. els \in Seq(Elements)
    BY <2>1 DEF Writes
  <2>3. els # <<>> /\ els[1] = a /\ (Len(els) = 1 \/ Tail(els) = <<b>>)
    BY <1>5, <1>7
  <2>4. CASE Len(els) = 1
    <3>1. els = <<a>>
      BY <1>2, <2>2, <2>3, <2>4, OneElement
    <3>2. x = p
      BY <1>2, <2>1, <3>1, WritesSame
    <3> QED BY <1>3, <3>2
  <2>5. CASE Tail(els) = <<b>>
    <3>1. els = <<a>> \o <<b>>
      <4>1. PICK E : E = Elements
        OBVIOUS
      <4>2. els \in Seq(E) /\ a \in E /\ b \in E
        BY <1>2, <2>2, <4>1
      <4> QED BY ONLY <2>3, <2>5, <4>2, TwoElements
    <3>2. x = p \o q
      BY <1>2, <2>1, <3>1, WritesSame
    <3> QED BY <1>3, <3>2
  <2> QED BY <2>3, <2>4, <2>5
<1> QED BY <1>6, <1>7

\* They are short.
LEMMA NameLength ==
  ASSUME NEW x \in Sha256Names
  PROVE  x \in Seq(Byte) /\ Len(x) \in Nat /\ Len(x) <= 40
<1>1. PICK p, q : p = Der(OID, Sha256) /\ q = Der(NULL, <<>>)
  OBVIOUS
<1>2. p \in Seq(Byte) /\ q \in Seq(Byte) /\ Len(p) <= 36 /\ Len(q) <= 4
      /\ Len(p) \in Nat /\ Len(q) \in Nat
  BY <1>1, OidWritten, NullWritten
<1>3. p \o q \in Seq(Byte) /\ Len(p \o q) = Len(p) + Len(q)
  BY ONLY <1>2, ConcatShape
<1>4. x = p \/ x = p \o q
  BY <1>1 DEF Sha256Names
<1>5. PICK k, l : k = Len(p) /\ l = Len(q)
  OBVIOUS
<1>6. k \in Nat /\ l \in Nat /\ k <= 40 /\ k + l <= 40 /\ k + l \in Nat
  <2>1. k \in Nat /\ l \in Nat /\ k <= 36 /\ l <= 4
    BY <1>2, <1>5
  <2> QED BY ONLY <2>1
<1> QED BY <1>2, <1>3, <1>4, <1>5, <1>6

\* The value of the hash parameter that names SHA-256.
PermittedHash(v) == \E name \in Sha256Names : v = Der(SEQUENCE, name)

\* It is what the loop takes for one.
LEMMA HashIs ==
  ASSUME NEW v \in Seq(Byte), IsShort(Len(v))
  PROVE  HasHash(v) /\ IsSha256(Single(v)) <=> PermittedHash(v)
<1>1. ASSUME PermittedHash(v) PROVE HasHash(v) /\ IsSha256(Single(v))
  <2>1. PICK name \in Sha256Names : v = Der(SEQUENCE, name)
    BY <1>1 DEF PermittedHash
  <2>2. name \in Seq(Byte) /\ IsShort(Len(name))
    <3>1. Len(name) <= 20000
      <4>1. PICK n : n = Len(name)
        OBVIOUS
      <4>2. n \in Nat /\ n <= 40
        BY <4>1, NameLength
      <4>3. n <= 20000
        BY ONLY <4>2, SMT
      <4> QED BY <4>1, <4>3
    <3> QED BY <3>1, NameLength, ShortNumbers
  <2>3. IsDer(name) /\ IsSha256(name)
    BY <2>2, NameIs
  <2>4. IsWritable(SEQUENCE, name)
    BY <2>2, Tags DEF IsTag, IsWritable
  <2>5. IsSingle(v, SEQUENCE) /\ Single(v) = name
    BY <2>1, <2>4, SingleBack
  <2> QED BY <2>3, <2>5 DEF HasHash
<1>2. ASSUME HasHash(v), IsSha256(Single(v)) PROVE PermittedHash(v)
  <2>1. IsSingle(v, SEQUENCE) /\ IsDer(Single(v)) /\ IsTag(SEQUENCE)
    BY <1>2, Tags DEF HasHash
  <2>2. IsWritable(SEQUENCE, Single(v)) /\ v = Der(SEQUENCE, Single(v))
    BY <2>1, SingleIs
  <2>3. Single(v) \in Sha256Names
    BY <1>2, <2>1, <2>2, NameIs DEF IsWritable
  <2> QED BY <2>2, <2>3 DEF PermittedHash
<1> QED BY <1>1, <1>2

\* A name can be written as the value of an element.
LEMMA NameWritten ==
  ASSUME NEW name \in Sha256Names
  PROVE  /\ IsWritable(SEQUENCE, name) /\ IsDer(name) /\ IsSha256(name)
         /\ Der(SEQUENCE, name) \in Seq(Byte)
         /\ Len(Der(SEQUENCE, name)) \in Nat /\ Len(Der(SEQUENCE, name)) <= 44
<1>1. name \in Seq(Byte) /\ Len(name) \in Nat /\ Len(name) <= 40
  BY NameLength
<1>2. IsShort(Len(name))
  <2>1. PICK n : n = Len(name)
    OBVIOUS
  <2>2. n \in Nat /\ n <= 20000
    BY <1>1, <2>1, SMT
  <2> QED BY <2>1, <2>2, ShortNumbers
<1>3. IsWritable(SEQUENCE, name)
  BY <1>1, <1>2, Tags DEF IsTag, IsWritable
<1>4. Der(SEQUENCE, name) \in Seq(Byte) /\ Len(Der(SEQUENCE, name)) <= Len(name) + 4
  BY <1>3, DerBytes
<1>5. Len(Der(SEQUENCE, name)) \in Nat /\ Len(Der(SEQUENCE, name)) <= 44
  <2>1. PICK n, m : n = Len(name) /\ m = Len(Der(SEQUENCE, name))
    OBVIOUS
  <2>2. n \in Nat /\ n <= 40 /\ m \in Nat /\ m <= n + 4
    BY <1>1, <1>4, <2>1
  <2>3. m <= 44
    BY ONLY <2>2
  <2> QED BY <2>1, <2>2, <2>3
<1> QED BY <1>1, <1>2, <1>3, <1>4, <1>5, NameIs

\* The value of the mask generation parameter that names MGF1 with SHA-256.
PermittedMask(v) ==
    \E name \in Sha256Names : v = Der(SEQUENCE, Der(OID, Mgf1) \o Der(SEQUENCE, name))
\* What the loop takes for one.
ReadsMask(v) ==
    LET fields == DerElements(Single(v))
    IN  HasMaskGeneration(v) /\ NamesMgf1(fields) /\ IsSha256(fields[2].value)

\* What is inside one can be written, and read.
LEMMA MaskWritten ==
  ASSUME NEW name \in Sha256Names, NEW x, x = Der(OID, Mgf1) \o Der(SEQUENCE, name)
  PROVE  /\ Writes(x, <<Item(OID, Mgf1)>> \o <<Item(SEQUENCE, name)>>)
         /\ Item(OID, Mgf1) \in Elements /\ Item(SEQUENCE, name) \in Elements
         /\ IsWritable(SEQUENCE, x)
         /\ Len(Der(SEQUENCE, x)) \in Nat /\ Len(Der(SEQUENCE, x)) <= 84
<1>1. PICK p, q, a, b : /\ p = Der(OID, Mgf1) /\ q = Der(SEQUENCE, name)
                        /\ a = Item(OID, Mgf1) /\ b = Item(SEQUENCE, name)
  OBVIOUS
<1>2. /\ p \in Seq(Byte) /\ Len(p) \in Nat /\ Len(p) <= 36 /\ a \in Elements
      /\ Writes(p, <<a>>)
  BY <1>1, OidWritten
<1>3. /\ q \in Seq(Byte) /\ Len(q) \in Nat /\ Len(q) <= 44 /\ IsWritable(SEQUENCE, name)
  BY <1>1, NameWritten
<1>4. Writes(q, <<b>>)
  BY <1>1, <1>3, WritesOne DEF Item
<1>5. b \in Elements
  <2>1. SEQUENCE \in Nat
    BY DEF SEQUENCE
  <2> QED BY <1>1, <1>3, <2>1 DEF IsWritable, Item, Elements
<1>6. Writes(x, <<a>> \o <<b>>)
  BY <1>1, <1>2, <1>4, WritesJoin
<1>7. x \in Seq(Byte) /\ Len(x) \in Nat /\ Len(x) <= 80
  <2>1. PICK k, l, m : k = Len(p) /\ l = Len(q) /\ m = Len(p \o q)
    OBVIOUS
  <2>2. p \o q \in Seq(Byte) /\ m = k + l
    BY <1>2, <1>3, <2>1, ConcatShape
  <2>3. k \in Nat /\ l \in Nat /\ k <= 36 /\ l <= 44
    BY <1>2, <1>3, <2>1
  <2>4. k + l \in Nat /\ k + l <= 80
    BY ONLY <2>3
  <2> QED BY <1>1, <2>1, <2>2, <2>4
<1>8. IsShort(Len(x))
  <2>1. PICK n : n = Len(x)
    OBVIOUS
  <2>2. n \in Nat /\ n <= 20000
    BY <1>7, <2>1, SMT
  <2> QED BY <2>1, <2>2, ShortNumbers
<1>9. IsWritable(SEQUENCE, x)
  BY <1>7, <1>8, Tags DEF IsTag, IsWritable
<1>10. Len(Der(SEQUENCE, x)) \in Nat /\ Len(Der(SEQUENCE, x)) <= 84
  <2>1. PICK n, m : n = Len(x) /\ m = Len(Der(SEQUENCE, x))
    OBVIOUS
  <2>2. n \in Nat /\ n <= 80 /\ m \in Nat /\ m <= n + 4
    <3>1. Der(SEQUENCE, x) \in Seq(Byte) /\ Len(Der(SEQUENCE, x)) <= Len(x) + 4
      BY <1>9, DerBytes
    <3> QED BY <1>7, <2>1, <3>1
  <2>3. m <= 84
    BY ONLY <2>2
  <2> QED BY <2>1, <2>2, <2>3
<1> QED BY <1>1, <1>2, <1>5, <1>6, <1>9, <1>10

\* It is what the loop takes for one.
LEMMA MaskIs ==
  ASSUME NEW v \in Seq(Byte), IsShort(Len(v))
  PROVE  ReadsMask(v) <=> PermittedMask(v)
<1>1. PICK fields : fields = DerElements(Single(v))
  OBVIOUS
<1>2. ReadsMask(v) <=> HasHash(v) /\ NamesMgf1(fields) /\ IsDer(fields[2].value)
                       /\ IsSha256(fields[2].value)
  BY <1>1 DEF ReadsMask, HasMaskGeneration
<1>3. PICK a : a = Item(OID, Mgf1)
  OBVIOUS
<1>4. NamesMgf1(fields) <=> Len(fields) = 2 /\ fields[1] = a /\ fields[2].tag = SEQUENCE
  BY <1>3 DEF NamesMgf1, Item
<1>5. ASSUME PermittedMask(v) PROVE ReadsMask(v)
  <2>1. PICK name \in Sha256Names : v = Der(SEQUENCE, Der(OID, Mgf1) \o Der(SEQUENCE, name))
    BY <1>5 DEF PermittedMask
  <2>2. PICK x, b : x = Der(OID, Mgf1) \o Der(SEQUENCE, name) /\ b = Item(SEQUENCE, name)
    OBVIOUS
  <2>3. /\ Writes(x, <<a>> \o <<b>>) /\ a \in Elements /\ b \in Elements
        /\ IsWritable(SEQUENCE, x)
    BY <1>3, <2>2, MaskWritten
  <2>4. IsSingle(v, SEQUENCE) /\ Single(v) = x
    BY <2>1, <2>2, <2>3, SingleBack
  <2>5. IsDer(x) /\ fields = <<a>> \o <<b>>
    BY <1>1, <2>3, <2>4, WritesRead
  <2>6. Len(fields) = 2 /\ fields[1] = a /\ fields[2] = b
    <3>1. PICK E : E = Elements
      OBVIOUS
    <3>2. a \in E /\ b \in E /\ fields \in Seq(E)
      <4>1. <<a>> \o <<b>> \in Seq(Elements)
        BY <2>3 DEF Writes
      <4> QED BY <2>3, <2>5, <3>1, <4>1
    <3> QED BY ONLY <2>5, <3>2, TwoElements
  <2>7. fields[2].tag = SEQUENCE /\ fields[2].value = name
    BY <2>2, <2>6 DEF Item
  <2>8. IsDer(name) /\ IsSha256(name)
    BY NameWritten
  <2> QED BY <1>2, <1>4, <2>4, <2>5, <2>6, <2>7, <2>8 DEF HasHash
<1>6. ASSUME ReadsMask(v) PROVE PermittedMask(v)
  <2>1. /\ HasHash(v) /\ Len(fields) = 2 /\ fields[1] = a /\ fields[2].tag = SEQUENCE
        /\ IsDer(fields[2].value) /\ IsSha256(fields[2].value)
    BY <1>2, <1>4, <1>6
  <2>2. PICK x, b, y : x = Single(v) /\ b = fields[2] /\ y = b.value
    OBVIOUS
  <2>3. IsSingle(v, SEQUENCE) /\ IsDer(x) /\ IsTag(SEQUENCE)
    BY <2>1, <2>2, Tags DEF HasHash
  <2>4. IsWritable(SEQUENCE, x) /\ v = Der(SEQUENCE, x)
    BY <2>2, <2>3, SingleIs
  <2>5. x \in Seq(Byte) /\ IsShort(Len(x))
    BY <2>4 DEF IsWritable
  <2>6. Writes(x, fields)
    BY <1>1, <2>2, <2>3, <2>5, ReadWrites
  <2>7. /\ fields \in Seq(Elements)
        /\ \A i \in 1..Len(fields) : IsWritable(fields[i].tag, fields[i].value)
    BY <2>6 DEF Writes
  <2>8. a \in Elements /\ b \in Elements /\ IsWritable(b.tag, b.value)
    <3>1. PICK E : E = Elements
      OBVIOUS
    <3>2. 1 \in 1..Len(fields) /\ 2 \in 1..Len(fields) /\ fields \in Seq(E)
      BY <2>1, <2>7, <3>1
    <3>3. fields[1] \in E /\ fields[2] \in E
      BY ONLY <3>2
    <3> QED BY <2>1, <2>2, <2>7, <3>1, <3>2, <3>3
  <2>9. y \in Sha256Names
    <3>1. y \in Seq(Byte) /\ IsShort(Len(y))
      BY <2>2, <2>8 DEF IsWritable
    <3> QED BY <2>1, <2>2, <3>1, NameIs
  <2>10. b = Item(SEQUENCE, y)
    BY <2>1, <2>2, <2>8 DEF Item, Elements
  <2>11. fields = <<a>> \o <<b>>
    <3>1. PICK E : E = Elements
      OBVIOUS
    <3>2. a \in E /\ b \in E /\ fields \in Seq(E) /\ Len(fields) = 2 /\ fields[1] = a
          /\ fields[2] = b
      BY <2>1, <2>2, <2>7, <2>8, <3>1
    <3> QED BY ONLY <3>2, TwoElements
  <2>12. PICK z : z = Der(OID, Mgf1) \o Der(SEQUENCE, y)
    OBVIOUS
  <2>13. Writes(z, fields)
    BY <1>3, <2>9, <2>10, <2>11, <2>12, MaskWritten
  <2>14. x = z
    BY <2>6, <2>13, WritesSame
  <2> QED BY <2>4, <2>9, <2>12, <2>14 DEF PermittedMask
<1> QED BY <1>5, <1>6

-----------------------------------------------------------------------------
(* Integers *)

\* The number of a single byte.
LEMMA ByteNumber ==
  ASSUME NEW n \in Byte
  PROVE  <<n>> \in Seq(Byte) /\ Number(<<n>>) = n
<1>1. PICK d : d = <<n>>
  OBVIOUS
<1>2. d \in Seq(Byte) /\ Len(d) = 1 /\ d[1] = n
  BY <1>1
<1>3. PICK v : /\ v[0] = 0
               /\ \A i \in 1..Len(d) : v[i] = Base * v[i - 1] + d[i]
               /\ Number(d) = v[Len(d)]
  BY <1>2, NumberShape
<1>4. 1 \in 1..1 /\ 1 - 1 = 0
  OBVIOUS
<1>5. v[1] = Base * 0 + n
  BY <1>2, <1>3, <1>4
<1>6. Base * 0 + n = n
  BY HalfIs DEF Byte
<1> QED BY <1>1, <1>2, <1>3, <1>5, <1>6

\* An integer that is not written longer than needed, and is less than 128, is
\* one byte.
LEMMA SmallInteger ==
  ASSUME NEW d \in Seq(Byte), Len(d) >= 1, Len(d) > 1 /\ d[1] = 0 => d[2] >= Half,
         Number(d) < 128
  PROVE  d = <<Number(d)>> /\ Number(d) \in 0..127
<1> DEFINE n == Len(d)
<1>1. PICK v \in [0..Len(d) -> Nat] : /\ v[0] = 0
                                      /\ \A i \in 1..Len(d) : v[i] = Base * v[i - 1] + d[i]
                                      /\ Number(d) = v[Len(d)]
  BY NumberShape
<1>2. n \in Nat /\ n >= 1
  OBVIOUS
<1>3. \A i \in 1..n : /\ v[i] = 256 * v[i - 1] + d[i] /\ d[i] \in 0..255
                      /\ v[i] \in Nat /\ v[i - 1] \in Nat
  <2> TAKE i \in 1..n
  <2>1. i \in 0..n /\ i - 1 \in 0..n
    BY <1>2
  <2>2. d[i] \in 0..255
    <3>1. d[i] \in Byte
      OBVIOUS
    <3> QED BY <3>1, HalfIs DEF Byte
  <2> QED BY <1>1, <2>1, <2>2, HalfIs
<1> HIDE DEF n
<1>4. n = 1
  <2>1. SUFFICES ASSUME n > 1 PROVE FALSE
    BY <1>2
  <2>2. 1 \in 1..n /\ 2 \in 1..n /\ 1 - 1 = 0 /\ 2 - 1 = 1
    BY <1>2, <2>1
  <2>3. PICK v0, v1, v2, d1, d2 : v0 = v[0] /\ v1 = v[1] /\ v2 = v[2] /\ d1 = d[1] /\ d2 = d[2]
    OBVIOUS
  <2>4. /\ v1 = 256 * v0 + d1 /\ v2 = 256 * v1 + d2 /\ v0 = 0
        /\ d1 \in 0..255 /\ d2 \in 0..255
    BY <1>1, <1>3, <2>2, <2>3
  <2>5. d1 = 0 => d2 >= 128
    BY <2>1, <2>3, HalfIs DEF n
  <2>6. v2 >= 128
    BY ONLY <2>4, <2>5
  <2> DEFINE S == {i \in 2..n : v[i] >= 128}
  <2>7. 2..n \subseteq S
    <3>1. 2 <= n => 2 \in S
      BY <1>2, <2>3, <2>6
    <3>2. \A i \in 2..(n - 1) : i \in S => i + 1 \in S
      <4> TAKE i \in 2..(n - 1)
      <4>1. HAVE i \in S
      <4>2. i + 1 \in 2..n /\ i + 1 \in 1..n /\ (i + 1) - 1 = i
        BY <1>2
      <4>3. PICK w, u, e : w = v[i + 1] /\ u = v[i] /\ e = d[i + 1]
        OBVIOUS
      <4>4. w = 256 * u + e /\ e \in 0..255 /\ u \in Nat /\ u >= 128
        BY <1>3, <4>1, <4>2, <4>3
      <4>5. w >= 128
        BY ONLY <4>4
      <4> QED BY <4>2, <4>3, <4>5
    <3> HIDE DEF S
    <3>3. 2 \in Int /\ n \in Int
      BY <1>2
    <3> QED BY <3>1, <3>2, <3>3, IntervalInduction
  <2>8. v[n] >= 128
    BY <1>2, <2>1, <2>7
  <2>9. v[n] \in Nat /\ v[n] < 128
    <3>1. n \in 1..n
      BY <1>2
    <3> QED BY <1>1, <1>3, <3>1 DEF n
  <2>10. PICK w : w = v[n]
    OBVIOUS
  <2> QED BY ONLY <2>8, <2>9, <2>10
<1>5. Len(d) = 1 /\ d = <<d[1]>> /\ d[1] \in Byte
  <2>1. Len(d) = 1
    BY <1>4 DEF n
  <2>2. PICK B : B = Byte
    OBVIOUS
  <2>3. d \in Seq(B)
    BY <2>2
  <2>4. d[1] \in B
    <3>1. 1 \in 1..Len(d)
      BY ONLY <2>1
    <3> QED BY ONLY <2>3, <3>1
  <2>5. d = <<d[1]>>
    BY ONLY <2>1, <2>3, <2>4, OneElement
  <2> QED BY <2>1, <2>2, <2>4, <2>5
<1>6. Number(<<d[1]>>) = d[1]
  BY <1>5, ByteNumber
<1>7. Number(d) = d[1]
  BY <1>5, <1>6
<1>8. d[1] \in 0..127
  <2>1. PICK e : e = d[1]
    OBVIOUS
  <2>2. e \in 0..255 /\ e < 128
    BY <1>5, <1>7, <2>1, HalfIs DEF Byte
  <2>3. e \in 0..127
    BY ONLY <2>2
  <2> QED BY <2>1, <2>3
<1> QED BY <1>5, <1>7, <1>8

\* A small number can be written.
LEMMA SmallWritten ==
  ASSUME NEW n \in 0..127
  PROVE  /\ n \in Byte /\ IsWritable(INTEGER, <<n>>) /\ Item(INTEGER, <<n>>) \in Elements
         /\ Number(<<n>>) = n /\ n < Half
         /\ Len(Der(INTEGER, <<n>>)) \in Nat /\ Len(Der(INTEGER, <<n>>)) <= 5
<1>1. n \in Byte /\ n < Half
  BY HalfIs DEF Byte
<1>2. PICK d : d = <<n>>
  OBVIOUS
<1>3. d \in Seq(Byte) /\ Number(d) = n /\ Len(d) = 1
  BY <1>1, <1>2, ByteNumber
<1>4. IsWritable(INTEGER, d)
  <2>1. IsShort(1)
    BY ShortNumbers
  <2> QED BY <1>3, <2>1, Tags DEF IsTag, IsWritable
<1>5. Item(INTEGER, d) \in Elements
  <2>1. INTEGER \in Nat
    BY DEF INTEGER
  <2>2. d \in Seq(Nat)
    <3>1. n \in Nat
      OBVIOUS
    <3> QED BY <1>2, <3>1
  <2> QED BY <1>3, <2>1, <2>2 DEF Item, Elements
<1>6. Len(Der(INTEGER, d)) \in Nat /\ Len(Der(INTEGER, d)) <= 5
  <2>1. Der(INTEGER, d) \in Seq(Byte) /\ Len(Der(INTEGER, d)) <= Len(d) + 4
    BY <1>4, DerBytes
  <2>2. PICK m : m = Len(Der(INTEGER, d))
    OBVIOUS
  <2>3. m \in Nat /\ m <= 1 + 4
    BY <1>3, <2>1, <2>2
  <2>4. m <= 5
    BY ONLY <2>3
  <2> QED BY <2>2, <2>3, <2>4
<1> QED BY <1>1, <1>2, <1>3, <1>4, <1>5, <1>6

\* What the loop takes for a small number is that number written.
LEMMA IntegerIs ==
  ASSUME NEW v \in Seq(Byte), IsShort(Len(v)), NEW n \in 0..127
  PROVE  IsInteger(v) /\ Integer(v) = n <=> v = Der(INTEGER, <<n>>)
<1>1. PICK d, w : d = <<n>> /\ w = Single(v)
  OBVIOUS
<1>2. /\ IsWritable(INTEGER, d) /\ Number(d) = n /\ n < Half
      /\ Len(d) = 1 /\ d[1] = n
  BY <1>1, SmallWritten
<1>3. IsInteger(v) <=> /\ IsSingle(v, INTEGER)
                       /\ Len(w) \in 1..MaxIntegerBytes
                       /\ w[1] < Half
                       /\ Len(w) > 1 /\ w[1] = 0 => w[2] >= Half
  BY <1>1 DEF IsInteger
<1>4. Integer(v) = Number(w)
  BY <1>1 DEF Integer
<1>5. ASSUME v = Der(INTEGER, d) PROVE IsInteger(v) /\ Integer(v) = n
  <2>1. IsSingle(v, INTEGER) /\ w = d
    BY <1>1, <1>2, <1>5, SingleBack
  <2>2. 1 \in 1..MaxIntegerBytes
    BY BoundsAssumption
  <2>3. ~(1 > 1)
    OBVIOUS
  <2> QED BY <1>2, <1>3, <1>4, <2>1, <2>2, <2>3
<1>6. ASSUME IsInteger(v), Integer(v) = n PROVE v = Der(INTEGER, d)
  <2>1. /\ IsSingle(v, INTEGER) /\ Len(w) \in 1..MaxIntegerBytes
        /\ (Len(w) > 1 /\ w[1] = 0 => w[2] >= Half)
    BY <1>3, <1>6
  <2>2. IsWritable(INTEGER, w) /\ v = Der(INTEGER, w)
    BY <1>1, <2>1, Tags, SingleIs
  <2>3. w \in Seq(Byte) /\ Number(w) < 128 /\ Len(w) >= 1
    <3>1. n < 128
      OBVIOUS
    <3> QED BY <1>4, <1>6, <2>1, <2>2, <3>1 DEF IsWritable
  <2>4. w = <<Number(w)>>
    BY <2>1, <2>3, SmallInteger
  <2>5. w = d
    BY <1>1, <1>4, <1>6, <2>4
  <2> QED BY <2>2, <2>5
<1> QED BY <1>1, <1>5, <1>6

\* The value of the salt length that a salt of 32 bytes satisfies.
PermittedSalt(v) == \E n \in 0..32 : v = Der(INTEGER, <<n>>)
\* The value of the only trailer there is.
PermittedTrailer(v) == v = Der(INTEGER, <<1>>)

\* It is what the loop takes for one.
LEMMA SaltIs ==
  ASSUME NEW v \in Seq(Byte), IsShort(Len(v))
  PROVE  IsInteger(v) /\ Integer(v) <= 32 <=> PermittedSalt(v)
<1>1. ASSUME IsInteger(v), Integer(v) <= 32 PROVE PermittedSalt(v)
  <2>1. Integer(v) \in Nat
    <3>1. IsSingle(v, INTEGER)
      BY <1>1 DEF IsInteger
    <3>2. Single(v) \in Seq(Byte)
      BY <3>1, Tags, SingleIs DEF IsWritable
    <3> QED BY <3>2, NumberIsNat DEF Integer
  <2>2. PICK n : n = Integer(v)
    OBVIOUS
  <2>3. n \in Nat /\ n <= 32
    BY <1>1, <2>1, <2>2
  <2>4. n \in 0..32 /\ n \in 0..127
    BY ONLY <2>3
  <2>5. v = Der(INTEGER, <<n>>)
    BY <1>1, <2>2, <2>4, IntegerIs
  <2> QED BY <2>4, <2>5 DEF PermittedSalt
<1>2. ASSUME PermittedSalt(v) PROVE IsInteger(v) /\ Integer(v) <= 32
  <2>1. PICK n \in 0..32 : v = Der(INTEGER, <<n>>)
    BY <1>2 DEF PermittedSalt
  <2>2. n \in 0..127 /\ n <= 32
    OBVIOUS
  <2> QED BY <2>1, <2>2, IntegerIs
<1> QED BY <1>1, <1>2

\* It is what the loop takes for one.
LEMMA TrailerIs ==
  ASSUME NEW v \in Seq(Byte), IsShort(Len(v))
  PROVE  IsInteger(v) /\ Integer(v) = 1 <=> PermittedTrailer(v)
<1>1. 1 \in 0..127
  OBVIOUS
<1> QED BY <1>1, IntegerIs DEF PermittedTrailer

\* A byte string of at most n bytes.
AtMost(x, n) == x \in Seq(Byte) /\ Len(x) \in Nat /\ n \in Nat /\ Len(x) <= n

\* Two after another.
LEMMA AtMostJoin ==
  ASSUME NEW x, NEW m, AtMost(x, m), NEW y, NEW n, AtMost(y, n), NEW k, k = m + n
  PROVE  AtMost(x \o y, k)
<1>1. /\ x \in Seq(Byte) /\ Len(x) \in Nat /\ m \in Nat /\ Len(x) <= m
      /\ y \in Seq(Byte) /\ Len(y) \in Nat /\ n \in Nat /\ Len(y) <= n
  BY DEF AtMost
<1>2. x \o y \in Seq(Byte) /\ Len(x \o y) = Len(x) + Len(y)
  BY <1>1, ConcatShape
<1>3. PICK a, b, c : a = Len(x) /\ b = Len(y) /\ c = Len(x \o y)
  OBVIOUS
<1>4. /\ a \in Nat /\ b \in Nat /\ m \in Nat /\ n \in Nat /\ a <= m /\ b <= n /\ c = a + b
      /\ k = m + n
  BY <1>1, <1>2, <1>3
<1>5. c \in Nat /\ k \in Nat /\ c <= k
  BY ONLY <1>4
<1> QED BY <1>2, <1>3, <1>5 DEF AtMost

\* A value that is short enough can be written.
LEMMA AtMostWritten ==
  ASSUME NEW tag, IsTag(tag), NEW v, NEW n, AtMost(v, n), IsShort(n), NEW k, k = n + 4
  PROVE  /\ IsWritable(tag, v) /\ AtMost(Der(tag, v), k)
         /\ Item(tag, v) \in Elements /\ Writes(Der(tag, v), <<Item(tag, v)>>)
<1>1. v \in Seq(Byte) /\ Len(v) \in Nat /\ n \in Nat /\ Len(v) <= n
  BY DEF AtMost
<1>2. PICK a : a = Len(v)
  OBVIOUS
<1>3. a \in Nat /\ n \in Nat /\ a <= n
  BY <1>1, <1>2
<1>4. IsShort(Len(v))
  <2>1. IsShort(a)
    BY <1>3, ShortLess
  <2> QED BY <1>2, <2>1
<1>5. IsWritable(tag, v)
  BY <1>1, <1>4 DEF IsTag, IsWritable
<1>6. Der(tag, v) \in Seq(Byte) /\ Len(Der(tag, v)) <= Len(v) + 4
  BY <1>5, DerBytes
<1>7. PICK c : c = Len(Der(tag, v))
  OBVIOUS
<1>8. c \in Nat /\ c <= a + 4 /\ a <= n /\ a \in Nat /\ n \in Nat
  BY <1>1, <1>2, <1>6, <1>7
<1>9. c <= k /\ k \in Nat
  <2>1. k = n + 4
    OBVIOUS
  <2> QED BY ONLY <1>8, <2>1
<1>10. tag \in Nat
  <2>1. Byte \subseteq Nat
    BY HalfIs DEF Byte
  <2> QED BY <2>1 DEF IsTag
<1>11. Item(tag, v) \in Elements
  BY <1>1, <1>10 DEF Item, Elements
<1>12. Writes(Der(tag, v), <<Item(tag, v)>>)
  BY <1>5, WritesOne DEF Item
<1> QED BY <1>5, <1>6, <1>7, <1>8, <1>9, <1>11, <1>12 DEF AtMost

\* Two after another are read as two.
LEMMA WritesTwo ==
  ASSUME NEW x, NEW a \in Elements, NEW y, NEW b \in Elements,
         Writes(x, <<a>>), Writes(y, <<b>>)
  PROVE  /\ IsDer(x \o y) /\ Len(DerElements(x \o y)) = 2
         /\ DerElements(x \o y)[1] = a /\ DerElements(x \o y)[2] = b
<1>1. PICK E, els : E = Elements /\ els = DerElements(x \o y)
  OBVIOUS
<1>2. Writes(x \o y, <<a>> \o <<b>>)
  BY WritesJoin
<1>3. IsDer(x \o y) /\ els = <<a>> \o <<b>>
  BY <1>1, <1>2, WritesRead
<1>4. a \in E /\ b \in E /\ els \in Seq(E)
  BY <1>1, <1>2, <1>3 DEF Writes
<1>5. Len(els) = 2 /\ els[1] = a /\ els[2] = b
  BY ONLY <1>3, <1>4, TwoElements
<1> QED BY <1>1, <1>3, <1>5

-----------------------------------------------------------------------------
(* From the certificate to the parameters *)

\* What is before the key of a certificate, and what is read from it.
FourSequences == FlattenSeq([i \in 1..4 |-> Der(SEQUENCE, <<>>)])

\* The four sequences are four elements.
LEMMA FourWritten ==
  \E f \in Seq(Elements) : Len(f) = 4 /\ Writes(FourSequences, f) /\ AtMost(FourSequences, 16)
<1>1. PICK z, e, x : z = <<>> /\ e = Item(SEQUENCE, z) /\ x = Der(SEQUENCE, z)
  OBVIOUS
<1>2. AtMost(z, 0)
  BY <1>1 DEF AtMost
<1>3. Writes(x, <<e>>) /\ AtMost(x, 4) /\ e \in Elements
  <2>1. IsTag(SEQUENCE) /\ IsShort(0) /\ 4 = 0 + 4
    BY Tags, ShortNumbers
  <2> QED BY <1>1, <1>2, <2>1, AtMostWritten
<1>4. PICK g, h : g = <<e>> \o <<e>> /\ h = x \o x
  OBVIOUS
<1>5. Writes(h, g) /\ AtMost(h, 8)
  <2>1. 8 = 4 + 4
    OBVIOUS
  <2> QED BY <1>3, <1>4, <2>1, WritesJoin, AtMostJoin
<1>6. PICK f, y : f = g \o g /\ y = h \o h
  OBVIOUS
<1>7. Writes(y, f) /\ AtMost(y, 16)
  <2>1. 16 = 8 + 8
    OBVIOUS
  <2> QED BY <1>5, <1>6, <2>1, WritesJoin, AtMostJoin
<1>8. f \in Seq(Elements) /\ Len(f) = 4 /\ \A i \in 1..4 : f[i] = e
  <2>1. PICK E : E = Elements
    OBVIOUS
  <2>2. e \in E
    BY <1>3, <2>1
  <2>3. g \in Seq(E) /\ Len(g) = 2 /\ g[1] = e /\ g[2] = e
    <3>1. g \in Seq(E)
      BY ONLY <1>4, <2>2
    <3> QED BY ONLY <1>4, <2>2, <3>1, TwoElements
  <2>4. /\ g \o g \in Seq(E) /\ Len(g \o g) = Len(g) + Len(g)
        /\ \A p \in 1..Len(g) : (g \o g)[p] = g[p]
        /\ \A j \in 1..Len(g) : (g \o g)[Len(g) + j] = g[j]
    <3>1. g \in Seq(E)
      BY <2>3
    <3> QED BY ONLY <3>1, ConcatShape
  <2>5. f \in Seq(E) /\ Len(f) = 4
    BY <1>6, <2>3, <2>4
  <2>6. 1 \in 1..2 /\ 2 \in 1..2 /\ 2 + 1 = 3 /\ 2 + 2 = 4
    OBVIOUS
  <2>7. f[1] = e /\ f[2] = e /\ f[3] = e /\ f[4] = e
    BY <1>6, <2>3, <2>4, <2>6
  <2>8. \A i \in 1..4 : i = 1 \/ i = 2 \/ i = 3 \/ i = 4
    OBVIOUS
  <2> QED BY <2>1, <2>5, <2>7, <2>8
<1>9. FourSequences = y
  <2>1. y = FlattenSeq([i \in DOMAIN f |-> Der(f[i].tag, f[i].value)])
    BY <1>7 DEF Writes, Written
  <2>2. DOMAIN f = 1..4
    BY <1>8
  <2>3. \A i \in 1..4 : Der(f[i].tag, f[i].value) = x
    BY <1>1, <1>8 DEF Item
  <2>4. [i \in DOMAIN f |-> Der(f[i].tag, f[i].value)] = [i \in 1..4 |-> x]
    BY <2>2, <2>3
  <2> QED BY <1>1, <2>1, <2>4 DEF FourSequences
<1> QED BY <1>7, <1>8, <1>9

\* What stands before the key.
Before(key) ==
    ((IF key.has_version THEN Der(160, Der(INTEGER, <<2>>)) ELSE <<>>) \o Der(INTEGER, <<1>>))
        \o FourSequences

\* It has as many elements as the code skips.
LEMMA BeforeWritten ==
  ASSUME NEW key, IsKey(key)
  PROVE  \E e \in Seq(Elements) :
            /\ Writes(Before(key), e) /\ AtMost(Before(key), 30)
            /\ Len(e) = IF key.has_version THEN 6 ELSE 5
            /\ e[1].tag = IF key.has_version THEN 160 ELSE INTEGER
<1>1. PICK f \in Seq(Elements) : /\ Len(f) = 4 /\ Writes(FourSequences, f)
                                 /\ AtMost(FourSequences, 16)
  BY FourWritten
<1>2. PICK one, i1, two, b, version :
        /\ one = <<1>> /\ i1 = Der(INTEGER, one) /\ two = Der(INTEGER, <<2>>)
        /\ b = Item(INTEGER, one) /\ version = Der(160, two)
  OBVIOUS
<1>3. Writes(i1, <<b>>) /\ AtMost(i1, 5) /\ b \in Elements
  <2>1. 1 \in 0..127
    OBVIOUS
  <2>2. /\ IsWritable(INTEGER, one) /\ Item(INTEGER, one) \in Elements
        /\ Len(Der(INTEGER, one)) \in Nat /\ Len(Der(INTEGER, one)) <= 5
    BY <1>2, <2>1, SmallWritten
  <2> QED BY <1>2, <2>2, WritesOne, DerBytes DEF AtMost, Item
<1>4. AtMost(two, 5)
  <2>1. 2 \in 0..127
    OBVIOUS
  <2>2. /\ IsWritable(INTEGER, <<2>>) /\ Len(two) \in Nat /\ Len(two) <= 5
    BY <1>2, <2>1, SmallWritten
  <2> QED BY <1>2, <2>2, DerBytes DEF AtMost
<1>5. PICK v : v = Item(160, two)
  OBVIOUS
<1>6. Writes(version, <<v>>) /\ AtMost(version, 9) /\ v \in Elements
  <2>1. IsTag(160) /\ IsShort(5) /\ 9 = 5 + 4
    BY Tags, ShortNumbers
  <2> QED BY <1>2, <1>4, <1>5, <2>1, AtMostWritten
<1>7. PICK E : E = Elements
  OBVIOUS
<1>8. b \in E /\ v \in E /\ f \in Seq(E) /\ Len(f) = 4
  BY <1>1, <1>3, <1>6, <1>7
<1>9. CASE key.has_version
  <2>1. Before(key) = (version \o i1) \o FourSequences
    BY <1>2, <1>9 DEF Before
  <2>2. PICK g, h : g = <<v>> \o <<b>> /\ h = version \o i1
    OBVIOUS
  <2>3. Writes(h, g) /\ AtMost(h, 14)
    <3>1. 14 = 9 + 5
      OBVIOUS
    <3> QED BY <1>3, <1>6, <2>2, <3>1, WritesJoin, AtMostJoin
  <2>4. Writes(h \o FourSequences, g \o f) /\ AtMost(h \o FourSequences, 30)
    <3>1. 30 = 14 + 16
      OBVIOUS
    <3> QED BY <1>1, <2>3, <3>1, WritesJoin, AtMostJoin
  <2>5. g \in Seq(E) /\ Len(g) = 2 /\ g[1] = v
    <3>1. g \in Seq(E)
      BY ONLY <1>8, <2>2
    <3> QED BY ONLY <1>8, <2>2, <3>1, TwoElements
  <2>6. /\ g \o f \in Seq(E) /\ Len(g \o f) = Len(g) + Len(f)
        /\ \A p \in 1..Len(g) : (g \o f)[p] = g[p]
    <3>1. g \in Seq(E) /\ f \in Seq(E)
      BY <1>8, <2>5
    <3> QED BY ONLY <3>1, ConcatShape
  <2>7. 1 \in 1..2 /\ 2 + 4 = 6
    OBVIOUS
  <2>8. Len(g \o f) = 6 /\ (g \o f)[1] = v
    BY <1>8, <2>5, <2>6, <2>7
  <2>9. v.tag = 160
    BY <1>5 DEF Item
  <2>10. PICK t : t = g \o f
    OBVIOUS
  <2>11. Writes(Before(key), t) /\ AtMost(Before(key), 30)
    BY <2>1, <2>2, <2>4, <2>10
  <2>12. t \in Seq(Elements) /\ Len(t) = 6 /\ t[1].tag = 160
    BY <1>7, <2>6, <2>8, <2>9, <2>10
  <2> QED BY <1>9, <2>11, <2>12
<1>10. CASE ~key.has_version
  <2>1. i1 \in Seq(Byte)
    BY <1>3 DEF AtMost
  <2>2. Before(key) = (<<>> \o i1) \o FourSequences
    BY <1>2, <1>10 DEF Before
  <2>3. Before(key) = i1 \o FourSequences
    BY <2>1, <2>2
  <2>4. PICK g : g = <<b>>
    OBVIOUS
  <2>5. Writes(i1 \o FourSequences, g \o f) /\ AtMost(i1 \o FourSequences, 21)
    <3>1. 21 = 5 + 16
      OBVIOUS
    <3> QED BY <1>1, <1>3, <2>4, <3>1, WritesJoin, AtMostJoin
  <2>6. AtMost(i1 \o FourSequences, 30)
    <3>1. PICK n : n = Len(i1 \o FourSequences)
      OBVIOUS
    <3>2. n \in Nat /\ n <= 21
      BY <2>5, <3>1 DEF AtMost
    <3>3. n <= 30 /\ 30 \in Nat
      BY ONLY <3>2
    <3> QED BY <2>5, <3>1, <3>3 DEF AtMost
  <2>7. g \in Seq(E) /\ Len(g) = 1 /\ g[1] = b
    BY <1>8, <2>4
  <2>8. /\ g \o f \in Seq(E) /\ Len(g \o f) = Len(g) + Len(f)
        /\ \A p \in 1..Len(g) : (g \o f)[p] = g[p]
    <3>1. g \in Seq(E) /\ f \in Seq(E)
      BY <1>8, <2>7
    <3> QED BY ONLY <3>1, ConcatShape
  <2>9. 1 \in 1..1 /\ 1 + 4 = 5
    OBVIOUS
  <2>10. Len(g \o f) = 5 /\ (g \o f)[1] = b
    BY <1>8, <2>7, <2>8, <2>9
  <2>11. b.tag = INTEGER
    BY <1>2 DEF Item
  <2> QED BY <1>7, <1>10, <2>3, <2>5, <2>6, <2>8, <2>10, <2>11
<1> QED BY <1>9, <1>10

\* The length of something in a certificate.
InCertificate(n) == n \in Nat /\ n <= 16384

\* A certificate around it is still short.
LEMMA CertificateShort ==
  ASSUME NEW n, InCertificate(n)
  PROVE  /\ n \in Nat /\ IsShort(n) /\ IsShort(n + 9) /\ IsShort(30 + (n + 13))
<1>1. n \in Nat /\ n <= 16384
  BY SMT DEF InCertificate
<1>2. /\ n \in Nat /\ n + 9 \in Nat /\ 30 + (n + 13) \in Nat
      /\ n <= 20000 /\ n + 9 <= 20000 /\ 30 + (n + 13) <= 20000
  BY ONLY <1>1, SMT
<1> QED BY <1>2, ShortNumbers

\* The key itself.
LEMMA SpkiWritten ==
  ASSUME NEW a \in Seq(Byte), InCertificate(Len(a))
  PROVE  \E x, bits :
            /\ Item(SEQUENCE, x) \in Elements
            /\ Writes(Spki(a), <<Item(SEQUENCE, x)>>)
            /\ \E n \in Nat : AtMost(Spki(a), n) /\ IsShort(30 + n)
            /\ IsDer(x) /\ Len(DerElements(x)) = 2
            /\ DerElements(x)[1] = Item(SEQUENCE, a) /\ DerElements(x)[2] = Item(BIT_STRING, bits)
<1>1. PICK zero, p, q, x, n : /\ zero = <<0>> /\ p = Der(SEQUENCE, a) /\ q = Der(BIT_STRING, zero)
                              /\ x = p \o q /\ n = Len(a)
  OBVIOUS
<1>2. n \in Nat /\ IsShort(n) /\ IsShort(n + 9) /\ IsShort(30 + (n + 13))
  BY <1>1, CertificateShort
<1>3. IsShort(n) /\ IsShort(n + 9)
  BY <1>2
<1>4. AtMost(a, n)
  BY <1>1, <1>2 DEF AtMost
<1>5. /\ AtMost(p, n + 4) /\ Item(SEQUENCE, a) \in Elements
      /\ Writes(p, <<Item(SEQUENCE, a)>>)
  BY <1>1, <1>3, <1>4, Tags, AtMostWritten
<1>6. AtMost(zero, 1)
  <2>1. 0 \in Byte
    BY HalfIs DEF Byte
  <2> QED BY <1>1, <2>1 DEF AtMost
<1>7. /\ AtMost(q, 5) /\ Item(BIT_STRING, zero) \in Elements
      /\ Writes(q, <<Item(BIT_STRING, zero)>>)
  <2>1. IsTag(BIT_STRING) /\ IsShort(1) /\ 5 = 1 + 4
    BY Tags, ShortNumbers
  <2> QED BY <1>1, <1>6, <2>1, AtMostWritten
<1>8. /\ IsDer(x) /\ Len(DerElements(x)) = 2
      /\ DerElements(x)[1] = Item(SEQUENCE, a) /\ DerElements(x)[2] = Item(BIT_STRING, zero)
  BY <1>1, <1>5, <1>7, WritesTwo
<1>9. AtMost(x, n + 9)
  <2>1. n + 9 = (n + 4) + 5
    BY <1>2
  <2>2. AtMost(p \o q, n + 9)
    BY ONLY <1>5, <1>7, <2>1, AtMostJoin
  <2> QED BY <1>1, <2>2
<1>10. /\ AtMost(Der(SEQUENCE, x), n + 13) /\ Item(SEQUENCE, x) \in Elements
       /\ Writes(Der(SEQUENCE, x), <<Item(SEQUENCE, x)>>)
  <2>1. n + 13 = (n + 9) + 4
    BY <1>2
  <2> QED BY <1>3, <1>9, <2>1, Tags, AtMostWritten
<1>11. n + 13 \in Nat /\ IsShort(30 + (n + 13))
  BY <1>2
<1>12. Spki(a) = Der(SEQUENCE, x)
  BY <1>1 DEF Spki
<1> WITNESS x, zero
<1> QED BY <1>8, <1>10, <1>11, <1>12

\* What the certificate of a key is made of.
Content(key) == Before(key) \o Spki(key.algorithm)

\* It can be written, and the key is where the code looks.
LEMMA ContentWritten ==
  ASSUME NEW key, IsKey(key)
  PROVE  /\ IsWritable(SEQUENCE, Content(key)) /\ IsDer(Content(key))
         /\ LET fields == DerElements(Content(key))
                index == SpkiIndex(fields)
                x == fields[index].value
            IN  /\ Len(fields) >= index /\ fields[index].tag = SEQUENCE
                /\ Len(DerElements(x)) = 2
                /\ DerElements(x)[1] = Item(SEQUENCE, key.algorithm)
                /\ DerElements(x)[2].tag = BIT_STRING
<1>1. PICK a : a = key.algorithm
  OBVIOUS
<1>2. a \in Seq(Byte) /\ InCertificate(Len(a))
  <2>1. a \in Seq(Byte) /\ Len(a) <= 16384
    BY <1>1, SMT DEF IsKey, Byte
  <2> QED BY <2>1, SMT DEF InCertificate
<1>13. PICK x, bits :
        /\ Item(SEQUENCE, x) \in Elements /\ Writes(Spki(a), <<Item(SEQUENCE, x)>>)
        /\ \E n \in Nat : AtMost(Spki(a), n) /\ IsShort(30 + n)
        /\ IsDer(x) /\ Len(DerElements(x)) = 2
        /\ DerElements(x)[1] = Item(SEQUENCE, a) /\ DerElements(x)[2] = Item(BIT_STRING, bits)
  BY <1>2, SpkiWritten
<1>14. PICK n \in Nat : AtMost(Spki(a), n) /\ IsShort(30 + n)
  BY <1>13
<1>3. PICK s, i :
        /\ s = Spki(a) /\ i = Item(SEQUENCE, x) /\ i \in Elements /\ Writes(s, <<i>>)
        /\ n \in Nat /\ AtMost(s, n) /\ IsShort(30 + n)
        /\ IsDer(x) /\ Len(DerElements(x)) = 2
        /\ DerElements(x)[1] = Item(SEQUENCE, a) /\ DerElements(x)[2] = Item(BIT_STRING, bits)
  BY <1>13, <1>14
<1>4. PICK before, e : /\ before = Before(key) /\ e \in Seq(Elements)
                       /\ Writes(before, e) /\ AtMost(before, 30)
                       /\ Len(e) = IF key.has_version THEN 6 ELSE 5
                       /\ e[1].tag = IF key.has_version THEN 160 ELSE INTEGER
  BY BeforeWritten
<1>5. Content(key) = before \o s
  BY <1>1, <1>3, <1>4 DEF Content
<1>6. AtMost(before \o s, 30 + n) /\ IsShort(30 + n)
  <2>1. AtMost(before \o s, 30 + n)
    BY ONLY <1>3, <1>4, AtMostJoin
  <2> QED BY <1>3, <2>1
<1>7. IsWritable(SEQUENCE, before \o s)
  BY <1>6, Tags, AtMostWritten
<1>8. PICK fields, l : fields = e \o <<i>> /\ l = <<i>>
  OBVIOUS
<1>9. IsDer(before \o s) /\ DerElements(before \o s) = fields
  <2>1. Writes(before \o s, fields)
    BY <1>3, <1>4, <1>8, WritesJoin
  <2> QED BY <2>1, WritesRead
<1>10. /\ Len(fields) = Len(e) + 1 /\ fields[Len(e) + 1] = i /\ fields[1] = e[1]
  <2>1. PICK E : E = Elements
    OBVIOUS
  <2>2. e \in Seq(E) /\ l \in Seq(E) /\ Len(l) = 1 /\ l[1] = i
    BY <1>3, <1>4, <1>8, <2>1
  <2>3. e \in Seq(E) /\ l \in Seq(E)
    BY <2>2
  <2>4. /\ Len(e \o l) = Len(e) + Len(l)
        /\ \A p \in 1..Len(e) : (e \o l)[p] = e[p]
        /\ \A j \in 1..Len(l) : (e \o l)[Len(e) + j] = l[j]
    BY ONLY <2>3, ConcatShape
  <2>5. 1 \in 1..1 /\ 1 \in 1..6 /\ 1 \in 1..5
    OBVIOUS
  <2>6. 1 \in 1..Len(e)
    BY <1>4, <2>5
  <2> QED BY <1>8, <2>2, <2>4, <2>5, <2>6
<1>11. Len(fields) >= SpkiIndex(fields) /\ fields[SpkiIndex(fields)] = i
  <2>1. fields # <<>>
    BY <1>4, <1>10
  <2>2. 6 + 1 = 7 /\ 5 + 1 = 6 /\ INTEGER # 160 /\ 7 >= 7 /\ 6 >= 6
    BY DEF INTEGER
  <2>3. CASE key.has_version
    <3>1. SpkiIndex(fields) = 7
      BY <1>4, <1>10, <2>1, <2>3 DEF SpkiIndex
    <3> QED BY <1>4, <1>10, <2>2, <2>3, <3>1
  <2>4. CASE ~key.has_version
    <3>1. SpkiIndex(fields) = 6
      BY <1>4, <1>10, <2>1, <2>2, <2>4 DEF SpkiIndex
    <3> QED BY <1>4, <1>10, <2>2, <2>4, <3>1
  <2> QED BY <2>3, <2>4
<1>12. i.tag = SEQUENCE /\ i.value = x /\ DerElements(x)[2].tag = BIT_STRING
  BY <1>3 DEF Item
<1> QED BY <1>1, <1>3, <1>5, <1>7, <1>9, <1>11, <1>12

\* The code finds the algorithm of the key of any certificate.
LEMMA AlgorithmRead ==
  ASSUME LeafInv
  PROVE  /\ Algorithm = DerElements(leaf.algorithm)
         /\ leaf.algorithm \in Seq(Byte) /\ IsShort(Len(leaf.algorithm))
<1>1. IsKey(leaf)
  BY LeavesAssumption DEF LeafInv
<1>2. PICK a, t, c : a = leaf.algorithm /\ t = Tbs(leaf) /\ c = Content(leaf)
  OBVIOUS
<1>3. a \in Seq(Byte) /\ InCertificate(Len(a))
  <2>1. a \in Seq(Byte) /\ Len(a) <= 16384
    BY <1>1, <1>2, SMT DEF IsKey, Byte
  <2> QED BY <2>1, SMT DEF InCertificate
<1>4. t = Der(SEQUENCE, c)
  <2>1. PICK v, n, f, s :
          /\ v = IF leaf.has_version THEN Der(160, Der(INTEGER, <<2>>)) ELSE <<>>
          /\ n = Der(INTEGER, <<1>>) /\ f = FourSequences /\ s = Spki(a)
    OBVIOUS
  <2>2. t = Der(SEQUENCE, v \o n \o f \o s)
    BY <1>2, <2>1 DEF Tbs, FourSequences
  <2>3. c = (v \o n \o f) \o s
    BY <1>2, <2>1 DEF Content, Before
  <2> QED BY <2>2, <2>3
<1>5. PICK fields, index, x, spki :
        /\ fields = DerElements(c) /\ index = SpkiIndex(fields)
        /\ x = fields[index].value /\ spki = DerElements(x)
  OBVIOUS
<1>6. /\ IsWritable(SEQUENCE, c) /\ IsDer(c) /\ Len(fields) >= index
      /\ fields[index].tag = SEQUENCE
      /\ Len(spki) = 2 /\ spki[1] = Item(SEQUENCE, a) /\ spki[2].tag = BIT_STRING
  BY <1>1, <1>2, <1>5, ContentWritten
<1>7. IsSingle(t, SEQUENCE) /\ Single(t) = c
  BY <1>4, <1>6, SingleBack
<1>8. spki[1].tag = SEQUENCE /\ spki[1].value = a
  BY <1>6 DEF Item
<1>12. Algorithm = DerElements(a)
  BY <1>2, <1>5, <1>6, <1>7, <1>8 DEF Algorithm
<1>13. IsShort(Len(a))
  BY <1>3, CertificateShort
<1> QED BY <1>2, <1>3, <1>12, <1>13

\* A parameter that permits SHA-256 with a salt of 32 bytes.
PermittedParameter(p) ==
    /\ p.tag \in ParameterTags
    /\ p.tag = 160 => PermittedHash(p.value)
    /\ p.tag = 161 => PermittedMask(p.value)
    /\ p.tag = 162 => PermittedSalt(p.value)
    /\ p.tag = 163 => PermittedTrailer(p.value)
\* The tags in a list.
TagsOf(list) == {list[i].tag : i \in 1..Len(list)}
\* Such parameters in their order, none with a tag above `last`.
Ordered(list, last) ==
    /\ list \in Seq(Elements)
    /\ \A i \in 1..Len(list) : PermittedParameter(list[i]) /\ list[i].tag <= last
    /\ \A i, j \in 1..Len(list) : i < j => list[i].tag < list[j].tag
\* The two without which SHA-1 is meant are there.
PermittedList(list) == Ordered(list, 163) /\ {160, 161} \subseteq TagsOf(list)

\* Their tags are these numbers.
LEMMA ParameterTag ==
  ASSUME NEW tag
  PROVE  tag \in ParameterTags <=> tag = 160 \/ tag = 161 \/ tag = 162 \/ tag = 163
  BY DEF ParameterTags

\* A permitted parameter can be written.
LEMMA ParameterWritten ==
  ASSUME NEW tag, NEW v, PermittedParameter(Item(tag, v))
  PROVE  /\ AtMost(Der(tag, v), 100) /\ Item(tag, v) \in Elements
         /\ Writes(Der(tag, v), <<Item(tag, v)>>)
<1>1. PICK p : p = Item(tag, v)
  OBVIOUS
<1>2. p.tag = tag /\ p.value = v /\ PermittedParameter(p)
  BY <1>1 DEF Item
<1>3. tag = 160 \/ tag = 161 \/ tag = 162 \/ tag = 163
  BY <1>2, ParameterTag DEF PermittedParameter
<1>4. AtMost(v, 96)
  <2>1. ASSUME v \in Seq(Byte), Len(v) \in Nat, NEW n \in Nat, Len(v) <= n, n <= 96
        PROVE  AtMost(v, 96)
    <3>1. PICK l : l = Len(v)
      OBVIOUS
    <3>2. l <= 96 /\ 96 \in Nat
      BY <2>1, <3>1
    <3> QED BY <2>1, <3>1, <3>2 DEF AtMost
  <2>2. 44 \in Nat /\ 44 <= 96 /\ 84 \in Nat /\ 84 <= 96 /\ 5 \in Nat /\ 5 <= 96
    OBVIOUS
  <2>3. CASE tag = 160
    <3>1. PICK name \in Sha256Names : v = Der(SEQUENCE, name)
      BY <1>2, <2>3 DEF PermittedParameter, PermittedHash
    <3>2. v \in Seq(Byte) /\ Len(v) \in Nat /\ Len(v) <= 44
      BY <3>1, NameWritten
    <3> QED BY <2>1, <2>2, <3>2
  <2>4. CASE tag = 161
    <3>1. PICK name \in Sha256Names : v = Der(SEQUENCE, Der(OID, Mgf1) \o Der(SEQUENCE, name))
      BY <1>2, <2>4 DEF PermittedParameter, PermittedMask
    <3>2. PICK x : x = Der(OID, Mgf1) \o Der(SEQUENCE, name)
      OBVIOUS
    <3>3. /\ IsWritable(SEQUENCE, x) /\ v = Der(SEQUENCE, x)
          /\ Len(v) \in Nat /\ Len(v) <= 84
      BY <3>1, <3>2, MaskWritten
    <3>4. v \in Seq(Byte)
      BY <3>3, DerBytes
    <3> QED BY <2>1, <2>2, <3>3, <3>4
  <2>5. ASSUME NEW n \in 0..127, v = Der(INTEGER, <<n>>) PROVE AtMost(v, 96)
    <3>1. PICK d : d = <<n>>
      OBVIOUS
    <3>2. IsWritable(INTEGER, d) /\ Len(v) \in Nat /\ Len(v) <= 5
      BY <2>5, <3>1, SmallWritten
    <3>3. v \in Seq(Byte)
      BY <2>5, <3>1, <3>2, DerBytes
    <3> QED BY <2>1, <2>2, <3>2, <3>3
  <2>6. CASE tag = 162
    <3>1. PICK n \in 0..32 : v = Der(INTEGER, <<n>>)
      BY <1>2, <2>6 DEF PermittedParameter, PermittedSalt
    <3>2. n \in 0..127
      OBVIOUS
    <3> QED BY <2>5, <3>1, <3>2
  <2>7. CASE tag = 163
    <3>1. v = Der(INTEGER, <<1>>)
      BY <1>2, <2>7 DEF PermittedParameter, PermittedTrailer
    <3>2. 1 \in 0..127
      OBVIOUS
    <3> QED BY <2>5, <3>1, <3>2
  <2> QED BY <1>3, <2>3, <2>4, <2>6, <2>7
<1>5. IsTag(tag) /\ IsShort(96) /\ 100 = 96 + 4
  BY <1>3, Tags, ShortNumbers
<1> QED BY <1>4, <1>5, AtMostWritten

\* One more with a greater tag keeps their order.
LEMMA OrderedNext ==
  ASSUME NEW list, NEW last \in Nat, Ordered(list, last),
         NEW e \in Elements, PermittedParameter(e), e.tag > last
  PROVE  /\ Ordered(list \o <<e>>, e.tag) /\ TagsOf(list \o <<e>>) = TagsOf(list) \cup {e.tag}
<1>1. PICK E, l, t, n : E = Elements /\ l = <<e>> /\ t = list \o l /\ n = Len(list)
  OBVIOUS
<1>2. list \in Seq(E) /\ l \in Seq(E) /\ Len(l) = 1 /\ l[1] = e /\ n \in Nat
  BY <1>1 DEF Ordered
<1>3. /\ t \in Seq(E) /\ Len(t) = n + 1
      /\ \A i \in 1..n : t[i] = list[i]
      /\ t[n + 1] = e
  <2>1. list \in Seq(E) /\ l \in Seq(E)
    BY <1>2
  <2>2. /\ list \o l \in Seq(E) /\ Len(list \o l) = Len(list) + Len(l)
        /\ \A i \in 1..Len(list) : (list \o l)[i] = list[i]
        /\ \A j \in 1..Len(l) : (list \o l)[Len(list) + j] = l[j]
    BY ONLY <2>1, ConcatShape
  <2>3. 1 \in 1..1
    OBVIOUS
  <2> QED BY <1>1, <1>2, <2>2, <2>3
<1>4. \A i \in 1..(n + 1) : i \in 1..n \/ i = n + 1
  BY <1>2
<1>5. /\ \A i \in 1..n : /\ PermittedParameter(list[i]) /\ list[i].tag <= last
                         /\ list[i].tag \in Nat
      /\ \A i, j \in 1..n : i < j => list[i].tag < list[j].tag
  <2>1. \A i \in 1..n : list[i] \in Elements
    BY <1>1, <1>2
  <2> QED BY <1>1, <2>1 DEF Ordered, Elements
<1>6. e.tag \in Nat /\ e.tag > last
  BY DEF Elements
<1>7. \A i \in 1..(n + 1) : PermittedParameter(t[i]) /\ t[i].tag <= e.tag
  <2> TAKE i \in 1..(n + 1)
  <2>1. CASE i \in 1..n
    <3>1. list[i].tag <= e.tag
      <4>1. PICK a, b : a = list[i].tag /\ b = e.tag
        OBVIOUS
      <4>2. a \in Nat /\ a <= last /\ b \in Nat /\ b > last /\ last \in Nat
        BY <1>5, <1>6, <2>1, <4>1
      <4>3. a <= b
        BY ONLY <4>2
      <4> QED BY <4>1, <4>3
    <3> QED BY <1>3, <1>5, <2>1, <3>1
  <2>2. CASE i = n + 1
    <3>1. e.tag <= e.tag
      BY <1>6
    <3> QED BY <1>3, <2>2, <3>1
  <2> QED BY <1>4, <2>1, <2>2
<1>8. \A i, j \in 1..(n + 1) : i < j => t[i].tag < t[j].tag
  <2> TAKE i, j \in 1..(n + 1)
  <2> HAVE i < j
  <2>1. i \in 1..n
    BY <1>2
  <2>2. CASE j \in 1..n
    BY <1>3, <1>5, <2>1, <2>2
  <2>3. CASE j = n + 1
    <3>1. PICK a, b : a = list[i].tag /\ b = e.tag
      OBVIOUS
    <3>2. a \in Nat /\ a <= last /\ b \in Nat /\ b > last /\ last \in Nat
      BY <1>5, <1>6, <2>1, <3>1
    <3>3. a < b
      BY ONLY <3>2
    <3> QED BY <1>3, <2>1, <2>3, <3>1, <3>3
  <2> QED BY <1>4, <2>2, <2>3
<1>9. Ordered(t, e.tag)
  BY <1>1, <1>3, <1>7, <1>8 DEF Ordered
<1>10. TagsOf(t) = TagsOf(list) \cup {e.tag}
  <2>1. TagsOf(t) = {t[i].tag : i \in 1..(n + 1)} /\ TagsOf(list) = {list[i].tag : i \in 1..n}
    BY <1>1, <1>3 DEF TagsOf
  <2>2. 1..(n + 1) = (1..n) \cup {n + 1}
    BY <1>2
  <2>3. \A i \in 1..n : t[i].tag = list[i].tag
    BY <1>3
  <2>4. t[n + 1].tag = e.tag
    BY <1>3
  <2> QED BY ONLY <2>1, <2>2, <2>3, <2>4
<1> QED BY <1>1, <1>9, <1>10

\* They are no less in order for a greater last tag.
LEMMA OrderedMore ==
  ASSUME NEW list, NEW a \in Nat, NEW b \in Nat, a <= b, Ordered(list, a)
  PROVE  Ordered(list, b)
<1>1. list \in Seq(Elements)
  BY DEF Ordered
<1>2. \A i \in 1..Len(list) : list[i].tag \in Nat /\ list[i].tag <= a
  <2>1. PICK E : E = Elements
    OBVIOUS
  <2>2. \A i \in 1..Len(list) : list[i] \in E
    BY <1>1, <2>1
  <2> QED BY <2>1, <2>2 DEF Ordered, Elements
<1>3. \A i \in 1..Len(list) : list[i].tag <= b
  <2> TAKE i \in 1..Len(list)
  <2>1. PICK t : t = list[i].tag
    OBVIOUS
  <2>2. t \in Nat /\ t <= a
    BY <1>2, <2>1
  <2>3. t <= b
    BY <2>2
  <2> QED BY <2>1, <2>3
<1> QED BY <1>3 DEF Ordered

\* The parameters in Permitted.
HashBytes == {Der(160, Der(SEQUENCE, name)) : name \in Sha256Names}
MaskBytes ==
    {Der(161, Der(SEQUENCE, Der(OID, Mgf1) \o Der(SEQUENCE, name))) : name \in Sha256Names}
SaltBytes == {<<>>} \cup {Der(162, Der(INTEGER, <<n>>)) : n \in 0..32}
TrailerBytes == {<<>>, Der(163, Der(INTEGER, <<1>>))}
Joined(hash, mgf, salt, trailer) == hash \o mgf \o salt \o trailer
ParametersBytes ==
    {Joined(hash, mgf, salt, trailer) :
        hash \in HashBytes, mgf \in MaskBytes, salt \in SaltBytes, trailer \in TrailerBytes}

\* Each is an element that is permitted, or absent.
LEMMA ParameterBytes ==
  ASSUME NEW o
  PROVE  /\ o \in HashBytes <=> \E v : PermittedParameter(Item(160, v)) /\ o = Der(160, v)
         /\ o \in MaskBytes <=> \E v : PermittedParameter(Item(161, v)) /\ o = Der(161, v)
         /\ o \in SaltBytes <=> \/ o = <<>>
                                \/ \E v : PermittedParameter(Item(162, v)) /\ o = Der(162, v)
         /\ o \in TrailerBytes <=> \/ o = <<>>
                                   \/ \E v : PermittedParameter(Item(163, v)) /\ o = Der(163, v)
<1>1. ASSUME NEW u
      PROVE  /\ PermittedHash(u) <=> PermittedParameter(Item(160, u))
             /\ PermittedMask(u) <=> PermittedParameter(Item(161, u))
             /\ PermittedSalt(u) <=> PermittedParameter(Item(162, u))
             /\ PermittedTrailer(u) <=> PermittedParameter(Item(163, u))
  <2>1. ASSUME NEW tag
        PROVE  PermittedParameter(Item(tag, u)) <=>
                 /\ tag \in ParameterTags
                 /\ tag = 160 => PermittedHash(u)
                 /\ tag = 161 => PermittedMask(u)
                 /\ tag = 162 => PermittedSalt(u)
                 /\ tag = 163 => PermittedTrailer(u)
    <3>1. PICK p : p = Item(tag, u)
      OBVIOUS
    <3>2. p.tag = tag /\ p.value = u
      BY <3>1 DEF Item
    <3> QED BY <3>1, <3>2 DEF PermittedParameter
  <2>2. {160, 161, 162, 163} \subseteq ParameterTags
    BY ParameterTag
  <2>3. 160 # 161 /\ 160 # 162 /\ 160 # 163 /\ 161 # 162 /\ 161 # 163 /\ 162 # 163
    OBVIOUS
  <2>4. PermittedHash(u) <=> PermittedParameter(Item(160, u))
    BY <2>1, <2>2, <2>3
  <2>5. PermittedMask(u) <=> PermittedParameter(Item(161, u))
    BY <2>1, <2>2, <2>3
  <2>6. PermittedSalt(u) <=> PermittedParameter(Item(162, u))
    BY <2>1, <2>2, <2>3
  <2>7. PermittedTrailer(u) <=> PermittedParameter(Item(163, u))
    BY <2>1, <2>2, <2>3
  <2> QED BY <2>4, <2>5, <2>6, <2>7
<1>2. o \in HashBytes <=> \E v : PermittedHash(v) /\ o = Der(160, v)
  BY Zenon DEF HashBytes, PermittedHash
<1>3. o \in MaskBytes <=> \E v : PermittedMask(v) /\ o = Der(161, v)
  BY Zenon DEF MaskBytes, PermittedMask
<1>4. o \in SaltBytes <=> o = <<>> \/ \E v : PermittedSalt(v) /\ o = Der(162, v)
  BY Zenon DEF SaltBytes, PermittedSalt
<1>5. o \in TrailerBytes <=> o = <<>> \/ \E v : PermittedTrailer(v) /\ o = Der(163, v)
  BY Zenon DEF TrailerBytes, PermittedTrailer
<1>6. o \in HashBytes <=> \E v : PermittedParameter(Item(160, v)) /\ o = Der(160, v)
  BY ONLY <1>1, <1>2, Zenon
<1>7. o \in MaskBytes <=> \E v : PermittedParameter(Item(161, v)) /\ o = Der(161, v)
  BY ONLY <1>1, <1>3, Zenon
<1>8. o \in SaltBytes <=> o = <<>> \/ \E v : PermittedParameter(Item(162, v)) /\ o = Der(162, v)
  BY ONLY <1>1, <1>4, Zenon
<1>9. o \in TrailerBytes <=> o = <<>> \/ \E v : PermittedParameter(Item(163, v)) /\ o = Der(163, v)
  BY ONLY <1>1, <1>5, Zenon
<1> QED BY ONLY <1>6, <1>7, <1>8, <1>9, Zenon

\* Bytes of at most n that write parameters in their order, with these tags.
WritesOrdered(x, n, list, last) == Writes(x, list) /\ AtMost(x, n) /\ Ordered(list, last)

\* One more parameter after the others.
LEMMA WithParameter ==
  ASSUME NEW x, NEW n, NEW list, NEW last \in Nat, WritesOrdered(x, n, list, last),
         NEW tag, NEW v, PermittedParameter(Item(tag, v)), tag > last,
         NEW k, k = n + 100
  PROVE  /\ WritesOrdered(x \o Der(tag, v), k, list \o <<Item(tag, v)>>, tag)
         /\ TagsOf(list \o <<Item(tag, v)>>) = TagsOf(list) \cup {tag}
<1>1. PICK e, d : e = Item(tag, v) /\ d = Der(tag, v)
  OBVIOUS
<1>2. Writes(x, list) /\ AtMost(x, n) /\ Ordered(list, last)
  BY DEF WritesOrdered
<1>3. e.tag = tag
  BY <1>1 DEF Item
<1>4. AtMost(d, 100) /\ e \in Elements /\ Writes(d, <<e>>)
  BY <1>1, ParameterWritten
<1>5. Writes(x \o d, list \o <<e>>)
  BY ONLY <1>2, <1>4, WritesJoin
<1>6. AtMost(x \o d, k)
  <2>1. k = n + 100
    OBVIOUS
  <2> QED BY ONLY <1>2, <1>4, <2>1, AtMostJoin
<1>7. Ordered(list \o <<e>>, e.tag) /\ TagsOf(list \o <<e>>) = TagsOf(list) \cup {e.tag}
  BY <1>1, <1>2, <1>3, <1>4, OrderedNext
<1> QED BY <1>1, <1>3, <1>5, <1>6, <1>7 DEF WritesOrdered

\* One that may be absent.
MayBe(o, tag) == o = <<>> \/ \E v : PermittedParameter(Item(tag, v)) /\ o = Der(tag, v)

\* Also then they are in order.
LEMMA WithOptional ==
  ASSUME NEW x, NEW n, NEW list, NEW last \in Nat, WritesOrdered(x, n, list, last),
         NEW tag \in Nat, NEW o, tag > last, MayBe(o, tag),
         NEW k, k = n + 100
  PROVE  \E more : WritesOrdered(x \o o, k, more, tag) /\ TagsOf(list) \subseteq TagsOf(more)
<1>1. CASE o = <<>>
  <2>1. Writes(x, list) /\ AtMost(x, n) /\ Ordered(list, last)
    BY DEF WritesOrdered
  <2>2. x \o o = x
    BY <1>1, <2>1 DEF AtMost
  <2>3. AtMost(x, k)
    <3>1. x \in Seq(Byte) /\ Len(x) \in Nat /\ n \in Nat /\ Len(x) <= n
      BY <2>1 DEF AtMost
    <3>2. PICK l : l = Len(x)
      OBVIOUS
    <3>3. l \in Nat /\ n \in Nat /\ l <= n /\ k = n + 100
      BY <3>1, <3>2
    <3>4. l <= k /\ k \in Nat
      BY ONLY <3>3
    <3> QED BY <3>1, <3>2, <3>4 DEF AtMost
  <2>4. Ordered(list, tag)
    <3>1. last <= tag
      OBVIOUS
    <3> QED BY <2>1, <3>1, OrderedMore
  <2> QED BY <2>1, <2>2, <2>3, <2>4 DEF WritesOrdered
<1>2. CASE \E v : PermittedParameter(Item(tag, v)) /\ o = Der(tag, v)
  <2>1. PICK v : PermittedParameter(Item(tag, v)) /\ o = Der(tag, v)
    BY <1>2
  <2>2. PICK more : more = list \o <<Item(tag, v)>>
    OBVIOUS
  <2>3. WritesOrdered(x \o o, k, more, tag) /\ TagsOf(more) = TagsOf(list) \cup {tag}
    BY <2>1, <2>2, WithParameter
  <2> QED BY <2>3
<1> QED BY <1>1, <1>2 DEF MayBe

\* The parameters that are permitted are read as such.
LEMMA ParametersRead ==
  ASSUME NEW x \in ParametersBytes
  PROVE  \E list : Writes(x, list) /\ AtMost(x, 400) /\ PermittedList(list)
<1>1. PICK hash \in HashBytes, mgf \in MaskBytes, salt \in SaltBytes, trailer \in TrailerBytes :
        x = Joined(hash, mgf, salt, trailer)
  BY DEF ParametersBytes
<1>2. PICK z, n0, n1, n2, n3, n4, t0, t1, t2, t3, t4 :
        /\ z = <<>> /\ n0 = 0 /\ n1 = 100 /\ n2 = 200 /\ n3 = 300 /\ n4 = 400
        /\ t0 = 159 /\ t1 = 160 /\ t2 = 161 /\ t3 = 162 /\ t4 = 163
  OBVIOUS
<1>3. /\ n1 = n0 + 100 /\ n2 = n1 + 100 /\ n3 = n2 + 100 /\ n4 = n3 + 100
      /\ t0 \in Nat /\ t1 \in Nat /\ t2 \in Nat /\ t3 \in Nat /\ t4 \in Nat
      /\ t1 > t0 /\ t2 > t1 /\ t3 > t2 /\ t4 > t3
  BY <1>2
<1>4. /\ \E v : PermittedParameter(Item(t1, v)) /\ hash = Der(t1, v)
      /\ \E v : PermittedParameter(Item(t2, v)) /\ mgf = Der(t2, v)
      /\ MayBe(salt, t3) /\ MayBe(trailer, t4)
  BY <1>2, ParameterBytes DEF MayBe
<1>5. PICK v, w : /\ PermittedParameter(Item(t1, v)) /\ hash = Der(t1, v)
                  /\ PermittedParameter(Item(t2, w)) /\ mgf = Der(t2, w)
  BY <1>4
<1>6. WritesOrdered(z, n0, z, t0)
  <2>1. AtMost(z, n0)
    BY <1>2 DEF AtMost
  <2>2. Ordered(z, t0)
    <3>1. z \in Seq(Elements) /\ Len(z) = 0 /\ 1..0 = {}
      BY <1>2
    <3> QED BY <3>1 DEF Ordered
  <2> QED BY <1>2, <2>1, <2>2, WritesNothing DEF WritesOrdered
<1>7. PICK g, h, p, q : /\ g = z \o <<Item(t1, v)>> /\ p = z \o hash
                        /\ h = g \o <<Item(t2, w)>> /\ q = p \o mgf
  OBVIOUS
<1>8. WritesOrdered(p, n1, g, t1) /\ TagsOf(g) = TagsOf(z) \cup {t1}
  <2>1. /\ WritesOrdered(z \o Der(t1, v), n1, z \o <<Item(t1, v)>>, t1)
        /\ TagsOf(z \o <<Item(t1, v)>>) = TagsOf(z) \cup {t1}
    BY ONLY <1>3, <1>5, <1>6, WithParameter
  <2> QED BY <1>5, <1>7, <2>1
<1>9. WritesOrdered(q, n2, h, t2) /\ TagsOf(h) = TagsOf(g) \cup {t2}
  <2>1. /\ WritesOrdered(p \o Der(t2, w), n2, g \o <<Item(t2, w)>>, t2)
        /\ TagsOf(g \o <<Item(t2, w)>>) = TagsOf(g) \cup {t2}
    BY ONLY <1>3, <1>5, <1>8, WithParameter
  <2> QED BY <1>5, <1>7, <2>1
<1>10. PICK s, y : /\ WritesOrdered(y, n3, s, t3) /\ TagsOf(h) \subseteq TagsOf(s)
                   /\ y = q \o salt
  <2>1. \E s : WritesOrdered(q \o salt, n3, s, t3) /\ TagsOf(h) \subseteq TagsOf(s)
    BY ONLY <1>3, <1>4, <1>9, WithOptional
  <2> QED BY <2>1
<1>11. PICK t : WritesOrdered(y \o trailer, n4, t, t4) /\ TagsOf(s) \subseteq TagsOf(t)
  BY ONLY <1>3, <1>4, <1>10, WithOptional
<1>12. x = y \o trailer
  <2>1. p = hash
    <3>1. hash \in Seq(Byte)
      BY <1>5, ParameterWritten DEF AtMost
    <3> QED BY <1>2, <1>7, <3>1
  <2> QED BY <1>1, <1>7, <1>10, <2>1 DEF Joined
<1>13. PermittedList(t)
  <2>1. {t1, t2} \subseteq TagsOf(t)
    BY ONLY <1>8, <1>9, <1>10, <1>11, Zenon
  <2> QED BY <1>2, <1>11, <2>1 DEF PermittedList, WritesOrdered
<1> QED BY <1>2, <1>11, <1>12, <1>13 DEF WritesOrdered

-----------------------------------------------------------------------------
(* Permitted elements are written as permitted bytes *)

\* A sequence of one element more than another.
LEMMA LongerElements ==
  ASSUME NEW S, NEW g \in Seq(S), NEW b \in S, NEW t \in Seq(S), Len(t) = Len(g) + 1,
         \A i \in 1..Len(g) : t[i] = g[i], t[Len(t)] = b
  PROVE  t = g \o <<b>>
<1>1. PICK l, z : l = <<b>> /\ z = g \o l
  OBVIOUS
<1>2. l \in Seq(S) /\ Len(l) = 1 /\ l[1] = b
  BY <1>1
<1>3. /\ z \in Seq(S) /\ Len(z) = Len(g) + 1
      /\ \A i \in 1..Len(g) : z[i] = g[i]
      /\ z[Len(g) + 1] = b
  <2>1. l \in Seq(S) /\ g \in Seq(S)
    BY <1>2
  <2>2. /\ g \o l \in Seq(S) /\ Len(g \o l) = Len(g) + Len(l)
        /\ \A i \in 1..Len(g) : (g \o l)[i] = g[i]
        /\ \A j \in 1..Len(l) : (g \o l)[Len(g) + j] = l[j]
    BY ONLY <2>1, ConcatShape
  <2>3. 1 \in 1..1
    OBVIOUS
  <2> QED BY <1>1, <1>2, <2>2, <2>3
<1>4. \A i \in 1..Len(t) : t[i] = z[i]
  <2>1. PICK n : n = Len(g)
    OBVIOUS
  <2>2. \A i \in 1..(n + 1) : i \in 1..n \/ i = n + 1
    BY <2>1
  <2> QED BY <1>3, <2>1, <2>2
<1>5. t = z
  BY <1>3, <1>4, SeqEqual
<1> QED BY <1>1, <1>5

\* In a permitted list the hash is first and the mask generation second, and
\* only the other two may follow.
LEMMA ListShape ==
  ASSUME NEW P, PermittedList(P)
  PROVE  /\ Len(P) = 2 \/ Len(P) = 3 \/ Len(P) = 4
         /\ P[1].tag = 160 /\ P[2].tag = 161
         /\ Len(P) = 3 => P[3].tag = 162 \/ P[3].tag = 163
         /\ Len(P) = 4 => P[3].tag = 162 /\ P[4].tag = 163
<1> DEFINE t == [i \in 1..Len(P) |-> P[i].tag]
<1>1. PICK n : n = Len(P)
  OBVIOUS
<1>2. /\ n \in Nat
      /\ \A i \in 1..n : t[i] = 160 \/ t[i] = 161 \/ t[i] = 162 \/ t[i] = 163
      /\ \A i, j \in 1..n : i < j => t[i] < t[j]
  BY <1>1, ParameterTag DEF PermittedList, Ordered, PermittedParameter
<1>3. (\E i \in 1..n : t[i] = 160) /\ (\E i \in 1..n : t[i] = 161)
  BY <1>1 DEF PermittedList, TagsOf
<1>4. t[1] = 160 /\ n >= 2
  <2>1. PICK i \in 1..n : t[i] = 160
    BY <1>3
  <2>2. PICK j \in 1..n : t[j] = 161
    BY <1>3
  <2> HIDE DEF t
  <2>3. n >= 2
    BY <1>2, <2>1, <2>2
  <2>4. 1 \in 1..n /\ (i = 1 \/ 1 < i)
    BY <1>2, <2>1
  <2>5. ~(1 < i)
    BY <1>2, <2>1, <2>4
  <2> QED BY <2>1, <2>3, <2>4, <2>5
<1>5. t[2] = 161
  <2>1. PICK i \in 1..n : t[i] = 161
    BY <1>3
  <2> HIDE DEF t
  <2>2. 1 \in 1..n /\ 2 \in 1..n /\ (i = 1 \/ i = 2 \/ 2 < i)
    BY <1>2, <1>4, <2>1
  <2>3. t[1] < t[2]
    BY <1>2, <2>2
  <2>4. ~(2 < i)
    <3>1. SUFFICES ASSUME 2 < i PROVE FALSE
      OBVIOUS
    <3>2. t[2] < t[i]
      BY <1>2, <2>1, <2>2, <3>1
    <3>3. PICK a, b : a = t[2] /\ b = t[1]
      OBVIOUS
    <3>4. a < 161 /\ 160 < a
      BY <1>4, <2>1, <2>3, <3>2, <3>3
    <3>5. a = 160 \/ a = 161 \/ a = 162 \/ a = 163
      BY <1>2, <2>2, <3>3
    <3> QED BY ONLY <3>4, <3>5
  <2> QED BY <1>4, <2>1, <2>2, <2>4
<1> HIDE DEF t
<1>6. n >= 3 => t[3] = 162 \/ t[3] = 163
  <2>1. SUFFICES ASSUME n >= 3 PROVE t[3] = 162 \/ t[3] = 163
    OBVIOUS
  <2>2. 2 \in 1..n /\ 3 \in 1..n /\ 2 < 3
    BY <1>2, <2>1
  <2>3. 161 < t[3]
    BY <1>2, <1>5, <2>2
  <2>4. t[3] = 160 \/ t[3] = 161 \/ t[3] = 162 \/ t[3] = 163
    BY <1>2, <2>2
  <2> QED BY ONLY <2>3, <2>4
<1>7. n >= 4 => t[3] = 162 /\ t[4] = 163
  <2>1. SUFFICES ASSUME n >= 4 PROVE t[3] = 162 /\ t[4] = 163
    OBVIOUS
  <2>2. 3 \in 1..n /\ 4 \in 1..n /\ 3 < 4 /\ n >= 3
    BY <1>2, <2>1
  <2>3. t[3] < t[4]
    BY <1>2, <2>2
  <2>4. t[4] = 160 \/ t[4] = 161 \/ t[4] = 162 \/ t[4] = 163
    BY <1>2, <2>2
  <2>5. t[3] = 162 \/ t[3] = 163
    BY <1>6, <2>2
  <2> QED BY ONLY <2>3, <2>4, <2>5
<1>8. n <= 4
  <2>1. SUFFICES ASSUME n > 4 PROVE FALSE
    BY <1>2
  <2>2. 4 \in 1..n /\ 5 \in 1..n /\ 4 < 5 /\ n >= 4
    BY <1>2, <2>1
  <2>3. 163 < t[5]
    BY <1>2, <1>7, <2>2
  <2>4. t[5] = 160 \/ t[5] = 161 \/ t[5] = 162 \/ t[5] = 163
    BY <1>2, <2>2
  <2> QED BY ONLY <2>3, <2>4
<1>9. n = 2 \/ n = 3 \/ n = 4
  BY <1>2, <1>4, <1>8
<1>10. \A i \in 1..n : t[i] = P[i].tag
  BY <1>1 DEF t
<1>11. /\ 1 \in 1..n /\ 2 \in 1..n
       /\ n = 3 => 3 \in 1..n /\ n >= 3
       /\ n = 4 => 3 \in 1..n /\ 4 \in 1..n /\ n >= 4
  BY <1>2, <1>4
<1> QED BY <1>1, <1>4, <1>5, <1>6, <1>7, <1>9, <1>10, <1>11

\* What writes a permitted list is permitted.
LEMMA ListWritten ==
  ASSUME NEW x, NEW P, Writes(x, P), PermittedList(P)
  PROVE  x \in ParametersBytes
<1>1. PICK E, n : E = Elements /\ n = Len(P)
  OBVIOUS
<1>2. P \in Seq(E) /\ n \in Nat
  BY <1>1 DEF Writes
<1>3. ASSUME NEW i \in 1..n
      PROVE  \E d : /\ d \in Seq(Byte) /\ d = Der(P[i].tag, P[i].value)
                    /\ Writes(d, <<P[i]>>) /\ P[i] \in E
                    /\ PermittedParameter(Item(P[i].tag, P[i].value))
  <2>1. P[i] \in E
    BY <1>1, <1>2, <1>3
  <2>2. P[i] = Item(P[i].tag, P[i].value)
    BY <1>1, <2>1 DEF Item, Elements
  <2>3. PermittedParameter(P[i])
    BY <1>1, <1>3 DEF PermittedList, Ordered
  <2>4. IsWritable(P[i].tag, P[i].value)
    BY <1>1, <1>3 DEF Writes
  <2>5. Writes(Der(P[i].tag, P[i].value), <<P[i]>>)
    BY <2>2, <2>4, WritesOne DEF Item
  <2> QED BY <2>1, <2>2, <2>3, <2>4, <2>5, DerBytes
<1>4. /\ n = 2 \/ n = 3 \/ n = 4
      /\ P[1].tag = 160 /\ P[2].tag = 161
      /\ n = 3 => P[3].tag = 162 \/ P[3].tag = 163
      /\ n = 4 => P[3].tag = 162 /\ P[4].tag = 163
  <2>1. Len(P) = 2 \/ Len(P) = 3 \/ Len(P) = 4
    BY ListShape
  <2>2. P[1].tag = 160 /\ P[2].tag = 161
    BY ListShape
  <2>3. Len(P) = 3 => P[3].tag = 162 \/ P[3].tag = 163
    BY ListShape
  <2>4. Len(P) = 4 => P[3].tag = 162 /\ P[4].tag = 163
    BY ListShape
  <2> QED BY ONLY <1>1, <2>1, <2>2, <2>3, <2>4
<1>5. /\ 1 \in 1..n /\ 2 \in 1..n
      /\ n = 3 => 3 \in 1..n
      /\ n = 4 => 3 \in 1..n /\ 4 \in 1..n
  BY <1>4
<1>6. PICK a, p : /\ a = P[1] /\ a \in E /\ p \in Seq(Byte) /\ Writes(p, <<a>>)
                  /\ p \in HashBytes
  <2>1. PICK d : /\ d \in Seq(Byte) /\ d = Der(P[1].tag, P[1].value)
                 /\ Writes(d, <<P[1]>>) /\ P[1] \in E
                 /\ PermittedParameter(Item(P[1].tag, P[1].value))
    BY <1>3, <1>5
  <2>2. d \in HashBytes
    BY <1>4, <2>1, ParameterBytes
  <2> QED BY <2>1, <2>2
<1>7. PICK b, q : /\ b = P[2] /\ b \in E /\ q \in Seq(Byte) /\ Writes(q, <<b>>)
                  /\ q \in MaskBytes
  <2>1. PICK d : /\ d \in Seq(Byte) /\ d = Der(P[2].tag, P[2].value)
                 /\ Writes(d, <<P[2]>>) /\ P[2] \in E
                 /\ PermittedParameter(Item(P[2].tag, P[2].value))
    BY <1>3, <1>5
  <2>2. d \in MaskBytes
    BY <1>4, <2>1, ParameterBytes
  <2> QED BY <2>1, <2>2
<1>8. PICK g, h : g = <<a>> \o <<b>> /\ h = p \o q
  OBVIOUS
<1>9. Writes(h, g) /\ h \in Seq(Byte)
  BY <1>6, <1>7, <1>8, WritesJoin
<1>10. g \in Seq(E) /\ Len(g) = 2 /\ g[1] = a /\ g[2] = b
  <2>1. a \in E /\ b \in E
    BY <1>6, <1>7
  <2>2. g \in Seq(E)
    BY ONLY <1>8, <2>1
  <2> QED BY ONLY <1>8, <2>1, <2>2, TwoElements
<1>11. <<>> \in SaltBytes /\ <<>> \in TrailerBytes
  BY ParameterBytes
<1>12. ASSUME NEW s \in SaltBytes, NEW t \in TrailerBytes, x = (h \o s) \o t
       PROVE  x \in ParametersBytes
  <2>1. x = Joined(p, q, s, t)
    BY <1>8, <1>12 DEF Joined
  <2> QED BY <1>6, <1>7, <2>1 DEF ParametersBytes
<1>13. CASE n = 2
  <2>1. P = g
    <3>1. \A i \in 1..2 : i = 1 \/ i = 2
      OBVIOUS
    <3>2. \A i \in 1..Len(P) : P[i] = g[i]
      BY <1>1, <1>6, <1>7, <1>10, <1>13, <3>1
    <3> QED BY <1>1, <1>2, <1>10, <1>13, <3>2, SeqEqual
  <2>2. x = h
    BY <1>9, <2>1, WritesSame
  <2>3. x = (h \o <<>>) \o <<>>
    BY <1>9, <2>2
  <2> QED BY <1>11, <1>12, <2>3
<1>14. CASE n = 3
  <2>1. PICK d : /\ d \in Seq(Byte) /\ d = Der(P[3].tag, P[3].value)
                 /\ Writes(d, <<P[3]>>) /\ P[3] \in E
                 /\ PermittedParameter(Item(P[3].tag, P[3].value))
    BY <1>3, <1>5, <1>14
  <2>2. PICK c : c = P[3]
    OBVIOUS
  <2>3. P = g \o <<c>>
    <3>1. \A i \in 1..2 : i = 1 \/ i = 2
      OBVIOUS
    <3>2. 2 + 1 = 3
      OBVIOUS
    <3>3. \A i \in 1..Len(g) : P[i] = g[i]
      BY <1>6, <1>7, <1>10, <3>1
    <3>4. P \in Seq(E) /\ g \in Seq(E) /\ c \in E /\ Len(P) = Len(g) + 1 /\ P[Len(P)] = c
      BY <1>1, <1>2, <1>10, <1>14, <2>1, <2>2, <3>2
    <3> QED BY ONLY <3>3, <3>4, LongerElements
  <2>4. Writes(h \o d, g \o <<c>>)
    BY <1>9, <2>1, <2>2, WritesJoin
  <2>5. x = h \o d
    BY <2>3, <2>4, WritesSame
  <2>6. CASE P[3].tag = 162
    <3>1. d \in SaltBytes
      BY <2>1, <2>6, ParameterBytes
    <3>2. x = (h \o d) \o <<>>
      BY <1>9, <2>1, <2>5
    <3> QED BY <1>11, <1>12, <3>1, <3>2
  <2>7. CASE P[3].tag = 163
    <3>1. d \in TrailerBytes
      BY <2>1, <2>7, ParameterBytes
    <3>2. x = (h \o <<>>) \o d
      BY <1>9, <2>1, <2>5
    <3> QED BY <1>11, <1>12, <3>1, <3>2
  <2> QED BY <1>4, <1>14, <2>6, <2>7
<1>15. CASE n = 4
  <2>1. PICK d : /\ d \in Seq(Byte) /\ d = Der(P[3].tag, P[3].value)
                 /\ Writes(d, <<P[3]>>) /\ P[3] \in E
                 /\ PermittedParameter(Item(P[3].tag, P[3].value))
    BY <1>3, <1>5, <1>15
  <2>2. PICK e : /\ e \in Seq(Byte) /\ e = Der(P[4].tag, P[4].value)
                 /\ Writes(e, <<P[4]>>) /\ P[4] \in E
                 /\ PermittedParameter(Item(P[4].tag, P[4].value))
    BY <1>3, <1>5, <1>15
  <2>3. PICK c, f, k : c = P[3] /\ f = P[4] /\ k = g \o <<c>>
    OBVIOUS
  <2>4. k \in Seq(E) /\ Len(k) = 3 /\ k[1] = a /\ k[2] = b /\ k[3] = c
    <3>1. PICK l : l = <<c>>
      OBVIOUS
    <3>2. l \in Seq(E) /\ Len(l) = 1 /\ l[1] = c
      BY <2>1, <2>3, <3>1
    <3>3. g \in Seq(E) /\ l \in Seq(E)
      BY <1>10, <3>2
    <3>4. /\ g \o l \in Seq(E) /\ Len(g \o l) = Len(g) + Len(l)
          /\ \A i \in 1..Len(g) : (g \o l)[i] = g[i]
          /\ \A j \in 1..Len(l) : (g \o l)[Len(g) + j] = l[j]
      BY ONLY <3>3, ConcatShape
    <3>5. 1 \in 1..1 /\ 1 \in 1..2 /\ 2 \in 1..2 /\ 2 + 1 = 3
      OBVIOUS
    <3> QED BY <1>10, <2>3, <3>1, <3>2, <3>4, <3>5
  <2>5. P = k \o <<f>>
    <3>1. \A i \in 1..3 : i = 1 \/ i = 2 \/ i = 3
      OBVIOUS
    <3>2. 3 + 1 = 4
      OBVIOUS
    <3>3. \A i \in 1..Len(k) : P[i] = k[i]
      BY <1>6, <1>7, <2>3, <2>4, <3>1
    <3>4. P \in Seq(E) /\ k \in Seq(E) /\ f \in E /\ Len(P) = Len(k) + 1 /\ P[Len(P)] = f
      BY <1>1, <1>2, <1>15, <2>2, <2>3, <2>4, <3>2
    <3> QED BY ONLY <3>3, <3>4, LongerElements
  <2>6. Writes((h \o d) \o e, k \o <<f>>)
    <3>1. Writes(h \o d, k)
      BY <1>9, <2>1, <2>3, WritesJoin
    <3> QED BY <2>2, <2>3, <3>1, WritesJoin
  <2>7. x = (h \o d) \o e
    BY <2>5, <2>6, WritesSame
  <2>8. d \in SaltBytes /\ e \in TrailerBytes
    BY <1>4, <1>15, <2>1, <2>2, ParameterBytes
  <2> QED BY <1>12, <2>7, <2>8
<1> QED BY <1>4, <1>13, <1>14, <1>15

-----------------------------------------------------------------------------
(* The permitted algorithms, by bytes and by elements *)

\* The elements of an algorithm that is permitted.
PermittedElements(els) ==
    /\ els # <<>> /\ els[1] = Item(OID, IdRsassaPss)
    /\ \/ Len(els) = 1
       \/ /\ Len(els) = 2 /\ els[2].tag = SEQUENCE
          /\ IsDer(els[2].value) /\ PermittedList(DerElements(els[2].value))

\* The name of the algorithm before its parameters.
WithParameters(x) == Der(OID, IdRsassaPss) \o Der(SEQUENCE, x)

\* What the rules permit, a default salt length that is spelled out included: no
\* certificate with that one reaches them.
PermittedAny ==
    {Der(OID, IdRsassaPss)} \cup
    {WithParameters(Joined(hash, mgf, salt, trailer)) :
        hash \in HashBytes, mgf \in MaskBytes,
        salt \in SaltBytes, trailer \in TrailerBytes}

\* The permitted ones are the name alone, or before permitted parameters.
LEMMA PermittedSplit ==
  ASSUME NEW a
  PROVE  a \in PermittedAny <=> \/ a = Der(OID, IdRsassaPss)
                             \/ \E x \in ParametersBytes : a = WithParameters(x)
<1>2. a \in PermittedAny <=>
        \/ a = Der(OID, IdRsassaPss)
        \/ \E hash \in HashBytes, mgf \in MaskBytes,
                   salt \in SaltBytes, trailer \in TrailerBytes :
              a = WithParameters(Joined(hash, mgf, salt, trailer))
  BY DEF PermittedAny
<1>3. ASSUME NEW x
      PROVE  x \in ParametersBytes <=>
                \E hash \in HashBytes, mgf \in MaskBytes,
                   salt \in SaltBytes, trailer \in TrailerBytes :
                   x = Joined(hash, mgf, salt, trailer)
  BY DEF ParametersBytes
<1> QED BY <1>2, <1>3

\* An algorithm is permitted if the elements read from it are.
LEMMA PermittedIs ==
  ASSUME NEW a \in Seq(Byte), IsShort(Len(a))
  PROVE  a \in PermittedAny <=> IsDer(a) /\ PermittedElements(DerElements(a))
<1>1. PICK els, e, E : els = DerElements(a) /\ e = Item(OID, IdRsassaPss) /\ E = Elements
  OBVIOUS
<1>2. PICK p : p = Der(OID, IdRsassaPss) /\ Writes(p, <<e>>) /\ e \in E
  BY <1>1, OidWritten
<1>3. PermittedElements(els) <=>
        /\ els # <<>> /\ els[1] = e
        /\ \/ Len(els) = 1
           \/ /\ Len(els) = 2 /\ els[2].tag = SEQUENCE
              /\ IsDer(els[2].value) /\ PermittedList(DerElements(els[2].value))
  BY <1>1 DEF PermittedElements
<1>4. ASSUME a = p PROVE IsDer(a) /\ PermittedElements(els)
  <2>1. IsDer(a) /\ els = <<e>>
    BY <1>1, <1>2, <1>4, WritesRead
  <2>2. els # <<>> /\ els[1] = e /\ Len(els) = 1
    BY <2>1
  <2> QED BY <1>3, <2>1, <2>2
<1>5. ASSUME NEW x \in ParametersBytes, a = WithParameters(x)
      PROVE  IsDer(a) /\ PermittedElements(els)
  <2>1. PICK list : Writes(x, list) /\ AtMost(x, 400) /\ PermittedList(list)
    BY ParametersRead
  <2>2. IsTag(SEQUENCE) /\ IsShort(400) /\ 404 = 400 + 4
    BY Tags, ShortNumbers
  <2>3. PICK q, f : /\ q = Der(SEQUENCE, x) /\ f = Item(SEQUENCE, x) /\ f \in Elements
                    /\ Writes(q, <<f>>)
    <3>1. AtMost(x, 400) /\ IsTag(SEQUENCE) /\ IsShort(400) /\ 404 = 400 + 4
      BY <2>1, <2>2
    <3>2. Item(SEQUENCE, x) \in Elements /\ Writes(Der(SEQUENCE, x), <<Item(SEQUENCE, x)>>)
      BY ONLY <3>1, AtMostWritten
    <3> QED BY <3>2
  <2>4. a = p \o q
    BY <1>2, <1>5, <2>3 DEF WithParameters
  <2>5. IsDer(a) /\ Len(els) = 2 /\ els[1] = e /\ els[2] = f
    BY <1>1, <1>2, <2>3, <2>4, WritesTwo
  <2>6. f.tag = SEQUENCE /\ f.value = x
    BY <2>3 DEF Item
  <2>7. IsDer(x) /\ DerElements(x) = list
    BY <2>1, WritesRead
  <2>8. els # <<>>
    <3>1. 2 # 0
      OBVIOUS
    <3> QED BY <2>5, <3>1
  <2> QED BY <1>3, <2>1, <2>5, <2>6, <2>7, <2>8
<1>6. ASSUME IsDer(a), PermittedElements(els) PROVE a \in PermittedAny
  <2>1. Writes(a, els)
    BY <1>1, <1>6, ReadWrites
  <2>2. els \in Seq(E) /\ \A i \in 1..Len(els) : IsWritable(els[i].tag, els[i].value)
    BY <1>1, <2>1 DEF Writes
  <2>3. CASE Len(els) = 1
    <3>1. els = <<e>>
      <4>1. els[1] = e
        BY <1>3, <1>6
      <4> QED BY ONLY <1>2, <2>2, <2>3, <4>1, OneElement
    <3>2. a = p
      BY <1>2, <2>1, <3>1, WritesSame
    <3> QED BY <1>2, <3>2, PermittedSplit
  <2>4. CASE /\ Len(els) = 2 /\ els[2].tag = SEQUENCE
             /\ IsDer(els[2].value) /\ PermittedList(DerElements(els[2].value))
    <3>1. PICK x, f : f = els[2] /\ x = f.value
      OBVIOUS
    <3>2. 2 \in 1..Len(els)
      BY <2>4
    <3>3. f \in E /\ IsWritable(SEQUENCE, x)
      <4>1. els[2] \in E
        BY ONLY <2>2, <3>2
      <4> QED BY <2>2, <2>4, <3>1, <3>2, <4>1
    <3>4. x \in Seq(Byte) /\ IsShort(Len(x))
      BY <3>3 DEF IsWritable
    <3>5. Writes(x, DerElements(x)) /\ PermittedList(DerElements(x))
      BY <2>4, <3>1, <3>4, ReadWrites
    <3>6. x \in ParametersBytes
      BY <3>5, ListWritten
    <3>7. f = Item(SEQUENCE, x)
      BY <1>1, <2>4, <3>1, <3>3 DEF Item, Elements
    <3>8. els = <<e>> \o <<f>>
      <4>1. els[1] = e /\ Len(els) = 2 /\ els[2] = f
        BY <1>3, <1>6, <2>4, <3>1
      <4> QED BY ONLY <1>2, <2>2, <3>3, <4>1, TwoElements
    <3>9. Writes(Der(SEQUENCE, x), <<f>>)
      BY <3>3, <3>7, WritesOne DEF Item
    <3>10. Writes(p \o Der(SEQUENCE, x), els)
      BY <1>2, <3>8, <3>9, WritesJoin
    <3>11. a = WithParameters(x)
      BY <1>2, <2>1, <3>10, WritesSame DEF WithParameters
    <3> QED BY <3>6, <3>11, PermittedSplit
  <2> QED BY <1>3, <1>6, <2>3, <2>4
<1>7. a \in PermittedAny => IsDer(a) /\ PermittedElements(els)
  BY <1>2, <1>4, <1>5, PermittedSplit
<1> QED BY <1>1, <1>6, <1>7

-----------------------------------------------------------------------------
(* The loop *)

\* A parameter that is permitted is readable.
LEMMA PermittedReadable ==
  ASSUME NEW p, p.value \in Seq(Byte), IsShort(Len(p.value)), PermittedParameter(p)
  PROVE  IsReadable(p)
<1>1. PICK v : v = p.value
  OBVIOUS
<1>2. p.tag = 160 => HasHash(v)
  BY <1>1, HashIs DEF PermittedParameter
<1>3. p.tag = 161 => HasMaskGeneration(v)
  BY <1>1, MaskIs DEF PermittedParameter, ReadsMask
<1>4. p.tag = 162 => IsInteger(v)
  BY <1>1, SaltIs DEF PermittedParameter
<1>5. p.tag = 163 => IsInteger(v) /\ Integer(v) = 1
  BY <1>1, TrailerIs DEF PermittedParameter
<1>6. p.tag = 160 \/ p.tag = 161 \/ p.tag = 162 \/ p.tag = 163
  BY ParameterTag DEF PermittedParameter
<1>7. 160 # 161 /\ 160 # 162 /\ 161 # 162 /\ 160 # 163 /\ 161 # 163 /\ 162 # 163
  OBVIOUS
<1> QED BY <1>1, <1>2, <1>3, <1>4, <1>5, <1>6, <1>7 DEF IsReadable

\* Parameters as they are read from an algorithm.
IsList(P) == P \in Seq(Elements) /\ \A i \in 1..Len(P) : IsWritable(P[i].tag, P[i].value)

\* Where the loop is when it has seen k of the parameters P: `rest` are the
\* others, `last` is the tag of the last one, the next two say whether SHA-256
\* was named for the hash and for the mask generation, and `salt` is as much as
\* 32 bytes if no salt length forbids it.
Passed(P, k, last) ==
    /\ k \in 0..Len(P) /\ last \in Nat
    /\ last = IF k = 0 THEN 159 ELSE P[k].tag
    /\ \A i \in 1..k : IsReadable(P[i]) /\ P[i].tag \in ParameterTags /\ P[i].tag <= last
    /\ \A i, j \in 1..k : i < j => P[i].tag < P[j].tag
Remain(P, k, rest) ==
    /\ rest \in Seq(Elements) /\ Len(rest) = Len(P) - k
    /\ \A i \in 1..Len(rest) : rest[i] = P[k + i]
NamesHash(P, k) == \E i \in 1..k : P[i].tag = 160 /\ PermittedHash(P[i].value)
NamesMask(P, k) == \E i \in 1..k : P[i].tag = 161 /\ PermittedMask(P[i].value)
AllowsSalt(P, k) == \A i \in 1..k : P[i].tag = 162 => PermittedSalt(P[i].value)
Looked(P, k, rest, last, hash, mask, salt) ==
    /\ Passed(P, k, last) /\ Remain(P, k, rest)
    /\ hash = NamesHash(P, k) /\ mask = NamesMask(P, k)
    /\ (salt <= 32) = AllowsSalt(P, k)

\* At the start of the loop nothing was seen.
LEMMA LoopStart ==
  ASSUME NEW P, IsList(P)
  PROVE  Looked(P, 0, P, 159, FALSE, FALSE, 20)
<1>1. P \in Seq(Elements) /\ Len(P) \in Nat
  BY DEF IsList
<1>2. 1..0 = {} /\ 159 \in Nat /\ 20 <= 32
  OBVIOUS
<1>3. Passed(P, 0, 159)
  BY <1>1, <1>2 DEF Passed
<1>4. Remain(P, 0, P)
  <2>1. PICK n : n = Len(P)
    OBVIOUS
  <2>2. n - 0 = n /\ \A i \in 1..n : 0 + i = i
    BY <1>1, <2>1
  <2> QED BY <1>1, <2>1, <2>2 DEF Remain
<1> QED BY <1>2, <1>3, <1>4 DEF Looked, NamesHash, NamesMask, AllowsSalt

\* The next parameter.
LEMMA NextParameter ==
  ASSUME NEW P, IsList(P), NEW k, NEW rest, k \in 0..Len(P), Remain(P, k, rest), rest # <<>>
  PROVE  /\ k + 1 \in 1..Len(P) /\ k \in Nat /\ Head(rest) = P[k + 1]
         /\ Head(rest).tag \in Nat
         /\ Head(rest).value \in Seq(Byte) /\ IsShort(Len(Head(rest).value))
         /\ Remain(P, k + 1, Tail(rest))
<1>1. PICK n, l, E : n = Len(P) /\ l = Len(rest) /\ E = Elements
  OBVIOUS
<1>2. /\ P \in Seq(E) /\ n \in Nat /\ k \in 0..n /\ rest \in Seq(E) /\ l = n - k
      /\ \A i \in 1..l : rest[i] = P[k + i]
  BY <1>1 DEF IsList, Remain
<1>3. l # 0 /\ l \in Nat
  <2>1. rest \in Seq(E) /\ rest # <<>>
    BY <1>2
  <2>2. Len(rest) # 0 /\ Len(rest) \in Nat
    BY ONLY <2>1
  <2> QED BY <1>1, <2>2
<1>4. k + 1 \in 1..n /\ k \in Nat /\ 1 \in 1..l
  BY ONLY <1>2, <1>3
<1>5. Head(rest) = P[k + 1]
  BY <1>2, <1>4
<1>6. P[k + 1] \in E
  BY ONLY <1>1, <1>2, <1>4
<1>7. IsWritable(P[k + 1].tag, P[k + 1].value)
  BY <1>1, <1>4 DEF IsList
<1>8. Remain(P, k + 1, Tail(rest))
  <2>1. PICK t : t = Tail(rest)
    OBVIOUS
  <2>2. t \in Seq(E) /\ Len(t) = l - 1 /\ \A i \in 1..Len(t) : t[i] = rest[i + 1]
    BY <1>1, <1>2, <2>1, HeadTailProperties
  <2>3. l - 1 = n - (k + 1)
    BY <1>2, <1>4
  <2>4. \A i \in 1..(l - 1) : t[i] = P[(k + 1) + i]
    <3> TAKE i \in 1..(l - 1)
    <3>1. i + 1 \in 1..l /\ k + (i + 1) = (k + 1) + i
      BY <1>3, <1>4
    <3> QED BY <1>2, <2>2, <3>1
  <2> QED BY <1>1, <2>1, <2>2, <2>3, <2>4 DEF Remain
<1> QED BY <1>1, <1>4, <1>5, <1>6, <1>7, <1>8 DEF IsWritable, Elements

\* One turn that reads it.
LEMMA LoopTurn ==
  ASSUME NEW P, IsList(P), NEW k, NEW rest, NEW last, NEW hash, NEW mask, NEW salt,
         Looked(P, k, rest, last, hash, mask, salt), rest # <<>>,
         NEW e, e = Head(rest), e.tag \in ParameterTags, e.tag > last, IsReadable(e),
         NEW hash2, hash2 = IF e.tag = 160 THEN PermittedHash(e.value) ELSE hash,
         NEW mask2, mask2 = IF e.tag = 161 THEN PermittedMask(e.value) ELSE mask,
         NEW salt2, (salt2 <= 32) = IF e.tag = 162 THEN PermittedSalt(e.value) ELSE (salt <= 32)
  PROVE  Looked(P, k + 1, Tail(rest), e.tag, hash2, mask2, salt2)
<1>1. /\ Passed(P, k, last) /\ Remain(P, k, rest) /\ k \in 0..Len(P) /\ last \in Nat
      /\ hash = NamesHash(P, k) /\ mask = NamesMask(P, k)
      /\ (salt <= 32) = AllowsSalt(P, k)
  BY DEF Looked, Passed
<1>2. /\ k + 1 \in 1..Len(P) /\ k \in Nat /\ e = P[k + 1] /\ e.tag \in Nat
      /\ Remain(P, k + 1, Tail(rest))
  BY <1>1, NextParameter
<1>3. /\ \A i \in 1..k : IsReadable(P[i]) /\ P[i].tag \in ParameterTags /\ P[i].tag <= last
      /\ \A i, j \in 1..k : i < j => P[i].tag < P[j].tag
  BY <1>1 DEF Passed
<1>4. \A i \in 1..(k + 1) : i \in 1..k \/ i = k + 1
  BY <1>2
<1>5. \A i \in 1..k : /\ i \in 1..(k + 1) /\ P[i].tag < e.tag /\ P[i].tag <= e.tag
                      /\ P[i].tag # e.tag
  <2> TAKE i \in 1..k
  <2>1. PICK a, b : a = P[i].tag /\ b = e.tag
    OBVIOUS
  <2>2. a \in Nat /\ a <= last /\ last \in Nat /\ b \in Nat /\ b > last
    <3>1. P[i].tag \in ParameterTags /\ P[i].tag <= last
      BY <1>3
    <3>2. a \in Nat /\ a <= last
      BY <2>1, <3>1, ParameterTag
    <3> QED BY <1>1, <1>2, <2>1, <3>2
  <2>3. a < b /\ a <= b /\ a # b
    BY ONLY <2>2
  <2>4. i \in 1..(k + 1)
    BY <1>2
  <2> QED BY <2>1, <2>3, <2>4
<1>6. Passed(P, k + 1, e.tag)
  <2>1. k + 1 \in 0..Len(P) /\ k + 1 # 0
    <3>1. PICK n : n = Len(P)
      OBVIOUS
    <3>2. k + 1 \in 1..n /\ k \in Nat
      BY <1>2, <3>1
    <3>3. k + 1 \in 0..n /\ k + 1 # 0
      BY ONLY <3>2
    <3> QED BY <3>1, <3>3
  <2>2. \A i \in 1..(k + 1) : IsReadable(P[i]) /\ P[i].tag \in ParameterTags /\ P[i].tag <= e.tag
    <3>1. e.tag <= e.tag
      BY <1>2
    <3> QED BY <1>2, <1>3, <1>4, <1>5, <3>1
  <2>3. \A i, j \in 1..(k + 1) : i < j => P[i].tag < P[j].tag
    <3> TAKE i, j \in 1..(k + 1)
    <3> HAVE i < j
    <3>1. i \in 1..k
      BY <1>2
    <3> QED BY <1>2, <1>3, <1>4, <1>5, <3>1
  <2> QED BY <1>2, <2>1, <2>2, <2>3 DEF Passed
<1>7. k + 1 \in 1..(k + 1) /\ 1..k \subseteq 1..(k + 1)
  BY <1>2
<1>8. NamesHash(P, k + 1) <=> IF e.tag = 160 THEN PermittedHash(e.value) ELSE NamesHash(P, k)
  <2>1. NamesHash(P, k + 1) <=> (NamesHash(P, k) \/ (e.tag = 160 /\ PermittedHash(e.value)))
    BY ONLY <1>2, <1>4, <1>7 DEF NamesHash
  <2>2. e.tag = 160 => ~NamesHash(P, k)
    BY ONLY <1>5 DEF NamesHash
  <2> QED BY ONLY <2>1, <2>2, Zenon
<1>9. NamesMask(P, k + 1) <=> IF e.tag = 161 THEN PermittedMask(e.value) ELSE NamesMask(P, k)
  <2>1. NamesMask(P, k + 1) <=> (NamesMask(P, k) \/ (e.tag = 161 /\ PermittedMask(e.value)))
    BY ONLY <1>2, <1>4, <1>7 DEF NamesMask
  <2>2. e.tag = 161 => ~NamesMask(P, k)
    BY ONLY <1>5 DEF NamesMask
  <2> QED BY ONLY <2>1, <2>2, Zenon
<1>10. AllowsSalt(P, k + 1) <=> IF e.tag = 162 THEN PermittedSalt(e.value) ELSE AllowsSalt(P, k)
  <2>1. AllowsSalt(P, k + 1) <=> (AllowsSalt(P, k) /\ (e.tag = 162 => PermittedSalt(e.value)))
    BY ONLY <1>2, <1>4, <1>7 DEF AllowsSalt
  <2>2. e.tag = 162 => AllowsSalt(P, k)
    BY ONLY <1>5 DEF AllowsSalt
  <2> QED BY ONLY <2>1, <2>2, Zenon
<1>11. hash2 = NamesHash(P, k + 1)
  BY <1>1, <1>8 DEF NamesHash, PermittedHash
<1>12. mask2 = NamesMask(P, k + 1)
  BY <1>1, <1>9 DEF NamesMask, PermittedMask
<1>13. (salt2 <= 32) = AllowsSalt(P, k + 1)
  BY <1>1, <1>10 DEF AllowsSalt, PermittedSalt
<1> QED BY <1>2, <1>6, <1>11, <1>12, <1>13 DEF Looked

\* The loop refuses no parameter of a permitted list.
LEMMA LoopRefuses ==
  ASSUME NEW P, IsList(P), NEW k, NEW rest, NEW last, NEW hash, NEW mask, NEW salt,
         Looked(P, k, rest, last, hash, mask, salt), rest # <<>>, PermittedList(P)
  PROVE  /\ Head(rest).tag \in ParameterTags /\ Head(rest).tag > last /\ IsReadable(Head(rest))
<1>1. PICK e : e = Head(rest)
  OBVIOUS
<1>2. Passed(P, k, last) /\ Remain(P, k, rest) /\ k \in 0..Len(P) /\ last \in Nat
  BY DEF Looked, Passed
<1>3. /\ k + 1 \in 1..Len(P) /\ k \in Nat /\ e = P[k + 1] /\ e.tag \in Nat
      /\ e.value \in Seq(Byte) /\ IsShort(Len(e.value))
  BY <1>1, <1>2, NextParameter
<1>4. PermittedParameter(e)
  BY <1>3 DEF PermittedList, Ordered
<1>5. e.tag \in ParameterTags /\ IsReadable(e)
  BY <1>3, <1>4, PermittedReadable DEF PermittedParameter
<1>6. e.tag > last
  <2>1. CASE k = 0
    <3>1. last = 159
      BY <1>2, <2>1 DEF Passed
    <3> QED BY <1>5, <3>1, ParameterTag
  <2>2. CASE k # 0
    <3>1. last = P[k].tag
      BY <1>2, <2>2 DEF Passed
    <3>2. k \in 1..Len(P) /\ k < k + 1
      BY <1>2, <1>3, <2>2
    <3>3. P[k].tag < P[k + 1].tag
      BY <1>3, <3>2 DEF PermittedList, Ordered
    <3> QED BY <1>2, <1>3, <3>1, <3>3
  <2> QED BY <2>1, <2>2
<1> QED BY <1>1, <1>5, <1>6

\* At its end it has decided.
LEMMA LoopEnds ==
  ASSUME NEW P, IsList(P), NEW k, NEW last, NEW hash, NEW mask, NEW salt,
         Looked(P, k, <<>>, last, hash, mask, salt)
  PROVE  hash /\ mask /\ (salt <= 32) <=> PermittedList(P)
<1>1. PICK n : n = Len(P)
  OBVIOUS
<1>2. /\ Passed(P, k, last) /\ hash = NamesHash(P, k) /\ mask = NamesMask(P, k)
      /\ (salt <= 32) = AllowsSalt(P, k)
  BY DEF Looked
<1>3. k = n /\ n \in Nat
  <2>1. Len(<<>>) = n - k /\ k \in 0..n /\ n \in Nat
    BY <1>1 DEF Looked, Remain, Passed, IsList
  <2>2. n - k = 0
    BY <2>1
  <2> QED BY <2>1, <2>2
<1>4. /\ \A i \in 1..n : IsReadable(P[i]) /\ P[i].tag \in ParameterTags
      /\ \A i, j \in 1..n : i < j => P[i].tag < P[j].tag
  BY <1>2, <1>3 DEF Passed
<1>5. \A i, j \in 1..n : P[i].tag = P[j].tag => i = j
  <2> TAKE i, j \in 1..n
  <2>1. i < j \/ i = j \/ j < i
    OBVIOUS
  <2>2. P[i].tag < P[j].tag => P[i].tag # P[j].tag
    BY <1>4, ParameterTag
  <2>3. P[j].tag < P[i].tag => P[i].tag # P[j].tag
    BY <1>4, ParameterTag
  <2> QED BY <1>4, <2>1, <2>2, <2>3
<1>6. P \in Seq(Elements) /\ \A i \in 1..n : P[i].value \in Seq(Byte) /\ IsShort(Len(P[i].value))
  BY <1>1 DEF IsList, IsWritable
<1>7. ASSUME NamesHash(P, n), NamesMask(P, n), AllowsSalt(P, n)
      PROVE  PermittedList(P)
  <2>1. \A i \in 1..n : PermittedParameter(P[i]) /\ P[i].tag <= 163
    <3> TAKE i \in 1..n
    <3>1. P[i].tag = 160 => PermittedHash(P[i].value)
      <4>1. PICK j \in 1..n : P[j].tag = 160 /\ PermittedHash(P[j].value)
        BY <1>7 DEF NamesHash
      <4> QED BY <1>5, <4>1
    <3>2. P[i].tag = 161 => PermittedMask(P[i].value)
      <4>1. PICK j \in 1..n : P[j].tag = 161 /\ PermittedMask(P[j].value)
        BY <1>7 DEF NamesMask
      <4> QED BY <1>5, <4>1
    <3>3. P[i].tag = 162 => PermittedSalt(P[i].value)
      BY <1>7 DEF AllowsSalt
    <3>4. P[i].tag = 163 => PermittedTrailer(P[i].value)
      <4>1. SUFFICES ASSUME P[i].tag = 163 PROVE PermittedTrailer(P[i].value)
        OBVIOUS
      <4>2. 163 # 160 /\ 163 # 161 /\ 163 # 162
        OBVIOUS
      <4>3. IsInteger(P[i].value) /\ Integer(P[i].value) = 1
        BY <1>4, <4>1, <4>2 DEF IsReadable
      <4> QED BY <1>6, <4>3, TrailerIs
    <3>5. P[i].tag \in ParameterTags /\ P[i].tag <= 163
      BY <1>4, ParameterTag
    <3> QED BY <3>1, <3>2, <3>3, <3>4, <3>5 DEF PermittedParameter
  <2>2. Ordered(P, 163)
    BY <1>1, <1>4, <1>6, <2>1 DEF Ordered
  <2>3. 160 \in TagsOf(P)
    BY <1>1, <1>7 DEF NamesHash, TagsOf
  <2>4. 161 \in TagsOf(P)
    BY <1>1, <1>7 DEF NamesMask, TagsOf
  <2> QED BY <2>2, <2>3, <2>4 DEF PermittedList
<1>8. ASSUME PermittedList(P)
      PROVE  NamesHash(P, n) /\ NamesMask(P, n) /\ AllowsSalt(P, n)
  <2>1. \A i \in 1..n : PermittedParameter(P[i])
    BY <1>1, <1>8 DEF PermittedList, Ordered
  <2>2. PICK i \in 1..n : P[i].tag = 160
    BY <1>1, <1>8 DEF PermittedList, TagsOf
  <2>3. PICK j \in 1..n : P[j].tag = 161
    BY <1>1, <1>8 DEF PermittedList, TagsOf
  <2>4. NamesHash(P, n)
    BY <2>1, <2>2 DEF NamesHash, PermittedParameter
  <2>5. NamesMask(P, n)
    BY <2>1, <2>3 DEF NamesMask, PermittedParameter
  <2>6. AllowsSalt(P, n)
    BY <2>1 DEF AllowsSalt, PermittedParameter
  <2> QED BY <2>4, <2>5, <2>6
<1>9. NamesHash(P, n) /\ NamesMask(P, n) /\ AllowsSalt(P, n) <=> PermittedList(P)
  BY <1>7, <1>8
<1> QED BY ONLY <1>2, <1>3, <1>9, Zenon

\* The algorithm of the key has parameters, and these are they.
HasParameters(els) ==
    /\ els # <<>> /\ els[1] = Item(OID, IdRsassaPss)
    /\ Len(els) = 2 /\ els[2].tag = SEQUENCE /\ IsDer(els[2].value)
ParametersOf(els) == DerElements(els[2].value)

\* They are a list of what can be written.
LEMMA ParametersAreList ==
  ASSUME NEW a \in Seq(Byte), IsShort(Len(a)), IsDer(a), NEW els, els = DerElements(a),
         HasParameters(els)
  PROVE  IsList(ParametersOf(els))
<1>1. Writes(a, els)
  BY ReadWrites
<1>2. PICK E, v : E = Elements /\ v = els[2].value
  OBVIOUS
<1>3. els \in Seq(E) /\ \A i \in 1..Len(els) : IsWritable(els[i].tag, els[i].value)
  BY <1>1, <1>2 DEF Writes
<1>4. Len(els) = 2 /\ IsDer(v)
  BY <1>2 DEF HasParameters
<1>5. 2 \in 1..Len(els)
  BY ONLY <1>4
<1>6. v \in Seq(Byte) /\ IsShort(Len(v))
  BY <1>2, <1>3, <1>5 DEF IsWritable
<1>7. Writes(v, DerElements(v))
  BY <1>4, <1>6, ReadWrites
<1> QED BY <1>2, <1>7 DEF ParametersOf, IsList, Writes

\* With parameters they decide, without them nothing is restricted.
LEMMA PermittedByParameters ==
  ASSUME NEW els
  PROVE  PermittedElements(els) <=>
            \/ els # <<>> /\ els[1] = Item(OID, IdRsassaPss) /\ Len(els) = 1
            \/ HasParameters(els) /\ PermittedList(ParametersOf(els))
  BY DEF PermittedElements, HasParameters, ParametersOf

-----------------------------------------------------------------------------
(* The inductive invariant *)

\* In the loop some k parameters of the key are behind, and all was noted.
AtLoop ==
    LET els == DerElements(leaf.algorithm)
    IN  /\ IsDer(leaf.algorithm) /\ HasParameters(els)
        /\ \E k : Looked(ParametersOf(els), k, todo, previous_tag,
                         hash_is_sha256, mgf1_is_sha256, minimum_salt)

\* Nothing is noted before the loop; a key that is refused or used is one that
\* is not or that is permitted.
RulesInv ==
    /\ LeafInv
    /\ pc \in {"load", "start", "algorithm"} =>
          /\ hash_is_sha256 = FALSE /\ mgf1_is_sha256 = FALSE
          /\ minimum_salt = 20 /\ previous_tag = 159
    /\ pc = "parameters" => AtLoop
    /\ pc = "restricted" => leaf.algorithm \notin PermittedAny
    /\ pc = "key" /\ scheme = "rsa_pss_pss" /\ leaf.kind = "pss" =>
          leaf.algorithm \in PermittedAny
    /\ pc \in {"accepted", "invalid"} /\ leaf.kind = "pss" => leaf.algorithm \in PermittedAny

\* At the end of the parameters it is decided whether the key is restricted.
LEMMA AtLoopDecides ==
  ASSUME LeafInv, AtLoop
  PROVE  /\ \E P, k : /\ IsList(P)
                      /\ Looked(P, k, todo, previous_tag, hash_is_sha256, mgf1_is_sha256,
                                minimum_salt)
                      /\ P = ParametersOf(DerElements(leaf.algorithm))
         /\ leaf.algorithm \in PermittedAny <=>
               PermittedList(ParametersOf(DerElements(leaf.algorithm)))
<1>1. PICK a, els : a = leaf.algorithm /\ els = DerElements(a)
  OBVIOUS
<1>2. a \in Seq(Byte) /\ IsShort(Len(a))
  BY <1>1, AlgorithmRead
<1>3. IsDer(a) /\ HasParameters(els)
  BY <1>1 DEF AtLoop
<1>4. PICK k : Looked(ParametersOf(els), k, todo, previous_tag,
                      hash_is_sha256, mgf1_is_sha256, minimum_salt)
  BY <1>1 DEF AtLoop
<1>5. IsList(ParametersOf(els))
  BY <1>1, <1>2, <1>3, ParametersAreList
<1>6. ~(Len(els) = 1)
  <2>1. 2 # 1
    OBVIOUS
  <2> QED BY <1>3, <2>1 DEF HasParameters
<1>7. a \in PermittedAny <=> PermittedList(ParametersOf(els))
  BY <1>1, <1>2, <1>3, <1>6, PermittedIs, PermittedByParameters
<1> QED BY <1>1, <1>4, <1>5, <1>7

\* A turn of the loop that reads a parameter stays in it.
LEMMA TurnStays ==
  ASSUME LeafInv, AtLoop, todo # <<>>, Seen,
         NEW e, e = Head(todo), e.tag \in ParameterTags, e.tag > previous_tag, IsReadable(e),
         hash_is_sha256' = IF e.tag = 160 THEN PermittedHash(e.value) ELSE hash_is_sha256,
         mgf1_is_sha256' = IF e.tag = 161 THEN PermittedMask(e.value) ELSE mgf1_is_sha256,
         (minimum_salt' <= 32) = IF e.tag = 162 THEN PermittedSalt(e.value)
                                                ELSE (minimum_salt <= 32)
  PROVE  AtLoop'
<1>1. PICK P, k : /\ IsList(P)
                  /\ Looked(P, k, todo, previous_tag, hash_is_sha256, mgf1_is_sha256,
                            minimum_salt)
                  /\ P = ParametersOf(DerElements(leaf.algorithm))
  BY AtLoopDecides
<1>2. todo' = Tail(todo) /\ previous_tag' = e.tag /\ leaf' = leaf
  BY DEF Seen
<1>3. PICK hash2, mask2, salt2 : /\ hash2 = hash_is_sha256' /\ mask2 = mgf1_is_sha256'
                                 /\ salt2 = minimum_salt'
  OBVIOUS
<1>4. Looked(P, k + 1, Tail(todo), e.tag, hash2, mask2, salt2)
  BY <1>1, <1>3, LoopTurn
<1>5. Looked(P, k + 1, todo', previous_tag', hash_is_sha256', mgf1_is_sha256', minimum_salt')
  BY <1>2, <1>3, <1>4
<1>6. /\ IsDer(leaf.algorithm) /\ HasParameters(DerElements(leaf.algorithm))
  BY DEF AtLoop
<1> QED BY <1>1, <1>2, <1>5, <1>6 DEF AtLoop

\* The element the loop is at is as it was written.
LEMMA AtParameter ==
  ASSUME LeafInv, AtLoop, todo # <<>>
  PROVE  Head(todo).value \in Seq(Byte) /\ IsShort(Len(Head(todo).value))
<1>1. PICK P, k : /\ IsList(P)
                  /\ Looked(P, k, todo, previous_tag, hash_is_sha256, mgf1_is_sha256,
                            minimum_salt)
  BY AtLoopDecides
<1>2. k \in 0..Len(P) /\ Remain(P, k, todo)
  BY <1>1 DEF Looked, Passed
<1> QED BY <1>1, <1>2, NextParameter

\* Each of the four parameters is read by a turn of the loop.
LEMMA ReadingStays ==
  ASSUME LeafInv, AtLoop, ReadHash \/ ReadMaskGeneration \/ ReadSaltLength \/ ReadTrailer
  PROVE  AtLoop'
<1> DEFINE e == Head(todo)
           v == e.value
<1>1. /\ todo # <<>> /\ e.tag \in ParameterTags /\ e.tag > previous_tag /\ Seen
  BY DEF ReadHash, ReadMaskGeneration, ReadSaltLength, ReadTrailer, Reads, IsNext
<1>2. v \in Seq(Byte) /\ IsShort(Len(v))
  BY <1>1, AtParameter
<1>3. 160 # 161 /\ 160 # 162 /\ 161 # 162 /\ 160 # 163 /\ 161 # 163 /\ 162 # 163
  OBVIOUS
<1>4. CASE ReadHash
  <2>1. /\ e.tag = 160 /\ HasHash(v) /\ hash_is_sha256' = IsSha256(Single(v))
        /\ mgf1_is_sha256' = mgf1_is_sha256 /\ minimum_salt' = minimum_salt
    BY <1>4 DEF ReadHash, Reads
  <2>2. IsReadable(e)
    BY <2>1 DEF IsReadable
  <2>3. hash_is_sha256' = PermittedHash(v)
    BY <1>2, <2>1, HashIs DEF PermittedHash, IsSha256
  <2>4. hash_is_sha256' = IF e.tag = 160 THEN PermittedHash(v) ELSE hash_is_sha256
    BY <2>1, <2>3
  <2>5. mgf1_is_sha256' = IF e.tag = 161 THEN PermittedMask(v) ELSE mgf1_is_sha256
    BY <1>3, <2>1
  <2>6. (minimum_salt' <= 32) = IF e.tag = 162 THEN PermittedSalt(v) ELSE (minimum_salt <= 32)
    BY <1>3, <2>1
  <2> QED BY <1>1, <2>2, <2>4, <2>5, <2>6, TurnStays
<1>5. CASE ReadMaskGeneration
  <2>1. /\ e.tag = 161 /\ HasMaskGeneration(v)
        /\ mgf1_is_sha256' = (/\ NamesMgf1(DerElements(Single(v)))
                              /\ IsSha256(DerElements(Single(v))[2].value))
        /\ hash_is_sha256' = hash_is_sha256 /\ minimum_salt' = minimum_salt
    BY <1>5 DEF ReadMaskGeneration, Reads
  <2>2. IsReadable(e)
    BY <1>3, <2>1 DEF IsReadable
  <2>3. mgf1_is_sha256' = PermittedMask(v)
    BY <1>2, <2>1, MaskIs DEF PermittedMask, ReadsMask
  <2>4. hash_is_sha256' = IF e.tag = 160 THEN PermittedHash(v) ELSE hash_is_sha256
    BY <1>3, <2>1
  <2>5. mgf1_is_sha256' = IF e.tag = 161 THEN PermittedMask(v) ELSE mgf1_is_sha256
    BY <2>1, <2>3
  <2>6. (minimum_salt' <= 32) = IF e.tag = 162 THEN PermittedSalt(v) ELSE (minimum_salt <= 32)
    BY <1>3, <2>1
  <2> QED BY <1>1, <2>2, <2>4, <2>5, <2>6, TurnStays
<1>6. CASE ReadSaltLength
  <2>1. /\ e.tag = 162 /\ IsInteger(v) /\ minimum_salt' = Integer(v)
        /\ hash_is_sha256' = hash_is_sha256 /\ mgf1_is_sha256' = mgf1_is_sha256
    BY <1>6 DEF ReadSaltLength, Reads
  <2>2. IsReadable(e)
    BY <1>3, <2>1 DEF IsReadable
  <2>3. (minimum_salt' <= 32) = PermittedSalt(v)
    <3>1. IsInteger(v) /\ Integer(v) <= 32 <=> PermittedSalt(v)
      BY <1>2, SaltIs
    <3>2. PermittedSalt(v) \in BOOLEAN
      BY DEF PermittedSalt
    <3>3. (Integer(v) <= 32) = PermittedSalt(v)
      BY <2>1, <3>1, <3>2
    <3> QED BY <2>1, <3>3
  <2>4. hash_is_sha256' = IF e.tag = 160 THEN PermittedHash(v) ELSE hash_is_sha256
    BY <1>3, <2>1
  <2>5. mgf1_is_sha256' = IF e.tag = 161 THEN PermittedMask(v) ELSE mgf1_is_sha256
    BY <1>3, <2>1
  <2>6. (minimum_salt' <= 32) = IF e.tag = 162 THEN PermittedSalt(v) ELSE (minimum_salt <= 32)
    BY <2>1, <2>3
  <2> QED BY <1>1, <2>2, <2>4, <2>5, <2>6, TurnStays
<1>7. CASE ReadTrailer
  <2>1. /\ e.tag = 163 /\ IsInteger(v) /\ Integer(v) = 1 /\ minimum_salt' = minimum_salt
        /\ hash_is_sha256' = hash_is_sha256 /\ mgf1_is_sha256' = mgf1_is_sha256
    BY <1>7 DEF ReadTrailer, Reads
  <2>2. IsReadable(e)
    BY <1>3, <2>1 DEF IsReadable
  <2> QED BY <1>1, <1>3, <2>1, <2>2, TurnStays
<1> QED BY <1>4, <1>5, <1>6, <1>7

\* The invariant holds at first.
LEMMA RulesInvInit == Init => RulesInv
  BY DEF Init, RulesInv, LeafInv

\* Each step keeps it.
LEMMA RulesInvNext ==
  ASSUME RulesInv, [Next]_vars
  PROVE  RulesInv'
<1> USE DEF RulesInv
<1>1. LeafInv' /\ leaf' = leaf /\ scheme' = scheme
  BY DEF LeafInv, Next, vars, rules, Load, LoadFails, Start, ReadAlgorithm, ReadHash, ReadMaskGeneration,
         ReadSaltLength, ReadTrailer, RefuseParameter, EndParameters, CheckSignature, Over,
         Seen, GoTo
<1> DEFINE a == leaf.algorithm
           els == DerElements(a)
<1>2. a \in Seq(Byte) /\ IsShort(Len(a)) /\ Algorithm = els
  BY AlgorithmRead
<1>3. a \in PermittedAny <=> IsDer(a) /\ PermittedElements(els)
  BY <1>2, PermittedIs
<1>4. AtLoop /\ UNCHANGED <<leaf, todo, hash_is_sha256, mgf1_is_sha256, minimum_salt, previous_tag>>
        => AtLoop'
  BY DEF AtLoop
<1>5. CASE Load \/ LoadFails \/ Start
  BY <1>1, <1>5 DEF Load, LoadFails, Start, GoTo, rules
<1>6. CASE ReadAlgorithm
  <2> DEFINE e == [tag |-> OID, value |-> IdRsassaPss]
  <2>1. e = Item(OID, IdRsassaPss)
    BY DEF Item
  <2>2. IsDer(a) <=> Broken \notin ToSet(els)
    BY DEF IsDer
  <2>3. a \in PermittedAny => els # <<>> /\ Head(els) = e
    <3>1. SUFFICES ASSUME a \in PermittedAny PROVE els # <<>> /\ Head(els) = e
      OBVIOUS
    <3>2. Writes(a, els)
      BY <1>2, <1>3, <3>1, ReadWrites
    <3>3. els \in Seq(Elements) /\ els # <<>> /\ els[1] = e
      BY <1>3, <2>1, <3>1, <3>2 DEF Writes, PermittedElements
    <3> QED BY <3>3
  <2>4. CASE /\ pc' = "restricted"
             /\ (Broken \in ToSet(els) \/ els = <<>> \/ Head(els) # e)
    <3>1. a \notin PermittedAny
      BY <1>3, <2>2, <2>3, <2>4
    <3> QED BY <1>1, <2>4, <3>1
  <2>5. ASSUME ~(Broken \in ToSet(els) \/ els = <<>> \/ Head(els) # e)
        PROVE  IsDer(a) /\ els # <<>> /\ els[1] = Item(OID, IdRsassaPss)
    <3>1. Writes(a, els)
      BY <1>2, <2>2, <2>5, ReadWrites
    <3>2. els \in Seq(Elements) /\ els # <<>> /\ Head(els) = e
      BY <2>5, <3>1 DEF Writes
    <3>3. els[1] = e
      BY <3>2
    <3> QED BY <2>1, <2>2, <2>5, <3>3
  <2>6. CASE /\ pc' = "key" /\ Len(els) = 1
             /\ ~(Broken \in ToSet(els) \/ els = <<>> \/ Head(els) # e)
    <3>1. a \in PermittedAny
      BY <1>3, <2>5, <2>6 DEF PermittedElements
    <3> QED BY <1>1, <2>6, <3>1
  <2>7. CASE /\ pc' = "parameters" /\ todo' = DerElements(els[2].value)
             /\ Len(els) = 2 /\ els[2].tag = SEQUENCE /\ IsDer(els[2].value)
             /\ ~(Broken \in ToSet(els) \/ els = <<>> \/ Head(els) # e)
    <3>1. IsDer(a) /\ HasParameters(els)
      BY <2>5, <2>7 DEF HasParameters
    <3>2. PICK P : P = ParametersOf(els)
      OBVIOUS
    <3>3. IsList(P)
      BY <1>2, <3>1, <3>2, ParametersAreList
    <3>4. Looked(P, 0, P, 159, FALSE, FALSE, 20)
      BY <3>3, LoopStart
    <3>5. /\ hash_is_sha256' = FALSE /\ mgf1_is_sha256' = FALSE
          /\ minimum_salt' = 20 /\ previous_tag' = 159
      BY <1>6 DEF ReadAlgorithm, rules
    <3>6. todo' = P
      BY <2>7, <3>2 DEF ParametersOf
    <3>7. Looked(P, 0, todo', previous_tag', hash_is_sha256', mgf1_is_sha256', minimum_salt')
      BY <3>4, <3>5, <3>6
    <3>8. AtLoop'
      BY <1>1, <3>1, <3>2, <3>7 DEF AtLoop
    <3> QED BY <1>1, <2>7, <3>8
  <2>8. CASE /\ pc' = "restricted" /\ Len(els) # 1
             /\ ~(Len(els) = 2 /\ els[2].tag = SEQUENCE /\ IsDer(els[2].value))
    <3>1. a \notin PermittedAny
      BY <1>3, <2>8 DEF PermittedElements
    <3> QED BY <1>1, <2>8, <3>1
  <2> QED
    <3> HIDE DEF els, e, RulesInv
    <3> QED BY <1>2, <1>6, <2>4, <2>6, <2>7, <2>8 DEF ReadAlgorithm, GoTo, e
<1>7. CASE ReadHash \/ ReadMaskGeneration \/ ReadSaltLength \/ ReadTrailer
  <2>1. pc = "parameters" /\ pc' = pc
    BY <1>7 DEF ReadHash, ReadMaskGeneration, ReadSaltLength, ReadTrailer, Reads, Seen
  <2>2. AtLoop'
    BY <1>7, <2>1, ReadingStays
  <2> QED BY <1>1, <2>1, <2>2
<1>8. CASE RefuseParameter
  <2>1. /\ pc = "parameters" /\ pc' = "restricted" /\ todo # <<>>
        /\ ~(IsNext /\ IsReadable(Head(todo)))
    BY <1>8 DEF RefuseParameter, GoTo
  <2>2. a \notin PermittedAny
    <3>1. PICK P, k : /\ IsList(P)
                      /\ Looked(P, k, todo, previous_tag, hash_is_sha256, mgf1_is_sha256,
                                minimum_salt)
                      /\ a \in PermittedAny <=> PermittedList(P)
      BY <2>1, AtLoopDecides
    <3>2. PermittedList(P) => IsNext /\ IsReadable(Head(todo))
      BY <2>1, <3>1, LoopRefuses DEF IsNext
    <3> QED BY <2>1, <3>1, <3>2
  <2> QED BY <1>1, <2>1, <2>2
<1>9. CASE EndParameters
  <2>1. /\ pc = "parameters" /\ todo = <<>>
        /\ pc' = IF hash_is_sha256 /\ mgf1_is_sha256 /\ minimum_salt <= 32
                    THEN "key" ELSE "restricted"
    BY <1>9 DEF EndParameters, GoTo
  <2>2. a \in PermittedAny <=> hash_is_sha256 /\ mgf1_is_sha256 /\ minimum_salt <= 32
    <3>1. PICK P, k : /\ IsList(P)
                      /\ Looked(P, k, todo, previous_tag, hash_is_sha256, mgf1_is_sha256,
                                minimum_salt)
                      /\ a \in PermittedAny <=> PermittedList(P)
      BY <2>1, AtLoopDecides
    <3>2. hash_is_sha256 /\ mgf1_is_sha256 /\ (minimum_salt <= 32) <=> PermittedList(P)
      BY <2>1, <3>1, LoopEnds
    <3> QED BY <3>1, <3>2
  <2> QED BY <1>1, <2>1, <2>2
<1>10. CASE CheckSignature
  <2>1. /\ pc = "key"
        /\ pc' = IF ~SuitsScheme THEN "unsuited" ELSE IF leaf.signed THEN "accepted" ELSE "invalid"
    BY <1>10 DEF CheckSignature, GoTo
  <2>2. SuitsScheme /\ leaf.kind = "pss" => scheme = "rsa_pss_pss"
    BY DEF SuitsScheme
  <2> QED BY <1>1, <2>1, <2>2
<1>11. CASE Over \/ UNCHANGED vars
  BY <1>1, <1>4, <1>11 DEF Over, vars
<1> QED BY <1>5, <1>6, <1>7, <1>8, <1>9, <1>10, <1>11 DEF Next

-----------------------------------------------------------------------------
(* What the provider keeps away *)

\* A default salt length that is spelled out never gets past the load (79).
LoadedInv ==
    pc \notin {"load", "unloadable"} /\ leaf.kind = "pss" => ~SpellsDefault(leaf.algorithm)

\* The load decides, and the key stays.
LEMMA LoadedHolds == Spec => []LoadedInv
<1>1. Init => LoadedInv
  BY DEF Init, LoadedInv
<1>2. LoadedInv /\ [Next]_vars => LoadedInv'
  <2> SUFFICES ASSUME LoadedInv, [Next]_vars PROVE LoadedInv'
    OBVIOUS
  <2>1. leaf' = leaf
    BY DEF Next, vars, Load, LoadFails, Start, ReadAlgorithm, ReadHash, ReadMaskGeneration,
           ReadSaltLength, ReadTrailer, RefuseParameter, EndParameters, CheckSignature, Over,
           Seen, GoTo
  <2>2. CASE Load
    BY <2>1, <2>2 DEF Load, LoadedInv
  <2>3. CASE ~Load
    <3>1. pc' \notin {"load", "unloadable"} => pc \notin {"load", "unloadable"}
      BY <2>3 DEF Next, vars, LoadFails, Start, ReadAlgorithm, ReadHash, ReadMaskGeneration,
             ReadSaltLength, ReadTrailer, RefuseParameter, EndParameters, CheckSignature,
             Over, Reads, Seen, GoTo
    <3> QED BY <2>1, <3>1 DEF LoadedInv
  <2> QED BY <2>2, <2>3
<1> QED BY <1>1, <1>2, PTL DEF Spec

\* The salt lengths of Permitted.
DefaultUnspelled == {<<>>} \cup {Der(162, Der(INTEGER, <<n>>)) : n \in (0..32) \ {20}}

\* It is PermittedAny with fewer of them.
LEMMA PermittedJoined ==
  /\ \A hash \in HashBytes, mgf \in MaskBytes, salt \in DefaultUnspelled,
        trailer \in TrailerBytes : WithParameters(Joined(hash, mgf, salt, trailer)) \in Permitted
  /\ Der(OID, IdRsassaPss) \in Permitted
  /\ Permitted \subseteq PermittedAny
<1>1. Permitted = {Der(OID, IdRsassaPss)} \cup
                  {WithParameters(Joined(hash, mgf, salt, trailer)) :
                      hash \in HashBytes, mgf \in MaskBytes,
                      salt \in DefaultUnspelled, trailer \in TrailerBytes}
  BY DEF Permitted, WithParameters, Joined, HashBytes, MaskBytes, DefaultUnspelled, TrailerBytes
<1>2. DefaultUnspelled \subseteq SaltBytes
  BY Zenon DEF DefaultUnspelled, SaltBytes
<1>3. \A a : a \in Permitted <=>
        \/ a = Der(OID, IdRsassaPss)
        \/ \E hash \in HashBytes, mgf \in MaskBytes, salt \in DefaultUnspelled,
              trailer \in TrailerBytes : a = WithParameters(Joined(hash, mgf, salt, trailer))
  <2> SUFFICES ASSUME NEW a
               PROVE  a \in Permitted <=>
                        \/ a = Der(OID, IdRsassaPss)
                        \/ \E hash \in HashBytes, mgf \in MaskBytes,
                              salt \in DefaultUnspelled, trailer \in TrailerBytes :
                              a = WithParameters(Joined(hash, mgf, salt, trailer))
    OBVIOUS
  <2> QED BY <1>1
<1>4. Permitted \subseteq PermittedAny
  <2> SUFFICES ASSUME NEW a \in Permitted PROVE a \in PermittedAny
    OBVIOUS
  <2>1. \/ a = Der(OID, IdRsassaPss)
        \/ \E hash \in HashBytes, mgf \in MaskBytes, salt \in SaltBytes,
              trailer \in TrailerBytes : a = WithParameters(Joined(hash, mgf, salt, trailer))
    BY <1>2, <1>3
  <2> QED BY <2>1 DEF PermittedAny
<1> QED BY <1>3, <1>4

\* Between the two sets lies only what spells out the default.
LEMMA DefaultSpelled ==
  ASSUME NEW a, a \in PermittedAny, a \notin Permitted
  PROVE  SpellsDefault(a)
<1>1. PICK hash \in HashBytes, mgf \in MaskBytes, salt \in SaltBytes, trailer \in TrailerBytes :
        a = WithParameters(Joined(hash, mgf, salt, trailer))
  BY PermittedJoined DEF PermittedAny
<1>2. PICK u : u = Der(INTEGER, <<20>>)
  OBVIOUS
<1>3. salt = Der(162, u)
  <2>1. salt \notin DefaultUnspelled
    BY <1>1, PermittedJoined
  <2>2. PICK n \in 0..32 : salt = Der(162, Der(INTEGER, <<n>>))
    BY <2>1 DEF SaltBytes, DefaultUnspelled
  <2>3. n = 20
    BY <2>1, <2>2 DEF DefaultUnspelled
  <2> QED BY <1>2, <2>2, <2>3
<1>4. PICK v, w : /\ PermittedParameter(Item(160, v)) /\ hash = Der(160, v)
                  /\ PermittedParameter(Item(161, w)) /\ mgf = Der(161, w)
  BY ParameterBytes
<1>5. PermittedParameter(Item(162, u))
  <2>1. PermittedSalt(u)
    <3>1. 20 \in 0..32
      OBVIOUS
    <3> QED BY <1>2, <3>1 DEF PermittedSalt
  <2>2. 162 # 160 /\ 162 # 161 /\ 162 # 163
    OBVIOUS
  <2>3. PICK q : q = Item(162, u)
    OBVIOUS
  <2>4. q.tag = 162 /\ q.value = u
    BY <2>3 DEF Item
  <2> QED BY <2>1, <2>2, <2>3, <2>4, ParameterTag DEF PermittedParameter
<1>6. PICK h, m, e : h = Item(160, v) /\ m = Item(161, w) /\ e = Item(162, u)
  OBVIOUS
<1>7. /\ Writes(hash, <<h>>) /\ Writes(mgf, <<m>>) /\ Writes(salt, <<e>>)
  BY <1>3, <1>4, <1>5, <1>6, ParameterWritten
<1>8. PICK t : Writes(trailer, t)
  <2>1. trailer = <<>> \/ \E y : PermittedParameter(Item(163, y)) /\ trailer = Der(163, y)
    BY ParameterBytes
  <2> QED BY <2>1, WritesNothing, ParameterWritten
<1>9. PICK x, g, f : /\ x = Joined(hash, mgf, salt, trailer)
                     /\ g = <<h>> \o <<m>> /\ f = <<e>>
  OBVIOUS
<1>10. Writes(x, (g \o f) \o t)
  BY <1>7, <1>8, <1>9, WritesJoin DEF Joined
<1>11. DerElements(x) = (g \o f) \o t
  BY <1>10, WritesRead
<1>12. e \in ToSet(DerElements(x))
  <2>1. Writes(hash \o mgf, g)
    BY <1>7, <1>9, WritesJoin
  <2>2. PICK E, l : E = Elements /\ l = Len(g)
    OBVIOUS
  <2>3. g \in Seq(E) /\ f \in Seq(E) /\ t \in Seq(E) /\ e \in E
    <3>1. 1 \in 1..Len(<<e>>) /\ <<e>>[1] = e
      OBVIOUS
    <3> QED BY <1>7, <1>8, <1>9, <2>1, <2>2, <3>1 DEF Writes
  <2>4. /\ g \o f \in Seq(E) /\ l + 1 \in 1..Len(g \o f) /\ (g \o f)[l + 1] = e
    BY <1>9, <2>2, <2>3
  <2>5. PICK k : k = g \o f
    OBVIOUS
  <2>6. k \o t \in Seq(E) /\ l + 1 \in DOMAIN (k \o t) /\ (k \o t)[l + 1] = e
    BY ONLY <2>3, <2>4, <2>5
  <2> QED BY <1>11, <2>5, <2>6 DEF ToSet
<1>13. PICK q, r : /\ q = Der(SEQUENCE, x) /\ r = Item(SEQUENCE, x) /\ r \in Elements
                   /\ Writes(q, <<r>>)
  <2>1. x \in ParametersBytes
    BY <1>9 DEF ParametersBytes
  <2>2. PICK list : Writes(x, list) /\ AtMost(x, 400) /\ PermittedList(list)
    BY <2>1, ParametersRead
  <2>3. AtMost(x, 400) /\ IsTag(SEQUENCE) /\ IsShort(400) /\ 404 = 400 + 4
    BY <2>2, Tags, ShortNumbers
  <2>4. Item(SEQUENCE, x) \in Elements /\ Writes(Der(SEQUENCE, x), <<Item(SEQUENCE, x)>>)
    BY ONLY <2>3, AtMostWritten
  <2> QED BY <2>4
<1>14. PICK p, o : p = Der(OID, IdRsassaPss) /\ Writes(p, <<o>>) /\ o \in Elements
  BY OidWritten
<1>15. a = p \o q
  BY <1>1, <1>9, <1>13, <1>14 DEF WithParameters
<1>16. Len(DerElements(a)) = 2 /\ DerElements(a)[2] = r
  BY <1>13, <1>14, <1>15, WritesTwo
<1>17. r.value = x /\ e = DefaultSaltLength
  BY <1>2, <1>6, <1>13 DEF Item, DefaultSaltLength
<1> QED BY <1>12, <1>16, <1>17 DEF SpellsDefault

\* Of a certificate that loads, a key that its owner restricted is used only when
\* its restrictions permit it and refused only when they do not (verify.py:79,
\* 248-295), for keys of every content and encoding.
THEOREM RestrictionsHold == Spec => []RestrictionsAreExact
<1>1. Permitted \subseteq PermittedAny
  BY PermittedJoined
<1>2. RulesInv /\ LoadedInv => RestrictionsAreExact
  <2> SUFFICES ASSUME RulesInv, LoadedInv, leaf.kind = "pss" PROVE RestrictionsAreExact
    BY DEF RestrictionsAreExact
  <2>1. ASSUME pc \in {"accepted", "invalid"} PROVE leaf.algorithm \in Permitted
    <3>1. leaf.algorithm \in PermittedAny
      BY <2>1 DEF RulesInv
    <3>2. ~SpellsDefault(leaf.algorithm)
      BY <2>1 DEF LoadedInv
    <3> QED BY <3>1, <3>2, DefaultSpelled
  <2>2. pc = "restricted" => leaf.algorithm \notin Permitted
    BY <1>1 DEF RulesInv
  <2> QED BY <2>1, <2>2 DEF RestrictionsAreExact
<1>3. Spec => []RulesInv
  BY RulesInvInit, RulesInvNext, PTL DEF Spec
<1> QED BY <1>2, <1>3, LoadedHolds, PTL
=============================================================================
