------------------------------ MODULE WireProofs -------------------------------
(***************************************************************************)
(* Theorems about Wire, for every message of the server and every edited   *)
(* file.  What the parser accepts is accounted for to the last byte;       *)
(* parse_server_hello stays inside the message it reads, and takes and     *)
(* reads what the parser of the proof takes and reads; a whole capture is  *)
(* refused only for what the server sent under encryption, and never for   *)
(* its scheme.                                                             *)
(***************************************************************************)
EXTENDS Wire, DataLemmas

-----------------------------------------------------------------------------
(* Single fields *)

\* Field says what reader.read leaves behind: r is where it ended, inside the
\* data exactly if it succeeded, and then bytes is what it consumed.
Field(data, at, r, bytes) ==
    /\ at \in Nat /\ r.at \in Nat /\ at <= r.at
    /\ r.ok <=> r.at <= Len(data)
    /\ r.ok => Covers(data, at, r.at, bytes) /\ r.value \in Seq(Byte)

\* A byte string is a sequence of the bytes of DataLemmas.
LEMMA BytesAreBytes == ByteStrings = Seq(Byte) /\ Base = 256 /\ Base \in Nat \ {0}
BY SizesAssumption DEF ByteStrings, Byte

\* A field of a fixed size.
LEMMA ReadIsField ==
  ASSUME NEW data \in Seq(Byte), NEW at \in Nat, NEW size \in Nat
  PROVE  /\ Field(data, at, Read(data, at, size), Read(data, at, size).value)
         /\ Read(data, at, size).ok => Len(Read(data, at, size).value) = size
<1> DEFINE r == Read(data, at, size)
<1>1. /\ r.ok <=> at + size <= Len(data)
      /\ r.value = Slice(data, at, at + size)
      /\ r.at = at + size
  BY DEF Read
<1>2. PICK to : to = at + size
  OBVIOUS
<1>3. to \in Nat /\ at <= to /\ to - at = size
  BY <1>2
<1>4. ASSUME to <= Len(data)
      PROVE  Covers(data, at, to, Slice(data, at, to)) /\ Len(Slice(data, at, to)) = size
  BY <1>3, <1>4, SliceCovers
<1>5. to <= Len(data) => Slice(data, at, to) \in Seq(Byte)
  BY <1>4 DEF Covers
<1>6. Field(data, at, r, r.value)
  <2> HIDE DEF r
  <2> QED BY <1>1, <1>2, <1>3, <1>4, <1>5 DEF Field
<1>7. r.ok => Len(r.value) = size
  <2> HIDE DEF r
  <2> QED BY <1>1, <1>2, <1>4
<1> QED BY <1>6, <1>7

\* A field after its length.
LEMMA VectorIsField ==
  ASSUME NEW data \in Seq(Byte), NEW at \in Nat, NEW width \in Nat
  PROVE  /\ Field(data, at, ReadVector(data, at, width),
                  Vector(width, ReadVector(data, at, width).value))
         /\ at + width <= ReadVector(data, at, width).at
<1> DEFINE length == Read(data, at, width)
           size == Number(length.value)
           r == Read(data, length.at, size)
<1>1. /\ Field(data, at, length, length.value)
      /\ length.ok => Len(length.value) = width
      /\ length.at = at + width
  <2>1. length.at = at + width
    BY DEF Read
  <2> QED BY <2>1, ReadIsField
<1>2. CASE length.ok
  <2> HIDE DEF length
  <2>1. length.value \in Seq(Byte) /\ length.at \in Nat
    BY <1>1, <1>2 DEF Field
  <2>2. size \in Nat
    BY <2>1, NumberIsNat
  <2> HIDE DEF size
  <2>3. Field(data, length.at, r, r.value) /\ (r.ok => Len(r.value) = size)
    BY <2>1, <2>2, ReadIsField
  <2>4. r.ok => Vector(width, r.value) = length.value \o r.value
    <3>1. Digits(Len(length.value), Number(length.value)) = length.value
      BY <2>1, DigitsOfNumber
    <3>2. Digits(width, size) = length.value
      BY <1>1, <1>2, <3>1 DEF size
    <3> HIDE DEF r
    <3> QED BY <2>3, <3>2 DEF Vector
  <2>5. ReadVector(data, at, width) = r
    BY <1>2 DEF ReadVector, size, length
  <2> HIDE DEF r
  <2>6. r.ok => Covers(data, at, r.at, length.value \o r.value)
    <3> SUFFICES ASSUME r.ok PROVE Covers(data, at, r.at, length.value \o r.value)
      OBVIOUS
    <3>1. Covers(data, at, length.at, length.value) /\ Covers(data, length.at, r.at, r.value)
      BY <1>1, <1>2, <2>3 DEF Field
    <3> QED BY <3>1, CoversJoin
  <2>7. Field(data, at, r, Vector(width, r.value))
    <3>1. /\ at \in Nat /\ length.at \in Nat /\ r.at \in Nat /\ at <= length.at
          /\ length.at <= r.at /\ (r.ok <=> r.at <= Len(data))
          /\ (r.ok => r.value \in Seq(Byte))
      BY <1>1, <2>3 DEF Field
    <3>2. r.ok => Covers(data, at, r.at, Vector(width, r.value))
      BY <2>4, <2>6
    <3>3. at <= r.at
      BY <3>1
    <3> QED BY <3>1, <3>2, <3>3 DEF Field
  <2>8. at + width <= r.at
    BY <1>1, <2>3 DEF Field
  <2> QED BY <2>5, <2>7, <2>8
<1>3. CASE ~length.ok
  <2>1. ReadVector(data, at, width) = length
    BY <1>3 DEF ReadVector
  <2> HIDE DEF length
  <2>2. Field(data, at, length, Vector(width, length.value))
    BY <1>1, <1>3 DEF Field
  <2>3. at + width <= length.at
    BY <1>1 DEF Field
  <2> QED BY <2>1, <2>2, <2>3
<1> QED BY <1>2, <1>3

\* One field after the other: the second succeeds only if the first did.
LEMMA FieldNext ==
  ASSUME NEW data \in Seq(Byte), NEW a, NEW r, NEW s, NEW x, NEW y,
         Field(data, a, r, x), Field(data, r.at, s, y)
  PROVE  Field(data, a, s, x \o y) /\ (s.ok => r.ok)
<1>1. /\ a \in Nat /\ r.at \in Nat /\ s.at \in Nat /\ a <= r.at /\ r.at <= s.at
      /\ r.ok <=> r.at <= Len(data)
      /\ s.ok <=> s.at <= Len(data)
      /\ s.ok => s.value \in Seq(Byte)
  BY DEF Field
<1>2. Len(data) \in Nat
  OBVIOUS
<1>3. a <= s.at /\ (s.ok => r.ok)
  BY <1>1, <1>2
<1>4. ASSUME s.ok PROVE Covers(data, a, s.at, x \o y)
  <2>1. Covers(data, a, r.at, x) /\ Covers(data, r.at, s.at, y)
    BY <1>3, <1>4 DEF Field
  <2> QED BY <2>1, CoversJoin
<1> QED BY <1>1, <1>3, <1>4 DEF Field

\* s is a byte string, after a field r that succeeded if s did.
Typed(r, s) == s.ok => r.ok /\ s.value \in Seq(Byte)
\* The same, of n bytes.
Sized(r, s, n) == s.ok => r.ok /\ s.value \in Seq(Byte) /\ Len(s.value) = n

\* A field of a fixed size after another field.
LEMMA ReadAfter ==
  ASSUME NEW data \in Seq(Byte), NEW a, NEW r, NEW x, Field(data, a, r, x),
         NEW size \in Nat, NEW s, s = Read(data, r.at, size)
  PROVE  Field(data, a, s, x \o s.value) /\ Sized(r, s, size)
<1>1. r.at \in Nat
  BY DEF Field
<1>2. Field(data, r.at, s, s.value) /\ (s.ok => Len(s.value) = size)
  BY <1>1, ReadIsField
<1>3. s.ok => s.value \in Seq(Byte)
  BY <1>2 DEF Field
<1>4. Field(data, a, s, x \o s.value) /\ (s.ok => r.ok)
  BY <1>2, FieldNext
<1> QED BY <1>2, <1>3, <1>4 DEF Sized

\* A vector after another field.
LEMMA VectorAfter ==
  ASSUME NEW data \in Seq(Byte), NEW a, NEW r, NEW x, Field(data, a, r, x),
         NEW width \in Nat, NEW s, s = ReadVector(data, r.at, width)
  PROVE  Field(data, a, s, x \o Vector(width, s.value)) /\ Typed(r, s)
<1>1. r.at \in Nat
  BY DEF Field
<1>2. Field(data, r.at, s, Vector(width, s.value))
  BY <1>1, VectorIsField
<1>3. s.ok => s.value \in Seq(Byte)
  BY <1>2 DEF Field
<1>4. Field(data, a, s, x \o Vector(width, s.value)) /\ (s.ok => r.ok)
  BY <1>2, FieldNext
<1> QED BY <1>2, <1>3, <1>4 DEF Typed

\* The first field of the data.
LEMMA ReadFirst ==
  ASSUME NEW data \in Seq(Byte), NEW size \in Nat, NEW s, s = Read(data, 0, size)
  PROVE  Field(data, 0, s, s.value) /\ Sized(s, s, size)
<1>1. Field(data, 0, s, s.value) /\ (s.ok => Len(s.value) = size)
  BY ReadIsField
<1> QED BY <1>1 DEF Field, Sized

\* The same for a vector.
LEMMA VectorFirst ==
  ASSUME NEW data \in Seq(Byte), NEW width \in Nat, NEW s, s = ReadVector(data, 0, width)
  PROVE  Field(data, 0, s, Vector(width, s.value)) /\ Typed(s, s)
<1>1. Field(data, 0, s, Vector(width, s.value))
  BY VectorIsField
<1> QED BY <1>1 DEF Field, Typed

\* When the last field was all there was left, the fields are the data.
LEMMA AllRead ==
  ASSUME NEW data \in Seq(Byte), NEW r, NEW bytes, Field(data, 0, r, bytes),
         IsAllRead(r, data)
  PROVE  bytes = data /\ r.ok
<1>1. r.ok /\ Covers(data, 0, Len(data), bytes)
  BY DEF IsAllRead, Field
<1> QED BY <1>1, CoversAll

\* Three byte strings in a row.
LEMMA ThreeBytes ==
  ASSUME NEW x \in Seq(Byte), NEW y \in Seq(Byte), NEW z \in Seq(Byte)
  PROVE  (x \o y) \o z = x \o (y \o z)
BY ConcatTwice

\* Two bytes hold the number they were read as.
LEMMA TwoBytes ==
  ASSUME NEW x \in Seq(Byte), Len(x) = 2
  PROVE  Digits(2, Number(x)) = x
<1>1. Digits(Len(x), Number(x)) = x
  BY DigitsOfNumber
<1> QED BY <1>1

-----------------------------------------------------------------------------
(* Lists of extensions and of key shares *)

\* One entry of such a list: its tag and its data.
TagRead(encoded, p) == Read(encoded, p, 2)
DataRead(encoded, p) == ReadVector(encoded, TagRead(encoded, p).at, 2)
Entry(encoded, p) ==
    [type |-> Number(TagRead(encoded, p).value), data |-> DataRead(encoded, p).value]
EntrySet == [type : Nat, data : Seq(Byte)]

\* An entry covers its tag and the vector after it.
LEMMA EntryIsField ==
  ASSUME NEW encoded \in Seq(Byte), NEW p \in Nat
  PROVE  /\ Field(encoded, p, DataRead(encoded, p),
                  Extension(Entry(encoded, p).type, Entry(encoded, p).data))
         /\ p + 2 <= DataRead(encoded, p).at
         /\ DataRead(encoded, p).ok => Entry(encoded, p) \in EntrySet
<1> DEFINE tag == TagRead(encoded, p)
           data == DataRead(encoded, p)
<1>1. /\ Field(encoded, p, tag, tag.value) /\ tag.at = p + 2
      /\ tag.ok => Len(tag.value) = 2
  <2>1. Field(encoded, p, tag, tag.value) /\ (tag.ok => Len(tag.value) = 2)
    BY ReadIsField DEF TagRead
  <2>2. tag.at = p + 2
    BY DEF TagRead, Read
  <2> QED BY <2>1, <2>2
<1>2. Field(encoded, tag.at, data, Vector(2, data.value))
  <2>1. tag.at \in Nat
    BY <1>1
  <2> HIDE DEF tag
  <2>2. Field(encoded, tag.at, ReadVector(encoded, tag.at, 2),
              Vector(2, ReadVector(encoded, tag.at, 2).value))
    BY <2>1, VectorIsField
  <2> QED BY <2>2 DEF DataRead, tag
<1>3. Field(encoded, p, data, tag.value \o Vector(2, data.value)) /\ (data.ok => tag.ok)
  <2> HIDE DEF tag, data
  <2> QED BY <1>1, <1>2, FieldNext
<1>4. data.ok => /\ Digits(2, Number(tag.value)) = tag.value
                 /\ Number(tag.value) \in Nat /\ data.value \in Seq(Byte)
  <2> HIDE DEF tag, data
  <2> SUFFICES ASSUME data.ok
               PROVE  /\ Digits(2, Number(tag.value)) = tag.value
                      /\ Number(tag.value) \in Nat /\ data.value \in Seq(Byte)
    OBVIOUS
  <2>1. tag.value \in Seq(Byte) /\ Len(tag.value) = 2
    BY <1>1, <1>3 DEF Field
  <2>2. Digits(Len(tag.value), Number(tag.value)) = tag.value
    BY <2>1, DigitsOfNumber
  <2> QED BY <1>3, <2>1, <2>2, NumberIsNat DEF Field
<1>5. Entry(encoded, p).type = Number(tag.value) /\ Entry(encoded, p).data = data.value
  BY DEF Entry
<1>6. data.ok => Extension(Number(tag.value), data.value) = tag.value \o Vector(2, data.value)
  <2> HIDE DEF tag, data
  <2> QED BY <1>4 DEF Extension
<1>7. Field(encoded, p, data, Extension(Number(tag.value), data.value))
  <2> HIDE DEF tag, data
  <2> QED BY <1>3, <1>6 DEF Field
<1>8. p + 2 <= data.at
  <2> HIDE DEF tag, data
  <2> QED BY <1>1, <1>2 DEF Field
<1>9. data.ok => Entry(encoded, p) \in EntrySet
  BY <1>4 DEF Entry, EntrySet
<1> QED BY <1>5, <1>7, <1>8, <1>9

\* Where the loop stops, and what it finds elsewhere.
Stops(encoded) == {p \in 0..Len(encoded) : p = Len(encoded) \/ ~DataRead(encoded, p).ok}
Items(encoded) == [p \in 0..Len(encoded) |-> Entry(encoded, p)]
Nexts(encoded) == [p \in 0..Len(encoded) |-> DataRead(encoded, p).at]
Pieces(encoded) ==
    [p \in 0..Len(encoded) |-> Extension(Entry(encoded, p).type, Entry(encoded, p).data)]

\* It is a reader in the sense of DataLemmas.
LEMMA EntriesReader ==
  ASSUME NEW encoded \in Seq(Byte)
  PROVE  Reader(encoded, EntrySet, Stops(encoded), Ends(Len(encoded), Broken),
                Items(encoded), Nexts(encoded), Pieces(encoded))
<1> DEFINE n == Len(encoded)
<1>1. n \in Nat
  OBVIOUS
<1>2. ASSUME NEW p \in (0..n) \ Stops(encoded)
      PROVE  /\ Nexts(encoded)[p] \in (p + 1)..n
             /\ Items(encoded)[p] \in EntrySet
             /\ Covers(encoded, p, Nexts(encoded)[p], Pieces(encoded)[p])
  <2> DEFINE data == DataRead(encoded, p)
             piece == Extension(Entry(encoded, p).type, Entry(encoded, p).data)
  <2>1. p \in 0..n /\ p \in Nat /\ data.ok
    BY <1>1 DEF Stops
  <2>2. /\ Field(encoded, p, data, piece)
        /\ p + 2 <= data.at /\ Entry(encoded, p) \in EntrySet
    BY <2>1, EntryIsField
  <2>3. /\ Nexts(encoded)[p] = data.at /\ Items(encoded)[p] = Entry(encoded, p)
        /\ Pieces(encoded)[p] = piece
    BY <2>1 DEF Nexts, Items, Pieces
  <2> HIDE DEF data, piece
  <2>4. Covers(encoded, p, data.at, piece) /\ data.at \in Nat /\ data.at <= n
    BY <2>1, <2>2 DEF Field
  <2> QED BY <1>1, <2>1, <2>2, <2>3, <2>4
<1>3. WalksIn(n, Stops(encoded), Nexts(encoded))
  BY <1>2 DEF WalksIn, Stops
<1>4. ASSUME NEW p \in Stops(encoded) PROVE Ends(n, Broken)[p] \in Seq(EntrySet)
  <2>1. Broken \in EntrySet
    <3>1. Base * Base \in Nat
      BY BytesAreBytes
    <3> QED BY <3>1 DEF Broken, EntrySet
  <2>2. PICK x : x = Broken
    OBVIOUS
  <2>3. <<x>> \in Seq(EntrySet) /\ <<>> \in Seq(EntrySet) /\ p \in 0..n
    BY <2>1, <2>2 DEF Stops
  <2> QED BY <2>2, <2>3 DEF Ends
<1> QED BY <1>2, <1>3, <1>4 DEF Reader

\* What Entries computes.
LEMMA EntriesWalk ==
  ASSUME NEW encoded \in Seq(Byte)
  PROVE  \E c : /\ Walked(c, Len(encoded), Stops(encoded), Ends(Len(encoded), Broken),
                          Items(encoded), Nexts(encoded))
                /\ Entries(encoded) = c[0]
<1> DEFINE n == Len(encoded)
           Is(f) == Walked(f, n, Stops(encoded), Ends(n, Broken), Items(encoded),
                           Nexts(encoded))
           Walk(f) == f = [p \in 0..n |->
                              IF p = n THEN <<>>
                              ELSE IF ~DataRead(encoded, p).ok THEN <<Broken>>
                              ELSE <<Entry(encoded, p)>> \o f[DataRead(encoded, p).at]]
<1>1. n \in Nat
  OBVIOUS
<1>2. \E f : Is(f)
  <2>1. WalksIn(n, Stops(encoded), Nexts(encoded))
    BY EntriesReader DEF Reader
  <2> HIDE DEF n
  <2> QED BY <1>1, <2>1, WalkRecursion
<1>3. ASSUME NEW f PROVE Is(f) <=> Walk(f)
  <2>1. \A p \in 0..n :
          (IF p \in Stops(encoded) THEN Ends(n, Broken)[p]
           ELSE <<Items(encoded)[p]>> \o f[Nexts(encoded)[p]])
            = IF p = n THEN <<>>
              ELSE IF ~DataRead(encoded, p).ok THEN <<Broken>>
              ELSE <<Entry(encoded, p)>> \o f[DataRead(encoded, p).at]
    BY DEF Stops, Ends, Items, Nexts
  <2> QED BY <2>1 DEF Walked
<1> DEFINE c == CHOOSE f : Walk(f)
<1>4. Walk(c)
  <2>1. \E f : Walk(f)
    <3> HIDE DEF Is, Walk
    <3> QED BY <1>2, <1>3
  <2> HIDE DEF Walk
  <2> QED BY <2>1
<1>5. Entries(encoded) = c[0]
  BY DEF Entries, DataRead, TagRead, Entry
<1> HIDE DEF c, Walk, Is
<1>6. Is(c)
  BY <1>3, <1>4
<1> QED BY <1>5, <1>6 DEF Is

\* Entries that were read to the end, written again, are the bytes they were
\* read from.
LEMMA EntriesExact ==
  ASSUME NEW encoded \in Seq(Byte), Broken \notin ToSet(Entries(encoded))
  PROVE  Entries(encoded) \in Seq(EntrySet) /\ Extensions(Entries(encoded)) = encoded
<1>1. PICK c : /\ Walked(c, Len(encoded), Stops(encoded), Ends(Len(encoded), Broken),
                         Items(encoded), Nexts(encoded))
               /\ Entries(encoded) = c[0]
  BY EntriesWalk
<1>2. Broken \notin ToSet(c[0])
  BY <1>1
<1>3. PICK path : ReadAll(encoded, Stops(encoded), Items(encoded), Pieces(encoded), path, c[0])
  BY <1>1, <1>2, EntriesReader, ReadToEnd
<1> DEFINE P == (0..Len(encoded)) \ Stops(encoded)
           e == Along(Items(encoded), path)
<1>4. path \in Seq(P) /\ c[0] = e /\ encoded = FlattenSeq(Along(Pieces(encoded), path))
  BY <1>3 DEF ReadAll
<1>5. [i \in DOMAIN e |-> Extension(e[i].type, e[i].data)] = Along(Pieces(encoded), path)
  <2>1. \A i \in 1..Len(path) : path[i] \in 0..Len(encoded)
    BY <1>4
  <2>2. \A i \in 1..Len(path) :
           Extension(Items(encoded)[path[i]].type, Items(encoded)[path[i]].data)
             = Pieces(encoded)[path[i]]
    BY <2>1 DEF Items, Pieces
  <2>3. DOMAIN e = 1..Len(path) /\ \A i \in 1..Len(path) : e[i] = Items(encoded)[path[i]]
    BY DEF Along
  <2> HIDE DEF e
  <2>4. [i \in DOMAIN e |-> Extension(e[i].type, e[i].data)]
          = [i \in 1..Len(path) |-> Pieces(encoded)[path[i]]]
    BY <2>2, <2>3
  <2> QED BY <2>4 DEF Along
<1>6. e \in Seq(EntrySet)
  <2>1. Takes(Items(encoded), P, EntrySet)
    BY EntriesReader DEF Reader, Takes
  <2> HIDE DEF P
  <2> QED BY <1>4, <2>1, AlongShape
<1> QED BY <1>1, <1>4, <1>5, <1>6 DEF Extensions

-----------------------------------------------------------------------------
(* The certificate list *)

\* One entry: a certificate and its extensions.
CertificateRead(list, p) == ReadVector(list, p, 3)
ExtensionsRead(list, p) == ReadVector(list, CertificateRead(list, p).at, 2)
Link(list, p) ==
    [data |-> CertificateRead(list, p).value, extensions |-> ExtensionsRead(list, p).value]
LinkBytes(link) == Vector(3, link.data) \o Vector(2, link.extensions)
LinkSet == [data : Seq(Byte), extensions : Seq(Byte)]

\* An entry covers its two vectors.
LEMMA LinkIsField ==
  ASSUME NEW list \in Seq(Byte), NEW p \in Nat
  PROVE  /\ Field(list, p, ExtensionsRead(list, p), LinkBytes(Link(list, p)))
         /\ p + 3 <= ExtensionsRead(list, p).at
         /\ ExtensionsRead(list, p).ok => Link(list, p) \in LinkSet
<1> DEFINE certificate == CertificateRead(list, p)
           extensions == ExtensionsRead(list, p)
<1>1. Field(list, p, certificate, Vector(3, certificate.value)) /\ p + 3 <= certificate.at
  BY VectorIsField DEF CertificateRead
<1>2. Field(list, certificate.at, extensions, Vector(2, extensions.value))
  <2>1. certificate.at \in Nat
    BY <1>1 DEF Field
  <2> HIDE DEF certificate
  <2>2. Field(list, certificate.at, ReadVector(list, certificate.at, 2),
              Vector(2, ReadVector(list, certificate.at, 2).value))
    BY <2>1, VectorIsField
  <2> QED BY <2>2 DEF ExtensionsRead, certificate
<1>3. /\ Field(list, p, extensions, Vector(3, certificate.value) \o Vector(2, extensions.value))
      /\ extensions.ok => certificate.ok
  <2> HIDE DEF certificate, extensions
  <2> QED BY <1>1, <1>2, FieldNext
<1>4. LinkBytes(Link(list, p)) = Vector(3, certificate.value) \o Vector(2, extensions.value)
  BY DEF LinkBytes, Link
<1>5. p + 3 <= extensions.at
  <2> HIDE DEF certificate, extensions
  <2> QED BY <1>1, <1>2 DEF Field
<1>6. extensions.ok => certificate.value \in Seq(Byte) /\ extensions.value \in Seq(Byte)
  <2> HIDE DEF certificate, extensions
  <2> QED BY <1>1, <1>2, <1>3 DEF Field
<1>7. extensions.ok => Link(list, p) \in LinkSet
  BY <1>6 DEF Link, LinkSet
<1> QED BY <1>3, <1>4, <1>5, <1>7

\* Where the loop stops, and what it finds elsewhere.
ChainStops(list) == {p \in 0..Len(list) : p = Len(list) \/ ~ExtensionsRead(list, p).ok}
Links(list) == [p \in 0..Len(list) |-> Link(list, p)]
ChainNexts(list) == [p \in 0..Len(list) |-> ExtensionsRead(list, p).at]
ChainPieces(list) == [p \in 0..Len(list) |-> LinkBytes(Link(list, p))]

\* It is a reader in the sense of DataLemmas.
LEMMA ChainReader ==
  ASSUME NEW list \in Seq(Byte)
  PROVE  Reader(list, LinkSet \cup {Broken}, ChainStops(list), Ends(Len(list), Broken),
                Links(list), ChainNexts(list), ChainPieces(list))
<1> DEFINE n == Len(list)
<1>1. n \in Nat
  OBVIOUS
<1>2. ASSUME NEW p \in (0..n) \ ChainStops(list)
      PROVE  /\ ChainNexts(list)[p] \in (p + 1)..n
             /\ Links(list)[p] \in LinkSet
             /\ Covers(list, p, ChainNexts(list)[p], ChainPieces(list)[p])
  <2> DEFINE extensions == ExtensionsRead(list, p)
             piece == LinkBytes(Link(list, p))
  <2>1. p \in 0..n /\ p \in Nat /\ extensions.ok
    BY <1>1 DEF ChainStops
  <2>2. /\ Field(list, p, extensions, piece)
        /\ p + 3 <= extensions.at /\ Link(list, p) \in LinkSet
    BY <2>1, LinkIsField
  <2>3. /\ ChainNexts(list)[p] = extensions.at /\ Links(list)[p] = Link(list, p)
        /\ ChainPieces(list)[p] = piece
    BY <2>1 DEF ChainNexts, Links, ChainPieces
  <2> HIDE DEF extensions, piece
  <2>4. Covers(list, p, extensions.at, piece) /\ extensions.at \in Nat /\ extensions.at <= n
    BY <2>1, <2>2 DEF Field
  <2> QED BY <1>1, <2>1, <2>2, <2>3, <2>4
<1>3. WalksIn(n, ChainStops(list), ChainNexts(list))
  BY <1>2 DEF WalksIn, ChainStops
<1>4. ASSUME NEW p \in ChainStops(list)
      PROVE  Ends(n, Broken)[p] \in Seq(LinkSet \cup {Broken})
  <2>1. PICK x : x = Broken
    OBVIOUS
  <2>2. /\ <<x>> \in Seq(LinkSet \cup {x}) /\ <<>> \in Seq(LinkSet \cup {x})
        /\ p \in 0..n
    BY DEF ChainStops
  <2> QED BY <2>1, <2>2 DEF Ends
<1> QED BY <1>2, <1>3, <1>4 DEF Reader

\* What Chain computes.
LEMMA ChainWalk ==
  ASSUME NEW list \in Seq(Byte)
  PROVE  \E c : /\ Walked(c, Len(list), ChainStops(list), Ends(Len(list), Broken),
                          Links(list), ChainNexts(list))
                /\ Chain(list) = c[0]
<1> DEFINE n == Len(list)
           Is(f) == Walked(f, n, ChainStops(list), Ends(n, Broken), Links(list),
                           ChainNexts(list))
           Walk(f) == f = [p \in 0..n |->
                              IF p = n THEN <<>>
                              ELSE IF ~ExtensionsRead(list, p).ok THEN <<Broken>>
                              ELSE <<Link(list, p)>> \o f[ExtensionsRead(list, p).at]]
<1>1. n \in Nat
  OBVIOUS
<1>2. \E f : Is(f)
  <2>1. WalksIn(n, ChainStops(list), ChainNexts(list))
    BY ChainReader DEF Reader
  <2> HIDE DEF n
  <2> QED BY <1>1, <2>1, WalkRecursion
<1>3. ASSUME NEW f PROVE Is(f) <=> Walk(f)
  <2>1. \A p \in 0..n :
          (IF p \in ChainStops(list) THEN Ends(n, Broken)[p]
           ELSE <<Links(list)[p]>> \o f[ChainNexts(list)[p]])
            = IF p = n THEN <<>>
              ELSE IF ~ExtensionsRead(list, p).ok THEN <<Broken>>
              ELSE <<Link(list, p)>> \o f[ExtensionsRead(list, p).at]
    BY DEF ChainStops, Ends, Links, ChainNexts
  <2> QED BY <2>1 DEF Walked
<1> DEFINE c == CHOOSE f : Walk(f)
<1>4. Walk(c)
  <2>1. \E f : Walk(f)
    <3> HIDE DEF Is, Walk
    <3> QED BY <1>2, <1>3
  <2> HIDE DEF Walk
  <2> QED BY <2>1
<1>5. Chain(list) = c[0]
  BY DEF Chain, ExtensionsRead, CertificateRead, Link
<1> HIDE DEF c, Walk, Is
<1>6. Is(c)
  BY <1>3, <1>4
<1> QED BY <1>5, <1>6 DEF Is

\* A certificate list that was read to the end, written again, is the bytes it
\* was read from.
LEMMA ChainExact ==
  ASSUME NEW list \in Seq(Byte), Broken \notin ToSet(Chain(list))
  PROVE  Certificates(Chain(list)) = list
<1>1. PICK c : /\ Walked(c, Len(list), ChainStops(list), Ends(Len(list), Broken),
                         Links(list), ChainNexts(list))
               /\ Chain(list) = c[0]
  BY ChainWalk
<1>2. Broken \notin ToSet(c[0])
  BY <1>1
<1>3. PICK path : ReadAll(list, ChainStops(list), Links(list), ChainPieces(list), path, c[0])
  BY <1>1, <1>2, ChainReader, ReadToEnd
<1> DEFINE e == Along(Links(list), path)
<1>4. /\ path \in Seq((0..Len(list)) \ ChainStops(list))
      /\ c[0] = e /\ list = FlattenSeq(Along(ChainPieces(list), path))
  BY <1>3 DEF ReadAll
<1>5. [i \in DOMAIN e |-> Vector(3, e[i].data) \o Vector(2, e[i].extensions)]
        = Along(ChainPieces(list), path)
  <2>1. \A i \in 1..Len(path) : path[i] \in 0..Len(list)
    BY <1>4
  <2>2. \A i \in 1..Len(path) :
           Vector(3, Links(list)[path[i]].data) \o Vector(2, Links(list)[path[i]].extensions)
             = ChainPieces(list)[path[i]]
    BY <2>1 DEF Links, ChainPieces, LinkBytes
  <2>3. DOMAIN e = 1..Len(path) /\ \A i \in 1..Len(path) : e[i] = Links(list)[path[i]]
    BY DEF Along
  <2> HIDE DEF e
  <2>4. [i \in DOMAIN e |-> Vector(3, e[i].data) \o Vector(2, e[i].extensions)]
          = [i \in 1..Len(path) |-> ChainPieces(list)[path[i]]]
    BY <2>2, <2>3
  <2> QED BY <2>4 DEF Along
<1> QED BY <1>1, <1>4, <1>5 DEF Certificates

-----------------------------------------------------------------------------
(* Lists of numbers *)

\* Numbers of two bytes, written again, are the bytes they were read from.
LEMMA ShortsExact ==
  ASSUME NEW encoded \in Seq(Byte), Len(encoded) % 2 = 0
  PROVE  Shorts(NumbersOf(encoded)) = encoded
<1> DEFINE n == Len(encoded)
           k == n \div 2
           pair(i) == Slice(encoded, 2 * i - 2, 2 * i)
           m == [i \in 1..k |-> pair(i)]
           T == {j \in 0..k : FlatPrefix(m, j) = Slice(encoded, 0, 2 * j)}
<1>1. n \in Nat /\ k \in Nat /\ 2 * k = n
  OBVIOUS
<1>2. ASSUME NEW i \in 1..k
      PROVE  pair(i) \in Seq(Byte) /\ Len(pair(i)) = 2 /\ Digits(2, Number(pair(i))) = pair(i)
  <2>1. PICK a, b : a = 2 * i - 2 /\ b = 2 * i
    OBVIOUS
  <2> HIDE DEF k
  <2>2. a \in Nat /\ b \in Nat /\ a <= b /\ b <= Len(encoded) /\ b - a = 2
    BY <1>1, <2>1
  <2>3. Slice(encoded, a, b) \in Seq(Byte) /\ Len(Slice(encoded, a, b)) = b - a
    BY <2>2, SliceShape
  <2>4. pair(i) \in Seq(Byte) /\ Len(pair(i)) = 2
    BY <2>1, <2>2, <2>3
  <2> HIDE DEF pair
  <2>5. Digits(Len(pair(i)), Number(pair(i))) = pair(i)
    BY <2>4, DigitsOfNumber
  <2> QED BY <2>4, <2>5
<1>3. 0 \in T
  <2>1. FlatPrefix(m, 0) = <<>>
    BY FlatPrefixEmpty
  <2>2. Slice(encoded, 0, 0) = <<>>
    BY SliceEmpty
  <2>3. 2 * 0 = 0 /\ 0 \in 0..k
    BY <1>1
  <2> HIDE DEF m, k
  <2> QED BY <2>1, <2>2, <2>3
<1>4. ASSUME NEW j \in 0..(k - 1), j \in T PROVE j + 1 \in T
  <2> HIDE DEF k
  <2>1. j \in Nat /\ j + 1 \in 1..k /\ j + 1 \in 0..k
    BY <1>1
  <2>2. \A i \in 1..(j + 1) : m[i] \in Seq(Byte)
    BY <1>1, <1>2, <2>1
  <2>3. FlatPrefix(m, j + 1) = FlatPrefix(m, j) \o m[j + 1]
    <3> HIDE DEF m
    <3> QED BY <2>1, <2>2, FlatPrefixNext
  <2>4. m[j + 1] = Slice(encoded, 2 * (j + 1) - 2, 2 * (j + 1))
    BY <2>1
  <2>5. PICK a, b : a = 2 * j /\ b = 2 * (j + 1)
    OBVIOUS
  <2>6. a \in Nat /\ b \in Nat /\ a <= b /\ b <= Len(encoded) /\ 2 * (j + 1) - 2 = a
    BY <1>1, <2>1, <2>5
  <2>7. Slice(encoded, 0, a) \o Slice(encoded, a, b) = Slice(encoded, 0, b)
    BY <2>6, SliceJoin
  <2>8. FlatPrefix(m, j) = Slice(encoded, 0, a)
    BY <1>4, <2>5
  <2>9. FlatPrefix(m, j + 1) = Slice(encoded, 0, 2 * (j + 1))
    <3> HIDE DEF m
    <3> QED BY <2>3, <2>4, <2>5, <2>6, <2>7, <2>8
  <2> HIDE DEF m
  <2> QED BY <2>1, <2>9
<1>5. k \in T
  <2> HIDE DEF T, k
  <2>1. 0 \in Int /\ k \in Int
    BY <1>1
  <2>2. 0..k \subseteq T
    BY <1>3, <1>4, <2>1, IntervalInduction
  <2> QED BY <1>1, <2>2
<1>6. FlatPrefix(m, k) = encoded
  <2>1. FlatPrefix(m, k) = Slice(encoded, 0, 2 * k)
    BY <1>5
  <2>2. Slice(encoded, 0, n) = encoded
    BY SliceWhole
  <2> HIDE DEF m, k, n
  <2> QED BY <1>1, <2>1, <2>2
<1>7. Shorts(NumbersOf(encoded)) = FlattenSeq([i \in 1..k |-> Digits(2, Number(pair(i)))])
  BY DEF Shorts, NumbersOf
<1>8. [i \in 1..k |-> Digits(2, Number(pair(i)))] = [i \in 1..k |-> m[i]]
  <2> HIDE DEF pair, k
  <2> QED BY <1>2
<1> HIDE DEF m, k, pair
<1> QED BY <1>6, <1>7, <1>8 DEF FlatPrefix

-----------------------------------------------------------------------------
(* Extensions whose data is written anew *)

\* In a list without a tag twice, the data of a tag is that of its entry.
LEMMA DataOfEntry ==
  ASSUME NEW entries \in Seq(EntrySet), IsList(entries), NEW i \in DOMAIN entries
  PROVE  Data(entries, entries[i].type) = entries[i].data
<1> DEFINE type == entries[i].type
           e == CHOOSE e \in ToSet(entries) : e.type = type
<1>1. entries[i] \in ToSet(entries) /\ type \in Types(entries)
  BY DEF ToSet, Types
<1>2. e \in ToSet(entries) /\ e.type = type
  BY <1>1
<1>3. PICK j \in DOMAIN entries : e = entries[j]
  BY <1>2 DEF ToSet
<1>4. j = i
  BY <1>2, <1>3 DEF IsList
<1> QED BY <1>1, <1>3, <1>4 DEF Data

\* The data of a tag is a byte string.
LEMMA DataIsBytes ==
  ASSUME NEW entries \in Seq(EntrySet), IsList(entries), NEW type
  PROVE  Data(entries, type) \in Seq(Byte)
<1>1. CASE type \in Types(entries)
  <2>1. PICK i \in DOMAIN entries : entries[i].type = type
    BY <1>1 DEF Types
  <2>2. entries[i] \in EntrySet
    OBVIOUS
  <2>3. entries[i].data \in Seq(Byte)
    BY <2>2 DEF EntrySet
  <2> QED BY <2>1, <2>3, DataOfEntry
<1>2. CASE type \notin Types(entries)
  BY <1>2 DEF Data
<1> QED BY <1>1, <1>2

\* To write the same data again changes nothing.
LEMMA RewrittenSame ==
  ASSUME NEW entries \in Seq(EntrySet), IsList(entries), NEW values,
         \A type \in DOMAIN values \cap Types(entries) : values[type] = Data(entries, type)
  PROVE  Rewritten(entries, values) = entries
<1> DEFINE new(i) == IF entries[i].type \in DOMAIN values
                     THEN [entries[i] EXCEPT !.data = values[entries[i].type]]
                     ELSE entries[i]
<1>1. ASSUME NEW i \in DOMAIN entries PROVE new(i) = entries[i]
  <2>1. entries[i] \in EntrySet /\ entries[i].type \in Types(entries)
    BY DEF Types
  <2>2. CASE entries[i].type \in DOMAIN values
    <3>1. values[entries[i].type] = entries[i].data
      BY <2>1, <2>2, DataOfEntry
    <3>2. [entries[i] EXCEPT !.data = entries[i].data] = entries[i]
      BY <2>1 DEF EntrySet
    <3> QED BY <2>2, <3>1, <3>2
  <2> QED BY <2>2
<1>2. Rewritten(entries, values) = [i \in DOMAIN entries |-> new(i)]
  BY DEF Rewritten
<1>3. entries = [i \in DOMAIN entries |-> entries[i]]
  OBVIOUS
<1> HIDE DEF new
<1> QED BY <1>1, <1>2, <1>3

-----------------------------------------------------------------------------
(* The five bodies *)

\* CertificateVerify.
LEMMA VerifyExact ==
  ASSUME NEW body \in Seq(Byte), NEW client, NEW p,
         p = ParseCertificateVerify(body, client), p.ok
  PROVE  body = Digits(2, p.scheme) \o Vector(2, p.signature)
<1>1. PICK scheme : scheme = Read(body, 0, 2)
  OBVIOUS
<1>2. PICK signature : signature = ReadVector(body, scheme.at, 2)
  OBVIOUS
<1>3. /\ IsAllRead(signature, body)
      /\ p.scheme = Number(scheme.value) /\ p.signature = signature.value
  BY <1>1, <1>2 DEF ParseCertificateVerify
<1>4. Field(body, 0, scheme, scheme.value)
  BY <1>1, ReadFirst
<1>8. Sized(scheme, scheme, 2)
  BY <1>1, ReadFirst
<1>5. /\ Field(body, 0, signature, scheme.value \o Vector(2, signature.value))
      /\ Typed(scheme, signature)
  BY <1>2, <1>4, VectorAfter
<1>6. scheme.value \o Vector(2, signature.value) = body /\ signature.ok
  BY <1>3, <1>5, AllRead
<1>7. Digits(2, Number(scheme.value)) = scheme.value
  BY <1>5, <1>6, <1>8, TwoBytes DEF Sized, Typed
<1> QED BY <1>3, <1>6, <1>7

\* EncryptedExtensions.
LEMMA EncryptedExact ==
  ASSUME NEW body \in Seq(Byte), NEW p, p = ParseEncryptedExtensions(body), p.ok
  PROVE  body = Vector(2, Extensions(p.entries))
<1>1. PICK block : block = ReadVector(body, 0, 2)
  OBVIOUS
<1>2. /\ IsAllRead(block, body) /\ IsList(Entries(block.value))
      /\ p.entries = Entries(block.value)
  BY <1>1 DEF ParseEncryptedExtensions
<1>3. Field(body, 0, block, Vector(2, block.value)) /\ Typed(block, block)
  BY <1>1, VectorFirst
<1>4. Vector(2, block.value) = body /\ block.ok
  BY <1>2, <1>3, AllRead
<1>5. Extensions(Entries(block.value)) = block.value
  BY <1>2, <1>3, <1>4, EntriesExact DEF IsList, Typed
<1> QED BY <1>2, <1>4, <1>5

\* An empty vector with one length byte, and one with a zero in it.
LEMMA SmallVectors == Vector(1, <<>>) = <<0>> /\ Vector(1, <<0>>) = <<1, 0>>
<1>1. ASSUME NEW d \in 0..255 PROVE Digits(1, d) = <<d>>
  <2>1. d \in Byte /\ d \in Nat
    BY BytesAreBytes DEF Byte
  <2>2. <<d>> \in Seq(Byte) /\ Len(<<d>>) = 1
    BY <2>1
  <2>3. PICK x : x = <<d>>
    OBVIOUS
  <2>4. x \in Seq(Byte) /\ Len(x) = 1 /\ x[1] = d
    BY <2>2, <2>3
  <2>5. PICK v \in [0..Len(x) -> Nat] :
          /\ v[0] = 0
          /\ \A i \in 1..Len(x) : v[i] = Base * v[i - 1] + x[i]
          /\ Number(x) = v[Len(x)]
    BY <2>4, NumberShape
  <2>6. v[1] = Base * v[0] + x[1]
    BY <2>4, <2>5
  <2>7. Number(x) = d
    BY <2>1, <2>4, <2>5, <2>6, BytesAreBytes
  <2>8. Digits(Len(x), Number(x)) = x
    BY <2>4, DigitsOfNumber
  <2> QED BY <2>3, <2>4, <2>7, <2>8
<1>2. Digits(1, 0) = <<0>> /\ Digits(1, 1) = <<1>>
  BY <1>1
<1>3. Len(<<>>) = 0 /\ Len(<<0>>) = 1
  OBVIOUS
<1>4. <<0>> \o <<>> = <<0>>
  <2>1. <<0>> \in Seq(Nat)
    OBVIOUS
  <2> QED BY <2>1, ConcatEmptySeq
<1>5. <<1>> \o <<0>> = <<1, 0>>
  <2>1. PICK x, y, z : x = <<1>> /\ y = <<0>> /\ z = x \o y
    OBVIOUS
  <2>2. x \in Seq(Nat) /\ y \in Seq(Nat) /\ Len(x) = 1 /\ Len(y) = 1 /\ x[1] = 1 /\ y[1] = 0
    BY <2>1
  <2>3. /\ z \in Seq(Nat) /\ Len(z) = Len(x) + Len(y)
        /\ \A p \in 1..Len(x) : z[p] = x[p]
        /\ \A j \in 1..Len(y) : z[Len(x) + j] = y[j]
    BY <2>1, <2>2, ConcatShape
  <2>4. z \in Seq(Nat) /\ Len(z) = 2 /\ z[1] = 1 /\ z[2] = 0
    BY <2>2, <2>3
  <2>5. z = <<1, 0>>
    BY <2>4
  <2> QED BY <2>1, <2>5
<1> QED BY <1>2, <1>3, <1>4, <1>5 DEF Vector

\* Certificate.
LEMMA CertificateExact ==
  ASSUME NEW body \in Seq(Byte), NEW p, p = ParseCertificate(body), p.ok
  PROVE  body = <<0>> \o Vector(3, Certificates(p.chain))
<1>1. PICK context : context = ReadVector(body, 0, 1)
  OBVIOUS
<1>2. PICK list : list = ReadVector(body, context.at, 3)
  OBVIOUS
<1>3. /\ IsAllRead(list, body) /\ context.value = <<>>
      /\ Broken \notin ToSet(Chain(list.value)) /\ p.chain = Chain(list.value)
  BY <1>1, <1>2 DEF ParseCertificate
<1>4. Field(body, 0, context, Vector(1, context.value))
  BY <1>1, VectorFirst
<1>5. /\ Field(body, 0, list, Vector(1, context.value) \o Vector(3, list.value))
      /\ Typed(context, list)
  BY <1>2, <1>4, VectorAfter
<1>6. Vector(1, context.value) \o Vector(3, list.value) = body /\ list.ok
  BY <1>3, <1>5, AllRead
<1>7. Certificates(Chain(list.value)) = list.value
  BY <1>3, <1>5, <1>6, ChainExact DEF Typed
<1> QED BY <1>3, <1>6, <1>7, SmallVectors

\* The values of an answer are what it was read from.
LEMMA ServerValuesSame ==
  ASSUME NEW p, NEW share, NEW versions, share = Extension(p.group, p.key),
         versions = TLS_1_3
  PROVE  /\ DOMAIN ServerValues(p) = {SUPPORTED_VERSIONS, KEY_SHARE}
         /\ ServerValues(p)[SUPPORTED_VERSIONS] = versions
         /\ ServerValues(p)[KEY_SHARE] = share
BY DEF ServerValues, SUPPORTED_VERSIONS, KEY_SHARE

\* ServerHello.
LEMMA ServerExact ==
  ASSUME NEW body \in Seq(Byte), NEW client, NEW p, p = ParseServerHello(body, client), p.ok
  PROVE  body = ServerBytes(p, client.session)
<1>1. PICK version : version = Read(body, 0, 2)
  OBVIOUS
<1>2. PICK random : random = Read(body, version.at, RandomSize)
  OBVIOUS
<1>3. PICK id : id = ReadVector(body, random.at, 1)
  OBVIOUS
<1>4. PICK cipher : cipher = Read(body, id.at, 2)
  OBVIOUS
<1>5. PICK compression : compression = Read(body, cipher.at, 1)
  OBVIOUS
<1>6. PICK block : block = ReadVector(body, compression.at, 2)
  OBVIOUS
<1>7. PICK entries : entries = Entries(block.value)
  OBVIOUS
<1>8. PICK share : share = Data(entries, KEY_SHARE)
  OBVIOUS
<1>9. PICK group : group = Read(share, 0, 2)
  OBVIOUS
<1>10. PICK key : key = ReadVector(share, group.at, 2)
  OBVIOUS
<1>11. /\ IsAllRead(block, body) /\ IsList(entries)
       /\ version.value = TLS_1_2 /\ id.value = client.session
       /\ compression.value = <<0>>
       /\ Types(entries) = {SUPPORTED_VERSIONS, KEY_SHARE}
       /\ Data(entries, SUPPORTED_VERSIONS) = TLS_1_3
       /\ IsAllRead(key, share)
       /\ p.random = random.value /\ p.cipher = Number(cipher.value) /\ p.entries = entries
       /\ p.group = Number(group.value) /\ p.key = key.value
  BY <1>1, <1>2, <1>3, <1>4, <1>5, <1>6, <1>7, <1>8, <1>9, <1>10 DEF ParseServerHello
<1>12. RandomSize \in Nat
  BY BytesAssumption DEF RandomSize, ByteStrings
<1> DEFINE to2 == version.value \o random.value
           to3 == to2 \o Vector(1, id.value)
           to4 == to3 \o cipher.value
           to5 == to4 \o compression.value
           to6 == to5 \o Vector(2, block.value)
<1>13. Field(body, 0, version, version.value)
  BY <1>1, ReadFirst
<1>14. Field(body, 0, random, to2)
  BY <1>2, <1>12, <1>13, ReadAfter
<1>15. Field(body, 0, id, to3)
  <2> HIDE DEF to2
  <2> QED BY <1>3, <1>14, VectorAfter
<1>16. Field(body, 0, cipher, to4)
  <2> HIDE DEF to3
  <2> QED BY <1>4, <1>15, ReadAfter
<1>17. Sized(id, cipher, 2)
  <2> HIDE DEF to3
  <2> QED BY <1>4, <1>15, ReadAfter
<1>25. Field(body, 0, compression, to5)
  <2> HIDE DEF to4
  <2> QED BY <1>5, <1>16, ReadAfter
<1>26. Sized(cipher, compression, 1)
  <2> HIDE DEF to4
  <2> QED BY <1>5, <1>16, ReadAfter
<1>18. /\ Field(body, 0, block, to6)
       /\ Typed(compression, block)
  <2> HIDE DEF to5
  <2> QED BY <1>6, <1>25, VectorAfter
<1>19. to6 = body /\ block.ok
  <2>1. Field(body, 0, block, to6) /\ IsAllRead(block, body)
    BY <1>11, <1>18
  <2> HIDE DEF to6
  <2> QED BY <2>1, AllRead
<1>20. Digits(2, Number(cipher.value)) = cipher.value
  BY <1>17, <1>18, <1>19, <1>26, TwoBytes DEF Sized, Typed
<1>21. entries \in Seq(EntrySet) /\ Extensions(entries) = block.value
  BY <1>7, <1>11, <1>18, <1>19, EntriesExact DEF IsList, Typed
<1>22. share = Extension(p.group, p.key)
  <2>1. share \in Seq(Byte)
    BY <1>8, <1>11, <1>21, DataIsBytes
  <2>2. Field(share, 0, group, group.value)
    BY <1>9, <2>1, ReadFirst
  <2>3. Sized(group, group, 2)
    BY <1>9, <2>1, ReadFirst
  <2>4. Field(share, 0, key, group.value \o Vector(2, key.value))
    BY <1>10, <2>1, <2>2, VectorAfter
  <2>7. Typed(group, key)
    BY <1>10, <2>1, <2>2, VectorAfter
  <2>5. group.value \o Vector(2, key.value) = share /\ key.ok
    BY <1>11, <2>1, <2>4, AllRead
  <2>6. Digits(2, Number(group.value)) = group.value
    BY <2>3, <2>5, <2>7, TwoBytes DEF Sized, Typed
  <2> QED BY <1>11, <2>5, <2>6 DEF Extension
<1>23. Rewritten(entries, ServerValues(p)) = entries
  <2>1. PICK versions : versions = Data(entries, SUPPORTED_VERSIONS)
    OBVIOUS
  <2>2. versions = TLS_1_3
    BY <1>11, <2>1
  <2>3. /\ DOMAIN ServerValues(p) = {SUPPORTED_VERSIONS, KEY_SHARE}
        /\ ServerValues(p)[SUPPORTED_VERSIONS] = versions
        /\ ServerValues(p)[KEY_SHARE] = share
    BY <1>22, <2>2, ServerValuesSame
  <2>4. \A type \in DOMAIN ServerValues(p) \cap Types(entries) :
           ServerValues(p)[type] = Data(entries, type)
    BY <1>8, <2>1, <2>3
  <2>5. PICK values : values = ServerValues(p)
    OBVIOUS
  <2>6. Rewritten(entries, values) = entries
    BY <1>11, <1>21, <2>4, <2>5, RewrittenSame
  <2> QED BY <2>5, <2>6
<1>24. ServerBytes(p, client.session)
         = TLS_1_2 \o p.random \o Vector(1, client.session) \o Digits(2, p.cipher) \o <<0>>
           \o Vector(2, Extensions(Rewritten(p.entries, ServerValues(p))))
  BY DEF ServerBytes
<1> QED BY <1>11, <1>19, <1>20, <1>21, <1>23, <1>24

\* The only server name that is accepted is the one that is written.
LEMMA ServerNameExact ==
  ASSUME NEW encoded \in Seq(Byte), IsServerName(encoded)
  PROVE  encoded = ServerName
<1>1. PICK list : list = ReadVector(encoded, 0, 2)
  OBVIOUS
<1>2. PICK names : names = list.value
  OBVIOUS
<1>3. PICK name : name = ReadVector(names, 1, 2)
  OBVIOUS
<1>4. /\ IsAllRead(list, encoded) /\ IsAllRead(name, names)
      /\ names[1] = 0 /\ name.value = Domain
  BY <1>1, <1>2, <1>3 DEF IsServerName
<1>5. Field(encoded, 0, list, Vector(2, list.value)) /\ Typed(list, list)
  BY <1>1, VectorFirst
<1>6. Vector(2, list.value) = encoded /\ list.ok
  BY <1>4, <1>5, AllRead
<1>7. names \in Seq(Byte)
  BY <1>2, <1>5, <1>6 DEF Typed
<1>8. Field(names, 1, name, Vector(2, name.value))
  BY <1>3, <1>7, VectorIsField
<1>9. Covers(names, 1, Len(names), Vector(2, name.value)) /\ 1 <= Len(names)
  BY <1>4, <1>8 DEF Field, IsAllRead
<1>10. Covers(names, 0, 1, <<0>>)
  <2>1. 0 \in 0..(Len(names) - 1)
    BY <1>7, <1>9
  <2>2. Slice(names, 0, 0 + 1) = <<names[0 + 1]>>
    BY <1>7, <2>1, SliceOne
  <2>3. Slice(names, 0, 1) = <<0>>
    BY <1>4, <2>2
  <2>4. Covers(names, 0, 1, Slice(names, 0, 1))
    BY <1>7, <1>9, SliceCovers
  <2> QED BY <2>3, <2>4
<1>11. Covers(names, 0, Len(names), <<0>> \o Vector(2, name.value))
  BY <1>7, <1>9, <1>10, CoversJoin
<1>12. <<0>> \o Vector(2, name.value) = names
  BY <1>7, <1>11, CoversAll
<1> QED BY <1>2, <1>4, <1>6, <1>12 DEF ServerName

\* The values of a ClientHello are what it was read from.
LEMMA ClientValuesSame ==
  ASSUME NEW p, NEW name, NEW versions, NEW schemes, NEW shares, name = ServerName,
         versions = Vector(1, Shorts(p.versions)), schemes = Vector(2, Shorts(p.schemes)),
         shares = Vector(2, Extensions(p.shares))
  PROVE  /\ DOMAIN ClientValues(p)
              = {SERVER_NAME, SUPPORTED_VERSIONS, SIGNATURE_ALGORITHMS, KEY_SHARE}
         /\ ClientValues(p)[SERVER_NAME] = name
         /\ ClientValues(p)[SUPPORTED_VERSIONS] = versions
         /\ ClientValues(p)[SIGNATURE_ALGORITHMS] = schemes
         /\ ClientValues(p)[KEY_SHARE] = shares
<1>1. DOMAIN ClientValues(p)
        = {SERVER_NAME, SUPPORTED_VERSIONS, SIGNATURE_ALGORITHMS, KEY_SHARE}
  BY DEF ClientValues
<1>2. /\ SERVER_NAME = 0 /\ SUPPORTED_VERSIONS = 43 /\ SIGNATURE_ALGORITHMS = 13
      /\ KEY_SHARE = 51
  BY DEF SERVER_NAME, SUPPORTED_VERSIONS, SIGNATURE_ALGORITHMS, KEY_SHARE
<1>3. ClientValues(p)[SERVER_NAME] = name
  BY <1>2 DEF ClientValues
<1>4. ClientValues(p)[SUPPORTED_VERSIONS] = versions
  BY <1>2 DEF ClientValues
<1>5. ClientValues(p)[SIGNATURE_ALGORITHMS] = schemes
  BY <1>2 DEF ClientValues
<1>6. ClientValues(p)[KEY_SHARE] = shares
  BY <1>2 DEF ClientValues
<1> QED BY <1>1, <1>3, <1>4, <1>5, <1>6

\* A vector of a list of numbers that is all there is, written again.
LEMMA NumbersExact ==
  ASSUME NEW data \in Seq(Byte), NEW width \in Nat, NEW r, r = ReadVector(data, 0, width),
         IsAllRead(r, data), IsNumbers(r)
  PROVE  data = Vector(width, Shorts(NumbersOf(r.value)))
<1>1. Field(data, 0, r, Vector(width, r.value)) /\ Typed(r, r)
  BY VectorFirst
<1>2. Vector(width, r.value) = data /\ r.ok
  BY <1>1, AllRead
<1>3. Shorts(NumbersOf(r.value)) = r.value
  BY <1>1, <1>2, ShortsExact DEF Typed, IsNumbers
<1> QED BY <1>2, <1>3

\* ClientHello.
LEMMA ClientExact ==
  ASSUME NEW body \in Seq(Byte), NEW p, p = ParseClientHello(body), p.ok
  PROVE  body = ClientBytes(p)
<1>1. PICK version : version = Read(body, 0, 2)
  OBVIOUS
<1>2. PICK random : random = Read(body, version.at, RandomSize)
  OBVIOUS
<1>3. PICK id : id = ReadVector(body, random.at, 1)
  OBVIOUS
<1>4. PICK ciphers : ciphers = ReadVector(body, id.at, 2)
  OBVIOUS
<1>5. PICK compression : compression = ReadVector(body, ciphers.at, 1)
  OBVIOUS
<1>6. PICK block : block = ReadVector(body, compression.at, 2)
  OBVIOUS
<1>7. PICK entries : entries = Entries(block.value)
  OBVIOUS
<1>8. PICK name, versions, schemes, share :
         /\ name = Data(entries, SERVER_NAME) /\ versions = Data(entries, SUPPORTED_VERSIONS)
         /\ schemes = Data(entries, SIGNATURE_ALGORITHMS) /\ share = Data(entries, KEY_SHARE)
  OBVIOUS
<1>9. PICK versionsRead, schemesRead, list :
         /\ versionsRead = ReadVector(versions, 0, 1)
         /\ schemesRead = ReadVector(schemes, 0, 2)
         /\ list = ReadVector(share, 0, 2)
  OBVIOUS
<1>10. PICK shares : shares = Entries(list.value)
  OBVIOUS
<1>11. /\ IsAllRead(block, body) /\ IsList(entries)
       /\ version.value = TLS_1_2 /\ random.value = Challenge
       /\ IsNumbers(ciphers) /\ compression.value = <<0>>
       /\ IsServerName(name)
       /\ IsAllRead(versionsRead, versions) /\ IsNumbers(versionsRead)
       /\ IsAllRead(schemesRead, schemes) /\ IsNumbers(schemesRead)
       /\ IsAllRead(list, share) /\ IsList(shares)
       /\ p.session = id.value /\ p.ciphers = NumbersOf(ciphers.value) /\ p.entries = entries
       /\ p.versions = NumbersOf(versionsRead.value)
       /\ p.schemes = NumbersOf(schemesRead.value) /\ p.shares = shares
  BY <1>1, <1>2, <1>3, <1>4, <1>5, <1>6, <1>7, <1>8, <1>9, <1>10 DEF ParseClientHello
<1>12. RandomSize \in Nat
  BY BytesAssumption DEF RandomSize, ByteStrings
<1> DEFINE to2 == version.value \o random.value
           to3 == to2 \o Vector(1, id.value)
           to4 == to3 \o Vector(2, ciphers.value)
           to5 == to4 \o Vector(1, compression.value)
           to6 == to5 \o Vector(2, block.value)
<1>13. Field(body, 0, version, version.value)
  BY <1>1, ReadFirst
<1>14. Field(body, 0, random, to2)
  BY <1>2, <1>12, <1>13, ReadAfter
<1>15. Field(body, 0, id, to3)
  <2> HIDE DEF to2
  <2> QED BY <1>3, <1>14, VectorAfter
<1>16. Field(body, 0, ciphers, to4) /\ Typed(id, ciphers)
  <2> HIDE DEF to3
  <2> QED BY <1>4, <1>15, VectorAfter
<1>17. Field(body, 0, compression, to5) /\ Typed(ciphers, compression)
  <2> HIDE DEF to4
  <2>1. Field(body, 0, ciphers, to4)
    BY <1>16
  <2> QED BY <1>5, <2>1, VectorAfter
<1>18. Field(body, 0, block, to6) /\ Typed(compression, block)
  <2> HIDE DEF to5
  <2>1. Field(body, 0, compression, to5)
    BY <1>17
  <2> QED BY <1>6, <2>1, VectorAfter
<1>19. to6 = body /\ block.ok
  <2>1. Field(body, 0, block, to6) /\ IsAllRead(block, body)
    BY <1>11, <1>18
  <2> HIDE DEF to6
  <2> QED BY <2>1, AllRead
<1>20. Shorts(NumbersOf(ciphers.value)) = ciphers.value
  <2>1. ciphers.value \in Seq(Byte)
    BY <1>16, <1>17, <1>18, <1>19 DEF Typed
  <2> QED BY <1>11, <2>1, ShortsExact DEF IsNumbers
<1>21. entries \in Seq(EntrySet) /\ Extensions(entries) = block.value
  BY <1>7, <1>11, <1>18, <1>19, EntriesExact DEF IsList, Typed
<1>22. /\ name \in Seq(Byte) /\ versions \in Seq(Byte) /\ schemes \in Seq(Byte)
       /\ share \in Seq(Byte)
  BY <1>8, <1>11, <1>21, DataIsBytes
<1>23. name = ServerName
  BY <1>11, <1>22, ServerNameExact
<1>24. versions = Vector(1, Shorts(p.versions)) /\ schemes = Vector(2, Shorts(p.schemes))
  <2>1. versions = Vector(1, Shorts(NumbersOf(versionsRead.value)))
    BY <1>9, <1>11, <1>22, NumbersExact
  <2>2. schemes = Vector(2, Shorts(NumbersOf(schemesRead.value)))
    BY <1>9, <1>11, <1>22, NumbersExact
  <2> QED BY <1>11, <2>1, <2>2
<1>25. share = Vector(2, Extensions(p.shares))
  <2>1. Field(share, 0, list, Vector(2, list.value)) /\ Typed(list, list)
    BY <1>9, <1>22, VectorFirst
  <2>2. Vector(2, list.value) = share /\ list.ok
    BY <1>11, <1>22, <2>1, AllRead
  <2>3. Extensions(shares) = list.value
    BY <1>10, <1>11, <2>1, <2>2, EntriesExact DEF IsList, Typed
  <2> QED BY <1>11, <2>2, <2>3
<1>26. Rewritten(entries, ClientValues(p)) = entries
  <2>1. PICK values : values = ClientValues(p)
    OBVIOUS
  <2>2. /\ DOMAIN values = {SERVER_NAME, SUPPORTED_VERSIONS, SIGNATURE_ALGORITHMS, KEY_SHARE}
        /\ values[SERVER_NAME] = name /\ values[SUPPORTED_VERSIONS] = versions
        /\ values[SIGNATURE_ALGORITHMS] = schemes /\ values[KEY_SHARE] = share
    BY <1>23, <1>24, <1>25, <2>1, ClientValuesSame
  <2>3. \A type \in DOMAIN values \cap Types(entries) : values[type] = Data(entries, type)
    BY <1>8, <2>2
  <2>4. Rewritten(entries, values) = entries
    BY <1>11, <1>21, <2>3, RewrittenSame
  <2> QED BY <2>1, <2>4
<1>27. ClientBytes(p)
         = TLS_1_2 \o Challenge \o Vector(1, p.session) \o Vector(2, Shorts(p.ciphers))
           \o <<1, 0>> \o Vector(2, Extensions(Rewritten(p.entries, ClientValues(p))))
  BY DEF ClientBytes
<1> QED BY <1>11, <1>19, <1>20, <1>21, <1>26, <1>27, SmallVectors

-----------------------------------------------------------------------------
(* Messages *)

\* A message that was read, written again, is the bytes it was read from.
LEMMA HandshakeExact ==
  ASSUME NEW data \in Seq(Byte), NEW at \in Nat, NEW type, NEW r,
         r = ReadHandshake(data, at, type), r.ok
  PROVE  /\ r.at \in Nat /\ r.value \in Seq(Byte)
         /\ Covers(data, at, r.at, Handshake(type, r.value))
<1>1. PICK header : header = Read(data, at, 4)
  OBVIOUS
<1>2. PICK digits : digits = From(header.value, 1)
  OBVIOUS
<1>3. PICK size : size = Number(digits)
  OBVIOUS
<1>4. PICK body : body = Read(data, header.at, size)
  OBVIOUS
<1>15. size = BodySize(header)
  BY <1>2, <1>3 DEF BodySize
<1>16. r = [ok |-> IsHandshake(header, body, type), value |-> body.value, at |-> body.at]
  BY <1>1, <1>4, <1>15 DEF ReadHandshake
<1>17. IsHandshake(header, body, type) /\ r.value = body.value /\ r.at = body.at
  BY <1>16
<1>5. /\ header.ok /\ header.value[1] = type /\ body.ok
      /\ r.value = body.value /\ r.at = body.at
  BY <1>17 DEF IsHandshake
<1>6. /\ Field(data, at, header, header.value)
      /\ header.ok => Len(header.value) = 4
  BY <1>1, ReadIsField
<1>7. header.value \in Seq(Byte) /\ Len(header.value) = 4 /\ header.at \in Nat
  BY <1>5, <1>6 DEF Field
<1>8. header.value = <<type>> \o digits /\ digits \in Seq(Byte) /\ Len(digits) = 3
  <2>1. PICK v, n, one : v = header.value /\ n = Len(v) /\ one = 1
    OBVIOUS
  <2>2. v \in Seq(Byte) /\ n = Len(v) /\ n = 4
    BY <1>7, <2>1
  <2>9. /\ v \in Seq(Byte) /\ one \in Nat /\ n \in Nat /\ 0 \in Nat /\ 0 <= one
        /\ one <= n /\ n <= Len(v)
    BY <2>1, <2>2
  <2>10. digits = Slice(v, one, n) /\ v[one] = type
    BY <1>2, <1>5, <2>1 DEF From
  <2>11. Slice(v, one, n) \in Seq(Byte) /\ Len(Slice(v, one, n)) = n - one
    BY <2>9, SliceShape
  <2>3. digits \in Seq(Byte) /\ Len(digits) = n - one
    BY <2>10, <2>11
  <2>4. Slice(v, 0, one) = <<type>>
    <3>1. 0 \in 0..(Len(v) - 1)
      BY <2>2
    <3>2. Slice(v, 0, 0 + 1) = <<v[0 + 1]>>
      BY <2>2, <3>1, SliceOne
    <3> QED BY <2>1, <2>10, <3>2
  <2>5. Slice(v, 0, one) \o Slice(v, one, n) = Slice(v, 0, n)
    BY <2>9, SliceJoin
  <2>6. Slice(v, 0, Len(v)) = v
    BY <2>2, SliceWhole
  <2>7. v = <<type>> \o digits
    BY <2>2, <2>4, <2>5, <2>6, <2>10
  <2>8. Len(digits) = 3
    BY <2>1, <2>2, <2>3
  <2> QED BY <2>1, <2>3, <2>7, <2>8
<1>9. size \in Nat
  BY <1>3, <1>8, NumberIsNat
<1>10. /\ Field(data, header.at, body, body.value)
       /\ body.ok => Len(body.value) = size
  BY <1>4, <1>7, <1>9, ReadIsField
<1>11. body.value \in Seq(Byte) /\ Len(body.value) = size /\ body.at \in Nat
  BY <1>5, <1>10 DEF Field
<1>12. Covers(data, at, header.at, header.value) /\ Covers(data, header.at, body.at, body.value)
  BY <1>5, <1>6, <1>10 DEF Field
<1>13. Covers(data, at, body.at, header.value \o body.value)
  BY <1>12, CoversJoin
<1>14. header.value \o body.value = Handshake(type, body.value)
  <2>1. Digits(Len(digits), Number(digits)) = digits
    BY <1>8, DigitsOfNumber
  <2>2. Vector(3, body.value) = digits \o body.value
    BY <1>3, <1>8, <1>11, <2>1 DEF Vector
  <2>3. <<type>> \in Seq(Byte)
    <3>1. type \in Byte
      BY <1>5, <1>7
    <3> QED BY <3>1
  <2>4. PICK x, y : x = <<type>> /\ y = body.value
    OBVIOUS
  <2>5. x \in Seq(Byte) /\ digits \in Seq(Byte) /\ y \in Seq(Byte)
    BY <1>8, <1>11, <2>3, <2>4
  <2>6. (x \o digits) \o y = x \o (digits \o y)
    BY ONLY <2>5, ThreeBytes
  <2> QED BY <1>8, <2>2, <2>4, <2>6 DEF Handshake
<1> QED BY <1>5, <1>11, <1>13, <1>14

\* Five messages in a row, flattened.
LEMMA FlattenFive ==
  ASSUME NEW m, \A i \in 1..5 : m[i] \in Seq(Byte)
  PROVE  FlatPrefix(m, 5) = (((m[1] \o m[2]) \o m[3]) \o m[4]) \o m[5]
<1>1. ASSUME NEW k \in 0..4
      PROVE  FlatPrefix(m, k + 1) = FlatPrefix(m, k) \o m[k + 1]
  <2>1. k \in Nat /\ \A i \in 1..(k + 1) : m[i] \in Seq(Byte)
    OBVIOUS
  <2> QED BY <2>1, FlatPrefixNext
<1>2. FlatPrefix(m, 0) = <<>>
  BY FlatPrefixEmpty
<1>3. <<>> \o m[1] = m[1]
  <2>1. m[1] \in Seq(Byte)
    OBVIOUS
  <2> QED BY <2>1, ConcatEmptySeq
<1>4. FlatPrefix(m, 0 + 1) = FlatPrefix(m, 0) \o m[0 + 1]
  BY <1>1
<1>5. FlatPrefix(m, 1 + 1) = FlatPrefix(m, 1) \o m[1 + 1]
  BY <1>1
<1>6. FlatPrefix(m, 2 + 1) = FlatPrefix(m, 2) \o m[2 + 1]
  BY <1>1
<1>7. FlatPrefix(m, 3 + 1) = FlatPrefix(m, 3) \o m[3 + 1]
  BY <1>1
<1>8. FlatPrefix(m, 4 + 1) = FlatPrefix(m, 4) \o m[4 + 1]
  BY <1>1
<1>9. 0 + 1 = 1 /\ 1 + 1 = 2 /\ 2 + 1 = 3 /\ 3 + 1 = 4 /\ 4 + 1 = 5
  OBVIOUS
<1> QED BY <1>2, <1>3, <1>4, <1>5, <1>6, <1>7, <1>8, <1>9

\* The messages of five bodies.
AreMessages(bodies, ha, hb, hc, hd, he) ==
    /\ ha = Handshake(CLIENT_HELLO, bodies[1]) /\ hb = Handshake(SERVER_HELLO, bodies[2])
    /\ hc = Handshake(ENCRYPTED_EXTENSIONS, bodies[3])
    /\ hd = Handshake(CERTIFICATE, bodies[4]) /\ he = Handshake(CERTIFICATE_VERIFY, bodies[5])
    /\ ha \in Seq(Byte) /\ hb \in Seq(Byte) /\ hc \in Seq(Byte) /\ hd \in Seq(Byte)
    /\ he \in Seq(Byte)

\* A proof of five bodies is its version and five messages.
LEMMA FiveMessages ==
  ASSUME NEW bodies, NEW ha, NEW hb, NEW hc, NEW hd, NEW he,
         AreMessages(bodies, ha, hb, hc, hd, he)
  PROVE  EncodedProof(bodies) = <<PROOF_VERSION>> \o ((((ha \o hb) \o hc) \o hd) \o he)
<1>3. /\ DOMAIN MessageTypes = 1..5
      /\ MessageTypes[1] = CLIENT_HELLO /\ MessageTypes[2] = SERVER_HELLO
      /\ MessageTypes[3] = ENCRYPTED_EXTENSIONS /\ MessageTypes[4] = CERTIFICATE
      /\ MessageTypes[5] = CERTIFICATE_VERIFY
  BY DEF MessageTypes
<1> DEFINE m == [i \in 1..5 |-> Handshake(MessageTypes[i], bodies[i])]
<1>4. m[1] = ha /\ m[2] = hb /\ m[3] = hc /\ m[4] = hd /\ m[5] = he
  BY <1>3 DEF AreMessages
<1>5. EncodedProof(bodies) = <<PROOF_VERSION>> \o FlatPrefix(m, 5)
  <2>1. EncodedProof(bodies) = <<PROOF_VERSION>> \o FlattenSeq(m)
    BY <1>3 DEF EncodedProof
  <2>2. m = [i \in 1..5 |-> m[i]]
    OBVIOUS
  <2> HIDE DEF m
  <2> QED BY <2>1, <2>2 DEF FlatPrefix
<1> HIDE DEF m
<1>6. \A i \in 1..5 : m[i] \in Seq(Byte)
  BY <1>4 DEF AreMessages
<1>7. FlatPrefix(m, 5) = (((m[1] \o m[2]) \o m[3]) \o m[4]) \o m[5]
  BY <1>6, FlattenFive
<1> QED BY <1>4, <1>5, <1>7

-----------------------------------------------------------------------------
(* The whole proof *)

\* What is read of five bodies that are all accepted.
LEMMA AllParsedParts ==
  ASSUME NEW client, NEW server, NEW extensions, NEW certificate, NEW verify, NEW p,
         p = AllParsed(client, server, extensions, certificate, verify), p.ok
  PROVE  /\ client.ok /\ server.ok /\ extensions.ok /\ certificate.ok /\ verify.ok
         /\ p.client = client /\ p.server = server /\ p.extensions = extensions
         /\ p.certificate = certificate /\ p.verify = verify
<1>1. ~NotParsed.ok
  BY DEF NotParsed
<1>2. client.ok /\ server.ok /\ extensions.ok /\ certificate.ok /\ verify.ok
  BY <1>1 DEF AllParsed
<1>3. p = [ok |-> TRUE, client |-> client, server |-> server, extensions |-> extensions,
           certificate |-> certificate, verify |-> verify]
  BY <1>2 DEF AllParsed
<1> QED BY <1>2, <1>3

\* A proof that is accepted is accounted for to the last byte.
LEMMA ProofExact ==
  ASSUME NEW data \in Seq(Byte), NEW p, p = ParseProof(data), p.ok
  PROVE  data = Reencoded(p)
<1>1. PICK hello : hello = ReadHandshake(data, 1, CLIENT_HELLO)
  OBVIOUS
<1>2. PICK answer : answer = ReadHandshake(data, hello.at, SERVER_HELLO)
  OBVIOUS
<1>3. PICK extensions : extensions = ReadHandshake(data, answer.at, ENCRYPTED_EXTENSIONS)
  OBVIOUS
<1>4. PICK certificate : certificate = ReadHandshake(data, extensions.at, CERTIFICATE)
  OBVIOUS
<1>5. PICK verify : verify = ReadHandshake(data, certificate.at, CERTIFICATE_VERIFY)
  OBVIOUS
<1>6. ~NotParsed.ok
  BY DEF NotParsed
<1>7. /\ Len(data) >= 1 /\ data[1] = PROOF_VERSION
      /\ hello.ok /\ answer.ok /\ extensions.ok /\ certificate.ok
      /\ verify.ok /\ verify.at = Len(data)
      /\ p = ParseBodies(ParseClientHello(hello.value), answer.value, extensions.value,
                         certificate.value, verify.value)
  <2>1. /\ Len(data) \in 1..MaxProof /\ data[1] = PROOF_VERSION
        /\ hello.ok /\ answer.ok /\ extensions.ok /\ certificate.ok
        /\ IsAllRead(verify, data)
        /\ p = ParseBodies(ParseClientHello(hello.value), answer.value, extensions.value,
                           certificate.value, verify.value)
    BY <1>1, <1>2, <1>3, <1>4, <1>5, <1>6 DEF ParseProof
  <2> QED BY <2>1 DEF IsAllRead
<1>8. /\ hello.at \in Nat /\ hello.value \in Seq(Byte)
      /\ Covers(data, 1, hello.at, Handshake(CLIENT_HELLO, hello.value))
  BY <1>1, <1>7, HandshakeExact
<1>9. /\ answer.at \in Nat /\ answer.value \in Seq(Byte)
      /\ Covers(data, hello.at, answer.at, Handshake(SERVER_HELLO, answer.value))
  BY <1>2, <1>7, <1>8, HandshakeExact
<1>10. /\ extensions.at \in Nat /\ extensions.value \in Seq(Byte)
       /\ Covers(data, answer.at, extensions.at,
                 Handshake(ENCRYPTED_EXTENSIONS, extensions.value))
  BY <1>3, <1>7, <1>9, HandshakeExact
<1>11. /\ certificate.at \in Nat /\ certificate.value \in Seq(Byte)
       /\ Covers(data, extensions.at, certificate.at,
                 Handshake(CERTIFICATE, certificate.value))
  BY <1>4, <1>7, <1>10, HandshakeExact
<1>12. /\ verify.at \in Nat /\ verify.value \in Seq(Byte)
       /\ Covers(data, certificate.at, verify.at,
                 Handshake(CERTIFICATE_VERIFY, verify.value))
  BY <1>5, <1>7, <1>11, HandshakeExact
<1>13. PICK ha, hb, hc, hd, he :
         /\ ha = Handshake(CLIENT_HELLO, hello.value)
         /\ hb = Handshake(SERVER_HELLO, answer.value)
         /\ hc = Handshake(ENCRYPTED_EXTENSIONS, extensions.value)
         /\ hd = Handshake(CERTIFICATE, certificate.value)
         /\ he = Handshake(CERTIFICATE_VERIFY, verify.value)
  OBVIOUS
<1>14. PICK five : five = (((ha \o hb) \o hc) \o hd) \o he
  OBVIOUS
<1>15. Covers(data, 1, Len(data), five)
  <2>1. Covers(data, 1, answer.at, ha \o hb)
    BY <1>8, <1>9, <1>13, CoversJoin
  <2>2. Covers(data, 1, extensions.at, (ha \o hb) \o hc)
    BY <1>10, <1>13, <2>1, CoversJoin
  <2>3. Covers(data, 1, certificate.at, ((ha \o hb) \o hc) \o hd)
    BY <1>11, <1>13, <2>2, CoversJoin
  <2>4. Covers(data, 1, verify.at, five)
    BY <1>12, <1>13, <1>14, <2>3, CoversJoin
  <2> QED BY <1>7, <2>4
<1>16. data = <<PROOF_VERSION>> \o five
  <2>1. 0 \in 0..(Len(data) - 1)
    BY <1>7
  <2>2. Slice(data, 0, 0 + 1) = <<data[0 + 1]>>
    BY <2>1, SliceOne
  <2>3. Slice(data, 0, 1) = <<PROOF_VERSION>>
    BY <1>7, <2>2
  <2>4. Covers(data, 0, 1, Slice(data, 0, 1))
    BY <1>7, SliceCovers
  <2>5. PICK x : x = <<PROOF_VERSION>>
    OBVIOUS
  <2>6. Covers(data, 0, 1, x)
    BY <2>3, <2>4, <2>5
  <2>7. Covers(data, 0, Len(data), x \o five)
    BY <1>15, <2>6, CoversJoin
  <2>8. x \o five = data
    BY <2>7, CoversAll
  <2> QED BY <2>5, <2>8
<1>17. /\ ha \in Seq(Byte) /\ hb \in Seq(Byte) /\ hc \in Seq(Byte) /\ hd \in Seq(Byte)
       /\ he \in Seq(Byte)
  BY <1>8, <1>9, <1>10, <1>11, <1>12, <1>13 DEF Covers
<1>18. data = EncodedProof(<<hello.value, answer.value, extensions.value, certificate.value,
                             verify.value>>)
  <2>1. PICK bodies : bodies = <<hello.value, answer.value, extensions.value,
                                 certificate.value, verify.value>>
    OBVIOUS
  <2>2. /\ bodies[1] = hello.value /\ bodies[2] = answer.value /\ bodies[3] = extensions.value
        /\ bodies[4] = certificate.value /\ bodies[5] = verify.value
    BY <2>1
  <2>3. AreMessages(bodies, ha, hb, hc, hd, he)
    BY <1>13, <1>17, <2>2 DEF AreMessages
  <2>4. EncodedProof(bodies) = <<PROOF_VERSION>> \o ((((ha \o hb) \o hc) \o hd) \o he)
    BY <2>3, FiveMessages
  <2> QED BY <1>14, <1>16, <2>1, <2>4
<1>19. PICK client, server, encrypted, chain, signed :
         /\ client = ParseClientHello(hello.value)
         /\ server = ParseServerHello(answer.value, client)
         /\ encrypted = ParseEncryptedExtensions(extensions.value)
         /\ chain = ParseCertificate(certificate.value)
         /\ signed = ParseCertificateVerify(verify.value, client)
  OBVIOUS
<1>20. p = AllParsed(client, server, encrypted, chain, signed)
  BY <1>7, <1>19 DEF ParseBodies
<1>21. /\ client.ok /\ server.ok /\ encrypted.ok /\ chain.ok /\ signed.ok
       /\ p.client = client /\ p.server = server /\ p.extensions = encrypted
       /\ p.certificate = chain /\ p.verify = signed
  BY <1>20, AllParsedParts
<1>22. hello.value = ClientBytes(client)
  BY <1>8, <1>19, <1>21, ClientExact
<1>23. answer.value = ServerBytes(server, client.session)
  BY <1>9, <1>19, <1>21, ServerExact
<1>24. extensions.value = Vector(2, Extensions(encrypted.entries))
  BY <1>10, <1>19, <1>21, EncryptedExact
<1>25. certificate.value = <<0>> \o Vector(3, Certificates(chain.chain))
  BY <1>11, <1>19, <1>21, CertificateExact
<1>26. verify.value = Digits(2, signed.scheme) \o Vector(2, signed.signature)
  BY <1>12, <1>19, <1>21, VerifyExact
<1>27. Reencoded(p)
         = EncodedProof(<<ClientBytes(client), ServerBytes(server, client.session),
                          Vector(2, Extensions(encrypted.entries)),
                          <<0>> \o Vector(3, Certificates(chain.chain)),
                          Digits(2, signed.scheme) \o Vector(2, signed.signature)>>)
  BY <1>21 DEF Reencoded
<1> QED BY <1>18, <1>22, <1>23, <1>24, <1>25, <1>26, <1>27

-----------------------------------------------------------------------------
(* What is written is bytes *)

\* A byte string after its length.
LEMMA VectorBytes ==
  ASSUME NEW width \in Nat, NEW bytes \in Seq(Byte)
  PROVE  Vector(width, bytes) \in Seq(Byte) /\ Len(Vector(width, bytes)) = width + Len(bytes)
<1>1. Len(bytes) \in Nat
  OBVIOUS
<1>2. Digits(width, Len(bytes)) \in Seq(Byte) /\ Len(Digits(width, Len(bytes))) = width
  BY <1>1, DigitsShape
<1> QED BY <1>2, ConcatShape DEF Vector

\* A tag of two bytes and a vector.
LEMMA ExtensionBytes ==
  ASSUME NEW type \in Nat, NEW data \in Seq(Byte)
  PROVE  Extension(type, data) \in Seq(Byte)
<1>1. Digits(2, type) \in Seq(Byte)
  BY DigitsShape
<1>2. Vector(2, data) \in Seq(Byte)
  BY VectorBytes
<1> QED BY <1>1, <1>2, ConcatShape DEF Extension

\* A message.
LEMMA HandshakeBytes ==
  ASSUME NEW type \in Byte, NEW body \in Seq(Byte)
  PROVE  Handshake(type, body) \in Seq(Byte)
<1>1. Vector(3, body) \in Seq(Byte)
  BY VectorBytes
<1>2. PICK x : x = <<type>>
  OBVIOUS
<1>3. x \in Seq(Byte)
  BY <1>2
<1>4. x \o Vector(3, body) \in Seq(Byte)
  BY <1>1, <1>3, ConcatShape
<1> QED BY <1>2, <1>4 DEF Handshake

\* A list of numbers.
LEMMA ShortsBytes ==
  ASSUME NEW numbers \in Seq(Nat)
  PROVE  Shorts(numbers) \in Seq(Byte)
<1> DEFINE n == Len(numbers)
           m == [i \in 1..n |-> Digits(2, numbers[i])]
<1>1. n \in Nat /\ DOMAIN numbers = 1..n
  OBVIOUS
<1>2. ASSUME NEW i \in 1..n PROVE Digits(2, numbers[i]) \in Seq(Byte)
  <2>1. numbers[i] \in Nat
    OBVIOUS
  <2> QED BY <2>1, DigitsShape
<1>3. m \in [1..n -> Seq(Byte)]
  BY <1>2
<1>4. m \in Seq(Seq(Byte))
  <2> HIDE DEF m, n
  <2> QED BY <1>1, <1>3, FunctionIsSequence
<1>5. FlattenSeq(m) \in Seq(Byte)
  <2> HIDE DEF m
  <2> QED BY <1>4, FlatBytes
<1> QED BY <1>1, <1>5 DEF Shorts

\* A list of extensions.
LEMMA ExtensionsBytes ==
  ASSUME NEW entries \in Seq(EntrySet)
  PROVE  Extensions(entries) \in Seq(Byte)
<1> DEFINE n == Len(entries)
           m == [i \in 1..n |-> Extension(entries[i].type, entries[i].data)]
<1>1. n \in Nat /\ DOMAIN entries = 1..n
  OBVIOUS
<1>2. ASSUME NEW i \in 1..n PROVE Extension(entries[i].type, entries[i].data) \in Seq(Byte)
  <2>1. entries[i] \in EntrySet
    OBVIOUS
  <2>2. entries[i].type \in Nat /\ entries[i].data \in Seq(Byte)
    BY <2>1 DEF EntrySet
  <2> QED BY <2>2, ExtensionBytes
<1>3. m \in [1..n -> Seq(Byte)]
  BY <1>2
<1>4. m \in Seq(Seq(Byte))
  <2> HIDE DEF m, n
  <2> QED BY <1>1, <1>3, FunctionIsSequence
<1>5. FlattenSeq(m) \in Seq(Byte)
  <2> HIDE DEF m
  <2> QED BY <1>4, FlatBytes
<1> QED BY <1>1, <1>5 DEF Extensions

\* The schemes of a mask are numbers.
LEMMA SchemesNumbers ==
  ASSUME NEW m
  PROVE  Schemes(m) \in Seq(Nat)
<1> DEFINE a(i) == IF (m \div Algorithms[i].mask) % 2 = 1
                   THEN <<Algorithms[i].scheme>> ELSE <<>>
           s == [i \in 1..3 |-> a(i)]
<1>1. /\ DOMAIN Algorithms = 1..3
      /\ \A i \in 1..3 : Algorithms[i].scheme \in Nat
  BY DEF Algorithms
<1>2. \A i \in 1..3 : a(i) \in Seq(Nat)
  BY <1>1
<1>3. s \in [1..3 -> Seq(Nat)]
  BY <1>2
<1>4. s \in Seq(Seq(Nat))
  <2> HIDE DEF s
  <2> QED BY <1>3, FunctionIsSequence
<1>5. PICK x : x = <<>>
  OBVIOUS
<1>6. FlattenSeq(s) \in Seq(Nat)
  <2> HIDE DEF s
  <2>1. x \in Seq(Nat)
    BY <1>5
  <2> QED BY <1>4, <2>1, FlattenCons
<1> QED BY <1>1, <1>6 DEF Schemes

\* Two byte strings, one after the other.
LEMMA ConcatBytes ==
  ASSUME NEW x \in Seq(Byte), NEW y \in Seq(Byte)
  PROVE  x \o y \in Seq(Byte)
BY ConcatShape

\* The small byte strings of a ClientHello.
LEMMA FixedBytes ==
  /\ TLS_1_2 \in Seq(Byte) /\ TLS_1_3 \in Seq(Byte)
  /\ <<0>> \in Seq(Byte) /\ <<1, 0>> \in Seq(Byte) /\ PublicKey \in Seq(Byte)
  /\ Domain \in Seq(Byte) /\ Challenge \in Seq(Byte)
<1>1. 0 \in Byte /\ 1 \in Byte /\ 3 \in Byte /\ 4 \in Byte /\ 9 \in Byte
  BY BytesAreBytes DEF Byte
<1>2. <<0>> \in Seq(Byte) /\ <<1, 0>> \in Seq(Byte)
  BY <1>1
<1>3. <<3, 3>> \in Seq(Byte) /\ <<3, 4>> \in Seq(Byte)
  BY <1>1
<1>4. PublicKey \in Seq(Byte)
  <2>1. PublicKey \in [1..X25519Size -> Byte] /\ X25519Size \in Nat
    BY <1>1, SizesAssumption DEF PublicKey
  <2> QED BY <2>1, FunctionIsSequence
<1> QED BY <1>2, <1>3, <1>4, BytesAssumption, BytesAreBytes DEF TLS_1_2, TLS_1_3

\* The extensions a ClientHello is built with.
LEMMA HelloExtensionsBytes ==
  ASSUME NEW m
  PROVE  HelloExtensions(m) \in Seq(EntrySet)
<1>1. ServerName \in Seq(Byte)
  <2>1. Vector(2, Domain) \in Seq(Byte)
    BY FixedBytes, VectorBytes
  <2>2. <<0>> \o Vector(2, Domain) \in Seq(Byte)
    BY <2>1, FixedBytes, ConcatBytes
  <2> QED BY <2>2, VectorBytes DEF ServerName
<1>2. Vector(2, Digits(2, GROUP_X25519)) \in Seq(Byte)
  <2>1. Digits(2, GROUP_X25519) \in Seq(Byte)
    BY DigitsShape DEF GROUP_X25519
  <2> QED BY <2>1, VectorBytes
<1>3. Vector(2, Shorts(Offered(m))) \in Seq(Byte)
  <2>1. Shorts(Offered(m)) \in Seq(Byte)
    BY SchemesNumbers, ShortsBytes DEF Offered
  <2> QED BY <2>1, VectorBytes
<1>4. Vector(2, Shorts(<<1027, 1025>>)) \in Seq(Byte)
  <2>1. \A a, b \in Nat : <<a, b>> \in Seq(Nat)
    OBVIOUS
  <2>2. \A a, b \in Nat : Shorts(<<a, b>>) \in Seq(Byte)
    BY <2>1, ShortsBytes
  <2>3. Shorts(<<1027, 1025>>) \in Seq(Byte)
    BY <2>2
  <2> QED BY <2>3, VectorBytes
<1>5. Vector(1, TLS_1_3) \in Seq(Byte)
  BY FixedBytes, VectorBytes
<1>6. KeyShares \in Seq(Byte)
  <2>1. GROUP_X25519 \in Nat
    BY DEF GROUP_X25519
  <2>2. Extension(GROUP_X25519, PublicKey) \in Seq(Byte)
    BY <2>1, FixedBytes, ExtensionBytes
  <2> QED BY <2>2, VectorBytes DEF KeyShares
<1>7. {SERVER_NAME, SUPPORTED_GROUPS, SIGNATURE_ALGORITHMS, SIGNATURE_ALGORITHMS_CERT,
       SUPPORTED_VERSIONS, KEY_SHARE} \subseteq Nat
  BY DEF SERVER_NAME, SUPPORTED_GROUPS, SIGNATURE_ALGORITHMS, SIGNATURE_ALGORITHMS_CERT,
         SUPPORTED_VERSIONS, KEY_SHARE
<1> DEFINE e(type, data) == [type |-> type, data |-> data]
<1>8. \A type \in Nat, data \in Seq(Byte) : e(type, data) \in EntrySet
  BY DEF EntrySet
<1>9. HelloExtensions(m)
        = <<e(SERVER_NAME, ServerName),
            e(SUPPORTED_GROUPS, Vector(2, Digits(2, GROUP_X25519))),
            e(SIGNATURE_ALGORITHMS, Vector(2, Shorts(Offered(m)))),
            e(SIGNATURE_ALGORITHMS_CERT, Vector(2, Shorts(<<1027, 1025>>))),
            e(SUPPORTED_VERSIONS, Vector(1, TLS_1_3)), e(KEY_SHARE, KeyShares)>>
  BY DEF HelloExtensions
<1> HIDE DEF e
<1>10. /\ e(SERVER_NAME, ServerName) \in EntrySet
       /\ e(SUPPORTED_GROUPS, Vector(2, Digits(2, GROUP_X25519))) \in EntrySet
       /\ e(SIGNATURE_ALGORITHMS, Vector(2, Shorts(Offered(m)))) \in EntrySet
       /\ e(SIGNATURE_ALGORITHMS_CERT, Vector(2, Shorts(<<1027, 1025>>))) \in EntrySet
       /\ e(SUPPORTED_VERSIONS, Vector(1, TLS_1_3)) \in EntrySet
       /\ e(KEY_SHARE, KeyShares) \in EntrySet
  BY <1>1, <1>2, <1>3, <1>4, <1>5, <1>6, <1>7, <1>8
<1> QED BY <1>9, <1>10

\* The ClientHello is a byte string.
LEMMA ClientHelloBytes ==
  ASSUME NEW m, NEW id \in Seq(Byte)
  PROVE  ClientHelloBody(id, m) \in Seq(Byte)
<1>1. Vector(1, id) \in Seq(Byte)
  BY VectorBytes
<1>2. Vector(2, Shorts(<<AES_128_GCM, CHACHA20>>)) \in Seq(Byte)
  <2>1. PICK x : x = <<AES_128_GCM, CHACHA20>>
    OBVIOUS
  <2>2. x \in Seq(Nat)
    BY <2>1 DEF AES_128_GCM, CHACHA20
  <2>3. Shorts(x) \in Seq(Byte)
    BY <2>2, ShortsBytes
  <2> QED BY <2>1, <2>3, VectorBytes
<1>3. Vector(2, Extensions(HelloExtensions(m))) \in Seq(Byte)
  <2>1. Extensions(HelloExtensions(m)) \in Seq(Byte)
    BY HelloExtensionsBytes, ExtensionsBytes
  <2> QED BY <2>1, VectorBytes
<1>4. PICK a, b, c, d, e, f :
        /\ a = TLS_1_2 /\ b = Challenge /\ c = Vector(1, id)
        /\ d = Vector(2, Shorts(<<AES_128_GCM, CHACHA20>>)) /\ e = <<1, 0>>
        /\ f = Vector(2, Extensions(HelloExtensions(m)))
  OBVIOUS
<1>5. /\ a \in Seq(Byte) /\ b \in Seq(Byte) /\ c \in Seq(Byte) /\ d \in Seq(Byte)
      /\ e \in Seq(Byte) /\ f \in Seq(Byte)
  BY <1>1, <1>2, <1>3, <1>4, FixedBytes
<1>6. a \o b \in Seq(Byte)
  BY <1>5, ConcatBytes
<1>7. (a \o b) \o c \in Seq(Byte)
  BY <1>5, <1>6, ConcatBytes
<1>8. ((a \o b) \o c) \o d \in Seq(Byte)
  BY <1>5, <1>7, ConcatBytes
<1>9. (((a \o b) \o c) \o d) \o e \in Seq(Byte)
  BY <1>5, <1>8, ConcatBytes
<1>10. ((((a \o b) \o c) \o d) \o e) \o f \in Seq(Byte)
  BY <1>5, <1>9, ConcatBytes
<1> QED BY <1>4, <1>10 DEF ClientHelloBody

\* A proof of five byte strings is a byte string.
LEMMA ProofBytes ==
  ASSUME NEW a \in Seq(Byte), NEW b \in Seq(Byte), NEW c \in Seq(Byte), NEW d \in Seq(Byte),
         NEW e \in Seq(Byte)
  PROVE  EncodedProof(<<a, b, c, d, e>>) \in Seq(Byte)
<1>1. /\ CLIENT_HELLO \in Byte /\ SERVER_HELLO \in Byte /\ ENCRYPTED_EXTENSIONS \in Byte
      /\ CERTIFICATE \in Byte /\ CERTIFICATE_VERIFY \in Byte /\ PROOF_VERSION \in Byte
  BY BytesAreBytes DEF CLIENT_HELLO, SERVER_HELLO, ENCRYPTED_EXTENSIONS, CERTIFICATE,
                       CERTIFICATE_VERIFY, PROOF_VERSION, Byte
<1>2. PICK bodies : bodies = <<a, b, c, d, e>>
  OBVIOUS
<1>3. PICK ha, hb, hc, hd, he :
         /\ ha = Handshake(CLIENT_HELLO, a) /\ hb = Handshake(SERVER_HELLO, b)
         /\ hc = Handshake(ENCRYPTED_EXTENSIONS, c) /\ hd = Handshake(CERTIFICATE, d)
         /\ he = Handshake(CERTIFICATE_VERIFY, e)
  OBVIOUS
<1>4. /\ ha \in Seq(Byte) /\ hb \in Seq(Byte) /\ hc \in Seq(Byte) /\ hd \in Seq(Byte)
      /\ he \in Seq(Byte)
  BY <1>1, <1>3, HandshakeBytes
<1>5. AreMessages(bodies, ha, hb, hc, hd, he)
  <2>1. /\ bodies[1] = a /\ bodies[2] = b /\ bodies[3] = c /\ bodies[4] = d /\ bodies[5] = e
    BY <1>2
  <2> QED BY <1>3, <1>4, <2>1 DEF AreMessages
<1>6. EncodedProof(bodies) = <<PROOF_VERSION>> \o ((((ha \o hb) \o hc) \o hd) \o he)
  BY <1>5, FiveMessages
<1>7. (((ha \o hb) \o hc) \o hd) \o he \in Seq(Byte)
  <2>1. ha \o hb \in Seq(Byte)
    BY <1>4, ConcatBytes
  <2>2. (ha \o hb) \o hc \in Seq(Byte)
    BY <1>4, <2>1, ConcatBytes
  <2>3. ((ha \o hb) \o hc) \o hd \in Seq(Byte)
    BY <1>4, <2>2, ConcatBytes
  <2> QED BY <1>4, <2>3, ConcatBytes
<1>8. PICK x : x = <<PROOF_VERSION>>
  OBVIOUS
<1>9. x \in Seq(Byte)
  BY <1>1, <1>8
<1>10. x \o ((((ha \o hb) \o hc) \o hd) \o he) \in Seq(Byte)
  BY <1>7, <1>9, ConcatBytes
<1> QED BY <1>2, <1>6, <1>8, <1>10

\* The end of a byte string is a byte string.
LEMMA FromBytes ==
  ASSUME NEW data \in Seq(Byte), NEW from \in Nat
  PROVE  From(data, from) \in Seq(Byte)
<1>1. From(data, from) = SubSeq(data, from + 1, Len(data))
  BY DEF From, Slice
<1>2. from + 1 \in Int /\ Len(data) \in Int /\ \A i \in (from + 1)..Len(data) : data[i] \in Byte
  OBVIOUS
<1>3. PICK first : first = from + 1
  OBVIOUS
<1>4. SubSeq(data, first, Len(data)) \in Seq(Byte)
  BY <1>2, <1>3, SubSeqProperties
<1> QED BY <1>1, <1>3, <1>4

-----------------------------------------------------------------------------
(* The theorems *)

\* What is received, sent and read are byte strings, and what was parsed is
\* what the proof at hand parses to.
BytesInv ==
    /\ session \in Sessions
    /\ inbound \in Seq(Byte) /\ proof \in Seq(Byte)
    /\ parsed = NotParsed \/ parsed = ParseProof(proof)
    /\ pc \in {"hello", "answered", "flight"} => parsed = NotParsed

\* They stay byte strings: those of the client by what it writes, those of the
\* server and of a changed file by what a network and a file hold.
LEMMA StaysBytes == Spec => []BytesInv
<1>1. Init => BytesInv
  <2>1. <<>> \in Seq(Byte)
    OBVIOUS
  <2> QED BY <2>1 DEF Init, BytesInv
<1>2. ASSUME BytesInv, [Next]_vars PROVE BytesInv'
  <2>1. CASE ServerAnswers
    <3>1. inbound' \in Seq(Byte)
      BY <1>2, <2>1, BytesAssumption, BytesAreBytes DEF ServerAnswers, BytesInv
    <3> QED BY <1>2, <2>1, <3>1 DEF ServerAnswers, BytesInv
  <2>2. CASE TakeHello
    BY <1>2, <2>2 DEF TakeHello, BytesInv
  <2>3. CASE TakeFlight
    <3>1. UNCHANGED <<session, inbound, parsed>> /\ session \in Seq(Byte)
      BY <1>2, <2>3, BytesAssumption, BytesAreBytes DEF TakeFlight, BytesInv
    <3>2. parsed = NotParsed
      BY <1>2, <2>3 DEF TakeFlight, BytesInv
    <3>3. /\ pc' \in {"captured", "failed"}
          /\ \/ UNCHANGED proof
             \/ \E flight \in Flights :
                   proof' = EncodedProof(<<ClientHelloBody(session, mask), From(inbound, 4),
                                flight.extensions, flight.certificate, flight.verify>>)
      BY <2>3 DEF TakeFlight
    <3>4. proof' \in Seq(Byte)
      <4>1. CASE UNCHANGED proof
        BY <1>2, <4>1 DEF BytesInv
      <4>2. ASSUME NEW flight \in Flights,
                   proof' = EncodedProof(<<ClientHelloBody(session, mask), From(inbound, 4),
                                flight.extensions, flight.certificate, flight.verify>>)
            PROVE  proof' \in Seq(Byte)
        <5>1. /\ flight.extensions \in Seq(Byte) /\ flight.certificate \in Seq(Byte)
              /\ flight.verify \in Seq(Byte)
          BY BytesAssumption, BytesAreBytes
        <5>2. ClientHelloBody(session, mask) \in Seq(Byte)
          BY <3>1, ClientHelloBytes
        <5>3. From(inbound, 4) \in Seq(Byte)
          BY <1>2, FromBytes DEF BytesInv
        <5> QED BY <4>2, <5>1, <5>2, <5>3, ProofBytes
      <4> QED BY <3>3, <4>1, <4>2
    <3> QED BY <1>2, <3>1, <3>2, <3>3, <3>4 DEF BytesInv
  <2>4. CASE CheckCapture
    BY <1>2, <2>4 DEF CheckCapture, BytesInv
  <2>5. CASE Edit
    BY <1>2, <2>5, BytesAreBytes DEF Edit, BytesInv
  <2>6. CASE ReadFile
    BY <1>2, <2>6 DEF ReadFile, BytesInv
  <2>7. CASE Over
    BY <1>2, <2>7 DEF Over, vars, BytesInv
  <2>8. CASE UNCHANGED vars
    BY <1>2, <2>8 DEF vars, BytesInv
  <2> QED BY <1>2, <2>1, <2>2, <2>3, <2>4, <2>5, <2>6, <2>7, <2>8 DEF Next
<1> QED BY <1>1, <1>2, PTL DEF Spec

\* Whoever made or changed a file: what parse_proof accepts is, written again,
\* the same file (protocol.py:346-391), for every file, whatever the sizes.
THEOREM ParsedWhole == Spec => []ParsedIsWhole
<1>1. BytesInv => ParsedIsWhole
  <2> SUFFICES ASSUME BytesInv, parsed.ok PROVE proof = Reencoded(parsed)
    BY DEF ParsedIsWhole
  <2>1. ~NotParsed.ok
    BY DEF NotParsed
  <2>2. proof \in Seq(Byte) /\ parsed = ParseProof(proof)
    BY <2>1 DEF BytesInv
  <2> QED BY <2>2, ProofExact
<1> QED BY <1>1, StaysBytes, PTL

\* parse_server_hello stays inside the message.
LEMMA TakeStaysInside ==
  ASSUME NEW message \in Seq(Byte), NEW id
  PROVE  TakeServerHello(message, id).verdict # "escapes"
<1>1. PICK body, start : body = From(message, 4) /\ start = RandomSize + 2
  OBVIOUS
<1>2. PICK size, at : size = body[start + 1] /\ at = start + 1
  OBVIOUS
<1>3. PICK compression : compression = at + size + 2
  OBVIOUS
<1>4. RandomSize \in Nat /\ body \in Seq(Byte)
  BY <1>1, BytesAssumption, FromBytes DEF RandomSize, ByteStrings
<1>5. SUFFICES ASSUME TakeServerHello(message, id).verdict = "escapes" PROVE FALSE
  OBVIOUS
<1>6. /\ Len(body) >= RandomSize + 6
      /\ \/ Len(body) <= start
         \/ SessionFits(body, size, at) /\ Len(body) <= compression
  BY <1>1, <1>2, <1>3, <1>5 DEF TakeServerHello
<1>7. start \in Nat /\ start < Len(body)
  BY <1>1, <1>4, <1>6
<1>8. size \in Nat
  <2>1. body[start + 1] \in Byte
    BY <1>4, <1>7
  <2>2. \A b \in Byte : b \in Nat
    BY BaseAssumption DEF Byte
  <2> QED BY <1>2, <2>1, <2>2
<1>9. Len(body) - at >= size + 5 /\ Len(body) <= compression
  BY <1>4, <1>6, <1>7 DEF SessionFits
<1> QED BY <1>2, <1>3, <1>4, <1>7, <1>8, <1>9

\* No message makes parse_server_hello index beyond its end
\* (tls13.py:290-332), whatever the server sends.
THEOREM ServerHelloParserStaysInside == Spec => []ParserStaysInside
<1>1. Init => ParserStaysInside
  BY DEF Init, NotTaken, ParserStaysInside
<1>2. BytesInv /\ ParserStaysInside /\ [Next]_vars => ParserStaysInside'
  <2> SUFFICES ASSUME BytesInv, ParserStaysInside, [Next]_vars PROVE ParserStaysInside'
    OBVIOUS
  <2>1. CASE TakeHello
    <3>1. taken' = taken \/ taken' = TakeServerHello(inbound, session)
      BY <2>1 DEF TakeHello
    <3>2. inbound \in Seq(Byte)
      BY DEF BytesInv
    <3> QED BY <3>1, <3>2, TakeStaysInside DEF ParserStaysInside
  <2>2. CASE UNCHANGED taken
    BY <2>2 DEF ParserStaysInside
  <2> QED BY <2>1, <2>2 DEF Next, ServerAnswers, TakeFlight, CheckCapture, Edit, ReadFile,
                            Over, vars
<1> QED BY <1>1, <1>2, StaysBytes, PTL DEF Spec

-----------------------------------------------------------------------------
(* What is written is what is read *)

\* What a reader returned that found x in front of b.
Got(r, b, x) == r.ok /\ r.value = x /\ r.at = b

\* How much is covered.
LEMMA CoversLength ==
  ASSUME NEW data \in Seq(Byte), NEW a, NEW b, NEW x, Covers(data, a, b, x)
  PROVE  /\ a \in Nat /\ b \in Nat /\ a <= b /\ b <= Len(data)
         /\ x \in Seq(Byte) /\ Len(x) = b - a
<1>1. a \in Nat /\ b \in Nat /\ a <= b /\ b <= Len(data) /\ x \in Seq(Byte)
      /\ x = Slice(data, a, b)
  BY DEF Covers
<1>2. Len(Slice(data, a, b)) = b - a
  BY <1>1, SliceCovers
<1> QED BY <1>1, <1>2

\* As many bytes as x has, read where x is.
LEMMA ReadGot ==
  ASSUME NEW data \in Seq(Byte), NEW a, NEW b, NEW x, Covers(data, a, b, x),
         NEW n, n = Len(x)
  PROVE  Got(Read(data, a, n), b, x)
<1>1. a \in Nat /\ b \in Nat /\ a <= b /\ b <= Len(data) /\ x = Slice(data, a, b)
  BY DEF Covers
<1>2. Len(x) = b - a
  BY <1>1, SliceCovers
<1>3. a + n = b
  BY <1>1, <1>2
<1>4. PICK r : r = Read(data, a, n)
  OBVIOUS
<1>5. r = [ok |-> b <= Len(data), value |-> Slice(data, a, b), at |-> b]
  BY <1>3, <1>4 DEF Read
<1>6. r.ok = (b <= Len(data)) /\ r.value = Slice(data, a, b) /\ r.at = b
  BY <1>5
<1>7. r.ok /\ r.value = x /\ r.at = b
  BY <1>1, <1>6
<1> QED BY <1>4, <1>7 DEF Got

\* A vector, read where it is.
LEMMA VectorGot ==
  ASSUME NEW data \in Seq(Byte), NEW a, NEW b, NEW width \in Nat, NEW x \in Seq(Byte),
         Covers(data, a, b, Vector(width, x)), FitsIn(width, Len(x))
  PROVE  Got(ReadVector(data, a, width), b, x)
<1>1. PICK d : d = Digits(width, Len(x))
  OBVIOUS
<1>2. d \in Seq(Byte) /\ Len(d) = width /\ Number(d) = Len(x)
  BY <1>1, DigitsShape DEF FitsIn
<1>3. Covers(data, a, b, d \o x)
  BY <1>1 DEF Vector
<1>4. PICK m : m = a + Len(d)
  OBVIOUS
<1>8. Covers(data, a, m, d) /\ Covers(data, m, b, x)
  BY <1>2, <1>3, <1>4, CoversParts
<1>5. Got(Read(data, a, width), m, d)
  BY <1>2, <1>8, ReadGot
<1>6. Got(Read(data, m, Number(d)), b, x)
  BY <1>2, <1>8, ReadGot
<1>7. ReadVector(data, a, width) = Read(data, m, Number(d))
  BY <1>5 DEF Got, ReadVector
<1> QED BY <1>6, <1>7

\* What can be written as an extension.
IsWritable(e) == e \in EntrySet /\ FitsIn(2, e.type) /\ FitsIn(2, Len(e.data))

\* An extension, read where it is.
LEMMA EntryGot ==
  ASSUME NEW data \in Seq(Byte), NEW p, NEW q, NEW e, IsWritable(e),
         Covers(data, p, q, Extension(e.type, e.data))
  PROVE  p \in 0..Len(data) /\ q \in Nat /\ p < q /\ Got(DataRead(data, p), q, e.data)
         /\ Entry(data, p) = e
<1>1. PICK t, d : t = e.type /\ d = e.data
  OBVIOUS
<1>2. t \in Nat /\ d \in Seq(Byte) /\ FitsIn(2, t) /\ FitsIn(2, Len(d)) /\ e = [type |-> t, data |-> d]
  BY <1>1 DEF IsWritable, EntrySet
<1>3. PICK tag, body : tag = Digits(2, t) /\ body = Vector(2, d)
  OBVIOUS
<1>4. tag \in Seq(Byte) /\ Len(tag) = 2 /\ body \in Seq(Byte) /\ Len(body) = 2 + Len(d)
  BY <1>2, <1>3, DigitsShape, VectorBytes
<1>5. Covers(data, p, q, tag \o body)
  BY <1>1, <1>3 DEF Extension
<1>14. PICK m : m = p + Len(tag)
  OBVIOUS
<1>6. Covers(data, p, m, tag) /\ Covers(data, m, q, body)
  BY <1>4, <1>5, <1>14, CoversParts
<1>7. Got(TagRead(data, p), m, tag)
  BY <1>4, <1>6, ReadGot DEF TagRead
<1>8. Got(ReadVector(data, m, 2), q, d)
  BY <1>2, <1>3, <1>6, VectorGot
<1>9. TagRead(data, p).at = m /\ TagRead(data, p).value = tag
  BY <1>7 DEF Got
<1>10. Got(DataRead(data, p), q, d)
  BY <1>8, <1>9 DEF DataRead
<1>11. Number(tag) = t
  BY <1>2, <1>3 DEF FitsIn
<1>12. Entry(data, p) = e
  <2>1. DataRead(data, p).value = d
    BY <1>10 DEF Got
  <2> QED BY <1>2, <1>9, <1>11, <2>1 DEF Entry
<1>13. p \in 0..Len(data) /\ q \in Nat /\ p < q
  <2>1. p \in Nat /\ m \in Nat /\ q \in Nat /\ m <= q /\ p <= m /\ q <= Len(data) /\ m = p + 2
    BY <1>4, <1>6, <1>14 DEF Covers
  <2> QED BY <2>1
<1> QED BY <1>1, <1>10, <1>12, <1>13

\* The pieces of a list of numbers.
ShortPieces(numbers) == [i \in DOMAIN numbers |-> Digits(2, numbers[i])]

\* What was written is what is read: a list of numbers of two bytes.
LEMMA NumbersBack ==
  ASSUME NEW numbers \in Seq(Nat), \A i \in DOMAIN numbers : FitsIn(2, numbers[i])
  PROVE  Len(Shorts(numbers)) = 2 * Len(numbers) /\ NumbersOf(Shorts(numbers)) = numbers
<1>1. PICK n : n = Len(numbers)
  OBVIOUS
<1>2. n \in Nat /\ DOMAIN numbers = 1..n
  BY <1>1
<1>3. PICK s : s = ShortPieces(numbers)
  OBVIOUS
<1>4. s \in Seq(Seq(Byte)) /\ Len(s) = n /\ \A i \in 1..n : s[i] = Digits(2, numbers[i])
  <2>1. s = [i \in 1..n |-> Digits(2, numbers[i])]
    BY <1>2, <1>3 DEF ShortPieces
  <2>2. ASSUME NEW i \in 1..n PROVE Digits(2, numbers[i]) \in Seq(Byte)
    <3>1. numbers[i] \in Nat
      BY <1>1, <1>2
    <3> QED BY <3>1, DigitsShape
  <2>3. s \in [1..n -> Seq(Byte)]
    BY <2>1, <2>2
  <2>4. s \in Seq(Seq(Byte)) /\ Len(s) = n
    BY <1>2, <2>3, FunctionIsSequence
  <2> QED BY <2>1, <2>4
<1>5. PICK data : data = Shorts(numbers)
  OBVIOUS
<1>6. data = FlattenSeq(s)
  BY <1>3, <1>5 DEF Shorts, ShortPieces
<1>7. /\ data \in Seq(Byte) /\ EndOf(s, 0) = 0 /\ EndOf(s, n) = Len(data)
      /\ \A k \in 0..(n - 1) :
            /\ Covers(data, EndOf(s, k), EndOf(s, k + 1), s[k + 1])
            /\ EndOf(s, k + 1) = EndOf(s, k) + Len(s[k + 1])
  BY <1>4, <1>6, PiecesCover
<1>8. ASSUME NEW k \in 0..(n - 1)
      PROVE  EndOf(s, k + 1) = EndOf(s, k) + 2
  <2>1. k + 1 \in 1..n /\ numbers[k + 1] \in Nat
    BY <1>1, <1>2
  <2>2. s[k + 1] = Digits(2, numbers[k + 1])
    BY <1>4, <2>1
  <2>3. Len(s[k + 1]) = 2
    BY <2>1, <2>2, DigitsShape
  <2> QED BY <1>7, <2>3
<1> DEFINE T == {k \in 0..n : EndOf(s, k) = 2 * k}
<1>9. 0..n \subseteq T
  <2>1. 0 \in T
    BY <1>2, <1>7
  <2>2. ASSUME NEW k \in 0..(n - 1), k \in T PROVE k + 1 \in T
    BY <1>2, <1>8, <2>2
  <2> HIDE DEF T
  <2>3. 0 \in Int /\ n \in Int /\ (0 <= n => 0 \in T)
    BY <1>2, <2>1
  <2> QED BY <2>2, <2>3, IntervalInduction
<1>10. Len(data) = 2 * n
  BY <1>2, <1>7, <1>9
<1>11. Len(data) \div 2 = n
  BY <1>2, <1>10
<1>12. ASSUME NEW i \in 1..n PROVE Number(Slice(data, 2 * i - 2, 2 * i)) = numbers[i]
  <2>1. PICK k : k = i - 1
    OBVIOUS
  <2>2. k \in 0..(n - 1) /\ k \in 0..n /\ k + 1 \in 0..n /\ k + 1 = i /\ 2 * k = 2 * i - 2
        /\ 2 * (k + 1) = 2 * i
    BY <1>2, <2>1
  <2>3. EndOf(s, k) = 2 * i - 2 /\ EndOf(s, k + 1) = 2 * i
    BY <1>9, <2>2
  <2>4. Covers(data, 2 * i - 2, 2 * i, Digits(2, numbers[i]))
    BY <1>4, <1>7, <2>2, <2>3
  <2>5. Slice(data, 2 * i - 2, 2 * i) = Digits(2, numbers[i])
    BY <2>4 DEF Covers
  <2> QED BY <1>2, <2>5 DEF FitsIn
<1>13. NumbersOf(data) = [i \in 1..n |-> Number(Slice(data, 2 * i - 2, 2 * i))]
  BY <1>11 DEF NumbersOf
<1>14. NumbersOf(data) = [i \in 1..n |-> numbers[i]]
  BY <1>12, <1>13
<1>15. [i \in 1..n |-> numbers[i]] = numbers
  BY <1>1
<1> QED BY <1>1, <1>5, <1>10, <1>14, <1>15

\* The pieces of a list of extensions.
ExtensionPieces(entries) ==
    [i \in DOMAIN entries |-> Extension(entries[i].type, entries[i].data)]

\* A list of extensions is its pieces, one after the other.
LEMMA WrittenExtensions ==
  ASSUME NEW entries \in Seq(EntrySet)
  PROVE  /\ ExtensionPieces(entries) \in Seq(Seq(Byte))
         /\ Len(ExtensionPieces(entries)) = Len(entries)
         /\ \A i \in 1..Len(entries) :
               ExtensionPieces(entries)[i] = Extension(entries[i].type, entries[i].data)
         /\ Extensions(entries) = FlattenSeq(ExtensionPieces(entries))
<1>1. PICK n, s : n = Len(entries) /\ s = ExtensionPieces(entries)
  OBVIOUS
<1>2. n \in Nat /\ DOMAIN entries = 1..n
  BY <1>1
<1>3. s = [i \in 1..n |-> Extension(entries[i].type, entries[i].data)]
  BY <1>1, <1>2 DEF ExtensionPieces
<1>4. ASSUME NEW i \in 1..n PROVE Extension(entries[i].type, entries[i].data) \in Seq(Byte)
  <2>1. entries[i] \in EntrySet
    BY <1>1, <1>2
  <2>2. entries[i].type \in Nat /\ entries[i].data \in Seq(Byte)
    BY <2>1 DEF EntrySet
  <2> QED BY <2>2, ExtensionBytes
<1>5. s \in [1..n -> Seq(Byte)]
  BY <1>3, <1>4
<1>6. s \in Seq(Seq(Byte)) /\ Len(s) = n
  BY <1>2, <1>5, FunctionIsSequence
<1>7. Extensions(entries) = FlattenSeq(s)
  BY <1>1 DEF Extensions, ExtensionPieces
<1> QED BY <1>1, <1>3, <1>6, <1>7

\* What was written is what is read: a list of extensions.
LEMMA EntriesBack ==
  ASSUME NEW entries \in Seq(EntrySet), \A i \in 1..Len(entries) : IsWritable(entries[i])
  PROVE  Entries(Extensions(entries)) = entries
<1>1. PICK n, s, x : n = Len(entries) /\ s = ExtensionPieces(entries) /\ x = Extensions(entries)
  OBVIOUS
<1>2. /\ s \in Seq(Seq(Byte)) /\ Len(s) = n /\ n \in Nat /\ x = FlattenSeq(s)
      /\ \A i \in 1..n : s[i] = Extension(entries[i].type, entries[i].data)
  BY <1>1, WrittenExtensions
<1>3. x \in Seq(Byte)
  BY <1>2, FlatBytes
<1>4. PICK c : /\ Walked(c, Len(x), Stops(x), Ends(Len(x), Broken), Items(x), Nexts(x))
               /\ Entries(x) = c[0]
  BY <1>3, EntriesWalk
<1>5. Len(x) \in Stops(x)
  BY <1>3 DEF Stops
<1>6. ASSUME NEW k \in 0..(n - 1)
      PROVE  /\ EndOf(s, k) \notin Stops(x)
             /\ Items(x)[EndOf(s, k)] = entries[k + 1] /\ Nexts(x)[EndOf(s, k)] = EndOf(s, k + 1)
  <2>1. k + 1 \in 1..n
    BY <1>2
  <2>2. PICK e, p, q : e = entries[k + 1] /\ p = EndOf(s, k) /\ q = EndOf(s, k + 1)
    OBVIOUS
  <2>3. IsWritable(e)
    BY <1>1, <2>1, <2>2
  <2>4. Covers(x, p, q, Extension(e.type, e.data))
    <3>1. k \in 0..(Len(s) - 1)
      BY <1>2
    <3>2. Covers(FlattenSeq(s), EndOf(s, k), EndOf(s, k + 1), s[k + 1])
      BY <1>2, <3>1, PiecesCover
    <3> QED BY <1>2, <2>1, <2>2, <3>2
  <2>5. /\ p \in 0..Len(x) /\ q \in Nat /\ p < q /\ Got(DataRead(x, p), q, e.data)
        /\ Entry(x, p) = e
    BY ONLY <1>3, <2>3, <2>4, EntryGot
  <2>6. q <= Len(x)
    BY <2>4 DEF Covers
  <2>7. p # Len(x)
    <3>1. PICK all : all = Len(x)
      OBVIOUS
    <3>2. all \in Nat
      BY <1>3, <3>1
    <3> QED BY <2>5, <2>6, <3>1, <3>2
  <2>8. p \notin Stops(x) /\ Items(x)[p] = e /\ Nexts(x)[p] = q
    BY <2>5, <2>7 DEF Stops, Items, Nexts, Got
  <2> QED BY <2>2, <2>8
<1>7. PICK Stop, item, next, V, broken :
         /\ Stop = Stops(x) /\ item = Items(x) /\ next = Nexts(x) /\ V = EntrySet
         /\ broken = Broken
  OBVIOUS
<1>8. s \in Seq(Seq(Byte)) /\ x = FlattenSeq(s) /\ entries \in Seq(V)
  BY <1>2, <1>7
<1>9. Walked(c, Len(x), Stop, Ends(Len(x), broken), item, next) /\ Len(x) \in Stop
  BY <1>4, <1>5, <1>7
<1>10. Placed(s, entries, Stop, item, next)
  <2>1. \A k \in 0..(Len(s) - 1) :
          /\ EndOf(s, k) \notin Stop
          /\ item[EndOf(s, k)] = entries[k + 1] /\ next[EndOf(s, k)] = EndOf(s, k + 1)
    BY <1>2, <1>6, <1>7
  <2> QED BY <1>1, <1>2, <2>1 DEF Placed
<1>11. c[0] = entries
  BY ONLY <1>8, <1>9, <1>10, ReadsBack
<1> QED BY <1>1, <1>4, <1>11

\* A list of up to 64 kB has entries that can be read again.
IsShort(n) == n \in Nat /\ n < Base * Base

\* Below it are only such, and each is written in two or three bytes.
LEMMA ShortFits ==
  ASSUME NEW n \in Nat
  PROVE  /\ IsShort(n) => FitsIn(2, n) /\ FitsIn(3, n)
         /\ \A k \in Nat : IsShort(k) /\ n <= k => IsShort(n)
<1>1. IsShort(n) => FitsIn(2, n) /\ FitsIn(3, n)
  <2>1. Base = 256 /\ 256 * 256 = 65536
    BY SMT, BytesAreBytes
  <2>2. IsShort(n) => n < 65536
    BY SMT, <2>1 DEF IsShort
  <2>3. n < 65536 => FitsIn(2, n) /\ FitsIn(3, n)
    BY SMT, <2>1, SmallNumbersFit
  <2> QED BY ONLY <2>2, <2>3
<1>2. \A k \in Nat : IsShort(k) /\ n <= k => IsShort(n)
  <2>1. PICK square : square = Base * Base
    OBVIOUS
  <2>2. square \in Nat
    BY SMT, <2>1, BytesAreBytes
  <2> QED BY <2>1, <2>2 DEF IsShort
<1> QED BY <1>1, <1>2

\* A message that protocol.py does not find too long is short.
LEMMA MessageIsShort ==
  ASSUME NEW i \in 1..5, NEW n \in Nat, n + 4 <= MaxSize[MessageTypes[i]]
  PROVE  IsShort(n)
<1>1. DOMAIN MessageTypes = 1..5
  BY DEF MessageTypes
<1>2. PICK max : max = MaxSize[MessageTypes[i]]
  OBVIOUS
<1>3. PICK square : square = Base * Base
  OBVIOUS
<1>4. square \in Nat
  BY SMT, <1>3, BytesAreBytes
<1>5. max \in 0..(square - 1)
  BY <1>1, <1>2, <1>3, LimitsAssumption
<1>6. n < square
  BY ONLY n \in Nat, n + 4 <= MaxSize[MessageTypes[i]], <1>2, <1>4, <1>5
<1> QED BY <1>3, <1>6 DEF IsShort

\* The data of each extension of a short list is short.
LEMMA ShortList ==
  ASSUME NEW entries \in Seq(EntrySet), NEW n, n = Len(Extensions(entries)), IsShort(n),
         \A i \in 1..Len(entries) : FitsIn(2, entries[i].type)
  PROVE  \A i \in 1..Len(entries) : IsWritable(entries[i]) /\ IsShort(Len(entries[i].data))
<1> SUFFICES ASSUME NEW i \in 1..Len(entries)
             PROVE  IsWritable(entries[i]) /\ IsShort(Len(entries[i].data))
  OBVIOUS
<1>1. PICK s, x, e, k : /\ s = ExtensionPieces(entries) /\ x = Extensions(entries)
                        /\ e = entries[i] /\ k = i - 1
  OBVIOUS
<1>2. /\ s \in Seq(Seq(Byte)) /\ Len(s) = Len(entries) /\ x = FlattenSeq(s)
      /\ s[i] = Extension(e.type, e.data)
  BY <1>1, WrittenExtensions
<1>3. e \in EntrySet /\ e.type \in Nat /\ e.data \in Seq(Byte) /\ FitsIn(2, e.type)
  <2>1. e \in EntrySet
    BY <1>1
  <2> QED BY <1>1, <2>1 DEF EntrySet
<1>4. x \in Seq(Byte) /\ Covers(x, EndOf(s, k), EndOf(s, k + 1), s[k + 1])
  <2>1. k \in 0..(Len(s) - 1)
    BY <1>1, <1>2
  <2> QED BY <1>2, <2>1, PiecesCover
<1>5. k + 1 = i
  BY <1>1
<1>6. PICK p, q, y : p = EndOf(s, k) /\ q = EndOf(s, k + 1) /\ y = s[i]
  OBVIOUS
<1>7. Covers(x, p, q, y)
  BY <1>4, <1>5, <1>6
<1>8. p \in Nat /\ q \in Nat /\ p <= q /\ q <= Len(x) /\ Len(y) = q - p
  BY <1>4, <1>7, SliceCovers DEF Covers
<1>9. Len(y) = 2 + (2 + Len(e.data)) /\ Len(e.data) \in Nat
  <2>1. PICK t, v : t = Digits(2, e.type) /\ v = Vector(2, e.data)
    OBVIOUS
  <2>2. t \in Seq(Byte) /\ Len(t) = 2
    BY <1>3, <2>1, DigitsShape
  <2>3. v \in Seq(Byte) /\ Len(v) = 2 + Len(e.data)
    BY <1>3, <2>1, VectorBytes
  <2>4. Len(t \o v) = Len(t) + Len(v)
    BY ONLY <2>2, <2>3, ConcatShape
  <2>5. y = t \o v
    BY <1>2, <1>6, <2>1 DEF Extension
  <2>6. Len(e.data) \in Nat
    BY <1>3
  <2> QED BY ONLY <2>2, <2>3, <2>4, <2>5, <2>6
<1>10. PICK m : m = Len(e.data)
  OBVIOUS
<1>11. m \in Nat /\ m <= n /\ n \in Nat
  BY <1>1, <1>4, <1>8, <1>9, <1>10
<1>12. FitsIn(2, m) /\ IsShort(m)
  BY ONLY <1>11, IsShort(n), ShortFits
<1> QED BY <1>1, <1>3, <1>10, <1>12 DEF IsWritable

-----------------------------------------------------------------------------
(* The ClientHello that is sent, read back *)

\* The data are six byte strings, one after the other.
AreSix(data, a, b, c, d, e, f) ==
    \E p, q, r, s, t :
        /\ Covers(data, 0, p, a) /\ Covers(data, p, q, b) /\ Covers(data, q, r, c)
        /\ Covers(data, r, s, d) /\ Covers(data, s, t, e) /\ Covers(data, t, Len(data), f)

\* They are found where they were put.
LEMMA SixParts ==
  ASSUME NEW a \in Seq(Byte), NEW b \in Seq(Byte), NEW c \in Seq(Byte), NEW d \in Seq(Byte),
         NEW e \in Seq(Byte), NEW f \in Seq(Byte), NEW data,
         data = ((((a \o b) \o c) \o d) \o e) \o f
  PROVE  data \in Seq(Byte) /\ AreSix(data, a, b, c, d, e, f)
<1>1. PICK w, x, y, z : w = a \o b /\ x = w \o c /\ y = x \o d /\ z = y \o e
  OBVIOUS
<1>2. w \in Seq(Byte)
  BY <1>1, ConcatBytes
<1>3. x \in Seq(Byte)
  BY <1>1, <1>2, ConcatBytes
<1>4. y \in Seq(Byte)
  BY <1>1, <1>3, ConcatBytes
<1>5. z \in Seq(Byte)
  BY <1>1, <1>4, ConcatBytes
<1>6. data = z \o f
  BY <1>1
<1>7. data \in Seq(Byte)
  BY <1>5, <1>6, ConcatBytes
<1>8. Covers(data, 0, Len(data), z \o f)
  <2>1. 0 \in Nat /\ Len(data) \in Nat /\ 0 <= Len(data)
    BY <1>7
  <2>2. Slice(data, 0, Len(data)) = data
    BY <1>7, SliceWhole
  <2> QED BY <1>6, <1>7, <2>1, <2>2 DEF Covers
<1>9. PICK t : t = 0 + Len(z)
  OBVIOUS
<1>10. Covers(data, 0, t, y \o e) /\ Covers(data, t, Len(data), f)
  BY <1>1, <1>5, <1>7, <1>8, <1>9, CoversParts
<1>11. PICK s : s = 0 + Len(y)
  OBVIOUS
<1>12. Covers(data, 0, s, x \o d) /\ Covers(data, s, t, e)
  BY <1>1, <1>4, <1>7, <1>10, <1>11, CoversParts
<1>13. PICK r : r = 0 + Len(x)
  OBVIOUS
<1>14. Covers(data, 0, r, w \o c) /\ Covers(data, r, s, d)
  BY <1>1, <1>3, <1>7, <1>12, <1>13, CoversParts
<1>15. PICK q : q = 0 + Len(w)
  OBVIOUS
<1>16. Covers(data, 0, q, a \o b) /\ Covers(data, q, r, c)
  BY <1>1, <1>2, <1>7, <1>14, <1>15, CoversParts
<1>17. PICK p : p = 0 + Len(a)
  OBVIOUS
<1>18. Covers(data, 0, p, a) /\ Covers(data, p, q, b)
  BY <1>7, <1>16, <1>17, CoversParts
<1> QED BY <1>7, <1>10, <1>12, <1>14, <1>16, <1>18 DEF AreSix

\* Small numbers can be written.
LEMMA OneByteFits == \A n \in 0..255 : FitsIn(1, n) /\ FitsIn(2, n)
<1> SUFFICES ASSUME NEW n \in 0..255 PROVE FitsIn(1, n) /\ FitsIn(2, n)
  OBVIOUS
<1>1. n \in Nat /\ n < 256 /\ n < 65536 /\ Base = 256
  BY SMT, BytesAreBytes
<1> QED BY ONLY <1>1, SmallNumbersFit

\* The fields of the client's own hello.
LEMMA OwnFields ==
  ASSUME NEW id \in Sessions, NEW m \in Masks, NEW body, body = ClientHelloBody(id, m),
         NEW ciphers, ciphers = Shorts(<<AES_128_GCM, CHACHA20>>), Len(ciphers) = 4,
         ciphers \in Seq(Byte), NEW block, block = Extensions(HelloExtensions(m))
  PROVE  /\ body \in Seq(Byte) /\ IsShort(Len(block)) /\ IsShort(Len(body))
         /\ \E p, q, r, s, t : /\ Got(Read(body, 0, 2), p, TLS_1_2)
                               /\ Got(Read(body, p, RandomSize), q, Challenge)
                               /\ Got(ReadVector(body, q, 1), r, id)
                               /\ Got(ReadVector(body, r, 2), s, ciphers)
                               /\ Got(ReadVector(body, s, 1), t, <<0>>)
                               /\ Got(ReadVector(body, t, 2), Len(body), block)
<1>1. PICK a, b, c, d, e, f, zero :
        /\ a = TLS_1_2 /\ b = Challenge /\ c = Vector(1, id) /\ d = Vector(2, ciphers)
        /\ e = <<1, 0>> /\ f = Vector(2, block) /\ zero = <<0>>
  OBVIOUS
<1>2. id \in Seq(Byte) /\ block \in Seq(Byte)
  <2>1. block \in Seq(Byte)
    BY HelloExtensionsBytes, ExtensionsBytes
  <2> QED BY <2>1, BytesAssumption, BytesAreBytes
<1>3. /\ a \in Seq(Byte) /\ b \in Seq(Byte) /\ c \in Seq(Byte) /\ d \in Seq(Byte)
      /\ e \in Seq(Byte) /\ f \in Seq(Byte) /\ zero \in Seq(Byte)
      /\ Len(f) = 2 + Len(block)
  BY <1>1, <1>2, FixedBytes, VectorBytes
<1>4. body = ((((a \o b) \o c) \o d) \o e) \o f
  BY <1>1 DEF ClientHelloBody
<1>5. body \in Seq(Byte) /\ AreSix(body, a, b, c, d, e, f)
  BY ONLY <1>3, <1>4, SixParts
<1>6. PICK p, q, r, s, t :
               /\ Covers(body, 0, p, a) /\ Covers(body, p, q, b) /\ Covers(body, q, r, c)
               /\ Covers(body, r, s, d) /\ Covers(body, s, t, e)
               /\ Covers(body, t, Len(body), f)
  BY <1>5 DEF AreSix
<1>7. Len(a) = 2 /\ Len(b) = RandomSize /\ Len(zero) = 1
  BY <1>1 DEF TLS_1_2, RandomSize
<1>8. e = Vector(1, zero)
  BY <1>1, SmallVectors
<1>9. Len(id) \in 0..255
  <2>1. PICK n, k : n = Len(id) /\ k = MaxSession
    OBVIOUS
  <2>2. n \in 1..k /\ k \in 0..255
    BY <2>1, SizesAssumption
  <2>3. n \in 0..255
    BY ONLY <2>2
  <2> QED BY <2>1, <2>3
<1>10. IsShort(Len(body)) /\ IsShort(Len(block))
  <2>1. PICK n, k : n = Len(body) /\ k = Len(block)
    OBVIOUS
  <2>2. n \in Nat /\ k \in Nat
    BY <1>2, <1>5, <2>1
  <2>3. MessageTypes[1] = CLIENT_HELLO
    BY DEF MessageTypes
  <2>4. n + 4 <= MaxSize[MessageTypes[1]]
    BY <2>1, <2>3, HelloAssumption
  <2>5. 1 \in 1..5
    OBVIOUS
  <2>6. IsShort(n)
    BY ONLY <2>2, <2>4, <2>5, MessageIsShort
  <2>7. t \in Nat /\ t <= n /\ Len(f) = n - t
    BY <1>5, <1>6, <2>1, CoversLength
  <2>8. k <= n
    BY <1>3, <2>1, <2>2, <2>7
  <2>9. IsShort(k)
    BY ONLY <2>2, <2>6, <2>8, ShortFits
  <2> QED BY <2>1, <2>6, <2>9
<1>11. FitsIn(2, Len(block)) /\ FitsIn(2, Len(ciphers)) /\ FitsIn(1, Len(id)) /\ FitsIn(1, Len(zero))
  <2>1. 4 \in 0..255 /\ 1 \in 0..255
    OBVIOUS
  <2>2. FitsIn(2, Len(block))
    BY <1>2, <1>10, ShortFits
  <2> QED BY <1>7, <1>9, <2>1, <2>2, OneByteFits
<1>12. Got(Read(body, 0, 2), p, a) /\ Got(Read(body, p, RandomSize), q, b)
  BY <1>5, <1>6, <1>7, ReadGot
<1>13. Got(ReadVector(body, q, 1), r, id)
  BY <1>1, <1>2, <1>5, <1>6, <1>11, VectorGot
<1>14. Got(ReadVector(body, r, 2), s, ciphers)
  BY <1>1, <1>5, <1>6, <1>11, VectorGot
<1>15. Got(ReadVector(body, s, 1), t, zero)
  BY <1>3, <1>5, <1>6, <1>8, <1>11, VectorGot
<1>16. Got(ReadVector(body, t, 2), Len(body), block)
  BY <1>1, <1>2, <1>5, <1>6, <1>11, VectorGot
<1> QED BY <1>1, <1>5, <1>10, <1>12, <1>13, <1>14, <1>15, <1>16

\* The extensions the client writes, one by one.
LEMMA HelloEntries ==
  ASSUME NEW m, NEW e, e = HelloExtensions(m)
  PROVE  /\ e \in Seq(EntrySet) /\ Len(e) = 6
         /\ e[1].type = 0 /\ e[2].type = 10 /\ e[3].type = 13
         /\ e[4].type = 50 /\ e[5].type = 43 /\ e[6].type = 51
         /\ e[1].data = ServerName /\ e[3].data = Vector(2, Shorts(Schemes(m)))
         /\ e[5].data = Vector(1, TLS_1_3) /\ e[6].data = KeyShares
<1>1. PICK a, b, c, d, f, g :
        /\ a = ServerName /\ b = Vector(2, Digits(2, GROUP_X25519))
        /\ c = Vector(2, Shorts(Schemes(m))) /\ d = Vector(2, Shorts(<<1027, 1025>>))
        /\ f = Vector(1, TLS_1_3) /\ g = KeyShares
  OBVIOUS
<1>2. e = << [type |-> 0, data |-> a], [type |-> 10, data |-> b], [type |-> 13, data |-> c],
             [type |-> 50, data |-> d], [type |-> 43, data |-> f], [type |-> 51, data |-> g] >>
  BY <1>1 DEF HelloExtensions, Offered, SERVER_NAME, SUPPORTED_GROUPS, SIGNATURE_ALGORITHMS,
              SIGNATURE_ALGORITHMS_CERT, SUPPORTED_VERSIONS, KEY_SHARE
<1>3. e \in Seq(EntrySet)
  BY HelloExtensionsBytes
<1>4. /\ Len(e) = 6
      /\ e[1].type = 0 /\ e[2].type = 10 /\ e[3].type = 13
      /\ e[4].type = 50 /\ e[5].type = 43 /\ e[6].type = 51
      /\ e[1].data = a /\ e[3].data = c /\ e[5].data = f /\ e[6].data = g
  BY ONLY <1>2
<1> QED BY <1>1, <1>3, <1>4

\* They can be read again, each by its type.
LEMMA HelloBack ==
  ASSUME NEW m, NEW e, e = HelloExtensions(m), IsShort(Len(Extensions(e)))
  PROVE  /\ Entries(Extensions(e)) = e /\ IsList(e)
         /\ Types(e) = {0, 10, 13, 50, 43, 51}
         /\ IsShort(Len(ServerName)) /\ IsShort(Len(KeyShares))
         /\ Data(e, SERVER_NAME) = ServerName
         /\ Data(e, SIGNATURE_ALGORITHMS) = Vector(2, Shorts(Schemes(m)))
         /\ Data(e, SUPPORTED_VERSIONS) = Vector(1, TLS_1_3)
         /\ Data(e, KEY_SHARE) = KeyShares
<1>1. /\ e \in Seq(EntrySet) /\ Len(e) = 6
      /\ e[1].type = 0 /\ e[2].type = 10 /\ e[3].type = 13
      /\ e[4].type = 50 /\ e[5].type = 43 /\ e[6].type = 51
      /\ e[1].data = ServerName /\ e[3].data = Vector(2, Shorts(Schemes(m)))
      /\ e[5].data = Vector(1, TLS_1_3) /\ e[6].data = KeyShares
  BY HelloEntries
<1>2. DOMAIN e = 1..6 /\ \A i \in 1..6 : i = 1 \/ i = 2 \/ i = 3 \/ i = 4 \/ i = 5 \/ i = 6
  BY <1>1
<1>3. \A i \in 1..6 : e[i].type \in {0, 10, 13, 50, 43, 51}
  BY <1>1, <1>2
<1>4. \A i \in 1..Len(e) : FitsIn(2, e[i].type)
  <2>1. {0, 10, 13, 50, 43, 51} \subseteq 0..255
    OBVIOUS
  <2>2. \A k \in {0, 10, 13, 50, 43, 51} : FitsIn(2, k)
    BY ONLY <2>1, OneByteFits
  <2> QED BY <1>1, <1>3, <2>2
<1>5. PICK n : n = Len(Extensions(e))
  OBVIOUS
<1>6. \A i \in 1..Len(e) : IsWritable(e[i]) /\ IsShort(Len(e[i].data))
  BY <1>1, <1>4, <1>5, ShortList
<1>7. Entries(Extensions(e)) = e
  BY <1>1, <1>6, EntriesBack
<1>8. Broken \notin ToSet(e)
  <2>1. ASSUME NEW i \in 1..6 PROVE e[i] # Broken
    <3>1. Broken.type = Base * Base /\ Base = 256
      BY BytesAreBytes DEF Broken
    <3>2. PICK k : k = e[i].type
      OBVIOUS
    <3>3. k \in {0, 10, 13, 50, 43, 51} /\ \A b : b = 256 => k # b * b
      BY SMT, <1>3, <3>2
    <3> QED BY <3>1, <3>2, <3>3
  <2> QED BY <1>2, <2>1 DEF ToSet
<1>9. \A i, j \in 1..6 : e[i].type = e[j].type => i = j
  <2> SUFFICES ASSUME NEW i \in 1..6, NEW j \in 1..6, e[i].type = e[j].type PROVE i = j
    OBVIOUS
  <2>1. CASE i = 1
    BY <1>1, <1>2, <2>1
  <2>2. CASE i = 2
    BY <1>1, <1>2, <2>2
  <2>3. CASE i = 3
    BY <1>1, <1>2, <2>3
  <2>4. CASE i = 4
    BY <1>1, <1>2, <2>4
  <2>5. CASE i = 5
    BY <1>1, <1>2, <2>5
  <2>6. CASE i = 6
    BY <1>1, <1>2, <2>6
  <2> QED BY <1>2, <2>1, <2>2, <2>3, <2>4, <2>5, <2>6
<1>10. IsList(e)
  BY <1>2, <1>8, <1>9 DEF IsList
<1>11. Types(e) = {0, 10, 13, 50, 43, 51}
  <2>1. Types(e) = {e[i].type : i \in 1..6}
    BY <1>2 DEF Types
  <2>2. 1 \in 1..6 /\ 2 \in 1..6 /\ 3 \in 1..6 /\ 4 \in 1..6 /\ 5 \in 1..6 /\ 6 \in 1..6
    OBVIOUS
  <2> QED BY <1>1, <1>3, <2>1, <2>2
<1>12. \A i \in 1..6 : Data(e, e[i].type) = e[i].data
  BY <1>1, <1>2, <1>10, DataOfEntry
<1>13. /\ Data(e, 0) = ServerName /\ Data(e, 13) = Vector(2, Shorts(Schemes(m)))
       /\ Data(e, 43) = Vector(1, TLS_1_3) /\ Data(e, 51) = KeyShares
  <2>1. 1 \in 1..6 /\ 3 \in 1..6 /\ 5 \in 1..6 /\ 6 \in 1..6
    OBVIOUS
  <2>2. /\ Data(e, e[1].type) = e[1].data /\ Data(e, e[3].type) = e[3].data
        /\ Data(e, e[5].type) = e[5].data /\ Data(e, e[6].type) = e[6].data
    BY ONLY <1>12, <2>1
  <2> QED BY <1>1, <2>2
<1>14. IsShort(Len(ServerName)) /\ IsShort(Len(KeyShares))
  <2>1. 1 \in 1..Len(e) /\ 6 \in 1..Len(e)
    BY <1>1
  <2> QED BY <1>1, <1>6, <2>1
<1> QED BY <1>7, <1>10, <1>11, <1>13, <1>14 DEF SERVER_NAME, SIGNATURE_ALGORITHMS,
                                            SUPPORTED_VERSIONS, KEY_SHARE

\* The three schemes, each in two bytes.
LEMMA AlgorithmsAre ==
  \E x, y, z : /\ IsShort(x) /\ IsShort(y) /\ IsShort(z)
               /\ Algorithms = << [mask |-> 1, scheme |-> x], [mask |-> 2, scheme |-> y],
                                  [mask |-> 4, scheme |-> z] >>
<1>1. IsShort(1027) /\ IsShort(2052) /\ IsShort(2057)
  BY SMT, BytesAreBytes DEF IsShort
<1> QED BY SMT, <1>1 DEF Algorithms

\* The schemes that are offered: one, two or three, each in two bytes.
LEMMA SchemesShape ==
  ASSUME NEW m \in 1..7
  PROVE  /\ Schemes(m) \in Seq(Nat) /\ Len(Schemes(m)) \in 1..3
         /\ \A i \in DOMAIN Schemes(m) : FitsIn(2, Schemes(m)[i])
<1>20. PICK V : V = {v \in Nat : IsShort(v)}
  OBVIOUS
<1> DEFINE a(i) == IF (m \div Algorithms[i].mask) % 2 = 1
                   THEN <<Algorithms[i].scheme>> ELSE <<>>
<1>1. /\ DOMAIN Algorithms = 1..3
      /\ \A i \in 1..3 : Algorithms[i].scheme \in V
      /\ Algorithms[1].mask = 1 /\ Algorithms[2].mask = 2 /\ Algorithms[3].mask = 4
  <2>1. PICK x, y, z : /\ IsShort(x) /\ IsShort(y) /\ IsShort(z)
               /\ Algorithms = << [mask |-> 1, scheme |-> x], [mask |-> 2, scheme |-> y],
                                  [mask |-> 4, scheme |-> z] >>
    BY AlgorithmsAre
  <2>2. x \in V /\ y \in V /\ z \in V
    BY <1>20, <2>1 DEF IsShort
  <2>3. \A i \in 1..3 : i = 1 \/ i = 2 \/ i = 3
    OBVIOUS
  <2> QED BY <2>1, <2>2, <2>3
<1>2. \A i \in 1..3 : a(i) \in Seq(V) /\ Len(a(i)) \in 0..1
  BY <1>1
<1>18. \A i \in 1..3 : (m \div Algorithms[i].mask) % 2 = 1 => Len(a(i)) = 1
  OBVIOUS
<1>19. PICK s : s = [i \in 1..3 |-> a(i)]
  OBVIOUS
<1>4. s[1] = a(1) /\ s[2] = a(2) /\ s[3] = a(3)
  <2> HIDE DEF a
  <2> QED BY <1>19
<1>5. Schemes(m) = FlattenSeq(s)
  BY <1>1, <1>19 DEF Schemes
<1> HIDE DEF a
<1>3. Len(a(1)) + Len(a(2)) + Len(a(3)) \in 1..3
  <2>1. \/ (m \div 1) % 2 = 1 \/ (m \div 2) % 2 = 1 \/ (m \div 4) % 2 = 1
    <3>1. m = 1 \/ m = 2 \/ m = 3 \/ m = 4 \/ m = 5 \/ m = 6 \/ m = 7
      OBVIOUS
    <3> QED BY <3>1
  <2>2. Len(a(1)) = 1 \/ Len(a(2)) = 1 \/ Len(a(3)) = 1
    BY <1>1, <1>18, <2>1
  <2>3. PICK x, y, z : x = Len(a(1)) /\ y = Len(a(2)) /\ z = Len(a(3))
    OBVIOUS
  <2>4. x \in 0..1 /\ y \in 0..1 /\ z \in 0..1 /\ (x = 1 \/ y = 1 \/ z = 1)
    BY <1>2, <2>2, <2>3
  <2>5. x + y + z \in 1..3
    BY ONLY <2>4
  <2> QED BY <2>3, <2>5
<1>6. FlatPrefix(s, 3) = FlattenSeq(s)
  <2>1. [i \in 1..3 |-> s[i]] = s
    BY <1>19
  <2> QED BY <2>1 DEF FlatPrefix
<1>7. \A i \in 1..3 : s[i] \in Seq(V)
  BY <1>2, <1>4
<1>8. FlatPrefix(s, 0) = <<>>
  BY FlatPrefixEmpty
<1>9. /\ FlatPrefix(s, 0) \in Seq(V) /\ FlatPrefix(s, 0 + 1) = FlatPrefix(s, 0) \o s[0 + 1]
  BY <1>7, FlatPrefixNext
<1>10. /\ FlatPrefix(s, 1) \in Seq(V) /\ FlatPrefix(s, 1 + 1) = FlatPrefix(s, 1) \o s[1 + 1]
  BY <1>7, FlatPrefixNext
<1>11. /\ FlatPrefix(s, 2) \in Seq(V) /\ FlatPrefix(s, 2 + 1) = FlatPrefix(s, 2) \o s[2 + 1]
  BY <1>7, FlatPrefixNext
<1>12. Len(FlatPrefix(s, 0)) = 0
  BY <1>8
<1>13. Len(FlatPrefix(s, 1)) = Len(s[1])
  <2>1. Len(FlatPrefix(s, 0) \o s[1]) = Len(FlatPrefix(s, 0)) + Len(s[1])
    BY <1>7, <1>9, ConcatShape
  <2>2. Len(s[1]) \in Nat
    BY <1>7
  <2> QED BY <1>9, <1>12, <2>1, <2>2
<1>14. Len(FlatPrefix(s, 2)) = Len(s[1]) + Len(s[2])
  <2>1. Len(FlatPrefix(s, 1) \o s[2]) = Len(FlatPrefix(s, 1)) + Len(s[2])
    BY <1>7, <1>10, ConcatShape
  <2>2. 1 + 1 = 2
    OBVIOUS
  <2>3. PICK f : f = FlatPrefix(s, 1) \o s[2]
    OBVIOUS
  <2>4. FlatPrefix(s, 2) = f
    BY <1>10, <2>2, <2>3
  <2> QED BY ONLY <1>13, <2>1, <2>3, <2>4
<1>15. FlatPrefix(s, 3) \in Seq(V) /\ Len(FlatPrefix(s, 3)) = Len(s[1]) + Len(s[2]) + Len(s[3])
  <2>1. /\ Len(FlatPrefix(s, 2) \o s[3]) = Len(FlatPrefix(s, 2)) + Len(s[3])
        /\ FlatPrefix(s, 2) \o s[3] \in Seq(V)
    BY <1>7, <1>11, ConcatShape
  <2>2. 2 + 1 = 3
    OBVIOUS
  <2>3. PICK f : f = FlatPrefix(s, 2) \o s[3]
    OBVIOUS
  <2>4. FlatPrefix(s, 3) = f
    BY <1>11, <2>2, <2>3
  <2> QED BY ONLY <1>14, <2>1, <2>3, <2>4
<1>16. Schemes(m) \in Seq(V) /\ Len(Schemes(m)) \in 1..3
  BY <1>3, <1>4, <1>5, <1>6, <1>15
<1>17. ASSUME NEW i \in DOMAIN Schemes(m) PROVE Schemes(m)[i] \in Nat /\ FitsIn(2, Schemes(m)[i])
  <2>1. Schemes(m)[i] \in V
    BY <1>16
  <2>2. PICK n : n = Schemes(m)[i]
    OBVIOUS
  <2>3. n \in Nat /\ IsShort(n)
    BY <1>20, <2>1, <2>2
  <2>4. FitsIn(2, n)
    BY ONLY <2>3, ShortFits
  <2> QED BY <2>2, <2>3, <2>4
<1> QED BY <1>16, <1>17, SchemesNumbers

\* The cipher suites the client offers.
LEMMA CiphersBack ==
  ASSUME NEW suites, suites = <<AES_128_GCM, CHACHA20>>
  PROVE  /\ Len(Shorts(suites)) = 4 /\ NumbersOf(Shorts(suites)) = suites
         /\ Shorts(suites) \in Seq(Byte)
<1>1. PICK x, y : x = AES_128_GCM /\ y = CHACHA20
  OBVIOUS
<1>2. IsShort(x) /\ IsShort(y)
  BY SMT, <1>1, BytesAreBytes DEF IsShort, AES_128_GCM, CHACHA20
<1>3. x \in Nat /\ y \in Nat
  BY <1>2 DEF IsShort
<1>4. suites \in Seq(Nat) /\ Len(suites) = 2 /\ DOMAIN suites = 1..2
      /\ suites[1] = x /\ suites[2] = y
  BY ONLY <1>1, <1>3, suites = <<AES_128_GCM, CHACHA20>>
<1>5. \A i \in DOMAIN suites : FitsIn(2, suites[i])
  <2>1. FitsIn(2, x) /\ FitsIn(2, y)
    BY ONLY <1>2, <1>3, ShortFits
  <2>2. \A i \in 1..2 : i = 1 \/ i = 2
    OBVIOUS
  <2> QED BY ONLY <1>4, <2>1, <2>2
<1>6. Len(Shorts(suites)) = 2 * Len(suites) /\ NumbersOf(Shorts(suites)) = suites
  BY ONLY <1>4, <1>5, NumbersBack
<1>7. Shorts(suites) \in Seq(Byte)
  BY ONLY <1>4, ShortsBytes
<1> QED BY ONLY <1>4, <1>6, <1>7

\* The two versions as numbers.
LEMMA VersionNumber ==
  /\ Len(TLS_1_3) = 2 /\ Len(TLS_1_2) = 2
  /\ NumbersOf(TLS_1_3) = <<Number(TLS_1_3)>>
<1>1. TLS_1_3 \in Seq(Byte) /\ TLS_1_2 \in Seq(Byte)
  BY FixedBytes
<1>2. Len(TLS_1_3) = 2 /\ Len(TLS_1_2) = 2
  BY DEF TLS_1_3, TLS_1_2
<1>3. PICK v : v = TLS_1_3
  OBVIOUS
<1>4. Len(v) \div 2 = 1
  <2>1. 2 \div 2 = 1
    BY SMT
  <2> QED BY <1>2, <1>3, <2>1
<1>5. NumbersOf(v) = [i \in 1..1 |-> Number(Slice(v, 2 * i - 2, 2 * i))]
  BY <1>4 DEF NumbersOf
<1>6. 2 * 1 - 2 = 0 /\ 2 * 1 = 2
  OBVIOUS
<1>7. NumbersOf(v)[1] = Number(Slice(v, 0, 2)) /\ Len(NumbersOf(v)) = 1 /\ DOMAIN NumbersOf(v) = 1..1
  BY <1>5, <1>6
<1>8. Slice(v, 0, 2) = v
  BY <1>1, <1>2, <1>3, SliceWhole
<1>9. NumbersOf(v) = <<Number(v)>>
  BY <1>5, <1>7, <1>8
<1> QED BY <1>2, <1>3, <1>9

\* All of the data covers itself.
LEMMA CoversItself ==
  ASSUME NEW data \in Seq(Byte)
  PROVE  Covers(data, 0, Len(data), data)
<1>1. 0 \in Nat /\ Len(data) \in Nat /\ 0 <= Len(data)
  OBVIOUS
<1>2. Slice(data, 0, Len(data)) = data
  BY SliceWhole
<1> QED BY <1>1, <1>2 DEF Covers

\* A vector with nothing around it.
LEMMA VectorAll ==
  ASSUME NEW width \in Nat, NEW x \in Seq(Byte), FitsIn(width, Len(x)),
         NEW data, data = Vector(width, x), NEW r, r = ReadVector(data, 0, width)
  PROVE  IsAllRead(r, data) /\ r.value = x
<1>1. data \in Seq(Byte)
  BY VectorBytes
<1>2. Covers(data, 0, Len(data), Vector(width, x))
  BY <1>1, CoversItself
<1>3. Got(r, Len(data), x)
  BY <1>1, <1>2, VectorGot
<1> QED BY <1>3 DEF Got, IsAllRead

\* The domain the client names is what the parser compares with.
LEMMA ServerNameBack ==
  ASSUME IsShort(Len(ServerName))
  PROVE  IsServerName(ServerName)
<1>1. PICK zero, name, x, data : /\ zero = <<0>> /\ name = Vector(2, Domain)
                                 /\ x = zero \o name /\ data = ServerName
  OBVIOUS
<1>2. data = Vector(2, x)
  BY <1>1 DEF ServerName
<1>3. Domain \in Seq(Byte) /\ zero \in Seq(Byte) /\ Len(zero) = 1 /\ zero[1] = 0
  BY <1>1, FixedBytes
<1>4. name \in Seq(Byte) /\ Len(name) = 2 + Len(Domain)
  BY <1>1, <1>3, VectorBytes
<1>5. x \in Seq(Byte) /\ Len(x) = 1 + Len(name) /\ x[1] = 0
  <2>1. x \in Seq(Byte) /\ Len(x) = Len(zero) + Len(name)
        /\ \A i \in 1..Len(zero) : x[i] = zero[i]
    BY ONLY <1>1, <1>3, <1>4, ConcatShape
  <2>2. 1 \in 1..Len(zero)
    BY <1>3
  <2> QED BY <1>3, <2>1, <2>2
<1>6. Len(data) = 2 + Len(x)
  BY <1>2, <1>5, VectorBytes
<1>7. IsShort(Len(x)) /\ IsShort(Len(Domain))
  <2>1. PICK n, k, d : n = Len(data) /\ k = Len(x) /\ d = Len(Domain)
    OBVIOUS
  <2>2. n \in Nat /\ k \in Nat /\ d \in Nat /\ k <= n /\ d <= n
    <3>1. PICK c : c = Len(name)
      OBVIOUS
    <3>2. d \in Nat /\ c = 2 + d /\ k = 1 + c /\ n = 2 + k
      BY <1>3, <1>4, <1>5, <1>6, <2>1, <3>1
    <3> QED BY ONLY <3>2
  <2>3. IsShort(n)
    BY <1>1, <2>1
  <2> QED BY <2>1, <2>2, <2>3, ShortFits
<1>8. FitsIn(2, Len(x)) /\ FitsIn(2, Len(Domain))
  BY <1>3, <1>5, <1>7, ShortFits
<1>9. PICK list : list = ReadVector(data, 0, 2)
  OBVIOUS
<1>10. IsAllRead(list, data) /\ list.value = x
  BY <1>2, <1>5, <1>8, <1>9, VectorAll
<1>11. Covers(x, 1, Len(x), name)
  <2>1. Covers(x, 0, Len(x), zero \o name)
    BY <1>1, <1>5, CoversItself
  <2>2. PICK one : one = 0 + Len(zero)
    OBVIOUS
  <2>3. Covers(x, one, Len(x), name)
    BY <1>3, <1>4, <1>5, <2>1, <2>2, CoversParts
  <2>4. one = 1
    BY <1>3, <2>2
  <2> QED BY <2>3, <2>4
<1>12. Got(ReadVector(x, 1, 2), Len(x), Domain)
  BY <1>1, <1>3, <1>5, <1>8, <1>11, VectorGot
<1>13. IsAllRead(ReadVector(x, 1, 2), x) /\ ReadVector(x, 1, 2).value = Domain
  BY <1>12 DEF Got, IsAllRead
<1> QED BY <1>1, <1>5, <1>9, <1>10, <1>13 DEF IsServerName

\* The key share the client sends, as it is read.
OwnShares == <<[type |-> GROUP_X25519, data |-> PublicKey]>>

\* It is one that the parser accepts.
LEMMA SharesBack ==
  ASSUME IsShort(Len(KeyShares)), NEW list, list = ReadVector(KeyShares, 0, 2)
  PROVE  /\ IsAllRead(list, KeyShares) /\ Entries(list.value) = OwnShares
         /\ IsList(OwnShares) /\ OwnShares # <<>> /\ Types(OwnShares) = {GROUP_X25519}
         /\ \A i \in DOMAIN OwnShares : IsKeyShare(OwnShares[i].type, OwnShares[i].data)
<1>1. PICK group, key, e, x : /\ group = GROUP_X25519 /\ key = PublicKey
                              /\ e = [type |-> group, data |-> key]
                              /\ x = Extension(group, key)
  OBVIOUS
<1>2. group \in Nat /\ group \in 0..255 /\ group # 256 * 256
  BY SMT, <1>1 DEF GROUP_X25519
<1>3. key \in Seq(Byte) /\ x \in Seq(Byte)
  BY <1>1, <1>2, FixedBytes, ExtensionBytes
<1>4. PICK es : es = <<e>>
  OBVIOUS
<1>5. e \in EntrySet /\ e.type = group /\ e.data = key /\ es \in Seq(EntrySet)
      /\ Len(es) = 1 /\ es[1] = e /\ DOMAIN es = 1..1 /\ es = OwnShares
  BY <1>1, <1>2, <1>3, <1>4 DEF EntrySet, OwnShares
<1>6. Extensions(es) = x
  <2>1. PICK s : s = ExtensionPieces(es)
    OBVIOUS
  <2>2. s \in Seq(Seq(Byte)) /\ Len(s) = 1 /\ s[1] = x /\ Extensions(es) = FlattenSeq(s)
    <3>1. 1 \in 1..Len(es)
      BY <1>5
    <3> QED BY <1>1, <1>5, <2>1, <3>1, WrittenExtensions
  <2>3. FlattenSeq(s) \in Seq(Byte) /\ EndOf(s, 0) = 0 /\ EndOf(s, 1) = Len(FlattenSeq(s))
        /\ Covers(FlattenSeq(s), EndOf(s, 0), EndOf(s, 0 + 1), s[0 + 1])
    <3>1. 0 \in 0..(Len(s) - 1)
      BY <2>2
    <3> QED BY <2>2, <3>1, PiecesCover
  <2>4. Covers(FlattenSeq(s), 0, Len(FlattenSeq(s)), x)
    <3>1. 0 + 1 = 1
      OBVIOUS
    <3> QED BY <2>2, <2>3, <3>1
  <2> QED BY <2>2, <2>3, <2>4, CoversAll
<1>7. PICK data : data = KeyShares
  OBVIOUS
<1>8. data = Vector(2, x)
  BY <1>1, <1>7 DEF KeyShares
<1>9. IsShort(Len(x))
  <2>1. PICK n, k : n = Len(data) /\ k = Len(x)
    OBVIOUS
  <2>2. n = 2 + k /\ k \in Nat
    BY <1>3, <1>8, <2>1, VectorBytes
  <2>3. IsShort(n) /\ n \in Nat /\ k <= n
    BY <1>7, <2>1, <2>2
  <2> QED BY <2>1, <2>2, <2>3, ShortFits
<1>10. FitsIn(2, Len(x))
  BY <1>3, <1>9, ShortFits
<1>11. IsAllRead(list, data) /\ list.value = x
  BY <1>3, <1>7, <1>8, <1>10, VectorAll
<1>12. Entries(list.value) = es
  <2>1. PICK n : n = Len(Extensions(es))
    OBVIOUS
  <2>2. IsShort(n)
    BY <1>6, <1>9, <2>1
  <2>3. \A i \in 1..Len(es) : FitsIn(2, es[i].type)
    <3>1. FitsIn(2, group)
      BY <1>2, OneByteFits
    <3> QED BY <1>5, <3>1
  <2>4. \A i \in 1..Len(es) : IsWritable(es[i])
    BY <1>5, <2>1, <2>2, <2>3, ShortList
  <2> QED BY <1>5, <1>6, <1>11, <2>4, EntriesBack
<1>13. IsList(es)
  <2>1. Broken.type = Base * Base /\ Base = 256
    BY BytesAreBytes DEF Broken
  <2>2. e # Broken
    BY <1>2, <1>5, <2>1
  <2>3. \A i, j \in 1..1 : i = j
    OBVIOUS
  <2>4. \A i \in 1..1 : es[i] = e
    BY <1>5
  <2> QED BY <1>5, <2>2, <2>3, <2>4 DEF IsList, ToSet
<1>14. Types(es) = {group}
  BY <1>5 DEF Types
<1>15. IsKeyShare(group, key)
  <2>1. X25519Size \in Nat
    BY SizesAssumption
  <2>2. Len(key) = X25519Size
    BY <1>1, <2>1 DEF PublicKey
  <2> QED BY <1>1, <2>2 DEF IsKeyShare
<1>16. \A i \in DOMAIN es : IsKeyShare(es[i].type, es[i].data)
  BY <1>5, <1>15
<1>17. es # <<>>
  BY ONLY <1>4
<1> QED BY <1>1, <1>5, <1>7, <1>11, <1>12, <1>13, <1>14, <1>16, <1>17

\* The parser takes the client's own hello for what it was meant to be.
LEMMA OwnHelloBack ==
  ASSUME NEW id \in Sessions, NEW m \in Masks,
         NEW client, client = ParseClientHello(ClientHelloBody(id, m))
  PROVE  /\ client.ok /\ client.session = id
         /\ client.ciphers = <<AES_128_GCM, CHACHA20>>
         /\ client.schemes = Schemes(m) /\ client.shares = OwnShares
<1>1. PICK body, e, ciphers, block :
         /\ body = ClientHelloBody(id, m) /\ e = HelloExtensions(m)
         /\ ciphers = Shorts(<<AES_128_GCM, CHACHA20>>) /\ block = Extensions(e)
  OBVIOUS
<1>2. /\ Len(ciphers) = 4 /\ NumbersOf(ciphers) = <<AES_128_GCM, CHACHA20>>
      /\ ciphers \in Seq(Byte)
  BY <1>1, CiphersBack
<1>3. /\ body \in Seq(Byte) /\ IsShort(Len(block))
      /\ \E p, q, r, s, t : /\ Got(Read(body, 0, 2), p, TLS_1_2)
                            /\ Got(Read(body, p, RandomSize), q, Challenge)
                            /\ Got(ReadVector(body, q, 1), r, id)
                            /\ Got(ReadVector(body, r, 2), s, ciphers)
                            /\ Got(ReadVector(body, s, 1), t, <<0>>)
                            /\ Got(ReadVector(body, t, 2), Len(body), block)
  BY <1>1, <1>2, OwnFields
<1>4. PICK p, q, r, s, t : /\ Got(Read(body, 0, 2), p, TLS_1_2)
                           /\ Got(Read(body, p, RandomSize), q, Challenge)
                           /\ Got(ReadVector(body, q, 1), r, id)
                           /\ Got(ReadVector(body, r, 2), s, ciphers)
                           /\ Got(ReadVector(body, s, 1), t, <<0>>)
                           /\ Got(ReadVector(body, t, 2), Len(body), block)
  BY <1>3
<1>5. PICK fversion, frandom, fid, fciphers, fcompression, fblock :
         /\ fversion = Read(body, 0, 2) /\ frandom = Read(body, fversion.at, RandomSize)
         /\ fid = ReadVector(body, frandom.at, 1) /\ fciphers = ReadVector(body, fid.at, 2)
         /\ fcompression = ReadVector(body, fciphers.at, 1)
         /\ fblock = ReadVector(body, fcompression.at, 2)
  OBVIOUS
<1>6. Got(fversion, p, TLS_1_2)
  BY <1>4, <1>5
<1>7. Got(frandom, q, Challenge)
  BY <1>4, <1>5, <1>6 DEF Got
<1>8. Got(fid, r, id)
  BY <1>4, <1>5, <1>7 DEF Got
<1>9. Got(fciphers, s, ciphers)
  BY <1>4, <1>5, <1>8 DEF Got
<1>10. Got(fcompression, t, <<0>>)
  BY <1>4, <1>5, <1>9 DEF Got
<1>11. Got(fblock, Len(body), block)
  BY <1>4, <1>5, <1>10 DEF Got
<1>12. PICK name, schemes, versions, shares :
          /\ name = ServerName /\ schemes = Vector(2, Shorts(Schemes(m)))
          /\ versions = Vector(1, TLS_1_3) /\ shares = KeyShares
  OBVIOUS
<1>13. /\ Entries(block) = e /\ IsList(e) /\ Types(e) = {0, 10, 13, 50, 43, 51}
       /\ IsShort(Len(name)) /\ IsShort(Len(shares))
       /\ Data(e, SERVER_NAME) = name /\ Data(e, SIGNATURE_ALGORITHMS) = schemes
       /\ Data(e, SUPPORTED_VERSIONS) = versions /\ Data(e, KEY_SHARE) = shares
  BY <1>1, <1>3, <1>12, HelloBack
<1>14. /\ {SERVER_NAME, SUPPORTED_VERSIONS, SIGNATURE_ALGORITHMS, KEY_SHARE} \subseteq Types(e)
       /\ Forbidden \cap Types(e) = {}
  BY SMT, <1>13 DEF SERVER_NAME, SUPPORTED_VERSIONS, SIGNATURE_ALGORITHMS, KEY_SHARE,
                    Forbidden, EARLY_DATA
<1>15. IsServerName(name)
  BY <1>12, <1>13, ServerNameBack
<1>16. PICK fversions, fschemes, flist, fshares :
          /\ fversions = ReadVector(versions, 0, 1) /\ fschemes = ReadVector(schemes, 0, 2)
          /\ flist = ReadVector(shares, 0, 2) /\ fshares = Entries(flist.value)
  OBVIOUS
<1>17. /\ IsAllRead(fversions, versions) /\ IsNumbers(fversions)
       /\ Number(TLS_1_3) \in ToSet(NumbersOf(fversions.value))
  <2>1. TLS_1_3 \in Seq(Byte) /\ Len(TLS_1_3) = 2 /\ NumbersOf(TLS_1_3) = <<Number(TLS_1_3)>>
    BY FixedBytes, VersionNumber
  <2>2. FitsIn(1, Len(TLS_1_3))
    <3>1. 2 \in 0..255
      OBVIOUS
    <3> QED BY <2>1, <3>1, OneByteFits
  <2>3. IsAllRead(fversions, versions) /\ fversions.value = TLS_1_3
    <3>1. PICK v, one : v = TLS_1_3 /\ one = 1
      OBVIOUS
    <3>2. /\ one \in Nat /\ v \in Seq(Byte) /\ FitsIn(one, Len(v))
          /\ versions = Vector(one, v) /\ fversions = ReadVector(versions, 0, one)
      BY ONLY <1>12, <1>16, <2>1, <2>2, <3>1
    <3>3. IsAllRead(fversions, versions) /\ fversions.value = v
      BY ONLY <3>2, VectorAll
    <3> QED BY ONLY <3>1, <3>3
  <2>4. 2 % 2 = 0 /\ 2 >= 2
    BY SMT
  <2>5. PICK n, list : n = Number(TLS_1_3) /\ list = NumbersOf(TLS_1_3)
    OBVIOUS
  <2>6. n \in ToSet(list)
    <3>1. list = <<n>>
      BY <2>1, <2>5
    <3> QED BY ONLY <3>1 DEF ToSet
  <2> QED BY <2>1, <2>3, <2>4, <2>5, <2>6 DEF IsNumbers
<1>18. /\ IsAllRead(fschemes, schemes) /\ IsNumbers(fschemes)
       /\ NumbersOf(fschemes.value) = Schemes(m)
  <2>1. m \in 1..7
    BY LimitsAssumption
  <2>2. /\ Schemes(m) \in Seq(Nat) /\ Len(Schemes(m)) \in 1..3
        /\ \A i \in DOMAIN Schemes(m) : FitsIn(2, Schemes(m)[i])
    BY ONLY <2>1, SchemesShape
  <2>3. PICK list, x : list = Schemes(m) /\ x = Shorts(list)
    OBVIOUS
  <2>4. x \in Seq(Byte) /\ Len(x) = 2 * Len(list) /\ NumbersOf(x) = list
    BY <2>2, <2>3, ShortsBytes, NumbersBack
  <2>5. Len(x) \in 0..255 /\ Len(x) >= 2 /\ Len(x) % 2 = 0
    <3>1. PICK k, n : k = Len(list) /\ n = Len(x)
      OBVIOUS
    <3>2. k \in 1..3 /\ n = 2 * k
      BY <2>2, <2>3, <2>4, <3>1
    <3>3. n \in 0..255 /\ n >= 2 /\ n % 2 = 0
      BY ONLY SMT, <3>2
    <3> QED BY <3>1, <3>3
  <2>6. FitsIn(2, Len(x))
    BY <2>5, OneByteFits
  <2>7. IsAllRead(fschemes, schemes) /\ fschemes.value = x
    BY <1>12, <1>16, <2>3, <2>4, <2>6, VectorAll
  <2> QED BY <2>3, <2>4, <2>5, <2>7 DEF IsNumbers
<1>19. /\ IsAllRead(flist, shares) /\ fshares = OwnShares
       /\ IsList(fshares) /\ fshares # <<>>
       /\ \A i \in DOMAIN fshares : IsKeyShare(fshares[i].type, fshares[i].data)
  BY <1>12, <1>13, <1>16, SharesBack
<1>20. IsNumbers(fciphers)
  <2>1. 4 >= 2 /\ 4 % 2 = 0
    BY SMT
  <2> QED BY <1>2, <1>9, <2>1 DEF Got, IsNumbers
<1>21. Len(id) <= MaxSession
  <2>1. PICK n, k : n = Len(id) /\ k = MaxSession
    OBVIOUS
  <2>2. n \in 1..k
    BY <2>1, SizesAssumption
  <2> QED BY <2>1, <2>2
<1>22. IsAllRead(fblock, body)
  BY <1>11 DEF Got, IsAllRead
<1>23. /\ fversion.value = TLS_1_2 /\ frandom.value = Challenge /\ fid.value = id
       /\ fciphers.value = ciphers /\ fcompression.value = <<0>> /\ fblock.value = block
  BY <1>6, <1>7, <1>8, <1>9, <1>10, <1>11 DEF Got
<1>24. /\ client.session = fid.value /\ client.ciphers = NumbersOf(fciphers.value)
       /\ client.schemes = NumbersOf(fschemes.value) /\ client.shares = fshares
  BY <1>1, <1>5, <1>13, <1>16, <1>23 DEF ParseClientHello
<1>25. /\ Entries(fblock.value) = e /\ Data(Entries(fblock.value), SERVER_NAME) = name
       /\ Data(Entries(fblock.value), SIGNATURE_ALGORITHMS) = schemes
       /\ Data(Entries(fblock.value), SUPPORTED_VERSIONS) = versions
       /\ Data(Entries(fblock.value), KEY_SHARE) = shares
  BY <1>13, <1>23
<1>26. PICK fentries : fentries = Entries(fblock.value)
  OBVIOUS
<1>27. /\ IsAllRead(fblock, body) /\ IsList(fentries) /\ fversion.value = TLS_1_2
       /\ frandom.value = Challenge /\ Len(fid.value) <= MaxSession /\ IsNumbers(fciphers)
       /\ fcompression.value = <<0>>
       /\ {SERVER_NAME, SUPPORTED_VERSIONS, SIGNATURE_ALGORITHMS, KEY_SHARE}
              \subseteq Types(fentries)
       /\ IsServerName(Data(fentries, SERVER_NAME)) /\ Forbidden \cap Types(fentries) = {}
  BY <1>13, <1>14, <1>15, <1>20, <1>21, <1>22, <1>23, <1>25, <1>26
<1>28. /\ fversions = ReadVector(Data(fentries, SUPPORTED_VERSIONS), 0, 1)
       /\ fschemes = ReadVector(Data(fentries, SIGNATURE_ALGORITHMS), 0, 2)
       /\ flist = ReadVector(Data(fentries, KEY_SHARE), 0, 2)
       /\ fshares = Entries(flist.value)
  BY <1>16, <1>25, <1>26
<1>29. /\ IsAllRead(fversions, Data(fentries, SUPPORTED_VERSIONS)) /\ IsNumbers(fversions)
       /\ Number(TLS_1_3) \in ToSet(NumbersOf(fversions.value))
       /\ IsAllRead(fschemes, Data(fentries, SIGNATURE_ALGORITHMS)) /\ IsNumbers(fschemes)
       /\ IsAllRead(flist, Data(fentries, KEY_SHARE)) /\ IsList(fshares) /\ fshares # <<>>
       /\ \A i \in DOMAIN fshares : IsKeyShare(fshares[i].type, fshares[i].data)
  BY <1>17, <1>18, <1>19, <1>25, <1>26
<1>30. ParseClientHello(body).ok
  BY ONLY <1>5, <1>26, <1>27, <1>28, <1>29 DEF ParseClientHello
<1>31. client.ok
  BY <1>1, <1>30
<1> QED BY <1>2, <1>18, <1>19, <1>23, <1>24, <1>31

-----------------------------------------------------------------------------
(* The proof that is written, read back *)

\* The parts of the head of a message.
AreHead(type, body, n, d, t, head) ==
    n = Len(body) /\ d = Digits(3, n) /\ t = <<type>> /\ head = t \o d

\* The head of a message and the size in it.
LEMMA HandshakeHead ==
  ASSUME NEW type \in Byte, NEW body \in Seq(Byte), NEW n, NEW d, NEW t, NEW head,
         AreHead(type, body, n, d, t, head)
  PROVE  /\ Handshake(type, body) = head \o body
         /\ head \in Seq(Byte) /\ Len(head) = 4 /\ head[1] = type
         /\ From(head, 1) = d /\ d \in Seq(Byte)
<1>10. n = Len(body) /\ d = Digits(3, n) /\ t = <<type>> /\ head = t \o d
  BY DEF AreHead
<1>1. n \in Nat
  BY <1>10
<1>2. d \in Seq(Byte) /\ Len(d) = 3
  BY <1>1, <1>10, DigitsShape
<1>4. t \in Seq(Byte) /\ Len(t) = 1 /\ t[1] = type
  BY <1>10
<1>5. head = t \o d
  BY <1>10
<1>6. head \in Seq(Byte) /\ Len(head) = 4 /\ head[1] = type
  <2>1. /\ head \in Seq(Byte) /\ Len(head) = Len(t) + Len(d)
        /\ \A i \in 1..Len(t) : head[i] = t[i]
    <3>1. t \in Seq(Byte) /\ d \in Seq(Byte)
      BY <1>2, <1>4
    <3> QED BY ONLY <1>5, <3>1, ConcatShape
  <2>2. 1 \in 1..Len(t)
    BY <1>4
  <2>3. head[1] = type
    BY ONLY <1>4, <2>1, <2>2
  <2>4. PICK k : k = Len(head)
    OBVIOUS
  <2>5. k = 4
    <3>1. k = 1 + 3
      BY <1>2, <1>4, <2>1, <2>4
    <3> QED BY ONLY <3>1
  <2> QED BY <2>1, <2>3, <2>4, <2>5
<1>7. From(head, 1) = d
  <2>1. Covers(head, 0, Len(head), t \o d)
    BY <1>5, <1>6, CoversItself
  <2>2. PICK one : one = 0 + Len(t)
    OBVIOUS
  <2>3. Covers(head, one, Len(head), d)
    BY <1>2, <1>4, <1>6, <2>1, <2>2, CoversParts
  <2>4. one = 1
    BY <1>4, <2>2
  <2> QED BY <2>3, <2>4 DEF Covers, From
<1>8. Handshake(type, body) = head \o body
  <2>1. Handshake(type, body) = t \o (d \o body)
    BY <1>10 DEF Handshake, Vector
  <2>2. (t \o d) \o body = t \o (d \o body)
    BY ONLY <1>2, <1>4, body \in Seq(Byte), ThreeBytes
  <2> QED BY <1>5, <2>1, <2>2
<1> QED BY <1>2, <1>6, <1>7, <1>8

\* A message, read where it is.
LEMMA HandshakeGot ==
  ASSUME NEW data \in Seq(Byte), NEW a, NEW b, NEW type \in Byte, NEW body \in Seq(Byte),
         Covers(data, a, b, Handshake(type, body)), FitsIn(3, Len(body)),
         Len(body) + 4 <= MaxSize[type], NEW r, r = ReadHandshake(data, a, type)
  PROVE  Got(r, b, body)
<1>1. PICK n, d, t, head : n = Len(body) /\ d = Digits(3, n) /\ t = <<type>> /\ head = t \o d
  OBVIOUS
<1>12. type \in Byte /\ body \in Seq(Byte)
  OBVIOUS
<1>13. AreHead(type, body, n, d, t, head)
  BY <1>1 DEF AreHead
<1>2. /\ Handshake(type, body) = head \o body
      /\ head \in Seq(Byte) /\ Len(head) = 4 /\ head[1] = type
      /\ From(head, 1) = d
  BY ONLY <1>12, <1>13, HandshakeHead
<1>3. PICK m : m = a + Len(head)
  OBVIOUS
<1>4. Covers(data, a, m, head) /\ Covers(data, m, b, body)
  BY <1>2, <1>3, CoversParts
<1>5. PICK header, rest : header = Read(data, a, 4) /\ rest = Read(data, m, n)
  OBVIOUS
<1>6. Got(header, m, head)
  BY <1>2, <1>4, <1>5, ReadGot
<1>7. Got(rest, b, body)
  BY <1>1, <1>4, <1>5, ReadGot
<1>8. BodySize(header) = n
  BY <1>1, <1>2, <1>6 DEF Got, BodySize, FitsIn
<1>9. IsHandshake(header, rest, type)
  BY <1>1, <1>2, <1>6, <1>7, <1>8 DEF Got, IsHandshake
<1>10. r = [ok |-> IsHandshake(header, rest, type), value |-> rest.value, at |-> rest.at]
  BY <1>5, <1>6, <1>8 DEF Got, ReadHandshake
<1>11. r.ok /\ r.value = rest.value /\ r.at = rest.at
  BY <1>9, <1>10
<1> QED BY <1>7, <1>11 DEF Got

\* The types of the messages are single bytes.
LEMMA TypesAreBytes ==
  /\ CLIENT_HELLO \in Byte /\ SERVER_HELLO \in Byte /\ ENCRYPTED_EXTENSIONS \in Byte
  /\ CERTIFICATE \in Byte /\ CERTIFICATE_VERIFY \in Byte /\ PROOF_VERSION \in Byte
BY BytesAreBytes DEF CLIENT_HELLO, SERVER_HELLO, ENCRYPTED_EXTENSIONS,
                     CERTIFICATE, CERTIFICATE_VERIFY, PROOF_VERSION, Byte

\* The proof with these five bodies.
IsProof(data, a, b, c, d, e) ==
    /\ a \in Seq(Byte) /\ b \in Seq(Byte) /\ c \in Seq(Byte) /\ d \in Seq(Byte)
    /\ e \in Seq(Byte) /\ data = EncodedProof(<<a, b, c, d, e>>)
\* The five messages around them.
AreFive(a, b, c, d, e, ha, hb, hc, hd, he) ==
    /\ ha = Handshake(CLIENT_HELLO, a) /\ hb = Handshake(SERVER_HELLO, b)
    /\ hc = Handshake(ENCRYPTED_EXTENSIONS, c) /\ hd = Handshake(CERTIFICATE, d)
    /\ he = Handshake(CERTIFICATE_VERIFY, e)

\* A proof is its five messages behind the version.
LEMMA ProofIsFive ==
  ASSUME NEW a, NEW b, NEW c, NEW d, NEW e, NEW ha, NEW hb, NEW hc, NEW hd, NEW he,
         AreFive(a, b, c, d, e, ha, hb, hc, hd, he), NEW data, IsProof(data, a, b, c, d, e)
  PROVE  data = <<PROOF_VERSION>> \o ((((ha \o hb) \o hc) \o hd) \o he)
<1>1. PICK bodies : bodies = <<a, b, c, d, e>>
  OBVIOUS
<1>2. /\ ha = Handshake(CLIENT_HELLO, a) /\ hb = Handshake(SERVER_HELLO, b)
      /\ hc = Handshake(ENCRYPTED_EXTENSIONS, c) /\ hd = Handshake(CERTIFICATE, d)
      /\ he = Handshake(CERTIFICATE_VERIFY, e)
  BY DEF AreFive
<1>3. /\ ha \in Seq(Byte) /\ hb \in Seq(Byte) /\ hc \in Seq(Byte) /\ hd \in Seq(Byte)
      /\ he \in Seq(Byte)
  <2>1. /\ a \in Seq(Byte) /\ b \in Seq(Byte) /\ c \in Seq(Byte) /\ d \in Seq(Byte)
        /\ e \in Seq(Byte)
    BY DEF IsProof
  <2> QED BY <1>2, <2>1, TypesAreBytes, HandshakeBytes
<1>4. AreMessages(bodies, ha, hb, hc, hd, he)
  <2>1. /\ bodies[1] = a /\ bodies[2] = b /\ bodies[3] = c /\ bodies[4] = d /\ bodies[5] = e
    BY <1>1
  <2> QED BY <1>2, <1>3, <2>1 DEF AreMessages
<1>5. EncodedProof(bodies) = <<PROOF_VERSION>> \o ((((ha \o hb) \o hc) \o hd) \o he)
  BY ONLY SMT, <1>4, FiveMessages
<1>6. data = EncodedProof(bodies)
  BY <1>1 DEF IsProof
<1> QED BY <1>5, <1>6

\* Where the messages of a proof begin and end.
Framed(data, ha, hb, hc, hd, he) ==
    \E p, q, r, s : /\ Covers(data, 1, p, ha) /\ Covers(data, p, q, hb)
                    /\ Covers(data, q, r, hc) /\ Covers(data, r, s, hd)
                    /\ Covers(data, s, Len(data), he)

\* The five messages of a proof are found where they were put, behind the version.
LEMMA ProofFramed ==
  ASSUME NEW data, NEW a, NEW b, NEW c, NEW d, NEW e, IsProof(data, a, b, c, d, e)
  PROVE  /\ data \in Seq(Byte) /\ Len(data) >= 1 /\ data[1] = PROOF_VERSION
         /\ Framed(data, Handshake(CLIENT_HELLO, a), Handshake(SERVER_HELLO, b),
                   Handshake(ENCRYPTED_EXTENSIONS, c), Handshake(CERTIFICATE, d),
                   Handshake(CERTIFICATE_VERIFY, e))
<1>3. PICK ha, hb, hc, hd, he :
         /\ ha = Handshake(CLIENT_HELLO, a) /\ hb = Handshake(SERVER_HELLO, b)
         /\ hc = Handshake(ENCRYPTED_EXTENSIONS, c) /\ hd = Handshake(CERTIFICATE, d)
         /\ he = Handshake(CERTIFICATE_VERIFY, e)
  OBVIOUS
<1>4. /\ ha \in Seq(Byte) /\ hb \in Seq(Byte) /\ hc \in Seq(Byte) /\ hd \in Seq(Byte)
      /\ he \in Seq(Byte)
  <2>1. /\ a \in Seq(Byte) /\ b \in Seq(Byte) /\ c \in Seq(Byte) /\ d \in Seq(Byte)
        /\ e \in Seq(Byte)
    BY DEF IsProof
  <2> QED BY <1>3, <2>1, TypesAreBytes, HandshakeBytes
<1>22. data = <<PROOF_VERSION>> \o ((((ha \o hb) \o hc) \o hd) \o he)
  <2>1. AreFive(a, b, c, d, e, ha, hb, hc, hd, he)
    BY <1>3 DEF AreFive
  <2>2. IsProof(data, a, b, c, d, e)
    OBVIOUS
  <2> QED BY ONLY SMT, <2>1, <2>2, ProofIsFive
<1>6. PICK v, w, x, y, z : /\ v = <<PROOF_VERSION>> /\ w = ha \o hb /\ x = w \o hc
                           /\ y = x \o hd /\ z = y \o he
  OBVIOUS
<1>7. data = v \o z
  BY <1>6, <1>22
<1>8. v \in Seq(Byte) /\ Len(v) = 1 /\ v[1] = PROOF_VERSION
  BY <1>6, TypesAreBytes
<1>9. w \in Seq(Byte)
  BY <1>4, <1>6, ConcatBytes
<1>10. x \in Seq(Byte)
  BY <1>4, <1>6, <1>9, ConcatBytes
<1>11. y \in Seq(Byte)
  BY <1>4, <1>6, <1>10, ConcatBytes
<1>12. z \in Seq(Byte)
  BY <1>4, <1>6, <1>11, ConcatBytes
<1>13. data \in Seq(Byte) /\ Len(data) >= 1 /\ data[1] = PROOF_VERSION
  <2>1. /\ data \in Seq(Byte) /\ Len(data) = Len(v) + Len(z)
        /\ \A i \in 1..Len(v) : data[i] = v[i]
    <3>1. v \in Seq(Byte) /\ z \in Seq(Byte)
      BY <1>8, <1>12
    <3> QED BY ONLY <1>7, <3>1, ConcatShape
  <2>2. 1 \in 1..Len(v)
    BY <1>8
  <2>3. PICK k : k = Len(z)
    OBVIOUS
  <2>4. k \in Nat
    BY <1>12, <2>3
  <2> QED BY <1>8, <2>1, <2>2, <2>3, <2>4
<1>14. Covers(data, 1, Len(data), z)
  <2>1. Covers(data, 0, Len(data), v \o z)
    BY <1>7, <1>13, CoversItself
  <2>2. PICK one : one = 0 + Len(v)
    OBVIOUS
  <2>3. Covers(data, one, Len(data), z)
    BY <1>8, <1>12, <1>13, <2>1, <2>2, CoversParts
  <2>4. one = 1
    BY <1>8, <2>2
  <2> QED BY <2>3, <2>4
<1>15. PICK one, p, q, r, s : /\ one = 1 /\ p = one + Len(ha) /\ q = one + Len(w)
                              /\ r = one + Len(x) /\ s = one + Len(y)
  OBVIOUS
<1>21. Covers(data, one, Len(data), y \o he)
  BY <1>6, <1>14, <1>15
<1>16. Covers(data, one, s, y) /\ Covers(data, s, Len(data), he)
  <2>1. /\ data \in Seq(Byte) /\ y \in Seq(Byte) /\ he \in Seq(Byte) /\ s = one + Len(y)
    BY <1>4, <1>11, <1>13, <1>15
  <2> QED BY ONLY <1>21, <2>1, CoversParts
<1>17. Covers(data, one, r, x) /\ Covers(data, r, s, hd)
  <2>1. /\ data \in Seq(Byte) /\ x \in Seq(Byte) /\ hd \in Seq(Byte) /\ r = one + Len(x)
        /\ Covers(data, one, s, x \o hd)
    BY <1>4, <1>6, <1>10, <1>13, <1>15, <1>16
  <2> QED BY ONLY <2>1, CoversParts
<1>18. Covers(data, one, q, w) /\ Covers(data, q, r, hc)
  <2>1. /\ data \in Seq(Byte) /\ w \in Seq(Byte) /\ hc \in Seq(Byte) /\ q = one + Len(w)
        /\ Covers(data, one, r, w \o hc)
    BY <1>4, <1>6, <1>9, <1>13, <1>15, <1>17
  <2> QED BY ONLY <2>1, CoversParts
<1>19. Covers(data, one, p, ha) /\ Covers(data, p, q, hb)
  <2>1. /\ data \in Seq(Byte) /\ ha \in Seq(Byte) /\ hb \in Seq(Byte) /\ p = one + Len(ha)
        /\ Covers(data, one, q, ha \o hb)
    BY <1>4, <1>6, <1>13, <1>15, <1>18
  <2> QED BY ONLY <2>1, CoversParts
<1>20. Framed(data, ha, hb, hc, hd, he)
  BY <1>15, <1>16, <1>17, <1>18, <1>19 DEF Framed
<1> QED BY <1>3, <1>13, <1>20

\* The capture is read back from its own hello on.
LEMMA OwnHelloRead ==
  ASSUME NEW id \in Sessions, NEW m \in Masks, NEW data, NEW body, NEW b, NEW c, NEW d, NEW e,
         body = ClientHelloBody(id, m), IsProof(data, body, b, c, d, e),
         NEW hello, hello = ReadHandshake(data, 1, CLIENT_HELLO)
  PROVE  hello.ok /\ hello.value = body
<1>1. /\ data \in Seq(Byte)
      /\ Framed(data, Handshake(CLIENT_HELLO, body), Handshake(SERVER_HELLO, b),
                Handshake(ENCRYPTED_EXTENSIONS, c), Handshake(CERTIFICATE, d),
                Handshake(CERTIFICATE_VERIFY, e))
  BY ProofFramed
<1>2. PICK p : Covers(data, 1, p, Handshake(CLIENT_HELLO, body))
  BY <1>1 DEF Framed
<1>3. body \in Seq(Byte)
  BY DEF IsProof
<1>4. FitsIn(3, Len(body)) /\ Len(body) + 4 <= MaxSize[CLIENT_HELLO]
  <2>1. PICK n : n = Len(body)
    OBVIOUS
  <2>2. n \in Nat
    BY <1>3, <2>1
  <2>3. MessageTypes[1] = CLIENT_HELLO
    BY DEF MessageTypes
  <2>4. n + 4 <= MaxSize[MessageTypes[1]]
    BY <2>1, <2>3, HelloAssumption
  <2>5. 1 \in 1..5
    OBVIOUS
  <2>6. IsShort(n)
    BY ONLY <2>2, <2>4, <2>5, MessageIsShort
  <2>7. FitsIn(3, n)
    BY ONLY <2>2, <2>6, ShortFits
  <2> QED BY <2>1, <2>3, <2>4, <2>7
<1>5. PICK one, type : one = 1 /\ type = CLIENT_HELLO
  OBVIOUS
<1>6. /\ data \in Seq(Byte) /\ type \in Byte /\ body \in Seq(Byte)
      /\ Covers(data, one, p, Handshake(type, body)) /\ FitsIn(3, Len(body))
      /\ Len(body) + 4 <= MaxSize[type] /\ hello = ReadHandshake(data, one, type)
  BY <1>1, <1>2, <1>3, <1>4, <1>5, TypesAreBytes
<1>7. Got(hello, p, body)
  BY ONLY <1>6, HandshakeGot
<1> QED BY <1>7 DEF Got

\* What the parser accepts of such a proof is of an allowed scheme.
LEMMA AcceptedIsAllowed ==
  ASSUME NEW id \in Sessions, NEW m \in Masks, NEW data, NEW body, NEW b, NEW c, NEW d, NEW e,
         body = ClientHelloBody(id, m), IsProof(data, body, b, c, d, e),
         NEW p, p = ParseProof(data), p.ok
  PROVE  IsAllowed(m, p.verify.scheme)
<1>1. PICK hello : hello = ReadHandshake(data, 1, CLIENT_HELLO)
  OBVIOUS
<1>2. hello.ok /\ hello.value = body
  BY <1>1, OwnHelloRead
<1>3. PICK answer : answer = ReadHandshake(data, hello.at, SERVER_HELLO)
  OBVIOUS
<1>4. PICK extensions : extensions = ReadHandshake(data, answer.at, ENCRYPTED_EXTENSIONS)
  OBVIOUS
<1>5. PICK certificate : certificate = ReadHandshake(data, extensions.at, CERTIFICATE)
  OBVIOUS
<1>6. PICK verify : verify = ReadHandshake(data, certificate.at, CERTIFICATE_VERIFY)
  OBVIOUS
<1>7. ~NotParsed.ok
  BY DEF NotParsed
<1>8. p = ParseBodies(ParseClientHello(hello.value), answer.value, extensions.value,
                      certificate.value, verify.value)
  BY <1>1, <1>3, <1>4, <1>5, <1>6, <1>7 DEF ParseProof
<1>9. PICK client, server, encrypted, chain, signed :
         /\ client = ParseClientHello(hello.value)
         /\ server = ParseServerHello(answer.value, client)
         /\ encrypted = ParseEncryptedExtensions(extensions.value)
         /\ chain = ParseCertificate(certificate.value)
         /\ signed = ParseCertificateVerify(verify.value, client)
  OBVIOUS
<1>10. p = AllParsed(client, server, encrypted, chain, signed)
  BY <1>8, <1>9 DEF ParseBodies
<1>11. signed.ok /\ p.verify = signed
  BY <1>10, AllParsedParts
<1>12. signed.scheme \in ToSet(client.schemes)
  BY <1>9, <1>11 DEF ParseCertificateVerify
<1>13. client = ParseClientHello(ClientHelloBody(id, m))
  BY <1>2, <1>9
<1>14. client.schemes = Schemes(m)
  BY <1>13, OwnHelloBack
<1> QED BY <1>11, <1>12, <1>14 DEF IsAllowed

\* The ServerHello came whole and alone.
CameWhole == Pop(inbound) = "message" /\ Len(inbound) = MessageSize(inbound)
Taken == IF CameWhole THEN TakeServerHello(inbound, session) ELSE NotTaken
\* A proof is one that this connection captured.
IsCapture(data) ==
    \E flight \in Flights :
        /\ TakesCertificate(Handshake(CERTIFICATE, flight.certificate))
        /\ data = EncodedProof(<<ClientHelloBody(session, mask), From(inbound, 4),
                                flight.extensions, flight.certificate, flight.verify>>)

\* What a connection has made of the messages of the server so far.
ConnectionInv ==
    /\ mask \in Masks
    /\ pc \in {"hello", "answered"} => taken = NotTaken
    /\ pc \in {"hello", "answered", "flight"} => proof = <<>>
    /\ pc \in {"flight", "captured", "failed"} => taken = Taken
    /\ pc \in {"flight", "captured"} => taken.verdict = "taken"
    /\ pc = "captured" => IsCapture(proof)
    /\ pc = "failed" /\ proof # <<>> =>
          taken.verdict = "taken" /\ IsCapture(proof) /\ ~ParseProof(proof).ok
    /\ pc # "disallowed"

\* The capture is a proof of byte strings.
LEMMA CaptureIsProof ==
  ASSUME BytesInv, NEW flight \in Flights, NEW data,
         data = EncodedProof(<<ClientHelloBody(session, mask), From(inbound, 4),
                               flight.extensions, flight.certificate, flight.verify>>)
  PROVE  IsProof(data, ClientHelloBody(session, mask), From(inbound, 4),
                 flight.extensions, flight.certificate, flight.verify)
<1>1. /\ flight.extensions \in Seq(Byte) /\ flight.certificate \in Seq(Byte)
      /\ flight.verify \in Seq(Byte) /\ session \in Seq(Byte)
  BY BytesAssumption, BytesAreBytes DEF BytesInv
<1>2. ClientHelloBody(session, mask) \in Seq(Byte)
  BY <1>1, ClientHelloBytes
<1>3. From(inbound, 4) \in Seq(Byte)
  BY FromBytes DEF BytesInv
<1> QED BY <1>1, <1>2, <1>3 DEF IsProof

\* A capture the parser accepts is of an allowed scheme.
LEMMA CaptureIsAllowed ==
  ASSUME BytesInv, mask \in Masks, IsCapture(proof), ParseProof(proof).ok
  PROVE  IsAllowed(mask, ParseProof(proof).verify.scheme)
<1>1. PICK flight \in Flights :
         proof = EncodedProof(<<ClientHelloBody(session, mask), From(inbound, 4),
                                flight.extensions, flight.certificate, flight.verify>>)
  BY DEF IsCapture
<1>2. PICK p : p = ParseProof(proof)
  OBVIOUS
<1>3. PICK body, b, c, d, e : /\ body = ClientHelloBody(session, mask) /\ b = From(inbound, 4)
                              /\ c = flight.extensions /\ d = flight.certificate
                              /\ e = flight.verify
  OBVIOUS
<1>4. IsProof(proof, body, b, c, d, e)
  BY <1>1, <1>3, CaptureIsProof
<1>5. session \in Sessions
  BY DEF BytesInv
<1>6. IsAllowed(mask, p.verify.scheme)
  BY <1>2, <1>3, <1>4, <1>5, AcceptedIsAllowed
<1> QED BY <1>2, <1>6

\* Every step keeps ConnectionInv.
LEMMA ConnectionStep ==
  ASSUME BytesInv, ConnectionInv, [Next]_vars
  PROVE  ConnectionInv'
<1>1. CASE ServerAnswers
  BY <1>1 DEF ServerAnswers, ConnectionInv
<1>2. CASE TakeHello
  <2>1. /\ pc = "answered" /\ taken = NotTaken /\ proof = <<>> /\ mask \in Masks
        /\ UNCHANGED <<mask, session, inbound, proof>>
        /\ taken' = Taken
    BY <1>2 DEF TakeHello, ConnectionInv, Taken, CameWhole
  <2>2. Taken' = Taken
    BY <2>1 DEF Taken, CameWhole
  <2>3. pc' \in {"flight", "failed"} /\ (pc' = "flight" => taken'.verdict = "taken")
    BY <1>2 DEF TakeHello
  <2> QED BY <2>1, <2>2, <2>3 DEF ConnectionInv
<1>3. CASE TakeFlight
  <2>1. /\ pc = "flight" /\ taken = Taken /\ taken.verdict = "taken" /\ proof = <<>>
        /\ mask \in Masks /\ UNCHANGED <<mask, session, inbound, taken>>
    BY <1>3 DEF TakeFlight, ConnectionInv
  <2>2. Taken' = Taken
    BY <2>1 DEF Taken, CameWhole
  <2>3. \/ pc' = "captured" /\ IsCapture(proof')
        \/ pc' = "failed" /\ proof' = <<>>
    BY <1>3, <2>1 DEF TakeFlight, IsCapture
  <2>4. IsCapture(proof') <=> IsCapture(proof)'
    BY <2>1 DEF IsCapture
  <2> QED BY <2>1, <2>2, <2>3, <2>4 DEF ConnectionInv
<1>4. CASE CheckCapture
  <2>1. /\ pc = "captured" /\ taken = Taken /\ taken.verdict = "taken" /\ IsCapture(proof)
        /\ mask \in Masks /\ UNCHANGED <<mask, session, inbound, taken, proof>>
    BY <1>4 DEF CheckCapture, ConnectionInv
  <2>2. Taken' = Taken /\ IsCapture(proof)'
    BY <2>1 DEF Taken, CameWhole, IsCapture
  <2>3. /\ pc' \in {"failed", "written", "disallowed"}
        /\ pc' = "failed" => ~ParseProof(proof').ok
        /\ pc' # "disallowed"
    <3>1. parsed' = ParseProof(proof)
      BY <1>4 DEF CheckCapture
    <3>2. pc' = IF ~parsed'.ok THEN "failed"
                ELSE IF IsAllowed(mask, parsed'.verify.scheme) THEN "written" ELSE "disallowed"
      BY <1>4 DEF CheckCapture
    <3>3. ParseProof(proof).ok => IsAllowed(mask, ParseProof(proof).verify.scheme)
      BY <2>1, CaptureIsAllowed
    <3> QED BY <2>1, <3>1, <3>2, <3>3
  <2> QED BY <2>1, <2>2, <2>3 DEF ConnectionInv
<1>5. CASE Edit
  BY <1>5 DEF Edit, ConnectionInv
<1>6. CASE ReadFile
  BY <1>6 DEF ReadFile, ConnectionInv
<1>7. CASE UNCHANGED vars
  BY <1>7 DEF vars, ConnectionInv, Taken, CameWhole, IsCapture
<1> QED BY <1>1, <1>2, <1>3, <1>4, <1>5, <1>6, <1>7 DEF Next, Over

\* ConnectionInv holds, relative to BytesInv.
LEMMA ConnectionHolds == Spec => []ConnectionInv
<1>1. Init => ConnectionInv
  BY DEF Init, ConnectionInv
<1>2. BytesInv /\ ConnectionInv /\ [Next]_vars => ConnectionInv'
  BY ConnectionStep
<1> QED BY <1>1, <1>2, StaysBytes, PTL DEF Spec

\* The scheme of a capture that parse_proof accepts is one the mask of the
\* output allows: the last check of a capture (tls13.py:474) refuses nothing.
THEOREM CapturedSchemeIsAllowed == Spec => []CapturedIsAllowed
<1>1. ConnectionInv => CapturedIsAllowed
  BY DEF ConnectionInv, CapturedIsAllowed
<1> QED BY <1>1, ConnectionHolds, PTL

-----------------------------------------------------------------------------
(* The two readers of a list of extensions *)

\* A walk has one outcome.
LEMMA WalkUnique ==
  ASSUME NEW n \in Nat, NEW Stop, NEW base, NEW item, NEW next, WalksIn(n, Stop, next),
         NEW c, Walked(c, n, Stop, base, item, next),
         NEW d, Walked(d, n, Stop, base, item, next)
  PROVE  c[0] = d[0]
<1>1. /\ Stop \subseteq 0..n
      /\ \A p \in (0..n) \ Stop : next[p] \in (p + 1)..n
  BY DEF WalksIn
<1>2. ASSUME NEW p \in 0..n
      PROVE  /\ c[p] = IF p \in Stop THEN base[p] ELSE <<item[p]>> \o c[next[p]]
             /\ d[p] = IF p \in Stop THEN base[p] ELSE <<item[p]>> \o d[next[p]]
  BY DEF Walked
<1> DEFINE Good(p) == c[p] = d[p]
           T == {k \in 0..n : \A p \in (n - k)..n : Good(p)}
<1>3. ASSUME NEW p \in 0..n, p \in Stop PROVE Good(p)
  BY <1>2, <1>3
<1>4. ASSUME NEW p \in 0..n, p \notin Stop, Good(next[p]) PROVE Good(p)
  BY <1>2, <1>4
<1> HIDE DEF Good
<1>5. Good(n)
  <2>1. n \in 0..n /\ ~(\E q : q \in (n + 1)..n)
    OBVIOUS
  <2> QED BY <1>1, <1>3, <2>1
<1>6. 0..n \subseteq T
  <2>1. 0 \in T
    BY <1>5
  <2>2. \A k \in 0..(n - 1) : k \in T => k + 1 \in T
    <3> SUFFICES ASSUME NEW k \in 0..(n - 1), \A p \in (n - k)..n : Good(p)
                 PROVE  k + 1 \in 0..n /\ \A p \in (n - (k + 1))..n : Good(p)
      OBVIOUS
    <3>1. PICK m : m = n - (k + 1)
      OBVIOUS
    <3>2. /\ k + 1 \in 0..n /\ m \in 0..n /\ m + 1 = n - k
          /\ \A p \in m..n : p = m \/ p \in (n - k)..n
      BY <3>1
    <3>3. Good(m)
      <4>1. CASE m \in Stop
        BY <1>3, <3>2, <4>1
      <4>2. CASE m \notin Stop
        <5>1. next[m] \in (n - k)..n
          BY <1>1, <3>2, <4>2
        <5> QED BY <1>4, <3>2, <4>2, <5>1
      <4> QED BY <4>1, <4>2
    <3> QED BY <3>1, <3>2, <3>3
  <2> HIDE DEF T
  <2>3. 0 \in Int /\ n \in Int /\ (0 <= n => 0 \in T)
    BY <2>1
  <2> QED BY <2>2, <2>3, IntervalInduction
<1>7. Good(0)
  <2>1. n \in 0..n /\ 0 \in (n - n)..n
    OBVIOUS
  <2> QED BY <1>6, <2>1
<1> QED BY <1>7 DEF Good

\* The number in front of the data of an entry, as tls13.py computes it.
SizeAt(encoded, p) == Number(Slice(encoded, p + 2, p + 4))
EndsAt(encoded, p) == Len(encoded) - p < 4 \/ Len(encoded) - (p + 4) < SizeAt(encoded, p)

\* The two parsers see the same entry at the same place.
LEMMA SameEntry ==
  ASSUME NEW encoded \in Seq(Byte), NEW p \in 0..Len(encoded),
         NEW size, size = SizeAt(encoded, p)
  PROVE  /\ DataRead(encoded, p).ok <=> ~EndsAt(encoded, p)
         /\ DataRead(encoded, p).ok =>
               /\ Entry(encoded, p) = [type |-> Number(Slice(encoded, p, p + 2)),
                                       data |-> Slice(encoded, p + 4, p + 4 + size)]
               /\ DataRead(encoded, p).at = p + 4 + size
<1>1. PICK n, q, r : n = Len(encoded) /\ q = p + 2 /\ r = p + 4
  OBVIOUS
<1>2. n \in Nat /\ p \in Nat /\ p <= n /\ q \in Nat /\ r = q + 2
  BY <1>1
<1>3. TagRead(encoded, p).at = q /\ TagRead(encoded, p).value = Slice(encoded, p, q)
  BY <1>1 DEF TagRead, Read
<1>4. PICK length, data : length = Read(encoded, q, 2) /\ data = DataRead(encoded, p)
  OBVIOUS
<1>5. length.ok = (r <= n) /\ length.value = Slice(encoded, q, r) /\ length.at = r
  BY <1>1, <1>2, <1>4 DEF Read
<1>6. size = Number(length.value)
  BY <1>1, <1>5 DEF SizeAt
<1>7. data = IF length.ok THEN Read(encoded, r, size) ELSE length
  BY <1>3, <1>4, <1>5, <1>6 DEF DataRead, ReadVector
<1>8. CASE r <= n
  <2>1. size \in Nat
    <3>1. Slice(encoded, q, r) \in Seq(Byte)
      <4>1. q \in Nat /\ r \in Nat /\ q <= r /\ r <= Len(encoded)
        BY <1>1, <1>2, <1>8
      <4> QED BY <4>1, SliceShape
    <3> QED BY <1>5, <1>6, <3>1, NumberIsNat
  <2>2. /\ data.ok = (r + size <= n) /\ data.value = Slice(encoded, r, r + size)
        /\ data.at = r + size
    BY <1>1, <1>5, <1>7, <1>8 DEF Read
  <2>3. EndsAt(encoded, p) <=> n - p < 4 \/ n - r < size
    BY <1>1 DEF EndsAt
  <2>4. ~(n - p < 4) /\ (n - r < size <=> ~(r + size <= n))
    BY <1>1, <1>2, <1>8, <2>1
  <2>5. Entry(encoded, p) = [type |-> Number(Slice(encoded, p, q)), data |-> data.value]
    BY <1>3, <1>4 DEF Entry
  <2> QED BY <1>1, <1>4, <2>2, <2>3, <2>4, <2>5
<1>9. CASE ~(r <= n)
  <2>1. ~data.ok
    BY <1>5, <1>7, <1>9
  <2>2. n - p < 4
    BY <1>1, <1>2, <1>9
  <2> QED BY <1>1, <1>4, <2>1, <2>2 DEF EndsAt
<1> QED BY <1>8, <1>9

\* What TakenExtensions computes.
LEMMA TakenWalk ==
  ASSUME NEW encoded \in Seq(Byte)
  PROVE  \E c : /\ Walked(c, Len(encoded), Stops(encoded), Ends(Len(encoded), Broken),
                          Items(encoded), Nexts(encoded))
                /\ TakenExtensions(encoded) = c[0]
<1> DEFINE n == Len(encoded)
           Is(f) == Walked(f, n, Stops(encoded), Ends(n, Broken), Items(encoded),
                           Nexts(encoded))
           Step(p, f) ==
              IF p = n THEN <<>>
              ELSE IF n - p < 4 \/ n - (p + 4) < Number(Slice(encoded, p + 2, p + 4))
                   THEN <<Broken>>
              ELSE <<[type |-> Number(Slice(encoded, p, p + 2)),
                      data |-> Slice(encoded, p + 4,
                                     p + 4 + Number(Slice(encoded, p + 2, p + 4)))]>>
                   \o f[p + 4 + Number(Slice(encoded, p + 2, p + 4))]
           Walk(f) == f = [p \in 0..n |-> Step(p, f)]
<1>1. n \in Nat
  OBVIOUS
<1>2. \E f : Is(f)
  <2>1. WalksIn(n, Stops(encoded), Nexts(encoded))
    BY EntriesReader DEF Reader
  <2> HIDE DEF n
  <2> QED BY <1>1, <2>1, WalkRecursion
<1>3. ASSUME NEW f PROVE Is(f) <=> Walk(f)
  <2>1. ASSUME NEW p \in 0..n
        PROVE  (IF p \in Stops(encoded) THEN Ends(n, Broken)[p]
                ELSE <<Items(encoded)[p]>> \o f[Nexts(encoded)[p]]) = Step(p, f)
    <3>1. PICK size : size = SizeAt(encoded, p)
      OBVIOUS
    <3>2. /\ DataRead(encoded, p).ok <=> ~EndsAt(encoded, p)
          /\ DataRead(encoded, p).ok =>
                /\ Entry(encoded, p) = [type |-> Number(Slice(encoded, p, p + 2)),
                                        data |-> Slice(encoded, p + 4, p + 4 + size)]
                /\ DataRead(encoded, p).at = p + 4 + size
      BY <3>1, SameEntry
    <3>3. Step(p, f) = IF p = n THEN <<>>
                       ELSE IF EndsAt(encoded, p) THEN <<Broken>>
                       ELSE <<[type |-> Number(Slice(encoded, p, p + 2)),
                               data |-> Slice(encoded, p + 4, p + 4 + size)]>>
                            \o f[p + 4 + size]
      BY <3>1 DEF EndsAt, SizeAt
    <3> HIDE DEF Step
    <3>4. Ends(n, Broken)[p] = IF p = n THEN <<>> ELSE <<Broken>>
      BY DEF Ends
    <3>5. p \in Stops(encoded) <=> p = n \/ ~DataRead(encoded, p).ok
      BY DEF Stops
    <3>6. Items(encoded)[p] = Entry(encoded, p) /\ Nexts(encoded)[p] = DataRead(encoded, p).at
      BY DEF Items, Nexts
    <3> QED BY <3>2, <3>3, <3>4, <3>5, <3>6
  <2> HIDE DEF Step
  <2> QED BY <2>1 DEF Walked
<1> DEFINE c == CHOOSE f : Walk(f)
<1>4. Walk(c)
  <2>1. \E f : Walk(f)
    <3> HIDE DEF Is, Walk
    <3> QED BY <1>2, <1>3
  <2> HIDE DEF Walk
  <2> QED BY <2>1
<1>5. TakenExtensions(encoded) = c[0]
  BY DEF TakenExtensions
<1> HIDE DEF c, Walk, Is
<1>6. Is(c)
  BY <1>3, <1>4
<1> QED BY <1>5, <1>6 DEF Is

\* _parse_extensions of tls13.py and _extensions of protocol.py read the same.
LEMMA SameEntries ==
  ASSUME NEW encoded \in Seq(Byte)
  PROVE  TakenExtensions(encoded) = Entries(encoded)
<1>1. PICK c : /\ Walked(c, Len(encoded), Stops(encoded), Ends(Len(encoded), Broken),
                         Items(encoded), Nexts(encoded))
               /\ Entries(encoded) = c[0]
  BY EntriesWalk
<1>2. PICK d : /\ Walked(d, Len(encoded), Stops(encoded), Ends(Len(encoded), Broken),
                         Items(encoded), Nexts(encoded))
               /\ TakenExtensions(encoded) = d[0]
  BY TakenWalk
<1>3. WalksIn(Len(encoded), Stops(encoded), Nexts(encoded))
  BY EntriesReader DEF Reader
<1>4. Len(encoded) \in Nat
  OBVIOUS
<1>5. c[0] = d[0]
  BY <1>1, <1>2, <1>3, <1>4, WalkUnique
<1> QED BY <1>1, <1>2, <1>5

-----------------------------------------------------------------------------
(* The two readers of a ServerHello *)

\* What is left of data from an offset on.
LEMMA FromShape ==
  ASSUME NEW data \in Seq(Byte), NEW at \in Nat, at <= Len(data)
  PROVE  /\ From(data, at) \in Seq(Byte) /\ Len(From(data, at)) = Len(data) - at
         /\ Covers(data, at, Len(data), From(data, at))
<1>1. PICK n : n = Len(data)
  OBVIOUS
<1>2. n \in Nat /\ at <= n /\ n <= Len(data)
  BY <1>1
<1>3. Covers(data, at, n, Slice(data, at, n)) /\ Len(Slice(data, at, n)) = n - at
  BY <1>2, SliceCovers
<1>4. From(data, at) = Slice(data, at, n)
  BY <1>1 DEF From
<1> QED BY <1>1, <1>3, <1>4 DEF Covers

\* What a reader returns.
LEMMA ReadParts ==
  ASSUME NEW data, NEW at, NEW size, NEW to, to = at + size, NEW r, r = Read(data, at, size)
  PROVE  (r.ok <=> to <= Len(data)) /\ r.value = Slice(data, at, to) /\ r.at = to
BY DEF Read

\* A slice of one byte, and what it counts.
LEMMA ByteRead ==
  ASSUME NEW data \in Seq(Byte), NEW at \in Nat, at < Len(data), NEW x, x = data[at + 1],
         NEW r, r = Read(data, at, 1)
  PROVE  /\ x \in Byte /\ x \in Nat
         /\ r.ok /\ r.value = <<x>> /\ r.at = at + 1 /\ Number(<<x>>) = x
<1>1. PICK n, next : n = Len(data) /\ next = at + 1
  OBVIOUS
<1>2. n \in Nat /\ next \in 1..n /\ at \in 0..(n - 1)
  BY <1>1
<1>3. x \in Byte
  BY <1>1, <1>2
<1>4. x \in 0..255
  BY <1>3, BytesAreBytes DEF Byte
<1>5. Slice(data, at, next) = <<x>>
  BY <1>1, <1>2, SliceOne
<1>6. r.ok /\ r.value = Slice(data, at, next) /\ r.at = next
  <2>1. (r.ok <=> next <= Len(data)) /\ r.value = Slice(data, at, next) /\ r.at = next
    BY <1>1, ReadParts
  <2> QED BY <1>1, <1>2, <2>1
<1>7. Number(<<x>>) = x
  <2>1. PICK b : b = <<x>>
    OBVIOUS
  <2>2. b \in Seq(Byte)
    BY <1>3, <2>1
  <2>3. PICK v \in [0..Len(b) -> Nat] :
            /\ v[0] = 0
            /\ \A i \in 1..Len(b) : v[i] = Base * v[i - 1] + b[i]
            /\ Number(b) = v[Len(b)]
    BY <2>2, NumberShape
  <2>4. Len(b) = 1 /\ b[1] = x /\ Base \in Nat
    BY <2>1, BytesAreBytes
  <2>5. 1 \in 1..Len(b) /\ 1 - 1 = 0
    BY <2>4
  <2>6. v[1] = Base * 0 + x
    BY <2>3, <2>4, <2>5
  <2>7. Base * 0 + x = x
    BY <1>4, <2>4
  <2> QED BY <2>1, <2>3, <2>4, <2>6, <2>7
<1>8. x \in Nat
  BY ONLY SMT, <1>4
<1>9. r.value = <<x>> /\ r.at = at + 1
  BY <1>1, <1>5, <1>6
<1> QED BY <1>3, <1>6, <1>7, <1>8, <1>9

\* hello is the message of this type that the bytes begin with, and size the
\* number in its header.
IsFirst(message, type, size, hello) ==
    size = Number(Slice(message, 1, 4)) /\ hello = ReadHandshake(message, 0, type)

\* The header of a message, and what is behind it.
LEMMA HelloRead ==
  ASSUME NEW message \in Seq(Byte), Len(message) >= 4, NEW type, NEW size, NEW hello,
         IsFirst(message, type, size, hello)
  PROVE  /\ size \in Nat
         /\ hello.ok <=> /\ message[1] = type /\ size + 4 <= MaxSize[type]
                         /\ size + 4 <= Len(message)
         /\ hello.at = size + 4
         /\ size + 4 = Len(message) => hello.value = From(message, 4)
<1> size = Number(Slice(message, 1, 4)) /\ hello = ReadHandshake(message, 0, type)
  BY DEF IsFirst
<1>1. PICK n, one, four : n = Len(message) /\ one = 1 /\ four = 4
  OBVIOUS
<1>2. n \in Nat /\ four <= n /\ one \in Nat /\ four \in Nat /\ one <= four /\ 0 <= one
  BY <1>1
<1>3. PICK x, d, head : x = Slice(message, 0, one) /\ d = Slice(message, one, four)
                        /\ head = Slice(message, 0, four)
  OBVIOUS
<1>4. x \in Seq(Byte) /\ d \in Seq(Byte) /\ Len(x) = 1
  <2>1. four <= Len(message) /\ one <= Len(message) /\ 0 \in Nat
    BY <1>1, <1>2
  <2>2. x \in Seq(Byte) /\ Len(x) = one - 0
    BY <1>2, <1>3, <2>1, SliceShape
  <2>3. d \in Seq(Byte)
    BY <1>2, <1>3, <2>1, SliceShape
  <2> QED BY <1>1, <2>2, <2>3
<1>5. head = x \o d /\ head[1] = message[1] /\ head \in Seq(Byte) /\ Len(head) = 4
  <2>1. four <= Len(message) /\ 0 \in Nat /\ 0 <= four
    BY <1>1, <1>2
  <2>2. head = x \o d
    BY <1>2, <1>3, <2>1, SliceJoin
  <2>3. /\ head \in Seq(Byte) /\ Len(head) = four - 0
        /\ \A j \in 1..(four - 0) : head[j] = message[0 + j]
    BY <1>2, <1>3, <2>1, SliceShape
  <2>4. 1 \in 1..(four - 0) /\ 0 + 1 = 1 /\ four - 0 = 4
    BY <1>1
  <2>5. head[1] = message[0 + 1]
    BY <2>3, <2>4
  <2> QED BY <2>2, <2>3, <2>4, <2>5
<1>6. From(head, 1) = d
  <2>1. Covers(head, 0, Len(head), x \o d)
    BY <1>5, CoversItself
  <2>2. PICK o : o = 0 + Len(x)
    OBVIOUS
  <2>3. Covers(head, o, Len(head), d)
    BY <1>4, <1>5, <2>1, <2>2, CoversParts
  <2>4. o = 1
    BY <1>4, <2>2
  <2> QED BY <2>3, <2>4 DEF Covers, From
<1>7. size = Number(d) /\ size \in Nat
  <2>1. size = Number(d)
    BY <1>1, <1>3
  <2> QED BY <1>4, <2>1, NumberIsNat
<1>8. PICK header, rest : header = Read(message, 0, 4) /\ rest = Read(message, four, size)
  OBVIOUS
<1>9. header.ok /\ header.value = head /\ header.at = four
  <2>1. four = 0 + 4 /\ four <= Len(message)
    BY <1>1, <1>2
  <2>2. (header.ok <=> four <= Len(message)) /\ header.value = Slice(message, 0, four)
        /\ header.at = four
    BY <1>8, <2>1, ReadParts
  <2> QED BY <1>3, <2>1, <2>2
<1>10. BodySize(header) = size
  BY <1>6, <1>7, <1>9 DEF BodySize
<1>11. hello = [ok |-> IsHandshake(header, rest, type), value |-> rest.value, at |-> rest.at]
  BY <1>8, <1>9, <1>10 DEF ReadHandshake
<1>12. /\ rest.ok = (four + size <= n) /\ rest.value = Slice(message, four, four + size)
       /\ rest.at = four + size
  BY <1>1, <1>8 DEF Read
<1>13. hello.ok = IsHandshake(header, rest, type) /\ hello.value = rest.value
       /\ hello.at = rest.at
  BY <1>11
<1>14. IsHandshake(header, rest, type) <=>
          message[1] = type /\ size + 4 <= MaxSize[type] /\ four + size <= n
  BY <1>5, <1>9, <1>10, <1>12 DEF IsHandshake
<1>15. four + size = size + 4 /\ four = 4
  BY <1>1, <1>7
<1>16. size + 4 = n => hello.value = From(message, 4)
  BY <1>1, <1>12, <1>13, <1>15 DEF From
<1> QED BY <1>1, <1>7, <1>12, <1>13, <1>14, <1>15, <1>16

\* A message without a whole header is none.
LEMMA ShortHello ==
  ASSUME NEW message \in Seq(Byte), ~(Len(message) >= 4), NEW type
  PROVE  ~ReadHandshake(message, 0, type).ok
<1>1. PICK header : header = Read(message, 0, 4)
  OBVIOUS
<1>2. PICK four, n : four = 4 /\ n = Len(message)
  OBVIOUS
<1>3. four = 0 + 4 /\ ~(four <= n)
  BY <1>2
<1>4. ~header.ok
  BY <1>1, <1>2, <1>3, ReadParts
<1>5. PICK rest : rest = Read(message, header.at, BodySize(header))
  OBVIOUS
<1>6. ReadHandshake(message, 0, type)
        = [ok |-> IsHandshake(header, rest, type), value |-> rest.value, at |-> rest.at]
  BY <1>1, <1>5 DEF ReadHandshake
<1>7. ~IsHandshake(header, rest, type)
  BY <1>4 DEF IsHandshake
<1> QED BY <1>6, <1>7

\* r is the field of n bytes at a, b the offset behind it.
IsRead(data, a, n, b, r) == b = a + n /\ r = Read(data, a, n)

\* What such a field is.
LEMMA ReadIs ==
  ASSUME NEW data, NEW a, NEW n, NEW b, NEW r, IsRead(data, a, n, b, r)
  PROVE  (r.ok <=> b <= Len(data)) /\ r.value = Slice(data, a, b) /\ r.at = b
BY DEF IsRead, Read

\* The same for the single byte in front of b.
LEMMA ByteIs ==
  ASSUME NEW data \in Seq(Byte), NEW a \in Nat, NEW b, NEW r,
         IsRead(data, a, 1, b, r), b <= Len(data)
  PROVE  r.value = <<data[b]>> /\ r.at = b
<1>1. r.value = Slice(data, a, b) /\ r.at = b
  BY ReadIs
<1>2. PICK n : n = Len(data)
  OBVIOUS
<1>3. b = a + 1 /\ a \in 0..(n - 1)
  BY <1>2 DEF IsRead
<1>4. Slice(data, a, b) = <<data[b]>>
  BY <1>2, <1>3, SliceOne
<1> QED BY <1>1, <1>4

\* r is the vector behind the byte at a, which is x; b and c are the offsets
\* where its bytes begin and end.
IsByteVector(data, a, b, x, c, r) ==
    b = a + 1 /\ x = data[b] /\ c = b + x /\ r = ReadVector(data, a, 1)

\* A vector behind one byte, read where there is one.
LEMMA ByteVector ==
  ASSUME NEW data \in Seq(Byte), NEW a \in Nat, NEW b, NEW x, NEW c, NEW r,
         IsByteVector(data, a, b, x, c, r), b <= Len(data)
  PROVE  /\ x \in Nat /\ c \in Nat /\ b <= c
         /\ (r.ok <=> c <= Len(data)) /\ r.value = Slice(data, b, c) /\ r.at = c
<1>1. PICK length : length = Read(data, a, 1)
  OBVIOUS
<1> b = a + 1 /\ x = data[b] /\ c = b + x /\ r = ReadVector(data, a, 1)
  BY DEF IsByteVector
<1>2. a < Len(data) /\ x = data[a + 1]
  OBVIOUS
<1>3. x \in Nat /\ length.ok /\ length.value = <<x>> /\ length.at = b /\ Number(<<x>>) = x
  BY <1>1, <1>2, ByteRead
<1>4. r = Read(data, b, x)
  BY <1>1, <1>3 DEF ReadVector
<1>5. (r.ok <=> c <= Len(data)) /\ r.value = Slice(data, b, c) /\ r.at = c
  <2>1. IsRead(data, b, x, c, r)
    BY <1>4 DEF IsRead
  <2> QED BY <2>1, ReadIs
<1>6. c \in Nat /\ b <= c
  BY <1>3
<1> QED BY <1>3, <1>5, <1>6

\* r is the vector behind the two bytes at a, which are the number n; b and c
\* are the offsets where its bytes begin and end.
IsShortVector(data, a, b, n, c, r) ==
    /\ b = a + 2 /\ n = Number(Slice(data, a, b)) /\ c = b + n
    /\ r = ReadVector(data, a, 2)

\* A vector behind two bytes.
LEMMA ShortVector ==
  ASSUME NEW data \in Seq(Byte), NEW a \in Nat, NEW b, NEW n, NEW c, NEW r,
         IsShortVector(data, a, b, n, c, r)
  PROVE  /\ r.ok => b <= Len(data)
         /\ b <= Len(data) =>
               /\ n \in Nat /\ c \in Nat /\ b <= c
               /\ (r.ok <=> c <= Len(data)) /\ r.value = Slice(data, b, c) /\ r.at = c
<1>1. PICK length : length = Read(data, a, 2)
  OBVIOUS
<1> b = a + 2 /\ n = Number(Slice(data, a, b)) /\ c = b + n /\ r = ReadVector(data, a, 2)
  BY DEF IsShortVector
<1>2. (length.ok <=> b <= Len(data)) /\ length.value = Slice(data, a, b) /\ length.at = b
  <2>1. IsRead(data, a, 2, b, length)
    BY <1>1 DEF IsRead
  <2> QED BY <2>1, ReadIs
<1>3. r = IF length.ok THEN Read(data, length.at, Number(length.value)) ELSE length
  BY <1>1 DEF ReadVector
<1>4. ASSUME b <= Len(data)
      PROVE  /\ n \in Nat /\ c \in Nat /\ b <= c
             /\ (r.ok <=> c <= Len(data)) /\ r.value = Slice(data, b, c) /\ r.at = c
  <2>1. r = Read(data, b, n)
    BY <1>2, <1>3, <1>4
  <2>2. (r.ok <=> c <= Len(data)) /\ r.value = Slice(data, b, c) /\ r.at = c
    <3>1. IsRead(data, b, n, c, r)
      BY <2>1 DEF IsRead
    <3> QED BY <3>1, ReadIs
  <2>3. a <= b /\ b \in Nat
    OBVIOUS
  <2>4. Slice(data, a, b) \in Seq(Byte)
    BY <1>4, <2>3, SliceShape
  <2>5. n \in Nat
    BY <2>4, NumberIsNat
  <2> QED BY <2>2, <2>3, <2>5
<1> QED BY <1>2, <1>3, <1>4

\* The fields of a ServerHello, as protocol.py reads them.
AreServerFields(body, version, random, id, cipher, compression, block) ==
    /\ version = Read(body, 0, 2) /\ random = Read(body, version.at, RandomSize)
    /\ id = ReadVector(body, random.at, 1) /\ cipher = Read(body, id.at, 2)
    /\ compression = Read(body, cipher.at, 1) /\ block = ReadVector(body, compression.at, 2)
\* The offsets of its fields, as tls13.py counts them.
AreServerOffsets(body, start, at, size, after, c, list, first) ==
    /\ start = RandomSize + 2 /\ at = start + 1 /\ size = body[at] /\ after = at + size
    /\ c = after + 2 /\ list = c + 1 /\ first = list + 2
\* The fields are the slices between them.
AreSlices(body, start, at, after, c, list, version, random, id, cipher, compression) ==
    /\ version.value = Slice(body, 0, 2) /\ random.value = Slice(body, 2, start)
    /\ id.value = Slice(body, at, after) /\ cipher.value = Slice(body, after, c)
    /\ compression.value = <<body[list]>> /\ compression.at = list

\* Where the body goes on behind its fields, each is the slice tls13.py takes.
LEMMA ServerSlices ==
  ASSUME NEW body \in Seq(Byte), NEW version, NEW random, NEW id, NEW cipher,
         NEW compression, NEW block,
         AreServerFields(body, version, random, id, cipher, compression, block),
         NEW start, NEW at, NEW size, NEW after, NEW c, NEW list, NEW first,
         AreServerOffsets(body, start, at, size, after, c, list, first),
         at <= Len(body), first <= Len(body)
  PROVE  /\ AreSlices(body, start, at, after, c, list, version, random, id, cipher, compression)
         /\ start \in Nat /\ at \in Nat /\ size \in Nat /\ after \in Nat /\ c \in Nat
         /\ list \in Nat /\ first \in Nat /\ Len(id.value) = size
<1>1. RandomSize \in Nat /\ RandomSize + 2 = 2 + RandomSize
  <2>1. Challenge \in Seq(Byte)
    BY FixedBytes
  <2> QED BY <2>1 DEF RandomSize
<1>2. /\ start = RandomSize + 2 /\ at = start + 1 /\ size = body[at] /\ after = at + size
      /\ c = after + 2 /\ list = c + 1 /\ first = list + 2
  BY DEF AreServerOffsets
<1>3. /\ version = Read(body, 0, 2) /\ random = Read(body, version.at, RandomSize)
      /\ id = ReadVector(body, random.at, 1) /\ cipher = Read(body, id.at, 2)
      /\ compression = Read(body, cipher.at, 1) /\ block = ReadVector(body, compression.at, 2)
  BY DEF AreServerFields
<1>4. version.value = Slice(body, 0, 2) /\ version.at = 2
  <2>1. 2 = 0 + 2
    OBVIOUS
  <2>2. IsRead(body, 0, 2, 2, version)
    BY ONLY <1>3, <2>1 DEF IsRead
  <2> QED BY <2>2, ReadIs
<1>5. random.value = Slice(body, 2, start) /\ random.at = start
  <2>1. IsRead(body, 2, RandomSize, start, random)
    BY ONLY <1>1, <1>2, <1>3, <1>4 DEF IsRead
  <2> QED BY <2>1, ReadIs
<1>6. start \in Nat /\ at \in Nat
  BY <1>1, <1>2
<1>7. /\ size \in Nat /\ after \in Nat /\ at <= after
      /\ id.value = Slice(body, at, after) /\ id.at = after
  <2>1. IsByteVector(body, start, at, size, after, id)
    BY ONLY <1>2, <1>3, <1>5 DEF IsByteVector
  <2> QED BY <1>6, <2>1, ByteVector
<1>8. cipher.value = Slice(body, after, c) /\ cipher.at = c
  <2>1. IsRead(body, after, 2, c, cipher)
    BY ONLY <1>2, <1>3, <1>7 DEF IsRead
  <2> QED BY <2>1, ReadIs
<1>9. c \in Nat /\ list \in Nat /\ first \in Nat /\ c < Len(body) /\ after <= Len(body)
  <2>1. PICK n : n = Len(body)
    OBVIOUS
  <2>2. n \in Nat /\ first <= n
    BY <2>1
  <2>3. c \in Nat /\ list \in Nat /\ first \in Nat /\ c < n /\ after <= n
    <3>1. c = after + 2 /\ list = c + 1 /\ first = list + 2 /\ after \in Nat
      BY <1>2, <1>7
    <3> QED BY ONLY <2>2, <3>1
  <2> QED BY <2>1, <2>3
<1>10. compression.value = <<body[list]>> /\ compression.at = list
  <2>1. IsRead(body, c, 1, list, compression)
    BY ONLY <1>2, <1>3, <1>8 DEF IsRead
  <2>2. list <= Len(body)
    BY <1>2, <1>9
  <2> QED BY <1>9, <2>1, <2>2, ByteIs
<1>11. Len(id.value) = size
  <2>1. Len(Slice(body, at, after)) = after - at
    BY <1>6, <1>7, <1>9, SliceShape
  <2>2. after - at = size
    <3>1. after = at + size /\ at \in Nat /\ size \in Nat
      BY <1>2, <1>6, <1>7
    <3> QED BY ONLY <3>1
  <2> QED BY <1>7, <2>1, <2>2
<1> QED BY <1>4, <1>5, <1>6, <1>7, <1>8, <1>9, <1>10, <1>11 DEF AreSlices

\* It goes on that far if protocol.py has read all of its fields.
LEMMA ServerIsLong ==
  ASSUME NEW body \in Seq(Byte), NEW version, NEW random, NEW id, NEW cipher,
         NEW compression, NEW block,
         AreServerFields(body, version, random, id, cipher, compression, block),
         NEW start, NEW at, NEW size, NEW after, NEW c, NEW list, NEW first,
         AreServerOffsets(body, start, at, size, after, c, list, first),
         block.ok
  PROVE  at <= Len(body) /\ first <= Len(body)
<1>1. RandomSize \in Nat /\ RandomSize + 2 = 2 + RandomSize
  <2>1. Challenge \in Seq(Byte)
    BY FixedBytes
  <2> QED BY <2>1 DEF RandomSize
<1>2. /\ start = RandomSize + 2 /\ at = start + 1 /\ size = body[at] /\ after = at + size
      /\ c = after + 2 /\ list = c + 1 /\ first = list + 2
  BY DEF AreServerOffsets
<1>3. /\ version = Read(body, 0, 2) /\ random = Read(body, version.at, RandomSize)
      /\ id = ReadVector(body, random.at, 1) /\ cipher = Read(body, id.at, 2)
      /\ compression = Read(body, cipher.at, 1) /\ block = ReadVector(body, compression.at, 2)
  BY DEF AreServerFields
<1>4. PICK two, one : two = 2 /\ one = 1 /\ two \in Nat /\ one \in Nat
  OBVIOUS
<1>5. Field(body, 0, version, version.value)
  BY <1>3, ReadFirst
<1>6. PICK x : x = version.value \o random.value /\ Field(body, 0, random, x)
  BY <1>1, <1>3, <1>5, ReadAfter
<1>21. /\ id = ReadVector(body, random.at, one) /\ cipher = Read(body, id.at, two)
       /\ compression = Read(body, cipher.at, one)
  BY <1>3, <1>4
<1>22. PICK y, z, u : /\ y = x \o Vector(one, id.value) /\ z = y \o cipher.value
                      /\ u = z \o compression.value
  OBVIOUS
<1>7. Field(body, 0, id, y)
  BY <1>4, <1>6, <1>21, <1>22, VectorAfter
<1>8. Field(body, 0, cipher, z) /\ Sized(id, cipher, two)
  BY <1>4, <1>7, <1>21, <1>22, ReadAfter
<1>9. Field(body, 0, compression, u) /\ Sized(cipher, compression, one)
  <2>1. Field(body, 0, cipher, z)
    BY <1>8
  <2>2. one \in Nat /\ compression = Read(body, cipher.at, one)
    BY <1>4, <1>21
  <2>3. /\ Field(body, 0, compression, z \o compression.value)
        /\ Sized(cipher, compression, one)
    BY ONLY <2>1, <2>2, body \in Seq(Byte), ReadAfter
  <2> QED BY <1>22, <2>3
<1>10. Typed(compression, block)
  BY <1>3, <1>4, <1>9, VectorAfter
<1>11. compression.ok /\ cipher.ok /\ id.ok
  BY <1>8, <1>9, <1>10 DEF Typed, Sized
<1>12. version.at = 2
  <2>1. 2 = 0 + 2
    OBVIOUS
  <2>2. IsRead(body, 0, 2, 2, version)
    BY ONLY <1>3, <2>1 DEF IsRead
  <2> QED BY <2>2, ReadIs
<1>13. random.at = start /\ start \in Nat
  <2>1. random.at = start
    <3>1. IsRead(body, 2, RandomSize, start, random)
      BY ONLY <1>1, <1>2, <1>3, <1>12 DEF IsRead
    <3> QED BY <3>1, ReadIs
  <2> QED BY <1>1, <1>2, <2>1
<1>14. at <= Len(body) /\ at \in Nat
  <2>1. /\ Field(body, start, id, Vector(one, id.value)) /\ start + one <= id.at
    BY <1>3, <1>4, <1>13, VectorIsField
  <2>2. id.at <= Len(body) /\ id.at \in Nat
    BY <1>11, <2>1 DEF Field
  <2>3. start + one = at
    BY <1>2, <1>4
  <2> QED BY <1>2, <1>13, <2>1, <2>2, <2>3
<1>15. id.at = after /\ after \in Nat
  <2>1. IsByteVector(body, start, at, size, after, id)
    BY ONLY <1>2, <1>3, <1>13 DEF IsByteVector
  <2> QED BY <1>13, <1>14, <2>1, ByteVector
<1>16. cipher.at = c
  <2>1. IsRead(body, after, 2, c, cipher)
    BY ONLY <1>2, <1>3, <1>15 DEF IsRead
  <2> QED BY <2>1, ReadIs
<1>17. compression.at = list
  <2>1. IsRead(body, c, 1, list, compression)
    BY ONLY <1>2, <1>3, <1>16 DEF IsRead
  <2> QED BY <2>1, ReadIs
<1>18. list \in Nat
  BY <1>2, <1>15
<1>19. block = ReadVector(body, list, 2)
  BY <1>3, <1>17
<1>20. first <= Len(body)
  <2>1. PICK n, last : n = Number(Slice(body, list, first)) /\ last = first + n
    OBVIOUS
  <2>2. IsShortVector(body, list, first, n, last, block)
    BY ONLY <1>2, <1>19, <2>1 DEF IsShortVector
  <2> QED BY <1>18, <2>2, ShortVector
<1> QED BY <1>14, <1>20

\* The share both parsers take is one of X25519 that nothing follows.
LEMMA ShareSame ==
  ASSUME NEW share \in Seq(Byte), NEW group, group = Read(share, 0, 2),
         NEW key, key = ReadVector(share, group.at, 2)
  PROVE  /\ IsX25519Share(share) <=> /\ IsAllRead(key, share)
                                     /\ IsKeyShare(Number(group.value), key.value)
                                     /\ Number(group.value) = GROUP_X25519
         /\ IsX25519Share(share) => key.value = From(share, 4)
<1>1. PICK n, c, two, four, len : /\ n = Number(Slice(share, 2, 4)) /\ c = four + n
                                  /\ two = 2 /\ four = 4 /\ len = Len(share)
  OBVIOUS
<1>2. two \in Nat /\ four \in Nat /\ two + 2 = four /\ len \in Nat /\ 0 + 2 = two
  BY <1>1
<1>3. group.value = Slice(share, 0, two) /\ group.at = two
  <2>1. IsRead(share, 0, 2, two, group)
    BY <1>2 DEF IsRead
  <2> QED BY <2>1, ReadIs
<1>4. IsShortVector(share, two, four, n, c, key)
  BY <1>1, <1>2, <1>3 DEF IsShortVector
<1>5. /\ key.ok => four <= len
      /\ four <= len =>
            /\ n \in Nat /\ c \in Nat /\ four <= c
            /\ (key.ok <=> c <= len) /\ key.value = Slice(share, four, c) /\ key.at = c
  BY <1>1, <1>2, <1>4, ShortVector
<1>6. ASSUME four <= c, c <= len, c \in Nat
      PROVE  Len(key.value) = c - four
  <2>1. key.value = Slice(share, four, c)
    BY <1>2, <1>5, <1>6
  <2>2. c <= Len(share)
    BY <1>1, <1>6
  <2>3. Len(Slice(share, four, c)) = c - four
    BY <1>2, <1>6, <2>2, SliceShape
  <2> QED BY <2>1, <2>3
<1>7. IsX25519Share(share) <=> /\ len >= four /\ Number(Slice(share, 0, two)) = GROUP_X25519
                               /\ n = X25519Size /\ len = X25519Size + four
  BY <1>1 DEF IsX25519Share, IsX25519ShareStart
<1>8. X25519Size \in Nat
  BY SizesAssumption
<1>9. ASSUME len >= four, n = X25519Size, len = X25519Size + four
      PROVE  /\ IsAllRead(key, share) /\ Len(key.value) = X25519Size
             /\ key.value = From(share, 4)
  <2>1. c = len /\ four <= c
    BY <1>1, <1>2, <1>8, <1>9
  <2>2. key.ok /\ key.at = len /\ key.value = Slice(share, four, len)
    BY <1>2, <1>5, <2>1
  <2>3. Len(key.value) = c - four
    BY <1>2, <1>6, <2>1
  <2>4. c - four = X25519Size
    BY <1>2, <1>8, <1>9, <2>1
  <2> QED BY <1>1, <2>2, <2>3, <2>4 DEF IsAllRead, From
<1>10. ASSUME IsAllRead(key, share), Len(key.value) = X25519Size
       PROVE  len >= four /\ n = X25519Size /\ len = X25519Size + four
  <2>1. key.ok /\ key.at = len
    BY <1>1, <1>10 DEF IsAllRead
  <2>2. four <= len /\ n \in Nat /\ c = len /\ four <= c
    BY <1>5, <2>1
  <2>3. Len(key.value) = c - four
    BY <1>2, <1>6, <2>2
  <2> QED BY <1>1, <1>2, <1>8, <1>10, <2>2, <2>3
<1>11. ASSUME NEW g
       PROVE  g = GROUP_X25519 =>
                (IsKeyShare(g, key.value) <=> Len(key.value) = X25519Size)
  BY DEF IsKeyShare, GROUP_X25519, GROUP_SECP256R1
<1>12. PICK g : g = Number(group.value)
  OBVIOUS
<1> HIDE DEF GROUP_X25519
<1>13. IsX25519Share(share) <=> /\ IsAllRead(key, share) /\ IsKeyShare(g, key.value)
                                /\ g = GROUP_X25519
  BY <1>3, <1>7, <1>9, <1>10, <1>11, <1>12
<1>14. IsX25519Share(share) => key.value = From(share, 4)
  BY <1>7, <1>9
<1> QED BY <1>12, <1>13, <1>14

\* An extension is four bytes longer than its data.
LEMMA ExtensionLength ==
  ASSUME NEW e \in EntrySet, NEW piece, piece = Extension(e.type, e.data)
  PROVE  Len(e.data) \in Nat /\ Len(piece) = Len(e.data) + 4
<1>1. e.type \in Nat /\ e.data \in Seq(Byte)
  BY DEF EntrySet
<1>2. PICK tag, vector : tag = Digits(2, e.type) /\ vector = Vector(2, e.data)
  OBVIOUS
<1>3. tag \in Seq(Byte) /\ Len(tag) = 2
  BY <1>1, <1>2, DigitsShape
<1>4. vector \in Seq(Byte) /\ Len(vector) = 2 + Len(e.data)
  BY <1>1, <1>2, VectorBytes
<1>5. Len(tag \o vector) = Len(tag) + Len(vector)
  BY ONLY <1>3, <1>4, ConcatShape
<1>6. piece = tag \o vector
  BY <1>2 DEF Extension
<1>7. PICK n, l, k : n = Len(e.data) /\ l = Len(piece) /\ k = Len(vector)
  OBVIOUS
<1>8. n \in Nat
  BY <1>1, <1>7
<1>9. l = 2 + k /\ k = 2 + n
  BY <1>3, <1>4, <1>5, <1>6, <1>7
<1>10. l = n + 4
  BY ONLY <1>8, <1>9
<1> QED BY <1>7, <1>8, <1>10

\* Two entries of two types, once each.
LEMMA TwoEntries ==
  ASSUME NEW e \in Seq(EntrySet), IsList(e), NEW x, NEW y, x # y, Types(e) = {x, y}
  PROVE  /\ Len(e) = 2
         /\ \/ e[1].type = x /\ e[2].type = y
            \/ e[1].type = y /\ e[2].type = x
<1>1. PICK n : n = Len(e)
  OBVIOUS
<1>2. n \in Nat /\ DOMAIN e = 1..n
  BY <1>1
<1>3. \A i, j \in 1..n : e[i].type = e[j].type => i = j
  BY <1>2 DEF IsList
<1>4. {e[i].type : i \in 1..n} = {x, y}
  BY <1>2 DEF Types
<1>5. PICK i \in 1..n, j \in 1..n : e[i].type = x /\ e[j].type = y
  BY <1>4
<1>6. \A k \in 1..n : k = i \/ k = j
  <2> TAKE k \in 1..n
  <2>1. e[k].type = x \/ e[k].type = y
    BY <1>4
  <2> QED BY <1>3, <1>5, <2>1
<1>7. i # j
  BY <1>5
<1>8. n = 2 /\ i \in 1..2 /\ j \in 1..2
  <2>1. n >= 2
    BY ONLY <1>2, <1>5, <1>7, i \in 1..n, j \in 1..n
  <2>2. ~(n >= 3)
    <3> SUFFICES ASSUME n >= 3 PROVE FALSE
      OBVIOUS
    <3>1. 1 \in 1..n /\ 2 \in 1..n /\ 3 \in 1..n
      BY <1>2
    <3> QED BY <1>6, <3>1
  <2> QED BY <1>2, <2>1, <2>2
<1>9. (i = 1 /\ j = 2) \/ (i = 2 /\ j = 1)
  BY <1>7, <1>8
<1> QED BY <1>1, <1>5, <1>8, <1>9

\* The list has two entries, of these types.
AreTwo(e, x, y) == e \in Seq(EntrySet) /\ IsList(e) /\ x # y /\ Types(e) = {x, y}

\* The bytes of the two extensions of a ServerHello.
LEMMA TwoExtensionsLength ==
  ASSUME NEW e, NEW x, NEW y, AreTwo(e, x, y)
  PROVE  Len(Extensions(e)) = (Len(Data(e, x)) + Len(Data(e, y))) + 8
<1> e \in Seq(EntrySet) /\ IsList(e) /\ x # y /\ Types(e) = {x, y}
  BY DEF AreTwo
<1>0. PICK n, m : n = Len(Data(e, x)) /\ m = Len(Data(e, y))
  OBVIOUS
<1>1. /\ Len(e) = 2
      /\ \/ e[1].type = x /\ e[2].type = y
         \/ e[1].type = y /\ e[2].type = x
  BY TwoEntries
<1>2. 1 \in DOMAIN e /\ 2 \in DOMAIN e
  BY <1>1
<1>3. e[1] \in EntrySet /\ e[2] \in EntrySet
  BY <1>2
<1>4. Data(e, e[1].type) = e[1].data /\ Data(e, e[2].type) = e[2].data
  BY <1>2, DataOfEntry
<1>5. PICK s : s = ExtensionPieces(e)
  OBVIOUS
<1>6. /\ s \in Seq(Seq(Byte)) /\ Len(s) = 2 /\ Extensions(e) = FlattenSeq(s)
      /\ s[1] = Extension(e[1].type, e[1].data) /\ s[2] = Extension(e[2].type, e[2].data)
  <2>1. /\ s \in Seq(Seq(Byte)) /\ Len(s) = Len(e) /\ Extensions(e) = FlattenSeq(s)
        /\ \A i \in 1..Len(e) : s[i] = Extension(e[i].type, e[i].data)
    BY <1>5, WrittenExtensions
  <2>2. 1 \in 1..Len(e) /\ 2 \in 1..Len(e)
    BY <1>1
  <2> QED BY <1>1, <2>1, <2>2
<1>7. PICK k, l : k = Len(e[1].data) /\ l = Len(e[2].data)
  OBVIOUS
<1>8. k \in Nat /\ l \in Nat /\ Len(s[1]) = k + 4 /\ Len(s[2]) = l + 4
  BY <1>3, <1>6, <1>7, ExtensionLength
<1>9. Len(FlattenSeq(s)) = (k + 4) + (l + 4)
  <2>1. /\ EndOf(s, 0) = 0 /\ EndOf(s, Len(s)) = Len(FlattenSeq(s))
        /\ \A i \in 0..(Len(s) - 1) : EndOf(s, i + 1) = EndOf(s, i) + Len(s[i + 1])
    BY <1>6, PiecesCover
  <2>2. 0 \in 0..(Len(s) - 1) /\ 1 \in 0..(Len(s) - 1) /\ 0 + 1 = 1 /\ 1 + 1 = 2
    BY <1>6
  <2>3. EndOf(s, 1) = EndOf(s, 0) + Len(s[1]) /\ EndOf(s, 2) = EndOf(s, 1) + Len(s[2])
    BY <2>1, <2>2
  <2> QED BY <1>6, <1>8, <2>1, <2>3
<1>10. (n = k /\ m = l) \/ (n = l /\ m = k)
  BY <1>0, <1>1, <1>4, <1>7
<1>11. (k + 4) + (l + 4) = (n + m) + 8
  BY ONLY <1>8, <1>10
<1> QED BY <1>0, <1>6, <1>9, <1>11

\* What tls13.py looks at in the body of a ServerHello.
AreServerParts(body, list, first, after, c, suite, entries, share) ==
    /\ suite = Number(Slice(body, after, c)) /\ entries = TakenExtensions(From(body, first))
    /\ share = Data(entries, KEY_SHARE)
\* The choices it takes.
IsChoice(body, id, start, at, size, after, list, first, suite, entries, share) ==
    /\ Slice(body, 0, 2) = TLS_1_2 /\ Slice(body, 2, start) # RetryRandom
    /\ size <= MaxSession /\ Slice(body, at, after) = id
    /\ suite \in {AES_128_GCM, CHACHA20} /\ body[list] = 0
    /\ Len(body) - first = Number(Slice(body, list, first))
    /\ IsList(entries) /\ Types(entries) = {SUPPORTED_VERSIONS, KEY_SHARE}
    /\ Data(entries, SUPPORTED_VERSIONS) = TLS_1_3 /\ IsX25519Share(share)

\* parse_server_hello takes a message of such a body, if its header counts it.
LEMMA TakenIs ==
  ASSUME NEW message, NEW id, NEW body, body = From(message, 4),
         NEW start, NEW at, NEW size, NEW after, NEW c, NEW list, NEW first,
         AreServerOffsets(body, start, at, size, after, c, list, first), first = c + 3,
         NEW suite, NEW entries, NEW share,
         AreServerParts(body, list, first, after, c, suite, entries, share),
         NEW t, t = TakeServerHello(message, id)
  PROVE  /\ t.verdict = "taken" <=>
               /\ Len(message) >= 4 /\ message[1] = SERVER_HELLO
               /\ Number(Slice(message, 1, 4)) = Len(message) - 4
               /\ Len(body) >= RandomSize + 6 /\ ~(Len(body) <= start)
               /\ Len(body) - at >= size + 5 /\ ~(Len(body) <= c)
               /\ IsChoice(body, id, start, at, size, after, list, first,
                           suite, entries, share)
         /\ t.verdict = "taken" => t.cipher = suite /\ t.key = From(share, 4)
<1>1. /\ start = RandomSize + 2 /\ at = start + 1 /\ size = body[at] /\ after = at + size
      /\ c = after + 2 /\ list = c + 1 /\ first = c + 3
  BY DEF AreServerOffsets
<1>2. /\ suite = Number(Slice(body, after, c)) /\ entries = TakenExtensions(From(body, first))
      /\ share = Data(entries, KEY_SHARE)
  BY DEF AreServerParts
<1>3. PICK isHello \in BOOLEAN :
         isHello <=>
            /\ Len(message) >= 4 /\ message[1] = SERVER_HELLO
            /\ Number(Slice(message, 1, 4)) = Len(message) - 4
            /\ Len(body) >= RandomSize + 6 /\ Slice(body, 0, 2) = TLS_1_2
            /\ Slice(body, 2, start) # RetryRandom
  OBVIOUS
<1>4. PICK echoes \in BOOLEAN :
         echoes <=>
            /\ SessionFits(body, size, at) /\ Slice(body, at, after) = id
            /\ suite \in {AES_128_GCM, CHACHA20}
  OBVIOUS
<1>5. PICK selects \in BOOLEAN :
         selects <=>
            /\ body[list] = 0 /\ Len(body) - first = Number(Slice(body, list, first))
            /\ IsList(entries) /\ Types(entries) = {SUPPORTED_VERSIONS, KEY_SHARE}
            /\ Data(entries, SUPPORTED_VERSIONS) = TLS_1_3 /\ IsX25519Share(share)
  OBVIOUS
<1>6. PICK key : key = From(share, 4)
  OBVIOUS
<1> DEFINE Failure(verdict) == [verdict |-> verdict, cipher |-> 0, key |-> <<>>]
<1>7. t = IF ~isHello THEN Failure("refused")
          ELSE IF Len(body) <= start THEN Failure("escapes")
          ELSE IF ~echoes THEN Failure("refused")
          ELSE IF Len(body) <= c THEN Failure("escapes")
          ELSE IF selects THEN [verdict |-> "taken", cipher |-> suite, key |-> key]
          ELSE Failure("refused")
  BY ONLY <1>1, <1>2, <1>3, <1>4, <1>5, <1>6, body = From(message, 4),
          t = TakeServerHello(message, id) DEF TakeServerHello
<1>8. t.verdict = "taken" <=> isHello /\ ~(Len(body) <= start) /\ echoes
                              /\ ~(Len(body) <= c) /\ selects
  BY ONLY <1>7
<1>9. t.verdict = "taken" => t.cipher = suite /\ t.key = key
  BY ONLY <1>7, <1>8
<1>10. SessionFits(body, size, at) <=> size <= MaxSession /\ Len(body) - at >= size + 5
  BY DEF SessionFits
<1> QED BY ONLY <1>3, <1>4, <1>5, <1>6, <1>8, <1>9, <1>10 DEF IsChoice

\* protocol.py takes such a body too, whoever reads it far enough.
LEMMA ChoiceIsRead ==
  ASSUME NEW body \in Seq(Byte), NEW version, NEW random, NEW session_id, NEW cipher,
         NEW compression, NEW block,
         AreServerFields(body, version, random, session_id, cipher, compression, block),
         NEW start, NEW at, NEW size, NEW after, NEW c, NEW list, NEW first,
         AreServerOffsets(body, start, at, size, after, c, list, first),
         at <= Len(body), first <= Len(body),
         NEW suite, NEW entries, NEW share,
         AreServerParts(body, list, first, after, c, suite, entries, share),
         NEW id, NEW client, client.session = id,
         client.ciphers = <<AES_128_GCM, CHACHA20>>, Types(client.shares) = {GROUP_X25519},
         NEW read, read = ParseServerHello(body, client)
  PROVE  /\ read.ok <=> IsChoice(body, id, start, at, size, after, list, first,
                                 suite, entries, share)
         /\ read.ok => read.cipher = suite /\ read.key = From(share, 4)
<1>1. /\ AreSlices(body, start, at, after, c, list, version, random, session_id, cipher,
                   compression)
      /\ size \in Nat /\ list \in Nat /\ first \in Nat /\ Len(session_id.value) = size
  BY ServerSlices
<1>2. PICK n, last : n = Number(Slice(body, list, first)) /\ last = first + n
  OBVIOUS
<1>3. IsShortVector(body, list, first, n, last, block)
  BY <1>1, <1>2 DEF AreServerFields, AreServerOffsets, AreSlices, IsShortVector
<1>4. /\ n \in Nat /\ last \in Nat /\ (block.ok <=> last <= Len(body))
      /\ block.value = Slice(body, first, last) /\ block.at = last
  BY <1>1, <1>3, ShortVector
<1>5. IsAllRead(block, body) <=> Len(body) - first = n
  <2>1. PICK len : len = Len(body)
    OBVIOUS
  <2>2. len \in Nat
    BY <2>1
  <2>3. IsAllRead(block, body) <=> last = len
    BY <1>4, <2>1, <2>2 DEF IsAllRead
  <2>4. last = len <=> len - first = n
    BY ONLY <1>1, <1>2, <1>4, <2>2
  <2> QED BY <2>1, <2>3, <2>4
<1>6. IsAllRead(block, body) => block.value = From(body, first)
  BY <1>4 DEF IsAllRead, From
<1>7. From(body, first) \in Seq(Byte)
  BY <1>1, FromBytes
<1>8. IsAllRead(block, body) => Entries(block.value) = entries
  BY <1>6, <1>7, SameEntries DEF AreServerParts
<1>9. PICK read_entries, read_share, group, key :
          /\ read_entries = Entries(block.value) /\ read_share = Data(read_entries, KEY_SHARE)
          /\ group = Read(read_share, 0, 2) /\ key = ReadVector(read_share, group.at, 2)
  OBVIOUS
<1>10. /\ read.ok <=>
            /\ IsAllRead(block, body) /\ IsList(read_entries)
            /\ version.value = TLS_1_2
            /\ random.value # RetryRandom
            /\ Len(session_id.value) <= MaxSession /\ session_id.value = client.session
            /\ Number(cipher.value) \in {AES_128_GCM, CHACHA20} \cap ToSet(client.ciphers)
            /\ compression.value = <<0>>
            /\ Types(read_entries) = {SUPPORTED_VERSIONS, KEY_SHARE}
            /\ Data(read_entries, SUPPORTED_VERSIONS) = TLS_1_3
            /\ IsAllRead(key, read_share)
            /\ IsKeyShare(Number(group.value), key.value)
            /\ Number(group.value) \in Types(client.shares)
       /\ read.cipher = Number(cipher.value) /\ read.key = key.value
  BY ONLY <1>9, read = ParseServerHello(body, client),
          AreServerFields(body, version, random, session_id, cipher, compression, block)
     DEF ParseServerHello, AreServerFields
<1>11. /\ version.value = Slice(body, 0, 2) /\ random.value = Slice(body, 2, start)
       /\ session_id.value = Slice(body, at, after) /\ Number(cipher.value) = suite
       /\ compression.value = <<0>> <=> body[list] = 0
  <2>1. \A x : <<x>> = <<0>> <=> x = 0
    OBVIOUS
  <2> QED BY <1>1, <2>1 DEF AreSlices, AreServerParts
<1>12. suite \in {AES_128_GCM, CHACHA20} \cap ToSet(client.ciphers)
         <=> suite \in {AES_128_GCM, CHACHA20}
  <2>1. PICK a, b : a = AES_128_GCM /\ b = CHACHA20
    OBVIOUS
  <2>2. ToSet(client.ciphers) = {a, b}
    <3>1. client.ciphers = <<a, b>>
      BY <2>1
    <3>2. ToSet(<<a, b>>) = {a, b}
      BY ONLY DEF ToSet
    <3> QED BY ONLY <3>1, <3>2
  <2> QED BY ONLY <2>1, <2>2
<1>13. ASSUME IsAllRead(block, body), IsList(entries)
       PROVE  /\ read_entries = entries /\ read_share = share
              /\ IsX25519Share(share) <=>
                    /\ IsAllRead(key, read_share)
                    /\ IsKeyShare(Number(group.value), key.value)
                    /\ Number(group.value) = GROUP_X25519
              /\ IsX25519Share(share) => key.value = From(share, 4)
  <2>1. read_entries = entries /\ read_share = share
    BY <1>8, <1>9, <1>13 DEF AreServerParts
  <2>2. entries \in Seq(EntrySet)
    <3>1. Broken \notin ToSet(entries)
      BY <1>13 DEF IsList
    <3>2. entries = Entries(From(body, first))
      BY <1>6, <1>8, <1>13
    <3> QED BY <1>7, <3>1, <3>2, EntriesExact
  <2>3. share \in Seq(Byte)
    BY <1>13, <2>2, DataIsBytes DEF AreServerParts
  <2> QED BY <1>9, <2>1, <2>3, ShareSame
<1>14. IsAllRead(block, body) /\ IsList(read_entries) => IsList(entries)
  BY <1>8, <1>9
<1>15. \A g : g \in Types(client.shares) <=> g = GROUP_X25519
  OBVIOUS
<1>16. IsChoice(body, id, start, at, size, after, list, first, suite, entries, share) <=>
          /\ Slice(body, 0, 2) = TLS_1_2 /\ Slice(body, 2, start) # RetryRandom
          /\ size <= MaxSession /\ Slice(body, at, after) = id
          /\ suite \in {AES_128_GCM, CHACHA20} /\ body[list] = 0
          /\ IsAllRead(block, body)
          /\ IsList(entries) /\ Types(entries) = {SUPPORTED_VERSIONS, KEY_SHARE}
          /\ Data(entries, SUPPORTED_VERSIONS) = TLS_1_3 /\ IsX25519Share(share)
  BY <1>2, <1>5 DEF IsChoice
<1>17. read.ok => IsChoice(body, id, start, at, size, after, list, first,
                           suite, entries, share)
  BY ONLY <1>1, <1>10, <1>11, <1>12, <1>13, <1>14, <1>15, <1>16, client.session = id
<1>18. IsChoice(body, id, start, at, size, after, list, first, suite, entries, share)
         => read.ok
  BY ONLY <1>1, <1>10, <1>11, <1>12, <1>13, <1>15, <1>16, client.session = id
<1>19. read.ok => read.cipher = suite /\ read.key = From(share, 4)
  BY ONLY <1>10, <1>11, <1>13, <1>16, <1>17
<1> QED BY <1>17, <1>18, <1>19

\* The two types are not the same.
LEMMA TypesDiffer == SUPPORTED_VERSIONS # KEY_SHARE
BY DEF SUPPORTED_VERSIONS, KEY_SHARE

\* A body of these choices has the length that protocol.py allows.
LEMMA ChoiceLength ==
  ASSUME NEW body \in Seq(Byte), NEW start, NEW at, NEW size \in Nat, NEW after, NEW c,
         NEW list, NEW first, AreServerOffsets(body, start, at, size, after, c, list, first),
         at <= Len(body), first <= Len(body),
         NEW suite, NEW entries, NEW share,
         AreServerParts(body, list, first, after, c, suite, entries, share),
         NEW id, IsChoice(body, id, start, at, size, after, list, first, suite, entries, share)
  PROVE  Len(body) + 4 <= MaxSize[SERVER_HELLO]
<1>1. PICK random, k, max, n, limit :
         /\ random = RandomSize /\ k = X25519Size /\ max = MaxSession /\ n = Len(body)
         /\ limit = MaxSize[SERVER_HELLO]
  OBVIOUS
<1>2. random \in Nat /\ k \in Nat /\ max \in Nat /\ n \in Nat
  <2>1. Challenge \in Seq(Byte)
    BY FixedBytes
  <2>2. max \in 0..255 /\ k \in Nat
    BY <1>1, SizesAssumption
  <2>3. max \in Nat
    BY ONLY SMT, <2>2
  <2> QED BY <1>1, <2>1, <2>2, <2>3 DEF RandomSize
<1>3. random + max + k + 26 <= limit /\ limit \in Int
  <2>1. MessageTypes[2] = SERVER_HELLO /\ 2 \in DOMAIN MessageTypes
    BY DEF MessageTypes
  <2>2. limit \in 0..(Base * Base - 1)
    BY <1>1, <2>1, LimitsAssumption
  <2>3. Base * Base - 1 \in Int
    BY BytesAreBytes
  <2>4. limit \in Int
    BY ONLY <2>2, <2>3
  <2> QED BY <1>1, <2>4, LimitsAssumption
<1>4. /\ start = random + 2 /\ at = start + 1 /\ after = at + size
      /\ c = after + 2 /\ list = c + 1 /\ first = list + 2
  BY <1>1 DEF AreServerOffsets
<1>5. first = random + size + 8 /\ first \in Nat /\ first <= n
  BY ONLY <1>1, <1>2, <1>4, size \in Nat, first <= Len(body)
<1>6. PICK bytes : bytes = From(body, first)
  OBVIOUS
<1>7. bytes \in Seq(Byte) /\ Len(bytes) = n - first
  BY <1>1, <1>5, <1>6, FromShape
<1>8. entries = Entries(bytes) /\ share = Data(entries, KEY_SHARE)
  BY <1>6, <1>7, SameEntries DEF AreServerParts
<1>9. /\ IsList(entries) /\ Types(entries) = {SUPPORTED_VERSIONS, KEY_SHARE}
      /\ Data(entries, SUPPORTED_VERSIONS) = TLS_1_3 /\ Len(share) = k + 4 /\ size <= max
  BY <1>1 DEF IsChoice, IsX25519Share
<1>10. entries \in Seq(EntrySet) /\ Extensions(entries) = bytes
  <2>1. Broken \notin ToSet(entries)
    BY <1>9 DEF IsList
  <2> QED BY <1>7, <1>8, <2>1, EntriesExact
<1>11. Len(bytes) = 2 + (k + 4) + 8
  <2>1. PICK x, y, p, q : /\ x = SUPPORTED_VERSIONS /\ y = KEY_SHARE
                          /\ p = Len(Data(entries, x)) /\ q = Len(Data(entries, y))
    OBVIOUS
  <2>2. x # y /\ IsList(entries) /\ Types(entries) = {x, y}
    BY <1>9, <2>1, TypesDiffer
  <2>5. AreTwo(entries, x, y)
    BY <1>10, <2>2 DEF AreTwo
  <2>3. Len(Extensions(entries)) = (p + q) + 8
    BY <2>1, <2>5, TwoExtensionsLength
  <2>4. p = 2 /\ q = k + 4
    BY <1>8, <1>9, <2>1, VersionNumber
  <2> QED BY <1>10, <2>3, <2>4
<1>12. n + 4 <= limit
  <2>1. n - first = k + 14
    BY ONLY <1>2, <1>7, <1>11
  <2> QED BY ONLY <1>2, <1>3, <1>5, <1>9, <2>1, size \in Nat
<1> QED BY <1>1, <1>12

\* protocol.py takes a ServerHello only if its list of extensions was read to
\* the end.
LEMMA ReadWholeBlock ==
  ASSUME NEW body, NEW version, NEW random, NEW id, NEW cipher, NEW compression, NEW block,
         AreServerFields(body, version, random, id, cipher, compression, block),
         NEW client, NEW read, read = ParseServerHello(body, client)
  PROVE  read.ok => block.ok
<1>1. /\ version = Read(body, 0, 2) /\ random = Read(body, version.at, RandomSize)
      /\ id = ReadVector(body, random.at, 1) /\ cipher = Read(body, id.at, 2)
      /\ compression = Read(body, cipher.at, 1) /\ block = ReadVector(body, compression.at, 2)
  BY DEF AreServerFields
<1>3. read.ok => IsAllRead(block, body)
  BY ONLY <1>1, read = ParseServerHello(body, client) DEF ParseServerHello
<1> QED BY <1>3 DEF IsAllRead

\* A client that sent this session and offers what tls13.py offers.
IsOwn(client, id) ==
    /\ client.session = id /\ client.ciphers = <<AES_128_GCM, CHACHA20>>
    /\ Types(client.shares) = {GROUP_X25519}

\* Both parsers take the same messages and read the same from them.
LEMMA HelloAgrees ==
  ASSUME NEW message \in Seq(Byte), NEW id, NEW client, IsOwn(client, id),
         NEW hello, hello = ReadHandshake(message, 0, SERVER_HELLO),
         NEW read, read = ParseServerHello(hello.value, client),
         NEW t, t = TakeServerHello(message, id), Len(message) >= 4
  PROVE  /\ t.verdict = "taken" <=> IsAllRead(hello, message) /\ read.ok
         /\ t.verdict = "taken" => /\ t.cipher = read.cipher /\ t.key = read.key
                                   /\ hello.value = From(message, 4)
<1>1. PICK n, body, random, start, at, size, after, c, list, first :
         /\ n = Len(message) /\ body = From(message, 4) /\ random = RandomSize
         /\ start = random + 2 /\ at = start + 1 /\ size = body[at] /\ after = at + size
         /\ c = after + 2 /\ list = c + 1 /\ first = list + 2
  OBVIOUS
<1>23. body = From(message, 4)
  BY <1>1
<1>2. random \in Nat /\ start \in Nat /\ at \in Nat /\ n \in Nat /\ n >= 4
  <2>1. Challenge \in Seq(Byte)
    BY FixedBytes
  <2>2. random \in Nat
    BY <1>1, <2>1 DEF RandomSize
  <2> QED BY <1>1, <2>2
<1>3. AreServerOffsets(body, start, at, size, after, c, list, first)
  BY <1>1 DEF AreServerOffsets
<1>4. PICK b : b = Len(body)
  OBVIOUS
<1>5. body \in Seq(Byte) /\ b = n - 4 /\ b \in Nat
  <2>1. 4 \in Nat /\ 4 <= Len(message)
    OBVIOUS
  <2>2. body \in Seq(Byte) /\ Len(body) = Len(message) - 4
    BY ONLY <1>1, <2>1, message \in Seq(Byte), FromShape
  <2> QED BY <1>1, <1>4, <2>2
<1>6. PICK suite, entries, share :
         AreServerParts(body, list, first, after, c, suite, entries, share)
  BY DEF AreServerParts
<1>7. PICK choice \in BOOLEAN :
         choice <=> IsChoice(body, id, start, at, size, after, list, first,
                             suite, entries, share)
  OBVIOUS
<1>22. PICK announced, type : announced = Number(Slice(message, 1, 4)) /\ type = SERVER_HELLO
  OBVIOUS
<1>8. PICK whole \in BOOLEAN : whole <=> message[1] = type /\ announced + 4 = n
  OBVIOUS
<1>9. /\ announced \in Nat
      /\ hello.ok <=> /\ message[1] = type /\ announced + 4 <= MaxSize[type]
                      /\ announced + 4 <= n
      /\ hello.at = announced + 4
      /\ announced + 4 = n => hello.value = body
  <2>1. IsFirst(message, type, announced, hello)
    BY <1>22 DEF IsFirst
  <2>2. /\ announced \in Nat
        /\ hello.ok <=> /\ message[1] = type /\ announced + 4 <= MaxSize[type]
                        /\ announced + 4 <= Len(message)
        /\ hello.at = announced + 4
        /\ announced + 4 = Len(message) => hello.value = From(message, 4)
    BY ONLY <2>1, message \in Seq(Byte), Len(message) >= 4, HelloRead
  <2> QED BY ONLY <1>1, <2>2
<1>10. IsAllRead(hello, message) <=> whole /\ n <= MaxSize[type]
  <2>1. IsAllRead(hello, message) <=> hello.ok /\ hello.at = n
    BY <1>1 DEF IsAllRead
  <2>2. n <= n
    BY <1>2
  <2> QED BY ONLY <1>8, <1>9, <2>1, <2>2
<1>11. ASSUME at <= b
       PROVE  /\ size \in Nat /\ after \in Nat /\ c \in Nat /\ first \in Nat /\ first = c + 3
              /\ b - at >= size + 5 <=> first <= b
              /\ first <= b => b >= random + 6 /\ ~(b <= start) /\ ~(b <= c)
  <2>1. at \in 1..b
    BY ONLY <1>1, <1>2, <1>5, <1>11
  <2>2. size \in Byte
    <3>1. size = body[at] /\ b = Len(body) /\ body \in Seq(Byte)
      BY <1>1, <1>4, <1>5
    <3> QED BY ONLY <2>1, <3>1
  <2>3. size \in Nat
    BY <2>2, BytesAreBytes DEF Byte
  <2>4. c = at + size + 2 /\ first = at + size + 5 /\ c \in Nat /\ first \in Nat
        /\ after \in Nat /\ first = c + 3
    <3>1. after = at + size /\ c = after + 2 /\ list = c + 1 /\ first = list + 2
      BY <1>1
    <3> QED BY ONLY <1>2, <2>3, <3>1
  <2>5. b - at >= size + 5 <=> first <= b
    BY ONLY <1>2, <1>5, <2>3, <2>4
  <2>6. at = random + 3 /\ start = random + 2
    BY <1>1, <1>2
  <2>7. first <= b => b >= random + 6 /\ ~(b <= start) /\ ~(b <= c)
    BY ONLY <1>2, <1>5, <2>3, <2>4, <2>6
  <2> QED BY <2>3, <2>4, <2>5, <2>7
<1>12. t.verdict = "taken" => at <= b /\ first <= b /\ choice /\ whole
  <2>1. CASE b >= random + 6
    <3>1. at <= b
      BY <1>1, <1>2, <1>5, <2>1
    <3>2. first = c + 3
      BY <1>11, <3>1
    <3>3. t.verdict = "taken" =>
             /\ message[1] = SERVER_HELLO /\ Number(Slice(message, 1, 4)) = Len(message) - 4
             /\ Len(body) - at >= size + 5
             /\ IsChoice(body, id, start, at, size, after, list, first,
                         suite, entries, share)
      BY ONLY <1>3, <1>6, <1>23, <3>2, t = TakeServerHello(message, id), TakenIs
    <3>4. t.verdict = "taken" =>
             message[1] = type /\ announced = n - 4 /\ b - at >= size + 5 /\ choice
      BY ONLY <1>1, <1>4, <1>7, <1>22, <3>3
    <3>5. announced = n - 4 => announced + 4 = n
      BY <1>2, <1>9
    <3> QED BY ONLY <1>8, <1>11, <3>1, <3>4, <3>5
  <2>2. CASE ~(b >= random + 6)
    <3>1. t.verdict # "taken"
      <4>1. Len(body) = b /\ random = RandomSize
        BY <1>1, <1>4
      <4> QED BY <1>1, <2>2, <4>1 DEF TakeServerHello
    <3> QED BY <3>1
  <2> QED BY <2>1, <2>2
<1>13. ASSUME at <= b, first <= b, choice, whole
       PROVE  t.verdict = "taken" /\ t.cipher = suite /\ t.key = From(share, 4)
  <2>1. announced = n - 4 /\ message[1] = type
    <3>1. announced + 4 = n /\ message[1] = type
      BY <1>8, <1>13
    <3> QED BY ONLY <1>2, <1>9, <3>1
  <2>2. /\ Len(message) >= 4 /\ message[1] = SERVER_HELLO
        /\ Number(Slice(message, 1, 4)) = Len(message) - 4
        /\ Len(body) >= RandomSize + 6 /\ ~(Len(body) <= start)
        /\ Len(body) - at >= size + 5 /\ ~(Len(body) <= c)
        /\ IsChoice(body, id, start, at, size, after, list, first, suite, entries, share)
    BY ONLY <1>1, <1>4, <1>7, <1>11, <1>13, <1>22, <2>1, Len(message) >= 4
  <2>3. first = c + 3
    BY <1>11, <1>13
  <2> QED BY ONLY <1>3, <1>6, <1>23, <2>2, <2>3, t = TakeServerHello(message, id), TakenIs
<1>14. ASSUME at <= b, first <= b, choice
       PROVE  b + 4 <= MaxSize[type]
  <2>1. size \in Nat
    BY <1>11, <1>14
  <2> QED BY <1>3, <1>4, <1>5, <1>6, <1>7, <1>14, <1>22, <2>1, ChoiceLength
<1>15. PICK version, random_field, session_id, cipher, compression, block :
         AreServerFields(body, version, random_field, session_id, cipher, compression, block)
  BY DEF AreServerFields
<1>16. ASSUME whole
       PROVE  /\ hello.value = body
              /\ read.ok => at <= b /\ first <= b
              /\ at <= b /\ first <= b =>
                    /\ read.ok <=> choice
                    /\ read.ok => read.cipher = suite /\ read.key = From(share, 4)
  <2>1. hello.value = body
    BY <1>8, <1>9, <1>16
  <2>2. read = ParseServerHello(body, client)
    BY <2>1
  <2>3. read.ok => block.ok
    BY <1>15, <2>2, ReadWholeBlock
  <2>4. read.ok => at <= b /\ first <= b
    BY <1>3, <1>4, <1>5, <1>15, <2>3, ServerIsLong
  <2>5. /\ client.session = id /\ client.ciphers = <<AES_128_GCM, CHACHA20>>
        /\ Types(client.shares) = {GROUP_X25519}
    BY DEF IsOwn
  <2>6. at <= b /\ first <= b =>
           /\ read.ok <=> choice
           /\ read.ok => read.cipher = suite /\ read.key = From(share, 4)
    <3> SUFFICES ASSUME at <= b, first <= b
                 PROVE  /\ read.ok <=> choice
                        /\ read.ok => read.cipher = suite /\ read.key = From(share, 4)
      OBVIOUS
    <3>1. at <= Len(body) /\ first <= Len(body)
      BY <1>4
    <3>2. /\ read.ok <=> IsChoice(body, id, start, at, size, after, list, first,
                                  suite, entries, share)
          /\ read.ok => read.cipher = suite /\ read.key = From(share, 4)
      BY ONLY <1>3, <1>5, <1>6, <1>15, <2>2, <2>5, <3>1, ChoiceIsRead
    <3> QED BY ONLY <1>7, <3>2
  <2> QED BY <2>1, <2>4, <2>6
<1>17. whole \in BOOLEAN
  BY <1>8
<1>18. b + 4 = n
  BY <1>2, <1>5
<1>19. t.verdict = "taken" => IsAllRead(hello, message) /\ read.ok
  BY ONLY <1>10, <1>12, <1>14, <1>16, <1>17, <1>18
<1>20. IsAllRead(hello, message) /\ read.ok => t.verdict = "taken"
  BY ONLY <1>10, <1>13, <1>16, <1>17
<1>21. t.verdict = "taken" => /\ t.cipher = read.cipher /\ t.key = read.key
                              /\ hello.value = From(message, 4)
  BY ONLY <1>1, <1>12, <1>13, <1>16
<1> QED BY <1>19, <1>20, <1>21

\* The client reads its own hello as its own.
LEMMA OwnClientIsOwn ==
  ASSUME NEW id \in Sessions, NEW m \in Masks,
         NEW client, client = ParseClientHello(ClientHelloBody(id, m))
  PROVE  client.ok /\ client.schemes = Schemes(m) /\ IsOwn(client, id)
<1>1. /\ client.ok /\ client.session = id
      /\ client.ciphers = <<AES_128_GCM, CHACHA20>>
      /\ client.schemes = Schemes(m) /\ client.shares = OwnShares
  BY OwnHelloBack
<1>2. Types(OwnShares) = {GROUP_X25519}
  <2>1. PICK share : share = [type |-> GROUP_X25519, data |-> PublicKey]
    OBVIOUS
  <2>2. PICK list : list = <<share>>
    OBVIOUS
  <2>3. DOMAIN list = {1} /\ list[1] = share /\ share.type = GROUP_X25519
    BY <2>1, <2>2
  <2>4. {list[i].type : i \in DOMAIN list} = {GROUP_X25519}
    BY ONLY <2>3
  <2>5. list = OwnShares
    BY <2>1, <2>2 DEF OwnShares
  <2> QED BY <2>4, <2>5 DEF Types
<1> QED BY <1>1, <1>2 DEF IsOwn

\* A message that protocol.py takes for the first and only one came whole.
LEMMA AllReadIsWhole ==
  ASSUME BytesInv, NEW hello, hello = ReadHandshake(inbound, 0, SERVER_HELLO),
         IsAllRead(hello, inbound)
  PROVE  CameWhole
<1>1. inbound \in Seq(Byte)
  BY DEF BytesInv
<1>2. hello.ok /\ hello.at = Len(inbound)
  BY DEF IsAllRead
<1>3. Len(inbound) >= 4
  BY <1>1, <1>2, ShortHello
<1>4. PICK size, type, n : /\ size = Number(Slice(inbound, 1, 4)) /\ type = SERVER_HELLO
                           /\ n = Len(inbound)
  OBVIOUS
<1>5. IsFirst(inbound, type, size, hello)
  BY <1>4 DEF IsFirst
<1>6. /\ size \in Nat /\ hello.at = size + 4
      /\ hello.ok => size + 4 <= MaxSize[type]
  BY ONLY <1>1, <1>3, <1>5, HelloRead
<1>7. n = size + 4 /\ n <= MaxSize[type] /\ n \in Nat /\ n >= 4
  BY <1>1, <1>2, <1>3, <1>4, <1>6
<1>8. MaxCaptured \in Nat /\ MaxSize[type] <= MaxCaptured /\ MaxSize[type] \in Int
  <2>1. MessageTypes[2] = SERVER_HELLO /\ 2 \in DOMAIN MessageTypes
    BY DEF MessageTypes
  <2>2. MaxSize[type] \in 0..(Base * Base - 1)
    BY <1>4, <2>1, LimitsAssumption
  <2>3. Base * Base - 1 \in Int
    BY BytesAreBytes
  <2>4. MaxSize[type] \in Int
    BY ONLY <2>2, <2>3
  <2> QED BY <1>4, <2>4, LimitsAssumption
<1>9. MessageSize(inbound) = n
  BY <1>4, <1>7 DEF MessageSize
<1>10. ~(n > MaxCaptured) /\ ~(n < n) /\ ~(n < 4)
  BY ONLY <1>7, <1>8
<1>11. Pop(inbound) = "message"
  BY <1>4, <1>9, <1>10 DEF Pop
<1> QED BY <1>4, <1>9, <1>11 DEF CameWhole

\* The two parsers of ServerHello agree on the message of this connection.
LEMMA InboundAgrees ==
  ASSUME BytesInv, mask \in Masks,
         NEW hello, hello = ReadHandshake(inbound, 0, SERVER_HELLO),
         NEW read, read = ParseServerHello(hello.value, OwnClient)
  PROVE  /\ Taken.verdict = "taken" <=> IsAllRead(hello, inbound) /\ read.ok
         /\ Taken.verdict = "taken" => /\ Taken.cipher = read.cipher /\ Taken.key = read.key
                                       /\ hello.value = From(inbound, 4)
<1>1. inbound \in Seq(Byte) /\ session \in Sessions
  BY DEF BytesInv
<1>2. IsOwn(OwnClient, session)
  BY <1>1, OwnClientIsOwn DEF OwnClient
<1>3. CASE CameWhole
  <2>1. Len(inbound) >= 4
    <3>1. PICK n : n = Len(inbound)
      OBVIOUS
    <3>2. n \in Nat
      BY <1>1, <3>1
    <3>3. ~(n < 4)
      BY <1>3, <3>1 DEF CameWhole, Pop
    <3> QED BY <3>1, <3>2, <3>3
  <2>2. PICK t : t = TakeServerHello(inbound, session)
    OBVIOUS
  <2>3. /\ t.verdict = "taken" <=> IsAllRead(hello, inbound) /\ read.ok
        /\ t.verdict = "taken" => /\ t.cipher = read.cipher /\ t.key = read.key
                                  /\ hello.value = From(inbound, 4)
    BY <1>1, <1>2, <2>1, <2>2, HelloAgrees
  <2>4. Taken = t
    BY <1>3, <2>2 DEF Taken
  <2> QED BY <2>3, <2>4
<1>4. CASE ~CameWhole
  <2>1. Taken.verdict # "taken"
    BY <1>4 DEF Taken, NotTaken
  <2>2. ~IsAllRead(hello, inbound)
    BY <1>4, AllReadIsWhole
  <2> QED BY <2>1, <2>2
<1> QED BY <1>3, <1>4

\* During the handshake and in the proof, the same ServerHellos are taken and
\* the same choice is read from them (tls13.py:290-332, protocol.py:249-286),
\* whatever the server sends.
THEOREM ServerHelloParsersAgree == Spec => []HellosAgree
<1>1. ASSUME BytesInv, ConnectionInv PROVE HellosAgree
  <2>1. PICK hello : hello = ReadHandshake(inbound, 0, SERVER_HELLO)
    OBVIOUS
  <2>2. PICK read : read = ParseServerHello(hello.value, OwnClient)
    OBVIOUS
  <2>3. mask \in Masks /\ (pc \in {"flight", "failed"} => taken = Taken)
    BY <1>1 DEF ConnectionInv
  <2>4. /\ Taken.verdict = "taken" <=> IsAllRead(hello, inbound) /\ read.ok
        /\ Taken.verdict = "taken" => Taken.cipher = read.cipher /\ Taken.key = read.key
    BY <1>1, <2>1, <2>2, <2>3, InboundAgrees
  <2> QED BY <2>1, <2>2, <2>3, <2>4 DEF HellosAgree
<1> QED BY <1>1, StaysBytes, ConnectionHolds, PTL

-----------------------------------------------------------------------------
(* A capture that both readers take *)

\* r is what the parser reads of type i of the five, at offset a.
IsReadAt(data, a, i, r) == r = ReadHandshake(data, a, MessageTypes[i])

\* A message of a length that protocol.py allows, read where it is.
LEMMA MessageGot ==
  ASSUME NEW data \in Seq(Byte), NEW a, NEW b, NEW i \in 1..5, NEW body \in Seq(Byte),
         Covers(data, a, b, Handshake(MessageTypes[i], body)),
         Len(body) + 4 <= MaxSize[MessageTypes[i]], NEW r, IsReadAt(data, a, i, r)
  PROVE  Got(r, b, body)
<1>1. PICK type, n : type = MessageTypes[i] /\ n = Len(body)
  OBVIOUS
<1>2. n \in Nat /\ n + 4 <= MaxSize[MessageTypes[i]]
  BY <1>1
<1>3. IsShort(n)
  BY ONLY <1>2, i \in 1..5, MessageIsShort
<1>4. FitsIn(3, Len(body))
  BY <1>1, <1>2, <1>3, ShortFits
<1>5. type \in Byte
  <2>1. /\ MessageTypes[1] \in Byte /\ MessageTypes[2] \in Byte /\ MessageTypes[3] \in Byte
        /\ MessageTypes[4] \in Byte /\ MessageTypes[5] \in Byte
    BY TypesAreBytes DEF MessageTypes
  <2>2. i = 1 \/ i = 2 \/ i = 3 \/ i = 4 \/ i = 5
    OBVIOUS
  <2> QED BY <1>1, <2>1, <2>2
<1>6. /\ Covers(data, a, b, Handshake(type, body)) /\ Len(body) + 4 <= MaxSize[type]
      /\ r = ReadHandshake(data, a, type)
  BY <1>1 DEF IsReadAt
<1> QED BY ONLY <1>4, <1>5, <1>6, data \in Seq(Byte), body \in Seq(Byte), HandshakeGot

\* A message by itself: its body is what follows its header.
LEMMA HandshakeBody ==
  ASSUME NEW type \in Byte, NEW body \in Seq(Byte), NEW message,
         message = Handshake(type, body)
  PROVE  /\ message \in Seq(Byte) /\ Len(message) = Len(body) + 4
         /\ From(message, 4) = body
<1>1. PICK n, d, t, head : AreHead(type, body, n, d, t, head)
  BY DEF AreHead
<1>2. message = head \o body /\ head \in Seq(Byte) /\ Len(head) = 4
  BY <1>1, HandshakeHead
<1>3. message \in Seq(Byte) /\ Len(message) = Len(head) + Len(body)
  <2>1. head \o body \in Seq(Byte) /\ Len(head \o body) = Len(head) + Len(body)
    BY ONLY <1>2, body \in Seq(Byte), ConcatShape
  <2> QED BY <1>2, <2>1
<1>4. PICK h, l, k : h = 0 + Len(head) /\ l = Len(message) /\ k = Len(body)
  OBVIOUS
<1>5. Covers(message, 0, l, head \o body)
  BY <1>2, <1>3, <1>4, CoversItself
<1>6. Covers(message, h, l, body)
  BY ONLY <1>2, <1>3, <1>4, <1>5, body \in Seq(Byte), CoversParts
<1>7. h = 4 /\ l = k + 4
  <2>1. k \in Nat
    BY <1>4
  <2> QED BY <1>2, <1>3, <1>4, <2>1
<1> QED BY <1>3, <1>4, <1>6, <1>7 DEF Covers, From

\* A certificate message that the capture takes is one the parser takes.
LEMMA CertificateTaken ==
  ASSUME NEW body \in Seq(Byte), TakesCertificate(Handshake(CERTIFICATE, body))
  PROVE  /\ Len(body) + 4 <= MaxSize[CERTIFICATE] /\ ParseCertificate(body).ok
<1>1. PICK message, type, size, read :
         /\ message = Handshake(CERTIFICATE, body) /\ type = CERTIFICATE
         /\ size = Number(Slice(message, 1, 4)) /\ read = ReadHandshake(message, 0, type)
  OBVIOUS
<1>2. message \in Seq(Byte) /\ Len(message) = Len(body) + 4 /\ From(message, 4) = body
  BY <1>1, TypesAreBytes, HandshakeBody
<1>3. Len(message) >= 4
  <2>1. PICK n, k : n = Len(message) /\ k = Len(body)
    OBVIOUS
  <2>2. k \in Nat /\ n = k + 4
    BY <1>2, <2>1
  <2> QED BY <2>1, <2>2
<1>4. IsAllRead(read, message) /\ ParseCertificate(read.value).ok
  BY <1>1 DEF TakesCertificate
<1>5. read.ok /\ read.at = Len(message)
  BY <1>4 DEF IsAllRead
<1>6. IsFirst(message, type, size, read)
  BY <1>1 DEF IsFirst
<1>7. /\ read.ok => size + 4 <= MaxSize[type]
      /\ read.at = size + 4
      /\ size + 4 = Len(message) => read.value = From(message, 4)
  BY ONLY <1>2, <1>3, <1>6, HelloRead
<1> QED BY <1>1, <1>2, <1>4, <1>5, <1>7

\* What was taken of a ServerHello in the handshake is taken in the proof.
LEMMA ServerTaken ==
  ASSUME BytesInv, mask \in Masks, Taken.verdict = "taken", NEW body, body = From(inbound, 4)
  PROVE  /\ body \in Seq(Byte) /\ Len(body) + 4 <= MaxSize[SERVER_HELLO]
         /\ ParseServerHello(body, OwnClient).ok
<1>1. PICK hello : hello = ReadHandshake(inbound, 0, SERVER_HELLO)
  OBVIOUS
<1>2. PICK read : read = ParseServerHello(hello.value, OwnClient)
  OBVIOUS
<1>3. IsAllRead(hello, inbound) /\ read.ok /\ hello.value = body
  BY <1>1, <1>2, InboundAgrees
<1>4. inbound \in Seq(Byte) /\ hello.ok /\ hello.at = Len(inbound)
  BY <1>3 DEF BytesInv, IsAllRead
<1>5. Len(inbound) >= 4
  BY <1>1, <1>4, ShortHello
<1>6. PICK size, type, n, four : /\ size = Number(Slice(inbound, 1, 4)) /\ type = SERVER_HELLO
                                 /\ n = Len(inbound) /\ four = 4
  OBVIOUS
<1>7. IsFirst(inbound, type, size, hello)
  BY <1>1, <1>6 DEF IsFirst
<1>8. hello.at = size + 4 /\ size + 4 <= MaxSize[type]
  BY ONLY <1>4, <1>5, <1>7, HelloRead
<1>9. body \in Seq(Byte) /\ Len(body) = n - four
  <2>1. four \in Nat /\ four <= Len(inbound) /\ body = From(inbound, four)
    BY <1>5, <1>6
  <2>2. body \in Seq(Byte) /\ Len(body) = Len(inbound) - four
    BY ONLY <1>4, <2>1, FromShape
  <2> QED BY <1>6, <2>2
<1>10. Len(body) + 4 = n
  <2>1. PICK k : k = Len(body)
    OBVIOUS
  <2>2. n \in Nat /\ k = n - 4
    BY <1>4, <1>6, <1>9, <2>1
  <2> QED BY <2>1, <2>2
<1> QED BY <1>2, <1>3, <1>4, <1>6, <1>8, <1>9, <1>10

\* The five messages of a proof, as parse_proof reads them.
AreReads(data, hello, answer, extensions, certificate, verify) ==
    /\ hello = ReadHandshake(data, 1, CLIENT_HELLO)
    /\ answer = ReadHandshake(data, hello.at, SERVER_HELLO)
    /\ extensions = ReadHandshake(data, answer.at, ENCRYPTED_EXTENSIONS)
    /\ certificate = ReadHandshake(data, extensions.at, CERTIFICATE)
    /\ verify = ReadHandshake(data, certificate.at, CERTIFICATE_VERIFY)
\* None of them is longer than protocol.py allows.
AreAllowed(a, b, c, d, e) ==
    /\ Len(a) + 4 <= MaxSize[CLIENT_HELLO] /\ Len(b) + 4 <= MaxSize[SERVER_HELLO]
    /\ Len(c) + 4 <= MaxSize[ENCRYPTED_EXTENSIONS] /\ Len(d) + 4 <= MaxSize[CERTIFICATE]
    /\ Len(e) + 4 <= MaxSize[CERTIFICATE_VERIFY]

\* The parser finds the five bodies again.
LEMMA ProofReads ==
  ASSUME NEW data, NEW a, NEW b, NEW c, NEW d, NEW e, IsProof(data, a, b, c, d, e),
         AreAllowed(a, b, c, d, e),
         NEW hello, NEW answer, NEW extensions, NEW certificate, NEW verify,
         AreReads(data, hello, answer, extensions, certificate, verify)
  PROVE  /\ hello.ok /\ answer.ok /\ extensions.ok /\ certificate.ok
         /\ IsAllRead(verify, data)
         /\ hello.value = a /\ answer.value = b /\ extensions.value = c
         /\ certificate.value = d /\ verify.value = e
<1>1. /\ data \in Seq(Byte)
      /\ Framed(data, Handshake(CLIENT_HELLO, a), Handshake(SERVER_HELLO, b),
                Handshake(ENCRYPTED_EXTENSIONS, c), Handshake(CERTIFICATE, d),
                Handshake(CERTIFICATE_VERIFY, e))
  BY ProofFramed
<1>2. PICK p, q, r, s : /\ Covers(data, 1, p, Handshake(CLIENT_HELLO, a))
                        /\ Covers(data, p, q, Handshake(SERVER_HELLO, b))
                        /\ Covers(data, q, r, Handshake(ENCRYPTED_EXTENSIONS, c))
                        /\ Covers(data, r, s, Handshake(CERTIFICATE, d))
                        /\ Covers(data, s, Len(data), Handshake(CERTIFICATE_VERIFY, e))
  BY <1>1 DEF Framed
<1>3. /\ a \in Seq(Byte) /\ b \in Seq(Byte) /\ c \in Seq(Byte) /\ d \in Seq(Byte)
      /\ e \in Seq(Byte)
  BY DEF IsProof
<1>4. PICK one, end : one = 1 /\ end = Len(data)
  OBVIOUS
<1>5. /\ MessageTypes[1] = CLIENT_HELLO /\ MessageTypes[2] = SERVER_HELLO
      /\ MessageTypes[3] = ENCRYPTED_EXTENSIONS /\ MessageTypes[4] = CERTIFICATE
      /\ MessageTypes[5] = CERTIFICATE_VERIFY
  BY DEF MessageTypes
<1>6. /\ hello = ReadHandshake(data, one, MessageTypes[1])
      /\ answer = ReadHandshake(data, hello.at, MessageTypes[2])
      /\ extensions = ReadHandshake(data, answer.at, MessageTypes[3])
      /\ certificate = ReadHandshake(data, extensions.at, MessageTypes[4])
      /\ verify = ReadHandshake(data, certificate.at, MessageTypes[5])
  BY <1>4, <1>5 DEF AreReads
<1>7. 1 \in 1..5 /\ 2 \in 1..5 /\ 3 \in 1..5 /\ 4 \in 1..5 /\ 5 \in 1..5
  OBVIOUS
<1>8. Got(hello, p, a)
  <2>1. /\ Covers(data, one, p, Handshake(MessageTypes[1], a))
        /\ Len(a) + 4 <= MaxSize[MessageTypes[1]] /\ IsReadAt(data, one, 1, hello)
    BY <1>2, <1>4, <1>5, <1>6 DEF AreAllowed, IsReadAt
  <2> QED BY ONLY <1>1, <1>3, <1>7, <2>1, MessageGot
<1>9. Got(answer, q, b)
  <2>1. /\ Covers(data, p, q, Handshake(MessageTypes[2], b))
        /\ Len(b) + 4 <= MaxSize[MessageTypes[2]] /\ IsReadAt(data, p, 2, answer)
    BY <1>2, <1>5, <1>6, <1>8 DEF AreAllowed, IsReadAt, Got
  <2> QED BY ONLY <1>1, <1>3, <1>7, <2>1, MessageGot
<1>10. Got(extensions, r, c)
  <2>1. /\ Covers(data, q, r, Handshake(MessageTypes[3], c))
        /\ Len(c) + 4 <= MaxSize[MessageTypes[3]] /\ IsReadAt(data, q, 3, extensions)
    BY <1>2, <1>5, <1>6, <1>9 DEF AreAllowed, IsReadAt, Got
  <2> QED BY ONLY <1>1, <1>3, <1>7, <2>1, MessageGot
<1>11. Got(certificate, s, d)
  <2>1. /\ Covers(data, r, s, Handshake(MessageTypes[4], d))
        /\ Len(d) + 4 <= MaxSize[MessageTypes[4]] /\ IsReadAt(data, r, 4, certificate)
    BY <1>2, <1>5, <1>6, <1>10 DEF AreAllowed, IsReadAt, Got
  <2> QED BY ONLY <1>1, <1>3, <1>7, <2>1, MessageGot
<1>12. Got(verify, end, e)
  <2>1. /\ Covers(data, s, end, Handshake(MessageTypes[5], e))
        /\ Len(e) + 4 <= MaxSize[MessageTypes[5]] /\ IsReadAt(data, s, 5, verify)
    BY <1>2, <1>4, <1>5, <1>6, <1>11 DEF AreAllowed, IsReadAt, Got
  <2> QED BY ONLY <1>1, <1>3, <1>7, <2>1, MessageGot
<1> QED BY <1>4, <1>8, <1>9, <1>10, <1>11, <1>12 DEF Got, IsAllRead

\* A proof of five bodies that are accepted, within the limits, is accepted.
LEMMA ProofIsParsed ==
  ASSUME NEW data, NEW a, NEW b, NEW c, NEW d, NEW e, IsProof(data, a, b, c, d, e),
         AreAllowed(a, b, c, d, e), Len(data) <= MaxProof,
         NEW client, client = ParseClientHello(a), client.ok,
         ParseServerHello(b, client).ok, ParseEncryptedExtensions(c).ok,
         ParseCertificate(d).ok, ParseCertificateVerify(e, client).ok
  PROVE  ParseProof(data).ok
<1>1. PICK hello, answer, extensions, certificate, verify :
         AreReads(data, hello, answer, extensions, certificate, verify)
  BY DEF AreReads
<1>2. /\ hello.ok /\ answer.ok /\ extensions.ok /\ certificate.ok
      /\ IsAllRead(verify, data)
      /\ hello.value = a /\ answer.value = b /\ extensions.value = c
      /\ certificate.value = d /\ verify.value = e
  BY <1>1, ProofReads
<1>3. Len(data) \in 1..MaxProof /\ data[1] = PROOF_VERSION
  <2>1. data \in Seq(Byte) /\ Len(data) >= 1 /\ data[1] = PROOF_VERSION
    BY ProofFramed
  <2>2. MaxProof \in Nat
    BY LimitsAssumption
  <2>3. PICK n : n = Len(data)
    OBVIOUS
  <2>4. n \in Nat /\ n >= 1 /\ n <= MaxProof
    BY <2>1, <2>3
  <2>5. n \in 1..MaxProof
    BY ONLY <2>2, <2>4
  <2> QED BY <2>1, <2>3, <2>5
<1>4. /\ hello = ReadHandshake(data, 1, CLIENT_HELLO)
      /\ answer = ReadHandshake(data, hello.at, SERVER_HELLO)
      /\ extensions = ReadHandshake(data, answer.at, ENCRYPTED_EXTENSIONS)
      /\ certificate = ReadHandshake(data, extensions.at, CERTIFICATE)
      /\ verify = ReadHandshake(data, certificate.at, CERTIFICATE_VERIFY)
  BY <1>1 DEF AreReads
<1>5. ParseProof(data) = ParseBodies(ParseClientHello(hello.value), answer.value,
                                     extensions.value, certificate.value, verify.value)
  BY ONLY <1>2, <1>3, <1>4 DEF ParseProof
<1>6. PICK server, encrypted, chain, signed :
         /\ server = ParseServerHello(b, client) /\ encrypted = ParseEncryptedExtensions(c)
         /\ chain = ParseCertificate(d) /\ signed = ParseCertificateVerify(e, client)
  OBVIOUS
<1>7. ParseProof(data) = AllParsed(client, server, encrypted, chain, signed)
  BY <1>2, <1>5, <1>6 DEF ParseBodies
<1>8. client.ok /\ server.ok /\ encrypted.ok /\ chain.ok /\ signed.ok
  BY <1>6
<1>9. AllParsed(client, server, encrypted, chain, signed).ok
  BY ONLY <1>8 DEF AllParsed
<1> QED BY <1>7, <1>9

\* Only the schemes of the client matter to parse CertificateVerify.
LEMMA VerifyBySchemes ==
  ASSUME NEW body, NEW x, NEW y, x.schemes = y.schemes
  PROVE  ParseCertificateVerify(body, x).ok <=> ParseCertificateVerify(body, y).ok
BY DEF ParseCertificateVerify

\* A whole capture is refused only for what the server sent under encryption
\* (tls13.py:446-476): nothing the client wrote, and no ServerHello it took.
THEOREM OnlyEncryptedFlightIsRefused == Spec => []OnlyFlightIsRefused
<1>1. ASSUME BytesInv, ConnectionInv, pc = "failed", proof # <<>>,
             NEW flight \in Flights,
             TakesCertificate(Handshake(CERTIFICATE, flight.certificate)),
             proof = EncodedProof(<<ClientHelloBody(session, mask), From(inbound, 4),
                                    flight.extensions, flight.certificate, flight.verify>>)
      PROVE  FlightIsFaulty(flight)
  <2> SUFFICES ASSUME ~FlightIsFaulty(flight) PROVE FALSE
    OBVIOUS
  <2>1. /\ mask \in Masks /\ taken = Taken /\ taken.verdict = "taken"
        /\ ~ParseProof(proof).ok
    BY <1>1 DEF ConnectionInv
  <2>2. PICK a, b, c, d, e : /\ a = ClientHelloBody(session, mask) /\ b = From(inbound, 4)
                             /\ c = flight.extensions /\ d = flight.certificate
                             /\ e = flight.verify
    OBVIOUS
  <2>3. IsProof(proof, a, b, c, d, e)
    BY <1>1, <2>2, CaptureIsProof
  <2>4. PICK client : client = OwnClient
    OBVIOUS
  <2>5. session \in Sessions
    BY <1>1 DEF BytesInv
  <2>6. client = ParseClientHello(a) /\ client.ok /\ client.schemes = Schemes(mask)
    <3>1. client = ParseClientHello(ClientHelloBody(session, mask))
      BY <2>4 DEF OwnClient
    <3> QED BY <2>1, <2>2, <2>5, <3>1, OwnClientIsOwn
  <2>7. Len(b) + 4 <= MaxSize[SERVER_HELLO] /\ ParseServerHello(b, client).ok
    BY <1>1, <2>1, <2>2, <2>4, ServerTaken
  <2>8. Len(d) + 4 <= MaxSize[CERTIFICATE] /\ ParseCertificate(d).ok
    <3>1. d \in Seq(Byte)
      BY <2>3 DEF IsProof
    <3> QED BY <1>1, <2>2, <3>1, CertificateTaken
  <2>9. /\ ParseEncryptedExtensions(c).ok
        /\ ParseCertificateVerify(e, [schemes |-> Schemes(mask)]).ok
        /\ ~(Len(c) + 4 > MaxSize[ENCRYPTED_EXTENSIONS])
        /\ ~(Len(e) + 4 > MaxSize[CERTIFICATE_VERIFY])
        /\ ~(Len(proof) > MaxProof)
    BY <2>2 DEF FlightIsFaulty
  <2>10. ParseCertificateVerify(e, client).ok
    <3>1. PICK own : own = [schemes |-> Schemes(mask)]
      OBVIOUS
    <3>2. own.schemes = client.schemes /\ ParseCertificateVerify(e, own).ok
      BY <2>6, <2>9, <3>1
    <3> QED BY <3>2, VerifyBySchemes
  <2>11. \A i \in 1..5 : MaxSize[MessageTypes[i]] \in Int
    <3>1. DOMAIN MessageTypes = 1..5
      BY DEF MessageTypes
    <3>2. Base * Base - 1 \in Int
      BY BytesAreBytes
    <3>3. \A i \in 1..5 : MaxSize[MessageTypes[i]] \in 0..(Base * Base - 1)
      BY <3>1, LimitsAssumption
    <3> QED BY ONLY <3>2, <3>3
  <2>12. /\ Len(c) + 4 <= MaxSize[ENCRYPTED_EXTENSIONS]
         /\ Len(e) + 4 <= MaxSize[CERTIFICATE_VERIFY]
    <3>1. PICK n, m : n = Len(c) /\ m = Len(e)
      OBVIOUS
    <3>2. n \in Nat /\ m \in Nat
      BY <2>3, <3>1 DEF IsProof
    <3>3. PICK x, y : x = MaxSize[ENCRYPTED_EXTENSIONS] /\ y = MaxSize[CERTIFICATE_VERIFY]
      OBVIOUS
    <3>4. x \in Int /\ y \in Int
      <4>1. MessageTypes[3] = ENCRYPTED_EXTENSIONS /\ MessageTypes[5] = CERTIFICATE_VERIFY
        BY DEF MessageTypes
      <4> QED BY <2>11, <3>3, <4>1
    <3>5. ~(n + 4 > x) /\ ~(m + 4 > y)
      BY <2>9, <3>1, <3>3
    <3>6. n + 4 <= x /\ m + 4 <= y
      BY ONLY <3>2, <3>4, <3>5
    <3> QED BY <3>1, <3>3, <3>6
  <2>13. Len(proof) <= MaxProof
    <3>1. PICK n : n = Len(proof)
      OBVIOUS
    <3>2. n \in Nat
      BY <1>1, <3>1 DEF BytesInv
    <3>3. MaxProof \in Nat
      BY LimitsAssumption
    <3> QED BY <2>9, <3>1, <3>2, <3>3
  <2>14. Len(a) + 4 <= MaxSize[CLIENT_HELLO]
    BY <2>1, <2>2, <2>5, HelloAssumption
  <2>15. AreAllowed(a, b, c, d, e)
    BY <2>7, <2>8, <2>12, <2>14 DEF AreAllowed
  <2>16. ParseProof(proof).ok
    BY <2>3, <2>6, <2>7, <2>8, <2>9, <2>10, <2>13, <2>15, ProofIsParsed
  <2> QED BY <2>1, <2>16
<1>2. ASSUME BytesInv, ConnectionInv PROVE OnlyFlightIsRefused
  <2> SUFFICES ASSUME pc = "failed", proof # <<>>
               PROVE  \E flight \in Flights :
                        /\ FlightIsFaulty(flight)
                        /\ proof = EncodedProof(<<ClientHelloBody(session, mask),
                                        From(inbound, 4), flight.extensions,
                                        flight.certificate, flight.verify>>)
    BY DEF OnlyFlightIsRefused
  <2>1. PICK flight \in Flights :
          /\ TakesCertificate(Handshake(CERTIFICATE, flight.certificate))
          /\ proof = EncodedProof(<<ClientHelloBody(session, mask), From(inbound, 4),
                                    flight.extensions, flight.certificate, flight.verify>>)
    BY <1>2 DEF ConnectionInv, IsCapture
  <2> QED BY <1>1, <1>2, <2>1
<1> QED BY <1>2, StaysBytes, ConnectionHolds, PTL
=============================================================================
