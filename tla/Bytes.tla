-------------------------------- MODULE Bytes --------------------------------
(***************************************************************************)
(* Byte strings as sequences of numbers: the slices and the big-endian     *)
(* integers of Python, the length-prefixed vectors of TLS and the reader   *)
(* of protocol.py:48-77.  Offsets count from zero, as in the source.       *)
(***************************************************************************)
EXTENDS Naturals, Sequences

CONSTANT Base       \* how many values a byte has: 256 in the code

ASSUME BaseAssumption == Base \in Nat /\ Base > 1

\* data[from:to], which never fails: it ends where the data ends.
Slice(data, from, to) ==
    SubSeq(data, from + 1, IF to < Len(data) THEN to ELSE Len(data))
From(data, from) == Slice(data, from, Len(data))

\* int.from_bytes(bytes, "big") and its inverse, n.to_bytes(width, "big").
Number(bytes) ==
    LET value[i \in 0..Len(bytes)] ==
            IF i = 0 THEN 0 ELSE Base * value[i - 1] + bytes[i]
    IN  value[Len(bytes)]
Digits(width, n) ==
    LET rest[k \in 0..width] == IF k = 0 THEN n ELSE rest[k - 1] \div Base
    IN  [i \in 1..width |-> rest[width - i] % Base]

\* A byte string after its length.
Vector(width, bytes) == Digits(width, Len(bytes)) \o bytes

\* _Reader.read: `size` bytes at offset `at`, or an error.  Nothing can be read
\* after an error: `at` is beyond the data then.
Read(data, at, size) ==
    [ok |-> at + size <= Len(data), value |-> Slice(data, at, at + size), at |-> at + size]
ReadVector(data, at, width) ==
    LET length == Read(data, at, width)
    IN  IF length.ok THEN Read(data, length.at, Number(length.value)) ELSE length
=============================================================================
