-------------------------------- MODULE Hashes --------------------------------
(***************************************************************************)
(* The two spellings of a hash (hashes.py): inside the program its bytes,  *)
(* the least significant one first; for people, and in a proof file, its   *)
(* hexadecimal digits, the most significant one first.                     *)
(***************************************************************************)
EXTENDS Bytes, SequencesExt

CONSTANT HexBase        \* how many values a hexadecimal digit has: 16

ASSUME HexAssumption == HexBase \in Nat /\ Base = HexBase * HexBase

\* bytes.fromhex: two digits are a byte.
FromHex(digits) ==
    [i \in 1..(Len(digits) \div 2) |-> HexBase * digits[2 * i - 1] + digits[2 * i]]

\* Mutants come just before the definition they replace.
DisplayHashToInternalInOrder(digits) == FromHex(digits)

\* _display_hash_to_internal, 15-28, of digits of the right number.
DisplayHashToInternal(digits) == Reverse(FromHex(digits))

\* int.from_bytes(bytes, "little").
Little(bytes) == Number(Reverse(bytes))

\* meets_work_target, 58-63: as integers, both little-endian.
MeetsWorkTarget(work, digits) == Little(work) <= Little(DisplayHashToInternal(digits))
=============================================================================
