------------------------------- MODULE KeyRules -------------------------------
(***************************************************************************)
(* Which keys may check which CertificateVerify signatures                 *)
(* (_verify_certificate_signature, verify.py:302-339): the DER reader      *)
(* (193-245) and the loop over the RSASSA-PSS parameters of a key with     *)
(* their defaults (267-295), which goes through the bytes because the      *)
(* library forgets them (251).  Tags and lengths are the real bytes; an    *)
(* object identifier is a short byte string.  Whether the provider loads   *)
(* the certificate at all, before any rule is asked (79), is its own       *)
(* affair, but for the one refusal that README.md documents.               *)
(***************************************************************************)
EXTENDS Bytes, SequencesExt

CONSTANTS
    Sha256, Mgf1, IdRsassaPss,  \* object identifiers (verify.py:35-39)
    MaxLengthBytes,     \* 4: of the length of a DER element (206)
    MaxIntegerBytes,    \* 4: of a DER integer (240)
    Leaves              \* keys of server certificates, see IsKey

\* The first byte of a length has seven bits for the number of the others.
ASSUME OidsAssumption ==
    /\ Sha256 # Mgf1 /\ IdRsassaPss # Mgf1
    /\ \A oid \in {Sha256, Mgf1, IdRsassaPss} : oid \in Seq(0..(Base - 1)) /\ Len(oid) <= 32
ASSUME BoundsAssumption ==
    /\ Base = 256
    /\ MaxLengthBytes \in Nat /\ 2 <= MaxLengthBytes /\ MaxLengthBytes < 128
    /\ MaxIntegerBytes \in Nat \ {0}

Half == Base \div 2
SEQUENCE == 48
OID == 6
NULL == 5
INTEGER == 2
BIT_STRING == 3
ParameterTags == 160..163       \* hash, mask generation, salt length, trailer

Schemes == {"ecdsa", "rsa_pss_rsae", "rsa_pss_pss"}
\* The key's algorithm as the library names it, the content of its
\* AlgorithmIdentifier, and what else is looked at.
Kinds == {"p256", "other_curve", "rsa", "pss", "unsupported"}
IsKey(key) ==
    /\ key.kind \in Kinds
    /\ key.bits \in Nat
    /\ {key.exponent_fits, key.has_version, key.signed} \subseteq BOOLEAN
    /\ key.exponent_fits \/ key.kind \in {"rsa", "pss"}
    /\ key.algorithm \in Seq(0..(Base - 1))
    /\ Len(key.algorithm) <= 16384      \* of a certificate (protocol.py:311)

ASSUME LeavesAssumption == \A key \in Leaves : IsKey(key)

VARIABLES
    leaf, scheme,
    pc,
    todo,               \* parameters the loop has not seen (276)
    hash_is_sha256, mgf1_is_sha256, minimum_salt, previous_tag

rules == <<hash_is_sha256, mgf1_is_sha256, minimum_salt, previous_tag>>
vars == <<leaf, scheme, pc, todo, hash_is_sha256, mgf1_is_sha256, minimum_salt, previous_tag>>

-----------------------------------------------------------------------------
(* The DER reader.  Mutants come just before what they replace. *)

\* _der_elements, 193-217: the elements of `encoded`, and Broken where it is no
\* element.  A long length is the shortest, and needed (211-212).
Broken == [tag |-> Base, value |-> <<>>]
IsAnyLength(digits) == TRUE
IsNeededLength(digits) == digits[1] # 0 /\ Number(digits) >= Half

\* What stands at offset p: tag, first byte of the length, the length itself
\* when it is long, and the value.
TagAt(encoded, p) == encoded[p + 1]
FirstAt(encoded, p) == encoded[p + 2]
IsLong(encoded, p) == FirstAt(encoded, p) >= Half
LengthDigits(encoded, p) == Slice(encoded, p + 2, p + 2 + (FirstAt(encoded, p) - Half))
SizeAt(encoded, p) ==
    IF IsLong(encoded, p) THEN Number(LengthDigits(encoded, p)) ELSE FirstAt(encoded, p)
ValueAt(encoded, p) ==
    IF IsLong(encoded, p) THEN p + 2 + (FirstAt(encoded, p) - Half) ELSE p + 2
NextAt(encoded, p) == ValueAt(encoded, p) + SizeAt(encoded, p)
IsElement(encoded, p) ==
    /\ Len(encoded) - p >= 2
    /\ TagAt(encoded, p) % 32 # 31
    /\ IsLong(encoded, p) =>
          /\ FirstAt(encoded, p) - Half \in 1..MaxLengthBytes
          /\ Len(LengthDigits(encoded, p)) = FirstAt(encoded, p) - Half
          /\ IsNeededLength(LengthDigits(encoded, p))
    /\ SizeAt(encoded, p) <= Len(encoded) - ValueAt(encoded, p)
Element(encoded, p) ==
    [tag |-> TagAt(encoded, p),
     value |-> Slice(encoded, ValueAt(encoded, p), NextAt(encoded, p))]

DerElements(encoded) ==
    LET from[p \in 0..Len(encoded)] ==
            IF p = Len(encoded) THEN <<>>
            ELSE IF ~IsElement(encoded, p) THEN <<Broken>>
            ELSE <<Element(encoded, p)>> \o from[NextAt(encoded, p)]
    IN  from[0]
IsDer(encoded) == Broken \notin ToSet(DerElements(encoded))

\* _der_single, 220-224; what it returns is the value of the one element.
IsSingle(encoded, tag) ==
    LET elements == DerElements(encoded)
    IN  Len(elements) = 1 /\ elements[1].tag = tag
Single(encoded) == DerElements(encoded)[1].value

\* _sha256_algorithm, 227-233.
IsSha256(encoded) ==
    LET fields == DerElements(encoded)
    IN  /\ fields # <<>> /\ fields[1] = [tag |-> OID, value |-> Sha256]
        /\ Len(fields) = 1 \/ Tail(fields) = <<[tag |-> NULL, value |-> <<>>]>>

\* _der_nonnegative_integer, 236-245.
IsInteger(encoded) ==
    LET value == Single(encoded)
    IN  /\ IsSingle(encoded, INTEGER)
        /\ Len(value) \in 1..MaxIntegerBytes
        /\ value[1] < Half
        /\ Len(value) > 1 /\ value[1] = 0 => value[2] >= Half
Integer(encoded) == Number(Single(encoded))

-----------------------------------------------------------------------------
(* DER as others write it: keys and certificates come from outside. *)

DerLength(n) ==
    IF n < Half THEN <<n>>
    ELSE LET width == CHOOSE w \in 1..MaxLengthBytes :
                          Number(Digits(w, n)) = n /\ Digits(w, n)[1] # 0
         IN  <<Half + width>> \o Digits(width, n)
Der(tag, value) == <<tag>> \o DerLength(Len(value)) \o value

\* Version (optional), serial number, signature, issuer, validity, subject and
\* SubjectPublicKeyInfo.
Spki(algorithm) == Der(SEQUENCE, Der(SEQUENCE, algorithm) \o Der(BIT_STRING, <<0>>))
Tbs(key) ==
    Der(SEQUENCE,
        (IF key.has_version THEN Der(160, Der(INTEGER, <<2>>)) ELSE <<>>)
        \o Der(INTEGER, <<1>>)
        \o FlattenSeq([i \in 1..4 |-> Der(SEQUENCE, <<>>)])
        \o Spki(key.algorithm))

-----------------------------------------------------------------------------
(* _verify_certificate_signature *)

Init ==
    /\ leaf \in Leaves
    /\ scheme \in Schemes
    /\ pc = "load"
    /\ todo = <<>>
    /\ hash_is_sha256 = FALSE      \* the default is SHA-1
    /\ mgf1_is_sha256 = FALSE
    /\ minimum_salt = 20
    /\ previous_tag = 159

GoTo(point) == pc' = point /\ UNCHANGED <<leaf, scheme>>

\* Lines 75-85: the provider takes or refuses the certificate as it likes, and
\* "rejects an explicitly encoded DEFAULT `saltLength=20` in PSS parameters"
\* (README.md:106).
DefaultSaltLength == [tag |-> 162, value |-> Der(INTEGER, <<20>>)]
SpellsDefault(algorithm) ==
    LET fields == DerElements(algorithm)
    IN  Len(fields) = 2 /\ DefaultSaltLength \in ToSet(DerElements(fields[2].value))
Load ==
    /\ pc = "load"
    /\ leaf.kind = "pss" => ~SpellsDefault(leaf.algorithm)
    /\ GoTo("start")
    /\ UNCHANGED <<todo, rules>>
LoadFails == pc = "load" /\ GoTo("unloadable") /\ UNCHANGED <<todo, rules>>

\* Lines 303-308.
Start ==
    /\ pc = "start"
    /\ IF ~leaf.exponent_fits THEN GoTo("unsuited")
       ELSE IF scheme = "rsa_pss_pss" /\ leaf.kind = "pss" THEN GoTo("algorithm")
       ELSE GoTo("key")
    /\ UNCHANGED <<todo, rules>>

\* Lines 256-270: from the certificate down to the parameters of its key.
SpkiIndex(fields) == IF fields # <<>> /\ fields[1].tag = 160 THEN 7 ELSE 6
Algorithm ==
    LET fields == DerElements(Single(Tbs(leaf)))
        spki == DerElements(fields[SpkiIndex(fields)].value)
    IN  IF /\ IsSingle(Tbs(leaf), SEQUENCE) /\ IsDer(Single(Tbs(leaf)))
           /\ Len(fields) >= SpkiIndex(fields) /\ fields[SpkiIndex(fields)].tag = SEQUENCE
           /\ Len(spki) = 2 /\ spki[1].tag = SEQUENCE /\ spki[2].tag = BIT_STRING
        THEN DerElements(spki[1].value) ELSE <<Broken>>

ReadAlgorithm ==
    /\ pc = "algorithm"
    /\ IF Broken \in ToSet(Algorithm) \/ Algorithm = <<>>
             \/ Head(Algorithm) # [tag |-> OID, value |-> IdRsassaPss]
       THEN GoTo("restricted") /\ UNCHANGED todo
       ELSE IF Len(Algorithm) = 1 THEN GoTo("key") /\ UNCHANGED todo
       ELSE IF Len(Algorithm) = 2 /\ Algorithm[2].tag = SEQUENCE /\ IsDer(Algorithm[2].value)
            THEN GoTo("parameters") /\ todo' = DerElements(Algorithm[2].value)
            ELSE GoTo("restricted") /\ UNCHANGED todo
    /\ UNCHANGED rules

\* One turn of the loop of lines 276-293.
IsNextKnown == Head(todo).tag \in ParameterTags
IsNext == Head(todo).tag \in ParameterTags /\ Head(todo).tag > previous_tag
Reads(tag) == pc = "parameters" /\ todo # <<>> /\ IsNext /\ Head(todo).tag = tag
Seen ==
    /\ todo' = Tail(todo)
    /\ previous_tag' = Head(todo).tag
    /\ UNCHANGED <<leaf, scheme, pc>>

HasHash(value) == IsSingle(value, SEQUENCE) /\ IsDer(Single(value))
ReadHash ==
    /\ Reads(160)
    /\ HasHash(Head(todo).value)
    /\ hash_is_sha256' = IsSha256(Single(Head(todo).value))
    /\ Seen
    /\ UNCHANGED <<mgf1_is_sha256, minimum_salt>>

\* The hash inside is only decoded when the function is MGF1 (282-288).
NamesMgf1(fields) ==
    /\ Len(fields) = 2
    /\ fields[1] = [tag |-> OID, value |-> Mgf1]
    /\ fields[2].tag = SEQUENCE
HasMaskGeneration(value) ==
    LET fields == DerElements(Single(value))
    IN  HasHash(value) /\ (NamesMgf1(fields) => IsDer(fields[2].value))
ReadMaskGeneration ==
    LET fields == DerElements(Single(Head(todo).value)) IN
    /\ Reads(161)
    /\ HasMaskGeneration(Head(todo).value)
    /\ mgf1_is_sha256' = (NamesMgf1(fields) /\ IsSha256(fields[2].value))
    /\ Seen
    /\ UNCHANGED <<hash_is_sha256, minimum_salt>>

ReadSaltLength ==
    /\ Reads(162)
    /\ IsInteger(Head(todo).value)
    /\ minimum_salt' = Integer(Head(todo).value)
    /\ Seen
    /\ UNCHANGED <<hash_is_sha256, mgf1_is_sha256>>

ReadTrailer ==
    /\ Reads(163)
    /\ IsInteger(Head(todo).value) /\ Integer(Head(todo).value) = 1
    /\ Seen
    /\ UNCHANGED <<hash_is_sha256, mgf1_is_sha256, minimum_salt>>

IsReadable(parameter) ==
    CASE parameter.tag = 160 -> HasHash(parameter.value)
      [] parameter.tag = 161 -> HasMaskGeneration(parameter.value)
      [] parameter.tag = 162 -> IsInteger(parameter.value)
      [] OTHER -> IsInteger(parameter.value) /\ Integer(parameter.value) = 1
RefuseParameter ==
    /\ pc = "parameters" /\ todo # <<>>
    /\ ~(IsNext /\ IsReadable(Head(todo)))
    /\ GoTo("restricted")
    /\ UNCHANGED <<todo, rules>>

\* Lines 294-295.
EndParameters ==
    /\ pc = "parameters" /\ todo = <<>>
    /\ GoTo(IF hash_is_sha256 /\ mgf1_is_sha256 /\ minimum_salt <= 32
                THEN "key" ELSE "restricted")
    /\ UNCHANGED <<todo, rules>>

\* Lines 309-339: the kind of key each scheme takes, then the signature.
IsRsa == leaf.kind \in {"rsa", "pss"} /\ leaf.bits >= 2048
SuitsScheme ==
    \/ scheme = "ecdsa" /\ leaf.kind = "p256"
    \/ scheme = "rsa_pss_rsae" /\ IsRsa /\ leaf.kind = "rsa"
    \/ scheme = "rsa_pss_pss" /\ IsRsa /\ leaf.kind = "pss"
CheckSignature ==
    /\ pc = "key"
    /\ GoTo(IF ~SuitsScheme THEN "unsuited" ELSE IF leaf.signed THEN "accepted" ELSE "invalid")
    /\ UNCHANGED <<todo, rules>>

Over == pc \in {"unloadable", "accepted", "unsuited", "restricted", "invalid"} /\ UNCHANGED vars

Next ==
    \/ Load
    \/ LoadFails
    \/ Start
    \/ ReadAlgorithm
    \/ ReadHash
    \/ ReadMaskGeneration
    \/ ReadSaltLength
    \/ ReadTrailer
    \/ RefuseParameter
    \/ EndParameters
    \/ CheckSignature
    \/ Over

Spec == Init /\ [][Next]_vars

-----------------------------------------------------------------------------
(* Properties *)

\* The contents of an AlgorithmIdentifier that lets an id-RSASSA-PSS key sign
\* with SHA-256, MGF1 with SHA-256 and a salt of 32 bytes, by RFC 4055: no
\* parameters at all, or these in this order, the last two optional, the salt
\* length written only when it is not the default one, 20.
Sha256Names == {Der(OID, Sha256), Der(OID, Sha256) \o Der(NULL, <<>>)}
Permitted ==
    {Der(OID, IdRsassaPss)} \cup
    {Der(OID, IdRsassaPss) \o Der(SEQUENCE, hash \o mgf \o salt \o trailer) :
        hash \in {Der(160, Der(SEQUENCE, name)) : name \in Sha256Names},
        mgf \in {Der(161, Der(SEQUENCE, Der(OID, Mgf1) \o Der(SEQUENCE, name))) :
                     name \in Sha256Names},
        salt \in {<<>>} \cup {Der(162, Der(INTEGER, <<n>>)) : n \in (0..32) \ {20}},
        trailer \in {<<>>, Der(163, Der(INTEGER, <<1>>))}}

\* Of a certificate that loads, a key that its owner restricted is used only
\* when its restrictions permit it, and is never refused for them otherwise,
\* whatever is absent, repeated, out of order or encoded in another way than DER
\* has it (267-295): "Absent PSS parameters are unrestricted, but a present empty
\* SEQUENCE means SHA-1 / MGF1-SHA-1 / minimum salt 20" (252).
RestrictionsAreExact ==
    leaf.kind = "pss" =>
        /\ pc \in {"accepted", "invalid"} => leaf.algorithm \in Permitted
        /\ pc = "restricted" => leaf.algorithm \notin Permitted

\* What the DER reader takes apart goes together again to the same bytes in
\* only one way: no length it accepts is longer than needed, and it reads
\* nothing twice, nothing past the end and leaves nothing unread (193-217).
DerIsExact ==
    IsDer(leaf.algorithm) =>
        LET elements == DerElements(leaf.algorithm)
        IN  leaf.algorithm = FlattenSeq([i \in DOMAIN elements |->
                                 Der(elements[i].tag, elements[i].value)])
=============================================================================
