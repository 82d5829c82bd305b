----------------------------- MODULE MCKeyRules ------------------------------
(***************************************************************************)
(* An instance of KeyRules for TLC: keys with every choice of the four PSS *)
(* parameters from small sets, with parameters repeated or in another      *)
(* order, with every edit of one byte of one of them, and with a value so  *)
(* long that its length needs the long form.                               *)
(***************************************************************************)
EXTENDS KeyRules

MCSha256 == <<96, 1>>
MCMgf1 == <<42, 8>>
MCIdRsassaPss == <<42, 10>>
Sha1 == <<43, 14>>

Name(oid) == Der(SEQUENCE, Der(OID, oid))
NameWithNull(oid) == Der(SEQUENCE, Der(OID, oid) \o Der(NULL, <<>>))
Names == {Name(MCSha256), NameWithNull(MCSha256), Name(Sha1),
          Der(SEQUENCE, Der(OID, MCSha256) \o Der(NULL, <<0>>)), Der(SEQUENCE, <<>>)}
Mask(function, hash) == Der(SEQUENCE, Der(OID, function) \o hash)
Masks == {Mask(MCMgf1, name) : name \in Names} \cup {Mask(Sha1, Name(MCSha256))}
Integers_ == {<<0>>, <<20>>, <<32>>, <<33>>, <<128>>, <<0, 32>>, <<0, 128>>, <<1, 0>>, <<>>,
              <<0, 0, 0, 0, 32>>}

Optional(tag, values) == {<<>>} \cup {Der(tag, v) : v \in values}
Hashes == Optional(160, Names)
MaskGenerations == Optional(161, Masks)
SaltLengths == Optional(162, {Der(INTEGER, n) : n \in Integers_})
Trailers == Optional(163, {Der(INTEGER, <<n>>) : n \in 0..2})

Good == <<Der(160, Name(MCSha256)), Der(161, Mask(MCMgf1, NameWithNull(MCSha256))),
          Der(162, Der(INTEGER, <<32>>)), Der(163, Der(INTEGER, <<1>>))>>
Restricted(parameters) == Der(OID, MCIdRsassaPss) \o Der(SEQUENCE, parameters)

\* Up to five parameters, each one of the good ones, in any order.
Orders == UNION {[1..n -> DOMAIN Good] : n \in 0..5}
Shuffled == {FlattenSeq([i \in DOMAIN o |-> Good[o[i]]]) : o \in Orders}

ByteEdits(data) ==
    {Slice(data, 0, n) : n \in 0..(Len(data) - 1)}
    \cup {RemoveAt(data, i) : i \in DOMAIN data}
    \cup {InsertAt(data, i, b) : i \in 1..(Len(data) + 1), b \in {0, 1, 129}}
    \cup {ReplaceAt(data, i, b) : i \in DOMAIN data, b \in {0, 31, 127, 128, 129, 130, 133, 255}}
    \cup {ReplaceAt(data, i, (data[i] + d) % Base) : i \in DOMAIN data, d \in {1, 255}}

\* The salt length in 130 bytes, and the edits of what comes before them.
Long == Der(162, Der(INTEGER, [i \in 1..130 |-> IF i = 130 THEN 32 ELSE 0]))
LongEdits == {edit \o From(Long, 6) : edit \in ByteEdits(Slice(Long, 0, 6))}

Algorithms ==
    {Restricted(h \o m \o s \o t) :
        h \in Hashes, m \in MaskGenerations, s \in SaltLengths, t \in Trailers}
    \cup {Restricted(p) : p \in Shuffled \cup LongEdits}
    \cup ByteEdits(Restricted(FlattenSeq(Good)))
    \cup {Restricted(FlattenSeq(ReplaceAt(Good, i, e))) : i \in DOMAIN Good,
              e \in UNION {ByteEdits(Good[j]) : j \in DOMAIN Good}}

Key(kind, algorithm) ==
    [kind |-> kind, bits |-> 2048, exponent_fits |-> TRUE, has_version |-> TRUE,
     signed |-> TRUE, algorithm |-> algorithm]
Plain == Der(OID, MCIdRsassaPss)

MCLeaves ==
    {Key("pss", a) : a \in Algorithms}
    \cup [kind : {"p256", "other_curve", "unsupported"}, bits : {256},
          exponent_fits : {TRUE}, has_version : {TRUE}, signed : BOOLEAN, algorithm : {<<>>}]
    \cup [kind : {"rsa"}, bits : {2047, 2048},
          exponent_fits : BOOLEAN, has_version : {TRUE}, signed : BOOLEAN, algorithm : {<<>>}]
    \cup [kind : {"pss"}, bits : {2047, 2048}, exponent_fits : BOOLEAN, has_version : BOOLEAN,
          signed : BOOLEAN, algorithm : {Plain, Restricted(FlattenSeq(Good)), Restricted(<<>>)}]
=============================================================================
