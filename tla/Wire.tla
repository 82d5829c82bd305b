--------------------------------- MODULE Wire ---------------------------------
(***************************************************************************)
(* The bytes of a proof: ClientHello as tls13.py builds it, ServerHello as *)
(* tls13.py parses it during the capture, and the whole proof as           *)
(* protocol.py parses it, once at the end of the capture and again from a  *)
(* file that may have been changed or made by another program.             *)
(*                                                                         *)
(* Tags, lengths and list headers are the real bytes.  The sizes of fields *)
(* nobody looks into, and the limits, are constants.                       *)
(***************************************************************************)
EXTENDS Bytes, SequencesExt

CONSTANTS
    Masks,              \* output masks of the searches, see signatures.py
    Domain,             \* as bytes
    Challenge,          \* ClientHello.random, 32 bytes in the code
    RetryRandom,        \* HELLO_RETRY_REQUEST_RANDOM, as many
    Sessions,           \* session ids of the client, at most MaxSession bytes
    MaxSession,         \* 32
    X25519Size,         \* 32
    P256Size,           \* 65
    MaxSize,            \* of each message type: protocol.py:12, 358-370
    MaxCaptured,        \* MAX_CAPTURED_HANDSHAKE
    MaxProof,           \* MAX_PROOF_SIZE
    MaxCertificates,
    MaxCertificate,     \* MAX_CERTIFICATE_SIZE
    ServerHellos(_),    \* what the server may send first, given the session id
    Flights,            \* and then: records of three bodies
    Edits(_)            \* what may become of a proof file

CLIENT_HELLO == 1
SERVER_HELLO == 2
ENCRYPTED_EXTENSIONS == 8
CERTIFICATE == 11
CERTIFICATE_VERIFY == 15
MessageTypes == <<CLIENT_HELLO, SERVER_HELLO, ENCRYPTED_EXTENSIONS, CERTIFICATE,
                  CERTIFICATE_VERIFY>>
PROOF_VERSION == 2

SERVER_NAME == 0
SUPPORTED_GROUPS == 10
SIGNATURE_ALGORITHMS == 13
EARLY_DATA == 42
SUPPORTED_VERSIONS == 43
SIGNATURE_ALGORITHMS_CERT == 50
KEY_SHARE == 51
\* Compressed certificates, pre-shared keys and their modes, early data,
\* cookies, encrypted ClientHello: protocol.py:193-200.
Forbidden == {27, 41, EARLY_DATA, 44, 45, 65037}

TLS_1_2 == <<3, 3>>
TLS_1_3 == <<3, 4>>
AES_128_GCM == 4865
CHACHA20 == 4867
GROUP_SECP256R1 == 23
GROUP_X25519 == 29

RandomSize == Len(Challenge)

ASSUME SizesAssumption ==
    /\ Base = 256
    /\ Len(RetryRandom) = RandomSize
    /\ \A id \in Sessions : Len(id) \in 1..MaxSession
    /\ MaxSession \in 0..255
    /\ {X25519Size, P256Size} \subseteq Nat

\* The masks of signatures.py:15-36; no limit is in the way of a ServerHello
\* that tls13.py takes (protocol.py:357-367, tls13.py:263).
ASSUME LimitsAssumption ==
    /\ Masks \subseteq 1..7
    /\ \A i \in DOMAIN MessageTypes : MaxSize[MessageTypes[i]] \in 0..(Base * Base - 1)
    /\ {MaxCaptured, MaxProof} \subseteq Nat /\ MaxSize[SERVER_HELLO] <= MaxCaptured
    /\ RandomSize + MaxSession + X25519Size + 26 <= MaxSize[SERVER_HELLO]

ByteStrings == Seq(0..(Base - 1))
ASSUME BytesAssumption ==
    /\ {Domain, Challenge, RetryRandom} \cup Sessions \subseteq ByteStrings
    /\ \A id \in Sessions : ServerHellos(id) \subseteq ByteStrings
    /\ \A flight \in Flights :
          {flight.extensions, flight.certificate, flight.verify} \subseteq ByteStrings

VARIABLES
    mask, session,      \* of the search and of this connection
    pc,
    inbound,            \* plaintext_handshake: the server's first bytes
    taken,              \* what parse_server_hello made of them
    proof,              \* encoded_proof, or the bytes of a file
    parsed              \* what parse_proof made of it

vars == <<mask, session, pc, inbound, taken, proof, parsed>>

-----------------------------------------------------------------------------
(* What tls13.py writes.  Mutants come just before what they replace.       *)

Extension(type, data) == Digits(2, type) \o Vector(2, data)
Handshake(type, body) == <<type>> \o Vector(3, body)
Extensions(entries) ==
    FlattenSeq([i \in DOMAIN entries |-> Extension(entries[i].type, entries[i].data)])
Shorts(numbers) == FlattenSeq([i \in DOMAIN numbers |-> Digits(2, numbers[i])])

\* signatures.py:15-36.
Algorithms == <<[mask |-> 1, scheme |-> 1027], [mask |-> 2, scheme |-> 2052],
                [mask |-> 4, scheme |-> 2057]>>
Schemes(m) ==
    FlattenSeq([i \in DOMAIN Algorithms |->
        IF (m \div Algorithms[i].mask) % 2 = 1 THEN <<Algorithms[i].scheme>> ELSE <<>>])
IsAllowed(m, scheme) == scheme \in ToSet(Schemes(m))

\* build_client_hello, 106-177.  The schemes for certificates are always the
\* same; two of the twelve are listed.
OfferedAll(m) == Schemes(7)
Offered(m) == Schemes(m)

PublicKey == [i \in 1..X25519Size |-> 9]
KeySharesUnlisted == Extension(GROUP_X25519, PublicKey)
KeyShares == Vector(2, Extension(GROUP_X25519, PublicKey))
ServerName == Vector(2, <<0>> \o Vector(2, Domain))
HelloExtensions(m) ==
    << [type |-> SERVER_NAME, data |-> ServerName],
       [type |-> SUPPORTED_GROUPS, data |-> Vector(2, Digits(2, GROUP_X25519))],
       [type |-> SIGNATURE_ALGORITHMS, data |-> Vector(2, Shorts(Offered(m)))],
       [type |-> SIGNATURE_ALGORITHMS_CERT, data |-> Vector(2, Shorts(<<1027, 1025>>))],
       [type |-> SUPPORTED_VERSIONS, data |-> Vector(1, TLS_1_3)],
       [type |-> KEY_SHARE, data |-> KeyShares] >>
ClientHelloBody(id, m) ==
    TLS_1_2 \o Challenge \o Vector(1, id) \o Vector(2, Shorts(<<AES_128_GCM, CHACHA20>>))
    \o <<1, 0>> \o Vector(2, Extensions(HelloExtensions(m)))

\* Nor of a ClientHello: its 4096 bytes are plenty for a domain of 253.
ASSUME HelloAssumption ==
    \A id \in Sessions, m \in Masks :
        Len(ClientHelloBody(id, m)) + 4 <= MaxSize[CLIENT_HELLO]

\* encoded_proof, 77-87, of five bodies.
EncodedProof(bodies) ==
    <<PROOF_VERSION>>
    \o FlattenSeq([i \in DOMAIN MessageTypes |-> Handshake(MessageTypes[i], bodies[i])])

-----------------------------------------------------------------------------
(* What tls13.py reads (259-332)                                            *)

\* _pop_handshake, on the bytes received so far: a whole message, none yet, or
\* one that announces too much.
MessageSize(buffer) == Number(Slice(buffer, 1, 4)) + 4
Pop(buffer) ==
    IF Len(buffer) < 4 THEN "none"
    ELSE IF MessageSize(buffer) > MaxCaptured THEN "too_large"
    ELSE IF Len(buffer) < MessageSize(buffer) THEN "none" ELSE "message"

\* An entry of a list that ends in the middle of it.
Broken == [type |-> Base * Base, data |-> <<>>]
IsList(entries) ==
    /\ Broken \notin ToSet(entries)
    /\ \A i, j \in DOMAIN entries : entries[i].type = entries[j].type => i = j
Types(entries) == {entries[i].type : i \in DOMAIN entries}
Data(entries, type) ==
    IF type \in Types(entries)
        THEN (CHOOSE e \in ToSet(entries) : e.type = type).data ELSE <<>>

\* _parse_extensions, 272-287.
TakenExtensions(encoded) ==
    LET from[p \in 0..Len(encoded)] ==
            LET size == Number(Slice(encoded, p + 2, p + 4)) IN
            IF p = Len(encoded) THEN <<>>
            ELSE IF Len(encoded) - p < 4 \/ Len(encoded) - (p + 4) < size THEN <<Broken>>
            ELSE <<[type |-> Number(Slice(encoded, p, p + 2)),
                    data |-> Slice(encoded, p + 4, p + 4 + size)]>>
                 \o from[p + 4 + size]
    IN  from[0]

\* parse_server_hello, 290-332: one outcome for each way of leaving it, an
\* index outside the message included; slices are cut short instead.
SessionFitsAnyhow(body, size, at) == size <= MaxSession
SessionFits(body, size, at) == size <= MaxSession /\ Len(body) - at >= size + 5
IsX25519ShareStart(share) ==
    /\ Len(share) >= 4
    /\ Number(Slice(share, 0, 2)) = GROUP_X25519
    /\ Number(Slice(share, 2, 4)) = X25519Size
IsX25519Share(share) == IsX25519ShareStart(share) /\ Len(share) = X25519Size + 4

TakeServerHello(message, id) ==
    LET body == From(message, 4)
        start == RandomSize + 2
        size == body[start + 1]
        at == start + 1
        cipher == Number(Slice(body, at + size, at + size + 2))
        compression == at + size + 2
        extensions == TakenExtensions(From(body, compression + 3))
        share == Data(extensions, KEY_SHARE)
        IsServerHello ==
            /\ Len(message) >= 4 /\ message[1] = SERVER_HELLO
            /\ Number(Slice(message, 1, 4)) = Len(message) - 4
            /\ Len(body) >= RandomSize + 6 /\ Slice(body, 0, 2) = TLS_1_2
            /\ Slice(body, 2, start) # RetryRandom
        EchoesSession ==
            /\ SessionFits(body, size, at)
            /\ Slice(body, at, at + size) = id
            /\ cipher \in {AES_128_GCM, CHACHA20}
        Selects ==
            /\ body[compression + 1] = 0
            /\ Len(body) - (compression + 3)
                   = Number(Slice(body, compression + 1, compression + 3))
            /\ IsList(extensions)
            /\ Types(extensions) = {SUPPORTED_VERSIONS, KEY_SHARE}
            /\ Data(extensions, SUPPORTED_VERSIONS) = TLS_1_3
            /\ IsX25519Share(share)
        Result(verdict) == [verdict |-> verdict, cipher |-> cipher, key |-> From(share, 4)]
        Failure(verdict) == [verdict |-> verdict, cipher |-> 0, key |-> <<>>]
    IN  IF ~IsServerHello THEN Failure("refused")
        ELSE IF Len(body) <= start THEN Failure("escapes")
        ELSE IF ~EchoesSession THEN Failure("refused")
        ELSE IF Len(body) <= compression THEN Failure("escapes")
        ELSE IF Selects THEN Result("taken") ELSE Failure("refused")

-----------------------------------------------------------------------------
(* What protocol.py reads.  Each result has a field ok; the others matter   *)
(* only if it is true.                                                      *)

\* `not reader.empty` after the last field that was read.
StaysInside(field, data) == field.at <= Len(data)
IsAllRead(field, data) == field.ok /\ field.at = Len(data)

\* _read_handshake, 112-123.
BodySize(header) == Number(From(header.value, 1))
IsHandshake(header, body, type) ==
    /\ header.ok /\ header.value[1] = type
    /\ BodySize(header) + 4 <= MaxSize[type] /\ body.ok
ReadHandshake(data, at, type) ==
    LET header == Read(data, at, 4)
        body == Read(data, header.at, BodySize(header))
    IN  [ok |-> IsHandshake(header, body, type), value |-> body.value, at |-> body.at]

\* The loop of _extensions, 131-139, and that of the key shares, 236-245: a tag
\* and a vector of two length bytes, no tag twice.
Entries(encoded) ==
    LET from[p \in 0..Len(encoded)] ==
            LET type == Read(encoded, p, 2)
                data == ReadVector(encoded, type.at, 2)
            IN  IF p = Len(encoded) THEN <<>>
                ELSE IF ~data.ok THEN <<Broken>>
                ELSE <<[type |-> Number(type.value), data |-> data.value]>> \o from[data.at]
    IN  from[0]

NumbersOf(encoded) ==
    [i \in 1..(Len(encoded) \div 2) |-> Number(Slice(encoded, 2 * i - 2, 2 * i))]
IsNumbers(field) == Len(field.value) >= 2 /\ Len(field.value) % 2 = 0

\* _valid_key_share, 156-159.
IsKeyShare(group, exchange) ==
    \/ group = GROUP_X25519 /\ Len(exchange) = X25519Size
    \/ group = GROUP_SECP256R1 /\ Len(exchange) = P256Size /\ exchange[1] = 4

\* _parse_sni, 142-153.
IsServerName(encoded) ==
    LET list == ReadVector(encoded, 0, 2)
        name == ReadVector(list.value, 1, 2)
    IN  /\ IsAllRead(list, encoded)
        /\ IsAllRead(name, list.value)
        /\ list.value[1] = 0
        /\ name.value = Domain

\* _parse_client_hello, 162-246.
ParseClientHello(body) ==
    LET version == Read(body, 0, 2)
        random == Read(body, version.at, RandomSize)
        id == ReadVector(body, random.at, 1)
        ciphers == ReadVector(body, id.at, 2)
        compression == ReadVector(body, ciphers.at, 1)
        block == ReadVector(body, compression.at, 2)
        entries == Entries(block.value)
        Of(type) == Data(entries, type)
        versions == ReadVector(Of(SUPPORTED_VERSIONS), 0, 1)
        schemes == ReadVector(Of(SIGNATURE_ALGORITHMS), 0, 2)
        list == ReadVector(Of(KEY_SHARE), 0, 2)
        shares == Entries(list.value)
    IN  [ok |-> /\ IsAllRead(block, body) /\ IsList(entries)
                /\ version.value = TLS_1_2
                /\ random.value = Challenge
                /\ Len(id.value) <= MaxSession
                /\ IsNumbers(ciphers)
                /\ compression.value = <<0>>
                /\ {SERVER_NAME, SUPPORTED_VERSIONS, SIGNATURE_ALGORITHMS, KEY_SHARE}
                       \subseteq Types(entries)
                /\ IsServerName(Of(SERVER_NAME))
                /\ Forbidden \cap Types(entries) = {}
                /\ IsAllRead(versions, Of(SUPPORTED_VERSIONS)) /\ IsNumbers(versions)
                /\ Number(TLS_1_3) \in ToSet(NumbersOf(versions.value))
                /\ IsAllRead(schemes, Of(SIGNATURE_ALGORITHMS)) /\ IsNumbers(schemes)
                /\ IsAllRead(list, Of(KEY_SHARE)) /\ IsList(shares) /\ shares # <<>>
                /\ \A i \in DOMAIN shares : IsKeyShare(shares[i].type, shares[i].data),
         session |-> id.value, ciphers |-> NumbersOf(ciphers.value), entries |-> entries,
         versions |-> NumbersOf(versions.value),
         schemes |-> NumbersOf(schemes.value), shares |-> shares]

\* _parse_server_hello, 249-286.
ParseServerHello(body, client) ==
    LET version == Read(body, 0, 2)
        random == Read(body, version.at, RandomSize)
        id == ReadVector(body, random.at, 1)
        cipher == Read(body, id.at, 2)
        compression == Read(body, cipher.at, 1)
        block == ReadVector(body, compression.at, 2)
        entries == Entries(block.value)
        share == Data(entries, KEY_SHARE)
        group == Read(share, 0, 2)
        key == ReadVector(share, group.at, 2)
    IN  [ok |-> /\ IsAllRead(block, body) /\ IsList(entries)
                /\ version.value = TLS_1_2
                /\ random.value # RetryRandom
                /\ Len(id.value) <= MaxSession /\ id.value = client.session
                /\ Number(cipher.value) \in {AES_128_GCM, CHACHA20} \cap ToSet(client.ciphers)
                /\ compression.value = <<0>>
                /\ Types(entries) = {SUPPORTED_VERSIONS, KEY_SHARE}
                /\ Data(entries, SUPPORTED_VERSIONS) = TLS_1_3
                /\ IsAllRead(key, share)
                /\ IsKeyShare(Number(group.value), key.value)
                /\ Number(group.value) \in Types(client.shares),
         random |-> random.value, cipher |-> Number(cipher.value), entries |-> entries,
         group |-> Number(group.value), key |-> key.value]

\* _parse_encrypted_extensions, 289-295.
ParseEncryptedExtensions(body) ==
    LET block == ReadVector(body, 0, 2)
        entries == Entries(block.value)
    IN  [ok |-> IsAllRead(block, body) /\ IsList(entries) /\ EARLY_DATA \notin Types(entries),
         entries |-> entries]

\* The loop of _parse_certificate, 307-316.
Chain(list) ==
    LET from[p \in 0..Len(list)] ==
            LET certificate == ReadVector(list, p, 3)
                extensions == ReadVector(list, certificate.at, 2)
            IN  IF p = Len(list) THEN <<>>
                ELSE IF ~extensions.ok THEN <<Broken>>
                ELSE <<[data |-> certificate.value, extensions |-> extensions.value]>>
                     \o from[extensions.at]
    IN  from[0]

\* _parse_certificate, 298-319.
ParseCertificate(body) ==
    LET context == ReadVector(body, 0, 1)
        list == ReadVector(body, context.at, 3)
        chain == Chain(list.value)
    IN  [ok |-> /\ IsAllRead(list, body) /\ context.value = <<>> /\ list.value # <<>>
                /\ Broken \notin ToSet(chain)
                /\ \A i \in DOMAIN chain : Len(chain[i].data) \in 1..MaxCertificate
                /\ Len(chain) <= MaxCertificates,
         chain |-> chain]

\* _parse_certificate_verify, 331-344.
ParseCertificateVerify(body, client) ==
    LET scheme == Read(body, 0, 2)
        signature == ReadVector(body, scheme.at, 2)
    IN  [ok |-> /\ IsAllRead(signature, body) /\ signature.value # <<>>
                /\ Number(scheme.value)
                       \in ToSet(Schemes(7)) \cap ToSet(client.schemes),
         scheme |-> Number(scheme.value), signature |-> signature.value]

\* parse_certificate_message, 322-328, of a captured message.
TakesCertificate(message) ==
    LET certificate == ReadHandshake(message, 0, CERTIFICATE)
    IN  IsAllRead(certificate, message) /\ ParseCertificate(certificate.value).ok

\* parse_proof, 347-391: the bodies (371-391), then the messages around them.
NotParsed == [ok |-> FALSE]
AllParsed(client, server, extensions, certificate, verify) ==
    IF client.ok /\ server.ok /\ extensions.ok /\ certificate.ok /\ verify.ok
    THEN [ok |-> TRUE, client |-> client, server |-> server, extensions |-> extensions,
          certificate |-> certificate, verify |-> verify]
    ELSE NotParsed
ParseBodies(client, server, extensions, certificate, verify) ==
    AllParsed(client, ParseServerHello(server, client), ParseEncryptedExtensions(extensions),
              ParseCertificate(certificate), ParseCertificateVerify(verify, client))
ParseProof(encoded) ==
    LET hello == ReadHandshake(encoded, 1, CLIENT_HELLO)
        answer == ReadHandshake(encoded, hello.at, SERVER_HELLO)
        extensions == ReadHandshake(encoded, answer.at, ENCRYPTED_EXTENSIONS)
        certificate == ReadHandshake(encoded, extensions.at, CERTIFICATE)
        verify == ReadHandshake(encoded, certificate.at, CERTIFICATE_VERIFY)
        IsFramed ==
            /\ Len(encoded) \in 1..MaxProof /\ encoded[1] = PROOF_VERSION
            /\ hello.ok /\ answer.ok /\ extensions.ok /\ certificate.ok
            /\ IsAllRead(verify, encoded)
    IN  IF IsFramed
        THEN ParseBodies(ParseClientHello(hello.value), answer.value, extensions.value,
                         certificate.value, verify.value)
        ELSE NotParsed

-----------------------------------------------------------------------------
(* One connection, and the proof file it leaves                             *)

NotTaken == [verdict |-> "none", cipher |-> 0, key |-> <<>>]

Init ==
    /\ mask \in Masks /\ session \in Sessions
    /\ pc = "hello"
    /\ inbound = <<>>
    /\ taken = NotTaken
    /\ proof = <<>>
    /\ parsed = NotParsed

ServerAnswers ==
    /\ pc = "hello"
    /\ inbound' \in ServerHellos(session)
    /\ pc' = "answered"
    /\ UNCHANGED <<mask, session, taken, proof, parsed>>

\* tls13.py:407-419.  Without a whole message the client waits for more, in
\* vain; with more than one message it refuses; and it may refuse the key.
TakeHello ==
    /\ pc = "answered"
    /\ IF Pop(inbound) = "message" /\ Len(inbound) = MessageSize(inbound)
           THEN taken' = TakeServerHello(inbound, session)
           ELSE UNCHANGED taken
    /\ \/ pc' = "flight" /\ taken'.verdict = "taken"
       \/ pc' = "failed"
    /\ UNCHANGED <<mask, session, inbound, proof, parsed>>

\* 446-470: a certificate the parser refuses, or verify.py:78-85, ends the
\* capture.
TakeFlight ==
    /\ pc = "flight"
    /\ \E flight \in Flights :
           IF TakesCertificate(Handshake(CERTIFICATE, flight.certificate))
           THEN \/ /\ pc' = "captured"
                   /\ proof' = EncodedProof(<<ClientHelloBody(session, mask), From(inbound, 4),
                                   flight.extensions, flight.certificate, flight.verify>>)
                \/ pc' = "failed" /\ UNCHANGED proof
           ELSE pc' = "failed" /\ UNCHANGED proof
    /\ UNCHANGED <<mask, session, inbound, taken, parsed>>

\* 473-476; what is accepted may be written to a file.
CheckCapture ==
    /\ pc = "captured"
    /\ parsed' = ParseProof(proof)
    /\ pc' = IF ~parsed'.ok THEN "failed"
             ELSE IF IsAllowed(mask, parsed'.verify.scheme) THEN "written" ELSE "disallowed"
    /\ UNCHANGED <<mask, session, inbound, taken, proof>>

Edit ==
    /\ pc = "written"
    /\ proof' \in Edits(proof) /\ proof' \in ByteStrings
    /\ parsed' = NotParsed
    /\ pc' = "file"
    /\ UNCHANGED <<mask, session, inbound, taken>>

\* verify.py:352 and cli.py: the parser reads the file.
ReadFile ==
    /\ pc = "file"
    /\ parsed' = ParseProof(proof)
    /\ pc' = "read"
    /\ UNCHANGED <<mask, session, inbound, taken, proof>>

Over == pc \in {"failed", "disallowed", "written", "read"} /\ UNCHANGED vars

Next ==
    \/ ServerAnswers
    \/ TakeHello
    \/ TakeFlight
    \/ CheckCapture
    \/ Edit
    \/ ReadFile
    \/ Over

Spec == Init /\ [][Next]_vars

-----------------------------------------------------------------------------
(* Properties *)

OwnClient == ParseClientHello(ClientHelloBody(session, mask))

\* Two parsers read each ServerHello, tls13.py:290-332 during the handshake and
\* protocol.py:249-286 in the proof.  They accept the same messages and read
\* the same choice from them, so no connection is spent on a proof that is
\* refused for its ServerHello, and none is lost that would have been accepted.
HellosAgree ==
    LET IsSame(hello, read) ==
            /\ taken.verdict = "taken" <=> IsAllRead(hello, inbound) /\ read.ok
            /\ taken.verdict = "taken" =>
                   taken.cipher = read.cipher /\ taken.key = read.key
        hello == ReadHandshake(inbound, 0, SERVER_HELLO)
    IN  pc = "flight" \/ (pc = "failed" /\ proof = <<>> /\ taken.verdict # "taken") =>
            IsSame(hello, ParseServerHello(hello.value, OwnClient))

\* No message makes parse_server_hello index beyond its end (tls13.py:301,312):
\* an IndexError is none of the exceptions the search survives
\* (generator.py:247), so one server could end the whole search.
ParserStaysInside == taken.verdict # "escapes"

FlightIsFaulty(flight) ==
    \/ ~ParseEncryptedExtensions(flight.extensions).ok
    \/ ~ParseCertificateVerify(flight.verify, [schemes |-> Schemes(mask)]).ok
    \/ Len(flight.extensions) + 4 > MaxSize[ENCRYPTED_EXTENSIONS]
    \/ Len(flight.verify) + 4 > MaxSize[CERTIFICATE_VERIFY]
    \/ Len(proof) > MaxProof

\* A whole capture that parse_proof refuses (473) is refused for what the
\* server sent under encryption: the ClientHello this client built is read
\* back as it was meant, and the ServerHello was checked when it came.
OnlyFlightIsRefused ==
    pc = "failed" /\ proof # <<>> =>
        \E flight \in Flights :
            /\ FlightIsFaulty(flight)
            /\ proof = EncodedProof(<<ClientHelloBody(session, mask), From(inbound, 4),
                            flight.extensions, flight.certificate, flight.verify>>)

\* The mask of the output goes to the server as a list of offers and comes back
\* as the parser's list of what was offered: the last check of a capture
\* (tls13.py:474) and that of the verifier (verify.py:353) find nothing left to
\* refuse, and no connection is spent on a scheme the output does not take.
CapturedIsAllowed == pc # "disallowed"

\* What was read, written again.
Certificates(chain) ==
    FlattenSeq([i \in DOMAIN chain |->
        Vector(3, chain[i].data) \o Vector(2, chain[i].extensions)])
Rewritten(entries, values) ==
    [i \in DOMAIN entries |->
        IF entries[i].type \in DOMAIN values
            THEN [entries[i] EXCEPT !.data = values[entries[i].type]] ELSE entries[i]]
ClientValues(client) ==
    [type \in {SERVER_NAME, SUPPORTED_VERSIONS, SIGNATURE_ALGORITHMS, KEY_SHARE} |->
        CASE type = SERVER_NAME -> ServerName
          [] type = SUPPORTED_VERSIONS -> Vector(1, Shorts(client.versions))
          [] type = SIGNATURE_ALGORITHMS -> Vector(2, Shorts(client.schemes))
          [] type = KEY_SHARE -> Vector(2, Extensions(client.shares))]
ServerValues(server) ==
    [type \in {SUPPORTED_VERSIONS, KEY_SHARE} |->
        CASE type = SUPPORTED_VERSIONS -> TLS_1_3
          [] type = KEY_SHARE -> Extension(server.group, server.key)]
ClientBytes(client) ==
    TLS_1_2 \o Challenge \o Vector(1, client.session) \o Vector(2, Shorts(client.ciphers))
    \o <<1, 0>> \o Vector(2, Extensions(Rewritten(client.entries, ClientValues(client))))
ServerBytes(server, id) ==
    TLS_1_2 \o server.random \o Vector(1, id) \o Digits(2, server.cipher) \o <<0>>
    \o Vector(2, Extensions(Rewritten(server.entries, ServerValues(server))))
Reencoded(p) ==
    EncodedProof(<<ClientBytes(p.client), ServerBytes(p.server, p.client.session),
                   Vector(2, Extensions(p.extensions.entries)),
                   <<0>> \o Vector(3, Certificates(p.certificate.chain)),
                   Digits(2, p.verify.scheme) \o Vector(2, p.verify.signature)>>)

\* Whoever made or changed a file: if the parser accepts it, every byte is
\* accounted for by what was read from it.  Written again with the lengths
\* counted anew, it is the same file: nothing is skipped, cut short, read
\* twice or left over, on any of the levels of length prefixes.
ParsedIsWhole == parsed.ok => proof = Reencoded(parsed)
=============================================================================
