------------------------------- MODULE MCWire --------------------------------
(***************************************************************************)
(* An instance of Wire for TLC: keys of two bytes (a P-256 point of three) *)
(* and, for the server and for whoever edits a file, every message of a    *)
(* small set and every single edit of a byte in one of them, on each level *)
(* of lengths: with the lengths around the edit set right or left alone.   *)
(***************************************************************************)
EXTENDS Wire

MCDomain == <<97>>
MCChallenge == <<7, 7>>
MCRetryRandom == <<207, 33>>
MCSessions == {<<5>>, <<5, 6>>}
MCMasks == {1, 3, 4, 6, 7}
MCMaxSize == (CLIENT_HELLO :> 82) @@ (SERVER_HELLO :> 64) @@ (ENCRYPTED_EXTENSIONS :> 16)
             @@ (CERTIFICATE :> 32) @@ (CERTIFICATE_VERIFY :> 12)

\* One byte more, less or different, or an end that is missing.
ByteEdits(data) ==
    {Slice(data, 0, n) : n \in 0..(Len(data) - 1)}
    \cup {RemoveAt(data, i) : i \in DOMAIN data}
    \cup {InsertAt(data, i, 0) : i \in 1..(Len(data) + 1)}
    \cup {ReplaceAt(data, i, b) : i \in DOMAIN data, b \in {0, 255}}
    \cup {ReplaceAt(data, i, (data[i] + d) % Base) : i \in DOMAIN data, d \in {1, 255}}

\* The lists of extensions with one changed, dropped, repeated or added.
ListEdits(entries, added) ==
    {RemoveAt(entries, i) : i \in DOMAIN entries}
    \cup {Append(entries, e) : e \in ToSet(entries) \cup added}
    \cup {Reverse(entries)}
    \cup UNION {{[entries EXCEPT ![i].data = d] : d \in ByteEdits(entries[i].data)} :
                    i \in DOMAIN entries}

----------------------------------------------------------------------------
(* ServerHello *)

Key == <<1, 2>>
Point == <<4, 1, 2>>
Shares == {Extension(GROUP_X25519, Key), Extension(GROUP_X25519, Point),
           Extension(GROUP_SECP256R1, Point), Extension(GROUP_X25519, <<>>)}
Entry(type, data) == [type |-> type, data |-> data]
ServerEntries(share) ==
    <<Entry(SUPPORTED_VERSIONS, TLS_1_3), Entry(KEY_SHARE, share)>>
ServerHead(version, random, id, cipher, compression) ==
    version \o random \o Vector(1, id) \o Digits(2, cipher) \o <<compression>>
Hello(head, entries) == head \o Vector(2, Extensions(entries))

Heads(id) ==
    {ServerHead(TLS_1_2, <<1, 1>>, id, c, 0) : c \in {AES_128_GCM, CHACHA20, 4866}}
    \cup {ServerHead(TLS_1_2, RetryRandom, id, AES_128_GCM, 0)}
    \cup {ServerHead(TLS_1_2, <<1, 1>>, other, AES_128_GCM, 0) : other \in {<<>>, <<5, 6, 6>>}}
GoodHead(id) == ServerHead(TLS_1_2, <<1, 1>>, id, AES_128_GCM, 0)
GoodEntries == ServerEntries(Extension(GROUP_X25519, Key))
GoodHello(id) == Hello(GoodHead(id), GoodEntries)

MCServerHellos(id) ==
    {Handshake(SERVER_HELLO, body) :
        body \in {Hello(h, ServerEntries(s)) : h \in Heads(id), s \in Shares}
             \cup {Hello(h, GoodEntries) : h \in ByteEdits(GoodHead(id))}
             \cup {Hello(GoodHead(id), e) :
                       e \in ListEdits(GoodEntries, {Entry(EARLY_DATA, <<>>)})}
             \cup ByteEdits(GoodHello(id))}
    \cup ByteEdits(Handshake(SERVER_HELLO, GoodHello(id)))
    \cup {Handshake(CLIENT_HELLO, GoodHello(id))}

----------------------------------------------------------------------------
(* The rest of the flight *)

Certificate(chain) ==
    <<0>> \o Vector(3, Certificates([i \in DOMAIN chain |->
                          [data |-> chain[i], extensions |-> <<>>]]))
Signed(scheme, signature) == Digits(2, scheme) \o Vector(2, signature)
Flight(extensions, certificate, verify) ==
    [extensions |-> Vector(2, extensions), certificate |-> certificate, verify |-> verify]
GoodFlight(scheme) == Flight(<<>>, Certificate(<<<<1, 1>>, <<2>>>>), Signed(scheme, <<3>>))

MCFlights ==
    {GoodFlight(scheme) : scheme \in ToSet(Schemes(7)) \cup {1025}}
    \cup {Flight(Extension(type, <<>>), Certificate(<<<<1>>>>), Signed(1027, <<3>>)) :
              type \in {SERVER_NAME, EARLY_DATA}}
    \cup {[GoodFlight(1027) EXCEPT !.certificate = Certificate(chain)] :
              chain \in {<<>>, <<<<>>>>, <<<<1, 1, 1>>>>, <<<<1>>, <<1>>, <<1>>, <<1>>>>,
                         <<<<1, 1>>, <<1, 1>>, <<1, 1>>>>}}
    \cup {[GoodFlight(1027) EXCEPT !.verify = Signed(1027, s)] :
              s \in {<<>>, <<3, 3, 3, 3, 3>>}}
    \cup {[GoodFlight(1027) EXCEPT !.extensions = Vector(2, Extension(0, [i \in 1..9 |-> 0]))]}

----------------------------------------------------------------------------
(* Files: the proof of one search, edited *)

Client == ClientHelloBody(<<5>>, 7)
ClientHead == Slice(Client, 0, Len(Client) - Len(Extensions(HelloExtensions(7))) - 2)
ClientEdits ==
    {ClientHead \o Vector(2, Extensions(e)) :
        e \in ListEdits(HelloExtensions(7),
                        {Entry(type, <<1>>) : type \in Forbidden \cup {21}})}
    \cup {ClientHead \o Vector(2, Extensions(ReplaceAt(HelloExtensions(7), 6,
              Entry(KEY_SHARE, Vector(2, shares))))) :
              shares \in {Extension(GROUP_SECP256R1, Point) \o s : s \in Shares}}
    \cup ByteEdits(Client)
GoodBodies == <<Client, GoodHello(<<5>>), GoodFlight(1027).extensions,
                GoodFlight(1027).certificate, GoodFlight(1027).verify>>

MCEdits(file) ==
    IF file # EncodedProof(GoodBodies) THEN {file}
    ELSE {EncodedProof(ReplaceAt(GoodBodies, 1, body)) : body \in ClientEdits}
         \cup UNION {{EncodedProof(ReplaceAt(GoodBodies, i, body)) :
                          body \in ByteEdits(GoodBodies[i])} : i \in 2..5}
         \cup ByteEdits(file)
=============================================================================
