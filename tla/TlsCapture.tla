----------------------------- MODULE TlsCapture ------------------------------
(***************************************************************************)
(* capture_tls13_proof (tls13.py:365-476): one capture of a server's       *)
(* handshake, from the connection to the five messages of the proof.  The  *)
(* server cuts its flight into records as it likes, several messages in    *)
(* one record or one message over many, with change_cipher_spec records in *)
(* between; it may break the rules, raise an alert or close, and the       *)
(* stream may lose or repeat records.  One deadline covers all of it.      *)
(*                                                                         *)
(* A handshake message is a sequence of units <<i, k>>, the k-th part of   *)
(* the i-th message of the server (0 is ServerHello).  The first part      *)
(* carries the type and the length (lines 262, 451).  Keys and ciphers are *)
(* abstracted to the record number they authenticate (335-357).  A record  *)
(* is read in one step and carries at least one unit, so a peer that sends *)
(* byte by byte, an empty sealed record and a cut inside the four bytes of *)
(* a message header have no steps of their own.                            *)
(***************************************************************************)
EXTENDS Naturals, Sequences, SequencesExt

CONSTANTS
    Flights,        \* what servers send after ServerHello: sequences of types
    UnitsOf,        \* parts of a message of each type
    MaxFragment,    \* units in one record (MAX_TLS_CIPHERTEXT, line 254)
    MaxBuffer,      \* MAX_CAPTURED_HANDSHAKE, lines 263 and 444
    Timeout,        \* the connection timeout of the attempt
    Faults          \* what the peer or the stream may do wrong

Expected == <<"EncryptedExtensions", "Certificate", "CertificateVerify">>

ASSUME FlightsAssumption == \A flight \in Flights : flight \in Seq(STRING) /\ flight # <<>>
ASSUME SizesAssumption ==
    /\ UnitsOf["ServerHello"] \in Nat \ {0}
    /\ \A flight \in Flights : \A i \in DOMAIN flight : UnitsOf[flight[i]] \in Nat \ {0}
    /\ MaxFragment \in Nat \ {0}
    /\ MaxBuffer \in Nat
    /\ Timeout \in Nat
ASSUME FaultsAssumption == Faults \subseteq {"alert", "junk", "damage", "close"}

\* A peer behind an honest stream, or one of which everything may be expected.
Servers == [flight : Flights, hello_ok : BOOLEAN, hello_extra : BOOLEAN,
            cert_ok : BOOLEAN, verify_ok : BOOLEAN, faults : {{}, Faults}]

Points == {"connect", "send", "plain", "sealed", "popping", "checking", "done", "failed"}
Reasons == {"none", "timeout", "closed", "alert", "unexpected", "profile",
            "authentication", "too_large", "order", "certificate", "scheme"}

VARIABLES
    server,         \* the peer: its flight, and which checks it will pass
    hello_sent,     \* units of ServerHello it has sent
    sent,           \* units of its encrypted stream it has sent
    server_sequence,\* encrypted records it has sent
    last_record,    \* the last encrypted one, for a repetition
    pc,
    reading,        \* the record whose header was read (247-256)
    handshake,      \* plaintext_handshake, then encrypted_handshake
    captured,
    sequence,
    remaining,      \* time left until the deadline
    reason          \* why the capture failed

peer == <<server, hello_sent, sent, server_sequence, last_record>>
vars == <<server, hello_sent, sent, server_sequence, last_record, pc, reading,
          handshake, captured, sequence, remaining, reason>>

-----------------------------------------------------------------------------
(* Messages, streams and records.  Mutants are defined just before the      *)
(* definition they replace.                                                 *)

TypeOf(i) == IF i = 0 THEN "ServerHello" ELSE server.flight[i]
Message(i) == [k \in 1..UnitsOf[TypeOf(i)] |-> <<i, k>>]
Hello == IF server.hello_extra THEN Message(0) \o <<Head(Message(1))>> ELSE Message(0)
Stream == FlattenSeq([i \in 1..Len(server.flight) |-> Message(i)])

Plain(kind, units) == [kind |-> kind, number |-> 0, inner |-> "none", units |-> units]
NoRecord == Plain("none", <<>>)
Sealed(number, inner, units) ==
    [kind |-> "sealed", number |-> number, inner |-> inner, units |-> units]

\* _pop_handshake, 259-269: a message is complete when as many units as its
\* first one announces are there; an announcement beyond the limit is refused.
SizeOf(buffer) == IF Head(buffer)[2] = 1 THEN UnitsOf[TypeOf(Head(buffer)[1])] ELSE 1
IsTooLong(buffer) == buffer # <<>> /\ SizeOf(buffer) > MaxBuffer
IsComplete(buffer) ==
    buffer # <<>> /\ ~IsTooLong(buffer) /\ Len(buffer) >= SizeOf(buffer)
First(buffer) == SubSeq(buffer, 1, SizeOf(buffer))
Rest(buffer) == SubSeq(buffer, SizeOf(buffer) + 1, Len(buffer))

Conforming ==
    /\ IsPrefix(Expected, server.flight)
    /\ server.hello_ok /\ ~server.hello_extra /\ server.cert_ok /\ server.verify_ok
    /\ UnitsOf["ServerHello"] <= MaxBuffer
    /\ \A i \in 1..Len(server.flight) : UnitsOf[server.flight[i]] + MaxFragment <= MaxBuffer

TypeOK ==
    /\ server \in Servers
    /\ hello_sent \in 0..(UnitsOf["ServerHello"] + 1)
    /\ sent \in 0..Len(Stream)
    /\ pc \in Points
    /\ sequence <= server_sequence
    /\ pc # "failed" => Len(handshake) <= MaxBuffer
    /\ Len(captured) <= Len(Expected)
    /\ remaining \in 0..Timeout
    /\ reason \in Reasons
    /\ reason = "none" <=> pc # "failed"

Init ==
    /\ server \in Servers
    /\ hello_sent = 0
    /\ sent = 0
    /\ server_sequence = 0
    /\ last_record = NoRecord
    /\ pc = "connect"
    /\ reading = NoRecord
    /\ handshake = <<>>
    /\ captured = <<>>
    /\ sequence = 0
    /\ remaining = Timeout
    /\ reason = "none"

-----------------------------------------------------------------------------
(* The wire.  Every read is preceded by the check of the deadline (239). *)

Fail(why) == pc' = "failed" /\ reason' = why

Over == pc \in {"done", "failed"}
IsExpiredNever == FALSE
IsExpired == remaining = 0
HasTime == ~IsExpired
AwaitsRecord == pc \in {"plain", "sealed"} /\ reading = NoRecord /\ HasTime

\* Lines 391-394.
Connect ==
    /\ pc = "connect" /\ HasTime
    /\ pc' = "send"
    /\ UNCHANGED <<peer, reading, handshake, captured, sequence, remaining, reason>>

SendHello ==
    /\ pc = "send" /\ HasTime
    /\ pc' = "plain"
    /\ UNCHANGED <<peer, reading, handshake, captured, sequence, remaining, reason>>

\* The next n units of ServerHello, in the clear.
DeliverHello(n) ==
    /\ AwaitsRecord
    /\ hello_sent + n <= Len(Hello)
    /\ hello_sent' = hello_sent + n
    /\ reading' = Plain("handshake", SubSeq(Hello, hello_sent + 1, hello_sent + n))
    /\ UNCHANGED <<server, sent, server_sequence, last_record, pc, handshake,
                   captured, sequence, remaining, reason>>

\* The server seals the next n units of its flight; the record may get lost.
Seal(n) ==
    /\ hello_sent = Len(Hello)
    /\ sent + n <= Len(Stream)
    /\ sent' = sent + n
    /\ server_sequence' = server_sequence + 1
    /\ last_record' = Sealed(server_sequence, "handshake",
                             SubSeq(Stream, sent + 1, sent + n))
    /\ UNCHANGED <<server, hello_sent, pc, handshake, captured, sequence,
                   remaining, reason>>
DeliverSealed(n) == AwaitsRecord /\ Seal(n) /\ reading' = last_record'
LoseSealed(n) == AwaitsRecord /\ "damage" \in server.faults /\ Seal(n) /\ reading' = reading

\* Records that carry nothing of the flight: change_cipher_spec, and, of a
\* faulty peer or stream, an alert, something unexpected or a repetition.
Strays ==
    {Plain("ccs", <<>>)}
    \cup (IF "alert" \in server.faults THEN {Plain("alert", <<>>)} ELSE {})
    \cup (IF "junk" \in server.faults THEN {Plain("junk", <<>>)} ELSE {})
    \cup (IF "damage" \in server.faults /\ last_record # NoRecord THEN {last_record} ELSE {})
DeliverStray ==
    /\ AwaitsRecord
    /\ reading' \in Strays
    /\ UNCHANGED <<peer, pc, handshake, captured, sequence, remaining, reason>>

\* An alert, or something else, under the server's keys.
DeliverSealedStray ==
    /\ AwaitsRecord
    /\ hello_sent = Len(Hello)
    /\ \E inner \in server.faults \cap {"alert", "junk"} :
           reading' = Sealed(server_sequence, inner, <<>>)
    /\ server_sequence' = server_sequence + 1
    /\ UNCHANGED <<server, hello_sent, sent, last_record, pc, handshake, captured,
                   sequence, remaining, reason>>

\* Line 241.
PeerCloses ==
    /\ "close" \in server.faults
    /\ pc \in {"connect", "send", "plain", "sealed"} /\ HasTime
    /\ Fail("closed")
    /\ UNCHANGED <<peer, reading, handshake, captured, sequence, remaining>>

\* Lines 229-233, and the timeout of a blocked call.
Expire ==
    /\ pc \in {"connect", "send", "plain", "sealed"}
    /\ IsExpired
    /\ Fail("timeout")
    /\ UNCHANGED <<peer, reading, handshake, captured, sequence, remaining>>

Tick ==
    /\ ~Over
    /\ remaining > 0
    /\ remaining' = remaining - 1
    /\ UNCHANGED <<peer, pc, reading, handshake, captured, sequence, reason>>

-----------------------------------------------------------------------------
(* The client, with a whole record read *)

Reads(kind) == reading.kind = kind /\ HasTime

\* Lines 400-401 and 427-428: the record sequence does not see it.
CcsCountsAsRecord ==
    /\ Reads("ccs")
    /\ pc \in {"plain", "sealed"}
    /\ reading' = NoRecord
    /\ sequence' = sequence + 1
    /\ UNCHANGED <<peer, pc, handshake, captured, remaining, reason>>
SkipCcs ==
    /\ Reads("ccs")
    /\ pc \in {"plain", "sealed"}
    /\ reading' = NoRecord
    /\ UNCHANGED <<peer, pc, handshake, captured, sequence, remaining, reason>>

\* Lines 402-405 and 429-434.
RefuseRecord ==
    /\ \/ pc \in {"plain", "sealed"} /\ Reads("alert") /\ Fail("alert")
       \/ pc \in {"plain", "sealed"} /\ Reads("junk") /\ Fail("unexpected")
       \/ pc = "plain" /\ Reads("sealed") /\ Fail("unexpected")
       \/ pc = "sealed" /\ Reads("handshake") /\ Fail("unexpected")
    /\ reading' = NoRecord
    /\ UNCHANGED <<peer, handshake, captured, sequence, remaining>>

\* Lines 406-420: a complete ServerHello must stand alone and fit the profile.
TakeHello ==
    /\ pc = "plain" /\ Reads("handshake")
    /\ LET buffer == handshake \o reading.units IN
       \/ /\ IsTooLong(buffer)
          /\ handshake' = buffer
          /\ Fail("too_large")
       \/ /\ ~IsTooLong(buffer) /\ ~IsComplete(buffer)
          /\ handshake' = buffer
          /\ UNCHANGED <<pc, reason>>
       \/ /\ IsComplete(buffer)
          /\ handshake' = <<>>
          /\ \/ Rest(buffer) # <<>> /\ Fail("unexpected")
             \/ Rest(buffer) = <<>> /\ ~server.hello_ok /\ Fail("profile")
             \/ /\ Rest(buffer) = <<>> /\ server.hello_ok
                /\ pc' = "sealed"
                /\ UNCHANGED reason
    /\ reading' = NoRecord
    /\ UNCHANGED <<peer, captured, sequence, remaining>>

\* Lines 435-438: a record opens only under the number it was sealed with.
AuthenticatesAny == TRUE
Authenticates == reading.number = sequence

OpenFails ==
    /\ pc = "sealed" /\ Reads("sealed")
    /\ ~Authenticates
    /\ Fail("authentication")
    /\ UNCHANGED <<peer, reading, handshake, captured, sequence, remaining>>

OverflowsNever(buffer) == FALSE
Overflows(buffer) == Len(buffer) > MaxBuffer

\* Lines 438-445.
OpenRecord ==
    /\ pc = "sealed" /\ Reads("sealed")
    /\ Authenticates
    /\ sequence' = sequence + 1
    /\ reading' = NoRecord
    /\ \/ /\ reading.inner # "handshake"
          /\ Fail(IF reading.inner = "alert" THEN "alert" ELSE "unexpected")
          /\ UNCHANGED handshake
       \/ /\ reading.inner = "handshake"
          /\ handshake' = handshake \o reading.units
          /\ IF Overflows(handshake') THEN Fail("too_large")
             ELSE pc' = "popping" /\ UNCHANGED reason
    /\ UNCHANGED <<peer, captured, remaining>>

\* One turn of the loop of lines 446-460: a message that is there is taken
\* before anything more is read, and a certificate is judged at once.
HasAll == Len(captured) = Len(Expected)
PopsOneOnly == captured # <<>> \/ ~(IsComplete(handshake) \/ IsTooLong(handshake))
IsDrained == HasAll \/ ~(IsComplete(handshake) \/ IsTooLong(handshake))

RightType == TypeOf(Head(handshake)[1]) = Expected[Len(captured) + 1]
CertificateIsRefused ==
    /\ Expected[Len(captured) + 1] = "Certificate"
    /\ ~server.cert_ok

PopMessage ==
    /\ pc = "popping"
    /\ ~IsDrained
    /\ IsComplete(handshake)
    /\ RightType /\ ~CertificateIsRefused
    /\ captured' = Append(captured, First(handshake))
    /\ handshake' = Rest(handshake)
    /\ UNCHANGED <<peer, pc, reading, sequence, remaining, reason>>

PopRefused ==
    /\ pc = "popping"
    /\ ~IsDrained
    /\ \/ IsTooLong(handshake) /\ Fail("too_large")
       \/ IsComplete(handshake) /\ ~RightType /\ Fail("order")
       \/ IsComplete(handshake) /\ RightType /\ CertificateIsRefused /\ Fail("certificate")
    /\ UNCHANGED <<peer, reading, handshake, captured, sequence, remaining>>

PopEnd ==
    /\ pc = "popping"
    /\ IsDrained
    /\ pc' = IF HasAll THEN "checking" ELSE "sealed"
    /\ UNCHANGED <<peer, reading, handshake, captured, sequence, remaining, reason>>

\* Lines 462-476: the parser reads the whole proof and the scheme is checked.
Check ==
    /\ pc = "checking"
    /\ \/ server.verify_ok /\ pc' = "done" /\ UNCHANGED reason
       \/ ~server.verify_ok /\ Fail("scheme")
    /\ UNCHANGED <<peer, reading, handshake, captured, sequence, remaining>>

Stop == Over /\ UNCHANGED vars

-----------------------------------------------------------------------------
Wire ==
    \/ \E n \in 1..MaxFragment : DeliverHello(n) \/ DeliverSealed(n) \/ LoseSealed(n)
    \/ DeliverStray
    \/ DeliverSealedStray
    \/ PeerCloses

Client ==
    \/ Connect
    \/ SendHello
    \/ SkipCcs
    \/ RefuseRecord
    \/ TakeHello
    \/ OpenFails
    \/ OpenRecord
    \/ PopMessage
    \/ PopRefused
    \/ PopEnd
    \/ Check
    \/ Expire

Next == Wire \/ Client \/ Tick \/ Stop

Spec == Init /\ [][Next]_vars

\* The client runs and time passes; the peer owes nothing.
FairSpec == Spec /\ WF_vars(Client) /\ WF_vars(Tick)

-----------------------------------------------------------------------------
(* Properties *)

\* Whatever the stream does, the captured messages are the first messages of
\* the server's flight, whole and in order; a capture that ends well has all
\* three of them from a server that passed every check (396-476).
CaptureIsSound ==
    /\ \A i \in 1..Len(captured) :
           captured[i] = Message(i) /\ server.flight[i] = Expected[i]
    /\ pc = "done" =>
           /\ Len(captured) = Len(Expected)
           /\ server.hello_ok /\ server.cert_ok /\ server.verify_ok

\* However a conforming server cuts its flight into records, and whatever it
\* coalesces or interleaves, only the deadline or a fault of the peer or the
\* stream makes the capture fail.
ConformingIsCaptured ==
    Conforming /\ server.faults = {} /\ pc = "failed" => reason = "timeout"

\* The client never waits for the network with a message it has not looked at,
\* or with the announcement of one that is too long, be it ServerHello or a later
\* one: it judges or refuses what it has first, so a refused certificate ends the
\* capture without waiting for CertificateVerify (406-413, 446-460).
LooksBeforeReading ==
    [][reading = NoRecord /\ reading' # NoRecord =>
          /\ ~IsComplete(handshake) /\ ~IsTooLong(handshake)
          /\ Len(captured) >= 2 => server.cert_ok]_vars

\* The deadline ends every capture, of a peer that sends change_cipher_spec
\* records for ever, stops within a message or falls silent: the time for each
\* read is cut to what is left (236-244).
CaptureEnds == <>Over
=============================================================================
