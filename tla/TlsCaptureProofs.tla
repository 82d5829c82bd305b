-------------------------- MODULE TlsCaptureProofs ---------------------------
(***************************************************************************)
(* Proofs about the capture of a server's handshake, for every server,     *)
(* every way of cutting its flight into records and every loss, repetition *)
(* and fault of the stream.  The argument follows the stream of units: the *)
(* record sequence only opens the records that were sealed next, so what   *)
(* the client has buffered is always the piece of the server's stream that *)
(* follows the messages it has captured.                                   *)
(***************************************************************************)
EXTENDS TlsCapture, DataLemmas

-----------------------------------------------------------------------------
(* The inductive invariant *)

Unit == Nat \X Nat
Kinds == {"none", "ccs", "alert", "junk", "handshake", "sealed"}
Inners == {"none", "handshake", "alert", "junk"}
Records == [kind : Kinds, number : Nat, inner : Inners, units : Seq(Unit)]

\* The units of the server's first k messages, and their number.
Messages == [i \in 1..Len(server.flight) |-> Message(i)]
StreamUpTo(k) == FlatPrefix(Messages, k)
Consumed(k) == Len(StreamUpTo(k))

Types ==
    /\ server \in Servers
    /\ hello_sent \in 0..Len(Hello)
    /\ sent \in 0..Len(Stream)
    /\ server_sequence \in Nat
    /\ last_record \in Records
    /\ pc \in Points
    /\ reading \in Records
    /\ handshake \in Seq(Unit)
    /\ captured \in Seq(Seq(Unit))
    /\ sequence \in Nat
    /\ remaining \in 0..Timeout
    /\ reason \in Reasons
    /\ reason = "none" <=> pc # "failed"

\* A record under the server's keys that carries nothing of its flight: it ends
\* the capture, opened or not.
StrayRead == reading.kind = "sealed" /\ reading.inner # "handshake"

\* What the stream can repeat is the record sealed last, the newest piece of
\* the flight; a record of the flight that was read is that one.
RecordsInOrder ==
    /\ reading.kind = "sealed" /\ reading.inner = "handshake" => reading = last_record
    /\ reading.kind = "sealed" => reading.number < server_sequence
    /\ reading.kind = "none" => reading = NoRecord
    /\ ~Over /\ ~StrayRead =>
          \/ last_record = NoRecord /\ server_sequence = 0 /\ sent = 0
          \/ /\ last_record.kind = "sealed"
             /\ last_record.inner = "handshake"
             /\ last_record.number + 1 = server_sequence
             /\ Len(last_record.units) <= sent
             /\ \A j \in 1..Len(last_record.units) :
                    last_record.units[j] = Stream[sent - Len(last_record.units) + j]

\* The client's buffer of encrypted messages; before its first use it is empty.
Buffer == IF pc \in {"sealed", "popping", "checking"} THEN handshake ELSE <<>>

\* The buffer reaches from the end of the captured messages to unit p.
Reaches(p) ==
    /\ Len(Buffer) = p - Consumed(Len(captured))
    /\ \A j \in 1..Len(Buffer) : Buffer[j] = Stream[Consumed(Len(captured)) + j]

\* With all records opened the buffer reaches to the end of what was sent, with
\* one outstanding to where that one begins; with more it never grows again.
BufferFollowsStream ==
    /\ sequence <= server_sequence
    /\ ~Over /\ sequence = server_sequence => Reaches(sent)
    /\ ~Over /\ ~StrayRead /\ sequence + 1 = server_sequence =>
          Reaches(sent - Len(last_record.units))
    /\ pc \in {"popping", "checking"} => reading = NoRecord /\ sequence = server_sequence
    /\ pc \in {"connect", "send", "plain"} => captured = <<>> /\ sequence = 0

\* The captured messages are the server's first ones and have passed the
\* checks made on the way; more is read only with no message left to look at.
CapturedInOrder ==
    /\ Len(captured) <= Len(Expected) /\ Len(captured) <= Len(server.flight)
    /\ \A i \in 1..Len(captured) :
           captured[i] = Message(i) /\ server.flight[i] = Expected[i]
    /\ Len(captured) >= 2 => server.cert_ok
    /\ pc \in {"sealed", "popping", "checking", "done"} => server.hello_ok
    /\ pc = "sealed" => Len(captured) < Len(Expected)
                        /\ ~IsComplete(handshake) /\ ~IsTooLong(handshake)
    /\ pc \in {"checking", "done"} => Len(captured) = Len(Expected)
    /\ pc = "done" => server.verify_ok

SoundInv == Types /\ RecordsInOrder /\ BufferFollowsStream /\ CapturedInOrder

\* The plaintext buffer holds what was delivered of ServerHello.
HelloReaches(p) ==
    /\ Len(handshake) = p
    /\ \A j \in 1..p : handshake[j] = Hello[j]
HelloInOrder ==
    /\ pc \in {"connect", "send"} => hello_sent = 0 /\ handshake = <<>> /\ reading = NoRecord
    /\ pc = "plain" =>
          /\ ~IsComplete(handshake) /\ ~IsTooLong(handshake)
          /\ reading.kind # "handshake" => HelloReaches(hello_sent)
          /\ reading.kind = "handshake" =>
                /\ Len(reading.units) <= hello_sent
                /\ HelloReaches(hello_sent - Len(reading.units))
                /\ \A j \in 1..Len(reading.units) :
                       reading.units[j] = Hello[hello_sent - Len(reading.units) + j]

\* What is buffered stays within the limit.
RoomLeft == pc # "failed" => Len(handshake) <= MaxBuffer

\* Nothing a conforming server behind an honest stream sends gets out of step.
Honest == Conforming /\ server.faults = {}
HonestInStep ==
    Honest =>
        /\ pc = "failed" => reason = "timeout"
        /\ reading.kind \in {"none", "ccs", "handshake", "sealed"} /\ ~StrayRead
        /\ Len(last_record.units) <= MaxFragment
        /\ pc \in {"connect", "send", "plain"} =>
              server_sequence = 0 /\ reading.kind # "sealed"
        /\ pc \in {"sealed", "popping"} => hello_sent = Len(Hello)
        /\ pc = "sealed" =>
              /\ reading.kind # "handshake"
              /\ reading.kind # "sealed" => sequence = server_sequence
              /\ reading.kind = "sealed" => sequence + 1 = server_sequence

CaptureInv == SoundInv /\ HelloInOrder /\ RoomLeft /\ HonestInStep

-----------------------------------------------------------------------------
(* The server's stream *)

\* The flight of a server is a sequence of at least one type.
LEMMA FlightShape ==
  ASSUME server \in Servers
  PROVE  /\ server.flight \in Flights
         /\ server.flight \in Seq(STRING)
         /\ Len(server.flight) \in Nat \ {0}
         /\ DOMAIN server.flight = 1..Len(server.flight)
<1>1. server.flight \in Flights
  BY DEF Servers
<1>2. server.flight \in Seq(STRING) /\ server.flight # <<>>
  BY <1>1, FlightsAssumption
<1> QED BY <1>1, <1>2

\* A message has at least one unit, numbered from 1.
LEMMA MessageShape ==
  ASSUME server \in Servers, NEW i \in 0..Len(server.flight)
  PROVE  /\ UnitsOf[TypeOf(i)] \in Nat \ {0}
         /\ Message(i) \in Seq(Unit)
         /\ Len(Message(i)) = UnitsOf[TypeOf(i)]
         /\ \A k \in 1..UnitsOf[TypeOf(i)] : Message(i)[k] = <<i, k>>
<1>1. UnitsOf[TypeOf(i)] \in Nat \ {0}
  BY FlightShape, SizesAssumption DEF TypeOf
<1>2. Message(i) \in [1..UnitsOf[TypeOf(i)] -> Unit]
  BY <1>1, FlightShape DEF Message, Unit
<1>3. Message(i) \in Seq(Unit) /\ Len(Message(i)) = UnitsOf[TypeOf(i)]
  BY <1>1, <1>2, FunctionIsSequence
<1> QED BY <1>1, <1>3 DEF Message

\* The plaintext part: ServerHello, and for some a unit too many.
LEMMA HelloShape ==
  ASSUME server \in Servers
  PROVE  /\ Hello \in Seq(Unit)
         /\ Len(Hello) = UnitsOf["ServerHello"] + (IF server.hello_extra THEN 1 ELSE 0)
         /\ UnitsOf["ServerHello"] \in Nat \ {0}
         /\ \A k \in 1..UnitsOf["ServerHello"] : Hello[k] = <<0, k>>
<1>1. 0 \in 0..Len(server.flight) /\ 1 \in 0..Len(server.flight)
  BY FlightShape
<1>2. /\ Message(0) \in Seq(Unit) /\ Len(Message(0)) = UnitsOf["ServerHello"]
      /\ UnitsOf["ServerHello"] \in Nat \ {0}
      /\ \A k \in 1..UnitsOf["ServerHello"] : Message(0)[k] = <<0, k>>
  BY <1>1, MessageShape DEF TypeOf
<1>3. Head(Message(1)) \in Unit
  <2>1. Message(1) \in Seq(Unit) /\ Len(Message(1)) \in Nat \ {0}
    BY <1>1, MessageShape
  <2> QED BY <2>1
<1>4. <<Head(Message(1))>> \in Seq(Unit) /\ Len(<<Head(Message(1))>>) = 1
  BY <1>3
<1> DEFINE x == <<Head(Message(1))>>
<1>5. /\ Message(0) \o x \in Seq(Unit) /\ Len(Message(0) \o x) = UnitsOf["ServerHello"] + 1
      /\ \A k \in 1..UnitsOf["ServerHello"] : (Message(0) \o x)[k] = <<0, k>>
  <2> HIDE DEF x
  <2> QED BY <1>2, <1>4 DEF x
<1> QED BY <1>2, <1>5 DEF Hello

\* Message k + 1 follows the first k messages in the stream, which ends with the
\* last one.
LEMMA StreamLayout ==
  ASSUME server \in Servers
  PROVE  /\ Stream \in Seq(Unit)
         /\ Consumed(0) = 0
         /\ Consumed(Len(server.flight)) = Len(Stream)
         /\ \A k \in 0..Len(server.flight) : Consumed(k) \in Nat /\ Consumed(k) <= Len(Stream)
         /\ \A k \in 0..(Len(server.flight) - 1) :
               /\ Consumed(k + 1) = Consumed(k) + UnitsOf[TypeOf(k + 1)]
               /\ \A j \in 1..UnitsOf[TypeOf(k + 1)] : Stream[Consumed(k) + j] = <<k + 1, j>>
<1> DEFINE N == Len(server.flight)
<1>1. N \in Nat \ {0}
  BY FlightShape
<1>2. \A i \in 1..N : /\ Messages[i] \in Seq(Unit)
                      /\ Len(Messages[i]) = UnitsOf[TypeOf(i)]
                      /\ UnitsOf[TypeOf(i)] \in Nat \ {0}
                      /\ \A j \in 1..UnitsOf[TypeOf(i)] : Messages[i][j] = <<i, j>>
  BY <1>1, MessageShape DEF Messages
<1>3. Stream = StreamUpTo(N)
  BY DEF Stream, StreamUpTo, FlatPrefix, Messages
<1>4. StreamUpTo(0) = <<>>
  BY FlatPrefixEmpty DEF StreamUpTo
<1>5. \A k \in 0..(N - 1) : StreamUpTo(k) \in Seq(Unit) /\ StreamUpTo(k + 1) = StreamUpTo(k) \o Messages[k + 1]
  <2> TAKE k \in 0..(N - 1)
  <2>1. \A i \in 1..(k + 1) : Messages[i] \in Seq(Unit)
    BY <1>1, <1>2
  <2>2. k \in Nat
    BY <1>1
  <2> QED BY <2>1, <2>2, FlatPrefixNext DEF StreamUpTo
<1>6. \A k \in 0..(N - 1) :
         /\ StreamUpTo(k + 1) \in Seq(Unit)
         /\ Len(StreamUpTo(k + 1)) = Len(StreamUpTo(k)) + UnitsOf[TypeOf(k + 1)]
         /\ \A p \in 1..Len(StreamUpTo(k)) : StreamUpTo(k + 1)[p] = StreamUpTo(k)[p]
         /\ \A j \in 1..UnitsOf[TypeOf(k + 1)] : StreamUpTo(k + 1)[Len(StreamUpTo(k)) + j] = <<k + 1, j>>
  <2> TAKE k \in 0..(N - 1)
  <2>1. k + 1 \in 1..N
    BY <1>1
  <2>2. /\ Messages[k + 1] \in Seq(Unit)
        /\ Len(Messages[k + 1]) = UnitsOf[TypeOf(k + 1)]
        /\ \A j \in 1..UnitsOf[TypeOf(k + 1)] : Messages[k + 1][j] = <<k + 1, j>>
        /\ UnitsOf[TypeOf(k + 1)] \in Nat
    BY <2>1, <1>2
  <2>3. StreamUpTo(k) \in Seq(Unit) /\ StreamUpTo(k + 1) = StreamUpTo(k) \o Messages[k + 1]
    BY <1>5
  <2>4. /\ StreamUpTo(k + 1) \in Seq(Unit)
        /\ Len(StreamUpTo(k + 1)) = Len(StreamUpTo(k)) + Len(Messages[k + 1])
        /\ \A p \in 1..Len(StreamUpTo(k)) : StreamUpTo(k + 1)[p] = StreamUpTo(k)[p]
        /\ \A j \in 1..Len(Messages[k + 1]) : StreamUpTo(k + 1)[Len(StreamUpTo(k)) + j] = Messages[k + 1][j]
    <3> DEFINE s == StreamUpTo(k)
               m == Messages[k + 1]
    <3>1. s \in Seq(Unit) /\ m \in Seq(Unit) /\ StreamUpTo(k + 1) = s \o m
      BY <2>2, <2>3
    <3> HIDE DEF s, m
    <3>2. /\ s \o m \in Seq(Unit)
          /\ Len(s \o m) = Len(s) + Len(m)
          /\ \A p \in 1..Len(s) : (s \o m)[p] = s[p]
          /\ \A j \in 1..Len(m) : (s \o m)[Len(s) + j] = m[j]
      BY <3>1, ConcatShape
    <3> QED BY <3>1, <3>2 DEF s, m
  <2> QED BY <2>2, <2>4
<1> DEFINE Keeps(k) == /\ Len(StreamUpTo(N - k)) <= Len(StreamUpTo(N))
                       /\ \A p \in 1..Len(StreamUpTo(N - k)) : StreamUpTo(N)[p] = StreamUpTo(N - k)[p]
           T == {k \in 0..N : Keeps(k)}
<1>7. \A k \in 0..N : StreamUpTo(k) \in Seq(Unit)
  <2>1. StreamUpTo(0) \in Seq(Unit)
    <3>1. <<>> \in Seq(Unit)
      OBVIOUS
    <3> QED BY <1>4, <3>1
  <2>2. \A k \in 0..N : k = 0 \/ (k - 1 \in 0..(N - 1) /\ (k - 1) + 1 = k)
    BY <1>1
  <2> QED BY <2>1, <2>2, <1>6
<1>8. 0..N \subseteq T
  <2>1. 0 \in T
    <3>1. N - 0 = N /\ 0 \in 0..N
      BY <1>1
    <3>2. Len(StreamUpTo(N)) <= Len(StreamUpTo(N))
      BY <1>1, <1>7
    <3> QED BY <3>1, <3>2, <1>7
  <2>2. ASSUME NEW k \in 0..(N - 1), k \in T PROVE k + 1 \in T
    <3> DEFINE m == N - (k + 1)
    <3>1. m \in 0..(N - 1) /\ m + 1 = N - k /\ k + 1 \in 0..N /\ N - k \in 0..N
      BY <1>1
    <3>2. /\ Len(StreamUpTo(m)) <= Len(StreamUpTo(m + 1))
          /\ \A p \in 1..Len(StreamUpTo(m)) : StreamUpTo(m + 1)[p] = StreamUpTo(m)[p]
      <4>1. UnitsOf[TypeOf(m + 1)] \in Nat /\ Len(StreamUpTo(m)) \in Nat
        BY <3>1, <1>2, <1>7
      <4>2. /\ Len(StreamUpTo(m + 1)) = Len(StreamUpTo(m)) + UnitsOf[TypeOf(m + 1)]
            /\ \A p \in 1..Len(StreamUpTo(m)) : StreamUpTo(m + 1)[p] = StreamUpTo(m)[p]
        BY <3>1, <1>6
      <4> HIDE DEF m
      <4> QED BY <4>1, <4>2
    <3>3. /\ Len(StreamUpTo(m + 1)) <= Len(StreamUpTo(N))
          /\ \A p \in 1..Len(StreamUpTo(m + 1)) : StreamUpTo(N)[p] = StreamUpTo(m + 1)[p]
      BY <2>2, <3>1
    <3>4. Len(StreamUpTo(m)) \in Nat /\ Len(StreamUpTo(m + 1)) \in Nat /\ Len(StreamUpTo(N)) \in Nat
      BY <3>1, <1>1, <1>7
    <3>5. /\ Len(StreamUpTo(m)) <= Len(StreamUpTo(N))
          /\ \A p \in 1..Len(StreamUpTo(m)) : StreamUpTo(N)[p] = StreamUpTo(m)[p]
      <4> HIDE DEF m
      <4> QED BY <3>2, <3>3, <3>4
    <3> QED BY <3>1, <3>5
  <2>3. 0 \in Int /\ N \in Int
    BY <1>1
  <2> HIDE DEF T
  <2> QED BY <2>1, <2>2, <2>3, IntervalInduction
<1>9. \A k \in 0..N : /\ Len(StreamUpTo(k)) <= Len(StreamUpTo(N))
                      /\ \A p \in 1..Len(StreamUpTo(k)) : StreamUpTo(N)[p] = StreamUpTo(k)[p]
  <2> TAKE k \in 0..N
  <2>1. N - k \in 0..N /\ N - (N - k) = k
    BY <1>1
  <2>2. Keeps(N - k)
    BY <2>1, <1>8
  <2> QED BY <2>1, <2>2
<1>10. Consumed(0) = 0
  BY <1>4 DEF Consumed
<1>11. \A k \in 0..N : Consumed(k) = Len(StreamUpTo(k)) /\ Consumed(k) \in Nat
  BY <1>7 DEF Consumed
<1>12. ASSUME NEW k \in 0..(N - 1)
       PROVE  /\ Consumed(k + 1) = Consumed(k) + UnitsOf[TypeOf(k + 1)]
              /\ \A j \in 1..UnitsOf[TypeOf(k + 1)] : Stream[Consumed(k) + j] = <<k + 1, j>>
  <2>1. k \in 0..N /\ k + 1 \in 0..N /\ k + 1 \in 1..N
    BY <1>1
  <2>2. Consumed(k + 1) = Consumed(k) + UnitsOf[TypeOf(k + 1)]
    BY <2>1, <1>6, <1>11
  <2>3. ASSUME NEW j \in 1..UnitsOf[TypeOf(k + 1)]
        PROVE  Stream[Consumed(k) + j] = <<k + 1, j>>
    <3>1. StreamUpTo(k + 1)[Consumed(k) + j] = <<k + 1, j>>
      BY <2>1, <1>6, <1>11
    <3>2. UnitsOf[TypeOf(k + 1)] \in Nat
      BY <2>1, <1>2
    <3>3. Consumed(k) + j \in 1..Len(StreamUpTo(k + 1))
      BY <2>1, <2>2, <3>2, <1>11
    <3>4. StreamUpTo(N)[Consumed(k) + j] = StreamUpTo(k + 1)[Consumed(k) + j]
      BY <2>1, <3>3, <1>9
    <3> QED BY <3>1, <3>4, <1>3
  <2> QED BY <2>2, <2>3
<1>13. N \in 0..N /\ Stream \in Seq(Unit)
  BY <1>1, <1>3, <1>7
<1> QED
  BY <1>3, <1>9, <1>10, <1>11, <1>12, <1>13

\* The stream and the messages are the server's, which never changes.
LEMMA ServerFixed ==
  ASSUME UNCHANGED server
  PROVE  /\ Stream' = Stream /\ Hello' = Hello
         /\ \A k : Consumed(k)' = Consumed(k)
         /\ \A i : Message(i)' = Message(i)
  BY DEF Stream, Hello, Consumed, StreamUpTo, Messages, Message, TypeOf

-----------------------------------------------------------------------------
(* Initial states, and what kinds of steps leave alone *)

\* The fields of a plaintext record.
LEMMA PlainShape ==
  ASSUME NEW kind \in Kinds, NEW units \in Seq(Unit)
  PROVE  /\ Plain(kind, units) \in Records
         /\ Plain(kind, units).kind = kind
         /\ Plain(kind, units).inner = "none"
         /\ Plain(kind, units).units = units
<1>1. 0 \in Nat /\ "none" \in Inners
  BY DEF Inners
<1> QED BY <1>1 DEF Records, Plain

\* No record is of no kind.
LEMMA NoRecordShape ==
  NoRecord \in Records /\ NoRecord.kind = "none" /\ NoRecord.inner = "none"
<1>1. <<>> \in Seq(Unit) /\ "none" \in Kinds
  BY DEF Kinds
<1> QED BY <1>1, PlainShape DEF NoRecord

\* Nothing was sent and nothing was read.
LEMMA CaptureInit == Init => SoundInv
<1> SUFFICES ASSUME Init PROVE SoundInv
  OBVIOUS
<1>1. server \in Servers
  BY DEF Init
<1>2. <<>> \in Seq(Unit) /\ <<>> \in Seq(Seq(Unit)) /\ Len(<<>>) = 0
  OBVIOUS
<1>3. NoRecord \in Records
  BY NoRecordShape
<1>4. 0 \in 0..Len(Hello) /\ 0 \in 0..Len(Stream) /\ Timeout \in 0..Timeout
  <2>1. Len(Hello) \in Nat /\ Len(Stream) \in Nat /\ Timeout \in Nat
    BY <1>1, HelloShape, StreamLayout, SizesAssumption
  <2> QED BY <2>1
<1>5. Types
  BY <1>1, <1>2, <1>3, <1>4 DEF Init, Types, Points, Reasons
<1>6. RecordsInOrder
  BY NoRecordShape DEF Init, RecordsInOrder, StrayRead
<1>7. BufferFollowsStream
  <2>1. Buffer = <<>> /\ captured = <<>> /\ sequence = 0 /\ server_sequence = 0 /\ sent = 0
    BY DEF Init, Buffer
  <2>2. Consumed(0) = 0
    BY <1>1, StreamLayout
  <2>3. Reaches(sent)
    BY <1>2, <2>1, <2>2 DEF Reaches
  <2> QED BY <2>1, <2>3 DEF BufferFollowsStream, Init
<1>8. CapturedInOrder
  <2>1. 0 <= Len(server.flight) /\ 0 <= Len(Expected)
    BY <1>1, FlightShape DEF Expected
  <2> QED BY <1>2, <2>1 DEF Init, CapturedInOrder
<1> QED BY <1>5, <1>6, <1>7, <1>8 DEF SoundInv

\* A capture that fails keeps what it has captured.
LEMMA FailKeeps ==
  ASSUME SoundInv, NEW why \in Reasons \ {"none"}, Fail(why),
         UNCHANGED <<peer, captured, remaining>>,
         reading' \in {reading, NoRecord}, handshake' \in Seq(Unit),
         sequence' \in Nat, sequence' <= server_sequence
  PROVE  SoundInv'
<1> USE DEF peer
<1>1. Stream' = Stream /\ Hello' = Hello /\ \A i : Message(i)' = Message(i)
  BY ServerFixed
<1>2. NoRecord \in Records
  BY NoRecordShape
<1>3. pc' = "failed" /\ reason' = why
  BY DEF Fail
<1>4. Types'
  BY <1>1, <1>2, <1>3 DEF SoundInv, Types, Points
<1>5. RecordsInOrder'
  BY <1>3, NoRecordShape DEF SoundInv, RecordsInOrder, Over
<1>6. BufferFollowsStream'
  BY <1>3 DEF BufferFollowsStream, Over
<1>7. CapturedInOrder'
  BY <1>1, <1>3 DEF SoundInv, CapturedInOrder
<1> QED BY <1>4, <1>5, <1>6, <1>7 DEF SoundInv

\* What the client has captured only depends on the client's steps.
LEMMA CapturedFrame ==
  ASSUME SoundInv, UNCHANGED <<server, captured, pc, handshake>>
  PROVE  CapturedInOrder'
<1>1. \A i : Message(i)' = Message(i)
  BY ServerFixed
<1>2. IsComplete(handshake)' = IsComplete(handshake) /\ IsTooLong(handshake)' = IsTooLong(handshake)
  BY DEF IsComplete, IsTooLong, SizeOf, TypeOf
<1> QED BY <1>1, <1>2 DEF SoundInv, CapturedInOrder

\* Where the buffer is in the stream only depends on the client's steps.
LEMMA BufferFrame ==
  ASSUME UNCHANGED <<server, captured, pc, handshake>>
  PROVE  /\ Stream' = Stream /\ Buffer' = Buffer
         /\ Consumed(Len(captured))' = Consumed(Len(captured))
<1>1. Stream' = Stream /\ \A k : Consumed(k)' = Consumed(k)
  BY ServerFixed
<1>2. Buffer' = Buffer
  BY DEF Buffer
<1> QED BY <1>1, <1>2

-----------------------------------------------------------------------------
(* The wire *)

\* A record that carries nothing of the encrypted flight: of ServerHello, a
\* stray one, or a repetition of the record sealed last.
LEMMA PlainDelivery ==
  ASSUME SoundInv, AwaitsRecord, reading' \in Records,
         reading'.kind \notin {"none", "sealed"} \/ (reading' = last_record /\ last_record # NoRecord),
         hello_sent' \in 0..Len(Hello),
         UNCHANGED <<server, sent, server_sequence, last_record, pc, handshake,
                     captured, sequence, remaining, reason>>
  PROVE  SoundInv'
<1>1. Stream' = Stream /\ Buffer' = Buffer
      /\ Consumed(Len(captured))' = Consumed(Len(captured)) /\ Hello' = Hello
  BY BufferFrame, ServerFixed
<1>2. pc \in {"plain", "sealed"} /\ reading = NoRecord /\ ~Over /\ ~StrayRead
  BY NoRecordShape DEF AwaitsRecord, Over, StrayRead
<1>3. last_record # NoRecord => last_record.kind = "sealed" /\ last_record.inner = "handshake"
  BY <1>2 DEF SoundInv, RecordsInOrder
<1>4. Types'
  BY <1>1 DEF SoundInv, Types
<1>5. ~StrayRead'
  BY <1>3 DEF StrayRead
<1>6. RecordsInOrder'
  <2>1. reading'.kind # "none"
    BY <1>3
  <2>2. reading'.kind = "sealed" => reading' = last_record /\ last_record # NoRecord
    OBVIOUS
  <2>3. last_record # NoRecord => last_record.number + 1 = server_sequence
    BY <1>2 DEF SoundInv, RecordsInOrder
  <2>4. last_record.number \in Nat /\ server_sequence \in Nat
    BY DEF SoundInv, Types, Records
  <2>5. reading'.kind = "sealed" => reading'.number < server_sequence
    BY <2>2, <2>3, <2>4
  <2> QED BY <1>1, <1>2, <2>1, <2>2, <2>5 DEF SoundInv, RecordsInOrder, Over
<1>7. BufferFollowsStream'
  BY <1>1, <1>2 DEF SoundInv, BufferFollowsStream, Reaches, Over
<1>8. CapturedInOrder'
  BY CapturedFrame
<1> QED BY <1>4, <1>6, <1>7, <1>8 DEF SoundInv

\* A stray record under the server's keys: the client will give up on it.
LEMMA StrayDelivery ==
  ASSUME SoundInv, DeliverSealedStray
  PROVE  SoundInv'
<1> USE DEF peer
<1>1. /\ AwaitsRecord /\ server_sequence' = server_sequence + 1
      /\ UNCHANGED <<server, hello_sent, sent, last_record, pc, handshake, captured,
                     sequence, remaining, reason>>
  BY DEF DeliverSealedStray
<1>2. PICK inner \in {"alert", "junk"} : reading' = Sealed(server_sequence, inner, <<>>)
  BY DEF DeliverSealedStray
<1>3. pc \in {"plain", "sealed"} /\ reading = NoRecord /\ ~Over /\ ~StrayRead
  BY <1>1, NoRecordShape DEF AwaitsRecord, Over, StrayRead
<1>4. Stream' = Stream /\ Buffer' = Buffer
      /\ Consumed(Len(captured))' = Consumed(Len(captured)) /\ Hello' = Hello
  BY <1>1, BufferFrame, ServerFixed
<1>5. <<>> \in Seq(Unit)
  OBVIOUS
<1>6. reading' \in Records /\ StrayRead' /\ reading'.kind = "sealed" /\ reading'.inner # "handshake"
  BY <1>2, <1>5 DEF Sealed, Records, Kinds, Inners, StrayRead, SoundInv, Types
<1>7. Types'
  BY <1>1, <1>4, <1>6 DEF SoundInv, Types
<1>8. RecordsInOrder'
  <2>1. reading'.number < server_sequence'
    BY <1>1, <1>2 DEF Sealed, SoundInv, Types
  <2> QED BY <1>6, <2>1 DEF RecordsInOrder
<1>9. BufferFollowsStream'
  BY <1>1, <1>3, <1>4, <1>6 DEF SoundInv, Types, BufferFollowsStream, Reaches, Over
<1>10. CapturedInOrder'
  BY <1>1, CapturedFrame
<1> QED BY <1>7, <1>8, <1>9, <1>10 DEF SoundInv

\* A record of the flight is sealed, and read or lost.
LEMMA SealDelivery ==
  ASSUME SoundInv, NEW n \in 1..MaxFragment, AwaitsRecord, Seal(n),
         reading' = last_record' \/ reading' = reading
  PROVE  SoundInv'
<1>1. /\ sent' = sent + n /\ sent + n <= Len(Stream)
      /\ server_sequence' = server_sequence + 1
      /\ last_record' = Sealed(server_sequence, "handshake", SubSeq(Stream, sent + 1, sent + n))
      /\ UNCHANGED <<server, hello_sent, pc, handshake, captured, sequence, remaining, reason>>
  BY DEF Seal
<1>2. pc \in {"plain", "sealed"} /\ reading = NoRecord /\ ~Over /\ ~StrayRead
  BY NoRecordShape DEF AwaitsRecord, Over, StrayRead
<1>3. Stream' = Stream /\ Buffer' = Buffer
      /\ Consumed(Len(captured))' = Consumed(Len(captured)) /\ Hello' = Hello
  BY <1>1, BufferFrame, ServerFixed
<1>4. /\ server \in Servers /\ sent \in Nat /\ server_sequence \in Nat /\ n \in Nat
      /\ Stream \in Seq(Unit) /\ sequence \in Nat
  BY StreamLayout, SizesAssumption DEF SoundInv, Types
<1> DEFINE u == SubSeq(Stream, sent + 1, sent + n)
<1>5. /\ u \in Seq(Unit) /\ Len(u) = n
      /\ \A j \in 1..n : u[j] = Stream[sent + j]
  BY <1>1, <1>4, PieceShape
<1> HIDE DEF u
<1>6. /\ last_record' = Sealed(server_sequence, "handshake", u)
      /\ last_record'.kind = "sealed" /\ last_record'.inner = "handshake"
      /\ last_record'.number = server_sequence /\ last_record'.units = u
      /\ last_record' \in Records
  BY <1>1, <1>4, <1>5 DEF u, Sealed, Records, Kinds, Inners
<1>7. ~StrayRead'
  BY <1>2, <1>6 DEF StrayRead
<1>8. Types'
  <2>1. sent + n \in 0..Len(Stream)
    BY <1>1, <1>4
  <2>2. reading' \in Records
    BY <1>6 DEF SoundInv, Types
  <2> QED BY <1>1, <1>3, <1>4, <1>6, <2>1, <2>2 DEF SoundInv, Types
<1>9. RecordsInOrder'
  <2>1. (sent + n) - n = sent
    BY <1>4
  <2>2. \A j \in 1..Len(u) : u[j] = Stream[sent' - Len(u) + j]
    BY <1>1, <1>5, <2>1
  <2>3. Len(u) <= sent'
    BY <1>1, <1>4, <1>5
  <2>4. server_sequence < server_sequence'
    BY <1>1, <1>4
  <2> QED BY <1>1, <1>2, <1>3, <1>6, <2>2, <2>3, <2>4, NoRecordShape DEF RecordsInOrder
<1>10. BufferFollowsStream'
  <2>1. sequence <= server_sequence /\ (sequence = server_sequence => Reaches(sent))
    BY <1>2 DEF SoundInv, BufferFollowsStream
  <2>2. sequence + 1 = server_sequence' => Reaches(sent) /\ sent' - Len(last_record.units)' = sent
    <3>1. sequence + 1 = server_sequence' => sequence = server_sequence
      BY <1>1, <1>4
    <3>2. Len(last_record.units)' = n /\ (sent + n) - n = sent
      BY <1>4, <1>5, <1>6
    <3> QED BY <2>1, <1>1, <3>1, <3>2
  <2>3. sequence <= server_sequence' /\ sequence # server_sequence'
    BY <2>1, <1>1, <1>4
  <2>4. pc' \in {"popping", "checking"} => FALSE
    BY <1>1, <1>2
  <2> QED BY <1>1, <1>3, <2>2, <2>3, <2>4 DEF SoundInv, BufferFollowsStream, Reaches
<1>11. CapturedInOrder'
  BY <1>1, CapturedFrame
<1> QED BY <1>8, <1>9, <1>10, <1>11 DEF SoundInv

\* No delivery disturbs the invariant.
LEMMA WireSound == SoundInv /\ Wire => SoundInv'
<1> SUFFICES ASSUME SoundInv, Wire PROVE SoundInv'
  OBVIOUS
<1>1. ASSUME NEW n \in 1..MaxFragment, DeliverHello(n) PROVE SoundInv'
  <2>1. server \in Servers /\ hello_sent \in Nat /\ n \in Nat /\ hello_sent + n <= Len(Hello)
    BY <1>1, HelloShape, SizesAssumption DEF DeliverHello, SoundInv, Types
  <2>2. SubSeq(Hello, hello_sent + 1, hello_sent + n) \in Seq(Unit)
    BY <2>1, HelloShape, PieceShape
  <2>3. reading' \in Records /\ reading'.kind = "handshake"
    BY <1>1, <2>2, PlainShape DEF DeliverHello, Kinds
  <2>4. hello_sent' \in 0..Len(Hello)
    BY <1>1, <2>1, HelloShape DEF DeliverHello
  <2> QED BY <1>1, <2>3, <2>4, PlainDelivery DEF DeliverHello
<1>2. ASSUME NEW n \in 1..MaxFragment, DeliverSealed(n) PROVE SoundInv'
  BY <1>2, SealDelivery DEF DeliverSealed
<1>3. ASSUME NEW n \in 1..MaxFragment, LoseSealed(n) PROVE SoundInv'
  BY <1>3, SealDelivery DEF LoseSealed
<1>4. CASE DeliverStray
  <2>1. AwaitsRecord /\ reading' \in Strays
        /\ UNCHANGED <<peer, pc, handshake, captured, sequence, remaining, reason>>
    BY <1>4 DEF DeliverStray
  <2>2. CASE reading' = last_record /\ last_record # NoRecord
    BY <2>1, <2>2, PlainDelivery DEF peer, SoundInv, Types
  <2>3. CASE reading' \in {Plain("ccs", <<>>), Plain("alert", <<>>), Plain("junk", <<>>)}
    <3>1. <<>> \in Seq(Unit)
      OBVIOUS
    <3> PICK kind \in {"ccs", "alert", "junk"} : reading' = Plain(kind, <<>>)
      BY <2>3
    <3>2. reading' \in Records /\ reading'.kind \in {"ccs", "alert", "junk"}
      <4>1. kind \in Kinds
        BY DEF Kinds
      <4>2. Plain(kind, <<>>) \in Records /\ Plain(kind, <<>>).kind = kind
        BY <3>1, <4>1, PlainShape
      <4> QED BY <4>2
    <3> QED BY <2>1, <3>2, PlainDelivery DEF peer, SoundInv, Types
  <2> QED BY <2>1, <2>2, <2>3 DEF Strays
<1>5. CASE DeliverSealedStray
  BY <1>5, StrayDelivery
<1>6. CASE PeerCloses
  BY <1>6, FailKeeps DEF PeerCloses, peer, Reasons, SoundInv, Types, BufferFollowsStream
<1> QED BY <1>1, <1>2, <1>3, <1>4, <1>5, <1>6 DEF Wire

-----------------------------------------------------------------------------
(* The client *)

\* Before the encrypted part: connecting, and a ServerHello in pieces (391-420).
LEMMA HelloSound ==
  ASSUME SoundInv, Connect \/ SendHello \/ TakeHello
  PROVE  SoundInv'
<1> USE DEF peer
<1>1. CASE Connect \/ SendHello
  <2>1. /\ pc \in {"connect", "send"} /\ pc' \in {"send", "plain"} /\ UNCHANGED server
        /\ UNCHANGED <<peer, reading, handshake, captured, sequence, remaining, reason>>
    BY <1>1 DEF Connect, SendHello
  <2>2. Stream' = Stream /\ Hello' = Hello /\ (\A k : Consumed(k)' = Consumed(k))
        /\ \A i : Message(i)' = Message(i)
    BY <2>1, ServerFixed
  <2>3. Buffer' = Buffer /\ Consumed(Len(captured))' = Consumed(Len(captured))
    BY <2>1, <2>2 DEF Buffer
  <2>4. Types'
    BY <2>1, <2>2 DEF SoundInv, Types, Points
  <2>5. RecordsInOrder'
    BY <2>1, <2>2 DEF SoundInv, RecordsInOrder, StrayRead, Over
  <2>6. BufferFollowsStream'
    BY <2>1, <2>2, <2>3 DEF SoundInv, BufferFollowsStream, Reaches, StrayRead, Over
  <2>7. CapturedInOrder'
    BY <2>1, <2>2 DEF SoundInv, CapturedInOrder
  <2> QED BY <2>4, <2>5, <2>6, <2>7 DEF SoundInv
<1>2. CASE TakeHello
  <2> DEFINE buffer == handshake \o reading.units
  <2>1. /\ pc = "plain" /\ reading.kind = "handshake" /\ reading' = NoRecord
        /\ UNCHANGED <<peer, captured, sequence, remaining>>
    BY <1>2 DEF TakeHello, Reads
  <2>2. buffer \in Seq(Unit) /\ <<>> \in Seq(Unit) /\ Len(<<>>) = 0
    <3>1. reading.units \in Seq(Unit) /\ handshake \in Seq(Unit)
      BY DEF SoundInv, Types, Records
    <3> QED BY <3>1, ConcatShape
  <2> HIDE DEF buffer
  <2>3. \/ \E why \in Reasons \ {"none"} : Fail(why) /\ handshake' \in {buffer, <<>>}
        \/ pc' = "plain" /\ handshake' = buffer /\ UNCHANGED reason
        \/ pc' = "sealed" /\ handshake' = <<>> /\ server.hello_ok /\ UNCHANGED reason
    BY <1>2, <2>1 DEF TakeHello, buffer, Reasons
  <2>4. CASE \E why \in Reasons \ {"none"} : Fail(why) /\ handshake' \in {buffer, <<>>}
    BY <2>1, <2>2, <2>4, FailKeeps DEF SoundInv, Types, BufferFollowsStream
  <2>5. ASSUME pc' \in {"plain", "sealed"}, handshake' \in {buffer, <<>>},
               pc' = "sealed" => handshake' = <<>> /\ server.hello_ok, UNCHANGED reason
        PROVE  SoundInv'
    <3>1. Stream' = Stream /\ Hello' = Hello /\ (\A k : Consumed(k)' = Consumed(k))
          /\ \A i : Message(i)' = Message(i)
      BY <2>1, ServerFixed
    <3>2. Buffer = <<>> /\ Buffer' = <<>> /\ Consumed(Len(captured))' = Consumed(Len(captured))
          /\ ~StrayRead /\ ~StrayRead' /\ ~Over
      BY <2>1, <2>5, <3>1, NoRecordShape DEF Buffer, StrayRead, Over
    <3>3. Types'
      BY <2>1, <2>2, <2>5, <3>1, NoRecordShape DEF SoundInv, Types, Points
    <3>4. RecordsInOrder'
      BY <2>1, <2>5, <3>1, <3>2, NoRecordShape DEF SoundInv, RecordsInOrder
    <3>5. BufferFollowsStream'
      BY <2>1, <2>5, <3>1, <3>2 DEF SoundInv, BufferFollowsStream, Reaches
    <3>6. CapturedInOrder'
      <4>1. captured = <<>> /\ Len(captured) = 0
        BY <2>1 DEF SoundInv, BufferFollowsStream
      <4>2. ~IsComplete(<<>>)' /\ ~IsTooLong(<<>>)'
        BY DEF IsComplete, IsTooLong
      <4>3. pc' = "sealed" => ~IsComplete(handshake)' /\ ~IsTooLong(handshake)'
        BY <2>5 DEF IsComplete, IsTooLong
      <4> QED BY <2>1, <2>5, <3>1, <4>1, <4>3 DEF SoundInv, CapturedInOrder, Expected
    <3> QED BY <3>3, <3>4, <3>5, <3>6 DEF SoundInv
  <2> QED BY <2>1, <2>3, <2>4, <2>5
<1> QED BY <1>1, <1>2

\* A record that opens is the next piece of the stream (435-445).
LEMMA OpenSound ==
  ASSUME SoundInv, OpenRecord
  PROVE  SoundInv'
<1> USE DEF peer
<1>1. /\ pc = "sealed" /\ reading.kind = "sealed" /\ reading.number = sequence
      /\ sequence' = sequence + 1 /\ reading' = NoRecord
      /\ UNCHANGED <<peer, captured, remaining>>
  BY DEF OpenRecord, Reads, Authenticates
<1>2. sequence \in Nat /\ server_sequence \in Nat /\ sequence + 1 <= server_sequence
  BY <1>1 DEF SoundInv, Types, RecordsInOrder
<1>3. CASE reading.inner # "handshake"
  <2>1. \E why \in Reasons \ {"none"} : Fail(why)
    BY <1>3 DEF OpenRecord, Reasons
  <2>2. handshake' = handshake
    BY <1>3 DEF OpenRecord
  <2> QED BY <1>1, <1>2, <2>1, <2>2, FailKeeps DEF SoundInv, Types
<1>4. CASE reading.inner = "handshake"
  <2> DEFINE u == reading.units
             c == Consumed(Len(captured))
  <2>1. handshake' = handshake \o u /\ handshake \in Seq(Unit) /\ u \in Seq(Unit)
    BY <1>4 DEF OpenRecord, SoundInv, Types, Records
  <2>2. /\ handshake' \in Seq(Unit) /\ Len(handshake') = Len(handshake) + Len(u)
        /\ \A p \in 1..Len(handshake) : handshake'[p] = handshake[p]
        /\ \A j \in 1..Len(u) : handshake'[Len(handshake) + j] = u[j]
    <3> HIDE DEF u
    <3> QED BY <2>1, ConcatShape
  <2>3. CASE Overflows(handshake')
    <3>1. Fail("too_large")
      BY <1>4, <2>3 DEF OpenRecord
    <3> QED BY <1>1, <1>2, <2>2, <3>1, FailKeeps DEF SoundInv, Types, Reasons
  <2>4. CASE ~Overflows(handshake')
    <3>1. pc' = "popping" /\ UNCHANGED reason
      BY <1>4, <2>4 DEF OpenRecord
    <3>2. /\ reading = last_record /\ ~StrayRead /\ ~Over
          /\ sequence + 1 = server_sequence
          /\ Len(u) <= sent
          /\ \A j \in 1..Len(u) : u[j] = Stream[sent - Len(u) + j]
      BY <1>1, <1>4, NoRecordShape DEF SoundInv, RecordsInOrder, StrayRead, Over
    <3>3. /\ Len(handshake) = (sent - Len(u)) - c
          /\ \A j \in 1..Len(handshake) : handshake[j] = Stream[c + j]
      BY <1>1, <3>2 DEF SoundInv, BufferFollowsStream, Reaches, Buffer
    <3>4. sent \in Nat /\ Len(u) \in Nat /\ c \in Nat /\ Len(handshake) \in Nat
      <4>1. Len(captured) \in 0..Len(server.flight)
        BY DEF SoundInv, Types, CapturedInOrder
      <4> QED BY <2>1, <4>1, StreamLayout DEF SoundInv, Types
    <3>5. /\ Len(handshake') = sent - c
          /\ \A j \in 1..Len(handshake') : handshake'[j] = Stream[c + j]
      <4>1. Len(handshake') = sent - c
        BY <2>2, <3>3, <3>4
      <4>2. ASSUME NEW j \in 1..Len(handshake') PROVE handshake'[j] = Stream[c + j]
        <5>1. CASE j <= Len(handshake)
          BY <5>1, <2>2, <3>3, <3>4
        <5>2. CASE j > Len(handshake)
          <6> DEFINE i == j - Len(handshake)
          <6>1. i \in 1..Len(u) /\ j = Len(handshake) + i /\ sent - Len(u) + i = c + j
            <7>1. Len(handshake') = Len(handshake) + Len(u) /\ Len(handshake) = (sent - Len(u)) - c
              BY <2>2, <3>3
            <7>2. j \in Int /\ 1 <= j /\ j <= Len(handshake')
              BY <2>2
            <7> HIDE DEF u, c
            <7> QED BY <5>2, <7>1, <7>2, <3>4
          <6>2. u[i] = Stream[sent - Len(u) + i] /\ handshake'[Len(handshake) + i] = u[i]
            BY <6>1, <2>2, <3>2
          <6> QED BY <6>1, <6>2
        <5> QED BY <5>1, <5>2, <3>4, <4>1
      <4> QED BY <4>1, <4>2
    <3>6. Stream' = Stream /\ Hello' = Hello /\ c' = c /\ \A i : Message(i)' = Message(i)
      <4>1. \A k : Consumed(k)' = Consumed(k)
        BY <1>1, ServerFixed
      <4> QED BY <1>1, <4>1, ServerFixed
    <3>7. Buffer' = handshake'
      BY <3>1 DEF Buffer
    <3>8. Types'
      BY <1>1, <1>2, <2>2, <3>1, <3>6, NoRecordShape DEF SoundInv, Types, Points
    <3>9. RecordsInOrder'
      BY <1>1, <3>1, <3>2, <3>6, NoRecordShape DEF SoundInv, RecordsInOrder, StrayRead, Over
    <3>10. BufferFollowsStream'
      <4>1. Reaches(sent)'
        <5> HIDE DEF c
        <5>1. Consumed(Len(captured))' = c
          BY <3>6 DEF c
        <5> QED BY <1>1, <3>5, <3>6, <3>7, <5>1 DEF Reaches
      <4>2. sequence' = server_sequence' /\ sequence' + 1 # server_sequence' /\ sequence' <= server_sequence'
        BY <1>1, <1>2, <3>2
      <4> QED BY <1>1, <3>1, <4>1, <4>2 DEF BufferFollowsStream
    <3>11. CapturedInOrder'
      BY <1>1, <3>1, <3>6 DEF SoundInv, CapturedInOrder
    <3> QED BY <3>8, <3>9, <3>10, <3>11 DEF SoundInv
  <2> QED BY <2>3, <2>4
<1> QED BY <1>3, <1>4

\* What is buffered begins with the server's next message.
LEMMA HeadOfBuffer ==
  ASSUME SoundInv, NEW p \in 0..Len(Stream), Reaches(p), pc \in {"sealed", "popping"},
         handshake # <<>>
  PROVE  /\ Len(captured) < Len(server.flight)
         /\ Head(handshake) = <<Len(captured) + 1, 1>>
         /\ SizeOf(handshake) = UnitsOf[TypeOf(Len(captured) + 1)]
<1> DEFINE k == Len(captured)
           c == Consumed(k)
           z == UnitsOf[TypeOf(k + 1)]
<1>1. server \in Servers /\ handshake \in Seq(Unit)
      /\ k \in Nat /\ k <= Len(server.flight) /\ Len(server.flight) \in Nat
  BY FlightShape DEF SoundInv, Types, CapturedInOrder
<1>2. /\ Len(handshake) = p - c
      /\ \A j \in 1..Len(handshake) : handshake[j] = Stream[c + j]
  BY DEF Reaches, Buffer
<1>3. Len(handshake) \in Nat \ {0} /\ Head(handshake) = handshake[1]
  BY <1>1
<1>4. c \in Nat /\ Len(Stream) \in Nat
  BY <1>1, StreamLayout
<1>5. k # Len(server.flight)
  BY <1>1, <1>2, <1>3, <1>4, StreamLayout
<1>6. k \in 0..(Len(server.flight) - 1) /\ k + 1 \in 0..Len(server.flight)
  BY <1>1, <1>5
<1>7. z \in Nat \ {0} /\ \A j \in 1..z : Stream[c + j] = <<k + 1, j>>
  BY <1>1, <1>6, StreamLayout, MessageShape
<1>8. Head(handshake) = <<k + 1, 1>>
  BY <1>2, <1>3, <1>7
<1>9. SizeOf(handshake) = z
  BY <1>8 DEF SizeOf
<1>10. k < Len(server.flight)
  BY <1>6
<1> QED BY <1>8, <1>9, <1>10

\* A complete message at the head of the buffer is the server's next one (446-460).
LEMMA NextMessage ==
  ASSUME SoundInv, pc = "popping", IsComplete(handshake)
  PROVE  /\ Len(captured) < Len(server.flight)
         /\ Head(handshake) = <<Len(captured) + 1, 1>>
         /\ SizeOf(handshake) = UnitsOf[TypeOf(Len(captured) + 1)]
         /\ First(handshake) = Message(Len(captured) + 1)
         /\ SizeOf(handshake) \in 1..Len(handshake)
<1> DEFINE k == Len(captured)
           c == Consumed(k)
           z == UnitsOf[TypeOf(k + 1)]
<1>1. server \in Servers /\ handshake \in Seq(Unit) /\ sent \in 0..Len(Stream)
      /\ k \in Nat /\ Len(server.flight) \in Nat
  BY FlightShape DEF SoundInv, Types, CapturedInOrder
<1>2. Reaches(sent)
  BY DEF SoundInv, BufferFollowsStream, Over
<1>3. handshake # <<>> /\ Len(handshake) >= SizeOf(handshake)
  BY DEF IsComplete
<1>4. k < Len(server.flight) /\ Head(handshake) = <<k + 1, 1>> /\ SizeOf(handshake) = z
  BY <1>1, <1>2, <1>3, HeadOfBuffer
<1>5. \A j \in 1..Len(handshake) : handshake[j] = Stream[c + j]
  BY <1>2 DEF Reaches, Buffer
<1>6. k \in 0..(Len(server.flight) - 1) /\ k + 1 \in 0..Len(server.flight)
  BY <1>1, <1>4
<1>7. z \in Nat \ {0} /\ \A j \in 1..z : Stream[c + j] = <<k + 1, j>>
  BY <1>1, <1>6, StreamLayout, MessageShape
<1>8. z \in 1..Len(handshake)
  BY <1>1, <1>3, <1>4, <1>7
<1>9. First(handshake) = Message(k + 1)
  <2>1. /\ First(handshake) \in Seq(Unit) /\ Len(First(handshake)) = z
        /\ \A j \in 1..z : First(handshake)[j] = handshake[j]
    <3>1. 0 + z <= Len(handshake) /\ z \in Nat /\ 0 \in Nat /\ 0 + 1 = 1 /\ 0 + z = z
      BY <1>7, <1>8
    <3> HIDE DEF z
    <3>2. /\ SubSeq(handshake, 0 + 1, 0 + z) \in Seq(Unit)
          /\ Len(SubSeq(handshake, 0 + 1, 0 + z)) = z
          /\ \A j \in 1..z : SubSeq(handshake, 0 + 1, 0 + z)[j] = handshake[0 + j]
      BY <3>1, <1>1, PieceShape
    <3> QED BY <3>1, <3>2, <1>4 DEF First
  <2>2. /\ Message(k + 1) \in Seq(Unit) /\ Len(Message(k + 1)) = z
        /\ \A j \in 1..z : Message(k + 1)[j] = <<k + 1, j>>
    BY <1>1, <1>6, MessageShape
  <2>3. \A j \in 1..z : First(handshake)[j] = Message(k + 1)[j]
    <3> TAKE j \in 1..z
    <3>1. j \in 1..Len(handshake)
      BY <1>7, <1>8
    <3>2. First(handshake)[j] = Stream[c + j]
      BY <2>1, <3>1, <1>5
    <3>3. Stream[c + j] = <<k + 1, j>> /\ Message(k + 1)[j] = <<k + 1, j>>
      BY <2>2, <1>7
    <3> QED BY <3>2, <3>3
  <2> HIDE DEF z, k
  <2> QED BY <2>1, <2>2, <2>3, SeqEqual
<1> QED BY <1>4, <1>8, <1>9

\* Popping moves one message from the buffer to the captured ones.
LEMMA PopSound ==
  ASSUME SoundInv, PopMessage
  PROVE  SoundInv'
<1> USE DEF peer
<1> DEFINE k == Len(captured)
           c == Consumed(k)
           z == UnitsOf[TypeOf(k + 1)]
<1>1. /\ pc = "popping" /\ ~HasAll /\ IsComplete(handshake)
      /\ RightType /\ ~CertificateIsRefused
      /\ captured' = Append(captured, First(handshake)) /\ handshake' = Rest(handshake)
      /\ UNCHANGED <<peer, pc, reading, sequence, remaining, reason>>
  BY DEF PopMessage, IsDrained
<1>2. /\ k < Len(server.flight) /\ Head(handshake) = <<k + 1, 1>>
      /\ SizeOf(handshake) = z /\ First(handshake) = Message(k + 1) /\ z \in 1..Len(handshake)
  BY <1>1, NextMessage
<1>3. /\ server \in Servers /\ handshake \in Seq(Unit) /\ captured \in Seq(Seq(Unit))
      /\ sent \in Nat /\ k \in Nat /\ k <= 3 /\ Len(server.flight) \in Nat
      /\ Len(handshake) \in Nat /\ z \in Nat
  <2>1. server \in Servers /\ handshake \in Seq(Unit) /\ captured \in Seq(Seq(Unit)) /\ sent \in Nat
    BY StreamLayout DEF SoundInv, Types
  <2>2. k <= 3
    BY DEF SoundInv, CapturedInOrder, Expected
  <2>3. Len(server.flight) \in Nat
    BY <2>1, FlightShape
  <2>4. k \in Nat /\ Len(handshake) \in Nat
    BY <2>1
  <2> QED BY <2>1, <2>2, <2>3, <2>4, <1>2
<1>4. k < 3
  <2>1. Len(Expected) = 3
    BY DEF Expected
  <2>2. k # 3
    BY <1>1, <2>1 DEF HasAll
  <2>3. k \in Nat /\ k <= 3
    BY <1>3
  <2> HIDE DEF k
  <2> QED BY <2>2, <2>3
<1>5. Message(k + 1) \in Seq(Unit)
  <2>1. k + 1 \in 0..Len(server.flight)
    BY <1>2, <1>3
  <2> QED BY <1>3, <2>1, MessageShape
<1>6. /\ captured' \in Seq(Seq(Unit)) /\ Len(captured') = k + 1
      /\ \A i \in 1..k : captured'[i] = captured[i]
      /\ captured'[k + 1] = Message(k + 1)
  BY <1>1, <1>2, <1>3, <1>5
<1>7. /\ handshake' \in Seq(Unit) /\ Len(handshake') = Len(handshake) - z
      /\ \A j \in 1..Len(handshake') : handshake'[j] = handshake[z + j]
  <2> DEFINE n == Len(handshake) - z
  <2>1. n \in Nat /\ z + n = Len(handshake) /\ z + n <= Len(handshake)
    BY <1>2, <1>3
  <2>2. handshake' = SubSeq(handshake, z + 1, z + n)
    BY <1>1, <1>2, <2>1 DEF Rest
  <2> HIDE DEF n, z
  <2>3. /\ SubSeq(handshake, z + 1, z + n) \in Seq(Unit)
        /\ Len(SubSeq(handshake, z + 1, z + n)) = n
        /\ \A j \in 1..n : SubSeq(handshake, z + 1, z + n)[j] = handshake[z + j]
    BY <1>3, <2>1, PieceShape
  <2> QED BY <2>2, <2>3 DEF n
<1>8. Stream' = Stream /\ Hello' = Hello /\ (\A i : Consumed(i)' = Consumed(i))
      /\ \A i : Message(i)' = Message(i)
  BY <1>1, ServerFixed
<1>9. Types'
  BY <1>1, <1>6, <1>7, <1>8 DEF SoundInv, Types
<1>10. RecordsInOrder'
  BY <1>1, <1>8 DEF SoundInv, RecordsInOrder, StrayRead, Over
<1>11. BufferFollowsStream'
  <2>1. /\ Len(handshake) = sent - c
        /\ \A j \in 1..Len(handshake) : handshake[j] = Stream[c + j]
        /\ reading = NoRecord /\ sequence = server_sequence
    BY <1>1 DEF SoundInv, BufferFollowsStream, Reaches, Buffer, Over
  <2>2. Consumed(k + 1) = c + z /\ c \in Nat
    <3>1. k \in 0..(Len(server.flight) - 1) /\ k \in 0..Len(server.flight)
      BY <1>2, <1>3
    <3> QED BY <1>3, <3>1, StreamLayout
  <2>3. Len(handshake') = sent - Consumed(k + 1)
    BY <2>1, <2>2, <1>3, <1>7
  <2>4. \A j \in 1..Len(handshake') : handshake'[j] = Stream[Consumed(k + 1) + j]
    <3> TAKE j \in 1..Len(handshake')
    <3>1. z + j \in 1..Len(handshake) /\ c + (z + j) = Consumed(k + 1) + j
      BY <1>2, <1>3, <1>7, <2>2
    <3> QED BY <3>1, <2>1, <1>7
  <2>5. Consumed(Len(captured))' = Consumed(k + 1)
    <3>1. Consumed(Len(captured))' = Consumed(Len(captured'))
      BY <1>1 DEF Consumed, StreamUpTo, Messages, Message, TypeOf
    <3> QED BY <3>1, <1>6
  <2>6. Buffer' = handshake'
    BY <1>1 DEF Buffer
  <2>7. Reaches(sent)'
    BY <1>1, <1>8, <2>3, <2>4, <2>5, <2>6 DEF Reaches
  <2>8. sequence' = server_sequence' /\ sequence' <= server_sequence'
        /\ sequence' + 1 # server_sequence'
    BY <1>1, <2>1 DEF SoundInv, Types
  <2> QED BY <1>1, <2>1, <2>7, <2>8 DEF BufferFollowsStream
<1>12. CapturedInOrder'
  <2>1. server.flight[k + 1] = Expected[k + 1]
    BY <1>1, <1>2, <1>3 DEF RightType, TypeOf
  <2>2. k + 1 = 2 => server.cert_ok
    BY <1>1 DEF CertificateIsRefused, Expected
  <2>3. k >= 2 => server.cert_ok
    BY DEF SoundInv, CapturedInOrder
  <2>4. Len(captured') <= Len(Expected) /\ Len(captured') <= Len(server.flight)
    BY <1>2, <1>3, <1>4, <1>6 DEF Expected
  <2>5. ASSUME NEW i \in 1..Len(captured')
        PROVE  captured'[i] = Message(i) /\ server.flight[i] = Expected[i]
    <3>1. CASE i = k + 1
      BY <3>1, <1>6, <2>1
    <3>2. CASE i # k + 1
      <4>1. i \in 1..k
        BY <3>2, <1>3, <1>6
      <4> QED BY <4>1, <1>6 DEF SoundInv, CapturedInOrder
    <3> QED BY <3>1, <3>2
  <2>6. Len(captured') >= 2 => server.cert_ok
    BY <1>3, <1>6, <2>2, <2>3
  <2> QED BY <1>1, <1>8, <2>4, <2>5, <2>6 DEF SoundInv, CapturedInOrder
<1> QED BY <1>9, <1>10, <1>11, <1>12 DEF SoundInv

\* The other steps of the client move on or give up.
LEMMA ClientSound == SoundInv /\ Client => SoundInv'
<1> SUFFICES ASSUME SoundInv, Client PROVE SoundInv'
  OBVIOUS
<1> USE DEF peer
<1>1. handshake \in Seq(Unit) /\ sequence \in Nat /\ sequence <= server_sequence
  BY DEF SoundInv, Types, BufferFollowsStream
<1>2. CASE SkipCcs
  <2>1. /\ pc \in {"plain", "sealed"} /\ reading.kind = "ccs" /\ reading' = NoRecord
        /\ UNCHANGED <<peer, pc, handshake, captured, sequence, remaining, reason>>
    BY <1>2 DEF SkipCcs, Reads
  <2>2. ~StrayRead /\ ~StrayRead' /\ ~Over
    BY <2>1, NoRecordShape DEF StrayRead, Over
  <2>3. Stream' = Stream /\ Hello' = Hello /\ Buffer' = Buffer
        /\ Consumed(Len(captured))' = Consumed(Len(captured))
    BY <2>1, BufferFrame, ServerFixed
  <2>4. Types'
    BY <2>1, <2>3, NoRecordShape DEF SoundInv, Types
  <2>5. RecordsInOrder'
    BY <2>1, <2>2, <2>3, NoRecordShape DEF SoundInv, RecordsInOrder
  <2>6. BufferFollowsStream'
    BY <2>1, <2>2, <2>3 DEF SoundInv, BufferFollowsStream, Reaches
  <2>7. CapturedInOrder'
    BY <2>1, CapturedFrame
  <2> QED BY <2>4, <2>5, <2>6, <2>7 DEF SoundInv
<1>3. CASE RefuseRecord
  <2>1. \E why \in Reasons \ {"none"} : Fail(why)
    BY <1>3 DEF RefuseRecord, Reasons
  <2> QED BY <1>1, <1>3, <2>1, FailKeeps DEF RefuseRecord
<1>4. CASE OpenFails
  BY <1>1, <1>4, FailKeeps DEF OpenFails, Reasons
<1>5. CASE PopRefused
  <2>1. \E why \in Reasons \ {"none"} : Fail(why)
    BY <1>5 DEF PopRefused, Reasons
  <2> QED BY <1>1, <1>5, <2>1, FailKeeps DEF PopRefused
<1>6. CASE Expire
  BY <1>1, <1>6, FailKeeps DEF Expire, Reasons
<1>7. CASE PopEnd
  <2>1. /\ pc = "popping" /\ IsDrained /\ pc' = IF HasAll THEN "checking" ELSE "sealed"
        /\ UNCHANGED <<peer, reading, handshake, captured, sequence, remaining, reason>>
    BY <1>7 DEF PopEnd
  <2>2. Stream' = Stream /\ Hello' = Hello /\ (\A k : Consumed(k)' = Consumed(k))
        /\ \A i : Message(i)' = Message(i)
    BY <2>1, ServerFixed
  <2>3. Buffer' = Buffer /\ Consumed(Len(captured))' = Consumed(Len(captured))
    BY <2>1, <2>2 DEF Buffer
  <2>4. Types'
    BY <2>1, <2>2 DEF SoundInv, Types, Points
  <2>5. RecordsInOrder'
    BY <2>1, <2>2 DEF SoundInv, RecordsInOrder, StrayRead, Over
  <2>6. BufferFollowsStream'
    BY <2>1, <2>2, <2>3 DEF SoundInv, BufferFollowsStream, Reaches, StrayRead, Over
  <2>7. CapturedInOrder'
    <3>1. pc' = "checking" => Len(captured) = Len(Expected)
      BY <2>1 DEF HasAll
    <3>2. pc' = "sealed" => ~HasAll /\ ~IsComplete(handshake) /\ ~IsTooLong(handshake)
      BY <2>1 DEF IsDrained
    <3>3. ~HasAll => Len(captured) < Len(Expected)
      <4> DEFINE k == Len(captured)
                 n == Len(Expected)
      <4>1. n = 3 /\ k \in Nat /\ k <= n
        BY DEF Expected, SoundInv, Types, CapturedInOrder
      <4>2. ~HasAll => k # n
        BY DEF HasAll
      <4> HIDE DEF k, n
      <4>3. k # n => k < n
        BY <4>1
      <4> QED BY <4>2, <4>3 DEF k, n
    <3>4. IsComplete(handshake)' = IsComplete(handshake)
          /\ IsTooLong(handshake)' = IsTooLong(handshake)
      BY <2>1 DEF IsComplete, IsTooLong, SizeOf, TypeOf
    <3> QED BY <2>1, <2>2, <3>1, <3>2, <3>3, <3>4 DEF SoundInv, CapturedInOrder
  <2> QED BY <2>4, <2>5, <2>6, <2>7 DEF SoundInv
<1>8. CASE Check
  <2>1. /\ pc = "checking"
        /\ UNCHANGED <<peer, reading, handshake, captured, sequence, remaining>>
    BY <1>8 DEF Check
  <2>2. CASE Fail("scheme")
    BY <1>1, <2>1, <2>2, FailKeeps DEF Reasons
  <2>3. CASE server.verify_ok /\ pc' = "done" /\ UNCHANGED reason
    <3>1. Stream' = Stream /\ Hello' = Hello /\ \A i : Message(i)' = Message(i)
      BY <2>1, ServerFixed
    <3>2. Types'
      BY <2>1, <2>3, <3>1 DEF SoundInv, Types, Points
    <3>3. RecordsInOrder' /\ BufferFollowsStream'
      BY <2>1, <2>3 DEF SoundInv, RecordsInOrder, BufferFollowsStream, Over
    <3>4. CapturedInOrder'
      BY <2>1, <2>3, <3>1 DEF SoundInv, CapturedInOrder
    <3> QED BY <3>2, <3>3, <3>4 DEF SoundInv
  <2> QED BY <1>8, <2>2, <2>3 DEF Check
<1> QED
  BY <1>2, <1>3, <1>4, <1>5, <1>6, <1>7, <1>8, HelloSound, OpenSound, PopSound DEF Client

\* Time only shortens what is left of it.
LEMMA TickSound == SoundInv /\ Tick => SoundInv'
<1> SUFFICES ASSUME SoundInv, Tick PROVE SoundInv'
  OBVIOUS
<1>1. /\ remaining' \in 0..Timeout
      /\ UNCHANGED <<server, hello_sent, sent, server_sequence, last_record, pc, reading,
                     handshake, captured, sequence, reason>>
  BY SizesAssumption DEF Tick, peer, SoundInv, Types
<1>2. Stream' = Stream /\ Hello' = Hello /\ Buffer' = Buffer
      /\ Consumed(Len(captured))' = Consumed(Len(captured))
  BY <1>1, BufferFrame, ServerFixed
<1>3. Types'
  BY <1>1, <1>2 DEF SoundInv, Types
<1>4. RecordsInOrder' /\ BufferFollowsStream'
  BY <1>1, <1>2 DEF SoundInv, RecordsInOrder, BufferFollowsStream, Reaches, StrayRead, Over
<1>5. CapturedInOrder'
  BY <1>1, CapturedFrame
<1> QED BY <1>3, <1>4, <1>5 DEF SoundInv

\* A step that changes nothing keeps everything.
LEMMA StutterSound == SoundInv /\ UNCHANGED vars => SoundInv'
<1> SUFFICES ASSUME SoundInv, UNCHANGED vars PROVE SoundInv'
  OBVIOUS
<1>1. UNCHANGED <<server, hello_sent, sent, server_sequence, last_record, pc, reading,
                  handshake, captured, sequence, remaining, reason>>
  BY DEF vars
<1>2. Stream' = Stream /\ Hello' = Hello /\ Buffer' = Buffer
      /\ Consumed(Len(captured))' = Consumed(Len(captured))
  BY <1>1, BufferFrame, ServerFixed
<1>3. Types'
  BY <1>1, <1>2 DEF SoundInv, Types
<1>4. RecordsInOrder' /\ BufferFollowsStream'
  BY <1>1, <1>2 DEF SoundInv, RecordsInOrder, BufferFollowsStream, Reaches, StrayRead, Over
<1>5. CapturedInOrder'
  BY <1>1, CapturedFrame
<1> QED BY <1>3, <1>4, <1>5 DEF SoundInv

\* Every step keeps the invariant.
LEMMA SoundStep == SoundInv /\ [Next]_vars => SoundInv'
  BY WireSound, ClientSound, TickSound, StutterSound DEF Next, Stop

\* Every capture keeps it.
LEMMA SoundInvHolds == Spec => []SoundInv
  BY CaptureInit, SoundStep, PTL DEF Spec

\* Whatever records the server cuts its flight into, and whatever is lost,
\* repeated or mixed in, a capture that ends well has the first three messages
\* of the flight, whole and in order (396-476).
THEOREM CaptureSound == Spec => []CaptureIsSound
<1>1. SoundInv => CaptureIsSound
  BY DEF SoundInv, CapturedInOrder, CaptureIsSound, Expected
<1> QED BY <1>1, SoundInvHolds, PTL

-----------------------------------------------------------------------------
(* The plaintext part *)

\* A buffer that holds the beginning of ServerHello announces its size.
LEMMA HelloHead ==
  ASSUME server \in Servers, NEW buffer \in Seq(Unit), buffer # <<>>,
         \A j \in 1..Len(buffer) : buffer[j] = Hello[j]
  PROVE  SizeOf(buffer) = UnitsOf["ServerHello"]
<1>1. 1 \in 1..Len(buffer) /\ Head(buffer) = buffer[1]
  OBVIOUS
<1>2. 1 \in 1..UnitsOf["ServerHello"]
  BY HelloShape
<1>3. Head(buffer) = <<0, 1>>
  BY <1>1, <1>2, HelloShape
<1> QED BY <1>3 DEF SizeOf, TypeOf

\* With the record just read, the buffer holds all of ServerHello that was sent.
LEMMA HelloBuffer ==
  ASSUME SoundInv, HelloInOrder, pc = "plain", reading.kind = "handshake"
  PROVE  /\ handshake \o reading.units \in Seq(Unit)
         /\ Len(handshake \o reading.units) = hello_sent
         /\ \A j \in 1..hello_sent : (handshake \o reading.units)[j] = Hello[j]
<1> DEFINE u == reading.units
           buffer == handshake \o u
<1>1. handshake \in Seq(Unit) /\ u \in Seq(Unit) /\ hello_sent \in Nat
  BY HelloShape DEF SoundInv, Types, Records
<1>2. /\ buffer \in Seq(Unit) /\ Len(buffer) = Len(handshake) + Len(u)
      /\ \A p \in 1..Len(handshake) : buffer[p] = handshake[p]
      /\ \A j \in 1..Len(u) : buffer[Len(handshake) + j] = u[j]
  <2> HIDE DEF u
  <2> QED BY <1>1, ConcatShape
<1>3. /\ Len(u) <= hello_sent
      /\ Len(handshake) = hello_sent - Len(u)
      /\ \A j \in 1..Len(handshake) : handshake[j] = Hello[j]
      /\ \A j \in 1..Len(u) : u[j] = Hello[hello_sent - Len(u) + j]
  BY DEF HelloInOrder, HelloReaches
<1>4. Len(u) \in Nat /\ Len(handshake) \in Nat
  BY <1>1
<1> HIDE DEF u, buffer
<1>5. Len(buffer) = hello_sent
  BY <1>1, <1>2, <1>3, <1>4
<1>6. ASSUME NEW j \in 1..hello_sent PROVE buffer[j] = Hello[j]
  <2>1. CASE j <= Len(handshake)
    BY <2>1, <1>1, <1>2, <1>3, <1>4
  <2>2. CASE j > Len(handshake)
    <3> DEFINE i == j - Len(handshake)
    <3>1. i \in 1..Len(u) /\ j = Len(handshake) + i /\ hello_sent - Len(u) + i = j
      BY <2>2, <1>1, <1>3, <1>4
    <3>2. buffer[Len(handshake) + i] = u[i] /\ u[i] = Hello[hello_sent - Len(u) + i]
      BY <3>1, <1>2, <1>3
    <3> QED BY <3>1, <3>2
  <2> QED BY <2>1, <2>2, <1>1, <1>4
<1> QED BY <1>2, <1>5, <1>6 DEF buffer, u

\* Records that are not of ServerHello leave it alone.
LEMMA HelloFrame ==
  ASSUME HelloInOrder, pc \notin {"connect", "send"}, reading.kind # "handshake",
         reading'.kind # "handshake", UNCHANGED <<server, hello_sent, pc, handshake>>
  PROVE  HelloInOrder'
<1>1. Hello' = Hello
  BY ServerFixed
<1>2. IsComplete(handshake)' = IsComplete(handshake) /\ IsTooLong(handshake)' = IsTooLong(handshake)
  BY DEF IsComplete, IsTooLong, SizeOf, TypeOf
<1> QED BY <1>1, <1>2 DEF HelloInOrder, HelloReaches

\* ServerHello is buffered in order, up to what was delivered of it.
LEMMA HelloStep == SoundInv /\ HelloInOrder /\ [Next]_vars => HelloInOrder'
<1> SUFFICES ASSUME SoundInv, HelloInOrder, [Next]_vars PROVE HelloInOrder'
  OBVIOUS
<1> USE DEF peer
<1>1. ASSUME pc' \notin {"connect", "send", "plain"} PROVE HelloInOrder'
  BY <1>1 DEF HelloInOrder
<1>2. server \in Servers /\ hello_sent \in Nat /\ handshake \in Seq(Unit)
  BY HelloShape DEF SoundInv, Types
<1>3. ASSUME NEW n \in 1..MaxFragment, DeliverHello(n) PROVE HelloInOrder'
  <2> DEFINE u == SubSeq(Hello, hello_sent + 1, hello_sent + n)
  <2>1. /\ pc \in {"plain", "sealed"} /\ reading = NoRecord
        /\ hello_sent + n <= Len(Hello) /\ hello_sent' = hello_sent + n
        /\ reading' = Plain("handshake", u)
        /\ UNCHANGED <<server, pc, handshake>>
    BY <1>3 DEF DeliverHello, AwaitsRecord
  <2>2. n \in Nat
    BY SizesAssumption
  <2>3. /\ u \in Seq(Unit) /\ Len(u) = n
        /\ \A j \in 1..n : u[j] = Hello[hello_sent + j]
    BY <1>2, <2>1, <2>2, HelloShape, PieceShape
  <2> HIDE DEF u
  <2>4. reading'.kind = "handshake" /\ reading'.units = u
    BY <2>1, <2>3, PlainShape DEF Kinds
  <2>5. CASE pc = "sealed"
    BY <1>1, <2>1, <2>5
  <2>6. CASE pc = "plain"
    <3>1. reading.kind # "handshake"
      BY <2>1, NoRecordShape
    <3>2. HelloReaches(hello_sent) /\ ~IsComplete(handshake) /\ ~IsTooLong(handshake)
      BY <2>6, <3>1 DEF HelloInOrder
    <3>3. Hello' = Hello
      BY <2>1, ServerFixed
    <3>4. ~IsComplete(handshake)' /\ ~IsTooLong(handshake)'
      BY <2>1, <3>2 DEF IsComplete, IsTooLong, SizeOf, TypeOf
    <3>5. hello_sent' - Len(u) = hello_sent /\ Len(u) <= hello_sent'
      BY <1>2, <2>1, <2>2, <2>3
    <3>6. /\ Len(handshake') = hello_sent' - Len(u)
          /\ \A j \in 1..(hello_sent' - Len(u)) : handshake'[j] = Hello'[j]
      BY <2>1, <3>2, <3>3, <3>5 DEF HelloReaches
    <3>7. \A j \in 1..Len(u) : u[j] = Hello[hello_sent' - Len(u) + j]
      BY <2>3, <3>5
    <3>8. HelloReaches(hello_sent - Len(reading.units))'
      BY <2>4, <3>6 DEF HelloReaches
    <3> QED BY <2>1, <2>4, <2>6, <3>3, <3>4, <3>5, <3>7, <3>8 DEF HelloInOrder
  <2> QED BY <2>1, <2>5, <2>6
<1>4. ASSUME NEW n \in 1..MaxFragment, DeliverSealed(n) \/ LoseSealed(n) PROVE HelloInOrder'
  <2>1. /\ pc \in {"plain", "sealed"} /\ reading = NoRecord /\ Seal(n)
        /\ reading' \in {last_record', reading}
    BY <1>4 DEF DeliverSealed, LoseSealed, AwaitsRecord
  <2>2. last_record'.kind = "sealed" /\ UNCHANGED <<server, hello_sent, pc, handshake>>
    BY <2>1 DEF Seal, Sealed
  <2> QED BY <2>1, <2>2, HelloFrame, NoRecordShape
<1>5. CASE DeliverStray
  <2>1. /\ pc \in {"plain", "sealed"} /\ reading = NoRecord /\ reading' \in Strays
        /\ UNCHANGED <<server, hello_sent, pc, handshake>>
    BY <1>5 DEF DeliverStray, AwaitsRecord
  <2>2. last_record # NoRecord => last_record.kind = "sealed"
    BY <2>1, NoRecordShape DEF SoundInv, RecordsInOrder, Over, StrayRead
  <2>3. Plain("ccs", <<>>).kind = "ccs" /\ Plain("alert", <<>>).kind = "alert"
        /\ Plain("junk", <<>>).kind = "junk"
    BY DEF Plain
  <2>4. reading'.kind # "handshake"
    BY <2>1, <2>2, <2>3 DEF Strays
  <2> QED BY <2>1, <2>4, HelloFrame, NoRecordShape
<1>6. CASE DeliverSealedStray
  <2>1. /\ pc \in {"plain", "sealed"} /\ reading = NoRecord /\ reading'.kind = "sealed"
        /\ UNCHANGED <<server, hello_sent, pc, handshake>>
    BY <1>6 DEF DeliverSealedStray, AwaitsRecord, Sealed
  <2> QED BY <2>1, HelloFrame, NoRecordShape
<1>7. CASE PeerCloses \/ RefuseRecord \/ OpenFails \/ PopRefused \/ Expire
  <2>1. \E why : Fail(why)
    BY <1>7 DEF PeerCloses, RefuseRecord, OpenFails, PopRefused, Expire
  <2> QED BY <1>1, <2>1 DEF Fail
<1>8. CASE OpenRecord \/ PopMessage \/ PopEnd \/ Check
  BY <1>1, <1>8 DEF OpenRecord, PopMessage, PopEnd, Check, Fail
<1>9. CASE Connect \/ SendHello
  <2>1. /\ pc \in {"connect", "send"} /\ pc' \in {"send", "plain"}
        /\ UNCHANGED <<server, hello_sent, reading, handshake>>
    BY <1>9 DEF Connect, SendHello
  <2>2. hello_sent = 0 /\ handshake = <<>> /\ reading = NoRecord
    BY <2>1 DEF HelloInOrder
  <2>3. HelloReaches(hello_sent)'
    BY <2>1, <2>2 DEF HelloReaches
  <2>4. ~IsComplete(handshake)' /\ ~IsTooLong(handshake)'
    BY <2>1, <2>2 DEF IsComplete, IsTooLong
  <2> QED BY <2>1, <2>2, <2>3, <2>4, NoRecordShape DEF HelloInOrder
<1>10. CASE SkipCcs
  BY <1>10, HelloFrame, NoRecordShape DEF SkipCcs, Reads
<1>11. CASE TakeHello
  <2> DEFINE buffer == handshake \o reading.units
  <2>1. /\ pc = "plain" /\ reading.kind = "handshake" /\ reading' = NoRecord
        /\ UNCHANGED <<server, hello_sent>>
    BY <1>11 DEF TakeHello, Reads
  <2>2. /\ buffer \in Seq(Unit) /\ Len(buffer) = hello_sent
        /\ \A j \in 1..hello_sent : buffer[j] = Hello[j]
    BY <2>1, HelloBuffer
  <2> HIDE DEF buffer
  <2>3. \/ pc' \in {"failed", "sealed"}
        \/ pc' = pc /\ handshake' = buffer /\ ~IsTooLong(buffer) /\ ~IsComplete(buffer)
    BY <1>11 DEF TakeHello, Fail, buffer
  <2>4. CASE pc' = pc /\ handshake' = buffer /\ ~IsTooLong(buffer) /\ ~IsComplete(buffer)
    <3>1. Hello' = Hello
      BY <2>1, ServerFixed
    <3>2. HelloReaches(hello_sent)'
      BY <2>1, <2>2, <2>4, <3>1 DEF HelloReaches
    <3>3. ~IsComplete(handshake)' /\ ~IsTooLong(handshake)'
      BY <2>1, <2>4 DEF IsComplete, IsTooLong, SizeOf, TypeOf
    <3> QED BY <2>1, <2>4, <3>2, <3>3, NoRecordShape DEF HelloInOrder
  <2> QED BY <1>1, <2>3, <2>4
<1>12. CASE Tick \/ UNCHANGED vars
  <2>1. UNCHANGED <<server, hello_sent, pc, reading, handshake>>
    BY <1>12 DEF Tick, vars
  <2>2. Hello' = Hello
    BY <2>1, ServerFixed
  <2>3. IsComplete(handshake)' = IsComplete(handshake) /\ IsTooLong(handshake)' = IsTooLong(handshake)
    BY <2>1 DEF IsComplete, IsTooLong, SizeOf, TypeOf
  <2> QED BY <2>1, <2>2, <2>3 DEF HelloInOrder, HelloReaches
<1> QED
  BY <1>3, <1>4, <1>5, <1>6, <1>7, <1>8, <1>9, <1>10, <1>11, <1>12 DEF Next, Wire, Client, Stop

\* What is buffered never outgrows the limit (263, 443-444).
LEMMA RoomStep == SoundInv /\ HelloInOrder /\ RoomLeft /\ [Next]_vars => RoomLeft'
<1> SUFFICES ASSUME SoundInv, HelloInOrder, RoomLeft, [Next]_vars, pc' # "failed"
             PROVE  Len(handshake') <= MaxBuffer
  BY DEF RoomLeft
<1> USE DEF peer
<1>1. server \in Servers /\ handshake \in Seq(Unit) /\ MaxBuffer \in Nat
  BY SizesAssumption DEF SoundInv, Types
<1>2. CASE TakeHello
  <2> DEFINE buffer == handshake \o reading.units
             z == UnitsOf["ServerHello"]
  <2>1. /\ buffer \in Seq(Unit) /\ Len(buffer) = hello_sent
        /\ \A j \in 1..hello_sent : buffer[j] = Hello[j]
    BY <1>2, HelloBuffer DEF TakeHello, Reads
  <2>2. handshake' = <<>> \/ (handshake' = buffer /\ ~IsTooLong(buffer) /\ ~IsComplete(buffer))
    BY <1>2 DEF TakeHello, Fail
  <2> HIDE DEF buffer
  <2>3. CASE handshake' = buffer /\ ~IsTooLong(buffer) /\ ~IsComplete(buffer) /\ buffer # <<>>
    <3>1. SizeOf(buffer) = z /\ z \in Nat
      BY <1>1, <2>1, <2>3, HelloHead, HelloShape
    <3>2. ~(z > MaxBuffer) /\ ~(Len(buffer) >= z)
      BY <2>3, <3>1 DEF IsTooLong, IsComplete
    <3>3. Len(buffer) \in Nat
      BY <2>1
    <3> QED BY <1>1, <2>3, <3>1, <3>2, <3>3
  <2> QED BY <1>1, <2>2, <2>3
<1>3. CASE OpenRecord
  <2>1. CASE reading.inner # "handshake"
    BY <1>3, <2>1 DEF OpenRecord, Fail
  <2>2. CASE reading.inner = "handshake"
    <3>1. ~Overflows(handshake') /\ handshake' = handshake \o reading.units
      BY <1>3, <2>2 DEF OpenRecord, Fail
    <3>2. handshake' \in Seq(Unit)
      <4> DEFINE u == reading.units
      <4>1. u \in Seq(Unit)
        BY DEF SoundInv, Types, Records
      <4> HIDE DEF u
      <4>2. handshake \o u \in Seq(Unit)
        BY <1>1, <4>1, ConcatShape
      <4> QED BY <3>1, <4>2 DEF u
    <3> QED BY <1>1, <3>1, <3>2 DEF Overflows
  <2> QED BY <2>1, <2>2
<1>4. CASE PopMessage
  <2>1. pc = "popping" /\ IsComplete(handshake) /\ handshake' = Rest(handshake)
    BY <1>4 DEF PopMessage
  <2>2. SizeOf(handshake) \in 1..Len(handshake)
    BY <2>1, NextMessage
  <2> DEFINE a == SizeOf(handshake)
             n == Len(handshake) - a
  <2>3. a \in Nat /\ n \in Nat /\ a + n = Len(handshake) /\ n <= Len(handshake) /\ Len(handshake) \in Nat
    BY <1>1, <2>2
  <2>4. handshake' = SubSeq(handshake, a + 1, a + n)
    BY <2>1, <2>3 DEF Rest
  <2> HIDE DEF a, n
  <2>5. Len(SubSeq(handshake, a + 1, a + n)) = n
    BY <1>1, <2>3, PieceShape
  <2>6. Len(handshake) <= MaxBuffer
    BY <2>1 DEF RoomLeft
  <2> QED BY <1>1, <2>3, <2>4, <2>5, <2>6
<1>5. CASE \/ UNCHANGED <<pc, handshake>>
           \/ Connect \/ SendHello \/ PopEnd \/ Check
  <2>1. handshake' = handshake /\ pc # "failed"
    BY <1>5 DEF Connect, SendHello, PopEnd, Check, Fail
  <2> QED BY <2>1 DEF RoomLeft
<1>6. CASE PeerCloses \/ RefuseRecord \/ OpenFails \/ PopRefused \/ Expire
  <2>1. \E why : Fail(why)
    BY <1>6 DEF PeerCloses, RefuseRecord, OpenFails, PopRefused, Expire
  <2> QED BY <2>1 DEF Fail
<1>7. CASE Wire
  BY <1>5, <1>6, <1>7
     DEF Wire, DeliverHello, DeliverSealed, LoseSealed, Seal, DeliverStray, DeliverSealedStray
<1>8. CASE SkipCcs \/ Tick \/ UNCHANGED vars
  BY <1>5, <1>8 DEF SkipCcs, Tick, vars
<1> QED BY <1>2, <1>3, <1>4, <1>5, <1>6, <1>7, <1>8 DEF Next, Client, Stop

-----------------------------------------------------------------------------
(* A conforming server behind an honest stream *)

\* What a conforming server's flight begins with, and how large it is.
LEMMA HonestShape ==
  ASSUME server \in Servers, Honest
  PROVE  /\ server.faults = {} /\ server.hello_ok /\ server.cert_ok /\ server.verify_ok
         /\ Len(Hello) = UnitsOf["ServerHello"] /\ UnitsOf["ServerHello"] <= MaxBuffer
         /\ Len(server.flight) >= 3 /\ MaxFragment <= MaxBuffer
         /\ \A i \in 1..3 : server.flight[i] = Expected[i]
         /\ \A i \in 1..Len(server.flight) : UnitsOf[TypeOf(i)] + MaxFragment <= MaxBuffer
<1>1. /\ IsPrefix(Expected, server.flight)
      /\ server.hello_ok /\ ~server.hello_extra /\ server.cert_ok /\ server.verify_ok
      /\ server.faults = {} /\ UnitsOf["ServerHello"] <= MaxBuffer
      /\ \A i \in 1..Len(server.flight) : UnitsOf[server.flight[i]] + MaxFragment <= MaxBuffer
  BY DEF Honest, Conforming
<1>2. server.flight \in Seq(STRING) /\ Len(server.flight) \in Nat
  BY FlightShape
<1>3. Len(Expected) = 3
  BY DEF Expected
<1>4. Len(server.flight) >= 3 /\ \A i \in 1..3 : server.flight[i] = Expected[i]
  <2>1. 3 <= Len(server.flight) /\ Expected = SubSeq(server.flight, 1, 3)
    BY <1>1, <1>3 DEF IsPrefix, Expected
  <2>2. \A i \in 1..3 : SubSeq(server.flight, 0 + 1, 0 + 3)[i] = server.flight[0 + i]
    BY <1>2, <2>1, PieceShape
  <2> QED BY <1>2, <2>1, <2>2
<1>5. \A i \in 1..Len(server.flight) :
         UnitsOf[TypeOf(i)] \in Nat /\ UnitsOf[TypeOf(i)] + MaxFragment <= MaxBuffer
  <2> TAKE i \in 1..Len(server.flight)
  <2>1. i \in 0..Len(server.flight) /\ i # 0
    BY <1>2
  <2>2. UnitsOf[TypeOf(i)] \in Nat
    BY <2>1, MessageShape
  <2> QED BY <1>1, <2>1, <2>2 DEF TypeOf
<1>6. MaxFragment <= MaxBuffer
  <2>1. 1 \in 1..Len(server.flight)
    BY <1>2, <1>4
  <2>2. \E a \in Nat : a + MaxFragment <= MaxBuffer
    BY <1>5, <2>1
  <2> QED BY <2>2, SizesAssumption
<1> QED BY <1>1, <1>4, <1>5, <1>6, HelloShape

\* Whether a server is an honest one does not change.
LEMMA HonestFixed == UNCHANGED server => Honest' = Honest
  BY DEF Honest, Conforming

\* Steps that leave the wire, the record and the place of the client alone.
LEMMA HonestFrame ==
  ASSUME HonestInStep, pc' = pc,
         UNCHANGED <<server, hello_sent, server_sequence, last_record, reading, sequence, reason>>
  PROVE  HonestInStep'
  BY HonestFixed, ServerFixed DEF HonestInStep, StrayRead

\* What the wire brings of an honest stream.
LEMMA HonestWire ==
  ASSUME SoundInv, HelloInOrder, HonestInStep, Honest, Wire
  PROVE  HonestInStep'
<1> USE DEF peer
<1>1. server \in Servers /\ server_sequence \in Nat /\ sequence \in Nat /\ hello_sent \in Nat
  BY HelloShape DEF SoundInv, Types
<1>2. server.faults = {}
  BY <1>1, HonestShape
<1>3. ASSUME AwaitsRecord
      PROVE  /\ pc \in {"plain", "sealed"} /\ reading = NoRecord
             /\ pc = "plain" => server_sequence = 0
             /\ pc = "sealed" => hello_sent = Len(Hello) /\ sequence = server_sequence
  BY <1>3, NoRecordShape DEF AwaitsRecord, HonestInStep
<1>4. ASSUME AwaitsRecord, pc = "plain", hello_sent = Len(Hello) PROVE FALSE
  <2>1. reading.kind # "handshake" /\ handshake \in Seq(Unit)
    BY <1>3, <1>4, NoRecordShape DEF SoundInv, Types
  <2>2. /\ Len(handshake) = Len(Hello) /\ \A j \in 1..Len(handshake) : handshake[j] = Hello[j]
        /\ ~IsComplete(handshake) /\ ~IsTooLong(handshake)
    BY <1>4, <2>1 DEF HelloInOrder, HelloReaches
  <2>3. Len(Hello) = UnitsOf["ServerHello"] /\ UnitsOf["ServerHello"] \in Nat \ {0}
    BY <1>1, HonestShape, HelloShape
  <2>4. handshake # <<>>
    BY <2>1, <2>2, <2>3
  <2>5. SizeOf(handshake) = UnitsOf["ServerHello"]
    BY <1>1, <2>1, <2>2, <2>4, HelloHead
  <2> QED BY <2>2, <2>3, <2>4, <2>5 DEF IsComplete
<1>5. ASSUME NEW n \in 1..MaxFragment, DeliverHello(n) PROVE HonestInStep'
  <2> DEFINE u == SubSeq(Hello, hello_sent + 1, hello_sent + n)
  <2>1. /\ AwaitsRecord /\ hello_sent + n <= Len(Hello) /\ reading' = Plain("handshake", u)
        /\ UNCHANGED <<server, server_sequence, last_record, pc, reason>>
    BY <1>5 DEF DeliverHello
  <2>2. n \in Nat /\ n # 0
    BY SizesAssumption
  <2>3. u \in Seq(Unit)
    BY <1>1, <2>1, <2>2, HelloShape, PieceShape
  <2> HIDE DEF u
  <2>4. reading'.kind = "handshake"
    BY <2>1, <2>3, PlainShape DEF Kinds
  <2>5. pc = "plain"
    BY <1>1, <1>3, <2>1, <2>2
  <2> QED BY <1>3, <2>1, <2>4, <2>5, HonestFixed DEF HonestInStep, StrayRead
<1>6. ASSUME NEW n \in 1..MaxFragment, DeliverSealed(n) PROVE HonestInStep'
  <2> DEFINE u == SubSeq(Stream, sent + 1, sent + n)
  <2>1. /\ AwaitsRecord /\ hello_sent = Len(Hello) /\ sent + n <= Len(Stream)
        /\ server_sequence' = server_sequence + 1
        /\ last_record' = Sealed(server_sequence, "handshake", u) /\ reading' = last_record'
        /\ UNCHANGED <<server, hello_sent, pc, sequence, reason>>
    BY <1>6 DEF DeliverSealed, Seal
  <2>2. pc = "sealed" /\ sequence = server_sequence
    BY <1>3, <1>4, <2>1
  <2>3. u \in Seq(Unit) /\ Len(u) <= MaxFragment
    <3>1. Stream \in Seq(Unit) /\ sent \in Nat /\ n \in Nat /\ n <= MaxFragment
      BY <1>1, StreamLayout, SizesAssumption DEF SoundInv, Types
    <3>2. Len(u) = n /\ u \in Seq(Unit)
      BY <2>1, <3>1, PieceShape
    <3> QED BY <3>1, <3>2
  <2> HIDE DEF u
  <2>4. /\ last_record'.kind = "sealed" /\ last_record'.inner = "handshake"
        /\ last_record'.units = u
    BY <2>1 DEF Sealed
  <2>5. Hello' = Hello
    BY <2>1, ServerFixed
  <2>6. reason = "none" /\ pc # "failed"
    BY <2>2 DEF SoundInv, Types
  <2> QED BY <2>1, <2>2, <2>3, <2>4, <2>5, <2>6 DEF HonestInStep, StrayRead
<1>7. CASE DeliverStray
  <2>1. AwaitsRecord /\ reading' = Plain("ccs", <<>>)
        /\ UNCHANGED <<server, hello_sent, server_sequence, last_record, pc, sequence, reason>>
    BY <1>2, <1>7 DEF DeliverStray, Strays
  <2>2. reading'.kind = "ccs"
    BY <2>1 DEF Plain
  <2>3. Hello' = Hello
    BY <2>1, ServerFixed
  <2> QED BY <1>3, <2>1, <2>2, <2>3, HonestFixed DEF HonestInStep, StrayRead
<1> QED
  BY <1>2, <1>5, <1>6, <1>7 DEF Wire, LoseSealed, DeliverSealedStray, PeerCloses

\* ServerHello fits, stands alone and is of the profile (406-420).
LEMMA HonestHello ==
  ASSUME SoundInv, HelloInOrder, HonestInStep, Honest, TakeHello
  PROVE  HonestInStep'
<1> USE DEF peer
<1> DEFINE buffer == handshake \o reading.units
           z == UnitsOf["ServerHello"]
<1>1. /\ pc = "plain" /\ reading.kind = "handshake" /\ reading' = NoRecord
      /\ UNCHANGED <<server, hello_sent, server_sequence, last_record, sequence>>
  BY DEF TakeHello, Reads
<1>2. server \in Servers /\ hello_sent \in 0..Len(Hello) /\ z \in Nat \ {0}
  BY HelloShape DEF SoundInv, Types
<1>3. /\ buffer \in Seq(Unit) /\ Len(buffer) = hello_sent
      /\ \A j \in 1..Len(buffer) : buffer[j] = Hello[j]
  BY <1>1, HelloBuffer
<1>4. Len(Hello) = z /\ z <= MaxBuffer /\ server.hello_ok
  BY <1>2, HonestShape
<1> HIDE DEF buffer
<1>5. buffer # <<>> => SizeOf(buffer) = z
  BY <1>2, <1>3, HelloHead
<1>6. ~IsTooLong(buffer)
  BY <1>2, <1>4, <1>5, SizesAssumption DEF IsTooLong
<1>7. IsComplete(buffer) => Rest(buffer) = <<>> /\ hello_sent = Len(Hello)
  <2> SUFFICES ASSUME IsComplete(buffer) PROVE Rest(buffer) = <<>> /\ hello_sent = Len(Hello)
    OBVIOUS
  <2>1. buffer # <<>> /\ Len(buffer) >= SizeOf(buffer)
    BY DEF IsComplete
  <2>2. Len(buffer) = z
    BY <2>1, <1>2, <1>3, <1>4, <1>5
  <2>3. Rest(buffer) = SubSeq(buffer, z + 1, z + 0)
    BY <2>1, <2>2, <1>2, <1>5 DEF Rest
  <2>4. z \in Nat /\ z + 0 <= Len(buffer) /\ 0 \in Nat
    BY <2>2, <1>2
  <2> HIDE DEF z
  <2>5. SubSeq(buffer, z + 1, z + 0) \in Seq(Unit) /\ Len(SubSeq(buffer, z + 1, z + 0)) = 0
    BY <2>4, <1>3, PieceShape
  <2> DEFINE rest == SubSeq(buffer, z + 1, z + 0)
  <2>6. rest \in Seq(Unit) /\ Len(rest) = 0
    BY <2>5
  <2> HIDE DEF rest
  <2>7. rest = <<>>
    BY <2>6
  <2> QED BY <2>2, <2>3, <2>7, <1>3, <1>4 DEF rest
<1>8. \/ pc' = pc /\ UNCHANGED reason
      \/ pc' = "sealed" /\ UNCHANGED reason /\ hello_sent = Len(Hello)
  BY <1>4, <1>6, <1>7 DEF TakeHello, buffer
<1>9. server_sequence = 0 /\ sequence = 0 /\ reason = "none"
  BY <1>1 DEF HonestInStep, SoundInv, Types, BufferFollowsStream
<1>10. Hello' = Hello
  BY <1>1, ServerFixed
<1>11. Len(last_record.units) <= MaxFragment
  BY DEF HonestInStep
<1> QED BY <1>1, <1>8, <1>9, <1>10, <1>11, NoRecordShape DEF HonestInStep, StrayRead

\* Its records open and leave room for one more (435-445).
LEMMA HonestOpen ==
  ASSUME SoundInv, HonestInStep, Honest, OpenFails \/ OpenRecord
  PROVE  HonestInStep'
<1> USE DEF peer
<1> DEFINE u == reading.units
           k == Len(captured)
           z == UnitsOf[TypeOf(k + 1)]
           h == Len(handshake)
<1>1. pc = "sealed" /\ reading.kind = "sealed" /\ UNCHANGED <<peer, captured>>
  BY DEF OpenFails, OpenRecord, Reads
<1>2. reading.inner = "handshake" /\ ~StrayRead /\ ~Over
  BY <1>1 DEF HonestInStep, StrayRead, Over
<1>3. /\ reading = last_record /\ last_record.number + 1 = server_sequence
      /\ Len(u) <= sent
  BY <1>1, <1>2, NoRecordShape DEF SoundInv, RecordsInOrder
<1>4. sequence + 1 = server_sequence /\ Len(u) <= MaxFragment /\ hello_sent = Len(Hello)
  BY <1>1, <1>3 DEF HonestInStep
<1>5. reading.number = sequence
  BY <1>3, <1>4 DEF SoundInv, Types, Records
<1>6. OpenRecord /\ sequence' = sequence + 1 /\ reading' = NoRecord
      /\ handshake' = handshake \o u
      /\ (IF Overflows(handshake') THEN Fail("too_large") ELSE pc' = "popping" /\ UNCHANGED reason)
  BY <1>2, <1>5 DEF OpenFails, OpenRecord, Authenticates
<1>7. /\ server \in Servers /\ handshake \in Seq(Unit) /\ u \in Seq(Unit)
      /\ sent \in 0..Len(Stream) /\ Len(Stream) \in Nat
      /\ MaxFragment \in Nat /\ MaxBuffer \in Nat /\ k \in Nat /\ Len(server.flight) \in Nat
  BY StreamLayout, FlightShape, SizesAssumption DEF SoundInv, Types, Records
<1>8. h + MaxFragment <= MaxBuffer
  <2>1. CASE handshake = <<>>
    <3>1. MaxFragment <= MaxBuffer
      BY <1>7, HonestShape
    <3> QED BY <2>1, <3>1, <1>7
  <2>2. CASE handshake # <<>>
    <3>1. sent - Len(u) \in 0..Len(Stream)
      BY <1>3, <1>7
    <3>2. Reaches(sent - Len(u))
      BY <1>2, <1>3, <1>4 DEF SoundInv, BufferFollowsStream
    <3>3. k < Len(server.flight) /\ SizeOf(handshake) = z
      BY <1>1, <2>2, <3>1, <3>2, HeadOfBuffer
    <3>4. k + 1 \in 1..Len(server.flight)
      BY <1>7, <3>3
    <3>5. z + MaxFragment <= MaxBuffer /\ z \in Nat
      BY <1>7, <3>4, HonestShape, MessageShape
    <3>6. ~IsComplete(handshake) /\ ~IsTooLong(handshake)
      BY <1>1 DEF SoundInv, CapturedInOrder
    <3>7. ~(h >= z)
      BY <2>2, <3>3, <3>6 DEF IsComplete
    <3>8. h \in Nat
      BY <1>7
    <3> HIDE DEF z, h
    <3> QED BY <3>5, <3>7, <3>8, <1>7
  <2> QED BY <2>1, <2>2
<1>9. ~Overflows(handshake')
  <2> HIDE DEF u
  <2>1. Len(handshake \o u) = h + Len(u)
    BY <1>7, ConcatShape
  <2>2. h \in Nat /\ Len(u) \in Nat
    BY <1>7
  <2>3. ~(h + Len(u) > MaxBuffer)
    <3> HIDE DEF h
    <3> QED BY <1>4, <1>7, <1>8, <2>2
  <2> QED BY <1>6, <2>1, <2>3 DEF Overflows
<1>10. pc' = "popping" /\ UNCHANGED reason /\ UNCHANGED <<server, hello_sent, last_record>>
  BY <1>1, <1>6, <1>9
<1>11. Hello' = Hello
  BY <1>1, ServerFixed
<1>12. Len(last_record.units) <= MaxFragment
  BY DEF HonestInStep
<1> QED BY <1>4, <1>6, <1>10, <1>11, <1>12, NoRecordShape DEF HonestInStep, StrayRead

\* Nothing that is popped is refused (446-460).
LEMMA HonestPop ==
  ASSUME SoundInv, HonestInStep, Honest
  PROVE  ~PopRefused
<1> DEFINE k == Len(captured)
           z == UnitsOf[TypeOf(k + 1)]
<1> SUFFICES ASSUME PopRefused PROVE FALSE
  OBVIOUS
<1>1. /\ pc = "popping" /\ ~HasAll
      /\ \/ IsTooLong(handshake)
         \/ IsComplete(handshake) /\ ~RightType
         \/ IsComplete(handshake) /\ CertificateIsRefused
  BY DEF PopRefused, IsDrained
<1>2. server \in Servers /\ handshake \in Seq(Unit) /\ sent \in 0..Len(Stream)
      /\ k \in Nat /\ Len(server.flight) \in Nat /\ MaxFragment \in Nat /\ MaxBuffer \in Nat
  BY FlightShape, SizesAssumption DEF SoundInv, Types
<1>3. handshake # <<>> /\ Reaches(sent)
  BY <1>1 DEF SoundInv, BufferFollowsStream, Over, IsTooLong, IsComplete
<1>4. k < Len(server.flight) /\ Head(handshake) = <<k + 1, 1>> /\ SizeOf(handshake) = z
  BY <1>1, <1>2, <1>3, HeadOfBuffer
<1>5. k + 1 \in 1..Len(server.flight)
  BY <1>2, <1>4
<1>6. ~IsTooLong(handshake)
  <2>1. z \in Nat /\ z + MaxFragment <= MaxBuffer
    BY <1>2, <1>5, HonestShape, MessageShape
  <2>2. ~(z > MaxBuffer)
    <3> HIDE DEF z
    <3> QED BY <1>2, <2>1
  <2> QED BY <1>4, <2>2 DEF IsTooLong
<1>7. k + 1 \in 1..3
  <2>1. Len(Expected) = 3 /\ k <= Len(Expected)
    BY DEF Expected, SoundInv, CapturedInOrder
  <2>2. k # 3
    BY <1>1, <2>1 DEF HasAll
  <2>3. k \in Nat /\ k <= 3
    BY <1>2, <2>1
  <2> HIDE DEF k
  <2> QED BY <2>2, <2>3
<1>8. RightType
  <2>1. server.flight[k + 1] = Expected[k + 1]
    BY <1>2, <1>7, HonestShape
  <2>2. TypeOf(k + 1) = server.flight[k + 1]
    BY <1>2 DEF TypeOf
  <2> QED BY <1>4, <2>1, <2>2 DEF RightType
<1>9. ~CertificateIsRefused
  BY <1>2, HonestShape DEF CertificateIsRefused
<1> QED BY <1>1, <1>6, <1>8, <1>9

\* No step gets an honest server out of step with the client.
LEMMA HonestStep == SoundInv /\ HelloInOrder /\ HonestInStep /\ [Next]_vars => HonestInStep'
<1> SUFFICES ASSUME SoundInv, HelloInOrder, HonestInStep, [Next]_vars, Honest'
             PROVE  HonestInStep'
  BY DEF HonestInStep
<1> USE DEF peer
<1>1. UNCHANGED server
  BY DEF Next, Wire, DeliverHello, DeliverSealed, LoseSealed, Seal, DeliverStray,
         DeliverSealedStray, PeerCloses, Client, Connect, SendHello, SkipCcs, RefuseRecord,
         TakeHello, OpenFails, OpenRecord, PopMessage, PopRefused, PopEnd, Check, Expire,
         Tick, Stop, vars
<1>2. Honest /\ server \in Servers /\ Hello' = Hello
  BY <1>1, HonestFixed, ServerFixed DEF SoundInv, Types
<1>3. CASE Wire
  BY <1>2, <1>3, HonestWire
<1>4. CASE TakeHello
  BY <1>2, <1>4, HonestHello
<1>5. CASE OpenFails \/ OpenRecord
  BY <1>2, <1>5, HonestOpen
<1>6. CASE PopRefused
  BY <1>2, <1>6, HonestPop
<1>7. CASE RefuseRecord
  BY <1>2, <1>7 DEF RefuseRecord, Reads, HonestInStep
<1>8. CASE PopMessage \/ Tick \/ UNCHANGED vars
  <2>1. /\ pc' = pc
        /\ UNCHANGED <<server, hello_sent, server_sequence, last_record, reading, sequence, reason>>
    BY <1>8 DEF PopMessage, Tick, vars
  <2> QED BY <2>1, HonestFrame
<1>9. CASE Connect \/ SendHello
  <2>1. /\ pc \in {"connect", "send"} /\ pc' \in {"send", "plain"}
        /\ UNCHANGED <<peer, reading, sequence, reason>>
    BY <1>9 DEF Connect, SendHello
  <2> QED BY <1>2, <2>1 DEF HonestInStep, StrayRead
<1>10. CASE SkipCcs
  <2>1. /\ pc \in {"plain", "sealed"} /\ reading.kind = "ccs" /\ reading' = NoRecord
        /\ UNCHANGED <<peer, pc, sequence, reason>>
    BY <1>10 DEF SkipCcs, Reads
  <2> QED BY <1>2, <2>1, NoRecordShape DEF HonestInStep, StrayRead
<1>11. CASE PopEnd
  <2>1. /\ pc = "popping" /\ pc' \in {"checking", "sealed"}
        /\ UNCHANGED <<peer, reading, sequence, reason>>
    BY <1>11 DEF PopEnd
  <2>2. reading = NoRecord /\ sequence = server_sequence
    BY <2>1 DEF SoundInv, BufferFollowsStream
  <2> QED BY <1>2, <2>1, <2>2, NoRecordShape DEF HonestInStep, StrayRead
<1>12. CASE Check
  <2>1. server.verify_ok
    BY <1>2, HonestShape
  <2>2. pc' = "done" /\ UNCHANGED <<peer, reading, sequence, reason>>
    BY <1>12, <2>1 DEF Check
  <2> QED BY <1>2, <2>2 DEF HonestInStep, StrayRead
<1>13. CASE Expire
  <2>1. pc' = "failed" /\ reason' = "timeout" /\ UNCHANGED <<peer, reading, sequence>>
    BY <1>13 DEF Expire, Fail
  <2> QED BY <1>2, <2>1 DEF HonestInStep, StrayRead
<1> QED
  BY <1>3, <1>4, <1>5, <1>6, <1>7, <1>8, <1>9, <1>10, <1>11, <1>12, <1>13 DEF Next, Client, Stop

-----------------------------------------------------------------------------
(* All of it holds in every capture *)

\* It holds of the start.
LEMMA CaptureInvInit == Init => CaptureInv
<1> SUFFICES ASSUME Init PROVE CaptureInv
  OBVIOUS
<1>1. SoundInv
  BY CaptureInit
<1>2. HelloInOrder
  BY DEF Init, HelloInOrder
<1>3. <<>> \in Seq(Unit) /\ Len(<<>>) = 0 /\ "none" \in Kinds
  BY DEF Kinds
<1>4. RoomLeft
  BY <1>3, SizesAssumption DEF Init, RoomLeft
<1>5. NoRecord.units = <<>> /\ 0 <= MaxFragment
  <2>1. NoRecord.units = <<>>
    BY <1>3, PlainShape DEF NoRecord
  <2>2. 0 <= MaxFragment
    BY SizesAssumption
  <2> QED BY <2>1, <2>2
<1>6. HonestInStep
  BY <1>3, <1>5, NoRecordShape DEF Init, HonestInStep, StrayRead
<1> QED BY <1>1, <1>2, <1>4, <1>6 DEF CaptureInv

\* It holds of every capture.
LEMMA CaptureInvHolds == Spec => []CaptureInv
<1>1. CaptureInv /\ [Next]_vars => CaptureInv'
  BY SoundStep, HelloStep, RoomStep, HonestStep DEF CaptureInv
<1> QED BY CaptureInvInit, <1>1, PTL DEF Spec

\* Neither in the clear nor under the server's keys does the client read on with
\* a message in its buffer that is complete or announced too long, nor past a
\* certificate that was refused (406-413, 446-460).
THEOREM CaptureLooksBeforeReading == Spec => LooksBeforeReading
<1>1. CaptureInv /\ [Next]_vars =>
         [reading = NoRecord /\ reading' # NoRecord =>
             /\ ~IsComplete(handshake) /\ ~IsTooLong(handshake)
             /\ Len(captured) >= 2 => server.cert_ok]_vars
  <2> SUFFICES ASSUME CaptureInv, Next, reading = NoRecord, reading' # NoRecord
               PROVE  /\ ~IsComplete(handshake) /\ ~IsTooLong(handshake)
                      /\ Len(captured) >= 2 => server.cert_ok
    BY DEF vars
  <2>1. pc \in {"plain", "sealed"}
    BY DEF Next, Wire, Client, DeliverHello, DeliverSealed, LoseSealed, DeliverStray,
           DeliverSealedStray, PeerCloses, AwaitsRecord, Connect, SendHello, SkipCcs,
           RefuseRecord, TakeHello, OpenFails, OpenRecord, PopMessage, PopRefused, PopEnd,
           Check, Expire, Tick, Stop, vars
  <2>2. CASE pc = "plain"
    BY <2>2 DEF CaptureInv, HelloInOrder, SoundInv, CapturedInOrder
  <2>3. CASE pc = "sealed"
    BY <2>3 DEF CaptureInv, SoundInv, CapturedInOrder
  <2> QED BY <2>1, <2>2, <2>3
<1> QED BY <1>1, CaptureInvHolds, PTL DEF Spec, LooksBeforeReading

\* The state of a capture keeps its types and its limits (365-476).
THEOREM CaptureTypeOK == Spec => []TypeOK
<1>1. CaptureInv => TypeOK
  <2> SUFFICES ASSUME CaptureInv PROVE TypeOK
    OBVIOUS
  <2>1. server \in Servers /\ hello_sent \in 0..Len(Hello)
    BY DEF CaptureInv, SoundInv, Types
  <2>2. hello_sent \in 0..(UnitsOf["ServerHello"] + 1)
    BY <2>1, HelloShape
  <2> QED BY <2>1, <2>2
          DEF CaptureInv, SoundInv, Types, RoomLeft, BufferFollowsStream, CapturedInOrder, TypeOK
<1> QED BY <1>1, CaptureInvHolds, PTL

\* However a conforming server cuts its flight into records, and whatever it
\* coalesces or interleaves, only the deadline makes its capture fail (365-476).
THEOREM ConformingCaptured == Spec => []ConformingIsCaptured
<1>1. CaptureInv => ConformingIsCaptured
  BY DEF CaptureInv, HonestInStep, Honest, ConformingIsCaptured
<1> QED BY <1>1, CaptureInvHolds, PTL
=============================================================================
