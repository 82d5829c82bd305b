# A TLA+ development of connectcoin-p2c-tools

`p2c-tools` opens real TLS 1.3 connections to a server, captures the first
messages of each handshake, and looks for one whose hash meets a work target.
The messages, with the certificate chain and the server's signature over the
challenge, are a *connection proof*. This directory holds TLA+ modules
translated from the Python source under `src/src/connectcoin_p2c_tools/`, the
TLC configurations that check them on small instances, and TLAPS proofs of what
matters most for all values of the constants. `PROJECT.json` gives, for every
definition, the source lines it stands for.

## 1. The system

| component | source | state it keeps | operations |
|---|---|---|---|
| proof search | `generator.py:127-269` | clock, counters, `pending`, best hash, preflight flag, thread pool and its futures | the loop: limits, filling the pool, waiting, collecting, report; cleanup |
| endpoint resolution | `generator.py:76-110` | none | filter over `getaddrinfo` |
| capture client | `tls13.py:229-476` | socket and deadline, two handshake buffers, record sequence, captured messages | receive a record, decrypt, pop a message, check |
| key schedule | `tls13.py` (HKDF, keys) | none | straight-line cryptography |
| proof parser | `protocol.py` | none | TLV readers over bytes |
| verifier | `verify.py` | none of its own; reads the root bundle from disk on every call | `validate_root_bundle`, `verify_connection_proof` |
| envelope | `envelope.py`, `domain.py` | the destination file | `from_dict`, `read`, `write` |
| hashes, target, signature mask | `hashes.py`, `signatures.py` | none | pure |
| command line | `cli.py` | exit status | `generate`, `verify`, `inspect`, `challenge` |

How they interact. `cli._generate` reads a context, calls
`generate_connection_proof`, writes the returned envelope with
`ConnectionProof.write` and prints a report; `main` turns the outcome into an
exit status. The search validates the root bundle, resolves the domain, and
then shares a `ThreadPoolExecutor` with its worker threads, each of which runs
`capture_tls13_proof` and hands a result or an exception back in a future.
Candidates are verified on the calling thread with `verify_connection_proof`,
which opens the bundle file again. KeyboardInterrupt may strike the calling
thread at any point. Other processes share the destination path and the
bundle's path with this one.

What is hard in it, and what makes each part correct:

* **Search.** Workers finish in any order while the loop polls; a return or an
  exception leaves finished futures unread; three limits (attempts, rate, time)
  act at different lines on different readings of the clock; candidates are
  verified in one of two ways. Correct means: the answer is true (a returned
  proof is good, an exhausted search has nothing good), no good proof that was
  looked at is lost, the limits hold, nothing keeps running after the return.
* **Capture.** The peer chooses how messages are cut into records, and when. Correct
  means: what is captured is the server's, in order and whole; a conforming
  server is captured; every capture ends.
* **Verifier.** The bundle is re-read for every proof and may be replaced in
  between. Correct means: only the pinned bytes are trusted, costly checks come
  after cheap bounds, and what the search returns the `verify` command accepts.
* **File.** Several writers, system calls that fail, interrupts, kills, power
  loss. Correct means: the destination is whole at any moment, nothing is
  displaced without `--overwrite`, the answer given is true.
* **Bytes.** Nested length prefixes, two parsers of the same message, lists of
  optional entries with defaults, two byte orders. Correct means: whatever is
  accepted is accounted for byte by byte and read in one way only, the two parsers
  agree, no input leaves a parser by an exception nobody expects.
* **Command line and setup.** Arguments are checked in three places and used for
  hours elsewhere. Correct means: a search only starts towards a proof that can be used, it
  connects to permitted addresses only, and the exit status is true.

`PROJECT.json` lists the hazards behind these at their lines, each with the
properties that would catch it.

## 2. The modules

| module | models | status |
|---|---|---|
| `ProofSearch` | what a search promises, without threads, clocks or polling | abstract specification |
| `Generator` | `generate_connection_proof` with its pool and clock | detailed; implements `ProofSearch` |
| `TimedGenerator` | `Generator` on a machine where only waiting takes time | restricts `Generator` |
| `GeneratorProofs` | theorems about `Generator` and `TimedGenerator` | proved |
| `AtomicFile` | what `ConnectionProof.write` promises about the destination | abstract specification |
| `ProofFile` | `ConnectionProof.write`, several calls at once | detailed; implements `AtomicFile` |
| `ProofFileProofs` | theorems about `ProofFile` | proved |
| `TlsCapture` | `capture_tls13_proof` against a peer | model-checked, safety proved |
| `TlsCaptureProofs` | theorems about `TlsCapture` | proved |
| `Bytes` | slices, big-endian integers, length-prefixed vectors, the reader of `protocol.py` | operators |
| `DataLemmas` | lemmas about numbers, recursive functions, flattening and the operators of `Bytes` | proved |
| `Wire` | ClientHello and the ServerHello parser of `tls13.py`, all of `protocol.py` | model-checked, proved |
| `WireProofs` | theorems about `Wire` | proved |
| `Hashes` | the byte orders of hashes and targets, `meets_work_target` | operators |
| `Verify` | `verify.py` as its callers use it while the bundle is replaced | model-checked, proved |
| `VerifyProofs` | theorems about `Verify` | proved |
| `KeyRules` | `_verify_certificate_signature`: DER reader, RSASSA-PSS restrictions, which key suits which scheme | model-checked, proved |
| `KeyRulesProofs` | theorems about `KeyRules` | proved |
| `Setup` | the checks before the first connection: envelope fields, domain, options, context, `resolve_endpoints` | operators |
| `Cli` | `p2c-tools generate`, over `Setup`, `ProofSearch` and `AtomicFile` | model-checked, proved |
| `CliProofs` | theorems about `Cli` | proved |
| `MC*` | constants for TLC | |

### Correspondence with the code

**Generator.** A variable has the name of the local variable it stands for.
`pc` is the place of the calling thread: `setup` (134-165), `top` (168-178),
`fill` (180-199), `sleep` and `wait` (201-209), `collect` (210-253), `report`
(255-265), `cleanup` and `shutdown` (267-269). A future is its attempt number;
`future[a]` is its life, and in its last state what the search will make of it:
`failed` (one of the four exception types of 247-252), `crashed` (any other), or a
proof on which the verifier will accept (`valid`), refuse (`rejected`) or raise
something else (`raises`). One iteration of the `for future in done` loop is one
action (`CollectFailed`, `CollectRejected`, `CollectMiss`, `CollectWinner`,
`CollectEscape`). The calling thread and the workers interleave freely, and
`Tick` may advance the clock between any two steps, so that the two readings of
the clock at lines 168 and 183 may differ. Line 182's order of tests is kept. `Interrupt` is
KeyboardInterrupt; in the finally clause it abandons the rest of it. One inside
a step is taken to strike before that step. The round robin over endpoints decides
nothing here and is in `Cli`; the text of `last_error` is left out.

**TimedGenerator.** Adds each capture's deadline and the beginning of the
calling thread's last wait. The clock holds still while somebody has
something to do that takes no time. The unit of time is a fraction of the polling
period (`PollingPeriod`, 0.05 s), and a sleep or wait lasts until the next start time when
only the rate holds the loop back, else one period at most (`PollingTime`, 201-209). Nothing
cuts it to what is left of the overall timeout, so a wait begun just before that limit ends
after it. Only in this module are time bounds meaningful.

**ProofFile.** A file is the writer that created it; `entry` is the directory,
`content` and `synced` the file system. Each statement of `write` that makes a
system call is an action. Faults are switched on by the constant `Faults`:
`io` (a call fails), `unlink` (the removal fails), `interrupt`, `kill`,
`power`, and `reuse` (a random staging name may be drawn again once it is free).
After a power loss, text that was not synced may be torn and the destination may
refer to anything it ever referred to, since the directory is not synced.

**TlsCapture.** A message is a sequence of parts; the first carries type and
length. The peer cuts its flight anywhere, with change_cipher_spec records
anywhere; with `faults` it may send alerts or junk, lose or repeat records, or
close. Encryption is reduced to the record number it authenticates: a record
opens only under the number it was sealed with. `handshake` is
`plaintext_handshake` and, after ServerHello, `encrypted_handshake`. A conforming server
is one whose messages, ServerHello included, fit the client's limits. A record is read in
one step and carries at least one part: bytes that trickle in, empty encrypted records and
cuts inside the four bytes of a message header are not steps of their own.

**Wire.** One connection and one file. The server answers with a message of
`ServerHellos`, which `TakeServerHello` (`parse_server_hello`) takes, refuses or leaves by an
index error (`escapes`); Python slices that end beyond the data are cut short, as
in the source, and only an index can fail. `TakeFlight` adds the rest of the
flight, where the key exchange and the certificates may also be refused;
`CheckCapture` is the end of a capture, `parse_proof` and the mask (473-476).
`Edit` is whoever has the file, `ReadFile` the parser of `verify`, `inspect` and
`from_dict`; it may leave any byte string behind. Tags, header bytes, length fields and their widths are the real ones with
bytes of 256 values; only the size of fields nobody looks into (random, keys,
session id) and the limits are constants. In `Entries`, `Chain` and
`DerElements` a list that breaks off ends in the entry `Broken`. Lengths are
counted anew in the properties, where a proof that was read is written again.

**Hashes and Verify.** A proof is the set of checks it fails, its work hash as bytes,
and the bundles under which its path validates. A byte has `Base` values and a
hexadecimal digit `HexBase`; the target is a string of digits and the comparison
is that of `meets_work_target`, through `bytes.fromhex` and both reversals. `Checks` is the order of
`verify_connection_proof`; each check is one step, between any two of which the
bundle may be replaced. Three failures are no error of this package but one of x509 that
nobody turns into one (`Escapes`): a certificate version it does not know, in the proof (79) or the
bundle (114), and extensions it cannot parse (146); they end a search. The callers are the search (`Validated`, `Candidate`,
`Accepted`, `Rejected`) and `p2c-tools verify` (`Reread`, and any other file).

**KeyRules.** The loop over the parameters of a RSASSA-PSS key is one action per
parameter (`ReadHash`, `ReadMaskGeneration`, `ReadSaltLength`, `ReadTrailer`) with
`RefuseParameter` for the `raise`s; `hash_is_sha256`, `mgf1_is_sha256`,
`minimum_salt` and `previous_tag` are its local variables, with the defaults they
start from. The key is given by the content of its AlgorithmIdentifier as bytes. The reader of one
element is split by what it looks at (`TagAt`, `SizeAt`, `ValueAt`, `NextAt`, all functions
of an offset), so that each can be reasoned about by itself. In the program a
certificate is loaded by the `cryptography` package before these bytes are looked at (`Load`,
line 79), which refuses many of the malformed ones already: for those the rules here are a second
line. Which ones is the package's affair, so `LoadFails` may happen to any key, but for one case the
repository documents (README.md:106-109): an explicitly encoded default salt length, 20, is
never loaded (`SpellsDefault`). It is not DER, so `Permitted` does not contain it either.
`MaxLengthBytes` is 2 in the run, against 4 in the code, as nothing longer than 64 kB is built.

**Setup and Cli.** `Setup` holds the checks as predicates of the arguments, one
operator per function. `Cli` puts them in the order of `_generate` and
`generate_connection_proof`: `Parse` (argparse; of its errors only a mask outside
1..7 is modelled), `MakeEnvelope`, `PrepareSearch` (options, context, bundle, resolution, in
this order), `Searching` (a step of the search; `dialed` records the endpoint of each
attempt that is opened). A text is a sequence of characters, a domain of labels, and
an infinite float the number `NotFinite`. `_validate_options` sets no upper limit to the rate and
the timeouts. Two values it lets through are found out by the first connection: a finite timeout above
`MaxSeconds` makes `settimeout` raise in the capture (tls13.py:391, `FitsSocket`, `NothingCaptured`),
and an integer rate above `MaxFloat` makes `1.0 / rate` raise in the loop right after the first submission
(generator.py:198, `HasInterval`, `StoppedByRate`). The report may also fail when the
interpreter flushes it at its end, with status 120. One writer runs here; several are in `ProofFile`. `Search!Next` and `File!Publish`/`File!Answer` stand for the two
calls: the composition rests on the two refinements, `SearchSpec` and `AtomicSpec`,
which are checked and proved.

In the modules of components some definitions are preceded by variants with a telling name (`PopTwice`,
`MeetsTargetStrictly`, `ForgetNameNot`). They are plausible slips of the code at that
place; `PROJECT.json` pairs each with a property that must fail when the
variant takes the definition's place. Nothing else uses them.

## 3. The runs

| run | instance | question | distinct states |
|---|---|---|---|
| `search` | 2 workers, `--max-attempts` 3 with room for a fourth, all limits on, time to 3 | is the answer right, are the counts true and the limits kept; does it implement `ProofSearch`? | 658 k |
| `attempts_end` | 2 workers, 2 attempts | does a search bounded by `--max-attempts` end? | 27 k |
| `unbounded` | no limits, 3 attempts | does a captured good proof end the search? | 74 k |
| `timed_bound` | 2 workers, polling period 2, overall timeout 5, connection timeout 4, interval 3 | how long do search, capture and join last at most? | 148 k |
| `timed_readme` | the same | README.md:119 on `--overall-timeout`, **violated** | stops at the counterexample |
| `file_faults` | 2 writers, 3 names, all faults but `reuse` | is the destination whole, is every answer true? | 160 k |
| `file_writers` | 3 writers, 2 names, `io`, `kill`, `reuse` | do writers respect each other's files; is it an atomic file? | 176 k |
| `capture` | 5 flights, fragments of at most 4, buffer of 7 | soundness, completeness and end of a capture | 270 k |
| `verify` | 7 bundles, at most one flaw per proof, 3 works, 2 candidates | which roots and keys are trusted; do both ways of verifying agree; is the target compared as a number? | 187 k |
| `cli` | a right command line and 60 with an argument at or beyond a limit, 8 answers of the resolver, 3 attempts, one writer with or without `--overwrite` | can a search that started still fail for its arguments; where does it connect; what does the exit status say? | 148 k |
| `wire` | 5 masks, 2 session ids, ServerHellos and flights with one edit, all edits of one byte of a proof | do both parsers agree; what is refused, and is every byte of what is accepted accounted for? | 13 k |
| `keys` | every combination of 4 to 11 choices for each parameter, up to 5 parameters in any order, byte edits | which restricted keys are used; is DER read in one way only? | 94 k |

*Bounds, and why they are enough.* `AttemptCap` bounds attempts and `MaxTime`
the clock, which runs past it only when the search itself needs the time. Two
workers and three attempts give a pool that is full with an attempt still to
come, two futures finishing in one `wait`, and a winner that leaves another
finished future unread. Works `{1, 2}` with target 1 lie on both sides of the target,
equality included. With an overall timeout above the connection timeout line 191 cuts some
timeouts and not others, and zero or negative rests occur; in `search` there is room for one
attempt more than `--max-attempts` allows. In `timed_bound` a polling period has two units and
divides neither the limit nor the interval, so waits end before, at and after the limit: the bound is
reached, the clock stands at 6 in a search whose limit is 5. Two writers are
enough to take a name from each other, three to do so while a third publishes.
Messages of one to eight parts with fragments of at most four and a buffer of
seven can be split, coalesced, fill the buffer, and overflow it by one. Two candidates
are the preflight and one after it; the works lie on, below and above the target, and two of
them change sides when read backwards. In `wire` an edit cuts a string short,
drops, inserts or changes one byte, or drops, repeats, adds or reverses entries of a
list, on each level of nesting, with the lengths around it right or left as they
were; limits are small enough to be hit by one message and missed by another. In
`keys` a parameter of 130 bytes needs the long form of lengths. In `cli` every field
takes values on both sides of each of its limits; one is wrong at a time, since each check
looks at one field (`AttemptTimeout` looks at two, and both are varied). Each property is known to fail under at
least one of the variants above, so none holds for lack of behaviours.

*Deadlock* is checked in every run; where the program is over, an explicit
stuttering action (`Over`, `Stop`) says so.

*Fairness.* `Generator`: weak fairness of the calling thread, of each worker and
of the clock. The interpreter schedules its threads; every socket call in a capture
carries what is left of its deadline, so a capture ends; time passes. Nobody has to
press Ctrl-C, and no particular future has to be chosen. `TlsCapture`: weak fairness of the client
and of the clock; the peer owes nothing. In `GoodProofEndsSearch` a good proof
ends the search although the peer may give no other.

*What the violated run shows.* README.md:119 says to use `--overall-timeout`
and `--max-attempts` "to bound a run". The clock of the overall timeout is read at
`generator.py:154`, after the bundle was read and the domain resolved (146-153);
`getaddrinfo` has no timeout. In the counterexample the clock passes the overall timeout and a polling
period of grace while the program is still in the setup. From line 154 on the search, joining
of the pool included, ends within the overall timeout and one polling period: `OverallTimeoutBoundsSearch`.

## 4. What is proved

TLAPS checks these for every value of the constants that satisfies the named
assumptions of the modules (ranges of the options, `_validate_options`).

**GeneratorProofs**: `TypeOK`, `Accounting`, `BoundedConcurrency`, `RateLimit`,
`BestIsLeast`, `PreflightIsEarned`, `ReturnedProofIsGood`, `NoGoodProofSetAside`,
`ExhaustedMeansNoneGood`, `CleanExit`, and
`SearchImplemented == Spec => SearchSpec`. The argument, each layer inductive
relative to those before it:

1. types;
2. the books (`Accounting`): submitted attempts are an initial segment, whatever
   left `pending` had finished, and the counters are the sizes of these sets.
   Bounded concurrency follows, live futures being pending ones;
3. the rate (`RateInv`): `RateLimit` alone is not inductive; it needs that
   submissions lie in the past and that `next_start` is ahead of every
   submission by the right number of intervals, and that a search in `setup`
   has submitted nothing;
4. what the search knows (`KnownInv`): every captured proof has a work hash; the
   best one is the least of those collected; the preflight flag is earned;
5. what it answers (`AnswerInv`): while undecided, no collected attempt is good;
   a winner is good and collected. For a first candidate that misses the target
   this uses that the flag is earned, and for a later winner that it was
   verified itself;
6. the cleanup: nothing is queued again once the finally clause has begun;
7. the refinement: each action is mapped to the step of `ProofSearch` it takes,
   or to a stutter (fill and wait steps, the clock, a finished capture that is not good).

**ProofFileProofs**: `DestinationIsWhole`, `ReplyIsTrue`, `StagingIsExclusive`,
`NoStagingLeft`, `NoClobber`, and, without power loss,
`AtomicImplemented == Spec => AtomicSpec`, for any number of writers and names, any set of faults subject
to `NamesStayOurs`: interrupts and the reuse of a name are not both possible.
The inductive invariant `IInv` adds that a writer that has a staging file owns
its entry, that it removes only what is its own, and that a published file is
complete and synced. `StagingIsAccountedFor`, inductive relative to `IInv`, says whose
every staging entry is and who will remove it. A power loss may
bring back an earlier entry of the destination, which no atomic file does: hence
the refinement is stated without it, and `DestinationIsWhole` with it. The
assumption is needed: an interrupt exactly between `os.replace` and
`temporary = None` (178-179) leaves a name that may by then belong to another
writer, who must have drawn the same eight random characters in that moment.
With `interrupt` in `Faults` names are therefore drawn once only.

**VerifyProofs**: `PinnedRootsOnly`, `BoundedExponentsOnly`, `ReturnedVerifies`, for
any bundles, proofs, target and number of candidates. None of them is inductive. The invariant says that what
is left of a call is a suffix of its list of checks and that the checks in front of it
hold still, whatever has become of the file, except for the one that reads it
(`CallInv`); and that a proof the search returns passes every check that is about itself
(`Blameless`), although its target was checked by the search alone when it was the preflight (`CallerInv`).

**CliProofs**: `StartedContextIsUsable` and `StatusIsTrue`, for any
command lines, limits, answers of the resolver and bounds of the search, from
`WritersAssumption` (the entries of the destination can be told apart) and `LimitsAssumption`. The invariant adds to
them what has been checked at each point of the program (`SetupInv`), what the first connection finds
out (`FoundOut`: with a rate without an interval it stays the only one, with a timeout no socket takes
nothing good comes of it), and why the destination holds what it holds (`FileInv`). With `SearchImplemented` and
`AtomicImplemented` this is about the search and the file as they are.

**GeneratorProofs** on `TimedGenerator`: `OverallTimeoutBoundsSearch`,
`ConnectionTimeoutBoundsAttempt`, and `TimedSpec => Spec`, which makes every theorem
about the search one about the timed search as well. The invariant (`TimedInv`) says that no queue ever forms
in the pool (what waits for a worker was submitted at this very moment, because there are
as many workers as pending attempts, which is `BoundedConcurrency`), that every running
capture is before its deadline and every deadline is within both timeouts, that the loop
body runs on the reading of the clock that line 170 checked, that a sleep or wait began before the limit and
lasts at most a polling period, for any length of it in units of the clock, and that a join began
at most one connection timeout ago.

**TlsCaptureProofs**: `TypeOK`, `CaptureIsSound`, `ConformingIsCaptured`,
`LooksBeforeReading`, for any flights, sizes of messages, fragments, buffer, timeout and faults. The
argument follows the server's stream of units. Whatever is lost, repeated or damaged, a record is
opened only under the number of the record that the server sealed next
(`RecordsInOrder`), so the buffer is always the piece of the stream that follows the
captured messages (`BufferFollowsStream`); a message is popped where one ends, hence the
captured ones are the server's first ones, in order and whole (`CapturedInOrder`). For
completeness three parts are added: the same for ServerHello in the clear
(`HelloInOrder`), the buffer is within its limit (`RoomLeft`), and client and server are
never out of step when the server is honest (`HonestInStep`). `LooksBeforeReading` needs the first of
these as well: in the clear, too, nothing is read while a whole message or one too long is buffered.

**VerifyProofs** on `Hashes`: `TargetIsNumeric`. The comparison of two reversed byte strings is
that of the numbers they stand for: `Number` is an order isomorphism on strings of one length, and
`fromhex` and the two reversals cancel.

**CliProofs** on the round robin: `ConnectionsAreSpread`. `InTurns` says that after any number of attempts
there are q full rounds and r addresses ahead by one; `Resolved` says what `resolve_endpoints`
returns for any answer of the resolver: permitted addresses, each once, none left out.

**KeyRulesProofs**: `DerIsExact` and `RestrictionsAreExact`, the latter for keys of every content whose certificate loads. Whatever bytes the DER reader accepts are the concatenation of the
encodings of the elements it returned. A long length that is accepted is the shortest, because the digits
of a number whose first digit is not zero are unique.

`RestrictionsAreExact` compares what the loop of 276-293 made of the bytes with a list of permitted
byte strings, so both directions are needed. `Writes(x, els)` says that x is the DER of the
elements `els`, each of which can be written; what is written is what is read (`WritesRead`), and what is read
was written (`ReadWrites`), so bytes and elements determine each other. From this follow, in turn: what
each parameter accepts is a permitted parameter (`HashIs`, `MaskIs`, `SaltIs`, `TrailerIs`);
the permitted algorithms are those whose elements are permitted and in order (`PermittedIs`); the code finds the
algorithm inside the certificate, whatever it is (`AlgorithmRead`). The inductive invariant
(`RulesInv`) is that of the loop: some k parameters of the key are behind it, what remains are
the others, and the four variables say exactly what was among those k (`Looked`). Without the k the
variables could not be related to the key. The loop itself takes a default salt length that is spelled out;
`LoadedInv` says that no such key gets as far, and `DefaultSpelled` that this is all that lies between what
the loop takes and `Permitted`. TLC found `RulesInv` true on the instance of `keys` before it was proved.
The proof uses that a byte has 256 values, that a length has 2 to 127 bytes (4 in the code, line 206),
that the object identifiers have at most 32 bytes and that the algorithm of a certificate
has at most 16384 (`protocol.py:311`, `MAX_CERTIFICATE_SIZE`), so that every length around it takes at most two bytes.

**WireProofs**: `ParsedIsWhole` and `ParserStaysInside`, for any file of any length. Each reader is
described once by what it consumes (`Field` for one read, `Covers` for an interval of the data and the bytes in it): a
read that succeeds covers exactly its bytes, two consecutive reads cover the concatenation, and a reader that ends at the end of
the data has covered all of it. So an accepted message, written again from what was read of
it, is the same message, level by level: lists of entries, the chain, the extensions, the
messages, the proof. `BytesInv` says that everything on the wire and in the file is a
byte string; for the client's own hello this takes the bounds of `SizesAssumption`.

`CapturedIsAllowed`, `OnlyFlightIsRefused` and `HellosAgree` need the converse, that what is written is what is read
(`Got`, then `EntriesBack`, `NumbersBack` and `ProofReads` for lists and messages): `parse_client_hello` reads the client's own hello
back as it was meant, with the schemes of the mask (`OwnHelloBack`), so `parse_certificate_verify` accepts no
other scheme (`AcceptedIsAllowed`). The two parsers of a ServerHello are shown to agree on every byte string: their loops over the extensions walk the same offsets
(`SameEntries`), their fields are the same slices of the body (`ServerSlices`, `ServerIsLong`), and so a message is taken exactly if
it is accepted, with the same cipher and key (`HelloAgrees`). A taken ServerHello is short (`ChoiceLength`), so the limit of
`protocol.py:357-367`, which `tls13.py` does not look at, refuses none. None of the three is inductive: the inductive invariant `ConnectionInv` says of each stage
what the connection has made of the server's message, that a proof is the encoding of what was sent and received on this connection (`IsCapture`), and
that a failed connection with a proof is one whose capture was whole, from a ServerHello that was taken. TLC found it true on the
instance of `wire` before it was proved; the proof is relative to `BytesInv`.

**DataLemmas** is what these rest on, and what makes induction over data possible: the
library's induction rules take an operator as parameter, so an induction here is about a *set of numbers* (`NatSetInduction`,
`IntervalInduction`, from the well-foundedness of `<`), and a recursive function is shown to exist first
(`ForwardRecursion`, `WalkRecursion`, `FlattenRecursion`). On this stand the lemmas about
`Number` and `Digits` (inverse to each other, monotone), `FlattenSeq`, and slices.

Some assumptions are about constants only and true of the program: a byte has 256 values
(`SizesAssumption` of `Wire`), the masks are 1 to 7 and the limits of `protocol.py:357-367` have two bytes
and leave room for a ServerHello with the longest session id (`LimitsAssumption`: 122 bytes of 2048) and for the ClientHello (`HelloAssumption`),
byte strings are sequences of bytes, an answer of the
resolver is a finite sequence (`DnsAssumption`).

`TypeOK` of both `Generator` and `ProofFile` and `NoClobber` (without power loss it is part of `AtomicSpec`, which `file_writers`
checks) are proved and no longer checked by a run.

**Model-checked only.** Liveness (`Termination`, `GoodProofEndsSearch`,
`CaptureEnds`) and the enabledness that fairness speaks of are out of the
prover's reach; every safety invariant and every action property of a passing run is a theorem. No module uses a
RECURSIVE operator.

## 5. What is not modelled

* The key schedule, every cryptographic primitive and the tagged hashes: straight-line
  computations, for which the repository has test vectors.
* Certificates and paths: the `cryptography` package decides; a proof has a flaw or has it not, and a
  certificate loads or does not.
* Of a peer's timing: bytes one by one, empty encrypted records, a message header cut in two. Each `recv`
  is preceded by the same test of the deadline.
* Reading an envelope from JSON (missing and unknown keys, wrong types): no state, one
  raise per field. What the fields must satisfy is in `Setup`.
* What argparse refuses besides the mask; what `ipaddress` parses and calls global is a constant.
* `inspect`, `challenge` and the progress printer, which keep no state.
* A server whose certificate changes between captures is a capture whose
  verdict differs, which `Generator` allows.
* The durability of the destination after success: the directory is not synced
  and nothing claims it.

## 6. Plan

Done: every component with state or a decision of its own has its module; the search and the file have
their abstract specifications and proofs.

No proof is planned: what TLC checks and no theorem states is liveness, which the prover does not reach. What could be added are new
questions, such as a model of the key schedule's inputs, if that part ever comes to depend on state.
