------------------------------ MODULE ProofFile ------------------------------
(***************************************************************************)
(* ConnectionProof.write (envelope.py:154-192): several writers stage      *)
(* their proof in exclusively created files of one directory and publish   *)
(* it by link or by replace, while any system call may fail, the user may  *)
(* interrupt, the process may be killed and the machine may lose power.    *)
(*                                                                         *)
(* A file is identified with the writer that created it (a writer creates  *)
(* one file at most).  The directory maps names to files; staging names    *)
(* are random, and only with the fault "reuse" may a name be drawn again   *)
(* once it is free.                                                        *)
(***************************************************************************)
EXTENDS Naturals, FiniteSets

CONSTANTS
    Writers,        \* concurrent calls of write on one destination
    Overwriters,    \* those with overwrite=True
    StagingNames,   \* the names tempfile may choose (".p2c-proof-*.tmp")
    Dest,           \* the destination path
    Nothing,        \* no such entry
    Foreign,        \* an entry that is no writer's: a file, or a symbolic link
    Faults          \* what may go wrong

ASSUME OverwritersAssumption == Overwriters \subseteq Writers
ASSUME NamesAssumption ==
    /\ Dest \notin StagingNames
    /\ Nothing \notin Writers \cup StagingNames
    /\ Foreign \notin Writers \cup {Nothing}
ASSUME FaultsAssumption ==
    Faults \subseteq {"io", "unlink", "interrupt", "kill", "power", "reuse"}

Names == StagingNames \cup {Dest}
Files == Writers \cup {Foreign}

Contents == {"absent", "empty", "partial", "complete"}
Points == {"start", "staged", "write", "flush", "fsync", "close", "publish",
           "published", "finally", "over"}

VARIABLES
    pc,         \* where each writer is
    stream,     \* name of the file each writer has created (161, 170)
    temporary,  \* each writer's variable `temporary` (159, 170, 179)
    entry,      \* the directory: what each name refers to
    content,    \* what a reader of each file would see
    synced,     \* files whose content is on the disk
    ever,       \* what the destination ever referred to
    reply,      \* how each call ended
    powered     \* FALSE after the machine lost power

vars == <<pc, stream, temporary, entry, content, synced, ever, reply, powered>>
names == <<stream, temporary>>
directory == <<entry, ever>>
files == <<content, synced>>

TypeOK ==
    /\ pc \in [Writers -> Points]
    /\ stream \in [Writers -> StagingNames \cup {Nothing}]
    /\ temporary \in [Writers -> StagingNames \cup {Nothing}]
    /\ entry \in [Names -> Files \cup {Nothing}]
    /\ content \in [Files -> Contents]
    /\ synced \subseteq Files
    /\ ever \subseteq Files \cup {Nothing}
    /\ reply \in [Writers -> {"none", "ok", "error", "killed"}]
    /\ powered \in BOOLEAN

\* The destination may exist; a staging name may be somebody else's file.
Init ==
    /\ pc = [w \in Writers |-> "start"]
    /\ stream = [w \in Writers |-> Nothing]
    /\ temporary = [w \in Writers |-> Nothing]
    /\ entry \in {e \in [Names -> {Nothing, Foreign}] :
                      Cardinality({n \in StagingNames : e[n] = Foreign}) <= 1}
    /\ content = [f \in Files |-> IF f = Foreign THEN "complete" ELSE "absent"]
    /\ synced = {Foreign}
    /\ ever = {entry[Dest]}
    /\ reply = [w \in Writers |-> "none"]
    /\ powered = TRUE

-----------------------------------------------------------------------------
(* The steps of one call.  Mutants are defined just before the definition   *)
(* they replace.                                                            *)

At(w, point) == powered /\ pc[w] = point
Goto(w, point) == pc' = [pc EXCEPT ![w] = point]

\* The exception on its way out, through the finally clause.
Raise(w, kind) ==
    /\ Goto(w, "finally")
    /\ reply' = [reply EXCEPT ![w] = kind]

\* Line 158: a proof that cannot be serialized is refused before any file is
\* created; or the directory is missing, read-only or full (161-169).
NothingCreated(w) ==
    /\ At(w, "start")
    /\ Raise(w, "error")
    /\ UNCHANGED <<names, directory, files, powered>>

\* Lines 161-169: a new file under a name nobody uses, opened exclusively.
MayDraw(n) == "reuse" \in Faults \/ \A v \in Writers : stream[v] # n
CreateStaging(w) ==
    /\ At(w, "start")
    /\ \E n \in StagingNames :
           /\ entry[n] = Nothing
           /\ MayDraw(n)
           /\ entry' = [entry EXCEPT ![n] = w]
           /\ stream' = [stream EXCEPT ![w] = n]
    /\ content' = [content EXCEPT ![w] = "empty"]
    /\ Goto(w, "staged")
    /\ UNCHANGED <<temporary, ever, synced, reply, powered>>

\* Line 170.
RememberName(w) ==
    /\ At(w, "staged")
    /\ temporary' = [temporary EXCEPT ![w] = stream[w]]
    /\ Goto(w, "write")
    /\ UNCHANGED <<stream, directory, files, reply, powered>>

\* Line 171: the stream's buffer may spill part of the text.
WriteText(w) ==
    /\ At(w, "write")
    /\ \E c \in {"empty", "partial"} : content' = [content EXCEPT ![w] = c]
    /\ Goto(w, "flush")
    /\ UNCHANGED <<names, directory, synced, reply, powered>>

\* Line 172.
Flush(w) ==
    /\ At(w, "flush")
    /\ content' = [content EXCEPT ![w] = "complete"]
    /\ Goto(w, "fsync")
    /\ UNCHANGED <<names, directory, synced, reply, powered>>

\* Line 173; the handle is closed at the end of the with statement.
SyncAndCloseNoSync(w) ==
    /\ At(w, "fsync")
    /\ Goto(w, "publish")
    /\ UNCHANGED <<names, directory, files, reply, powered>>
SyncAndClose(w) ==
    /\ At(w, "fsync")
    /\ synced' = synced \cup {w}
    /\ Goto(w, "publish")
    /\ UNCHANGED <<names, directory, content, reply, powered>>

\* A system call of lines 171-174 fails, a full disk leaving part of the text.
WriteFails(w) ==
    /\ powered /\ "io" \in Faults
    /\ pc[w] \in {"write", "flush", "fsync"}
    /\ \/ UNCHANGED content
       \/ pc[w] # "fsync" /\ content' = [content EXCEPT ![w] = "partial"]
    /\ Raise(w, "error")
    /\ UNCHANGED <<names, directory, synced, powered>>

\* What a link or a rename of the staging name puts at the destination.
Staged(w) == entry[temporary[w]]
Overwrites(w) == w \in Overwriters

\* Line 178: os.replace moves the staging entry over the destination.
Replace(w) ==
    /\ At(w, "publish")
    /\ Overwrites(w)
    /\ Staged(w) # Nothing
    /\ entry' = [entry EXCEPT ![Dest] = Staged(w), ![temporary[w]] = Nothing]
    /\ ever' = ever \cup {Staged(w)}
    /\ Goto(w, "published")
    /\ UNCHANGED <<names, files, reply, powered>>

\* Line 179.
ForgetNameNot(w) ==
    /\ At(w, "published")
    /\ reply' = [reply EXCEPT ![w] = "ok"]
    /\ Goto(w, "finally")
    /\ UNCHANGED <<names, directory, files, powered>>
ForgetName(w) ==
    /\ At(w, "published")
    /\ temporary' = [temporary EXCEPT ![w] = Nothing]
    /\ reply' = [reply EXCEPT ![w] = "ok"]
    /\ Goto(w, "finally")
    /\ UNCHANGED <<stream, directory, files, powered>>

\* Line 182: os.link refuses an existing entry of any kind.
DestIsFreeOrStale == TRUE
DestIsFree == entry[Dest] = Nothing
Link(w) ==
    /\ At(w, "publish")
    /\ ~Overwrites(w)
    /\ Staged(w) # Nothing
    /\ DestIsFree
    /\ entry' = [entry EXCEPT ![Dest] = Staged(w)]
    /\ ever' = ever \cup {Staged(w)}
    /\ reply' = [reply EXCEPT ![w] = "ok"]
    /\ Goto(w, "finally")
    /\ UNCHANGED <<names, files, powered>>

\* Lines 183-188: the destination exists, the staging entry is gone, or the
\* directory refuses.
PublishFailsSilently(w) ==
    /\ At(w, "publish")
    /\ \/ "io" \in Faults
       \/ Staged(w) = Nothing
       \/ ~Overwrites(w) /\ ~DestIsFree
    /\ Raise(w, "ok")
    /\ UNCHANGED <<names, directory, files, powered>>
PublishFails(w) ==
    /\ At(w, "publish")
    /\ \/ "io" \in Faults
       \/ Staged(w) = Nothing
       \/ ~Overwrites(w) /\ ~DestIsFree
    /\ Raise(w, "error")
    /\ UNCHANGED <<names, directory, files, powered>>

\* Lines 189-192: the staging entry is removed if it is there and still ours to
\* remove; an error is suppressed.
CleanupNever(w) ==
    /\ At(w, "finally")
    /\ Goto(w, "over")
    /\ UNCHANGED <<names, directory, files, reply, powered>>
Cleanup(w) ==
    /\ At(w, "finally")
    /\ \/ temporary[w] = Nothing /\ UNCHANGED entry
       \/ temporary[w] # Nothing /\ entry' = [entry EXCEPT ![temporary[w]] = Nothing]
       \/ temporary[w] # Nothing /\ "unlink" \in Faults /\ UNCHANGED entry
    /\ Goto(w, "over")
    /\ UNCHANGED <<names, ever, files, reply, powered>>

-----------------------------------------------------------------------------
(* What happens to a call from outside *)

\* KeyboardInterrupt: the finally clause runs with `temporary` as it is; one
\* that comes inside the clause cuts it short.
Interrupt(w) ==
    /\ powered /\ "interrupt" \in Faults
    /\ pc[w] # "over"
    /\ reply' = [reply EXCEPT ![w] = "killed"]
    /\ Goto(w, IF pc[w] = "finally" THEN "over" ELSE "finally")
    /\ UNCHANGED <<names, directory, files, powered>>

\* The process dies: no clause of it runs any more.
Kill(w) ==
    /\ powered /\ "kill" \in Faults
    /\ pc[w] # "over"
    /\ reply' = [reply EXCEPT ![w] = "killed"]
    /\ Goto(w, "over")
    /\ UNCHANGED <<names, directory, files, powered>>

\* Power loss: what was not synced may be gone from the files, and, the
\* directory never being synced, the destination may refer to anything it ever
\* referred to.
PowerLoss ==
    /\ powered /\ "power" \in Faults
    /\ powered' = FALSE
    /\ \E lost \in SUBSET (Files \ synced) :
           content' = [f \in Files |->
                          IF f \in lost /\ content[f] # "absent" THEN "partial"
                                                                 ELSE content[f]]
    /\ \E survivor \in ever : entry' = [entry EXCEPT ![Dest] = survivor]
    /\ UNCHANGED <<pc, names, ever, synced, reply>>

\* Somebody else puts a file at a free destination.
Intrude ==
    /\ powered
    /\ entry[Dest] = Nothing
    /\ entry' = [entry EXCEPT ![Dest] = Foreign]
    /\ ever' = ever \cup {Foreign}
    /\ UNCHANGED <<pc, names, files, reply, powered>>

Over ==
    /\ ~powered \/ \A w \in Writers : pc[w] = "over"
    /\ UNCHANGED vars

-----------------------------------------------------------------------------
Step(w) ==
    \/ NothingCreated(w)
    \/ CreateStaging(w)
    \/ RememberName(w)
    \/ WriteText(w)
    \/ Flush(w)
    \/ SyncAndClose(w)
    \/ WriteFails(w)
    \/ Replace(w)
    \/ ForgetName(w)
    \/ Link(w)
    \/ PublishFails(w)
    \/ Cleanup(w)

Next ==
    \/ \E w \in Writers : Step(w) \/ Interrupt(w) \/ Kill(w)
    \/ PowerLoss
    \/ Intrude
    \/ Over

Spec == Init /\ [][Next]_vars

-----------------------------------------------------------------------------
(* Properties *)

\* Whatever the destination refers to is a whole file, at any moment and after
\* any failure, a power loss included: the text is flushed and synced before
\* the name appears (171-173, 178, 182).
DestinationIsWhole ==
    entry[Dest] # Nothing => content[entry[Dest]] = "complete"

\* A call that reports an error has published nothing, one that returns has
\* published its own proof (174-188).
ReplyIsTrue ==
    \A w \in Writers :
        /\ reply[w] = "error" => w \notin ever
        /\ reply[w] = "ok" => w \in ever

\* Without --overwrite no entry of the destination is ever displaced, whoever
\* put it there and whenever (180-186).
NoClobber ==
    [][/\ entry[Dest] # Nothing
       /\ entry'[Dest] # entry[Dest]
       /\ powered'
       => \E w \in Overwriters : pc[w] = "publish" /\ pc'[w] = "published"]_vars

\* While a writer works on its staging file nobody else takes the name away or
\* gives it to another file: a writer removes only names that are its own (179,
\* 189-192).  An interrupt just before line 179 leaves it a name that is no
\* longer its own; only if another writer draws the same name does this matter.
StagingIsExclusive ==
    \A w \in Writers :
        pc[w] \in {"staged", "write", "flush", "fsync", "publish"} =>
            entry[stream[w]] = w

\* A call that ends by itself leaves no staging file behind, unless the removal
\* itself failed.
NoStagingLeft ==
    \A w \in Writers, n \in StagingNames :
        pc[w] = "over" /\ reply[w] \in {"ok", "error"} /\ "unlink" \notin Faults
            => entry[n] # w

\* The destination is an atomic file.
Told(w) ==
    IF pc[w] = "over" THEN reply[w]
    ELSE IF w \in ever THEN "published" ELSE "none"
Atomic ==
    INSTANCE AtomicFile WITH
        target <- entry[Dest],
        reply <- [w \in Writers |-> Told(w)]
AtomicSpec == Atomic!Spec
=============================================================================
