--------------------------- MODULE ProofFileProofs ---------------------------
(***************************************************************************)
(* Proofs about ProofFile, for any number of writers and staging names and *)
(* any faults, provided that interrupts and the reuse of staging names do  *)
(* not come together: an interrupt between os.replace and line 179 leaves  *)
(* a writer with a name that is not its own any more.                      *)
(***************************************************************************)
EXTENDS ProofFile, TLAPS

NamesStayOurs == "interrupt" \notin Faults \/ "reuse" \notin Faults

Working == {"staged", "write", "flush", "fsync", "publish"}
Decided == {"finally", "over"}

\* The staging entry of a writer at work is its own file (161-174).
OwnsStaging ==
    \A w \in Writers :
        pc[w] \in Working => stream[w] \in StagingNames /\ entry[stream[w]] = w

\* `temporary` is the name of that entry, or nothing (159, 170, 179).
KnowsStaging ==
    \A w \in Writers :
        /\ temporary[w] \in {Nothing, stream[w]}
        /\ pc[w] = "start" => stream[w] = Nothing
        /\ pc[w] \in Working \ {"staged"} => temporary[w] = stream[w]

\* What the finally clause may remove is nobody else's (189-192).
RemovesOwn ==
    IF "reuse" \in Faults
    THEN \A w \in Writers :
             pc[w] = "finally" /\ temporary[w] # Nothing => entry[temporary[w]] = w
    ELSE \A v, w \in Writers :
             v # w /\ stream[v] # Nothing => stream[v] # stream[w]

\* A file is complete, and on the disk, before it is published (172-182).
PublishedIsWhole ==
    /\ powered => \A w \in Writers :
           /\ pc[w] \in {"fsync", "publish"} => content[w] = "complete"
           /\ pc[w] = "publish" => w \in synced
    /\ \A f \in ever \ {Nothing} : f \in synced /\ content[f] = "complete"
    /\ entry[Dest] \in ever
    /\ Foreign \in synced /\ content[Foreign] = "complete"

\* What a writer has published and what it will say agree (174-188).
ReplyFollows ==
    \A w \in Writers :
        /\ w \in ever => pc[w] \in {"published"} \cup Decided
        /\ pc[w] = "published" => w \in ever
        /\ reply[w] = "none" <=> pc[w] \notin Decided
        /\ reply[w] = "error" => w \notin ever
        /\ reply[w] = "ok" => w \in ever

IInv ==
    /\ TypeOK
    /\ OwnsStaging
    /\ KnowsStaging
    /\ RemovesOwn
    /\ PublishedIsWhole
    /\ ReplyFollows

-----------------------------------------------------------------------------
\* Nothing is staged or published at first.
LEMMA InvInit == Init => IInv
  BY NamesAssumption DEF Init, IInv, TypeOK, OwnsStaging, KnowsStaging, RemovesOwn,
     PublishedIsWhole, ReplyFollows, Working, Decided, Names, Files, Contents, Points

\* A call that creates nothing only says so (158-169).
LEMMA NothingCreatedStep ==
    ASSUME NamesStayOurs, IInv, NEW w \in Writers, NothingCreated(w)
    PROVE  IInv'
<1>. USE NamesAssumption DEF IInv, NothingCreated, Raise, Goto, At, names,
   directory, files
<1>1. TypeOK'
  BY DEF TypeOK, Names, Files, Contents, Points
<1>2. OwnsStaging'
  BY DEF OwnsStaging, TypeOK, KnowsStaging, RemovesOwn, Working, Names, Points
<1>3. KnowsStaging'
  BY DEF KnowsStaging, TypeOK, OwnsStaging, Working, Names, Points
<1>4. RemovesOwn'
  BY DEF RemovesOwn, TypeOK, OwnsStaging, KnowsStaging, Working, Names,
     Points, NamesStayOurs
<1>5. PublishedIsWhole'
  BY DEF PublishedIsWhole, TypeOK, OwnsStaging, KnowsStaging, ReplyFollows,
     Working, Decided, Names, Files
<1>6. ReplyFollows'
  BY DEF ReplyFollows, TypeOK, OwnsStaging, KnowsStaging, Working, Decided,
     Names, Points, PublishedIsWhole
<1>. QED  BY <1>1, <1>2, <1>3, <1>4, <1>5, <1>6

\* A new staging file has a name that no other writer at work has (161-169).
LEMMA CreateStagingStep ==
    ASSUME NamesStayOurs, IInv, NEW w \in Writers, CreateStaging(w)
    PROVE  IInv'
<1>. USE NamesAssumption DEF IInv, CreateStaging, MayDraw, Goto, At, names,
   directory, files
<1>1. TypeOK'
  BY DEF TypeOK, Names, Files, Contents, Points
<1>2. OwnsStaging'
  BY DEF OwnsStaging, TypeOK, KnowsStaging, RemovesOwn, Working, Names, Points
<1>3. KnowsStaging'
  BY DEF KnowsStaging, TypeOK, OwnsStaging, Working, Names, Points
<1>4. RemovesOwn'
  BY DEF RemovesOwn, TypeOK, OwnsStaging, KnowsStaging, Working, Names,
     Points, NamesStayOurs
<1>5. PublishedIsWhole'
  BY DEF PublishedIsWhole, TypeOK, OwnsStaging, KnowsStaging, ReplyFollows,
     Working, Decided, Names, Files
<1>6. ReplyFollows'
  BY DEF ReplyFollows, TypeOK, OwnsStaging, KnowsStaging, Working, Decided,
     Names, Points, PublishedIsWhole
<1>. QED  BY <1>1, <1>2, <1>3, <1>4, <1>5, <1>6

\* From line 170 on the writer knows the name.
LEMMA RememberNameStep ==
    ASSUME NamesStayOurs, IInv, NEW w \in Writers, RememberName(w)
    PROVE  IInv'
<1>. USE NamesAssumption DEF IInv, RememberName, Goto, At, names, directory,
   files
<1>1. TypeOK'
  BY DEF TypeOK, Names, Files, Contents, Points
<1>2. OwnsStaging'
  BY DEF OwnsStaging, TypeOK, KnowsStaging, RemovesOwn, Working, Names, Points
<1>3. KnowsStaging'
  BY DEF KnowsStaging, TypeOK, OwnsStaging, Working, Names, Points
<1>4. RemovesOwn'
  BY DEF RemovesOwn, TypeOK, OwnsStaging, KnowsStaging, Working, Names,
     Points, NamesStayOurs
<1>5. PublishedIsWhole'
  BY DEF PublishedIsWhole, TypeOK, OwnsStaging, KnowsStaging, ReplyFollows,
     Working, Decided, Names, Files
<1>6. ReplyFollows'
  BY DEF ReplyFollows, TypeOK, OwnsStaging, KnowsStaging, Working, Decided,
     Names, Points, PublishedIsWhole
<1>. QED  BY <1>1, <1>2, <1>3, <1>4, <1>5, <1>6

\* Writing touches a file that nobody was shown (171).
LEMMA WriteTextStep ==
    ASSUME NamesStayOurs, IInv, NEW w \in Writers, WriteText(w)
    PROVE  IInv'
<1>. USE NamesAssumption DEF IInv, WriteText, Goto, At, names, directory,
   files
<1>1. TypeOK'
  BY DEF TypeOK, Names, Files, Contents, Points
<1>2. OwnsStaging'
  BY DEF OwnsStaging, TypeOK, KnowsStaging, RemovesOwn, Working, Names, Points
<1>3. KnowsStaging'
  BY DEF KnowsStaging, TypeOK, OwnsStaging, Working, Names, Points
<1>4. RemovesOwn'
  BY DEF RemovesOwn, TypeOK, OwnsStaging, KnowsStaging, Working, Names,
     Points, NamesStayOurs
<1>5. PublishedIsWhole'
  BY DEF PublishedIsWhole, TypeOK, OwnsStaging, KnowsStaging, ReplyFollows,
     Working, Decided, Names, Files
<1>6. ReplyFollows'
  BY DEF ReplyFollows, TypeOK, OwnsStaging, KnowsStaging, Working, Decided,
     Names, Points, PublishedIsWhole
<1>. QED  BY <1>1, <1>2, <1>3, <1>4, <1>5, <1>6

\* Flushing completes it (172).
LEMMA FlushStep ==
    ASSUME NamesStayOurs, IInv, NEW w \in Writers, Flush(w)
    PROVE  IInv'
<1>. USE NamesAssumption DEF IInv, Flush, Goto, At, names, directory, files
<1>1. TypeOK'
  BY DEF TypeOK, Names, Files, Contents, Points
<1>2. OwnsStaging'
  BY DEF OwnsStaging, TypeOK, KnowsStaging, RemovesOwn, Working, Names, Points
<1>3. KnowsStaging'
  BY DEF KnowsStaging, TypeOK, OwnsStaging, Working, Names, Points
<1>4. RemovesOwn'
  BY DEF RemovesOwn, TypeOK, OwnsStaging, KnowsStaging, Working, Names,
     Points, NamesStayOurs
<1>5. PublishedIsWhole'
  BY DEF PublishedIsWhole, TypeOK, OwnsStaging, KnowsStaging, ReplyFollows,
     Working, Decided, Names, Files
<1>6. ReplyFollows'
  BY DEF ReplyFollows, TypeOK, OwnsStaging, KnowsStaging, Working, Decided,
     Names, Points, PublishedIsWhole
<1>. QED  BY <1>1, <1>2, <1>3, <1>4, <1>5, <1>6

\* The complete file is synced (173).
LEMMA SyncAndCloseStep ==
    ASSUME NamesStayOurs, IInv, NEW w \in Writers, SyncAndClose(w)
    PROVE  IInv'
<1>. USE NamesAssumption DEF IInv, SyncAndClose, Goto, At, names, directory,
   files
<1>1. TypeOK'
  BY DEF TypeOK, Names, Files, Contents, Points
<1>2. OwnsStaging'
  BY DEF OwnsStaging, TypeOK, KnowsStaging, RemovesOwn, Working, Names, Points
<1>3. KnowsStaging'
  BY DEF KnowsStaging, TypeOK, OwnsStaging, Working, Names, Points
<1>4. RemovesOwn'
  BY DEF RemovesOwn, TypeOK, OwnsStaging, KnowsStaging, Working, Names,
     Points, NamesStayOurs
<1>5. PublishedIsWhole'
  BY DEF PublishedIsWhole, TypeOK, OwnsStaging, KnowsStaging, ReplyFollows,
     Working, Decided, Names, Files
<1>6. ReplyFollows'
  BY DEF ReplyFollows, TypeOK, OwnsStaging, KnowsStaging, Working, Decided,
     Names, Points, PublishedIsWhole
<1>. QED  BY <1>1, <1>2, <1>3, <1>4, <1>5, <1>6

\* A failed call shows nothing (189-192).
LEMMA WriteFailsStep ==
    ASSUME NamesStayOurs, IInv, NEW w \in Writers, WriteFails(w)
    PROVE  IInv'
<1>. USE NamesAssumption DEF IInv, WriteFails, Raise, Goto, names, directory,
   files
<1>1. TypeOK'
  BY DEF TypeOK, Names, Files, Contents, Points
<1>2. OwnsStaging'
  BY DEF OwnsStaging, TypeOK, KnowsStaging, RemovesOwn, Working, Names, Points
<1>3. KnowsStaging'
  BY DEF KnowsStaging, TypeOK, OwnsStaging, Working, Names, Points
<1>4. RemovesOwn'
  BY DEF RemovesOwn, TypeOK, OwnsStaging, KnowsStaging, Working, Names,
     Points, NamesStayOurs
<1>5. PublishedIsWhole'
  BY DEF PublishedIsWhole, TypeOK, OwnsStaging, KnowsStaging, ReplyFollows,
     Working, Decided, Names, Files
<1>6. ReplyFollows'
  BY DEF ReplyFollows, TypeOK, OwnsStaging, KnowsStaging, Working, Decided,
     Names, Points, PublishedIsWhole
<1>. QED  BY <1>1, <1>2, <1>3, <1>4, <1>5, <1>6

\* os.replace shows the writer's own, synced file (178).
LEMMA ReplaceStep ==
    ASSUME NamesStayOurs, IInv, NEW w \in Writers, Replace(w)
    PROVE  IInv'
<1>. USE NamesAssumption DEF IInv, Replace, Staged, Overwrites, DestIsFree,
   Goto, At, names, directory, files
<1>1. TypeOK'
  BY DEF TypeOK, Names, Files, Contents, Points, OwnsStaging, KnowsStaging,
     Working
<1>2. OwnsStaging'
  BY DEF OwnsStaging, TypeOK, KnowsStaging, RemovesOwn, Working, Names, Points
<1>3. KnowsStaging'
  BY DEF KnowsStaging, TypeOK, OwnsStaging, Working, Names, Points
<1>4. RemovesOwn'
  BY DEF RemovesOwn, TypeOK, OwnsStaging, KnowsStaging, Working, Names,
     Points, NamesStayOurs
<1>5. PublishedIsWhole'
  BY DEF PublishedIsWhole, TypeOK, OwnsStaging, KnowsStaging, ReplyFollows,
     Working, Decided, Names, Files
<1>6. ReplyFollows'
  BY DEF ReplyFollows, TypeOK, OwnsStaging, KnowsStaging, Working, Decided,
     Names, Points, PublishedIsWhole
<1>. QED  BY <1>1, <1>2, <1>3, <1>4, <1>5, <1>6

\* The name that os.replace freed is forgotten (179).
LEMMA ForgetNameStep ==
    ASSUME NamesStayOurs, IInv, NEW w \in Writers, ForgetName(w)
    PROVE  IInv'
<1>. USE NamesAssumption DEF IInv, ForgetName, Goto, At, names, directory,
   files
<1>1. TypeOK'
  BY DEF TypeOK, Names, Files, Contents, Points
<1>2. OwnsStaging'
  BY DEF OwnsStaging, TypeOK, KnowsStaging, RemovesOwn, Working, Names, Points
<1>3. KnowsStaging'
  BY DEF KnowsStaging, TypeOK, OwnsStaging, Working, Names, Points
<1>4. RemovesOwn'
  BY DEF RemovesOwn, TypeOK, OwnsStaging, KnowsStaging, Working, Names,
     Points, NamesStayOurs
<1>5. PublishedIsWhole'
  BY DEF PublishedIsWhole, TypeOK, OwnsStaging, KnowsStaging, ReplyFollows,
     Working, Decided, Names, Files
<1>6. ReplyFollows'
  BY DEF ReplyFollows, TypeOK, OwnsStaging, KnowsStaging, Working, Decided,
     Names, Points, PublishedIsWhole
<1>. QED  BY <1>1, <1>2, <1>3, <1>4, <1>5, <1>6

\* os.link shows the writer's own, synced file (182).
LEMMA LinkStep ==
    ASSUME NamesStayOurs, IInv, NEW w \in Writers, Link(w)
    PROVE  IInv'
<1>. USE NamesAssumption DEF IInv, Link, Staged, Overwrites, DestIsFree, Goto,
   At, names, directory, files
<1>1. TypeOK'
  BY DEF TypeOK, Names, Files, Contents, Points, OwnsStaging, KnowsStaging,
     Working
<1>2. OwnsStaging'
  BY DEF OwnsStaging, TypeOK, KnowsStaging, RemovesOwn, Working, Names, Points
<1>3. KnowsStaging'
  BY DEF KnowsStaging, TypeOK, OwnsStaging, Working, Names, Points
<1>4. RemovesOwn'
  BY DEF RemovesOwn, TypeOK, OwnsStaging, KnowsStaging, Working, Names,
     Points, NamesStayOurs
<1>5. PublishedIsWhole'
  BY DEF PublishedIsWhole, TypeOK, OwnsStaging, KnowsStaging, ReplyFollows,
     Working, Decided, Names, Files
<1>6. ReplyFollows'
  BY DEF ReplyFollows, TypeOK, OwnsStaging, KnowsStaging, Working, Decided,
     Names, Points, PublishedIsWhole
<1>. QED  BY <1>1, <1>2, <1>3, <1>4, <1>5, <1>6

\* A failed publication shows nothing (183-188).
LEMMA PublishFailsStep ==
    ASSUME NamesStayOurs, IInv, NEW w \in Writers, PublishFails(w)
    PROVE  IInv'
<1>. USE NamesAssumption DEF IInv, PublishFails, Raise, Staged, Overwrites,
   DestIsFree, Goto, At, names, directory, files
<1>1. TypeOK'
  BY DEF TypeOK, Names, Files, Contents, Points
<1>2. OwnsStaging'
  BY DEF OwnsStaging, TypeOK, KnowsStaging, RemovesOwn, Working, Names, Points
<1>3. KnowsStaging'
  BY DEF KnowsStaging, TypeOK, OwnsStaging, Working, Names, Points
<1>4. RemovesOwn'
  BY DEF RemovesOwn, TypeOK, OwnsStaging, KnowsStaging, Working, Names,
     Points, NamesStayOurs
<1>5. PublishedIsWhole'
  BY DEF PublishedIsWhole, TypeOK, OwnsStaging, KnowsStaging, ReplyFollows,
     Working, Decided, Names, Files
<1>6. ReplyFollows'
  BY DEF ReplyFollows, TypeOK, OwnsStaging, KnowsStaging, Working, Decided,
     Names, Points, PublishedIsWhole
<1>. QED  BY <1>1, <1>2, <1>3, <1>4, <1>5, <1>6

\* The name removed is one no other writer works on (189-192).
LEMMA CleanupStep ==
    ASSUME NamesStayOurs, IInv, NEW w \in Writers, Cleanup(w)
    PROVE  IInv'
<1>. USE NamesAssumption DEF IInv, Cleanup, Goto, At, names, directory, files
<1>1. TypeOK'
  BY DEF TypeOK, Names, Files, Contents, Points
<1>2. OwnsStaging'
  BY DEF OwnsStaging, TypeOK, KnowsStaging, RemovesOwn, Working, Names, Points
<1>3. KnowsStaging'
  BY DEF KnowsStaging, TypeOK, OwnsStaging, Working, Names, Points
<1>4. RemovesOwn'
  BY DEF RemovesOwn, TypeOK, OwnsStaging, KnowsStaging, Working, Names,
     Points, NamesStayOurs
<1>5. PublishedIsWhole'
  BY DEF PublishedIsWhole, TypeOK, OwnsStaging, KnowsStaging, ReplyFollows,
     Working, Decided, Names, Files
<1>6. ReplyFollows'
  BY DEF ReplyFollows, TypeOK, OwnsStaging, KnowsStaging, Working, Decided,
     Names, Points, PublishedIsWhole
<1>. QED  BY <1>1, <1>2, <1>3, <1>4, <1>5, <1>6

\* An interrupt leads through the finally clause, whose name is still right.
LEMMA InterruptStep ==
    ASSUME NamesStayOurs, IInv, NEW w \in Writers, Interrupt(w)
    PROVE  IInv'
<1>. USE NamesAssumption DEF IInv, Interrupt, Goto, names, directory, files
<1>1. TypeOK'
  BY DEF TypeOK, Names, Files, Contents, Points
<1>2. OwnsStaging'
  BY DEF OwnsStaging, TypeOK, KnowsStaging, RemovesOwn, Working, Names, Points
<1>3. KnowsStaging'
  BY DEF KnowsStaging, TypeOK, OwnsStaging, Working, Names, Points
<1>4. RemovesOwn'
  BY DEF RemovesOwn, TypeOK, OwnsStaging, KnowsStaging, Working, Names,
     Points, NamesStayOurs
<1>5. PublishedIsWhole'
  BY DEF PublishedIsWhole, TypeOK, OwnsStaging, KnowsStaging, ReplyFollows,
     Working, Decided, Names, Files
<1>6. ReplyFollows'
  BY DEF ReplyFollows, TypeOK, OwnsStaging, KnowsStaging, Working, Decided,
     Names, Points, PublishedIsWhole
<1>. QED  BY <1>1, <1>2, <1>3, <1>4, <1>5, <1>6

\* A killed writer does nothing more.
LEMMA KillStep ==
    ASSUME NamesStayOurs, IInv, NEW w \in Writers, Kill(w)
    PROVE  IInv'
<1>. USE NamesAssumption DEF IInv, Kill, Goto, names, directory, files
<1>1. TypeOK'
  BY DEF TypeOK, Names, Files, Contents, Points
<1>2. OwnsStaging'
  BY DEF OwnsStaging, TypeOK, KnowsStaging, RemovesOwn, Working, Names, Points
<1>3. KnowsStaging'
  BY DEF KnowsStaging, TypeOK, OwnsStaging, Working, Names, Points
<1>4. RemovesOwn'
  BY DEF RemovesOwn, TypeOK, OwnsStaging, KnowsStaging, Working, Names,
     Points, NamesStayOurs
<1>5. PublishedIsWhole'
  BY DEF PublishedIsWhole, TypeOK, OwnsStaging, KnowsStaging, ReplyFollows,
     Working, Decided, Names, Files
<1>6. ReplyFollows'
  BY DEF ReplyFollows, TypeOK, OwnsStaging, KnowsStaging, Working, Decided,
     Names, Points, PublishedIsWhole
<1>. QED  BY <1>1, <1>2, <1>3, <1>4, <1>5, <1>6

\* A power loss takes back at most what was not shown.
LEMMA PowerLossStep ==
    ASSUME NamesStayOurs, IInv, PowerLoss
    PROVE  IInv'
<1>. USE NamesAssumption DEF IInv, PowerLoss, names, directory, files
<1>1. TypeOK'
  <2>1. content' \in [Files -> Contents]
    BY DEF TypeOK, Contents
  <2>2. entry' \in [Names -> Files \cup {Nothing}]
    BY DEF TypeOK, Names
  <2>. QED  BY <2>1, <2>2 DEF TypeOK
<1>2. OwnsStaging'
  BY DEF OwnsStaging, TypeOK, KnowsStaging, RemovesOwn, Working, Names, Points
<1>3. KnowsStaging'
  BY DEF KnowsStaging, TypeOK, OwnsStaging, Working, Names, Points
<1>4. RemovesOwn'
  BY DEF RemovesOwn, TypeOK, OwnsStaging, KnowsStaging, Working, Names,
     Points, NamesStayOurs
<1>5. PublishedIsWhole'
  BY DEF PublishedIsWhole, TypeOK, OwnsStaging, KnowsStaging, ReplyFollows,
     Working, Decided, Names, Files
<1>6. ReplyFollows'
  BY DEF ReplyFollows, TypeOK, OwnsStaging, KnowsStaging, Working, Decided,
     Names, Points, PublishedIsWhole
<1>. QED  BY <1>1, <1>2, <1>3, <1>4, <1>5, <1>6

\* A foreign file is whole.
LEMMA IntrudeStep ==
    ASSUME NamesStayOurs, IInv, Intrude
    PROVE  IInv'
<1>. USE NamesAssumption DEF IInv, Intrude, names, directory, files
<1>1. TypeOK'
  BY DEF TypeOK, Names, Files, Contents, Points
<1>2. OwnsStaging'
  BY DEF OwnsStaging, TypeOK, KnowsStaging, RemovesOwn, Working, Names, Points
<1>3. KnowsStaging'
  BY DEF KnowsStaging, TypeOK, OwnsStaging, Working, Names, Points
<1>4. RemovesOwn'
  BY DEF RemovesOwn, TypeOK, OwnsStaging, KnowsStaging, Working, Names,
     Points, NamesStayOurs
<1>5. PublishedIsWhole'
  BY DEF PublishedIsWhole, TypeOK, OwnsStaging, KnowsStaging, ReplyFollows,
     Working, Decided, Names, Files
<1>6. ReplyFollows'
  BY DEF ReplyFollows, TypeOK, OwnsStaging, KnowsStaging, Working, Decided,
     Names, Points, PublishedIsWhole
<1>. QED  BY <1>1, <1>2, <1>3, <1>4, <1>5, <1>6

\* Every step keeps the invariant.
LEMMA InvStep == NamesStayOurs /\ IInv /\ [Next]_vars => IInv'
<1>. SUFFICES ASSUME NamesStayOurs, IInv, [Next]_vars PROVE IInv'
  OBVIOUS
<1>1. ASSUME NEW w \in Writers, Step(w) PROVE IInv'
  BY <1>1, NothingCreatedStep, CreateStagingStep, RememberNameStep, WriteTextStep,
     FlushStep, SyncAndCloseStep, WriteFailsStep, ReplaceStep, ForgetNameStep,
     LinkStep, PublishFailsStep, CleanupStep DEF Step
<1>2. ASSUME NEW w \in Writers, Interrupt(w) \/ Kill(w) PROVE IInv'
  BY <1>2, InterruptStep, KillStep
<1>3. ASSUME Over \/ UNCHANGED vars PROVE IInv'
  BY <1>3 DEF Over, vars, IInv, TypeOK, OwnsStaging, KnowsStaging, RemovesOwn,
     PublishedIsWhole, ReplyFollows
<1>. QED  BY <1>1, <1>2, <1>3, PowerLossStep, IntrudeStep DEF Next

\* The invariant holds throughout.
THEOREM Invariant == ASSUME NamesStayOurs PROVE Spec => []IInv
  BY InvInit, InvStep, PTL DEF Spec

\* The destination never shows anything but a whole file, whatever fails.
THEOREM DestinationStaysWhole ==
    ASSUME NamesStayOurs PROVE Spec => []DestinationIsWhole
<1>1. IInv => DestinationIsWhole
  BY DEF IInv, PublishedIsWhole, DestinationIsWhole
<1>. QED  BY <1>1, Invariant, PTL

\* A call's answer says truly whether its proof was published.
THEOREM RepliesAreTrue == ASSUME NamesStayOurs PROVE Spec => []ReplyIsTrue
<1>1. IInv => ReplyIsTrue
  BY DEF IInv, ReplyFollows, ReplyIsTrue
<1>. QED  BY <1>1, Invariant, PTL

\* Writers never get in each other's staging files.
THEOREM StagingStaysExclusive ==
    ASSUME NamesStayOurs PROVE Spec => []StagingIsExclusive
<1>1. IInv => StagingIsExclusive
  BY DEF IInv, OwnsStaging, StagingIsExclusive, Working
<1>. QED  BY <1>1, Invariant, PTL

\* Only an overwriting writer, at its own os.replace, displaces what is at the
\* destination.
THEOREM NothingClobbered == ASSUME NamesStayOurs PROVE Spec => NoClobber
<1>. DEFINE Displaced == entry[Dest] # Nothing /\ entry'[Dest] # entry[Dest] /\ powered'
            ByReplace == \E w \in Overwriters : pc[w] = "publish" /\ pc'[w] = "published"
<1>1. TypeOK /\ [Next]_vars => [Displaced => ByReplace]_vars
  <2>. SUFFICES ASSUME TypeOK, Next, Displaced PROVE ByReplace
    BY DEF vars
  <2>. USE NamesAssumption DEF Goto, Raise, names, directory, files
  <2>1. ASSUME NEW w \in Writers, Replace(w) PROVE ByReplace
    BY <2>1 DEF Replace, At, Overwrites, TypeOK
  <2>2. ASSUME NEW w \in Writers, CreateStaging(w) PROVE FALSE
    BY <2>2 DEF CreateStaging, TypeOK, Names
  <2>3. ASSUME NEW w \in Writers, Cleanup(w) PROVE FALSE
    BY <2>3 DEF Cleanup, TypeOK, Names
  <2>4. ASSUME NEW w \in Writers, Step(w) PROVE ByReplace
    BY <2>1, <2>2, <2>3, <2>4 DEF Step, NothingCreated, RememberName, WriteText,
       Flush, SyncAndClose, WriteFails, ForgetName, Link, DestIsFree, PublishFails
  <2>5. ASSUME NEW w \in Writers, Interrupt(w) \/ Kill(w) PROVE FALSE
    BY <2>5 DEF Interrupt, Kill
  <2>6. ~PowerLoss /\ ~Intrude /\ ~Over
    BY DEF PowerLoss, Intrude, Over, vars
  <2>. QED  BY <2>4, <2>5, <2>6 DEF Next
<1>2. IInv => TypeOK
  BY DEF IInv
<1>. QED  BY <1>1, <1>2, Invariant, PTL DEF Spec, NoClobber

-----------------------------------------------------------------------------
(* No staging file is left behind *)

\* A staging entry belongs to a writer at work, to one whose finally clause
\* will remove it, or to one that was cut short (170, 189-192).
StagingIsAccountedFor ==
    \A w \in Writers, n \in StagingNames :
        entry[n] = w =>
            /\ n = stream[w]
            /\ \/ pc[w] \in Working
               \/ pc[w] = "finally" /\ temporary[w] = n
               \/ reply[w] = "killed"
               \/ "unlink" \in Faults

\* Steps that leave the staging entries alone keep that.
LEMMA AccountedFrame ==
  ASSUME IInv, StagingIsAccountedFor, names' = names,
         \A n \in StagingNames : entry'[n] = entry[n],
         NEW w \in Writers, \A v \in Writers \ {w} : pc'[v] = pc[v] /\ reply'[v] = reply[v],
         \/ pc'[w] \in Working
         \/ pc'[w] = "finally" /\ temporary[w] = stream[w]
         \/ reply'[w] = "killed"
         \/ \A n \in StagingNames : entry[n] # w
  PROVE  StagingIsAccountedFor'
  BY DEF StagingIsAccountedFor, names

\* Every step of a call keeps it.
LEMMA AccountedStep ==
  ASSUME IInv, StagingIsAccountedFor, NEW w \in Writers, Step(w)
  PROVE  StagingIsAccountedFor'
<1>. USE NamesAssumption DEF Goto, At, names, directory, files, Names
<1>. \A v \in Writers \ {w} : pc'[v] = pc[v] /\ reply'[v] = reply[v]
  BY DEF IInv, TypeOK, Step, NothingCreated, CreateStaging, RememberName, WriteText,
     Flush, SyncAndClose, WriteFails, Replace, ForgetName, Link, PublishFails, Cleanup, Raise
<1>1. CASE NothingCreated(w)
  <2>1. \A n \in StagingNames : entry[n] # w
    BY <1>1 DEF NothingCreated, IInv, KnowsStaging, StagingIsAccountedFor
  <2>. QED  BY <1>1, <2>1, AccountedFrame DEF NothingCreated, Raise
<1>2. CASE CreateStaging(w)
  <2>1. \A n \in StagingNames : entry[n] # w
    BY <1>2 DEF CreateStaging, IInv, KnowsStaging, StagingIsAccountedFor
  <2>. QED  BY <1>2, <2>1 DEF CreateStaging, IInv, TypeOK, StagingIsAccountedFor, Working
<1>3. CASE RememberName(w)
  <2>1. pc'[w] = "write" /\ pc[w] = "staged"
    BY <1>3 DEF RememberName, IInv, TypeOK
  <2>2. UNCHANGED <<stream, entry, reply>> /\ \A v \in Writers \ {w} : temporary'[v] = temporary[v]
    BY <1>3 DEF RememberName, IInv, TypeOK
  <2>. QED  BY <2>1, <2>2 DEF StagingIsAccountedFor, Working
<1>4. CASE WriteText(w) \/ Flush(w) \/ SyncAndClose(w)
  <2>1. pc'[w] \in Working
    BY <1>4 DEF WriteText, Flush, SyncAndClose, IInv, TypeOK, Working
  <2>. QED  BY <1>4, <2>1, AccountedFrame DEF WriteText, Flush, SyncAndClose
<1>5. CASE WriteFails(w) \/ PublishFails(w)
  <2>1. pc'[w] = "finally" /\ temporary[w] = stream[w]
    BY <1>5 DEF WriteFails, PublishFails, Raise, IInv, TypeOK, KnowsStaging, Working
  <2>. QED  BY <1>5, <2>1, AccountedFrame DEF WriteFails, PublishFails
<1>6. CASE Replace(w)
  <2>1. temporary[w] = stream[w] /\ stream[w] \in StagingNames /\ pc[w] = "publish"
    BY <1>6 DEF Replace, IInv, KnowsStaging, OwnsStaging, Working
  <2>2. entry'[stream[w]] = Nothing
    BY <1>6, <2>1 DEF Replace, IInv, TypeOK
  <2>3. \A n \in StagingNames \ {stream[w]} : entry'[n] = entry[n]
    BY <1>6, <2>1 DEF Replace, IInv, TypeOK
  <2>4. ASSUME NEW v \in Writers, NEW n \in StagingNames, entry'[n] = v
        PROVE  n # stream[w] /\ entry[n] = v /\ n = stream[v] /\ v # w
    BY <2>2, <2>3, <2>4 DEF StagingIsAccountedFor
  <2>5. UNCHANGED <<stream, temporary, reply>>
    BY <1>6 DEF Replace
  <2>. QED  BY <2>4, <2>5 DEF StagingIsAccountedFor
<1>7. CASE ForgetName(w)
  <2>1. \A n \in StagingNames : entry[n] = w => reply[w] = "killed" \/ "unlink" \in Faults
    BY <1>7 DEF ForgetName, StagingIsAccountedFor, Working
  <2>2. reply[w] = "none"
    BY <1>7 DEF ForgetName, IInv, ReplyFollows, Decided
  <2>3. UNCHANGED <<stream, entry>> /\ \A v \in Writers \ {w} : temporary'[v] = temporary[v]
    BY <1>7 DEF ForgetName, IInv, TypeOK
  <2>. QED  BY <2>1, <2>2, <2>3 DEF StagingIsAccountedFor
<1>8. CASE Link(w)
  <2>1. pc'[w] = "finally" /\ temporary[w] = stream[w]
    BY <1>8 DEF Link, IInv, TypeOK, KnowsStaging, Working
  <2>2. \A n \in StagingNames : entry'[n] = entry[n]
    BY <1>8 DEF Link, IInv, TypeOK
  <2>. QED  BY <1>8, <2>1, <2>2, AccountedFrame DEF Link
<1>9. CASE Cleanup(w)
  <2>1. ASSUME NEW v \in Writers, NEW n \in StagingNames, entry'[n] = v
        PROVE  entry[n] = v /\ (v = w => temporary[w] # n \/ "unlink" \in Faults)
    BY <1>9, <2>1 DEF Cleanup, IInv, TypeOK
  <2>2. pc[w] = "finally" /\ UNCHANGED <<stream, temporary, reply>>
    BY <1>9 DEF Cleanup
  <2>. QED  BY <2>1, <2>2 DEF StagingIsAccountedFor, Working
<1>. QED  BY <1>1, <1>2, <1>3, <1>4, <1>5, <1>6, <1>7, <1>8, <1>9 DEF Step

\* Interrupts and kills cut a call short; nothing else touches it.
LEMMA AccountedNext ==
  ASSUME IInv, StagingIsAccountedFor, [Next]_vars
  PROVE  StagingIsAccountedFor'
<1>. USE NamesAssumption DEF names, directory, files, Names
<1>1. ASSUME NEW w \in Writers, Interrupt(w) \/ Kill(w) PROVE StagingIsAccountedFor'
  BY <1>1, AccountedFrame DEF Interrupt, Kill, Goto, IInv, TypeOK
<1>2. ASSUME PowerLoss \/ Intrude PROVE StagingIsAccountedFor'
  BY <1>2 DEF PowerLoss, Intrude, IInv, TypeOK, StagingIsAccountedFor
<1>3. ASSUME Over \/ UNCHANGED vars PROVE StagingIsAccountedFor'
  BY <1>3 DEF Over, vars, StagingIsAccountedFor
<1>. QED  BY <1>1, <1>2, <1>3, AccountedStep DEF Next

\* A call that ends by itself has removed its staging file, or could not.
THEOREM StagingIsRemoved == ASSUME NamesStayOurs PROVE Spec => []NoStagingLeft
<1>1. Init => StagingIsAccountedFor
  BY NamesAssumption DEF Init, StagingIsAccountedFor, Names
<1>2. StagingIsAccountedFor => NoStagingLeft
  BY DEF StagingIsAccountedFor, NoStagingLeft, Working
<1>. QED  BY <1>1, <1>2, AccountedNext, Invariant, PTL DEF Spec

-----------------------------------------------------------------------------
(* ProofFile implements AtomicFile, as long as the machine keeps its power. *)

\* No writer has been told anything before it begins.
LEMMA AtomicInit == Init => Atomic!Init
  BY NamesAssumption DEF Init, Atomic!Init, Told, Names

\* A step that changes neither the destination nor what writers were told.
LEMMA AtomicStutter ==
  ASSUME entry'[Dest] = entry[Dest], \A w \in Writers : Told(w)' = Told(w)
  PROVE  UNCHANGED Atomic!vars
<1>1. [w \in Writers |-> Told(w)]' = [w \in Writers |-> Told(w)]
  OBVIOUS
<1>. QED  BY <1>1 DEF Atomic!vars

\* The end of a call is the answer it was told.
LEMMA AtomicAnswer ==
  ASSUME NEW w \in Writers, entry'[Dest] = entry[Dest],
         \A v \in Writers \ {w} : Told(v)' = Told(v),
         \/ Told(w) = "none" /\ Told(w)' = "error"
         \/ Told(w) = "published" /\ Told(w)' = "ok"
         \/ Told(w) \in {"none", "published"} /\ Told(w)' = "killed"
  PROVE  Atomic!Next
<1>. DEFINE told == [v \in Writers |-> Told(v)]
<1>1. \A c : Told(w)' = c => told' = [told EXCEPT ![w] = c]
  OBVIOUS
<1>2. told[w] = Told(w)
  OBVIOUS
<1>. HIDE DEF told
<1>3. \/ told[w] = "none" /\ told' = [told EXCEPT ![w] = "error"]
      \/ told[w] = "published" /\ told' = [told EXCEPT ![w] = "ok"]
      \/ told[w] \in {"none", "published"} /\ told' = [told EXCEPT ![w] = "killed"]
  BY <1>1, <1>2
<1>4. Atomic!Answer(w)
  BY <1>3 DEF Atomic!Answer, told
<1>. QED  BY <1>4 DEF Atomic!Next

\* A link or a replace publishes the writer's own file.
LEMMA AtomicPublish ==
  ASSUME NamesStayOurs, IInv, NEW w \in Writers, Link(w) \/ Replace(w)
  PROVE  Atomic!Next
<1>. USE NamesAssumption DEF Goto, At, names, directory, files, Names
<1>1. temporary[w] = stream[w] /\ stream[w] \in StagingNames /\ entry[stream[w]] = w
  BY DEF Link, Replace, IInv, KnowsStaging, OwnsStaging, Working
<1>2. entry'[Dest] = w /\ ever' = ever \cup {w}
  BY <1>1 DEF Link, Replace, Staged, IInv, TypeOK
<1>3. w \notin ever /\ pc[w] = "publish" /\ pc'[w] \in {"finally", "published"}
  BY DEF Link, Replace, IInv, ReplyFollows, Decided, TypeOK
<1>4. Told(w) = "none" /\ Told(w)' = "published"
  BY <1>2, <1>3 DEF Told
<1>5. \A v \in Writers \ {w} : pc'[v] = pc[v] /\ reply'[v] = reply[v]
  BY DEF Link, Replace, IInv, TypeOK
<1>6. \A v \in Writers \ {w} : Told(v)' = Told(v)
  BY <1>2, <1>5 DEF Told
<1>7. w \notin Overwriters => entry[Dest] = Nothing
  BY DEF Link, Replace, Overwrites, DestIsFree
<1>. DEFINE told == [v \in Writers |-> Told(v)]
<1>8. told[w] = "none" /\ told' = [told EXCEPT ![w] = "published"]
  BY <1>4, <1>6
<1>9. Atomic!Publish(w)
  BY <1>2, <1>7, <1>8 DEF Atomic!Publish
<1>. QED  BY <1>9 DEF Atomic!Next

\* A step within a call, or an interrupt that leaves the clause to run, shows
\* nothing.
LEMMA AtomicInside ==
  ASSUME entry'[Dest] = entry[Dest], UNCHANGED ever, NEW w \in Writers,
         pc[w] # "over", pc'[w] # "over",
         \A v \in Writers \ {w} : pc'[v] = pc[v] /\ reply'[v] = reply[v]
  PROVE  UNCHANGED Atomic!vars
<1>1. \A v \in Writers : Told(v)' = Told(v)
  BY DEF Told
<1>. QED  BY <1>1, AtomicStutter

\* The end of a call tells the truth.
LEMMA AtomicEnd ==
  ASSUME IInv, entry'[Dest] = entry[Dest], UNCHANGED ever, NEW w \in Writers,
         pc[w] # "over", pc'[w] = "over",
         \/ pc[w] = "finally" /\ reply'[w] = reply[w]
         \/ reply'[w] = "killed",
         \A v \in Writers \ {w} : pc'[v] = pc[v] /\ reply'[v] = reply[v]
  PROVE  Atomic!Next
<1>1. \A v \in Writers \ {w} : Told(v)' = Told(v)
  BY DEF Told
<1>2. Told(w)' = reply'[w] /\ Told(w) = IF w \in ever THEN "published" ELSE "none"
  BY DEF Told
<1>3. reply'[w] \in {"ok", "error", "killed"}
      /\ (reply'[w] = "ok" => w \in ever) /\ (reply'[w] = "error" => w \notin ever)
  BY DEF IInv, TypeOK, ReplyFollows, Decided
<1>. QED  BY <1>1, <1>2, <1>3, AtomicAnswer

\* Every step is a step of AtomicFile or shows nothing.
LEMMA AtomicStep ==
  ASSUME NamesStayOurs, "power" \notin Faults, IInv, [Next]_vars
  PROVE  [Atomic!Next]_(Atomic!vars)
<1>. USE NamesAssumption DEF Goto, At, Raise, names, directory, files, Names
<1>1. ASSUME NEW w \in Writers, Step(w) PROVE [Atomic!Next]_(Atomic!vars)
  <2>. \A v \in Writers \ {w} : pc'[v] = pc[v] /\ reply'[v] = reply[v]
    BY <1>1 DEF IInv, TypeOK, Step, NothingCreated, CreateStaging, RememberName, WriteText,
       Flush, SyncAndClose, WriteFails, Replace, ForgetName, Link, PublishFails, Cleanup
  <2>1. CASE Link(w) \/ Replace(w)
    BY <2>1, AtomicPublish
  <2>2. CASE Cleanup(w)
    <3>1. entry'[Dest] = entry[Dest]
      BY <2>2 DEF Cleanup, IInv, TypeOK
    <3>2. pc[w] = "finally" /\ pc'[w] = "over"
      BY <2>2 DEF Cleanup, IInv, TypeOK
    <3>. QED  BY <2>2, <3>1, <3>2, AtomicEnd DEF Cleanup
  <2>3. CASE CreateStaging(w)
    <3>1. entry'[Dest] = entry[Dest] /\ pc[w] = "start" /\ pc'[w] = "staged"
      BY <2>3 DEF CreateStaging, IInv, TypeOK
    <3>. QED  BY <2>3, <3>1, AtomicInside DEF CreateStaging
  <2>4. CASE ~(Link(w) \/ Replace(w) \/ Cleanup(w) \/ CreateStaging(w))
    <3>1. UNCHANGED <<entry, ever>> /\ pc[w] # "over" /\ pc'[w] # "over"
      BY <1>1, <2>4 DEF Step, NothingCreated, RememberName, WriteText, Flush,
         SyncAndClose, WriteFails, ForgetName, PublishFails, IInv, TypeOK
    <3>. QED  BY <3>1, AtomicInside
  <2>. QED  BY <2>1, <2>2, <2>3, <2>4
<1>2. ASSUME NEW w \in Writers, Interrupt(w) \/ Kill(w) PROVE [Atomic!Next]_(Atomic!vars)
  <2>1. UNCHANGED <<entry, ever>> /\ pc[w] # "over" /\ reply'[w] = "killed"
        /\ \A v \in Writers \ {w} : pc'[v] = pc[v] /\ reply'[v] = reply[v]
    BY <1>2 DEF Interrupt, Kill, IInv, TypeOK
  <2>. QED  BY <2>1, AtomicInside, AtomicEnd
<1>3. ASSUME Intrude PROVE Atomic!Next
  <2>1. entry'[Dest] = Foreign /\ entry[Dest] = Nothing
    BY <1>3 DEF Intrude, IInv, TypeOK
  <2>2. \A v \in Writers : Told(v)' = Told(v)
    BY <1>3 DEF Intrude, Told
  <2>3. [w \in Writers |-> Told(w)]' = [w \in Writers |-> Told(w)]
    BY <2>2
  <2>. QED  BY <2>1, <2>3 DEF Atomic!Next, Atomic!Intrude
<1>4. ~PowerLoss
  BY DEF PowerLoss
<1>5. ASSUME Over \/ UNCHANGED vars PROVE UNCHANGED Atomic!vars
  <2>1. \A v \in Writers : Told(v)' = Told(v)
    BY <1>5 DEF Over, vars, Told
  <2>. QED  BY <1>5, <2>1, AtomicStutter DEF Over, vars
<1>. QED  BY <1>1, <1>2, <1>3, <1>4, <1>5 DEF Next

\* ConnectionProof.write is an atomic file: while the power lasts, the
\* destination changes in single steps from one whole file to another, and
\* each call is told what happened to its own.
THEOREM AtomicImplemented ==
    ASSUME NamesStayOurs, "power" \notin Faults PROVE Spec => AtomicSpec
  BY Invariant, AtomicInit, AtomicStep, PTL DEF Spec, AtomicSpec, Atomic!Spec
=============================================================================
