------------------------------ MODULE AtomicFile -----------------------------
(***************************************************************************)
(* What ConnectionProof.write (envelope.py:154-192) promises about the     *)
(* destination path, seen by whoever opens it: an entry of the directory   *)
(* that changes from one whole file to another in one step.  A writer that *)
(* may not overwrite publishes only where there is nothing; a writer that  *)
(* reports failure has published nothing.  ProofFile implements it.        *)
(***************************************************************************)
CONSTANTS
    Writers,        \* concurrent calls of write
    Overwriters,    \* those with overwrite=True
    Nothing,        \* no such entry
    Foreign         \* a file somebody else left at the destination

VARIABLES
    target,     \* the entry at the destination: whose whole file it is
    reply       \* what each writer was told

vars == <<target, reply>>

Replies == {"none", "ok", "error", "killed"}

TypeOK ==
    /\ target \in Writers \cup {Nothing, Foreign}
    /\ reply \in [Writers -> Replies \cup {"published"}]

Init ==
    /\ target \in {Nothing, Foreign}
    /\ reply = [w \in Writers |-> "none"]

\* The only way the destination changes.  "published" is a writer that was not
\* told yet.
Publish(w) ==
    /\ reply[w] = "none"
    /\ w \notin Overwriters => target = Nothing
    /\ target' = w
    /\ reply' = [reply EXCEPT ![w] = "published"]

\* Success is reported after publication and failure only without it; a killed
\* or interrupted writer says nothing either way.
Answer(w) ==
    /\ \/ reply[w] = "none" /\ reply' = [reply EXCEPT ![w] = "error"]
       \/ reply[w] = "published" /\ reply' = [reply EXCEPT ![w] = "ok"]
       \/ reply[w] \in {"none", "published"} /\ reply' = [reply EXCEPT ![w] = "killed"]
    /\ UNCHANGED target

\* Somebody else puts a file where there is none.
Intrude ==
    /\ target = Nothing
    /\ target' = Foreign
    /\ UNCHANGED reply

Next ==
    \/ \E w \in Writers : Publish(w) \/ Answer(w)
    \/ Intrude

Spec == Init /\ [][Next]_vars
==============================================================================
