--------------------------- MODULE DurableContext ---------------------------
(***************************************************************************)
(* s14_context_compact/code.py: the state that goes around compaction.     *)
(* Pending items change status, are archived when done for long, and are   *)
(* rendered into prompts beside what their source pointers resolve to; the *)
(* sources, a transcript and an artifact, change in the meantime.          *)
(***************************************************************************)
EXTENDS Naturals, Sequences, FiniteSets

CONSTANTS
    Item,
    Digest,         \* contents the artifact has
    Cited,          \* and those among them a pointer names
    MaxLines,       \* bound on the transcript
    MaxTime,        \* bound on the clock
    OlderThan,      \* archive_done_pending_items: older_than
    MaxRenderedDone,  \* MAX_RENDERED_DONE_ITEMS
    None

VARIABLES
    lines,          \* the transcript has this many whole lines
    torn,           \* and a part of one more
    artifact,       \* the digest of the file, None without one
    pending,        \* state.pending_items, None for those that left it
    archive,        \* the records archive_done_pending_items returned
    now,
    resolved,       \* what resolve_durable_sources returned last, None before
    prompt,         \* what the last step rendered, None otherwise
    verified        \* pointers with the evidence they were ever resolved to

vars == <<lines, torn, artifact, pending, archive, now, resolved, prompt, verified>>

-----------------------------------------------------------------------------
(* Sources *)

Transcript(n) == [kind |-> "transcript", name |-> n]
Artifact(digest) == [kind |-> "artifact", name |-> digest]
Pointer == {Transcript(n) : n \in 1..MaxLines} \cup {Artifact(d) : d \in Cited}

Available(evidence) == [status |-> "available", evidence |-> evidence]
Refused(status) == [status |-> status, evidence |-> None]

\* A line is found before what stands behind it is looked at.
ResolveTranscript(p) ==
    IF p.name <= lines THEN Available(p) ELSE Refused(IF torn THEN "corrupt" ELSE "missing")

\* Faulty variant: whatever has the name.
ResolveArtifactUnverified(p) ==
    IF artifact = None THEN Refused("missing") ELSE Available(Artifact(artifact))

\* The pointer carries the digest of the content it means.
ResolveArtifact(p) ==
    IF artifact = None THEN Refused("missing")
    ELSE IF artifact = p.name THEN Available(p) ELSE Refused("corrupt")

ResolvePointer(p) == IF p.kind = "transcript" THEN ResolveTranscript(p) ELSE ResolveArtifact(p)

InState == {i \in Item : pending[i] # None}
Pointers == {pending[i].pointer : i \in InState}

-----------------------------------------------------------------------------
Init ==
    /\ lines = 1 /\ torn = FALSE
    /\ artifact \in Digest \cup {None}
    /\ pending = [i \in Item |-> [status |-> "open", pointer |-> Transcript(1), at |-> 0]]
    /\ archive = {}
    /\ now = 1
    /\ resolved = None
    /\ prompt = None
    /\ verified = {}

Tick ==
    /\ now < MaxTime
    /\ now' = now + 1
    /\ UNCHANGED <<lines, torn, artifact, pending, archive, resolved, verified>>
    /\ prompt' = None

\* The session goes on writing: a line, or a part of one when it dies.
AppendLine ==
    /\ ~ torn
    /\ \/ lines < MaxLines /\ lines' = lines + 1 /\ UNCHANGED torn
       \/ torn' = TRUE /\ UNCHANGED lines
    /\ UNCHANGED <<artifact, pending, archive, now, resolved, verified>>
    /\ prompt' = None

\* Cleanup removes the file, a later call publishes one under its name.
ChangeArtifact(digest) ==
    /\ artifact # digest
    /\ digest = None \/ artifact = None
    /\ artifact' = digest
    /\ UNCHANGED <<lines, torn, pending, archive, now, resolved, verified>>
    /\ prompt' = None

\* Faulty variant: what is done may be opened again.
MayBecomeAgain(old, new) == old # new

MayBecome(old, new) ==
    \/ old = "open" /\ new \in {"blocked", "done"}
    \/ old = "blocked" /\ new \in {"open", "done"}

\* With evidence of its own, or the item's once more; the confirmation is newer.
Transition(i, status, pointer) ==
    /\ i \in InState
    /\ MayBecome(pending[i].status, status)
    /\ now > pending[i].at
    /\ pending' = [pending EXCEPT ![i] = [status |-> status, pointer |-> pointer, at |-> now]]
    /\ UNCHANGED <<lines, torn, artifact, archive, now, resolved, verified>>
    /\ prompt' = None

\* Faulty variant: blocked items are cleared away with the done ones.
ExpiredAnyStatus == {i \in InState : pending[i].status # "open" /\ now - pending[i].at >= OlderThan}

Expired == {i \in InState : pending[i].status = "done" /\ now - pending[i].at >= OlderThan}

ArchiveDone ==
    /\ Expired # {}
    /\ archive' = archive \cup {[item |-> i, was |-> pending[i], at |-> now] : i \in Expired}
    /\ pending' = [i \in Item |-> IF i \in Expired THEN None ELSE pending[i]]
    /\ UNCHANGED <<lines, torn, artifact, now, resolved, verified>>
    /\ prompt' = None

ResolveSources ==
    /\ resolved' = [p \in Pointers |-> ResolvePointer(p)]
    /\ verified' = verified \cup
           {[pointer |-> p, evidence |-> resolved'[p].evidence] :
               p \in {q \in Pointers : resolved'[q].status = "available"}}
    /\ UNCHANGED <<lines, torn, artifact, pending, archive, now>>
    /\ prompt' = None

Done == {i \in InState : pending[i].status = "done"}
Bounded(n) == IF n < MaxRenderedDone THEN n ELSE MaxRenderedDone

\* Faulty variant: the bound is on all items, the newest go first.
ShownNewest ==
    {S \in SUBSET InState :
        /\ Cardinality(S) = Bounded(Cardinality(InState))
        /\ \A i \in S, j \in InState \ S : pending[i].at >= pending[j].at}

\* Everything unfinished, and the newest of what is done.
Shown ==
    {(InState \ Done) \cup S : S \in
        {T \in SUBSET Done :
            /\ Cardinality(T) = Bounded(Cardinality(Done))
            /\ \A i \in T, j \in Done \ T : pending[i].at >= pending[j].at}}

\* Faulty variant: it is enough that every pointer was resolved at some time.
FitsLoosely(resolutions) == Pointers \cap DOMAIN resolutions # {}

\* One resolution for each pointer, and no other.
Fits(resolutions) == DOMAIN resolutions = Pointers

\* render_durable_context, with resolutions, or without.
Render(withEvidence) ==
    /\ InState # {}
    /\ withEvidence => resolved # None /\ Fits(resolved)
    /\ \E shown \in Shown :
         prompt' = [shown |-> shown,
                    claims |-> IF withEvidence
                                 THEN {resolved[p].evidence : p \in DOMAIN resolved} \ {None} ELSE {}]
    /\ UNCHANGED <<lines, torn, artifact, pending, archive, now, resolved, verified>>

Next ==
    \/ Tick \/ AppendLine \/ ArchiveDone \/ ResolveSources
    \/ \E digest \in Digest \cup {None} : ChangeArtifact(digest)
    \/ \E i \in Item, status \in {"open", "blocked", "done"}, p \in Pointer : Transition(i, status, p)
    \/ \E withEvidence \in BOOLEAN : Render(withEvidence)

Spec == Init /\ [][Next]_vars

-----------------------------------------------------------------------------
(* Properties *)

\* One pointer is never answered with two contents, whatever happens to the
\* transcript and the artifact (_resolve_transcript, _resolve_artifact).
EvidenceImmutable ==
    \A u, v \in verified : u.pointer = v.pointer => u.evidence = v.evidence

\* An item leaves the state only as done, once, and into the archive
\* (archive_done_pending_items).
ItemsAccounted ==
    \A i \in Item :
        LET records == {r \in archive : r.item = i} IN
        /\ Cardinality(records) = (IF pending[i] = None THEN 1 ELSE 0)
        /\ \A r \in records : r.was.status = "done"

\* What is done stays done, and confirmations only get newer
\* (transition_pending_item).
KeepsHistory ==
    \A i \in Item : pending[i] # None /\ pending'[i] \notin {None, pending[i]} =>
        pending[i].status # "done" /\ pending'[i].at > pending[i].at
HistoryKept == [][KeepsHistory]_vars

\* No prompt lacks unfinished work, however much is done (render_durable_context).
ShowsUnfinished ==
    prompt' # None => \A i \in InState : pending[i].status # "done" => i \in prompt'.shown

\* A prompt claims evidence only for pointers the state has at that time: not
\* for those of before a transition (render_durable_context's exact match).
ClaimsOwnEvidence == prompt' # None => prompt'.claims \subseteq Pointers
UnfinishedShown == [][ShowsUnfinished /\ ClaimsOwnEvidence]_vars
=============================================================================
