-------------------------- MODULE ReflectionMemory --------------------------
(***************************************************************************)
(* examples/reflection_memory/code.py: repeated failures and a held-out    *)
(* recovery become a candidate, the candidate is evaluated, and a human    *)
(* promotes it to a version that prompts show until it is resolved.        *)
(*                                                                         *)
(* One failure signature is modelled: signatures have manifests of their   *)
(* own.  The text of a trajectory is its digest, a number.  Files are      *)
(* replaced one by one, and the process may die in between.                *)
(***************************************************************************)
EXTENDS Naturals, Sequences, SequencesExt

CONSTANTS
    Failure, Recovery,  \* trajectory IDs: failed training runs, held-out recoveries
    MinimumSupport,
    MaxDigest,          \* bound on the texts of one trajectory
    MaxVersions,        \* bound on the promotions
    MaxCrashes,         \* bound on the deaths of the process
    None

VARIABLES
    traces,             \* the digest of each trajectory, 0 before it is written
    candidates,         \* candidate.json per recovery
    evaluations,        \* evaluation.json per recovery
    records,            \* vN/reflection.json
    manifest,
    held,               \* candidate and report in the caller's hands, per recovery
    todo,               \* the writes the operation still makes
    crashes             \* bound: deaths

vars == <<traces, candidates, evaluations, records, manifest, held, todo, crashes>>

Trace == Failure \cup Recovery
Idle == todo = <<>>

\* A candidate is identified by the trajectories it comes from, not by their text.
Candidate(failures, rec) ==
    [failures |-> failures, rec |-> rec, text |-> [t \in failures \cup {rec} |-> traces[t]]]

\* The checks of a report compare the candidate with the trajectories given; which
\* of the candidates with its ID they looked at it does not say.
Report(candidate) ==
    [passed |-> /\ Cardinality(candidate.failures) >= MinimumSupport
                /\ \A t \in DOMAIN candidate.text : candidate.text[t] = traces[t]]

-----------------------------------------------------------------------------
Init ==
    /\ traces = [t \in Trace |-> 0]
    /\ candidates = [r \in Recovery |-> None]
    /\ evaluations = [r \in Recovery |-> None]
    /\ records = [v \in 1..MaxVersions |-> None]
    /\ manifest = [status |-> "candidate", active |-> None, history |-> <<>>]
    /\ held = [r \in Recovery |-> [candidate |-> None, report |-> None]]
    /\ todo = <<>>
    /\ crashes = 0

\* write_trajectory replaces what is there under this ID.
WriteTrajectory(t) ==
    /\ Idle
    /\ traces[t] < MaxDigest
    /\ traces' = [traces EXCEPT ![t] = @ + 1]
    /\ UNCHANGED <<candidates, evaluations, records, manifest, held, todo, crashes>>

\* Supported by enough failures, each of which the recovery refers to.
Distill(failures, rec) ==
    /\ Idle
    /\ \A t \in failures \cup {rec} : traces[t] > 0
    /\ Cardinality(failures) >= MinimumSupport
    /\ held' = [held EXCEPT ![rec].candidate = Candidate(failures, rec)]
    /\ candidates' = [candidates EXCEPT ![rec] = Candidate(failures, rec)]
    /\ UNCHANGED <<traces, evaluations, records, manifest, todo, crashes>>

Evaluate(rec) ==
    LET report == Report(held[rec].candidate) IN
    /\ Idle
    /\ held[rec].candidate # None
    /\ held' = [held EXCEPT ![rec].report = report]
    /\ evaluations' = [evaluations EXCEPT ![rec] = report]
    /\ UNCHANGED <<traces, candidates, records, manifest, todo, crashes>>

\* Faulty variant: the next number is that of the newest version still active.
NextVersionFromActive == IF manifest.active = None THEN 1 ELSE manifest.active + 1

\* Versions count what was ever promoted.
NextVersion == Len(manifest.history) + 1

Record(v, candidate) == [file |-> "record", version |-> v, content |-> candidate]
Publish(v, candidate) ==
    [file |-> "manifest", version |-> v,
     content |-> [status |-> "active", active |-> v, history |-> Append(manifest.history, candidate)]]

\* Faulty variant: the manifest refers to the version first.
PublicationManifestFirst(v, candidate) == <<Publish(v, candidate), Record(v, candidate)>>

\* What promote writes, in this order.
Publication(v, candidate) == <<Record(v, candidate), Publish(v, candidate)>>

\* The report passed, and candidate and report are what the files say; one
\* that was promoted is not promoted again.
Promote(rec) ==
    LET c == held[rec].candidate IN
    /\ Idle
    /\ c # None /\ held[rec].report # None
    /\ held[rec].report.passed
    /\ candidates[rec] = c
    /\ evaluations[rec] = held[rec].report
    /\ \A n \in DOMAIN manifest.history : manifest.history[n].rec # rec \/ manifest.history[n].failures # c.failures
    /\ NextVersion <= MaxVersions
    /\ todo' = Publication(NextVersion, c)
    /\ UNCHANGED <<traces, candidates, evaluations, records, manifest, held, crashes>>

\* A success in the same family ends the active version.
Resolve ==
    /\ Idle
    /\ manifest.status = "active"
    /\ manifest' = [manifest EXCEPT !.status = "resolved", !.active = None]
    /\ UNCHANGED <<traces, candidates, evaluations, records, held, todo, crashes>>

WriteFile ==
    LET w == Head(todo) IN
    /\ todo # <<>>
    /\ todo' = Tail(todo)
    /\ IF w.file = "record"
         THEN records' = [records EXCEPT ![w.version] = w.content] /\ UNCHANGED manifest
         ELSE manifest' = w.content /\ UNCHANGED records
    /\ UNCHANGED <<traces, candidates, evaluations, held, crashes>>

\* What the caller held goes with the process.
Crash ==
    /\ crashes < MaxCrashes
    /\ crashes' = crashes + 1
    /\ todo' = <<>>
    /\ held' = [r \in Recovery |-> [candidate |-> None, report |-> None]]
    /\ UNCHANGED <<traces, candidates, evaluations, records, manifest>>

Next ==
    \/ \E t \in Trace : WriteTrajectory(t)
    \/ \E rec \in Recovery :
         \/ \E failures \in SUBSET Failure : Distill(failures, rec)
         \/ Evaluate(rec) \/ Promote(rec)
    \/ Resolve \/ WriteFile \/ Crash

Spec == Init /\ [][Next]_vars

-----------------------------------------------------------------------------
(* Properties *)

\* What get_context_for_agent reads of an active reflection is on disk and
\* what was promoted, whenever the process died.
ContextReadable ==
    manifest.active # None => records[manifest.active] = manifest.history[manifest.active]

\* A version that was promoted never changes (README.md: older versions stay in the history).
KeepsVersions ==
    \A v \in DOMAIN manifest.history :
        /\ v \in DOMAIN manifest'.history /\ manifest'.history[v] = manifest.history[v]
        /\ records'[v] = records[v]
VersionsKept == [][KeepsVersions]_vars
=============================================================================
