--------------------------- MODULE SkillEvolution ---------------------------
(***************************************************************************)
(* examples/self_evolving_skills/code.py: releases of one skill, and the   *)
(* pointer to the active one, which moves with an audit event.             *)
(*                                                                         *)
(* A candidate is distilled from successful runs; its text follows from    *)
(* them and is a number here.  Approval, evaluation and tampering are      *)
(* events.  An audit append may fail, or the process die in it, after any  *)
(* part of it was written; append_audit begins a line of its own behind a  *)
(* half line, so those are no events and are left out.                     *)
(***************************************************************************)
EXTENDS Naturals, Sequences, SequencesExt

CONSTANTS
    Candidate,      \* candidate IDs, numbers: the text each renders to
    MaxAudit,       \* bound on the audit events
    MaxFaults,      \* bound on audit failures, deaths and tampering
    None

VARIABLES
    candidates,     \* candidate.json: the text, by ID
    passed,         \* candidates with a stored passing evaluation
    history,        \* manifest: released candidates, by version
    active,         \* manifest: the active version, 0 before the first
    releases,       \* vN/SKILL.md; the last may be one no manifest names yet
    audit,          \* evolution-audit.jsonl: its events on versions
    pc,             \* "idle", "manifest" within promote, "audit" within it or set_active_version
    before,         \* the pointer to restore if the audit fails; None within promote
    approved,       \* texts a human approved, per version
    unaudited,      \* history: the pointer that a death or a failed truncation left
                    \* without its event, None once an event was written again
    faults          \* bound: faults

vars == <<candidates, passed, history, active, releases, audit, pc, before, approved,
          unaudited, faults>>

Event(action, version) == [action |-> action, version |-> version]

Init ==
    /\ candidates = [c \in Candidate |-> 0]
    /\ passed = {}
    /\ history = <<>> /\ active = 0 /\ releases = <<>>
    /\ audit = <<>>
    /\ pc = "idle" /\ before = 0
    /\ approved = <<>>
    /\ unaudited = None
    /\ faults = 0

Fault == faults < MaxFaults /\ faults' = faults + 1

\* distill and evaluate: what passed is stored; the same runs give the same candidate.
Evaluate(c) ==
    /\ pc = "idle"
    /\ c \notin passed
    /\ candidates' = [candidates EXCEPT ![c] = c]
    /\ passed' = passed \cup {c}
    /\ UNCHANGED <<history, active, releases, audit, pc, before, approved, unaudited, faults>>

\* The release is written before the manifest that refers to it, over one that
\* a death left there; a candidate that was released is only returned.
Promote(c) ==
    /\ pc = "idle"
    /\ c \in passed
    /\ ~ Contains(history, c)
    /\ releases' = Append(SubSeq(releases, 1, Len(history)), c)
    /\ before' = None
    /\ pc' = "manifest"
    /\ UNCHANGED <<candidates, passed, history, active, audit, approved, unaudited, faults>>

PublishManifest ==
    /\ pc = "manifest"
    /\ history' = Append(history, Last(releases))
    /\ approved' = Append(approved, Last(releases))
    /\ active' = Len(history')
    /\ pc' = "audit"
    /\ UNCHANGED <<candidates, passed, releases, audit, before, unaudited, faults>>

\* Faulty variant: the release is taken as it is.
VerifyNothing(v) == v \in DOMAIN history

\* The release is what its candidate renders to.
VerifyRelease(v) == v \in DOMAIN history /\ releases[v] = candidates[history[v]]

\* The pointer is written, then the event.
SetActiveVersion(v) ==
    /\ pc = "idle"
    /\ VerifyRelease(v)
    /\ v # active
    /\ before' = active
    /\ active' = v
    /\ pc' = "audit"
    /\ UNCHANGED <<candidates, passed, history, releases, audit, approved, unaudited, faults>>

\* What is appended for the pointer that was written.
Appended == Append(audit, Event(IF before = None THEN "skill_promoted" ELSE "skill_activated", active))

AppendAudit ==
    /\ pc = "audit"
    /\ Len(audit) < MaxAudit
    /\ audit' = Appended
    /\ pc' = "idle"
    /\ unaudited' = None
    /\ UNCHANGED <<candidates, passed, history, active, releases, before, approved, faults>>

\* Faulty variant: the new pointer stays.
AuditFailsKeepingPointer ==
    /\ pc = "audit" /\ before # None
    /\ Fault
    /\ pc' = "idle"
    /\ UNCHANGED <<candidates, passed, history, active, releases, audit, before, approved, unaudited>>

\* set_active_version restores the manifest, then truncates the audit; if that
\* fails too, an event written whole tells of a switch that was undone.
AuditFails ==
    /\ pc = "audit" /\ before # None
    /\ Fault
    /\ active' = before
    /\ \/ UNCHANGED <<audit, unaudited>>
       \/ Len(audit) < MaxAudit /\ audit' = Appended /\ unaudited' = before
    /\ pc' = "idle"
    /\ UNCHANGED <<candidates, passed, history, releases, before, approved>>

\* promote leaves what it published, and what it wrote of the event.
PromotionAuditFails ==
    /\ pc = "audit" /\ before = None
    /\ Fault
    /\ \/ UNCHANGED audit
       \/ Len(audit) < MaxAudit /\ audit' = Appended
    /\ pc' = "idle"
    /\ UNCHANGED <<candidates, passed, history, active, releases, before, approved, unaudited>>

\* The process dies between two of its writes, or within the audit append.
Die ==
    /\ pc # "idle"
    /\ Fault
    /\ \/ UNCHANGED audit /\ unaudited' = IF pc = "audit" /\ before # None THEN active ELSE unaudited
       \/ pc = "audit" /\ Len(audit) < MaxAudit /\ audit' = Appended /\ unaudited' = None
    /\ pc' = "idle"
    /\ UNCHANGED <<candidates, passed, history, active, releases, before, approved>>

\* Somebody edits a released file.
Tamper(v) ==
    /\ pc = "idle"
    /\ Fault
    /\ releases' = [releases EXCEPT ![v] = 0]
    /\ UNCHANGED <<candidates, passed, history, active, audit, pc, before, approved, unaudited>>

Next ==
    \/ \E c \in Candidate : Evaluate(c) \/ Promote(c)
    \/ PublishManifest
    \/ \E v \in DOMAIN history : SetActiveVersion(v) \/ Tamper(v)
    \/ AppendAudit \/ AuditFails \/ PromotionAuditFails \/ Die

Spec == Init /\ [][Next]_vars

-----------------------------------------------------------------------------
(* Properties *)

\* Between operations the pointer is where the last audit event says, whatever
\* audit appends failed (README.md:66: the audit decides).  Ahead of the audit are
\* only a promotion whose event was lost, and the pointer of a switch whose
\* process died before its event, or whose undoing left its event behind.
PointerAudited ==
    pc = "idle" /\ active # 0 =>
        \/ audit # <<>> /\ Last(audit).version = active
        \/ active = Len(history) /\ ~ Contains(audit, Event("skill_promoted", active))
        \/ active = unaudited

\* active_skill_path serves only a text that was approved for that version.
ServedApproved ==
    active # 0 /\ VerifyRelease(active) => releases[active] = approved[active]
=============================================================================
