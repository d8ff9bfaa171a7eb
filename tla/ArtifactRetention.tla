------------------------- MODULE ArtifactRetention -------------------------
(***************************************************************************)
(* s13_output_externalization/code.py: the retention lease journal of one  *)
(* session, the cleanup of its artifacts, and the Memory owner that holds  *)
(* the references, used by several processes that may die at any point.    *)
(*                                                                         *)
(* What the code does under the journal lock is one step, unless it calls  *)
(* the Memory owner meanwhile.                                             *)
(***************************************************************************)
EXTENDS Naturals, Sequences, SequencesExt

CONSTANTS
    Worker,         \* processes that publish, remove, reconcile and clean up
    Tx,             \* transaction IDs
    File,           \* artifact names
    RawConcurrent,  \* whether cleanup without a journal runs beside other calls
    FencedRemoval,  \* whether the owner excludes removals while it is fenced
    Faults,         \* the faults that occur
    MaxVersions,    \* bound on the artifacts written under one name
    MaxCalls,       \* bound on the calls made
    MaxFaults,      \* bound on the faults that occur
    None

ASSUME RetentionAssumption ==
    /\ {RawConcurrent, FencedRemoval} \subseteq BOOLEAN
    /\ Faults \subseteq {"oserror", "timeout", "crash"}
    /\ {MaxVersions, MaxCalls, MaxFaults} \subseteq Nat
    /\ None \notin Worker

VARIABLES
    artifact,       \* per name, the digest of its content; 0 if there is no file
    versions,       \* per name, how many artifacts were written under it
    journal,        \* per transaction, its durable lease events in order
    jlock,          \* the worker holding _exclusive_journal_lock
    expired,        \* transactions whose retain_until has passed
    published,      \* references the Memory owner holds (external)
    sealed,         \* transactions it has tombstoned (external)
    fence,          \* per transaction, the worker inside inspect_fenced (external)
    inflight,       \* publications that may still reach the owner (external)
    pc, tx, claim,  \* where a worker is, and its arguments
    seen,           \* what it read: an observation, protected names or a plan
    calls, faults   \* bounds: calls made, faults

owner == <<published, sealed, fence, inflight>>
files == <<artifact, versions>>
locals == <<pc, tx, claim, seen>>
vars == <<files, journal, jlock, expired, owner, locals, calls, faults>>

Claims == [file : File, digest : 1..MaxVersions, bounded : BOOLEAN]

Init ==
    /\ artifact = [f \in File |-> 0]
    /\ versions = [f \in File |-> 0]
    /\ journal = [t \in Tx |-> <<>>]
    /\ jlock = None
    /\ expired = {}
    /\ published = {} /\ sealed = {} /\ inflight = {}
    /\ fence = [t \in Tx |-> None]
    /\ pc = [w \in Worker |-> "idle"]
    /\ tx = [w \in Worker |-> None]
    /\ claim = [w \in Worker |-> None]
    /\ seen = [w \in Worker |-> None]
    /\ calls = 0
    /\ faults = 0

-----------------------------------------------------------------------------
(* ArtifactRetentionJournal: what the events say *)

Phase(t) == IF journal[t] = <<>> THEN "none" ELSE Last(journal[t]).phase
ClaimOf(t) == Head(journal[t]).claim
NoJournal == \A t \in Tx : journal[t] = <<>>

\* A pending lease has no deadline, whatever its claim says.
Active(t) == \/ Phase(t) = "prepared"
             \/ Phase(t) = "committed" /\ t \notin expired

Protected == {ClaimOf(t).file : t \in {u \in Tx : Active(u)}}

-----------------------------------------------------------------------------
Goto(w, label) == pc' = [pc EXCEPT ![w] = label] /\ UNCHANGED <<tx, claim, seen>>

\* The call returns or raises.
Finish(w) ==
    /\ pc' = [pc EXCEPT ![w] = "idle"]
    /\ tx' = [tx EXCEPT ![w] = None]
    /\ claim' = [claim EXCEPT ![w] = None]
    /\ seen' = [seen EXCEPT ![w] = None]

Suffer(f) == f \in Faults /\ faults < MaxFaults /\ faults' = faults + 1

\* _append_event_unlocked: done, or raising before or after its line is whole
\* (an incomplete line is no event, and the next append discards it).
Record(t, phase, c, outcome) ==
    /\ IF outcome = "ok" THEN UNCHANGED faults ELSE Suffer("oserror")
    /\ journal' = IF outcome = "lost" THEN journal
                  ELSE [journal EXCEPT ![t] = Append(@, [phase |-> phase, claim |-> c])]

Outcomes == {"ok", "lost", "kept"}

\* _validate_transition
Allowed(t, phase) ==
    <<Phase(t), phase>> \in {<<"none", "prepared">>, <<"prepared", "committed">>,
                             <<"prepared", "aborted">>, <<"committed", "released">>}

-----------------------------------------------------------------------------
(* ToolResultExternalizer.externalize *)

\* A process started again counts from one and takes the first free name.
Externalize(f) ==
    /\ artifact[f] = 0
    /\ versions[f] < MaxVersions
    /\ versions' = [versions EXCEPT ![f] = @ + 1]
    /\ artifact' = [artifact EXCEPT ![f] = versions'[f]]
    /\ UNCHANGED <<journal, jlock, expired, owner, locals, calls, faults>>

\* Time passes the retain_until of a claim.
Expire(t) ==
    /\ Phase(t) # "none"
    /\ ClaimOf(t).bounded
    /\ t \notin expired
    /\ expired' = expired \cup {t}
    /\ UNCHANGED <<files, journal, jlock, owner, locals, calls, faults>>

RawCleanups == {w \in Worker : pc[w] \in {"raw_apply", "raw_delete"}}

Begin(w, label, t, c) ==
    /\ pc[w] = "idle"
    /\ RawConcurrent \/ RawCleanups = {}
    /\ calls < MaxCalls
    /\ calls' = calls + 1
    /\ pc' = [pc EXCEPT ![w] = label]
    /\ tx' = [tx EXCEPT ![w] = t]
    /\ claim' = [claim EXCEPT ![w] = c]
    /\ UNCHANGED <<files, journal, jlock, expired, owner, seen, faults>>

-----------------------------------------------------------------------------
(* publish_reference *)

\* A claim names an artifact that was externalized, perhaps long ago.
PublishReference(w, t, c) == c.digest <= versions[c.file] /\ Begin(w, "prepare", t, c)

\* Faulty variant: the digest of the leased artifact is not compared.
PrepareUnvalidated(w) ==
    LET t == tx[w]  c == claim[w] IN
    /\ pc[w] = "prepare"
    /\ jlock = None
    /\ IF Phase(t) # "none" \/ artifact[c.file] = 0
         THEN Finish(w) /\ UNCHANGED <<journal, faults>>
         ELSE \E outcome \in Outcomes :
                /\ Record(t, "prepared", c, outcome)
                /\ IF outcome = "ok" THEN Goto(w, "publish") ELSE Finish(w)
    /\ UNCHANGED <<files, jlock, expired, owner, calls>>

\* _prepare refuses a known transaction (publish_reference never replays one)
\* and an artifact that is missing or changed.
Prepare(w) ==
    LET t == tx[w]  c == claim[w] IN
    /\ pc[w] = "prepare"
    /\ jlock = None
    /\ IF Phase(t) # "none" \/ artifact[c.file] # c.digest
         THEN Finish(w) /\ UNCHANGED <<journal, faults>>
         ELSE \E outcome \in Outcomes :
                /\ Record(t, "prepared", c, outcome)
                /\ IF outcome = "ok" THEN Goto(w, "publish") ELSE Finish(w)
    /\ UNCHANGED <<files, jlock, expired, owner, calls>>

\* publisher(): confirmed, rejected (by its own validation or by the owner's
\* tombstone), or cut off with the write under way.
CallPublisher(w) ==
    /\ pc[w] = "publish"
    /\ \/ /\ fence[tx[w]] = None
          /\ tx[w] \notin sealed
          /\ published' = published \cup {tx[w]}
          /\ Goto(w, "commit")
          /\ UNCHANGED <<inflight, faults>>
       \/ Goto(w, "abort") /\ UNCHANGED <<published, inflight, faults>>
       \/ /\ Suffer("timeout")
          /\ inflight' = inflight \cup {tx[w]}
          /\ Finish(w)
          /\ UNCHANGED published
    /\ UNCHANGED <<files, journal, jlock, expired, sealed, fence, calls>>

\* commit() and abort() after the publisher: repeating a phase is no error.
Conclude(w, label, phase) ==
    /\ pc[w] = label
    /\ jlock = None
    /\ IF Allowed(tx[w], phase)
         THEN \E outcome \in Outcomes : Record(tx[w], phase, None, outcome)
         ELSE UNCHANGED <<journal, faults>>
    /\ Finish(w)
    /\ UNCHANGED <<files, jlock, expired, owner, calls>>

Commit(w) == Conclude(w, "commit", "committed")
Abort(w) == Conclude(w, "abort", "aborted")

\* A write under way reaches the owner, which rejects it if it is tombstoned,
\* or gets lost.
Land(t) ==
    /\ t \in inflight
    /\ inflight' = inflight \ {t}
    /\ \/ /\ fence[t] = None
          /\ published' = IF t \in sealed THEN published ELSE published \cup {t}
       \/ UNCHANGED published
    /\ UNCHANGED <<files, journal, jlock, expired, sealed, fence, locals, calls, faults>>

-----------------------------------------------------------------------------
(* remove_reference: the owner is called under the journal lock *)

RemoveReference(w, t) == Begin(w, "remove", t, None)

StartRemoval(w) ==
    /\ pc[w] = "remove"
    /\ jlock = None
    /\ IF Allowed(tx[w], "released")
         THEN jlock' = w /\ Goto(w, "removing")
         ELSE Finish(w) /\ UNCHANGED jlock
    /\ UNCHANGED <<files, journal, expired, owner, calls, faults>>

\* Faulty variant: the lock is not released when remover() raises.
CallRemoverUnguarded(w) ==
    LET t == tx[w] IN
    /\ pc[w] = "removing"
    /\ FencedRemoval => fence[t] = None
    /\ \/ /\ published' = published \ {t}
          /\ \E outcome \in Outcomes : Record(t, "released", None, outcome)
          /\ jlock' = None
       \/ /\ Suffer("timeout")
          /\ UNCHANGED <<published, journal, jlock>>
    /\ Finish(w)
    /\ UNCHANGED <<files, expired, sealed, fence, inflight, calls>>

\* remover() may also raise, with the reference removed or not.
CallRemover(w) ==
    LET t == tx[w] IN
    /\ pc[w] = "removing"
    /\ FencedRemoval => fence[t] = None
    /\ \/ /\ published' = published \ {t}
          /\ \E outcome \in Outcomes : Record(t, "released", None, outcome)
       \/ /\ Suffer("timeout")
          /\ published' \in {published, published \ {t}}
          /\ UNCHANGED journal
    /\ jlock' = None
    /\ Finish(w)
    /\ UNCHANGED <<files, expired, sealed, fence, inflight, calls>>

-----------------------------------------------------------------------------
(* reconcile_reference *)

ReconcileReference(w, t) == Begin(w, "lookup", t, None)

Lookup(w) ==
    /\ pc[w] = "lookup"
    /\ jlock = None
    /\ IF Phase(tx[w]) = "prepared" THEN Goto(w, "fence") ELSE Finish(w)
    /\ UNCHANGED <<files, journal, jlock, expired, owner, calls, faults>>

EnterFence(w) ==
    LET t == tx[w] IN
    /\ pc[w] = "fence"
    /\ fence[t] = None
    /\ fence' = [fence EXCEPT ![t] = w]
    /\ seen' = [seen EXCEPT ![w] = IF t \in published THEN "published"
                                   ELSE IF t \in sealed THEN "sealed" ELSE "absent"]
    /\ pc' = [pc EXCEPT ![w] = "decide"]
    /\ UNCHANGED <<files, journal, jlock, expired, published, sealed, inflight,
                   tx, claim, calls, faults>>

LeaveFence(w) == fence' = [fence EXCEPT ![tx[w]] = None] /\ Finish(w)

\* Faulty variant: the phase read before the fence decides.
DecideFromLookup(w) ==
    LET t == tx[w] IN
    /\ pc[w] = "decide"
    /\ jlock = None
    /\ \/ /\ seen[w] = "published"
          /\ \E outcome \in Outcomes : Record(t, "committed", None, outcome)
          /\ LeaveFence(w)
          /\ UNCHANGED <<jlock, sealed>>
       \/ /\ seen[w] \in {"absent", "sealed"}
          /\ sealed' = sealed \cup {t}
          /\ jlock' = w
          /\ Goto(w, "sealed")
          /\ UNCHANGED <<journal, fence, faults>>
    /\ UNCHANGED <<files, expired, published, inflight, calls>>

\* Faulty variant: an absent reference is taken for one that never comes.
DecideUnsealed(w) ==
    LET t == tx[w] IN
    /\ pc[w] = "decide"
    /\ jlock = None
    /\ \/ /\ Phase(t) # "prepared"
          /\ LeaveFence(w)
          /\ UNCHANGED <<journal, jlock, sealed, faults>>
       \/ /\ Phase(t) = "prepared"
          /\ \E outcome \in Outcomes :
                Record(t, IF seen[w] = "published" THEN "committed" ELSE "aborted", None, outcome)
          /\ LeaveFence(w)
          /\ UNCHANGED <<jlock, sealed>>
    /\ UNCHANGED <<files, expired, published, inflight, calls>>

\* The journal is read again under the fence: somebody else may have ended the
\* lease meanwhile.  An unsealed absence is tombstoned before the journal says
\* so.  The owner may be unable to tell, or refuse because its generation changed:
\* the lease stays pending.
Decide(w) ==
    LET t == tx[w] IN
    /\ pc[w] = "decide"
    /\ jlock = None
    /\ \/ /\ Phase(t) # "prepared" \/ "timeout" \in Faults
          /\ LeaveFence(w)
          /\ UNCHANGED <<journal, jlock, sealed, faults>>
       \/ /\ Phase(t) = "prepared"
          /\ seen[w] = "published"
          /\ \E outcome \in Outcomes : Record(t, "committed", None, outcome)
          /\ LeaveFence(w)
          /\ UNCHANGED <<jlock, sealed>>
       \/ /\ Phase(t) = "prepared"
          /\ seen[w] \in {"absent", "sealed"}
          /\ sealed' = sealed \cup {t}
          /\ jlock' = w
          /\ Goto(w, "sealed")
          /\ UNCHANGED <<journal, fence, faults>>
    /\ UNCHANGED <<files, expired, published, inflight, calls>>

RecordAborted(w) ==
    /\ pc[w] = "sealed"
    /\ \E outcome \in Outcomes : Record(tx[w], "aborted", None, outcome)
    /\ jlock' = None
    /\ LeaveFence(w)
    /\ UNCHANGED <<files, expired, published, sealed, inflight, calls>>

-----------------------------------------------------------------------------
(* Cleanup of the files that no claim protects *)

CleanUp(w) == Begin(w, "recover", None, None)

\* plan_cleanup_from_journal reads the claims under the lock ...
Recover(w) ==
    /\ pc[w] = "recover"
    /\ jlock = None
    /\ seen' = [seen EXCEPT ![w] = Protected]
    /\ pc' = [pc EXCEPT ![w] = "scan"]
    /\ UNCHANGED <<files, journal, jlock, expired, owner, tx, claim, calls, faults>>

Existing == {f \in File : artifact[f] # 0}

\* ... and looks at the files after releasing it.  How old they are, and how
\* many may go, is left open.
Scan(w) ==
    /\ pc[w] = "scan"
    /\ \E old \in SUBSET (Existing \ seen[w]) :
         seen' = [seen EXCEPT ![w] = {[file |-> f, digest |-> artifact[f]] : f \in old}]
    /\ pc' = [pc EXCEPT ![w] = "apply"]
    /\ UNCHANGED <<files, journal, jlock, expired, owner, tx, claim, calls, faults>>

Unlink(snapshots) ==
    artifact' = [f \in File |->
        IF [file |-> f, digest |-> artifact[f]] \in snapshots THEN 0 ELSE artifact[f]]

\* Faulty variant: the plan is trusted.
ApplyPlan(w) ==
    /\ pc[w] = "apply"
    /\ jlock = None
    /\ Unlink(seen[w])
    /\ Finish(w)
    /\ UNCHANGED <<versions, journal, jlock, expired, owner, calls, faults>>

\* apply_cleanup_from_journal checks claims and snapshots again under the lock.
ApplyCleanup(w) ==
    /\ pc[w] = "apply"
    /\ jlock = None
    /\ Unlink({s \in seen[w] : s.file \notin Protected})
    /\ Finish(w)
    /\ UNCHANGED <<versions, journal, jlock, expired, owner, calls, faults>>

\* cleanup_artifacts without a journal refuses once there is one; nobody has
\* claims then.  It looks twice, when it plans and when it applies ...
CleanUpRaw(w) ==
    /\ RawConcurrent \/ \A v \in Worker : pc[v] = "idle"
    /\ NoJournal
    /\ pc[w] = "idle"
    /\ calls < MaxCalls
    /\ calls' = calls + 1
    /\ pc' = [pc EXCEPT ![w] = "raw_apply"]
    /\ \E old \in SUBSET Existing :
         seen' = [seen EXCEPT ![w] = {[file |-> f, digest |-> artifact[f]] : f \in old}]
    /\ UNCHANGED <<files, journal, jlock, expired, owner, tx, claim, faults>>

ApplyRaw(w) ==
    /\ pc[w] = "raw_apply"
    /\ IF NoJournal THEN Goto(w, "raw_delete") ELSE Finish(w)
    /\ UNCHANGED <<files, journal, jlock, expired, owner, calls, faults>>

\* ... but not when it deletes.
DeleteRaw(w) ==
    /\ pc[w] = "raw_delete"
    /\ Unlink(seen[w])
    /\ Finish(w)
    /\ UNCHANGED <<versions, journal, jlock, expired, owner, calls, faults>>

-----------------------------------------------------------------------------
\* The worker's process dies: its locks are free, its publication may be under
\* way.
Crash(w) ==
    /\ pc[w] # "idle"
    /\ Suffer("crash")
    /\ Finish(w)
    /\ jlock' = IF jlock = w THEN None ELSE jlock
    /\ fence' = [t \in Tx |-> IF fence[t] = w THEN None ELSE fence[t]]
    /\ inflight' \in {inflight} \cup
          {inflight \cup {t} : t \in {u \in {tx[w]} : pc[w] = "publish"}}
    /\ published' \in {published} \cup
          {published \ {t} : t \in {u \in {tx[w]} : pc[w] = "removing"}}
    /\ UNCHANGED <<files, journal, expired, sealed, calls>>

Step(w) ==
    \/ Prepare(w) \/ CallPublisher(w) \/ Commit(w) \/ Abort(w)
    \/ StartRemoval(w) \/ CallRemover(w)
    \/ Lookup(w) \/ EnterFence(w) \/ Decide(w) \/ RecordAborted(w)
    \/ Recover(w) \/ Scan(w) \/ ApplyCleanup(w) \/ ApplyRaw(w) \/ DeleteRaw(w)

Next ==
    \/ \E w \in Worker :
         \/ Step(w) \/ Crash(w) \/ CleanUp(w) \/ CleanUpRaw(w)
         \/ \E t \in Tx : RemoveReference(w, t) \/ ReconcileReference(w, t)
         \/ \E t \in Tx, c \in Claims : PublishReference(w, t, c)
    \/ \E t \in Tx : Land(t) \/ Expire(t)
    \/ \E f \in File : Externalize(f)

Spec == Init /\ [][Next]_vars

\* A call that can go on eventually does.
FairSpec == Spec /\ \A w \in Worker : WF_vars(Step(w))

-----------------------------------------------------------------------------
(* Properties *)

\* Memory never holds a reference to evidence that is gone or replaced, unless
\* its committed lease ran out: whatever order publication, late writes,
\* reconciliation, removal, cleanup and crashes come in (README: a reference
\* that is pending is protected beyond retain_until and orphan TTL).
ReferenceHasArtifact ==
    \A t \in published :
        \/ Phase(t) = "committed" /\ t \in expired
        \/ artifact[ClaimOf(t).file] = ClaimOf(t).digest

\* A reference in Memory always has a lease that is pending or committed: it is
\* removed before RELEASED is written, and cannot appear after ABORTED.
LeaseCoversReference ==
    \A t \in published : Phase(t) \in {"prepared", "committed"}

\* Concurrent publishers and reconcilers of a transaction leave a history that
\* _fold_events accepts; one it refuses would block every later call.
LegalHistory ==
    \A t \in Tx :
        [i \in DOMAIN journal[t] |-> journal[t][i].phase] \in
            {<<>>, <<"prepared">>, <<"prepared", "committed">>, <<"prepared", "aborted">>,
             <<"prepared", "committed", "released">>}

\* Active leases of one file agree on its digest, also when the name was used
\* again: _recover_unlocked would refuse forever otherwise.
ClaimsAgree ==
    \A t, u \in {v \in Tx : Active(v)} :
        ClaimOf(t).file = ClaimOf(u).file => ClaimOf(t).digest = ClaimOf(u).digest

\* The journal stays one that every later call accepts (_fold_events,
\* _recover_unlocked), whatever races and reuses of names it went through.
JournalAccepted == LegalHistory /\ ClaimsAgree

\* Every call returns, whoever raised or died with the journal lock or a fence:
\* calls hold the one while they wait for the other, so this rests on an owner
\* that lets a removal through while it is fenced (~FencedRemoval).
EveryCallReturns == \A w \in Worker : pc[w] # "idle" ~> pc[w] = "idle"
=============================================================================
