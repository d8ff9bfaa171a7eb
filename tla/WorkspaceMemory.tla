--------------------------- MODULE WorkspaceMemory ---------------------------
(***************************************************************************)
(* s10_workspace_memory/code.py: the daily fact logs of a project, the     *)
(* curated memory distilled from them, the queue of conflicts, and the     *)
(* journalled transaction that applies a human decision to three files.    *)
(*                                                                         *)
(* Any process appends facts; one at a time distils and resolves, and may  *)
(* die between any two writes (an exception that leaves a method ends it,  *)
(* as it ends main()).  A write is one step: files are replaced atomically *)
(* or appended to.  One conflict domain (memory_key) is modelled, beside   *)
(* the facts that have none: domains do not share anything.                *)
(***************************************************************************)
EXTENDS Naturals, Sequences, FiniteSets

CONSTANTS
    Value,          \* what a fact can state: kind and normalised content
    Importance,     \* the importances facts are recorded with, within 1..5
    Keyed,          \* whether facts of the domain, or without one, or both occur
    Event,          \* event_id of decisions
    MinimumImportance, RepeatThreshold, SupersessionThreshold,  \* DistillPolicy
    Faults,         \* the faults that occur
    MaxFacts,       \* bound on the facts appended
    MaxDay,         \* bound on the days that pass
    MaxFaults,      \* bound on the faults that occur
    None

VARIABLES
    daily,          \* daily/*.jsonl: facts, identified by their position
    today,
    curated,        \* curated.json: revisions of the domain; the last is active
    unkeyed,        \* curated.json: evidence of the entries without a domain
    view,           \* MEMORY.md, as the state it was rendered from
    cases,          \* conflicts.json, by revision
    decisions,      \* conflict-adjudications.jsonl
    journal,        \* conflict-resolution-transactions.jsonl
    confirmed,      \* facts this process vouches for
    pc,             \* where the process is
    work,           \* the transaction it prepares or completes, or what distill will write
    faults          \* bound: faults that occurred

files == <<daily, curated, unkeyed, view, cases, decisions, journal>>
vars == <<files, today, confirmed, pc, work, faults>>

-----------------------------------------------------------------------------
(* JSONL files: whole lines, perhaps a fragment behind them *)

EmptyLog == [lines |-> <<>>, fragment |-> FALSE, corrupt |-> FALSE]

\* O_APPEND: a line added behind a fragment completes it to one nobody can parse.
AppendTo(f, line) ==
    [lines |-> IF f.fragment THEN f.lines ELSE Append(f.lines, line),
     fragment |-> FALSE, corrupt |-> f.corrupt \/ f.fragment]

DiscardTail(f) == [f EXCEPT !.fragment = FALSE]

-----------------------------------------------------------------------------
(* distill: from facts to curated memory *)

Ids == DOMAIN daily.lines
Fact(i) == daily.lines[i]
Current == Len(curated)
LatestDay(S) == CHOOSE d \in {Fact(i).day : i \in S} : \A i \in S : Fact(i).day <= d
Strongest(S) == CHOOSE n \in {Fact(i).importance : i \in S} : \A i \in S : Fact(i).importance <= n

\* Facts old enough that no entry cites yet.
Candidates ==
    {i \in Ids : Fact(i).day < today}
        \ UNION ({curated[n].evidence : n \in DOMAIN curated} \cup {unkeyed[v] : v \in Value})
Backing(v, keyed) == {i \in Candidates : Fact(i).keyed = keyed /\ Fact(i).value = v}

\* The bonus of a fact the user confirmed in this process counts for a first
\* promotion only.
EffectiveImportance(i, first) ==
    IF first /\ i \in confirmed /\ Fact(i).importance < 5
      THEN Fact(i).importance + 1 ELSE Fact(i).importance
Qualifies(S, first) ==
    \/ \E i \in S : EffectiveImportance(i, first) >= MinimumImportance
    \/ Cardinality(S) >= RepeatThreshold

\* Facts without a domain: a first promotion must qualify, later facts join.
UnkeyedAfter ==
    [v \in Value |->
        LET new == Backing(v, FALSE) IN
        IF new # {} /\ (unkeyed[v] # {} \/ Qualifies(new, TRUE)) THEN unkeyed[v] \cup new
                                                                 ELSE unkeyed[v]]

Revision(v, evidence, last) == [value |-> v, evidence |-> evidence, last |-> last]

\* More evidence for the active value is an update of its revision.
Reinforced ==
    LET new == Backing(curated[Current].value, TRUE)
        last == LatestDay(new) IN
    IF Current = 0 \/ new = {} THEN curated
    ELSE [curated EXCEPT ![Current] =
             Revision(@.value, @.evidence \cup new, IF last > @.last THEN last ELSE @.last)]

\* Whether a human decided against this value on this very evidence, in the
\* decision the active revision comes from.
Rejected(v) ==
    LET ruling == {n \in DOMAIN cases : cases[n].status = "resolved" /\ cases[n].result = Current} IN
    \E n \in ruling :
        /\ \A m \in ruling : m <= n
        /\ cases[n].selected # v
        /\ \E c \in cases[n].candidates : c.value = v /\ c.evidence = Backing(v, TRUE)

Challengers ==
    {v \in Value :
        /\ Backing(v, TRUE) # {}
        /\ Current # 0 => v # curated[Current].value
        /\ ~ Rejected(v)
        /\ Qualifies(Backing(v, TRUE), Current = 0)
        /\ Current # 0 =>
              /\ Cardinality(Backing(v, TRUE)) >= SupersessionThreshold
              /\ LatestDay(Backing(v, TRUE)) > Reinforced[Current].last}

Score(v) == LET S == Backing(v, TRUE) IN <<Strongest(S), Cardinality(S), LatestDay(S)>>
Better(a, b) ==
    \/ a[1] > b[1]
    \/ a[1] = b[1] /\ a[2] > b[2]
    \/ a[1] = b[1] /\ a[2] = b[2] /\ a[3] > b[3]
Winners == {v \in Challengers : \A u \in Challengers : ~ Better(Score(u), Score(v))}
Proposal(v) == Revision(v, Backing(v, TRUE), LatestDay(Backing(v, TRUE)))

\* Equal-strength proposals change nothing.
CuratedAfter ==
    IF Cardinality(Winners) # 1 THEN Reinforced
    ELSE Append(Reinforced, Proposal(CHOOSE v \in Winners : TRUE))

Candidate(r, incumbent) ==
    [value |-> r.value, evidence |-> r.evidence, last |-> r.last, incumbent |-> incumbent]
Case(candidates, observed) ==
    [status |-> "open", active |-> Current, candidates |-> candidates, observed |-> observed,
     selected |-> None, result |-> 0, event |-> None]

\* The proposals that are as strong as each other, and what they challenge.
Contenders ==
    {Candidate(Proposal(v), FALSE) : v \in Winners}
        \cup IF Current = 0 THEN {} ELSE {Candidate(Reinforced[Current], TRUE)}

\* What a conflict's fingerprint covers.
Fingerprint(c) == <<c.active, c.candidates, c.observed>>
\* Faulty variant: the older case stays open.
CloseNone(cs) == cs

Superseded(case) == [case EXCEPT !.status = "superseded"]
CloseOpen(cs) == [n \in DOMAIN cs |-> IF cs[n].status = "open" THEN Superseded(cs[n]) ELSE cs[n]]
\* The facts of the domain, and those an entry or candidate cites.
Observed(candidates) ==
    {i \in Ids : Fact(i).keyed} \cup UNION {c.evidence : c \in candidates}

\* Faulty variant: a conflict that is queued already is queued again.
QueueAgain == Append(CloseOpen(cases), Case(Contenders, Observed(Contenders)))

QueueConflict ==
    LET new == Case(Contenders, Observed(Contenders)) IN
    IF \E n \in DOMAIN cases : Fingerprint(cases[n]) = Fingerprint(new) THEN cases
    ELSE Append(CloseOpen(cases), new)

\* A case that is not in conflict any more is closed, if the domain has
\* candidates at all.
CasesAfter ==
    IF Cardinality(Winners) > 1 THEN QueueConflict
    ELSE IF \E i \in Candidates : Fact(i).keyed THEN CloseOpen(cases) ELSE cases

-----------------------------------------------------------------------------
(* What is accepted when conflicts.json is written or read *)

\* Distinct candidates, whose evidence the case observed; the incumbent among
\* them if a revision was active.
CandidatesReadable(c) ==
    /\ Cardinality({x.value : x \in c.candidates}) = Cardinality(c.candidates)
    /\ Cardinality(c.candidates) >= 2
    /\ \A x \in c.candidates : x.evidence # {} /\ x.evidence \subseteq c.observed
    /\ Cardinality({x \in c.candidates : x.incumbent}) = IF c.active = 0 THEN 0 ELSE 1

CaseReadable(c) ==
    /\ CandidatesReadable(c)
    /\ IF c.status = "resolved"
         THEN /\ c.event # None /\ c.result # 0
              /\ c.selected \in {x.value : x \in c.candidates}
         ELSE <<c.selected, c.result, c.event>> = <<None, 0, None>>

ConflictsReadable(cs) ==
    /\ \A n \in DOMAIN cs : CaseReadable(cs[n])
    /\ \A m, n \in DOMAIN cs : m # n => Fingerprint(cs[m]) # Fingerprint(cs[n])
    /\ Cardinality({n \in DOMAIN cs : cs[n].status = "open"}) <= 1

-----------------------------------------------------------------------------
(* The resolution journal *)

Phases == <<"prepared", "curated_applied", "conflict_closed", "audit_appended", "committed">>

\* What the lines before line i, or all of them, say of a decision.
RecordedBefore(i, e) ==
    {journal.lines[j].phase : j \in {k \in DOMAIN journal.lines : k < i /\ journal.lines[k].event = e}}
Recorded(e) == RecordedBefore(Len(journal.lines) + 1, e)
Intent(e) ==
    (CHOOSE l \in {journal.lines[i] : i \in DOMAIN journal.lines} :
        l.event = e /\ l.phase = "prepared").intent
Unfinished == {e \in Event : Recorded(e) # {} /\ "committed" \notin Recorded(e)}

\* Phases must come once each and in their order.
JournalReadable ==
    /\ ~ journal.corrupt
    /\ \A i \in DOMAIN journal.lines : \E k \in DOMAIN Phases :
          /\ journal.lines[i].phase = Phases[k]
          /\ RecordedBefore(i, journal.lines[i].event) = {Phases[m] : m \in 1 .. k - 1}

\* The audit log is read as a whole, an event at most once.
DecisionsReadable ==
    /\ ~ decisions.corrupt
    /\ \A i, j \in DOMAIN decisions.lines :
          i # j => decisions.lines[i].event # decisions.lines[j].event

JournalAppended(e, phase, intent) ==
    AppendTo(DiscardTail(journal), [event |-> e, phase |-> phase, intent |-> intent])

-----------------------------------------------------------------------------
Init ==
    /\ daily = EmptyLog /\ decisions = EmptyLog /\ journal = EmptyLog
    /\ today = 1
    /\ curated = <<>>
    /\ unkeyed = [v \in Value |-> {}]
    /\ view = None
    /\ cases = <<>>
    /\ confirmed = {}
    /\ pc = "idle"
    /\ work = None
    /\ faults = 0

Suffer(f) == f \in Faults /\ faults < MaxFaults /\ faults' = faults + 1

\* append_daily_log, by this process or another one.
AppendFact(v, keyed, importance) ==
    /\ Len(daily.lines) < MaxFacts
    /\ daily' = AppendTo(daily,
           [value |-> v, keyed |-> keyed, importance |-> importance, day |-> today])
    /\ UNCHANGED <<today, curated, unkeyed, view, cases, decisions, journal, confirmed, pc, work, faults>>

\* confirm_fact: appended without a domain, and remembered in memory only.
ConfirmFact(v, importance) ==
    /\ pc = "idle"
    /\ Len(daily.lines) < MaxFacts
    /\ daily' = AppendTo(daily,
           [value |-> v, keyed |-> FALSE, importance |-> importance, day |-> today])
    /\ confirmed' = confirmed \cup {Len(daily.lines) + 1}
    /\ UNCHANGED <<today, curated, unkeyed, view, cases, decisions, journal, pc, work, faults>>

\* A day has a log of its own: what is wrong with yesterday's file stays, but
\* nothing is appended behind its fragment any more.
Tick ==
    /\ today < MaxDay
    /\ today' = today + 1
    /\ daily' = [daily EXCEPT !.fragment = FALSE]
    /\ UNCHANGED <<curated, unkeyed, view, cases, decisions, journal, confirmed, pc, work, faults>>

-----------------------------------------------------------------------------
(* distill, and the view *)

Distill ==
    /\ pc = "idle"
    /\ ~ daily.corrupt
    /\ ConflictsReadable(cases)
    /\ work' = [curated |-> CuratedAfter, unkeyed |-> UnkeyedAfter, cases |-> CasesAfter]
    /\ \/ /\ <<work'.curated, work'.unkeyed>> # <<curated, unkeyed>>
          /\ pc' = "save_curated"
       \/ /\ <<work'.curated, work'.unkeyed>> = <<curated, unkeyed>>
          /\ work'.cases # cases
          /\ pc' = "save_conflicts"
    /\ UNCHANGED <<files, today, confirmed, faults>>

\* Faulty variant: the view is written first.
SaveViewFirst ==
    /\ pc = "save_curated"
    /\ view' = <<work.curated, work.unkeyed>>
    /\ pc' = "render"
    /\ UNCHANGED <<daily, curated, unkeyed, cases, decisions, journal, today, confirmed, work, faults>>

SaveCurated ==
    /\ pc = "save_curated"
    /\ curated' = work.curated
    /\ unkeyed' = work.unkeyed
    /\ pc' = "render"
    /\ UNCHANGED <<daily, view, cases, decisions, journal, today, confirmed, work, faults>>

Rendered == <<curated, unkeyed>>

RenderMemory ==
    /\ pc = "render"
    /\ view' = Rendered
    /\ pc' = IF work.cases = cases THEN "idle" ELSE "save_conflicts"
    /\ UNCHANGED <<daily, curated, unkeyed, cases, decisions, journal, today, confirmed, work, faults>>

SaveConflicts ==
    /\ pc = "save_conflicts"
    /\ IF ConflictsReadable(work.cases)
         THEN cases' = work.cases /\ pc' = "idle"
         ELSE pc' = "refused" /\ UNCHANGED cases
    /\ UNCHANGED <<daily, curated, unkeyed, view, decisions, journal, today, confirmed, work, faults>>

\* read_memory_md repairs a projection that is behind.
ReadMemory ==
    /\ pc = "idle"
    /\ curated # <<>> \/ \E v \in Value : unkeyed[v] # {}
    /\ view # Rendered
    /\ view' = Rendered
    /\ UNCHANGED <<daily, curated, unkeyed, cases, decisions, journal, today, confirmed, pc, work, faults>>

-----------------------------------------------------------------------------
(* resolve_conflict *)

\* Faulty variant: only the active revision is compared with the case.
FreshRevision(c) == c.active = Current

\* Faulty variant: nothing is compared.
FreshAnyway(c) == TRUE

\* What the reviewer saw is what is there.
Fresh(c) ==
    /\ c.active = Current
    /\ c.observed = {i \in Ids : Fact(i).keyed}
                      \cup IF Current = 0 THEN {} ELSE curated[Current].evidence

\* Everything a decision changes, as it is before and after.
Resolved(case, c, result, e) ==
    [case EXCEPT !.status = "resolved", !.selected = c.value, !.result = result, !.event = e]
Resolution(n, c, e) ==
    LET result == IF c.incumbent THEN Current ELSE Current + 1 IN
    [before |-> curated, unkeyed |-> unkeyed, casesBefore |-> cases,
     after |-> IF c.incumbent THEN curated ELSE Append(curated, Revision(c.value, c.evidence, c.last)),
     casesAfter |-> [cases EXCEPT ![n] = Resolved(@, c, result, e)],
     decision |-> [event |-> e, revision |-> n, selected |-> c.value, result |-> result]]

\* A decision is checked against the facts it finds.
Resolve(n, c, e) ==
    /\ pc = "idle"
    /\ ~ daily.corrupt
    /\ DecisionsReadable /\ ConflictsReadable(cases)
    /\ \A i \in DOMAIN decisions.lines : decisions.lines[i].event # e
    /\ cases[n].status = "open"
    /\ c \in cases[n].candidates
    /\ Fresh(cases[n])
    /\ work' = [event |-> e, intent |-> Resolution(n, c, e), read |-> Len(daily.lines)]
    /\ pc' = "prepare"
    /\ UNCHANGED <<files, today, confirmed, faults>>

\* From here on it is made.  Facts of other processes may have come since.
Prepare ==
    /\ pc = "prepare"
    /\ journal' = JournalAppended(work.event, "prepared", work.intent)
    /\ work' = [event |-> work.event, done |-> {"prepared"}]
    /\ pc' = "apply"
    /\ UNCHANGED <<daily, curated, unkeyed, view, cases, decisions, today, confirmed, faults>>

\* Faulty variant: a decision that was applied already is applied again.
ReapplyCurated ==
    LET t == Intent(work.event) IN
    /\ pc = "apply"
    /\ curated' = IF curated = t.before THEN t.after
                  ELSE Append(curated, t.after[Len(t.after)])
    /\ pc' = "project"
    /\ UNCHANGED <<daily, unkeyed, view, cases, decisions, journal, today, confirmed, work, faults>>

\* _ensure_curated_transaction_state: not applied, applied, or something else.
ApplyCurated ==
    LET t == Intent(work.event) IN
    /\ pc = "apply"
    /\ IF Rendered = <<t.after, t.unkeyed>>
         THEN view' = Rendered /\ pc' = "curated_applied" /\ UNCHANGED curated
         ELSE IF Rendered = <<t.before, t.unkeyed>>
           THEN curated' = t.after /\ pc' = "project" /\ UNCHANGED view
           ELSE pc' = "refused" /\ UNCHANGED <<curated, view>>
    /\ UNCHANGED <<daily, unkeyed, cases, decisions, journal, today, confirmed, work, faults>>

ProjectMemory ==
    /\ pc = "project"
    /\ view' = Rendered
    /\ pc' = "curated_applied"
    /\ UNCHANGED <<daily, curated, unkeyed, cases, decisions, journal, today, confirmed, work, faults>>

\* Faulty variant: recovery appends every phase once more.
MarkPhaseAgain(phase, next) ==
    /\ pc = phase
    /\ journal' = JournalAppended(work.event, phase, None)
    /\ pc' = next
    /\ UNCHANGED <<daily, curated, unkeyed, view, cases, decisions, today, confirmed, work, faults>>

\* A phase is recorded when what it stands for is on disk.
MarkPhase(phase, next) ==
    /\ pc = phase
    /\ journal' = IF phase \in work.done THEN journal ELSE JournalAppended(work.event, phase, None)
    /\ pc' = next
    /\ UNCHANGED <<daily, curated, unkeyed, view, cases, decisions, today, confirmed, work, faults>>

CloseConflict ==
    LET t == Intent(work.event) IN
    /\ pc = "close"
    /\ IF cases \in {t.casesBefore, t.casesAfter} /\ ConflictsReadable(t.casesAfter)
         THEN cases' = t.casesAfter /\ pc' = "conflict_closed"
         ELSE pc' = "refused" /\ UNCHANGED cases
    /\ UNCHANGED <<daily, curated, unkeyed, view, decisions, journal, today, confirmed, work, faults>>

\* Faulty variant: the decision is appended without a look at what is there.
AppendDecisionBlindly ==
    /\ pc = "audit"
    /\ decisions' = AppendTo(DiscardTail(decisions), Intent(work.event).decision)
    /\ pc' = "audit_appended"
    /\ UNCHANGED <<daily, curated, unkeyed, view, cases, journal, today, confirmed, work, faults>>

AppendDecision ==
    LET d == Intent(work.event).decision
        same == {i \in DOMAIN decisions.lines : decisions.lines[i].event = work.event} IN
    /\ pc = "audit"
    /\ IF ~ DecisionsReadable \/ \E i \in same : decisions.lines[i] # d
         THEN pc' = "refused" /\ UNCHANGED decisions
         ELSE /\ decisions' = IF same # {} THEN decisions ELSE AppendTo(DiscardTail(decisions), d)
              /\ pc' = "audit_appended"
    /\ UNCHANGED <<daily, curated, unkeyed, view, cases, journal, today, confirmed, work, faults>>

CompleteResolution ==
    \/ ApplyCurated \/ ProjectMemory \/ MarkPhase("curated_applied", "close")
    \/ CloseConflict \/ MarkPhase("conflict_closed", "audit")
    \/ AppendDecision \/ MarkPhase("audit_appended", "committed")
    \/ MarkPhase("committed", "idle")

-----------------------------------------------------------------------------
(* The process ends, perhaps inside an append, and another one starts *)

Appending(f) ==
    \/ f = "journal" /\ pc \in {"prepare", "curated_applied", "conflict_closed", "audit_appended", "committed"}
    \/ f = "decisions" /\ pc = "audit"

Crash ==
    /\ pc \notin {"down", "refused"}
    /\ \/ Suffer("crash") /\ UNCHANGED <<journal, decisions>>
       \/ /\ Suffer("tear")
          /\ \/ Appending("journal") /\ journal' = [journal EXCEPT !.fragment = TRUE] /\ UNCHANGED decisions
             \/ Appending("decisions") /\ decisions' = [decisions EXCEPT !.fragment = TRUE] /\ UNCHANGED journal
    /\ pc' = "down"
    /\ confirmed' = {}
    /\ work' = None
    /\ UNCHANGED <<daily, curated, unkeyed, view, cases, today>>

\* A process dies inside append_daily_log.
TearFact ==
    /\ Suffer("tear_fact")
    /\ daily' = [daily EXCEPT !.fragment = TRUE]
    /\ UNCHANGED <<today, curated, unkeyed, view, cases, decisions, journal, confirmed, pc, work>>

\* Faulty variant: a new process leaves the transaction for later.
StartWithoutRecovery ==
    /\ pc = "down"
    /\ pc' = "idle"
    /\ UNCHANGED <<files, today, confirmed, work, faults>>

\* __init__ completes the transaction that was cut off.
Start ==
    /\ pc = "down"
    /\ IF JournalReadable /\ Unfinished # {}
         THEN /\ \E e \in Unfinished : work' = [event |-> e, done |-> Recorded(e)]
              /\ pc' = "apply"
         ELSE /\ pc' = IF JournalReadable THEN "idle" ELSE "refused"
              /\ UNCHANGED work
    /\ UNCHANGED <<files, today, confirmed, faults>>

-----------------------------------------------------------------------------
Next ==
    \/ \E v \in Value, n \in Importance :
         \/ \E k \in Keyed : AppendFact(v, k, n)
         \/ FALSE \in Keyed /\ ConfirmFact(v, n)
    \/ Tick \/ TearFact
    \/ Distill \/ SaveCurated \/ RenderMemory \/ SaveConflicts \/ ReadMemory
    \/ \E n \in DOMAIN cases, e \in Event : \E c \in cases[n].candidates : Resolve(n, c, e)
    \/ Prepare \/ CompleteResolution
    \/ Crash \/ Start

Spec == Init /\ [][Next]_vars

\* A process that died is started again, and a running one goes on.
FairSpec == Spec /\ WF_vars(Start) /\ WF_vars(CompleteResolution)

-----------------------------------------------------------------------------
(* Properties *)

\* Whatever point of a resolution or distillation a process dies at, the next
\* one can complete the transaction: it finds the state before or after each
\* of its writes (README.en.md:213), and no write is refused.
RecoveryAccepts == pc # "refused"

\* A decision that was prepared is committed in the end, whatever its process
\* died in the middle of (_recover_resolution_transactions).
PreparedCommits == \A e \in Event : Recorded(e) # {} ~> "committed" \in Recorded(e)

\* A decision takes effect completely and once, and stays: its case names it,
\* its revision is there, and the audit log holds one line about it.
DecisionsComplete ==
    pc \in {"idle", "prepare", "save_curated", "render", "save_conflicts"} =>
        \A e \in {journal.lines[i].event : i \in DOMAIN journal.lines} :
            LET d == Intent(e).decision IN
            /\ Cardinality({i \in DOMAIN decisions.lines : decisions.lines[i].event = e}) = 1
            /\ cases[d.revision].status = "resolved" /\ cases[d.revision].event = e
            /\ cases[d.revision].result = d.result
            /\ curated[d.result].value = d.selected

\* No fact counts for two revisions: not after a crash between two files,
\* and not when a human and a later distillation use the same evidence.
EvidenceCountsOnce ==
    \A m, n \in DOMAIN curated : m # n => curated[m].evidence \cap curated[n].evidence = {}

\* A decision never follows from evidence the reviewer did not see: what the
\* domain knew when resolve_conflict read the facts was part of the case.  The
\* log takes facts of other processes between that reading and the PREPARED
\* line; the decision stands in spite of them, and it cites none of them.
DecidesOnFullEvidence ==
    \A e \in Event : Recorded(e) = {} /\ Recorded(e)' # {} =>
        /\ \A i \in 1 .. work.read :
              Fact(i).keyed => i \in cases[Intent(e)'.decision.revision].observed
        /\ \A n \in DOMAIN Intent(e)'.after : Intent(e)'.after[n].evidence \subseteq 1 .. work.read
DecidedOnFullEvidence == [][DecidesOnFullEvidence]_vars

\* What one method writes, at whatever crash, every later one reads: the queue
\* holds one open case, no conflict twice, no decision without its choice, and
\* the audit log no decision twice (_load_conflicts, _read_adjudications).
FilesReadable == ConflictsReadable(cases) /\ DecisionsReadable

\* MEMORY.md never shows what curated.json does not hold, at any crash.
ViewNotAhead ==
    view # None =>
        /\ \A n \in DOMAIN view[1] : n \in DOMAIN curated /\ view[1][n].evidence \subseteq curated[n].evidence
        /\ \A v \in Value : view[2][v] \subseteq unkeyed[v]

\* A fact that was appended stays readable (_discard_incomplete_jsonl_tail:
\* "A later append must first discard that ignored fragment").
FactsReadable == ~ daily.corrupt

\* With a prepared decision counted as made, the files change as if each
\* decision was one step.

Adjudicated == INSTANCE Adjudication WITH
    curated <- IF Unfinished = {} THEN curated ELSE Intent(CHOOSE e \in Unfinished : TRUE).after,
    cases <- IF Unfinished = {} THEN cases ELSE Intent(CHOOSE e \in Unfinished : TRUE).casesAfter,
    decisions <- {decisions.lines[i].event : i \in DOMAIN decisions.lines} \cup Unfinished
AdjudicationSpec == Adjudicated!Spec
=============================================================================
