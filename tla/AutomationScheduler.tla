------------------------ MODULE AutomationScheduler ------------------------
(***************************************************************************)
(* s22_automation_scheduler/code.py: automations and their runtime state   *)
(* in SQLite.  Every process that runs the chapter edits them and runs     *)
(* what is due, over one database; nothing claims an automation that a     *)
(* process has selected.                                                   *)
(*                                                                         *)
(* Every group of statements up to a commit is one action: the first write *)
(* takes SQLite's write lock.  Time is a number; a process may die between *)
(* two commits.                                                            *)
(***************************************************************************)
EXTENDS Naturals, Sequences, FiniteSets

CONSTANTS
    Auto, OneTime,  \* automations, and those that are created to run once
    Process,        \* processes that may call check_and_run
    Interval,       \* what calculate_next_run adds
    MaxTime, MaxRuns, MaxTotalRuns, MaxCrashes,     \* bounds
    None

VARIABLES
    automations,    \* both tables, joined; None before create
    scheduler,      \* check_and_run of each process: rows selected, the run of the first
    runs,           \* automation_runs: status of each, by automation
    now, crashes

vars == <<automations, scheduler, runs, now, crashes>>

Sleeping == [pc |-> "ready", rows |-> <<>>, run |-> 0, status |-> None]
Row(p) == Head(scheduler[p].rows)

Init ==
    /\ automations = [a \in Auto |-> None]
    /\ scheduler = [p \in Process |-> Sleeping]
    /\ runs = [a \in Auto |-> <<>>]
    /\ now = 0 /\ crashes = 0

-----------------------------------------------------------------------------
(* AutomationManager *)

CalculateNextRun(after) == after + Interval

\* A recurring automation has no fixed time.
Create(a, type, at) ==
    /\ automations[a] = None
    /\ type = "once" <=> a \in OneTime
    /\ type = "recurring" <=> at = None
    /\ automations' = [automations EXCEPT ![a] =
           [type |-> type, at |-> at, status |-> "ACTIVE", last |-> None,
            next |-> IF type = "once" THEN at ELSE CalculateNextRun(now)]]
    /\ UNCHANGED <<scheduler, runs, now, crashes>>

\* Faulty variant: a one-time automation gets its time back although it ran.
ActivatedAnyway(auto) ==
    [auto EXCEPT !.status = "ACTIVE",
                 !.next = IF auto.type = "recurring" THEN CalculateNextRun(now) ELSE auto.at]

\* Faulty variant: only the status changes.
ActivatedStatusOnly(auto) == [auto EXCEPT !.status = "ACTIVE"]

Activated(auto) ==
    [auto EXCEPT !.status = "ACTIVE",
                 !.next = IF auto.type = "recurring" THEN CalculateNextRun(now)
                          ELSE IF auto.last = None THEN auto.at ELSE @]

\* update_status, of a deleted automation too.
UpdateStatus(a, status) ==
    /\ automations[a] # None
    /\ automations' = [automations EXCEPT ![a] =
           IF status = "PAUSED" THEN [@ EXCEPT !.status = "PAUSED", !.next = None] ELSE Activated(@)]
    /\ UNCHANGED <<scheduler, runs, now, crashes>>

SoftDelete(a) ==
    /\ automations[a] # None
    /\ automations' = [automations EXCEPT ![a].status = "deleted"]
    /\ UNCHANGED <<scheduler, runs, now, crashes>>

-----------------------------------------------------------------------------
(* Scheduler *)

Due(a) ==
    /\ automations[a] # None
    /\ automations[a].status = "ACTIVE"
    /\ automations[a].next # None
    /\ automations[a].next <= now

\* The automations that are due, in an order that the query leaves open.
Rows(due) == {rows \in [1..Cardinality(due) -> due] : \A i, j \in DOMAIN rows : i # j => rows[i] # rows[j]}

\* The rows are read once, whatever happens to them before their turn.
CheckAndRun(p) ==
    /\ scheduler[p].pc = "ready"
    /\ \E rows \in Rows({a \in Auto : Due(a)}) :
         /\ rows # <<>>
         /\ scheduler' = [scheduler EXCEPT ![p] = [Sleeping EXCEPT !.pc = "start", !.rows = rows]]
    /\ UNCHANGED <<automations, runs, now, crashes>>

\* automation_runs, by automation and position.
Runs == {k \in Auto \X (1..MaxRuns) : k[2] \in DOMAIN runs[k[1]]}

\* The run gets an ID of its own.
StartRun(p) ==
    /\ scheduler[p].pc = "start"
    /\ Len(runs[Row(p)]) < MaxRuns /\ Cardinality(Runs) < MaxTotalRuns
    /\ runs' = [runs EXCEPT ![Row(p)] = Append(@, "running")]
    /\ scheduler' = [scheduler EXCEPT ![p].pc = "call", ![p].run = Len(runs[Row(p)]) + 1]
    /\ UNCHANGED <<automations, now, crashes>>

\* Faulty variant: an error of the provider leaves the run as it is.
FinishSuccessOnly(p) ==
    /\ scheduler[p].pc = "call"
    /\ \E status \in {"success", "failed"} :
         /\ runs' = IF status = "success" THEN [runs EXCEPT ![Row(p)][scheduler[p].run] = status] ELSE runs
         /\ scheduler' = [scheduler EXCEPT ![p].pc = "update", ![p].status = status]
    /\ UNCHANGED <<automations, now, crashes>>

\* The provider answers, or raises; both are written down.
FinishRun(p) ==
    /\ scheduler[p].pc = "call"
    /\ \E status \in {"success", "failed"} :
         /\ runs' = [runs EXCEPT ![Row(p)][scheduler[p].run] = status]
         /\ scheduler' = [scheduler EXCEPT ![p].pc = "update", ![p].status = status]
    /\ UNCHANGED <<automations, now, crashes>>

\* Faulty variant: the next run is counted from when this one was due.
AfterRunFromDue(auto) ==
    IF auto.type = "once" THEN [auto EXCEPT !.status = "PAUSED", !.last = now, !.next = None]
    ELSE [auto EXCEPT !.last = now, !.next = CalculateNextRun(IF @ = None THEN now ELSE @)]

\* _update_state_after_run: a one-time automation is paused, even if deleted.
AfterRun(auto) ==
    IF auto.type = "once" THEN [auto EXCEPT !.status = "PAUSED", !.last = now, !.next = None]
    ELSE [auto EXCEPT !.last = now, !.next = CalculateNextRun(now)]

UpdateStateAfterRun(p) ==
    /\ scheduler[p].pc = "update"
    /\ automations' = [automations EXCEPT ![Row(p)] = AfterRun(@)]
    /\ scheduler' = [scheduler EXCEPT ![p] =
           IF Len(scheduler[p].rows) = 1 THEN Sleeping
           ELSE [pc |-> "start", rows |-> Tail(scheduler[p].rows), run |-> 0, status |-> None]]
    /\ UNCHANGED <<runs, now, crashes>>

\* A process dies in check_and_run and is started again.
Crash(p) ==
    /\ scheduler[p].pc # "ready" /\ crashes < MaxCrashes
    /\ crashes' = crashes + 1
    /\ scheduler' = [scheduler EXCEPT ![p] = Sleeping]
    /\ UNCHANGED <<automations, runs, now>>

Tick ==
    /\ now < MaxTime
    /\ now' = now + 1
    /\ UNCHANGED <<automations, scheduler, runs, crashes>>

Next ==
    \/ \E a \in Auto :
         \/ \E type \in {"once", "recurring"}, at \in {None, Interval} : Create(a, type, at)
         \/ \E status \in {"ACTIVE", "PAUSED"} : UpdateStatus(a, status)
         \/ SoftDelete(a)
    \/ \E p \in Process :
         CheckAndRun(p) \/ StartRun(p) \/ FinishRun(p) \/ UpdateStateAfterRun(p) \/ Crash(p)
    \/ Tick

Spec == Init /\ [][Next]_vars

-----------------------------------------------------------------------------
(* Properties *)

\* A one-time automation runs once in each process at most, but for processes
\* that die in a run, however it is paused, resumed or deleted meanwhile
\* (update_status: "Restore the fixed time only if the once task has not run
\* yet").  One process runs it once; two that select it before either has
\* finished both run it, as nothing claims it.
OnceRunsOnce ==
    \A a \in Auto : automations[a] # None /\ automations[a].type = "once" =>
        Len(runs[a]) <= crashes + Cardinality(Process)

\* An active automation has a next run unless it ran for good: no order of
\* pause, resume, delete and run makes it silently stop (update_status).
ActiveGoesOn ==
    \A a \in Auto : automations[a] # None =>
        LET auto == automations[a] IN
        auto.status = "ACTIVE" /\ (auto.type = "recurring" \/ auto.last = None) => auto.next # None

\* Time that was missed is not made up for: whichever process ran it last, an
\* automation is due again an interval later (_update_state_after_run counts
\* from now).
Spaced ==
    \A a \in Auto : automations[a] # None =>
        LET auto == automations[a] IN
        auto.type = "recurring" /\ auto.last # None /\ auto.next # None => auto.next >= auto.last + Interval

\* A run in the history is running only if a process executes it or died in it:
\* processes that run one automation beside each other do not write over each
\* other's runs (_execute writes down success and failure).
HistoryComplete ==
    LET running == {k \in Runs : runs[k[1]][k[2]] = "running"} IN
    Cardinality(running) <= crashes + Cardinality({p \in Process : scheduler[p].pc = "call"})
=============================================================================
