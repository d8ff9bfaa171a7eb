-------------------------- MODULE SessionLifecycle --------------------------
(***************************************************************************)
(* s07_session_management/code.py: one logical session, the runtimes that  *)
(* serve it one after the other, and the HTTP threads that send it turns.  *)
(*                                                                         *)
(* The manager is one thread.  A handler thread goes on after its runtime  *)
(* is closed.  A transcript is the sequence of turns committed to it.      *)
(***************************************************************************)
EXTENDS Naturals, Sequences, FiniteSets, Functions

CONSTANTS
    Client,         \* HTTP handler threads
    Mode,
    MaxGeneration, MaxTurn, MaxCalls,   \* bounds: runtimes, turns, provider calls of a turn
    None

VARIABLES
    record,         \* the store: None before create and after forget
    runtime,        \* every SessionProcess by generation
    live,           \* the generation in _runtimes, or None
    manager,        \* what the manager is in the middle of, with which runtime
    turn,           \* where each thread is in run_agent_loop
    turns,          \* turns begun so far
    committed        \* turns whose transcript was committed

vars == <<record, runtime, live, manager, turn, turns, committed>>

Generation == 1..MaxGeneration
Idle == [pc |-> "idle", gen |-> None, n |-> 0, calls |-> 0, late |-> 0]
Ready == [pc |-> "ready", gen |-> None]
Settled == {"closed", "error"}

Init ==
    /\ record = None
    /\ runtime = [g \in Generation |-> None]
    /\ live = None
    /\ manager = Ready
    /\ turn = [t \in Client |-> Idle]
    /\ turns = 0
    /\ committed = {}

-----------------------------------------------------------------------------
(* SessionProcess: transitions and publication *)

Allowed ==
    [creating |-> {"idle", "closing", "error"}, idle |-> {"running", "closing", "error"},
     running |-> {"idle", "closing", "error"}, closing |-> {"closed", "error"},
     closed |-> {}, error |-> {"closing", "closed"}]

May(g, next) == next \in Allowed[runtime[g].status] \cup {runtime[g].status}

\* The runtime's copy of the record, saved if the store still has one.
Published(g) ==
    IF record = None THEN None
    ELSE [status |-> runtime'[g].status, gen |-> g,
          messages |-> runtime'[g].messages, mode |-> runtime'[g].mode]

\* _transition: the status and the store change together, under the lock.
Transition(g, next) ==
    /\ runtime' = [runtime EXCEPT ![g].status = next]
    /\ record' = IF next = runtime[g].status THEN record ELSE Published(g)

At(t, pc) == turn[t].pc = pc
Goto(t, pc) == turn' = [turn EXCEPT ![t].pc = pc]
Leave(t) == turn' = [turn EXCEPT ![t] = Idle]
Release(g) == runtime' = [runtime EXCEPT ![g].locked = FALSE]

-----------------------------------------------------------------------------
(* SessionManager *)

\* SessionProcess.start up to the listener, from the record just saved.
StartRuntime(saved) ==
    /\ record' = saved
    /\ runtime' = [runtime EXCEPT ![saved.gen] =
           [status |-> "creating", messages |-> saved.messages, mode |-> saved.mode,
            abort |-> FALSE, locked |-> FALSE]]
    /\ manager' = [pc |-> "starting", gen |-> saved.gen]
    /\ UNCHANGED <<live, turn, turns, committed>>

CreateSession ==
    /\ manager = Ready
    /\ record = None /\ runtime[1] = None
    /\ \E mode \in Mode :
         StartRuntime([status |-> "creating", gen |-> 1, messages |-> <<>>, mode |-> mode])

\* The record that resume_session saves before it starts the next runtime.
Successor ==
    [status |-> "creating", gen |-> record.gen + 1,
     messages |-> record.messages, mode |-> record.mode]

\* Faulty variant: a session that has a runtime is resumed all the same.
ResumeAnyway ==
    /\ manager = Ready
    /\ record # None
    /\ record.gen < MaxGeneration
    /\ StartRuntime(Successor)

ResumeSession ==
    /\ manager = Ready
    /\ live = None
    /\ record # None
    /\ record.gen < MaxGeneration
    /\ StartRuntime(Successor)

StartSucceeds ==
    /\ manager.pc = "starting"
    /\ Transition(manager.gen, "idle")
    /\ live' = manager.gen
    /\ manager' = Ready
    /\ UNCHANGED <<turn, turns, committed>>

\* No socket or no thread: the listener is closed, the caller gets the error.
StartFails ==
    /\ manager.pc = "starting"
    /\ Transition(manager.gen, "error")
    /\ manager' = Ready
    /\ UNCHANGED <<live, turn, turns, committed>>

\* close_session of a live runtime: out of _runtimes, then CLOSING.
CloseSession ==
    /\ manager = Ready
    /\ live # None
    /\ live' = None
    /\ manager' = [pc |-> "closing", gen |-> live]
    /\ Transition(live, IF runtime[live].status = "error" THEN "error" ELSE "closing")
    /\ UNCHANGED <<turn, turns, committed>>

RequestAbort ==
    /\ manager.pc = "closing"
    /\ runtime' = [runtime EXCEPT ![manager.gen].abort = TRUE]
    /\ manager' = [manager EXCEPT !.pc = "stopping"]
    /\ UNCHANGED <<record, live, turn, turns, committed>>

\* The listener is down; requests it accepted may still be running.
StopListener ==
    /\ manager.pc = "stopping"
    /\ Transition(manager.gen, "closed")
    /\ manager' = Ready
    /\ UNCHANGED <<live, turn, turns, committed>>

CloseWithoutRuntime ==
    /\ manager = Ready
    /\ live = None
    /\ record # None
    /\ record' = [record EXCEPT !.status = "closed"]
    /\ UNCHANGED <<runtime, live, manager, turn, turns, committed>>

ForgetSession ==
    /\ manager = Ready
    /\ live = None
    /\ record # None
    /\ record' = None
    /\ UNCHANGED <<runtime, live, manager, turn, turns, committed>>

SetMode(mode) ==
    /\ manager = Ready
    /\ live # None
    /\ runtime[live].status = "idle"
    /\ runtime' = [runtime EXCEPT ![live].mode = mode]
    /\ record' = Published(live)
    /\ UNCHANGED <<live, manager, turn, turns, committed>>

\* A replacement manager over the same store; runtimes and threads are gone.
Restart ==
    /\ \E g \in Generation : runtime[g] # None
    /\ runtime' = [g \in Generation |->
           IF runtime[g] = None THEN None ELSE [runtime[g] EXCEPT !.status = "closed", !.locked = FALSE]]
    /\ live' = None
    /\ manager' = Ready
    /\ turn' = [t \in Client |-> Idle]
    /\ UNCHANGED <<record, turns, committed>>

-----------------------------------------------------------------------------
(* run_agent_loop, in an HTTP thread *)

\* Faulty variant: a second turn does not find the lock taken.
AcquireShared(t, g) ==
    /\ At(t, "idle") /\ turns < MaxTurn
    /\ runtime[g] # None /\ runtime[g].status # "closed"
    /\ runtime' = [runtime EXCEPT ![g].locked = TRUE]
    /\ turn' = [turn EXCEPT ![t] = [Idle EXCEPT !.pc = "check", !.gen = g]]
    /\ UNCHANGED <<record, live, manager, turns, committed>>

\* Who finds the lock taken is refused and changes nothing.
Acquire(t, g) ==
    /\ At(t, "idle") /\ turns < MaxTurn
    /\ runtime[g] # None /\ runtime[g].status # "closed"
    /\ ~ runtime[g].locked
    /\ runtime' = [runtime EXCEPT ![g].locked = TRUE]
    /\ turn' = [turn EXCEPT ![t] = [Idle EXCEPT !.pc = "check", !.gen = g]]
    /\ UNCHANGED <<record, live, manager, turns, committed>>

\* Faulty variant: a refused turn keeps the lock.
RefuseKeepingLock(t) ==
    /\ At(t, "check")
    /\ IF runtime[turn[t].gen].status = "idle" THEN Goto(t, "clear") ELSE Leave(t)
    /\ UNCHANGED <<record, runtime, live, manager, turns, committed>>

CheckIdle(t) ==
    /\ At(t, "check")
    /\ IF runtime[turn[t].gen].status = "idle"
         THEN Goto(t, "clear") /\ UNCHANGED runtime
         ELSE Leave(t) /\ Release(turn[t].gen)
    /\ UNCHANGED <<record, live, manager, turns, committed>>

ClearAbort(t) ==
    /\ At(t, "clear")
    /\ runtime' = [runtime EXCEPT ![turn[t].gen].abort = FALSE]
    /\ Goto(t, "begin")
    /\ UNCHANGED <<record, live, manager, turns, committed>>

\* RUNNING is refused to a runtime that began to close; the lock stays taken.
BeginTurn(t) ==
    LET g == turn[t].gen IN
    /\ At(t, "begin")
    /\ IF May(g, "running")
         THEN /\ Transition(g, "running")
              /\ turns' = turns + 1
              /\ turn' = [turn EXCEPT ![t].pc = "loop", ![t].n = turns + 1]
         ELSE Leave(t) /\ UNCHANGED <<record, runtime, turns>>
    /\ UNCHANGED <<live, manager, committed>>

\* Faulty variant: the flag is looked at before the first call only.
CheckAbortOnce(t) ==
    /\ At(t, "loop")
    /\ Goto(t, IF runtime[turn[t].gen].abort /\ turn[t].calls = 0 THEN "commit" ELSE "call")
    /\ UNCHANGED <<record, runtime, live, manager, turns, committed>>

CheckAbort(t) ==
    /\ At(t, "loop")
    /\ Goto(t, IF runtime[turn[t].gen].abort THEN "commit" ELSE "call")
    /\ UNCHANGED <<record, runtime, live, manager, turns, committed>>

\* messages.create; the tools it asks for run before the loop goes on.
CallProvider(t) ==
    /\ At(t, "call") /\ turn[t].calls < MaxCalls
    /\ \E next \in {"loop", "commit", "failed"} :
         turn' = [turn EXCEPT ![t].pc = next, ![t].calls = @ + 1,
                      ![t].late = IF runtime[turn[t].gen].abort THEN @ + 1 ELSE @]
    /\ UNCHANGED <<record, runtime, live, manager, turns, committed>>

\* Faulty variant: an answer is committed whatever became of the runtime.
CommitLate(t) ==
    LET g == turn[t].gen IN
    /\ At(t, "commit")
    /\ runtime' = [runtime EXCEPT ![g].messages = Append(@, turn[t].n)]
    /\ record' = Published(g)
    /\ committed' = committed \cup {turn[t].n}
    /\ Goto(t, "end")
    /\ UNCHANGED <<live, manager, turns>>

\* _commit_transcript_if_running: late answers are discarded.
Commit(t) ==
    LET g == turn[t].gen IN
    /\ At(t, "commit")
    /\ IF runtime[g].status = "running"
         THEN /\ runtime' = [runtime EXCEPT ![g].messages = Append(@, turn[t].n)]
              /\ record' = Published(g)
              /\ committed' = committed \cup {turn[t].n}
         ELSE UNCHANGED <<record, runtime, committed>>
    /\ Goto(t, "end")
    /\ UNCHANGED <<live, manager, turns>>

\* The status is read, and the transition made later.
CheckRunning(t) ==
    LET running == runtime[turn[t].gen].status = "running" IN
    /\ \/ At(t, "end") /\ Goto(t, IF running THEN "to_idle" ELSE "release")
       \/ At(t, "failed") /\ Goto(t, IF running THEN "to_error" ELSE "release")
    /\ UNCHANGED <<record, runtime, live, manager, turns, committed>>

\* A transition that is not allowed raises, and the turn ends all the same.
FinishTurn(t) ==
    LET g == turn[t].gen
        next == IF At(t, "to_idle") THEN "idle" ELSE "error" IN
    /\ At(t, "to_idle") \/ At(t, "to_error")
    /\ IF May(g, next) THEN Transition(g, next) ELSE UNCHANGED <<record, runtime>>
    /\ Goto(t, "release")
    /\ UNCHANGED <<live, manager, turns, committed>>

ReleaseTurn(t) ==
    /\ At(t, "release")
    /\ Release(turn[t].gen)
    /\ Leave(t)
    /\ UNCHANGED <<record, live, manager, turns, committed>>

\* POST /agent/abort, of a runtime whose listener is up.
Abort(g) ==
    /\ runtime[g] # None /\ runtime[g].status # "closed"
    /\ runtime' = [runtime EXCEPT ![g].abort = TRUE]
    /\ UNCHANGED <<record, live, manager, turn, turns, committed>>

TurnStep(t) ==
    \/ CheckIdle(t) \/ ClearAbort(t) \/ BeginTurn(t) \/ CheckAbort(t) \/ CallProvider(t)
    \/ Commit(t) \/ CheckRunning(t) \/ FinishTurn(t) \/ ReleaseTurn(t)

Next ==
    \/ CreateSession \/ ResumeSession \/ StartSucceeds \/ StartFails
    \/ CloseSession \/ RequestAbort \/ StopListener \/ CloseWithoutRuntime
    \/ ForgetSession \/ Restart
    \/ \E mode \in Mode : SetMode(mode)
    \/ \E g \in Generation : Abort(g)
    \/ \E t \in Client : TurnStep(t) \/ \E g \in Generation : Acquire(t, g)

Spec == Init /\ [][Next]_vars

-----------------------------------------------------------------------------
(* Properties *)

\* A session has one runtime that accepts input, and the store holds what the
\* latest runtime has (resume_session: "would create a second runtime").
OneRuntime ==
    /\ \A g, h \in Generation : g # h /\ runtime[g] # None /\ runtime[h] # None =>
           runtime[g].status \in Settled \/ runtime[h].status \in Settled
    /\ record # None /\ record.status \notin Settled =>
         runtime[record.gen].status \in {record.status, "closed"}
            /\ runtime[record.gen].messages = record.messages
            /\ runtime[record.gen].mode = record.mode

\* The transcript has every committed turn, once and in the order turns began,
\* whatever closed, failed or restarted meanwhile.
CommittedKept ==
    record # None =>
        /\ committed = Range(record.messages)
        /\ \A i, j \in DOMAIN record.messages : i < j => record.messages[i] < record.messages[j]

\* A running turn that is asked to stop makes at most one more provider call,
\* the one it was about to make (abort: "cooperative interruption").
AbortStops == \A t \in Client : turn[t].late <= 1

\* A session that is idle can be sent a turn: no refused or failed turn leaves
\* the turn lock taken (run_agent_loop's early returns).
LockFreed ==
    \A g \in Generation : runtime[g] # None /\ runtime[g].status = "idle" /\ runtime[g].locked =>
        \E t \in Client : turn[t].gen = g

\* What a closed session holds changes only by resume and forget: no late
\* answer rewrites it (_commit_transcript_if_running).
KeepsClosed ==
    record # None /\ record.status = "closed" =>
        record' \in {record, None} \/ manager'.pc = "starting"

ClosedFinal == [][KeepsClosed]_vars
=============================================================================
