--------------------------- MODULE SessionDatabase ---------------------------
(***************************************************************************)
(* s21_sqlite_database/code.py: processes that share one SQLite file, each *)
(* with a session of its own, named after the millisecond it was made in.  *)
(*                                                                         *)
(* Each commit is one action; the read of record_tool_call is another, for *)
(* no lock is held between them.  A process that meets an error ends.      *)
(***************************************************************************)
EXTENDS Naturals, FiniteSets

CONSTANTS
    Proc,
    Tool,           \* names of the tools that may be called
    MaxTime, MaxCalls, MaxRuns,     \* bounds: milliseconds, provider calls, runs of a tool
    None

VARIABLES
    now,
    sessions,       \* sessions table: status of each session, None before
    usage,          \* rows of usage_tracking, by session
    saved,          \* assistant rows of messages, by session
    counts,         \* tool_usage: call_count by session and tool
    proc,           \* where each process is, in which session
    ran             \* calls handed to a tool, by session and tool

vars == <<now, sessions, usage, saved, counts, proc, ran>>

Session == 0..MaxTime
Down == [pc |-> "down", sid |-> None, tool |-> None, read |-> None, calls |-> 0]

Init ==
    /\ now = 0
    /\ sessions = [s \in Session |-> None]
    /\ usage = [s \in Session |-> 0] /\ saved = [s \in Session |-> 0]
    /\ counts = [k \in Session \X Tool |-> 0] /\ ran = [k \in Session \X Tool |-> 0]
    /\ proc = [p \in Proc |-> Down]

At(p, pc) == proc[p].pc = pc
Goto(p, pc) == proc' = [proc EXCEPT ![p].pc = pc]
Sid(p) == proc[p].sid
Key(p) == <<proc[p].sid, proc[p].tool>>

Tick ==
    /\ now < MaxTime
    /\ now' = now + 1
    /\ UNCHANGED <<sessions, usage, saved, counts, proc, ran>>

\* Faulty variant: a session that is there is joined.
CreateOrJoin(p) ==
    /\ At(p, "down") /\ proc[p].calls = 0
    /\ sessions' = [sessions EXCEPT ![now] = "active"]
    /\ proc' = [proc EXCEPT ![p] = [@ EXCEPT !.pc = "ask", !.sid = now]]
    /\ UNCHANGED <<now, usage, saved, counts, ran>>

\* The primary key refuses the second session of a millisecond; its process ends.
CreateSession(p) ==
    /\ At(p, "down") /\ proc[p].calls = 0
    /\ sessions[now] = None
    /\ sessions' = [sessions EXCEPT ![now] = "active"]
    /\ proc' = [proc EXCEPT ![p] = [@ EXCEPT !.pc = "ask", !.sid = now]]
    /\ UNCHANGED <<now, usage, saved, counts, ran>>

\* The provider answered: its usage is written first.
TrackUsage(p) ==
    /\ At(p, "ask") /\ proc[p].calls < MaxCalls
    /\ usage' = [usage EXCEPT ![Sid(p)] = @ + 1]
    /\ proc' = [proc EXCEPT ![p].pc = "save", ![p].calls = @ + 1]
    /\ UNCHANGED <<now, sessions, saved, counts, ran>>

SaveMessage(p) ==
    /\ At(p, "save")
    /\ saved' = [saved EXCEPT ![Sid(p)] = @ + 1]
    /\ Goto(p, "dispatch")
    /\ UNCHANGED <<now, sessions, usage, counts, ran>>

\* record_tool_call reads the count, and writes what it makes of it.
ReadCount(p, tool) ==
    /\ At(p, "dispatch") /\ ran[<<Sid(p), tool>>] < MaxRuns
    /\ proc' = [proc EXCEPT ![p].pc = "count", ![p].tool = tool, ![p].read = counts[<<Sid(p), tool>>]]
    /\ UNCHANGED <<now, sessions, usage, saved, counts, ran>>

\* Faulty variant: the tool runs before it is counted.
CountAfterRun(p) ==
    /\ At(p, "count")
    /\ Goto(p, "run")
    /\ UNCHANGED <<now, sessions, usage, saved, counts, ran>>

RecordToolCall(p) ==
    /\ At(p, "count")
    /\ counts' = [counts EXCEPT ![Key(p)] = proc[p].read + 1]
    /\ Goto(p, "run")
    /\ UNCHANGED <<now, sessions, usage, saved, ran>>

RunTool(p) ==
    /\ At(p, "run")
    /\ ran' = [ran EXCEPT ![Key(p)] = @ + 1]
    /\ Goto(p, "dispatch")
    /\ UNCHANGED <<now, sessions, usage, saved, counts>>

\* No tool is left to run: the provider is asked again, or the user.
EndTurn(p) ==
    /\ At(p, "dispatch")
    /\ Goto(p, "ask")
    /\ UNCHANGED <<now, sessions, usage, saved, counts, ran>>

\* /archive ends the REPL; the rows stay.
ArchiveSession(p) ==
    /\ At(p, "ask")
    /\ sessions' = [sessions EXCEPT ![Sid(p)] = "archived"]
    /\ Goto(p, "down")
    /\ UNCHANGED <<now, usage, saved, counts, ran>>

\* A process dies, or meets a lock it cannot get in time, and is started again.
Crash(p) ==
    /\ ~ At(p, "down")
    /\ proc' = [proc EXCEPT ![p] = Down]
    /\ UNCHANGED <<now, sessions, usage, saved, counts, ran>>

Next ==
    \/ Tick
    \/ \E p \in Proc :
         \/ CreateSession(p) \/ TrackUsage(p) \/ SaveMessage(p) \/ RecordToolCall(p)
         \/ RunTool(p) \/ EndTurn(p) \/ ArchiveSession(p) \/ Crash(p)
         \/ \E tool \in Tool : ReadCount(p, tool)

Spec == Init /\ [][Next]_vars

-----------------------------------------------------------------------------
(* Properties *)

\* No call is lost from the counts although they are read and written apart,
\* for no two processes have one session: a session's counts are its tool runs,
\* one more while a call is on or when a process died in it (record_tool_call).
CountsRuns ==
    \A s \in Session :
        LET over == {t \in Tool : counts[<<s, t>>] # ran[<<s, t>>]} IN
        /\ Cardinality(over) <= 1
        /\ \A t \in over : counts[<<s, t>>] = ran[<<s, t>>] + 1

\* Every answer that is stored has its usage, and at most the last one paid for
\* is not stored (agent_loop: "Track usage after each API call").
UsageCovers == \A s \in Session : usage[s] \in {saved[s], saved[s] + 1}
=============================================================================
