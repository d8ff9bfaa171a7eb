------------------------- MODULE ComprehensiveAgent -------------------------
(***************************************************************************)
(* s24_comprehensive/code.py, ComprehensiveAgent: one loop that writes the *)
(* audit log, the database and the transcript around every tool call, in a *)
(* process that may end between any two writes and be started again with a *)
(* session of its own.                                                     *)
(*                                                                         *)
(* "bash" is allowed by the registry, "write_file" asks, "gone" is not     *)
(* registered.  Compaction is ContextCompact's: here the view either fits  *)
(* or does not.  Log lines that no property tells apart are left out.      *)
(***************************************************************************)
EXTENDS Naturals, Sequences, FiniteSets, Functions

CONSTANTS
    Tool,           \* of the three above
    Answers,        \* what the approval UI does: "yes", "no", "closed", "missing"
    MaxSessions, MaxTurns, MaxCalls,    \* bounds
    None

VARIABLES
    pc,             \* where the loop is
    session,        \* number of the session
    history,        \* self.messages
    calls,          \* tool_use blocks of the response still to run
    results,        \* tool_result blocks so far
    executed,       \* calls handed to a handler, by session
    started,        \* audit: tool_execute entries, by session
    audited,        \* audit: tool_result entries
    denied,         \* audit: permission_denied entries
    counted,        \* tool_usage of the database, one element for each count
    transcribed,    \* function_call_result events of the transcript
    output          \* of the call in execution

vars == <<pc, session, history, calls, results, executed, started, audited, denied,
          counted, transcribed, output>>
stores == <<executed, started, audited, denied, counted, transcribed>>

Session == 1..MaxSessions
Empty == [s \in Session |-> <<>>]
Add(log, item) == [log EXCEPT ![session] = Append(@, item)]
Call == Head(calls)
Turn == Cardinality({k \in DOMAIN history : history[k].role = "assistant"})

Init ==
    /\ pc = "idle" /\ session = 1
    /\ history = <<>> /\ calls = <<>> /\ results = <<>>
    /\ executed = Empty /\ started = Empty /\ audited = Empty
    /\ denied = Empty /\ counted = Empty /\ transcribed = Empty
    /\ output = None

Say(role, content) == history' = Append(history, [role |-> role, content |-> content])

-----------------------------------------------------------------------------
(* run: a user's turn *)

Submit ==
    /\ pc = "idle" /\ Turn < MaxTurns
    /\ Say("user", <<>>)
    /\ pc' = "compact"
    /\ UNCHANGED <<session, calls, results, stores, output>>

\* A view over the hard limit is audited and raised; main closes the session.
Compact ==
    /\ pc = "compact"
    /\ pc' \in {"ask", "down"}
    /\ UNCHANGED <<session, history, calls, results, stores, output>>

\* Blocks, not the stop reason, decide whether the loop goes on.
AskProvider ==
    /\ pc = "ask" /\ Turn < MaxTurns
    /\ \E n \in 0..MaxCalls : \E tools \in [1..n -> Tool] :
         /\ calls' = [i \in 1..n |-> [id |-> <<Turn + 1, i>>, tool |-> tools[i]]]
         /\ Say("assistant", calls')
         /\ pc' = IF n = 0 THEN "idle" ELSE "dispatch"
    /\ results' = <<>>
    /\ UNCHANGED <<session, stores, output>>

AfterCall == IF Len(calls) = 1 THEN "answer" ELSE "dispatch"

-----------------------------------------------------------------------------
(* check_permission, execute_tool *)

Permission(tool) == CASE tool = "bash" -> "allow" [] tool = "write_file" -> "ask" [] OTHER -> "deny"

\* Faulty variant: a denied call has no answer.
DenyUnanswered ==
    /\ pc = "dispatch" /\ Permission(Call.tool) = "deny"
    /\ denied' = Add(denied, Call)
    /\ calls' = Tail(calls)
    /\ pc' = AfterCall
    /\ UNCHANGED <<session, history, results, executed, started, audited, counted, transcribed, output>>

Deny ==
    /\ pc = "dispatch" /\ Permission(Call.tool) = "deny"
    /\ denied' = Add(denied, Call)
    /\ results' = Append(results, Call.id)
    /\ calls' = Tail(calls)
    /\ pc' = AfterCall
    /\ UNCHANGED <<session, history, executed, started, audited, counted, transcribed, output>>

\* Faulty variant: the call goes ahead before the audit knows of it.
StartUnaudited ==
    /\ pc = "dispatch" /\ Permission(Call.tool) # "deny"
    /\ pc' = "execute"
    /\ UNCHANGED <<session, history, calls, results, stores, output>>

Start ==
    /\ pc = "dispatch" /\ Permission(Call.tool) # "deny"
    /\ started' = Add(started, Call)
    /\ pc' = "execute"
    /\ UNCHANGED <<session, history, calls, results, executed, audited, denied, counted, transcribed, output>>

\* Faulty variant: without an approval UI nobody objects.
ApprovedUnlessRefused(tool, answer) == Permission(tool) = "allow" \/ answer \in {"yes", "missing"}

Approved(tool, answer) == Permission(tool) = "allow" \/ answer = "yes"

\* The handler answers, fails with an expected error, or raises another one,
\* which ends the loop and the program.
Execute ==
    /\ pc = "execute"
    /\ \E answer \in Answers :
         IF Approved(Call.tool, answer)
           THEN /\ executed' = Add(executed, [call |-> Call, answer |-> answer])
                /\ \/ output' \in {"ok", "Tool failed"} /\ pc' = "count"
                   \/ output' = None /\ pc' = "down"
           ELSE output' = "Permission denied" /\ pc' = "count" /\ UNCHANGED executed
    /\ UNCHANGED <<session, history, calls, results, started, audited, denied, counted, transcribed>>

-----------------------------------------------------------------------------
(* run: what is written after a call *)

RecordTool ==
    /\ pc = "count"
    /\ counted' = Add(counted, Call)
    /\ pc' = "audit"
    /\ UNCHANGED <<session, history, calls, results, executed, started, audited, denied, transcribed, output>>

AuditResult ==
    /\ pc = "audit"
    /\ audited' = Add(audited, [call |-> Call, output |-> output])
    /\ pc' = "transcribe"
    /\ UNCHANGED <<session, history, calls, results, executed, started, denied, counted, transcribed, output>>

TranscribeResult ==
    /\ pc = "transcribe"
    /\ transcribed' = Add(transcribed, [call |-> Call, output |-> output])
    /\ results' = Append(results, Call.id)
    /\ calls' = Tail(calls)
    /\ output' = None
    /\ pc' = AfterCall
    /\ UNCHANGED <<session, history, executed, started, audited, denied, counted>>

Answer ==
    /\ pc = "answer"
    /\ Say("user", results)
    /\ pc' = "compact"
    /\ UNCHANGED <<session, calls, results, stores, output>>

-----------------------------------------------------------------------------
Crash ==
    /\ pc # "down"
    /\ pc' = "down"
    /\ UNCHANGED <<session, history, calls, results, stores, output>>

\* ComprehensiveAgent(): a new session with no history over the same files.
Restart ==
    /\ pc = "down" /\ session < MaxSessions
    /\ session' = session + 1
    /\ pc' = "idle"
    /\ history' = <<>> /\ calls' = <<>> /\ results' = <<>> /\ output' = None
    /\ UNCHANGED stores

Next ==
    \/ Submit \/ Compact \/ AskProvider \/ Deny \/ Start \/ Execute
    \/ RecordTool \/ AuditResult \/ TranscribeResult \/ Answer \/ Crash \/ Restart

Spec == Init /\ [][Next]_vars

-----------------------------------------------------------------------------
(* Properties *)

CallsIn(log) == [i \in DOMAIN log |-> log[i].call]

\* The log has at least what the other one has, in its order.
Continues(log, other) == \A i \in DOMAIN other : i \in DOMAIN log /\ log[i] = other[i]

\* Whatever write the process dies before, the audit knows every call that ran,
\* and the stores tell one story: what the transcript has, the audit's results
\* have, the counts have and the starts have, in one order, and no session is
\* more than one call behind ("Audit before execution").
StoresAgree ==
    \A s \in Session :
        /\ Continues(audited[s], transcribed[s])
        /\ Continues(counted[s], CallsIn(audited[s]))
        /\ Continues(started[s], counted[s])
        /\ Len(started[s]) <= Len(transcribed[s]) + 1
        /\ Range(CallsIn(executed[s])) \subseteq Range(started[s])

\* No handler runs for a call the policy denies, and none that asks without a
\* yes, a broken approval UI included; what the transcript says was refused was
\* not done (execute_tool: "fails closed here").
PermittedOnly ==
    \A s \in Session :
        /\ \A e \in Range(executed[s]) :
             e.call.tool = "bash" \/ (e.call.tool = "write_file" /\ e.answer = "yes")
        /\ \A t \in Range(transcribed[s]) :
             t.output = "Permission denied" <=> t.call \notin Range(CallsIn(executed[s]))

\* The provider is asked only when every call of every turn has its answer, in
\* order, the denied ones too (run's results).
AskedWithAnswers ==
    pc = "ask" =>
        \A k \in DOMAIN history : history[k].role = "assistant" /\ history[k].content # <<>> =>
            history[k + 1].content = [i \in DOMAIN history[k].content |-> history[k].content[i].id]
=============================================================================
