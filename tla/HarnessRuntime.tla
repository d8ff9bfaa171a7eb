--------------------------- MODULE HarnessRuntime ---------------------------
(***************************************************************************)
(* mini_workbuddy/agent.py over the storage, audit, event bus and tool     *)
(* registry of one runtime process: request handler threads run            *)
(* MiniAgent.prompt, possibly for the same session, and subscribers listen *)
(* to /api/v1/acp/events.                                                  *)
(*                                                                         *)
(* An append to the transcript is one step here (module Transcript shows   *)
(* it behaves so, EventLog), and an append to the audit log is one step    *)
(* (module AuditLog, AuditChain).                                          *)
(***************************************************************************)
EXTENDS Naturals, Sequences, FiniteSets, Bags, SequencesExt

CONSTANTS
    Thread,         \* request handler threads
    Session,        \* sessions they may be asked for
    Subscriber,     \* SSE connections
    Plans,          \* what plan_message can decide: to "call" a tool or to "answer"
    Outcomes,       \* what ToolRegistry.run can do, see Run
    Faults,         \* the faults that occur
    MaxPrompts,     \* bound on the prompts sent
    MaxFaults,      \* bound on the faults that occur
    None

ASSUME RuntimeAssumption ==
    /\ Plans \subseteq {"call", "answer"}
    /\ Outcomes \subseteq {"ok", "denied", "timeout", "output_lost", "unexpected"}
    /\ Faults \subseteq {"storage", "audit", "crash", "disconnect"}
    /\ MaxPrompts \in Nat /\ MaxFaults \in Nat
    /\ None \notin [Session -> Nat]

VARIABLES
    transcript,     \* per session, its durable events [type, call]
    audit,          \* the bag of audit entries [action, session, seq]
    subscribers,    \* EventBus._subscribers
    queue,          \* the bag of events put into a subscriber's queue: <<session, seq>>
    joined,         \* per connected subscriber, the transcript lengths when it came
    pc,             \* per thread, the kind of event it is handling and the step
    session,        \* the session of its prompt
    seq,            \* the sequence of the event it appended last
    call,           \* the identity of its tool call
    targets,        \* subscribers its publish() has still to serve
    executed,       \* calls whose tool ran to the end
    lastCall,       \* ToolRegistry._id_counter; the time keeps restarts apart
    prompts,        \* bound: prompts sent
    faults          \* bound: prompts that ended in an exception, and crashes

records == <<transcript, audit>>
bus == <<subscribers, queue, joined>>
threads == <<pc, session, seq, call, targets>>
vars == <<records, bus, threads, executed, lastCall, prompts, faults>>

Messages == {"message_user", "message_assistant"}
At(kind, step) == [kind |-> kind, step |-> step]
Idle == At("idle", "idle")

Init ==
    /\ transcript = [s \in Session |-> <<>>]
    /\ audit = EmptyBag
    /\ subscribers = <<>>
    /\ queue = [u \in Subscriber |-> EmptyBag]
    /\ joined = [u \in Subscriber |-> None]
    /\ pc = [t \in Thread |-> Idle]
    /\ session = [t \in Thread |-> None]
    /\ seq = [t \in Thread |-> 0]
    /\ call = [t \in Thread |-> 0]
    /\ targets = [t \in Thread |-> <<>>]
    /\ executed = {}
    /\ lastCall = 0
    /\ prompts = 0
    /\ faults = 0

-----------------------------------------------------------------------------
(* MiniAgent.prompt *)

Goto(t, kind, step) == pc' = [pc EXCEPT ![t] = At(kind, step)]

\* prompt() returns or raises; its local variables are gone.
Leave(t) ==
    /\ pc' = [pc EXCEPT ![t] = Idle]
    /\ session' = [session EXCEPT ![t] = None]
    /\ seq' = [seq EXCEPT ![t] = 0]
    /\ call' = [call EXCEPT ![t] = 0]

Prompt(t, s) ==
    /\ pc[t] = Idle
    /\ prompts < MaxPrompts
    /\ prompts' = prompts + 1
    /\ session' = [session EXCEPT ![t] = s]
    /\ Goto(t, "message_user", "append")
    /\ UNCHANGED <<records, bus, seq, call, targets, executed, lastCall, faults>>

\* Faulty variant: a call's identity is its place in the prompt, always 1.
EventDoneSharingIds(t) ==
    \/ /\ pc[t].kind = "message_user"
       /\ call' = [call EXCEPT ![t] = 1]
       /\ Goto(t, "tool_call", "append")
       /\ UNCHANGED <<session, seq, lastCall>>
    \/ /\ pc[t].kind = "tool_call"
       /\ Goto(t, "tool_call", "run")
       /\ UNCHANGED <<session, seq, call, lastCall>>
    \/ /\ pc[t].kind \in {"tool_result", "tool_error"}
       /\ Goto(t, "message_assistant", "append")
       /\ UNCHANGED <<session, seq, call, lastCall>>
    \/ /\ pc[t].kind = "message_assistant"
       /\ Leave(t)
       /\ UNCHANGED lastCall

\* Where a thread goes when an event is recorded, audited and published.  A
\* prompt that plans a tool call reserves its identity first (new_call_id).
EventDone(t) ==
    \/ /\ pc[t].kind = "message_user"
       /\ \/ /\ "answer" \in Plans
             /\ Goto(t, "message_assistant", "append")
             /\ UNCHANGED <<session, seq, call, lastCall>>
          \/ /\ "call" \in Plans
             /\ lastCall' = lastCall + 1
             /\ call' = [call EXCEPT ![t] = lastCall']
             /\ Goto(t, "tool_call", "append")
             /\ UNCHANGED <<session, seq>>
    \/ /\ pc[t].kind = "tool_call"
       /\ Goto(t, "tool_call", "run")
       /\ UNCHANGED <<session, seq, call, lastCall>>
    \/ /\ pc[t].kind \in {"tool_result", "tool_error"}
       /\ Goto(t, "message_assistant", "append")
       /\ UNCHANGED <<session, seq, call, lastCall>>
    \/ /\ pc[t].kind = "message_assistant"
       /\ Leave(t)
       /\ UNCHANGED lastCall

\* Faulty variant: the sequence is handed out, the event written later.
AppendLater(t) ==
    LET s == session[t]  kind == pc[t].kind IN
    /\ pc[t].step = "append"
    /\ seq' = [seq EXCEPT ![t] = Len(transcript[s]) + 1]
    /\ Goto(t, kind, IF kind \in Messages THEN "audit" ELSE "publish")
    /\ UNCHANGED <<records, bus, session, call, targets, executed, lastCall, prompts, faults>>

\* Storage.append_event returns the envelope the next steps refer to.
AppendEvent(t) ==
    LET s == session[t]  kind == pc[t].kind IN
    /\ pc[t].step = "append"
    /\ transcript' = [transcript EXCEPT ![s] = Append(@,
           [type |-> kind, call |-> IF kind \in Messages THEN 0 ELSE call[t]])]
    /\ seq' = [seq EXCEPT ![t] = Len(transcript'[s])]
    /\ Goto(t, kind, IF kind \in Messages THEN "audit" ELSE "publish")
    /\ UNCHANGED <<audit, bus, session, call, targets, executed, lastCall, prompts, faults>>

\* Faulty variant: failed tools are not audited.
AuditSuccess(t) ==
    LET kind == pc[t].kind IN
    /\ pc[t].step = "audit"
    /\ audit' = IF kind = "tool_error" THEN audit
                ELSE audit (+) SetToBag({[action |-> kind, session |-> session[t], seq |-> seq[t]]})
    /\ IF kind \in Messages
         THEN Goto(t, kind, "publish") /\ UNCHANGED <<session, seq, call, lastCall>>
         ELSE EventDone(t)
    /\ UNCHANGED <<transcript, bus, targets, executed, prompts, faults>>

\* Messages are audited before they are published, tool events after.
AuditEvent(t) ==
    LET kind == pc[t].kind IN
    /\ pc[t].step = "audit"
    /\ audit' = audit (+) SetToBag({[action |-> kind, session |-> session[t], seq |-> seq[t]]})
    /\ IF kind \in Messages
         THEN Goto(t, kind, "publish") /\ UNCHANGED <<session, seq, call, lastCall>>
         ELSE EventDone(t)
    /\ UNCHANGED <<transcript, bus, targets, executed, prompts, faults>>

\* EventBus.publish copies the subscribers under its lock ...
PublishEvent(t) ==
    /\ pc[t].step = "publish"
    /\ targets' = [targets EXCEPT ![t] = subscribers]
    /\ Goto(t, pc[t].kind, "put")
    /\ UNCHANGED <<records, bus, session, seq, call, executed, lastCall, prompts, faults>>

\* ... and serves them one by one after releasing it.
PutEvent(t) ==
    LET u == Head(targets[t]) IN
    /\ pc[t].step = "put"
    /\ targets[t] # <<>>
    /\ queue' = [queue EXCEPT ![u] = @ (+) SetToBag({<<session[t], seq[t]>>})]
    /\ targets' = [targets EXCEPT ![t] = Tail(@)]
    /\ UNCHANGED <<records, subscribers, joined, pc, session, seq, call, executed,
                   lastCall, prompts, faults>>

PublishDone(t) ==
    /\ pc[t].step = "put"
    /\ targets[t] = <<>>
    /\ IF pc[t].kind \in Messages
         THEN EventDone(t)
         ELSE Goto(t, pc[t].kind, "audit") /\ UNCHANGED <<session, seq, call, lastCall>>
    /\ UNCHANGED <<records, bus, targets, executed, prompts, faults>>

Raise(t) == Leave(t) /\ faults' = faults + 1

\* Faulty variant: the tool starts as soon as its call is published.
RunBeforeAudit(t) ==
    /\ pc[t] = At("tool_call", "put")
    /\ executed' = executed \cup {call[t]}
    /\ Goto(t, "tool_result", "append")
    /\ UNCHANGED <<records, bus, session, seq, call, targets, lastCall, prompts, faults>>

\* Faulty variant: a denial goes to the user only.
RunDenyingSilently(t) ==
    /\ pc[t] = At("tool_call", "run")
    /\ \/ /\ Goto(t, "tool_result", "append")
          /\ executed' = executed \cup {call[t]}
       \/ Goto(t, "message_assistant", "append") /\ UNCHANGED executed
    /\ UNCHANGED <<records, bus, session, seq, call, targets, lastCall, prompts, faults>>

\* ToolRegistry.run: a tool is denied before it starts, is cut off, completes
\* but its output cannot be written to tool-results (OSError), or raises
\* something prompt() does not catch.
Run(t) ==
    /\ pc[t] = At("tool_call", "run")
    /\ \E outcome \in Outcomes :
         /\ executed' = IF outcome \in {"ok", "output_lost"}
                        THEN executed \cup {call[t]} ELSE executed
         /\ IF outcome = "unexpected"
              THEN faults < MaxFaults /\ Raise(t)
              ELSE /\ Goto(t, IF outcome = "ok" THEN "tool_result" ELSE "tool_error", "append")
                   /\ UNCHANGED <<session, seq, call, faults>>
    /\ UNCHANGED <<records, bus, targets, lastCall, prompts>>

\* Faulty variant: the try block of prompt() covers the recording as well.
RecordingFailsAsTool(t) ==
    /\ faults < MaxFaults
    /\ \/ pc[t].step = "append" /\ "storage" \in Faults
       \/ pc[t].step = "audit" /\ "audit" \in Faults
    /\ IF pc[t].kind = "tool_result"
         THEN /\ Goto(t, "tool_error", "append")
              /\ faults' = faults + 1
              /\ UNCHANGED <<session, seq, call>>
         ELSE Raise(t)
    /\ UNCHANGED <<records, bus, targets, executed, lastCall, prompts>>

\* An append that raises leaves prompt(); handle_acp reports it.
RecordingFails(t) ==
    /\ faults < MaxFaults
    /\ \/ pc[t].step = "append" /\ "storage" \in Faults
       \/ pc[t].step = "audit" /\ "audit" \in Faults
    /\ Raise(t)
    /\ UNCHANGED <<records, bus, targets, executed, lastCall, prompts>>

-----------------------------------------------------------------------------
(* EventBus.subscribe and the end of the process *)

\* Every subscription has a queue of its own.
Subscribe(u) ==
    /\ joined[u] = None
    /\ queue[u] = EmptyBag
    /\ subscribers' = Append(subscribers, u)
    /\ joined' = [joined EXCEPT ![u] = [s \in Session |-> Len(transcript[s])]]
    /\ UNCHANGED <<records, queue, threads, executed, lastCall, prompts, faults>>

\* Faulty variant: leaving removes whoever came first.
UnsubscribeAnother(u) ==
    /\ "disconnect" \in Faults
    /\ u \in ToSet(subscribers)
    /\ queue[u] # EmptyBag
    /\ subscribers' = Tail(subscribers)
    /\ joined' = [joined EXCEPT ![u] = None]
    /\ UNCHANGED <<records, queue, threads, executed, lastCall, prompts, faults>>

\* The client is gone, which sse() notices when it writes an event: the
\* generator removes the queue.
Unsubscribe(u) ==
    /\ "disconnect" \in Faults
    /\ u \in ToSet(subscribers)
    /\ queue[u] # EmptyBag
    /\ subscribers' = RemoveFirst(subscribers, u)
    /\ joined' = [joined EXCEPT ![u] = None]
    /\ UNCHANGED <<records, queue, threads, executed, lastCall, prompts, faults>>

\* The process dies; transcript and audit log stay.
Crash ==
    /\ "crash" \in Faults
    /\ faults < MaxFaults
    /\ faults' = faults + 1
    /\ pc' = [t \in Thread |-> Idle]
    /\ session' = [t \in Thread |-> None]
    /\ seq' = [t \in Thread |-> 0]
    /\ call' = [t \in Thread |-> 0]
    /\ targets' = [t \in Thread |-> <<>>]
    /\ subscribers' = <<>>
    /\ UNCHANGED <<records, queue, joined, executed, lastCall, prompts>>

-----------------------------------------------------------------------------
Step(t) == \/ AppendEvent(t) \/ AuditEvent(t) \/ PublishEvent(t) \/ PutEvent(t)
           \/ PublishDone(t) \/ Run(t)

Next ==
    \/ \E t \in Thread : Step(t) \/ RecordingFails(t) \/ \E s \in Session : Prompt(t, s)
    \/ \E u \in Subscriber : Subscribe(u) \/ Unsubscribe(u)
    \/ Crash

Spec == Init /\ [][Next]_vars

FairSpec == Spec /\ \A t \in Thread : WF_vars(Step(t))

-----------------------------------------------------------------------------
(* Properties *)

Recorded(s, n, kind) == n \in DOMAIN transcript[s] /\ transcript[s][n].type = kind
EventsOf(c) ==
    UNION {{<<s, n>> : n \in {m \in DOMAIN transcript[s] : transcript[s][m].call = c}} : s \in Session}
TypeOf(e) == transcript[e[1]][e[2]].type

\* Audit entries and live events only ever refer to a transcript event that is
\* already durable, and audit entries to one of their own kind
\* (security-boundaries.md:20, MiniAgent._audit and _publish).
EvidenceFirst ==
    /\ \A a \in BagToSet(audit) : Recorded(a.session, a.seq, a.action)
    /\ \A u \in Subscriber : \A e \in BagToSet(queue[u]) : e[2] \in DOMAIN transcript[e[1]]

\* A tool only runs when its call is in the transcript and in the audit log,
\* in whatever order the handlers of a session interleave.
RunAfterRecord ==
    \A c \in executed :
        \E e \in EventsOf(c) :
            /\ TypeOf(e) = "tool_call"
            /\ BagIn([action |-> "tool_call", session |-> e[1], seq |-> e[2]], audit)

\* A call has one tool_call event and at most one outcome, later in the same
\* session, also when two handlers work on that session.
OneOutcome ==
    \A c \in 1..MaxPrompts :
        \A e1, e2 \in EventsOf(c) :
            /\ e1[1] = e2[1]
            /\ TypeOf(e1) = "tool_call" /\ e1 # e2 => e1[2] < e2[2]
            /\ {TypeOf(e1), TypeOf(e2)} \subseteq {"tool_result", "tool_error"} => e1 = e2

\* A tool that ran to its end is never recorded as failed: a later failure
\* leaves the call without an outcome (security-boundaries.md:21).
NoInventedError ==
    \A c \in executed : \A e \in EventsOf(c) : TypeOf(e) # "tool_error"

AuditedOnce(entry) == BagIn(entry, audit) /\ audit[entry] = 1

\* If no prompt ended in an exception, every transcript event has exactly one
\* audit entry once the handlers are idle, and every call its outcome.
CompleteEvidence ==
    faults = 0 /\ (\A t \in Thread : pc[t] = Idle) =>
        /\ \A s \in Session : \A n \in DOMAIN transcript[s] :
              AuditedOnce([action |-> transcript[s][n].type, session |-> s, seq |-> n])
        /\ \A c \in 1..lastCall : Cardinality(EventsOf(c)) = 2

\* A subscriber that stays gets every event recorded since it subscribed, and
\* none twice, whoever else comes and goes during publish().
ExactlyOnceDelivery ==
    \A u \in Subscriber :
        /\ \A e \in BagToSet(queue[u]) : queue[u][e] = 1
        /\ joined[u] # None /\ faults = 0 /\ (\A t \in Thread : pc[t] = Idle) =>
              \A s \in Session : \A n \in DOMAIN transcript[s] :
                  n > joined[u][s] => BagIn(<<s, n>>, queue[u])

\* Every recorded call gets its outcome, unless its prompt raises or the
\* process dies.
CallsResolved ==
    \A c \in 1..MaxPrompts :
        (EventsOf(c) # {}) ~> (Cardinality(EventsOf(c)) = 2 \/ faults > 0)
=============================================================================
