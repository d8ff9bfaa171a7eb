---------------------------- MODULE ToolDispatch ----------------------------
(***************************************************************************)
(* s02_tool_dispatch/code.py: the agent loop and its tool registry, which  *)
(* runs the calls of one turn beside each other when all of them allow it, *)
(* and one after the other otherwise.                                      *)
(*                                                                         *)
(* A call is its ID and its tool.  What a handler returns or raises is one *)
(* of two outcomes; "glob" is registered and safe to run beside others,    *)
(* "edit" registered and not, "gone" not registered, "bad" a safe tool     *)
(* with arguments that do not validate.                                    *)
(***************************************************************************)
EXTENDS Naturals, Sequences, FiniteSets, Functions

CONSTANTS
    Tool,           \* tools the model may call, of the four above
    MaxTurns,       \* agent_loop's max_turns
    MaxWorkers,     \* threads of the pool (4 in the code)
    MaxCalls,       \* bound: calls of a turn
    None

VARIABLES
    messages,       \* the history
    finished,       \* results of the turn's calls, in the order they ended
    running,        \* positions of the calls in a handler
    begun,          \* positions of the calls handed to dispatch
    stop            \* the loop's stop reason

vars == <<messages, finished, running, begun, stop>>

Init ==
    /\ messages = <<[role |-> "user", content |-> <<>>]>>
    /\ finished = <<>> /\ running = {} /\ begun = 0
    /\ stop = None

\* The turns the provider has been asked for.
Turn == Len(SelectSeq(messages, LAMBDA m : m.role = "assistant"))
Latest == messages[Len(messages)]
Calls == IF Latest.role = "assistant" THEN Latest.content ELSE <<>>

-----------------------------------------------------------------------------
(* ToolRegistry *)

Registered(tool) == tool # "gone"
ConcurrentSafe(tool) == tool \in {"glob", "bad"}

\* Faulty variant: one call that is safe makes the turn safe.
CanRunConcurrentlyAny(calls) == Len(calls) > 1 /\ \E i \in DOMAIN calls : ConcurrentSafe(calls[i].tool)

CanRunConcurrently(calls) ==
    Len(calls) > 1 /\ \A i \in DOMAIN calls : Registered(calls[i].tool) /\ ConcurrentSafe(calls[i].tool)

\* dispatch: an unknown tool and invalid arguments never reach a handler.
Outcomes(tool) ==
    CASE tool = "gone" -> {"unknown_tool"}
      [] tool = "bad" -> {"invalid_arguments"}
      [] OTHER -> {"ok", "execution_error"}

\* The pool takes calls in order as threads become free.
Begin ==
    /\ begun < Len(Calls)
    /\ Cardinality(running) < IF CanRunConcurrently(Calls) THEN MaxWorkers ELSE 1
    /\ begun' = begun + 1
    /\ running' = running \cup {begun + 1}
    /\ UNCHANGED <<messages, finished, stop>>

Finish(i) ==
    /\ i \in running
    /\ running' = running \ {i}
    /\ \E outcome \in Outcomes(Calls[i].tool) :
         finished' = Append(finished, [id |-> Calls[i].id, position |-> i, outcome |-> outcome])
    /\ UNCHANGED <<messages, begun, stop>>

-----------------------------------------------------------------------------
(* agent_loop *)

\* Faulty variant: results in the order the calls ended.
ResultsAsEnded == [k \in DOMAIN finished |-> [id |-> finished[k].id, outcome |-> finished[k].outcome]]

\* pool.map: results in the order of the calls.
Results ==
    [i \in DOMAIN Calls |->
        LET r == CHOOSE r \in Range(finished) : r.position = i IN [id |-> r.id, outcome |-> r.outcome]]

\* A response with calls is dispatched whatever its stop reason.
Respond ==
    /\ stop = None /\ Latest.role = "user" /\ Turn < MaxTurns
    /\ \E n \in 0..MaxCalls : \E tools \in [1..n -> Tool] :
         /\ messages' = Append(messages, [role |-> "assistant",
                content |-> [i \in 1..n |-> [id |-> <<Turn + 1, i>>, tool |-> tools[i]]]])
         /\ stop' \in IF n = 0 THEN {"final_answer", "max_tokens"} ELSE {None}
    /\ UNCHANGED <<finished, running, begun>>

Collect ==
    /\ Calls # <<>> /\ Len(finished) = Len(Calls)
    /\ messages' = Append(messages, [role |-> "user", content |-> Results])
    /\ stop' = IF Turn = MaxTurns THEN "max_turns" ELSE None
    /\ finished' = <<>> /\ running' = {} /\ begun' = 0

Next ==
    \/ Respond \/ Begin \/ Collect
    \/ \E i \in 1..MaxCalls : Finish(i)

Spec == Init /\ [][Next]_vars

-----------------------------------------------------------------------------
(* Properties *)

\* Every turn's calls are answered once each, in call order and with their own
\* IDs, before the provider is asked again and when the loop has ended, in
\* whatever order the handlers ended (dispatch_many: "preserve result order").
CallsAnswered ==
    \A k \in DOMAIN messages : messages[k].role = "assistant" /\ messages[k].content # <<>> =>
        IF k = Len(messages) THEN stop = None
        ELSE LET calls == messages[k].content
                 answers == messages[k + 1].content IN
             /\ Len(answers) = Len(calls)
             /\ \A i \in DOMAIN calls :
                  answers[i].id = calls[i].id /\ answers[i].outcome \in Outcomes(calls[i].tool)

\* A call that may change something runs alone, after every call before it and
\* before every call behind it (dispatch_many: "mutating calls take the
\* conservative path").
ChangesRunAlone ==
    \A i \in running : Calls[i].tool = "edit" =>
        running = {i} /\ begun = i /\ Len(finished) = i - 1
=============================================================================
