---------------------------- MODULE ModelRouting ----------------------------
(***************************************************************************)
(* s08_model_routing/code.py: agents are routed to model tiers whose       *)
(* tokens are accounted, and one of them, the memory selector, may answer  *)
(* only with IDs out of the candidates it was given.                       *)
(*                                                                         *)
(* The model may answer the selector anything: its response is the         *)
(* sequence of IDs in brackets in it.                                      *)
(***************************************************************************)
EXTENDS Naturals, Sequences, FiniteSets, Functions

CONSTANTS
    Id,             \* memory IDs a response may have in it
    Tokens,         \* what a call may cost
    MaxLength, MaxCalls,    \* bounds: IDs in a response, calls between resets
    None

VARIABLES
    tracker,        \* CostTracker: tokens and calls, by tier
    made,           \* tier and tokens of every call since the last reset
    selection       \* the last selection: candidates, limit, response, selected

vars == <<tracker, made, selection>>

Tier == {"lite", "default", "craft"}
Agent == {"memorySelector", "Explore", "Plan", "CLI", "unknown"}
Zero == [tokens |-> [t \in Tier |-> 0], calls |-> [t \in Tier |-> 0]]

Init == tracker = Zero /\ made = <<>> /\ selection = None

\* route_request: an agent that is not in the table gets the default.
RouteRequest(agent) ==
    CASE agent \in {"memorySelector", "Explore"} -> "lite"
      [] agent = "CLI" -> "craft"
      [] OTHER -> "default"

\* call_model tracks before the model answers.
CallModel(tier, tokens) ==
    /\ Len(made) < MaxCalls
    /\ tracker' = [tokens |-> [tracker.tokens EXCEPT ![tier] = @ + tokens],
                   calls |-> [tracker.calls EXCEPT ![tier] = @ + 1]]
    /\ made' = Append(made, [tier |-> tier, tokens |-> tokens])

\* The selector is not called as other agents are.
Call(agent, tokens) ==
    /\ agent # "memorySelector"
    /\ CallModel(RouteRequest(agent), tokens)
    /\ UNCHANGED selection

\* Faulty variant: the response is cut to the limit before its IDs are looked at.
AllowlistedOfFirst(response, candidates, limit) ==
    LET first == SubSeq(response, 1, IF limit < Len(response) THEN limit ELSE Len(response))
        keep[i \in 0..Len(first)] ==
            IF i = 0 THEN <<>>
            ELSE IF first[i] \in candidates /\ first[i] \notin Range(keep[i - 1])
              THEN Append(keep[i - 1], first[i]) ELSE keep[i - 1] IN
    keep[Len(first)]

\* _allowlisted_ids, ID by ID until there are enough.
AllowlistedIds(response, candidates, limit) ==
    LET keep[i \in 0..Len(response)] ==
            IF i = 0 THEN <<>>
            ELSE IF /\ Len(keep[i - 1]) < limit
                    /\ response[i] \in candidates /\ response[i] \notin Range(keep[i - 1])
              THEN Append(keep[i - 1], response[i]) ELSE keep[i - 1] IN
    keep[Len(response)]

Select(candidates, limit, tokens) ==
    /\ CallModel(RouteRequest("memorySelector"), tokens)
    /\ \E n \in 0..MaxLength : \E response \in [1..n -> Id] :
         selection' = [candidates |-> candidates, limit |-> limit, response |-> response,
                       selected |-> AllowlistedIds(response, candidates, limit)]

\* Faulty variant: the calls are not set back.
ResetTokensOnly ==
    /\ tracker' = [Zero EXCEPT !.calls = tracker.calls]
    /\ made' = <<>>
    /\ UNCHANGED selection

Reset ==
    /\ tracker' = Zero
    /\ made' = <<>>
    /\ UNCHANGED selection

Next ==
    \/ \E agent \in Agent, tokens \in Tokens : Call(agent, tokens)
    \/ \E candidates \in SUBSET Id, limit \in 1..2, tokens \in Tokens : Select(candidates, limit, tokens)
    \/ Reset

Spec == Init /\ [][Next]_vars

-----------------------------------------------------------------------------
(* Properties *)

\* The tracker has every call since its reset, on the tier of its agent, the
\* selector's calls, which do not pass by call(), too (CostTracker).
TrackerAccounts ==
    \A t \in Tier :
        LET own == SelectSeq(made, LAMBDA c : c.tier = t) IN
        /\ tracker.calls[t] = Len(own)
        /\ tracker.tokens[t] = FoldFunction(LAMBDA c, sum : c.tokens + sum, 0, own)

\* Whatever the model answers, the selection is candidates only, each once, as
\* they came first, and what it invents or says twice does not take the place
\* of a candidate (_allowlisted_ids: "stable, unique IDs").
SelectionOfCandidates ==
    selection # None =>
        LET Known == {i \in DOMAIN selection.response : selection.response[i] \in selection.candidates}
            First == {i \in Known : \A j \in Known : j < i => selection.response[j] # selection.response[i]}
            want == {i \in First : Cardinality({j \in First : j < i}) < selection.limit} IN
        /\ Range(selection.selected) = {selection.response[i] : i \in want}
        /\ Len(selection.selected) = Cardinality(want)
        /\ \A i, j \in want : i < j =>
             \E k, l \in DOMAIN selection.selected :
                 /\ k < l /\ selection.selected[k] = selection.response[i]
                 /\ selection.selected[l] = selection.response[j]
=============================================================================
