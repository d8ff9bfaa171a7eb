--------------------------- MODULE ContextCompact ---------------------------
(***************************************************************************)
(* s14_context_compact/code.py: the agent loop whose message list is       *)
(* compacted before every request, layer by layer, until it is below the   *)
(* threshold.  The compacted view replaces the list, so that layers see    *)
(* what earlier compactions left.                                          *)
(*                                                                         *)
(* Text is its size in tokens.                                             *)
(***************************************************************************)
EXTENDS Naturals, Sequences, FiniteSets, Functions

CONSTANTS
    Path,               \* files that read_file is called for
    TextSizes,          \* tokens of a question or an answer
    ResultSizes,        \* tokens of a tool's output
    Stops,              \* stop reasons: "end_turn", "tool_use", "max_tokens"
    MaxCallsPerTurn,    \* bound on the tool calls of one response
    MaxTurns,           \* bound on the responses
    TokenThreshold,     \* TOKEN_THRESHOLD
    HardLimit,          \* HARD_LIMIT, above it
    MaxToolResult,      \* MAX_TOOL_RESULT_TOKENS
    KeepRecentTurns,    \* KEEP_RECENT_TURNS, which counts messages
    KeepRecent,         \* keep_recent of generate_summary
    None

VARIABLES
    messages,           \* the list the loop works on
    sent,               \* the view the provider got last
    lastRead,           \* per file, the call that read it last
    calls,              \* tool calls made: their correlation IDs
    turns,              \* bound: responses
    pc                  \* what the loop does next

vars == <<messages, sent, lastRead, calls, turns, pc>>

-----------------------------------------------------------------------------
(* Messages *)

Newest(s) == s[Len(s)]
Message(role, blocks) == [role |-> role, blocks |-> blocks]
Block(type, id, path, size) ==
    [type |-> type, id |-> id, path |-> path, size |-> size]
TextBlock(size) == Block("text", None, None, size)
ToolUse(id, path) == Block("tool_use", id, path, 1)
ToolResult(id, path, size) == Block("tool_result", id, path, size)

RoleOverhead == 1
BlockTokens(bs) == FoldFunction(LAMBDA b, n : b.size + n, 0, bs)
Tokens(ms) == FoldFunction(LAMBDA m, n : BlockTokens(m.blocks) + RoleOverhead + n, 0, ms)

\* Where the blocks of one kind that carry this ID are: <<message, block>>.
Places(ms, type) ==
    {p \in (DOMAIN ms) \X (1..MaxCallsPerTurn + 1) :
        p[2] \in DOMAIN ms[p[1]].blocks /\ ms[p[1]].blocks[p[2]].type = type}
BlockAt(ms, p) == ms[p[1]].blocks[p[2]]
IdsOf(ms, type) == {BlockAt(ms, p).id : p \in Places(ms, type)}
MessageOf(ms, type, id) == (CHOOSE p \in Places(ms, type) : BlockAt(ms, p).id = id)[1]
UseMessage(ms, id) == MessageOf(ms, "tool_use", id)
ResultMessage(ms, id) == MessageOf(ms, "tool_result", id)

\* validate_tool_protocol: every call once, from the assistant, and every
\* result once, later, from the user.
ValidToolProtocol(ms) ==
    /\ \A p \in Places(ms, "tool_use") : ms[p[1]].role = "assistant"
    /\ \A p \in Places(ms, "tool_result") : ms[p[1]].role = "user"
    /\ \A type \in {"tool_use", "tool_result"} :
          Cardinality(IdsOf(ms, type)) = Cardinality(Places(ms, type))
    /\ IdsOf(ms, "tool_use") = IdsOf(ms, "tool_result")
    /\ \A id \in IdsOf(ms, "tool_use") : UseMessage(ms, id) < ResultMessage(ms, id)

\* Both sides of the calls go, and messages they leave empty.
WithoutToolInteractions(ms, ids) ==
    SelectSeq([i \in DOMAIN ms |->
                 [ms[i] EXCEPT !.blocks = SelectSeq(@, LAMBDA b : b.id \notin ids)]],
              LAMBDA m : m.blocks # <<>>)

-----------------------------------------------------------------------------
(* The four layers *)

\* The note makes a truncated result a little longer than the limit again.
NoteSize == 1
TruncateBlock(b) ==
    IF b.type = "tool_result" /\ b.size > MaxToolResult
      THEN [b EXCEPT !.size = MaxToolResult + NoteSize] ELSE b
TruncateToolResults(ms) ==
    [i \in DOMAIN ms |->
        [ms[i] EXCEPT !.blocks = [j \in DOMAIN ms[i].blocks |-> TruncateBlock(ms[i].blocks[j])]]]

Before(p, q) == p[1] < q[1] \/ (p[1] = q[1] /\ p[2] < q[2])
\* Faulty variant: the first read of a file is kept.
RepeatedReads(ms) ==
    LET reads == {p \in Places(ms, "tool_result") : BlockAt(ms, p).path # None} IN
    {BlockAt(ms, p).id : p \in
        {r \in reads : \E q \in reads : BlockAt(ms, q).path = BlockAt(ms, r).path /\ Before(q, r)}}

\* Calls whose file was read again later.
OlderReads(ms) ==
    LET reads == {p \in Places(ms, "tool_result") : BlockAt(ms, p).path # None} IN
    {BlockAt(ms, p).id : p \in
        {r \in reads : \E q \in reads : BlockAt(ms, q).path = BlockAt(ms, r).path /\ Before(r, q)}}
DedupFileReads(ms) == WithoutToolInteractions(ms, OlderReads(ms))

\* Faulty variant: calls on the edge of the window are kept.
NoCrossing(ms, kept) == {}

\* Calls with one side in the part that is kept.
Crossing(ms, kept) ==
    {id \in IdsOf(ms, "tool_use") : (UseMessage(ms, id) \in kept) # (ResultMessage(ms, id) \in kept)}

\* Faulty variant: the window ends one message too early.
PruneWindowShifted(ms) ==
    LET n == Len(ms)
        kept == {1} \cup (n - KeepRecentTurns)..n - 1
        selected == <<ms[1]>> \o SubSeq(ms, n - KeepRecentTurns, n - 1) IN
    IF n <= KeepRecentTurns + 1 THEN ms
    ELSE WithoutToolInteractions(selected, Crossing(ms, kept))

\* The first message and the last ones.
PruneOldMessages(ms) ==
    LET n == Len(ms)
        kept == {1} \cup (n - KeepRecentTurns + 1)..n
        selected == <<ms[1]>> \o SubSeq(ms, n - KeepRecentTurns + 1, n) IN
    IF n <= KeepRecentTurns + 1 THEN ms
    ELSE WithoutToolInteractions(selected, Crossing(ms, kept))

\* Faulty variant: the window starts where it starts.
RawRecentStart(ms) == Len(ms) - KeepRecent + 1

\* The recent window grows back to where no call crosses its start.
RecentStart(ms) ==
    LET uncut == {b \in 1..Len(ms) - KeepRecent + 1 :
                    \A id \in IdsOf(ms, "tool_use") :
                        ~ (UseMessage(ms, id) < b /\ b <= ResultMessage(ms, id))} IN
    CHOOSE b \in uncut : \A c \in uncut : c <= b

Summarized(ms, size) ==
    <<Message("user", <<TextBlock(size)>>), Message("assistant", <<TextBlock(1)>>)>>
        \o SubSeq(ms, RecentStart(ms), Len(ms))

\* With a summary of this size; 0 is a summarizer that fails or says nothing.
GenerateSummary(ms, size) ==
    IF Len(ms) <= KeepRecent \/ RecentStart(ms) = 1 \/ size = 0 THEN ms
    ELSE IF Tokens(Summarized(ms, size)) >= Tokens(ms) THEN ms ELSE Summarized(ms, size)

\* Every layer is tried only if the ones before did not get below the threshold.
CompactContext(ms, size) ==
    LET l1 == TruncateToolResults(ms)  l2 == DedupFileReads(l1)  l3 == PruneOldMessages(l2) IN
    IF Tokens(ms) < TokenThreshold THEN ms
    ELSE IF Tokens(l1) < TokenThreshold THEN l1
    ELSE IF Tokens(l2) < TokenThreshold THEN l2
    ELSE IF Tokens(l3) < TokenThreshold THEN l3
    ELSE GenerateSummary(l3, size)

-----------------------------------------------------------------------------
(* agent_loop *)

Init ==
    /\ messages = <<>>
    /\ sent = <<>>
    /\ lastRead = [f \in Path |-> None]
    /\ calls = 0
    /\ turns = 0
    /\ pc = "ask"

Ask(size) ==
    /\ pc = "ask"
    /\ turns < MaxTurns
    /\ messages' = Append(messages, Message("user", <<TextBlock(size)>>))
    /\ pc' = "compact"
    /\ UNCHANGED <<sent, lastRead, calls, turns>>

\* Faulty variant: what is too large is sent all the same.
CompactWithoutLimit(size) ==
    LET view == CompactContext(messages, size) IN
    /\ pc = "compact"
    /\ messages' = view /\ sent' = view /\ pc' = "respond"
    /\ UNCHANGED <<lastRead, calls, turns>>

\* compact_context refuses a broken list, and a view no layer could reduce;
\* its exception ends the program.
Compact(size) ==
    LET view == CompactContext(messages, size) IN
    /\ pc = "compact"
    /\ IF ~ ValidToolProtocol(messages) \/ Tokens(view) >= HardLimit
         THEN pc' = "failed" /\ UNCHANGED <<messages, sent>>
         ELSE /\ messages' = view
              /\ sent' = view
              /\ pc' = "respond"
    /\ UNCHANGED <<lastRead, calls, turns>>

\* The model answers, or calls tools with or without a text; a response that is cut off may hold a
\* call as well, which nobody runs.
Respond(stop, size) ==
    /\ pc = "respond"
    /\ turns < MaxTurns
    /\ turns' = turns + 1
    /\ \E n \in IF stop = "end_turn" THEN {0} ELSE 1..MaxCallsPerTurn,
          paths \in [1..MaxCallsPerTurn -> Path \cup {None}] :
         /\ \A k \in n + 1..MaxCallsPerTurn : paths[k] = None
         /\ messages' = Append(messages, Message("assistant",
                (IF size = 0 THEN <<>> ELSE <<TextBlock(size)>>)
                    \o [k \in 1..n |-> ToolUse(calls + k, paths[k])]))
         /\ calls' = calls + n
    /\ pc' = IF stop = "tool_use" THEN "tools" ELSE "ask"
    /\ UNCHANGED <<sent, lastRead>>

\* All calls of the response are run, and their results are one message.
RunTools ==
    LET uses == SelectSeq(Newest(messages).blocks, LAMBDA b : b.type = "tool_use") IN
    /\ pc = "tools"
    /\ \E sizes \in [DOMAIN uses -> ResultSizes] :
         messages' = Append(messages, Message("user",
             [k \in DOMAIN uses |-> ToolResult(uses[k].id, uses[k].path, sizes[k])]))
    /\ lastRead' = [f \in Path |->
         LET of == {uses[k].id : k \in {i \in DOMAIN uses : uses[i].path = f}} IN
         IF of = {} THEN lastRead[f] ELSE CHOOSE id \in of : \A other \in of : other <= id]
    /\ pc' = "compact"
    /\ UNCHANGED <<sent, calls, turns>>

Next ==
    \/ \E size \in TextSizes : Ask(size) \/ \E stop \in Stops : Respond(stop, size)
    \/ "tool_use" \in Stops /\ Respond("tool_use", 0)
    \/ \E size \in TextSizes \cup {0} : Compact(size)
    \/ RunTools

Spec == Init /\ [][Next]_vars

-----------------------------------------------------------------------------
(* Properties *)

\* Whatever layers ran, in whatever turns, the provider never gets a call
\* without its result or a result without its call (prune_old_messages: "Otherwise the API will error").
SentProtocol == ValidToolProtocol(sent)

\* ... nor a view at or above the hard limit (compact_context's docstring).
SentBelowLimit == Tokens(sent) < HardLimit

\* If what the model sees of a file was read by the loop, the newest read is
\* among it: an old content never stands alone (dedup_file_reads: "keep only the latest").
NoStaleRead ==
    \A f \in Path :
        LET results == {BlockAt(sent, p) : p \in Places(sent, "tool_result")}
            seen == {b.id : b \in {r \in results : r.path = f}}
        IN pc = "respond" /\ seen # {} => lastRead[f] \in seen

\* Compaction never drops what the model answers next: the newest results,
\* or the question (prune_old_messages keeps "the most recent messages").
KeepsNewest ==
    pc = "compact" /\ pc' = "respond" =>
        /\ Newest(sent').role = "user"
        /\ Newest(Newest(sent').blocks).id = Newest(Newest(messages).blocks).id
NewestSurvives == [][KeepsNewest]_vars
=============================================================================
