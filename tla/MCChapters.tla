----------------------------- MODULE MCChapters -----------------------------
(***************************************************************************)
(* The scenarios of ChapterScenarios under TLC, and beside them those of   *)
(* the chapters that are only model-checked, on a small instance each.     *)
(***************************************************************************)
EXTENDS ChapterScenarios

CONSTANTS m1, m2

\* One file, reads that are truncated or not, six responses.
Compaction == INSTANCE ContextCompact WITH
    messages <- x1, sent <- x2, lastRead <- x3, calls <- x4, turns <- x5, pc <- x6,
    Path <- {m1}, TextSizes <- {1}, ResultSizes <- {1, 4},
    Stops <- {"end_turn", "tool_use", "max_tokens"},
    MaxCallsPerTurn <- 1, MaxTurns <- 6, TokenThreshold <- 12, HardLimit <- 18,
    MaxToolResult <- 2, KeepRecentTurns <- 6, KeepRecent <- 4

\* Three candidates of one owner that compete for a slot and for the budget.
Prompts == INSTANCE PromptAssembly WITH
    offered <- x1, recalled <- x2, scope <- x3, extras <- x4, workMode <- x5,
    systemPrompt <- x6, returned <- x7,
    Pool <- [scope : {m1}, authority : {1, 2}, score : {1, 2}, text : {m3, m4},
             slot : {None, m2}, size : {1, 2}],
    MaxCandidates <- 3, Scopes <- {m1}, MinScore <- 1, TopK <- 2, MemoryBudget <- 4,
    PromptBudget <- 6, Extras <- {}, RequiredSize <- [craft |-> 1]

\* Two owners, optional segments, modes whose required segments do not fit.
Owners == INSTANCE PromptAssembly WITH
    offered <- x1, recalled <- x2, scope <- x3, extras <- x4, workMode <- x5,
    systemPrompt <- x6, returned <- x7,
    Pool <- [scope : {m1, m2}, authority : {1}, score : {0, 1}, text : {m3},
             slot : {None, m4}, size : {1}],
    MaxCandidates <- 2, Scopes <- {m1, m2}, MinScore <- 1, TopK <- 2, MemoryBudget <- 4,
    PromptBudget <- 6,
    Extras <- {[name |-> "identity", value |-> 90, size |-> 2],
               [name |-> "connectors", value |-> 40, size |-> 1]},
    RequiredSize <- [craft |-> 1, plan |-> 3, ask |-> 7]

\* Two documents, one paragraph that moves, one that is unsafe.
Grounding == INSTANCE SourceGrounding WITH
    corpus <- x1, file <- x2, index <- x3, maxChars <- x4, sync <- x5, evidence <- x6,
    accepted <- x7, changes <- x8,
    Doc <- {1, 2}, Content <- {<<"x">>, <<"y", "x">>, <<"x", "bad">>}, Unsafe <- {"bad"},
    Query <- {<<"x", "y">>}, ChunkSize <- {1, 2}, TopK <- {1, 2}, Budget <- {2},
    MaxChanges <- 2, MaxGeneration <- 2, MaxSearches <- 2

\* Two turns of up to three calls on two threads.
Dispatch == INSTANCE ToolDispatch WITH
    messages <- x1, finished <- x2, running <- x3, begun <- x4, stop <- x5,
    Tool <- {"glob", "edit", "gone", "bad"}, MaxTurns <- 2, MaxWorkers <- 2, MaxCalls <- 3

\* Three tools, two of which a query cannot tell apart.
Deferral == INSTANCE DeferredTools WITH
    source <- x1, tools <- x2, loaded <- x3, shown <- x4, executed <- x5,
    Tool <- {[name |-> 1, words |-> <<"image", "gen">>, described |-> {"image"}],
             [name |-> 2, words |-> <<"image", "edit">>, described |-> {"image"}],
             [name |-> 3, words |-> <<"cron">>, described |-> {"edit"}]},
    Query <- {<<"image">>, <<"image", "edit">>}, TopK <- {1, 2}, MaxVersion <- 1

\* Responses of up to three memory IDs, two calls between resets.
Routing == INSTANCE ModelRouting WITH
    tracker <- x1, made <- x2, selection <- x3,
    Id <- {m1, m2}, Tokens <- {1, 2}, MaxLength <- 3, MaxCalls <- 2

-----------------------------------------------------------------------------
No3 == No5 /\ x5 = None /\ x4 = None
Keep3 == UNCHANGED <<x4, x5>> /\ Keep5

MCInit ==
    \/ Init
    \/ /\ scenario \in Scenarios
       /\ \/ scenario = "compaction" /\ Compaction!Init /\ No6
          \/ scenario = "prompts" /\ Prompts!Init /\ No7
          \/ scenario = "owners" /\ Owners!Init /\ No7
          \/ scenario = "grounding" /\ Grounding!Init /\ No8
          \/ scenario = "dispatch" /\ Dispatch!Init /\ No5
          \/ scenario = "deferral" /\ Deferral!Init /\ No5
          \/ scenario = "routing" /\ Routing!Init /\ No3

MCNext ==
    \/ Next
    \/ /\ \/ scenario = "compaction" /\ Compaction!Next /\ Keep6
          \/ scenario = "prompts" /\ Prompts!Next /\ Keep7
          \/ scenario = "owners" /\ Owners!Next /\ Keep7
          \/ scenario = "grounding" /\ Grounding!Next /\ Keep8
          \/ scenario = "dispatch" /\ Dispatch!Next /\ Keep5
          \/ scenario = "deferral" /\ Deferral!Next /\ Keep5
          \/ scenario = "routing" /\ Routing!Next /\ Keep3
       /\ UNCHANGED scenario

MCSpec == MCInit /\ [][MCNext]_Vars

-----------------------------------------------------------------------------
(* What models and users get *)

\* Whatever compaction layers ran, the provider gets every call with its result,
\* a view below the hard limit, and of every file it sees the newest read; the
\* prompt has memory of its own query only, the highest authority in every slot,
\* packed in rank order, and fits; the memories a lite model selects are
\* candidates, in its order, and every call is accounted to its tier
\* (compact_context, dedup_file_reads, prune_old_messages; select_memory_context,
\* plan_prompt; _allowlisted_ids, CostTracker).
SentViewsValid ==
    /\ scenario = "compaction" =>
         Compaction!SentProtocol /\ Compaction!SentBelowLimit /\ Compaction!NoStaleRead
    /\ scenario = "prompts" =>
         Prompts!QueryScoped /\ Prompts!SlotWinners /\ Prompts!MemoryPacked /\ Prompts!PromptFits
    /\ scenario = "owners" =>
         Owners!QueryScoped /\ Owners!SlotWinners /\ Owners!MemoryPacked /\ Owners!PromptFits
    /\ scenario = "routing" => Routing!TrackerAccounts /\ Routing!SelectionOfCandidates

\* Compaction never drops what the model answers next; no prompt lacks unfinished
\* work or claims evidence for another state's pointers; no search shows unsafe
\* text or lines a document does not have (compact_context, render_durable_context,
\* SourceIndex.search).
PromptShowsWhatCounts ==
    [][/\ scenario = "compaction" => Compaction!KeepsNewest
       /\ scenario = "durable" => Durable!ShowsUnfinished /\ Durable!ClaimsOwnEvidence
       /\ scenario = "grounding" => Grounding!ShowsSafeEvidence]_Vars

\* Failed and repeated syncs leave the published index, chunks are as long as the
\* index says, and an answer that verifies quotes its documents (SourceIndex.sync,
\* AnswerVerifier.verify).
GroundingSound ==
    scenario = "grounding" =>
        Grounding!LiveIsPublished /\ Grounding!CutAsRecorded /\ Grounding!AnswerQuotesSource

\* ... and at the lines the citation names ("引用行仍匹配索引").
CitedLinesHold == scenario = "grounding" => Grounding!CitedLinesHold

\* Every call is answered once and in order whatever order handlers end in,
\* changes run alone, a search depends on no registration order, and a session
\* has one schema of a tool (dispatch_many, search, register, run's results).
ToolResults ==
    /\ scenario = "dispatch" => Dispatch!CallsAnswered /\ Dispatch!ChangesRunAlone
    /\ scenario = "deferral" => Deferral!SearchByRank /\ Deferral!OneSchema
    /\ scenario = "agent" => Agent!AskedWithAnswers
=============================================================================
