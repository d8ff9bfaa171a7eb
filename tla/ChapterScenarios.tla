-------------------------- MODULE ChapterScenarios --------------------------
(***************************************************************************)
(* The chapters without a composition of their own, those that             *)
(* ChapterProofs is about.  A behaviour picks one scenario and stays in    *)
(* it.  The modules have no state in common; each puts its variables into  *)
(* as many of x1, ..., x12 as it needs, and the others are None.           *)
(***************************************************************************)
EXTENDS Naturals, Sequences, FiniteSets

CONSTANTS m3, m4, None, Broken, Cut, Split, Garbage,
          Scenarios     \* which of the scenarios below a run explores

\* The constants of the scenarios.
CONSTANTS Item, Digest, Cited, MaxLines, DurableTime, OlderThan, MaxRenderedDone,     \* Durable
          Client, Mode, MaxGeneration, MaxTurn, TurnCalls,                            \* Sessions
          Automation, OneTimeAutomation, Scheduler, Interval, SchedulerTime,          \* Automations
          MaxRuns, MaxTotalRuns, MaxCrashes,
          Proc, Tool, DatabaseTime, DatabaseCalls, ToolRuns,                          \* Database
          Conn, BufferSize, SidecarCalls, MaxChunk,                                   \* Sidecar
          SkillTitle, SkillPath,                                                      \* Skills
          LogType, LogCall, ReplayLimit, LogEvents, LogCrashes,                       \* Log
          GovernedTool, HandledTool, GovernedCalls,                                   \* Governed
          AgentTool, AgentAnswers, AgentSessions, AgentTurns, AgentCalls,             \* Agent
          Connector, ServerTool, GrantChanges,                                        \* Connectors
          Commands, CommandCrashes,                                                   \* Sandbox
          RecallProcess, RecallRuns, RecallEdits                                      \* Recall

VARIABLES scenario, x1, x2, x3, x4, x5, x6, x7, x8, x9, x10, x11, x12

Vars == <<scenario, x1, x2, x3, x4, x5, x6, x7, x8, x9, x10, x11, x12>>

\* Two items; a pointer names one of the two contents the artifact has.
Durable == INSTANCE DurableContext WITH
    lines <- x1, torn <- x2, artifact <- x3, pending <- x4, archive <- x5, now <- x6,
    resolved <- x7, prompt <- x8, verified <- x9, MaxTime <- DurableTime

\* Two processes over one remote store, three runs.
Recall == INSTANCE RecallHarness WITH
    pc <- x1, store <- x2, transcripts <- x3, reports <- x4, tampered <- x5,
    Process <- RecallProcess, Winner <- m3, Loser <- m4, Foreign <- Garbage,
    MaxRuns <- RecallRuns, MaxTampered <- RecallEdits

\* Two request threads of one session, a resume, two turns.
Sessions == INSTANCE SessionLifecycle WITH
    record <- x1, runtime <- x2, live <- x3, manager <- x4, turn <- x5, turns <- x6,
    committed <- x7, MaxCalls <- TurnCalls

\* Two automations, two processes, one of which may die.
Automations == INSTANCE AutomationScheduler WITH
    automations <- x1, scheduler <- x2, runs <- x3, now <- x4, crashes <- x5,
    Auto <- Automation, OneTime <- OneTimeAutomation, Process <- Scheduler, MaxTime <- SchedulerTime

\* One title that is proposed, shown, approved and used.
Skills == INSTANCE SkillGate WITH
    index <- x1, loaded <- x2, pending <- x3, agreed <- x4, executed <- x5,
    Title <- SkillTitle, Path <- SkillPath,
    Seed <- [title |-> "git-commit", content |-> "plain",
             permissions |-> [tools |-> {"bash"}, network |-> FALSE, read |-> SkillPath, write |-> {}]]

\* Three records, two deaths in an append.
Log == INSTANCE SessionLog WITH
    lines <- x1, tail <- x2, acked <- x3, candidate <- x4, crashes <- x5,
    Event <- [type : LogType, call : LogCall],
    MaxItems <- ReplayLimit, MaxEvents <- LogEvents, MaxCrashes <- LogCrashes

\* Two connections; a line arrives in pieces of at most two symbols.
Sidecar == INSTANCE SidecarServer WITH
    wire <- x1, received <- x2, handler <- x3, caller <- x4, messages <- x5, ring <- x6,
    logged <- x7, overlaps <- x8, MaxCalls <- SidecarCalls

\* Two requests for tools with and without a rule and a handler.
Governed == INSTANCE GovernedTools WITH
    pc <- x1, requests <- x2, permission <- x3, status <- x4, records <- x5, executed <- x6,
    Tool <- GovernedTool, Handled <- HandledTool, MaxRequests <- GovernedCalls

\* Two sessions after each other, a death between any two writes.
Agent == INSTANCE ComprehensiveAgent WITH
    pc <- x1, session <- x2, history <- x3, calls <- x4, results <- x5, executed <- x6,
    started <- x7, audited <- x8, denied <- x9, counted <- x10, transcribed <- x11, output <- x12,
    Tool <- AgentTool, Answers <- AgentAnswers,
    MaxSessions <- AgentSessions, MaxTurns <- AgentTurns, MaxCalls <- AgentCalls

\* Two connectors, two grants after each other.
Connectors == INSTANCE ConnectorGate WITH
    trusted <- x1, tools <- x2, grant <- x3, schemas <- x4, grants <- x5, shown <- x6,
    executed <- x7,
    Tool <- Connector \X ServerTool, MaxGrants <- GrantChanges

\* Two commands, two deaths between or in the writes.
Sandbox == INSTANCE SandboxAudit WITH
    pc <- x1, command <- x2, log <- x3, anchor <- x4, executed <- x5, crashes <- x6,
    tears <- x7, behind <- x8,
    MaxCommands <- Commands, MaxCrashes <- CommandCrashes

\* Two processes over one database, with a clock that may stand still.
Database == INSTANCE SessionDatabase WITH
    now <- x1, sessions <- x2, usage <- x3, saved <- x4, counts <- x5, proc <- x6, ran <- x7,
    MaxTime <- DatabaseTime, MaxCalls <- DatabaseCalls, MaxRuns <- ToolRuns

-----------------------------------------------------------------------------
\* Bounds and intervals are numbers, and a buffer holds something.
ASSUME BoundsAssumption ==
    /\ {DurableTime, SchedulerTime, DatabaseTime, MaxRuns, Interval, MaxChunk, AgentCalls,
        RecallRuns} \subseteq Nat
    /\ {MaxLines, MaxGeneration, BufferSize, AgentSessions} \subseteq Nat \ {0}
    /\ IsFiniteSet(Automation) /\ IsFiniteSet(Scheduler)
    /\ ReplayLimit \subseteq Nat

\* None stands for nothing that a variable holds.
ASSUME NoneAssumption ==
    LET Status == {"creating", "idle", "running", "closing", "closed", "error"} IN
    /\ None \notin Nat \cup Seq(Conn \X Nat) \cup {"active", "archived"}
    /\ None \notin [status : {"open", "blocked", "done"}, pointer : Durable!Pointer, at : Nat]
    /\ None \notin [status : Status, gen : 1..MaxGeneration, messages : Seq(Nat), mode : Mode]
    /\ None \notin [status : Status, messages : Seq(Nat), mode : Mode,
                    abort : BOOLEAN, locked : BOOLEAN]
    /\ None \notin [type : {"once", "recurring"}, at : Nat \cup {None},
                    status : {"ACTIVE", "PAUSED", "deleted"},
                    last : Nat \cup {None}, next : Nat \cup {None}]
    /\ None \notin Skills!Permissions
    /\ None \notin [title : SkillTitle, content : Skills!Content, permissions : Skills!Permissions]

\* Lines that are cut or cannot be read differ, and are no records and no numbers.
ASSUME LinesAssumption ==
    /\ Cut # Garbage /\ Split \notin {None, Cut, Garbage} /\ Cut \notin Nat
    /\ \A line \in {None, Cut, Split, Garbage} :
         /\ line \notin [sequence : Nat, event : [type : LogType, call : LogCall]]
         /\ line \notin [item : [n : Nat, what : {"sandbox_block", "command_execute", "command_result"}],
                         prev : Nat, ended : BOOLEAN]

\* The two facts have different IDs, and no evidence is None.
ASSUME FactsAssumption ==
    /\ m3 # m4
    /\ \A evidence \in SUBSET [id : {m3, m4}, source : {"source"} \X {m3, m4, Garbage}] : evidence # None

No12 == x12 = None
No9 == No12 /\ x11 = None /\ x10 = None
No8 == No9 /\ x9 = None
No7 == No8 /\ x8 = None
No6 == No7 /\ x7 = None
No5 == No6 /\ x6 = None

Init ==
    /\ scenario \in Scenarios
    /\ \/ scenario = "durable" /\ Durable!Init /\ No9
       \/ scenario = "recall" /\ Recall!Init /\ No5
       \/ scenario = "sessions" /\ Sessions!Init /\ No7
       \/ scenario = "automations" /\ Automations!Init /\ No5
       \/ scenario = "skills" /\ Skills!Init /\ No5
       \/ scenario = "log" /\ Log!Init /\ No5
       \/ scenario = "sidecar" /\ Sidecar!Init /\ No8
       \/ scenario = "governed" /\ Governed!Init /\ No6
       \/ scenario = "agent" /\ Agent!Init
       \/ scenario = "connectors" /\ Connectors!Init /\ No7
       \/ scenario = "sandbox" /\ Sandbox!Init /\ No8
       \/ scenario = "database" /\ Database!Init /\ No7

Keep9 == UNCHANGED <<x10, x11, x12>>
Keep8 == UNCHANGED x9 /\ Keep9
Keep7 == UNCHANGED x8 /\ Keep8
Keep6 == UNCHANGED x7 /\ Keep7
Keep5 == UNCHANGED x6 /\ Keep6

Next ==
    /\ \/ scenario = "durable" /\ Durable!Next /\ Keep9
       \/ scenario = "recall" /\ Recall!Next /\ Keep5
       \/ scenario = "sessions" /\ Sessions!Next /\ Keep7
       \/ scenario = "automations" /\ Automations!Next /\ Keep5
       \/ scenario = "skills" /\ Skills!Next /\ Keep5
       \/ scenario = "log" /\ Log!Next /\ Keep5
       \/ scenario = "sidecar" /\ Sidecar!Next /\ Keep8
       \/ scenario = "governed" /\ Governed!Next /\ Keep6
       \/ scenario = "agent" /\ Agent!Next
       \/ scenario = "connectors" /\ Connectors!Next /\ Keep7
       \/ scenario = "sandbox" /\ Sandbox!Next /\ Keep8
       \/ scenario = "database" /\ Database!Next /\ Keep7
    /\ UNCHANGED scenario

Spec == Init /\ [][Next]_Vars

-----------------------------------------------------------------------------
(* What must hold *)

\* A pointer never resolves to two contents, whatever happens to transcript and
\* artifact, and an item leaves the state only as done, once, into the archive
\* (resolve_durable_sources, archive_done_pending_items).
EvidenceKept == scenario = "durable" => Durable!EvidenceImmutable /\ Durable!ItemsAccounted

\* Racing and repeated runs converge on one fact each, and a report that passes
\* was made of the recall in its transcript (run_rag_memory_harness).
RecallProof == scenario = "recall" => Recall!RetriesConverge /\ Recall!ProofRecalled

\* A session has one runtime, keeps what was committed, stops when it is aborted
\* and gives its lock back; the database counts what ran and covers usage by
\* messages (SessionManager, run_agent_loop; WorkBuddyDB).
SessionSound ==
    /\ scenario = "sessions" =>
         Sessions!OneRuntime /\ Sessions!CommittedKept /\ Sessions!AbortStops /\ Sessions!LockFreed
    /\ scenario = "database" => Database!CountsRuns /\ Database!UsageCovers

\* What is done stays done, and a closed session stays closed until it is resumed
\* (transition_pending_item; SessionProcess.close against late answers).
SettledStays ==
    [][/\ scenario = "durable" => Durable!KeepsHistory
       /\ scenario = "sessions" => Sessions!KeepsClosed]_Vars

\* A one-time automation runs once in a process, an active one has a next run, which is
\* an interval after the last, and the history has what every run came to, whatever the
\* processes do beside each other and died in (AutomationManager, Scheduler).
SchedulerSound ==
    scenario = "automations" =>
        /\ Automations!OnceRunsOnce /\ Automations!ActiveGoesOn
        /\ Automations!Spaced /\ Automations!HistoryComplete

\* An acknowledged record is kept by every torn append, and replayed unless that cut a
\* character; state is rebuilt from the whole log, a memory candidate names its
\* evidence; and the audit verifier tells a lost line from a death between line and
\* anchor (JSONLTranscript; verify_chain).
LogSound ==
    /\ scenario = "log" => Log!AckedReplayed /\ Log!RebuiltWhole /\ Log!CandidateNamesEvidence
    /\ scenario = "sandbox" => Sandbox!VerifyTells

\* A client gets the answer of its own call however lines are cut, an answered turn
\* stays unless another ran beside it, and the ring holds the newest bytes (SidecarServer).
SidecarSound ==
    scenario = "sidecar" => Sidecar!AnswersOwnCall /\ Sidecar!TurnsKept /\ Sidecar!RingKeepsLatest

\* What runs was allowed and is on record: by the policy and the user, by the
\* skill's agreed manifest, by the connector's current grant, by the sandbox,
\* and the audit knows of it before (execute_tool, run, approve_skill,
\* call_tool, run_with_sandbox).
OnlyPermittedRuns ==
    /\ scenario = "governed" => Governed!ExecutedPermitted /\ Governed!TrailComplete
    /\ scenario = "skills" =>
         /\ Skills!IndexAsAgreed /\ Skills!PromptOnce
         /\ Skills!NetworkAgreed /\ Skills!UpdatesNarrow
    /\ scenario = "connectors" => Connectors!CallsGranted
    /\ scenario = "sandbox" => Sandbox!AttemptsAudited
    /\ scenario = "agent" => Agent!StoresAgree /\ Agent!PermittedOnly
=============================================================================
