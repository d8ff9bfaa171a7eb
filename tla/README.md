# A TLA+ model of learn-workbuddy

This directory specifies the stateful parts of the repository in TLA+, checks
them with TLC on small instances, and proves the most important results with
TLAPS for every instance. `PROJECT.json` is the index: which definition models
which lines, which run checks which property, and which bug in the code each
property would notice. Line numbers refer to the Python sources.

## 1. The system

The repository is a teaching harness for an agent runtime: one small runtime
(`mini_workbuddy/`), and 24 chapters (`s01_*` ... `s24_*`), each a stand-alone
program for one subsystem. `examples/` and `scripts/` drive them, and hold four
small systems of their own. "Status" says how much of a component is modelled.

### 1.1 The runtime, `mini_workbuddy/`

| Component | State | Operations | Hard behaviour | What makes it correct | Status |
|---|---|---|---|---|---|
| Audit log, `audit.py` | `audit.jsonl`, `audit.head`, a thread lock per process and path, a file lock | `append`, `verify`, `read_entries`, `recover_interrupted_append` | several processes on one log; a crash, failed call or power loss between write, fsync, replace and directory fsync | the chain only grows; the anchor names its tip or the line before; what `append` returned stays; no false alarm; a start repairs an interrupted append | modelled, proved in part |
| Transcript, `storage.py` | one JSONL file and one lock per session | `append_event`, `read_transcript` | torn tail, failed call after bytes were written, power loss, two handlers of one session | sequences are positions; what was returned is durable; never unreadable | modelled, proved |
| Agent, `agent.py`, and `server.py` | handler threads in a prompt | `prompt`: user message, plan, tool call, run, result, answer; each recorded, audited, published | two prompts for one session; an exception at every step; the death of the process | evidence before effects; one outcome per call; a completed tool never recorded as failed | modelled |
| Event bus, `events.py` | list of subscriber queues | `subscribe`, `publish`, end of the generator | `publish` works on a copy | who stays gets each event once | modelled |
| Tools, `tools.py` | a counter of call identities | `make_call`, `run` | output too large for the event goes to a file first | identities are never reused in a session | in part: identities and outcomes |
| Sidecars, `sidecar.py` | dictionary of child processes | create, kill, list | an id used twice | - | not modelled; `s06` is the full version |
| Providers, configuration | - | the rule-based plan, HTTP request | - | - | not modelled: no state |

`server.py` starts one thread per request; all threads share one `HarnessRuntime`
object: one store, one audit log, one bus, one tool registry. An event is
appended to the transcript, then audited and published with the sequence it got:
messages in this order, tool calls and their results published first.
Only the audit log is shared between processes (the server and its sidecars).

### 1.2 The chapters and the examples with state

| Component | State | Hard behaviour | What makes it correct | Module |
|---|---|---|---|---|
| s13 output externalization | artifacts, retention lease journal, journal lock; references held by a Memory owner | publishing, reconciliation, removal and cleanup by several processes; late publications; crashes | no reference without its artifact; histories stay readable; every call returns | `ArtifactRetention` |
| s10 workspace memory | daily logs, curated memory, conflict cases, a resolution journal with phases and snapshots | a resolution cut off between any two files; facts that arrive while a conflict is decided | a decision takes effect once, in all files, on all the evidence | `WorkspaceMemory`, `Adjudication` |
| s12 remote memory | JSONL of memories and retractions, a file lock | racing, killed, short and lost writes; retries | what was acknowledged stays, forgotten stays forgotten, recall does not depend on storage order | `RemoteMemory` |
| s11 user memory | profile, preferences with tombstones, two readable views, setup files | replayed evidence; a crash between two files | forgotten stays forgotten; a prompt shows what the files say | `UserMemory` |
| reflection memory (example) | trajectories, evaluations, numbered versions, a manifest | a promotion cut off and tried again | versions never change; what is active can be read | `ReflectionMemory` |
| self-evolving skills (example) | releases, a pointer, an audit trail | a pointer written whose audit fails or whose process dies first; edited releases | the active release is the audited one, but for these, and has the approved text | `SkillEvolution` |
| s14 context compaction | message list, pending items, archive | layers applied in a row; a layer that does not shrink; sources that change | a result follows its call; nothing at the hard limit is sent; unfinished work is shown | `ContextCompact`, `DurableContext` |
| s15 prompt assembly | recalled candidates, scope, mode, segments, the prompt | recall of one query used for the next; conflicts, budgets | memory is of this query, the winners only, and fits | `PromptAssembly` |
| s08 model routing | token and cost tables | a selector that answers anything | selected IDs are candidates; costs add up | `ModelRouting` |
| source-grounded RAG, answer grounding (examples) | the corpus, the index file, the index in memory, evidence | edits at any time; syncs that fail | what is shown and quoted is in the documents | `SourceGrounding` |
| s24 recall harness | remote store, transcripts, manifests | two runs, deaths, edited transcripts | one fact each; a passing report proves its recall | `RecallHarness` |
| s07 session management | session records, runtime generations, turns | abort, close and late provider answers | one runtime; committed turns stay; closed stays closed | `SessionLifecycle` |
| s21 SQLite | sessions, usage, messages, tool counts | a count read and written apart | counts are runs; usage covers messages | `SessionDatabase` |
| s22 scheduler | automations, runs, next run times | processes over one database that select the same rows; a crash between run and bookkeeping; pause, resume and delete during a run | once runs once in each process; active goes on; no run overwrites another | `AutomationScheduler` |
| s09 JSONL transcript | transcript file | tails that are torn, cut inside a character, or lack their newline | acknowledged records are replayed | `SessionLog` |
| s06 sidecar server | sessions, ring buffer, sockets | pieces of lines; concurrent sends; wrap-around | answers reach their caller; the ring is the last window | `SidecarServer` |
| s16 skills | index, pending drafts, loaded skills | approval of a stale draft; permissions that grow | the index holds what was agreed | `SkillGate` |
| s04 permissions and hooks | audit trail, requests | rules in order; hooks that raise | only what was permitted ran; the trail is complete | `GovernedTools` |
| s02 tool dispatch | messages, pool | handlers that end in any order | one result per call, in order; changes run alone | `ToolDispatch` |
| s03 deferred tools | registry, loaded schemas | registration again after a search | one schema of a tool per session | `DeferredTools` |
| s17 MCP connectors | trust, tools, grant, schemas | a grant replaced between search and call | calls are under the present grant | `ConnectorGate` |
| s23 audit and sandbox | the day's chain, its head | death between line and head | attempts are audited; verification tells | `SandboxAudit` |
| s24 capstone agent | history, database, audit log, transcript | death between any two of the stores | the stores agree; nothing unaudited ran | `ComprehensiveAgent` |
| s01 loop, s05 Electron shell, s18 experts, s19 visualizer, s20 presentation | none worth a model: one sequential loop, a simulation by direct calls, prompt text and file rendering | - | - | left out |
| Evaluations, walkthroughs, scripts, spreadsheet skill | none: they drive the chapters over fixtures and print scores | - | - | left out |

The chapters do not call each other, `s24` and some examples apart, so each is
checked in a scenario of its own; only the runtime's parts are composed.

## 2. Modules and how they map to the code

```
AuditChain   (promise)  <-- implements --  AuditLog    <- AuditLogProofs
EventLog     (promise)  <-- implements --  Transcript  <- TranscriptProofs
        \_________ one step each in ________  HarnessRuntime (agent, bus, tools)
Adjudication (promise)  <-- implements --  WorkspaceMemory
SessionLifecycle                           <- SessionLifecycleProofs
ArtifactRetention                          <- ArtifactRetentionProofs
MCAuditLog <- MCAuditScenarios             <- AuditScenarioProofs
      three scenarios of AuditLog          (and AuditLogProofs)
MCHarnessRuntime <- MCHarnessScenarios     <- HarnessRuntimeProofs
      two of HarnessRuntime, one of Transcript   (and TranscriptProofs)
MCMemory                                   <- MemoryProofs
      seven scenarios of the five memory modules
ChapterScenarios <- MCChapters             <- ChapterProofs
      twelve, and seven more, of the eighteen    (and SessionLifecycleProofs)
      chapter modules
MCArtifactRetention                        one instance
```

A step is what another thread, process or crash can separate: one lock
acquisition, one system call, one commit, or one stretch of code between two of
them. All that such a stretch changes is one action. Definitions under a comment
`Faulty variant:` are not part of any specification: each is a plausible bug in
a definition that follows it, used to confirm that a property notices it.

A scenario is a choice of `Init`: a behaviour stays in the scenario it begins
in, and the variables of the others are `None`. It lets one run of TLC ask one
kind of question of several small instances. A module of scenarios that a proof
is about declares the constants of those scenarios, so that what is proved holds
for any values of them and the cfg picks the ones TLC explores; it states what the
proofs assume of them (`ScenarioAssumption`, `BoundsAssumption`, `NoneAssumption`,
`LinesAssumption`, `FactsAssumption` and so on), which TLC evaluates.

### 2.1 `AuditLog`, `AuditChain`

| Model | Code |
|---|---|
| `log`: lines, each complete, partial (no newline, does not parse), unterminated (parses, no newline) or garbled (a torn line that was continued); `synced` of them are on disk | `audit.jsonl` |
| `head`, `headSynced` | `audit.head` as seen and as on disk; `None` is no file |
| `tlock[p]`, `flock` | `_PROCESS_LOCKS[path]` of process `p`; `flock` on `audit.lock` |
| `Call`, `StartProcess`, `StopProcess` | `append`/`verify`; a server start, which recovers first (`server.py:25`); shutdown |
| `AcquireThreadLock`, `AcquireFileLock`, `Return` | `_file_lock` (`Return` releases both, also when raising) |
| `ReadForAppend`, `ReadForVerify`, `ReadForRecover` | reading, validating, and deciding what to do |
| `WriteEntry`, `FsyncEntry`, `ReplaceHead`, `FsyncDirectory` | `_append_entry_unlocked`, `_write_head_unlocked` |
| `RaiseOSError`, `TearWrite`, `KillProcess`, `PowerLoss` | a failing system call, a short write, SIGKILL (the kernel drops its flock), power loss (any prefix of the unsynced lines survives, the last one maybe torn; the old or new anchor) |

A hash is the sequence of the payloads it covers, so it has no collisions; an
entry's own hash follows from its other fields and is not stored. `AuditChain`
promises, short of a power loss, a sequence of payloads that only grows, and only
while its published length is its whole length (or nothing is published yet);
publishing covers the whole of it, and a position is acknowledged when it is
the published length.

### 2.2 `Transcript`, `EventLog`

`file` holds the lines, `linked` whether the file's directory entry is durable,
`lock` is `_transcript_lock(path)`. `Call`, `AcquireLock`, `ReadTranscript`
(parsing, dropping the unterminated tail from what is returned, sequence check),
`TruncatePartialTail`, `OpenTranscript`, `WriteEvent`, `FsyncEvent`,
`FsyncDirectory` and `Return` are the steps of `append_event` and
`read_transcript`. Older lines without an envelope are allowed, as in the code.
`EventLog` promises a list that grows by one event at a time, of which only what
was not yet returned can be lost.

### 2.3 `HarnessRuntime`

`pc[t]` is the kind of event a handler thread is producing and the step it is
at: `append`, `audit`, `publish`, `put`, `run`. `AppendEvent` hands out the next
sequence and makes the event durable in one step, which is what `EventLogSpec`
and `ChainSpec` justify. `EventDone` is the control of `MiniAgent.prompt`: what
follows after each event. `Run` has the outcomes of `ToolRegistry.run`:

| Outcome | Meaning |
|---|---|
| `ok` | ran, and its output is returned |
| `denied`, `timeout` | an exception `prompt` catches; the tool did not finish |
| `output_lost` | ran, but its large output could not be written: an `OSError` that `prompt` catches |
| `unexpected` | an exception `prompt` does not catch |

`RecordingFails` is a raising append to transcript or audit log; `Crash` ends
all threads and keeps only the durable records. `publish` copies the list of
subscribers under its lock and then serves the copy one `put` at a time. Queues
and the audit log are bags, since the order between handlers is promised by nothing.

### 2.4 `ArtifactRetention`

`journal[t]` is the lease events of transaction `t` in the order they were written,
as `_fold_events` groups them; `Phase(t)` and `ClaimOf(t)` are what it makes of them. A call that holds the journal lock
without calling out is one step (`Prepare`, `Commit`, `Abort`, `Lookup`,
`Decide`, `RecordAborted`, `Recover`, `Scan`, `ApplyCleanup`); the calls that go
out to the Memory owner (`CallPublisher`, `CallRemover`, `EnterFence`,
`LeaveFence`) are steps of their own. `Unlink` deletes only a file whose digest
is the one in the plan. The code contains no Memory owner; `published`,
`sealed`, `fence` and `inflight` model what its Protocols (`code.py:675-698`)
and the owner of `tests/test_output_externalization.py:40-130` promise, and are
marked external. `Land` is a publication that was cut off and arrives later, and
`Expire` is the passing of `retain_until`. Ages, deletion limits and dry
runs are a free choice of which files a cleanup takes.

### 2.5 The memories

| Module | State and code | Steps |
|---|---|---|
| `WorkspaceMemory` | `daily` (the logs, by day), `curated`, `cases`, `decisions`, `view` (MEMORY.md), `journal` (the phases of each resolution); `work` and `pc`, where the process is | `AppendFact`, `ConfirmFact`, `Distill` with `SaveCurated`, `RenderMemory`, `SaveConflicts` as writes of their own; `Resolve` reads and checks, `Prepare` writes the first phase, and facts of other processes may come between them; then the durable steps `ApplyCurated`, `ProjectMemory`, `CloseConflict`, `AppendDecision`, each with its `MarkPhase`; a file the loaders would refuse (`ConflictsReadable`, `DecisionsReadable`) stops the step that reads or writes it; `Start` recovers; `Crash`, `TearFact` |
| `Adjudication` | the promise: one step decides a case, its revision and its record | `Decide`, `Review`, distillation |
| `RemoteMemory` | `store`, `torn`, `synced`, `holder` (the file lock), `job`; `acked` and `retried`, what callers were told, and `unowned`, whether lines of a dead writer are not on disk, or were lost | `AppendMemory`, `Retract`, `Lock`, `CheckDuplicate`, `WriteLine`, `SyncAndAck`, `Done`; `ShortWrite`, `Kill`, `PowerLoss`; `Recall` and `LatestProfile` are operators on every store reached |
| `UserMemory` | `disk`: six files; `todo`: writes an operation still has to make | `SetPreference`, `DeletePreference`, `UpdateProfile`, `GetContext`, `Complete`, `Reset`, each computing its writes, then `WriteFile` one by one; `Crash` |
| `ReflectionMemory` | `traces`, `candidates`, `evaluations`, `records`, `manifest` | `WriteTrajectory`, `Distill`, `Evaluate`, `Promote`, `Resolve`, `WriteFile`; `Crash` |
| `SkillEvolution` | `releases`, `active`, `history`, `audit` | `Evaluate`, `Promote`, `PublishManifest`, `SetActiveVersion` up to the pointer, then `AppendAudit`, `AuditFails` (with a truncation that may fail too), `PromotionAuditFails` or `Die`; `Tamper`. `unaudited` is the pointer that was left without its event |

### 2.6 Prompts and evidence

`ContextCompact` is the agent loop of s14: `Ask`, `Compact`, `Respond`,
`RunTools`; `CompactContext` applies the layers to the list as the code does,
and a message is a sequence of blocks with sizes. `DurableContext` has the pending
items, their archive, a transcript and an artifact that change, and
`ResolvePointer` with its refusals. `PromptAssembly` has the module's globals and
`SelectMemoryContext` and `Pack` as operators. `ModelRouting` reads a lite model's
response as the IDs in it. `SourceGrounding` holds the corpus, the
index file, the index and the evidence of the last searches; `Discover`,
`ReadDocument`, `Publish`, `Adopt` are the points at which a sync can `Fail`.
`RecallHarness` follows `run_rag_memory_harness` write by write.

### 2.7 Sessions, logs and automations

`SessionLifecycle` is one logical session: `manager` is where the single
manager thread is, `turn[t]` where an HTTP thread is in `run_agent_loop`,
`runtime[g]` each `SessionProcess`. Every read of the status, every transition
and every clearing of the flag is a step. `SessionDatabase` splits
`record_tool_call` into its read and its write. `AutomationScheduler` has one
step per commit; `scheduler[p]` is where each process is in `check_and_run`, with the
rows it selected before. `SessionLog` is a file of whole lines, one tail (nothing, a
cut record, one cut inside a character, or a record without its newline) and deaths
in an append; `SidecarServer` has the sockets as sequences of symbols read in pieces.

### 2.8 Tools

`GovernedTools`, `SkillGate`, `ConnectorGate`, `SandboxAudit` and
`ComprehensiveAgent` are five loops around a tool call, each with what decides
and what records; they keep a history variable of what ran (`executed`) to hold
against it. `ToolDispatch` has the pool's threads, `DeferredTools` the registry
and what the model has been shown.

## 3. Runs

Every specification bounds the number of calls and faults, so a behaviour ends in
a state without successors: `CHECK_DEADLOCK FALSE`. That calls do not wait for
each other for ever is checked as liveness instead.

| Run | States | Shows |
|---|---|---|
| `audit` | 1,300,000 | 2 processes with 3 threads and kills (`processes`); failing calls, short writes and kills on a log without anchor (`crash`); power loss (`power`): `TypeOK`, `CorruptOnlyWhenCorrupt`, `AnchorLags`, `AckedDurable`, `AppendLeavesValidLog`, `ProcessesReturn`, and `CrashChainSpec`: the log implements `AuditChain` |
| `harness` | 760,000 | prompts of 2 threads in 1 or 2 sessions with every outcome (`prompts`), subscribers that come and go (`delivery`), the system calls of an append (`transcript`): `EvidenceBeforeEffect`, `TruthfulOutcomes`, `EvidenceComplete`, `DeliveredOnce`, `TranscriptKept`, `CallsResolve`, `TranscriptCallsReturn`, and `TranscriptImplementsLog`: the transcript implements `EventLog` |
| `artifact_retention` | 280,000 | 2 workers, 2 transactions, 1 name used for up to 2 artifacts, 4 calls, 1 fault: `ReferenceHasArtifact`, `LeaseCoversReference`, `JournalAccepted`, `EveryCallReturns` |
| `memory` | 700,000 | the five memories: `WorkspaceSound`, `RemoteMemorySound`, `RecallSound`, `UserMemorySound`, `ReleasesSound`, `DecisionsStand`, `PromptsCurrent`, `PreparedCommits`, and `AdjudicationSpec`: workspace memory implements `Adjudication` |
| `chapters` | 2,550,000 | the other chapters: `SentViewsValid`, `EvidenceKept`, `PromptShowsWhatCounts`, `RecallProof`, `GroundingSound`, `SessionSound`, `SettledStays`, `SchedulerSound`, `LogSound`, `SidecarSound`, `OnlyPermittedRuns`, `ToolResults` |
| `audit_torn_line` | - | **violated**: `AppendLeavesValidLog` (section 6) |
| `audit_recovered_anchor` | - | **violated**: `PersistBeforePublish` |
| `transcript_new_file` | - | **violated**: `ReturnedDurable` |
| `harness_lost_output` | - | **violated**: `NoInventedError` |
| `artifact_raw_cleanup` | - | **violated**: `ReferenceHasArtifact` |
| `torn_fact` | - | **violated**: `FactsReadable` |
| `stale_citation` | - | **violated**: `CitedLinesHold` |

A property of a run over scenarios is the conjunction of the named properties of
the modules in it, which carry their own comments: `SessionSound`, say, is
`OneRuntime`, `CommittedKept`, `AbortStops` and `LockFreed` of `SessionLifecycle`
together with `CountsRuns` and `UsageCovers` of `SessionDatabase`.

Why these bounds are enough for the questions asked:

- *Audit log.* Three threads give the two races there are: two threads of one
  process on the thread lock, two processes on the file lock. A fault, the
  recovery from it, a fault in that recovery, and another append need two faults
  and five calls. Two payloads are the fewest that tell apart what a line says.
- *Transcript.* A torn tail, its truncation cut off, and an append after both is
  the longest chain of consequences; no run has more than one process, since
  `docs/security-boundaries.md:34` excludes two owners of a session.
  A missing file gets one fault only, because with two the run
  `transcript_new_file` shows the property fails.
- *Harness.* Two prompts in the same or different sessions interleave at every
  step. `output_lost` is left out of `prompts` because the run
  `harness_lost_output` shows the property fails with it.
- *Retention.* One name with two generations is what reuse needs; two
  transactions on it give a lease that is kept and one that ends; every pair of
  the four operations runs concurrently, and a third and fourth call meet what
  one fault left behind. Cleanup without the journal runs alone here
  (`RawConcurrent = FALSE`), as `artifact_raw_cleanup` shows what happens otherwise.
- *Workspace memory.* Four facts of two values over three days make a promotion,
  a conflict, a decision, and evidence that arrives after it or while it is made; two faults let a
  recovery die too. Facts without a domain cannot conflict, and need a crash only.
- *Remote memory.* Three records are a memory, its retraction and a retry, or two
  racing writers and a reader; two faults are a killed writer and a power loss after
  a retry was answered; recall is compared on every store of three records.
- *User memory, reflections, releases.* One preference with two revisions covers
  set, forget, replay and recreate; two versions a replacement; three candidates
  a rollback past a failed promotion.
- *Compaction.* Six responses with one file and two result sizes reach every
  layer, two compactions after each other, and a view no layer can shrink.
- *Durable context.* Two items and three instants give done, archived and late; the
  artifact has two contents, one of them cited.
- *Prompts.* Three candidates are two rivals and a bystander, two owners a leak.
- *Grounding.* Two documents, two edits and two syncs: a paragraph moves, a document
  is deleted, an index is older than both.
- *Automations.* Two processes that select together, a one-time and a recurring
  automation, and one death; three runs are one per process and one for the death.
- *Sessions.* Two generations and two threads: a late turn of a closed runtime
  beside a turn of its successor.
- *The rest.* Two of everything that can race (processes, connections, turns,
  grants, commands), three records or calls where order matters, and one or two deaths.

No symmetry is used: liveness or refinement is checked in most runs, and the
scenarios give model values different parts.

## 4. Fairness

Weak fairness is on the next step of a call of each thread or worker
(`Step` in `AuditLog`, `HarnessRuntime`, `Transcript`, `ArtifactRetention`): the
operating system keeps scheduling runnable threads. `Step(t)` is disabled while
the lock it wants is taken. With a finite number of calls every waiting thread
finally gets its turn, so no fairness of the locks is assumed, which neither
`threading.Lock` nor `flock` has. `PreparedCommits` needs that who died is
started again (`Start`) and goes on (`CompleteResolution`): a resolution whose
process never returns is not completed by anybody. There is none on the start of a
call or process otherwise, on faults, on a late publication (`Land`), on the end
of a lease (`Expire`), or on subscribers: the code forces none of these to
happen. The chapters are checked for safety only; their loops end
when a user stops asking.

## 5. Proofs

Eight modules hold proofs, each for any values of the constants that satisfy the
assumptions of the module it is about and the hypothesis named here. Four are
about a component (`AuditLogProofs`, `TranscriptProofs`, `SessionLifecycleProofs`,
`ArtifactRetentionProofs`), four about the scenarios TLC runs, and state the
properties of the runs themselves. Of the 40 properties of the passing runs 30 are
proved in this sense; section 5.9 says what is not and why.

No safety property here is inductive: whether a step keeps it depends on what the
thread that takes it has read before. The invariant adds to it the types, who holds
which lock, and what each thread knows at each point of its call. A lock then gives
the frame: what one thread knows is not disturbed by the steps of the others.
Where no lock spans the steps (the harness, the session database, the user files)
the invariant says instead what the thread or the pending writes still owe. The
step lemmas have one step per action, and under it one per conjunct.

### 5.1 `AuditLogProofs`

| Theorem | Says | Hypothesis |
|---|---|---|
| `TypeCorrect` | `Spec => []TypeOK` | - |
| `OneWriter` | at most one thread of all processes is between reading the log and having published its anchor | - |
| `AcknowledgedStay` | `Spec => []AckedDurable`: what `append()` returned is whole, in place and on disk | `PartialTears` |
| `AppendsVerify` | when `append()` returns, the log and its anchor verify | `PartialTears` |
| `NobodyAlarmed` | `Spec => []NoFalseAlarm`: as long as nothing failed nobody is told the log is corrupt | `PartialTears` |
| `OneLineBehind` | `Spec => []AnchorLag`: the anchor names the tip or the line before it | and no power loss |
| `ChainImplemented` | `Spec => ChainSpec`: the log implements `AuditChain` | and `NoneIsNoAnchor` |

**Assumptions.** `ThreadAssumption`, `LogAssumption`, `FaultAssumption` and
`BoundAssumption` of `AuditLog`: each thread has a process; a legacy log is a
sequence of payloads; faults are among the modelled ones; bounds are naturals.
`FaultAssumption` excludes power loss together with unterminated tears, as a
power loss that drops just the newline is what `audit_torn_line` already stands
for. `PartialTears`: an interrupted write does not leave a whole entry without its
newline. It cannot be dropped: `audit_torn_line` violates `AppendsVerify` without
it. `NoneIsNoAnchor` says that `None` is not an anchor. After a power loss the
log may be shorter than the anchor says, which `audit_recovered_anchor` shows.

**Argument.** The invariant is the conjunction of

- `TypeInv`, the types, with the shape of each line and of the bounds;
- `LockInv`: whoever is past the thread lock holds it, and whoever is in the
  critical section holds the file lock. From it, `MutualExclusion`;
- `FileInv`: every line is whole or partial (`Whole`); what each thread knows at
  each point of its call (`Knows(t)`: before the write, that log and anchor
  verify and that its entry links to the tip; after it, that the log ends in its
  entry; after the fsync, how much is durable; before returning, that the
  anchor is its own); and `AckedDurable`.

`NobodyAlarmed` adds that, while no fault has happened, log and anchor verify unless a
thread is between write and replace (`FaultFree`), and `OneLineBehind` that the anchor lags in the middle of an append or after
one that died only. `ChainImplemented` takes each step in turn: a whole line
extends the chain, an anchor publishes it, a return acknowledges it, and half a line,
a failed call or a lock is a stutter.

### 5.2 `TranscriptProofs`

| Theorem | Says |
|---|---|
| `ReturnedStays` | `Spec => []ReturnedDurable`: an event `append_event()` returned stays at its sequence, whole and durable |
| `AlwaysReadable` | `Spec => []NeverCorrupt`: no later call refuses the transcript |
| `EventsImplemented` | `Spec => EventLogSpec`: the transcript implements `EventLog` |

The hypothesis `Constants` gives the constants their types and says that, if
there is power loss, the file is there from the start or at most one fault happens
while it may be missing. The last part cannot be dropped: `transcript_new_file` is
the counterexample with two. `LinkInv` says that a loss of power finds a linked
file, or one that whoever created it has not returned from. The invariant `Inv` says
that the file is good (only its last line may be cut, a whole line carries its own
position) and what the thread in the lock knows: that it has to drop a cut
tail, that there is none and its sequence is the next one, that the file ends in
its event, that this is durable. `EventsImplemented` rests on
`IdsWritten` (a whole line is one more event, half a line is none) and `IdsSurvive`
(a power loss leaves a prefix of the events that holds all that were returned).

### 5.3 `SessionLifecycleProofs`

| Theorem | Says |
|---|---|
| `OneRuntimeServes` | `Spec => []OneRuntime`: one runtime accepts input, and the store holds what it holds |
| `CommittedTurnsStay` | `Spec => []CommittedKept`: no committed turn is lost, doubled or reordered |
| `TurnsStopAndRelease` | `Spec => [](AbortStops /\ LockFreed)` |
| `ClosedStays` | `Spec => ClosedFinal`: only resume and forget change a closed session |

The hypothesis `Constants` says that there is a first generation and that `None` is
no value. The invariant `IInv` says that a runtime that is not settled is the one
registered, starting or closing (`ManagerInv`), that the store holds all of it
(`ServingStored`) and what is left of one that is gone (`StoreInv`), that the
turn lock keeps the threads of a runtime apart (`LockInv`), that only the last
provider call of a turn can be late (`StopInv`), and that a turn that can still be
committed is later than all that were (`CommitInv`). A late turn of a closed runtime
finds its status settled and changes nothing.

### 5.4 `ArtifactRetentionProofs`

| Theorem | Says |
|---|---|
| `ReferencesLeased` | `Spec => []LeaseCoversReference` |
| `EvidenceStays` | `Spec => []ReferenceHasArtifact` |
| `JournalStaysLegal` | `Spec => []JournalAccepted` |

The hypothesis is `~ RawConcurrent`: a cleanup that found no journal does not run
beside the publishers. `artifact_raw_cleanup` shows it cannot be dropped. The
invariant `Inv` says of each worker what the journal lock (`Locked`) and the
fence of a transaction (`Fenced`) let it rely on, of each transaction that at most
one publication of it is on its way (`PublishInv`, `Undelivered`), of each active
lease that its artifact is there and is the one it names (`ArtifactInv`), and
of a cleanup without journal that it runs alone (`RawInv`). The proof is by
rely and guarantee: `Guarantee(w)` is what a step of worker `w` may do to what the
others hold, each action is shown to keep it (`WorkerStep`), and what the others rely on
follows from it once for all actions.

### 5.5 `AuditScenarioProofs`

| Theorem | States |
|---|---|
| `OnlyCorruptionRefused` | `CorruptOnlyWhenCorrupt` |
| `AnchorLagsInScenarios` | `AnchorLags` |
| `AckedDurableInScenarios` | `TypeOK` and `AckedDurable` |
| `AppendsVerifyInScenarios` | `AppendLeavesValidLog` |
| `CrashesKeepTheChain` | `CrashChainSpec`, the refinement of `AuditChain` |

Each scenario is an instance of `AuditLog` with its own faults, so each takes an
instance of `AuditLogProofs`; the lemmas `SameKilled`, `SameCrash` and their like
show that the steps agree. The scenario of kills also needs `RestartsRepair` of
`AuditLogProofs`: while processes only die between system calls (`KillsOnly`), every
line can be read and links to the one before it (`Repairable`), and as the anchor
is at most one line behind, the next start repairs the log. The hypothesis
`ScenarioConstants` restates the scenarios: interrupted writes are partial, the
second scenario has no power loss (the third has), and calls are as bounded as the
scenarios bound them.

### 5.6 `HarnessRuntimeProofs`

| Theorem | States |
|---|---|
| `Invariant`, `EvidenceStays`, `OutcomesComplete` | for `HarnessRuntime` as it is |
| `EvidenceBeforeEffectHolds` | `EvidenceBeforeEffect` |
| `TruthfulOutcomesHold` | `TruthfulOutcomes`, if no tool loses its output (`"output_lost" \notin Outcomes`) |
| `EvidenceIsComplete` | `EvidenceComplete` |
| `DeliveredOnceHolds` | `DeliveredOnce` |
| `TranscriptKeptHolds` | `TranscriptKept` |
| `TranscriptImplementsLogHolds` | `TranscriptImplementsLog`, the refinement of `EventLog` |

No lock spans transcript, audit log and queues. The invariant therefore says
of the event each handler is at what the three stores already hold of it:

- `PlaceInv`, `OwnInv`: the step of the handler, and that the event it has in hand is
  the one at its sequence, which no other handler has;
- `CallInv`, `CompletedInv`, `ExecutedInv`: a call of the transcript is completed, or
  open in the hands of one handler, or was cut off by a fault; what ran was
  recorded as a call first;
- `AuditInv`: each entry of the log is of an event in the transcript and there once,
  and an event without entry is on its way there or met a fault;
- `DeliveryInv`: a queue holds what was published since its subscriber joined, each
  event once, but for what a handler still has in the copy of the list it serves.

`TruthfulOutcomes` cannot lose its hypothesis: `harness_lost_output`. The scenario
`transcript` is an instance of `TranscriptProofs`.

### 5.7 `MemoryProofs`

| Theorem | States | Invariant |
|---|---|---|
| `UserMemoryIsSound` | `UserMemorySound` | `UserInv`: `PreferencesInv` (what is stored was written, and is newer than what was forgotten), `PendingInv` (the writes to come give the files legitimate content), `SetupInv` (what the setup still waits for) |
| `PromptsAreCurrent` | `PromptsCurrent` | the same |
| `ReflectionInvariant`, `SkillInvariant`, `ReleasesAreSound` | `ReleasesSound` | a promotion in progress has its version file before its manifest (`Promoting`); the pointer, or the one that will be restored, is the last audited, a promotion whose event was lost, or the one said to be unaudited (`Audited`), before and after every way in which a write can end |
| `StoreIsAccepted` | the store is accepted, whatever is lost | `WritersInv`: IDs are unique, retractions stand behind their targets, and the lock covers what is between check and acknowledgement |
| `RemoteMemoryIsSound` | `RemoteMemorySound` | and `DurableInv`: what a call of its own acknowledged is synced; what a retry was given is stored until lines of a dead writer are lost, and synced while there are none |

`RemoteMemorySound` itself says what is not promised: `Promised` leaves out what
retries were given once a power loss took lines behind the death of a writer. Section 6
has the behaviour. The theorem has no hypothesis on the faults.

Workspace memory has the largest invariant, `ConflictsInv`, and four theorems on it,
for any statements, importances, events, policy thresholds and bounds:

| Theorem | States | Argument |
|---|---|---|
| `ConflictsInvariant` | `ConflictsInv` itself | one lemma per write of `distill`, `resolve_conflict` and `_complete_resolution_transaction`, and per crash |
| `WorkspaceIsSound` | `WorkspaceSound` | from it; facts without a domain have an invariant of their own, `FactsInv` |
| `JournalImplementsAdjudication` | `AdjudicationSpec` | preparing a decision is `Decide`; every later write of it, every crash and every recovery is a stutter (`CompletingStutters`); the two saves of `distill` are `Curate` and `Review` |
| `DecisionsAlwaysStand` | `DecisionsStand` | the journal begins a decision in `Prepare` only (`JournalBegins`); the intent that is then in `work` was compared with all facts `Resolve` read, and cites none beyond them (`WorkInv`) |

The conjuncts of `ConflictsInv` say what the code relies on where it does not look:

- `Consistent`: each revision rests on facts that state its value, no two on one fact;
  a candidate that challenges the active revision cites facts no revision has
  (`Grounded`). `Fresh` compares facts and not revisions, and that this is enough for
  `EvidenceCountsOnce` after a decision rests on this.
- `JournalOrdered`: the phases of an event are a prefix of the five.
- `UnfinishedInv`: at most one decision is not committed, and its journal entry tells
  for each of the files whether it is as before or as after it (or, between a write
  and the phase that records it, either).
- `DecidedInv`: a committed decision is what its case, its revision and the log say.
- `WorkInv`: what a process holds in memory between two writes was computed from
  files that have not changed since, except for the daily log.

`ConflictsAssumption` in `MCMemory` is all that is assumed: a flag is a Boolean, and no
event is called `None`.

### 5.8 `ChapterProofs`

| Theorem | States | Invariant |
|---|---|---|
| `EvidenceStaysKept` | `EvidenceKept` | `DurableInv`: an item is in the state or, done, in the archive; a pointer was resolved to what it names, or to nothing |
| `PromptsShowTheState` | the part of `PromptShowsWhatCounts` about pending items | the same |
| `AutomationsAreSound` | `SchedulerSound` | `SchedulerInv`: what is planned follows from type, status and last run (`PlanInv`); what a process selected exists and comes once (`RowsInv`); runs left open are owed to a death or to the process in the call, which has a run of its own (`HistoryInv`); see below for `CountInv` |
| `SessionsAreSound` | `SessionSound` | `DatabaseInv`: a process has its session alone, and two tables of a session are one apart only in a call or after a death; of the sessions, an instance of `SessionLifecycleProofs` |
| `SettledStaysSettled` | `SettledStays` | both |
| `SidecarIsSound` | `SidecarSound` | `FrameInv` (what is in a socket, in the buffer and being read is whole requests, cut anywhere), `TurnInv` (a turn nothing overlapped is in the messages), `RingInv` (the ring and its position are the newest bytes) |
| `LogsAreSound` | `LogSound` | `LogInv`: complete lines are numbered from 1, and a whole record without its newline is the next, so that the next append finds its number; what was acknowledged is among the lines. `SandboxInv`, see below |
| `OnlyPermittedRun` | `OnlyPermittedRuns` | of each scenario below |
| `RecallsAreProved` | `RecallProof` | `RecallInv`, see below |

That a one-time automation runs at most once per process and once more per death is not
inductive. `CountInv` counts its runs against the deaths and the processes in
`Spent(a)`: before any of them has finished, those that execute it; afterwards, all that
do not have it still among their selected rows. A process that starts it enters the set, a
process that dies may leave it and pays with its death, and once one has finished nobody
selects it again, as its next run is gone and `update_status` does not bring it back.

The variables of a scenario are `x1`, `x2` and so on, and the invariants name them
by what their module calls them.

`OnlyPermittedRuns` is five arguments, one for each loop around a tool call:

- *Governed tools* (`GovernedInv`). The trail is three records for each request, at
  the places 3n-2, 3n-1 and 3n, of which only the last request's may be missing. What
  ran has its resolution at place 3n-1, and that one allows it; `DecideCases` says
  for every request what the rules decide.
- *Skills* (`SkillsInv`). What waits has been audited as needing the user, and what
  the user agreed to waits still or is in the index unchanged, so that approval adds
  what was shown. `UpdatesAreNarrow` goes through the differences of two manifests: an
  update the audit calls harmless authorizes no call that the old one did not.
- *Connectors* (`ConnectorInv`). A loaded schema was shown under the grant of now, as
  a new grant clears the schemas.
- *Sandbox* (`SandboxInv`). An attempt can be missing from the log only if its line was
  cut, or glued to a cut one. The invariant counts what is lost, and what the command
  in work and an unended line are about to lose, against the lines cut so far
  (`LostInv`); who dies in the line of an attempt does not run the command, so that a
  whole line without its newline is no loss when it is glued (`TailInv`). A cut line
  leaves something unreadable, or is the first, lacks its newline only and has no anchor
  or a smaller one; without one the chain has no gap (`ChainInv`), which is how the
  verifier tells.
- *The agent* (`AgentInv`). The four stores of a session follow each other element by
  element (`InStep`), `PlaceInv` says how far each is at each point of the loop, and
  `FreshInv` that a call that is still to run is none that was begun. That a refusal in
  the transcript is true needs all three: a later call with the same identifier would
  make it false.

`RecallProof` rests on what a transcript may say whatever the other runs do. Runs are
numbered as they start and each has one process at most (`NumberInv`), so that event i
of run r is `Trace(r, i)`; only a selection somebody edited may differ, and then within
`Forgery` (`TraceInv`). That both facts were recalled, and thus that the first was
selected over the second, is a matter of the store: IDs in it are unique, and a process
past a fact has seen that fact with its own content (`StoreInv`), which nobody removes
(`StoreKept`). A transcript so described has at most one selection and one recall, hence
its replay is the evidence of that selection, found by that recall, or refused
(`Replays`, `OnlyRecalledProved`), wherever the run stopped.

`LinesAssumption` says that a cut line, one cut inside a character and one that cannot be
read are different model values and no records, and a cut anchor no number;
`FactsAssumption` that the two facts differ and that a refused replay is told from any
evidence. Nothing is assumed of the tools, answers, events, titles or connectors.

`ChapterProofs` is about `Spec` of `ChapterScenarios`, twelve scenarios. The runs explore
`MCSpec` of `MCChapters`, which adds seven that nothing is proved about; as a behaviour
stays in its scenario, one of `MCSpec` in any of the twelve is one of `Spec`. They are
apart because every definition in scope is multiplied by the instances of its module,
which costs each leaf time: with the seven in scope the proofs take more than twice as
long. The component modules take single operators from `Functions` and `FiniteSetsExt`
where they could extend `SequencesExt` for the same reason.

### 5.9 What is only model-checked

- *Liveness*, which is beyond the prover: `ProcessesReturn`, `CallsResolve`,
  `TranscriptCallsReturn`, `EveryCallReturns`, `PreparedCommits`.
- *Properties of what a recursion over data computes*: `SentViewsValid` (layers of
  compaction, packing, costs), `PromptShowsWhatCounts` but for its part above,
  `RecallSound`, `GroundingSound` and `ToolResults` (a search is a sorted
  list). `SelectSeq`, `SortSeq` and the folds need induction over sequences, which the
  installed provers cannot instantiate.

## 6. What the runs found

1. **A recovered line without its newline** (`audit_torn_line`). `audit.py:320`
   splits at newlines and keeps a last line that has none. If a write stops
   right before the newline, recovery accepts the entry, and the next `append`
   continues that line, returns, and leaves two objects on one line: `verify` is
   false and the harness refuses to start. `storage.py:183`, by contrast,
   takes the newline for the commit.
2. **An anchor over an entry that is not durable** (`audit_recovered_anchor`).
   Killed between write and fsync, the entry is in the page cache only;
   recovery reads and anchors it without an fsync (`audit.py:160`), although
   `audit.py:117` speaks of a durable entry. A power loss then leaves an anchor
   ahead of its log.
3. **A transcript whose name is not durable** (`transcript_new_file`).
   `storage.py:259` fsyncs the directory only if the file was missing. After
   a kill in between it is there, and the directory is never synced.
4. **A completed command recorded as failed** (`harness_lost_output`). The
   large output is written inside `tools.run` (`tools.py:245`); if that fails,
   `agent.py:97` records a `tool_error`, against `agent.py:131-133` and
   `docs/security-boundaries.md:21`.
5. **Cleanup without journal beside the first publication**
   (`artifact_raw_cleanup`). `code.py:2069` looks for the journal and then
   deletes without its lock, so a reference may be published in between.
6. **A fact behind a fragment** (`torn_fact`). `s10_workspace_memory/code.py:1024`
   appends to a daily log without discarding the fragment of a dead append, as
   the two other logs of the module do (`code.py:1241`, `1312`); the fragment and
   the new fact become one line that does not parse, and the day is refused.
7. **A citation of lines that moved** (`stale_citation`).
   `examples/answer_grounding_eval/code.py:374` compares an answer's citation with
   the record of the evidence. When lines are inserted above a paragraph and the
   corpus is synchronised again, its chunk keeps its ID, the document validates,
   and an answer passes whose lines hold other text, against `README.md:107`.

Besides these, the models show behaviour the documents leave open:

- `remove_reference` (s13) calls the owner under the journal lock, and
  `reconcile_reference` takes the journal lock inside the owner's fence. An owner
  that keeps removals out while it is fenced (`FencedRemoval = TRUE`) makes the two
  wait for each other for ever. The repository has no owner to decide.
- s07: an abort between the acceptance of a turn and `_abort_requested.clear()` is
  lost; a turn refused RUNNING keeps its lock (the runtime is closing then, so no
  later turn is kept out: `LockFreed`).
- s22: every process has a scheduler of its own over one database (`code.py:424-426`,
  `521`), and `check_and_run` selects what is due (`310-320`) and inserts a run (`339`)
  without a claim. Two of them run a one-time automation once each, a recurring one
  twice in an interval; `README.md:28` and `:39` name reentrance as what a scheduler
  has to handle and this one does not. `OnceRunsOnce` bounds it: one run per process
  and per death. After a death between run and bookkeeping the automation runs again,
  and a one-time automation deleted in its run ends as PAUSED.
- s10: `resolve_conflict` reads the facts (`code.py:1682`), compares them with the case
  (`1698-1711`) and writes PREPARED (`1786`) under no lock that `append_daily_log`
  takes. A fact of another process in between is not seen: the decision stands beside
  evidence that would have made it stale, and the next distillation meets that fact as
  it would one that came later.
- self-evolving skills: `set_active_version` writes the pointer (`code.py:475`) and then
  its event (`479`). A process that dies in between leaves an active version without
  one; if the audit fails and so does its truncation (`482`, suppressed), the event of a
  switch that was undone stays. Nothing makes either good, so `PointerAudited`
  excepts exactly these pointers, until the next event.
- s06: of two turns of one session that overlap, the one to end first is lost.
- s09: a replay window may begin with a result whose call is before it. A record cut
  inside a multi-byte character makes the strict decode (`code.py:90`, called at `234`)
  raise in every later read, though all acknowledged records are in the file;
  `tests/test_s09_unterminated_line_adversarial.py:146-179` pins this, and
  `AckedReplayed` excepts it.
- s03: a deferred tool whose name is known can be called without a search.
- s23: deleted last lines are noticed until the next append, which anchors anew. A
  first line of the day that lacks only its newline, with no anchor yet, verifies
  (`code.py:148-180`), and the next append runs into it. A line cut inside a character
  makes the next append raise before it writes (`119`), which ends the program:
  no command runs unaudited.
- s12: `_append_record` (`code.py:712-744`) answers the retry of a retraction with the
  stored record and does not sync it. If the process that wrote it was killed before
  its fsync, the retry vouches for a line that a power loss still takes away. The run
  reaches this with its two faults; `RemoteMemorySound` and `RecallSound` promise what a
  retry was given only while it has not happened, and a caller's own records always.
  A line of the store that lacks only its newline is treated as unreadable.
- reflection memory: a promotion goes by the report of a candidate, also if a
  distillation has written the candidate again since.

## 7. What is abstracted

- *Text.* Names, payloads, digests and messages are values of small sets. JSON
  is modelled by whether a line parses and has its newline. Redaction, canonical
  encoding, tokenising, wording and HTTP are left out. Token counts are small
  numbers, and the limits shrink with them.
- *Time.* A timestamp is part of the payload or a small number that may stand
  still. `retain_until` is passed or not.
- *File system.* `write` adds to the page cache, `fsync` makes a file's content
  durable, a directory fsync its names; `os.replace` is atomic; a power loss
  keeps any prefix that includes what was synced. A flock ends with its process.
  Where a chapter calls no fsync, only the death of its process is modelled.
- *Paths.* Symlink and escape checks of `tools.py`, `storage.py`, `s13` and the index
  decide whether a call runs at all; a refused call changes nothing.
- *Models.* What a model answers is any response of the modelled kind.
- *Processes per transcript.* One at a time, as the code's documentation assumes.
- *Policies.* Command patterns, audit rules of skills and path patterns are the class
  they put a command, text or path into.

## 8. Not modelled

- `storage.py`'s session index, `sidecar.py`, the providers and the configuration
  of the runtime: a dictionary and pure functions.
- Reading artifacts back, pointers and the agent loop of s13: read-only, or the
  loop the other chapters have.
- s06: the read-only requests, `session/create` and `shutdown`. s21: titles and
  queries. s24: memory files, expert prompts and statistics of the agent.
- s01, s05, s18, s19, s20: without state that more than one step could disturb.
- s10: `_validate_curated`'s check of the links between revisions: the model keeps
  the revisions of a domain as a sequence, where they cannot break.
- Evaluations, walkthroughs, scripts and the spreadsheet tool: drivers that run
  once, over fixtures.
- Two owners of one transcript (`storage.py:61`): excluded by the documentation.
