------------------------------ MODULE MCMemory ------------------------------
(***************************************************************************)
(* The memory chapters under TLC.  A behaviour picks one scenario and      *)
(* stays in it; variables a scenario does not use are None.                *)
(***************************************************************************)
EXTENDS Naturals, Sequences, FiniteSets

CONSTANTS m1, m2, m3, m4, None,
          Scenarios     \* which of the scenarios below a run explores

\* The constants of the scenarios that MemoryProofs is about.
CONSTANTS Statement, DecisionId, Keyed, MaxDay,                                 \* Conflicts, Facts
          MinimumImportance, RepeatThreshold, SupersessionThreshold,
          Level, ConflictFaults, MaxKeyedFacts, MaxConflictFaults,
          LooseLevel, FactFaults, MaxLooseFacts, MaxFactFaults,
          Process, Id, Term, Faults, MaxRecords, MaxFaults,                     \* Writers
          Value, ProfileFact, SourceEvent, MaxTime, MaxRevision,                \* User
          Failure, Recovery, MinimumSupport, MaxDigest, MaxVersions, MaxCrashes, \* Reflection
          CandidateId, MaxAudit, MaxReleaseFaults                               \* Skills

\* A missing profile, preference or tombstone is none of those there can be.
ASSUME UserAssumption ==
    /\ MaxTime \in Nat
    /\ None \notin ProfileFact
    /\ None \notin [value : Value, at : Nat, expires : Nat \cup {None},
                    event : SourceEvent \cup {None}, revision : Nat]
    /\ None \notin [at : Nat, revision : Nat]

\* A bound on the promotions.
ASSUME VersionsAssumption == MaxVersions \in Nat

\* Bounds, IDs that callers choose and what stands for no process.
ASSUME WritersAssumption == MaxFaults \in Nat /\ None \notin Process
ASSUME IdAssumption == Id \subseteq Nat /\ IsFiniteSet(Id)

\* No version, position or count is missing by being a number.
ASSUME NoneAssumption == None \notin Nat

\* A fact has a domain or none, and a case that is not decided names no decision.
ASSUME ConflictsAssumption == Keyed \subseteq BOOLEAN /\ None \notin DecisionId

VARIABLES
    scenario,
    \* shared by some of the modules
    pc, faults, todo, crashes, candidates,
    \* WorkspaceMemory
    work, today, daily, curated, unkeyed, view, cases, decisions, journal, confirmed,
    \* RemoteMemory
    store, torn, synced, holder, job, acked, retried, unowned,
    \* UserMemory
    disk, now, shown, forgotten, written,
    \* ReflectionMemory
    traces, evaluations, records, manifest, held,
    \* SkillEvolution
    passed, history, active, releases, audit, before, approved, unaudited

WorkspaceVars == <<work, today, daily, curated, unkeyed, view, cases, decisions, journal, confirmed>>
RemoteVars == <<store, torn, synced, holder, job, acked, retried, unowned>>
UserVars == <<disk, now, shown, forgotten, written>>
ReflectionVars == <<traces, evaluations, records, manifest, held>>
SkillVars == <<passed, history, active, releases, audit, before, approved, unaudited>>
Vars == <<scenario, pc, faults, todo, crashes, candidates,
          WorkspaceVars, RemoteVars, UserVars, ReflectionVars, SkillVars>>

\* Workspace memory: conflicting facts of one domain, decided by humans.
Conflicts == INSTANCE WorkspaceMemory WITH
    Value <- Statement, Importance <- Level, Event <- DecisionId,
    Faults <- ConflictFaults, MaxFacts <- MaxKeyedFacts, MaxFaults <- MaxConflictFaults

\* Workspace memory: facts without a domain, some confirmed by the user.
Facts == INSTANCE WorkspaceMemory WITH
    Value <- Statement, Importance <- LooseLevel, Keyed <- {FALSE}, Event <- {},
    Faults <- FactFaults, MaxFacts <- MaxLooseFacts, MaxFaults <- MaxFactFaults

\* Remote memory: two writers that race, retry and die.
Writers == INSTANCE RemoteMemory WITH Ages <- {1}

\* Remote memory: what recall makes of every small store.
Recalls == INSTANCE RemoteMemory WITH
    Process <- {m1}, Id <- {1, 2}, Term <- {m3, m4}, Ages <- {1, 40},
    Faults <- {}, MaxRecords <- 3, MaxFaults <- 0

\* User memory: one preference, set, forgotten, expired and replayed.
User == INSTANCE UserMemory WITH Fact <- ProfileFact, Event <- SourceEvent

\* Reflection memory: two recoveries, trajectories that are written again.
Reflection == INSTANCE ReflectionMemory

\* Skill releases: three candidates, rollbacks, lost audit events, deaths.
Skills == INSTANCE SkillEvolution WITH Candidate <- CandidateId, MaxFaults <- MaxReleaseFaults

-----------------------------------------------------------------------------
NoWorkspace ==
    /\ work = None /\ today = None /\ daily = None /\ curated = None
    /\ unkeyed = None /\ view = None /\ cases = None /\ decisions = None
    /\ journal = None /\ confirmed = None
NoRemote ==
    /\ store = None /\ torn = None /\ synced = None /\ holder = None
    /\ job = None /\ acked = None /\ retried = None /\ unowned = None
NoUser ==
    /\ disk = None /\ now = None /\ shown = None /\ forgotten = None
    /\ written = None
NoReflection ==
    /\ traces = None /\ evaluations = None /\ records = None /\ manifest = None
    /\ held = None
NoSkill ==
    /\ passed = None /\ history = None /\ active = None /\ releases = None
    /\ audit = None /\ before = None /\ approved = None /\ unaudited = None
NoPc == pc = None /\ faults = None
NoTodo == todo = None /\ crashes = None

InWorkspace == NoTodo /\ candidates = None /\ NoRemote /\ NoUser /\ NoReflection /\ NoSkill
InRemote == NoTodo /\ candidates = None /\ NoWorkspace /\ NoUser /\ NoReflection /\ NoSkill
InUser == NoPc /\ candidates = None /\ NoWorkspace /\ NoRemote /\ NoReflection /\ NoSkill
InReflection == NoPc /\ NoWorkspace /\ NoRemote /\ NoUser /\ NoSkill
InSkill == NoTodo /\ NoWorkspace /\ NoRemote /\ NoUser /\ NoReflection

Init ==
    /\ scenario \in Scenarios
    /\ \/ scenario = "conflicts" /\ Conflicts!Init /\ InWorkspace
       \/ scenario = "facts" /\ Facts!Init /\ InWorkspace
       \/ scenario = "writers" /\ Writers!Init /\ InRemote
       \/ scenario = "recalls" /\ Recalls!Init /\ InRemote
       \/ scenario = "user" /\ User!Init /\ InUser
       \/ scenario = "reflection" /\ Reflection!Init /\ InReflection
       \/ scenario = "skills" /\ Skills!Init /\ InSkill

OutsideWorkspace == UNCHANGED <<todo, crashes, candidates, RemoteVars, UserVars, ReflectionVars, SkillVars>>
OutsideRemote == UNCHANGED <<todo, crashes, candidates, WorkspaceVars, UserVars, ReflectionVars, SkillVars>>
OutsideUser == UNCHANGED <<pc, faults, candidates, WorkspaceVars, RemoteVars, ReflectionVars, SkillVars>>
OutsideReflection == UNCHANGED <<pc, faults, WorkspaceVars, RemoteVars, UserVars, SkillVars>>
OutsideSkill == UNCHANGED <<todo, crashes, WorkspaceVars, RemoteVars, UserVars, ReflectionVars>>

Next ==
    /\ \/ scenario = "conflicts" /\ Conflicts!Next /\ OutsideWorkspace
       \/ scenario = "facts" /\ Facts!Next /\ OutsideWorkspace
       \/ scenario = "writers" /\ Writers!Next /\ OutsideRemote
       \/ scenario = "recalls" /\ Recalls!Next /\ OutsideRemote
       \/ scenario = "user" /\ User!Next /\ OutsideUser
       \/ scenario = "reflection" /\ Reflection!Next /\ OutsideReflection
       \/ scenario = "skills" /\ Skills!Next /\ OutsideSkill
    /\ UNCHANGED scenario

InConflicts(action) ==
    /\ scenario = "conflicts" /\ action
    /\ UNCHANGED scenario /\ OutsideWorkspace

\* Who died is started again, and who runs goes on.
Spec == /\ Init /\ [][Next]_Vars
        /\ WF_Vars(InConflicts(Conflicts!Start))
        /\ WF_Vars(InConflicts(Conflicts!CompleteResolution))

-----------------------------------------------------------------------------
(* Workspace memory *)

\* Whatever point a process dies at, the next one completes its resolution; a
\* decision takes effect in all three files, once; no fact counts for two
\* revisions; what was written is readable, so one case of a domain waits at a
\* time; MEMORY.md is not ahead of curated.json (_recover_resolution_transactions,
\* _complete_resolution_transaction, distill, _queue_conflict, _save_curated).
WorkspaceSound ==
    /\ scenario = "conflicts" =>
         /\ Conflicts!RecoveryAccepts /\ Conflicts!DecisionsComplete
         /\ Conflicts!EvidenceCountsOnce /\ Conflicts!FilesReadable /\ Conflicts!ViewNotAhead
    /\ scenario = "facts" => Facts!ViewNotAhead

\* A fact that was appended stays readable whatever died before it
\* (_discard_incomplete_jsonl_tail: "A later append must first discard that
\* ignored fragment").
FactsReadable == scenario = "facts" => Facts!FactsReadable

\* The three files change as if every decision was one step (resolve_conflict and its journal).
AdjudicationSpec ==
    /\ scenario = "conflicts" => Conflicts!Adjudicated!Init
    /\ [][scenario = "conflicts" => Conflicts!Adjudicated!Next]_(Conflicts!Adjudicated!vars)

\* Other scenarios have no journal to look at.
InConflictsHolds(P) == IF scenario = "conflicts" THEN P ELSE FALSE

\* A decision that was prepared is committed, after whatever crash (_recover_resolution_transactions).
PreparedCommits ==
    \A e \in DecisionId :
        InConflictsHolds(Conflicts!Recorded(e) # {})
            ~> InConflictsHolds("committed" \in Conflicts!Recorded(e))

\* A decision is made on all the evidence the domain had when its facts were read, and
\* what was promoted as a version never changes (resolve_conflict; ReflectionStore.promote).
DecisionsStand ==
    [][/\ scenario = "conflicts" => Conflicts!DecidesOnFullEvidence
       /\ scenario = "reflection" => Reflection!KeepsVersions]_Vars

-----------------------------------------------------------------------------
(* User and remote memory *)

\* However writers race, die and lose power, a readable store has no ID twice and
\* one target per retraction, keeps every record whose own call returned, and every
\* retraction a retry was given as long as no power loss took lines behind the death
\* of a writer (_append_record under the store lock, active_records).
RemoteMemorySound == scenario = "writers" => Writers!StoreAccepted /\ Writers!AckedStays

\* No record whose retraction is promised in that sense is shown, and recall ranks without regard to storage order
\* (active_records, latest_profile, recall).
RecallSound ==
    /\ scenario = "writers" => Writers!ForgottenStaysOut
    /\ scenario = "recalls" =>
         Recalls!StoreAccepted /\ Recalls!ForgottenStaysOut /\ Recalls!RankIndependent

\* A forgotten preference comes back on newer evidence only, and a revision number
\* names one statement, across deletion and recreation (set_preference).
UserMemorySound == scenario = "user" => User!StaysForgotten /\ User!RevisionsNameOne

\* A prompt shows what the files say at its time, however stale the readable views
\* were, and the setup instruction goes only when identity and preference are on
\* disk (get_context_for_agent, _complete).
PromptsCurrent == [][scenario = "user" => User!ShowsCurrent /\ User!UnsetsComplete]_Vars

-----------------------------------------------------------------------------
(* Reflection and skill releases *)

\* What is active is on disk and what was promoted, whenever the process died; the
\* active release is the one the audit says, whatever audit append failed, except
\* for a promotion whose event was lost and a switch that a death or a failed
\* truncation left without its event; a skill is served only with the approved
\* text (promote, set_active_version, _verify_release).
ReleasesSound ==
    /\ scenario = "reflection" => Reflection!ContextReadable
    /\ scenario = "skills" => Skills!PointerAudited /\ Skills!ServedApproved
=============================================================================
