------------------------- MODULE MCHarnessScenarios -------------------------
(***************************************************************************)
(* Three scenarios in one run of TLC.  A behaviour picks one and stays in  *)
(* it; variables it does not use are None.                                 *)
(*   prompts: every outcome of a tool, failing appends and crashes, with   *)
(*     nobody listening;                                                   *)
(*   delivery: subscribers come and go while prompts of one session are    *)
(*     answered without tools;                                             *)
(*   transcript: the system calls that one append of the other two stands  *)
(*     for, on a transcript that exists, or not.                           *)
(***************************************************************************)
EXTENDS MCHarnessRuntime

\* The session all delivery prompts are for; None is no handler and no file.
ASSUME ScenarioAssumption ==
    /\ s1 \in Session
    /\ None \notin Thread
    /\ None \notin Seq([seq : Nat \cup {None}, id : Nat, form : {"complete", "partial", "garbled"}])

VARIABLES
    scenario,
    \* Transcript
    file, synced, linked, lock, at, op, envelope, created, result, returned, calls, spare

transcriptVars == <<file, synced, linked, lock, at, op, envelope, created, result, returned, calls, spare>>
Vars == <<scenario, vars, transcriptVars>>

File == INSTANCE Transcript WITH
    pc <- at, LegacyLines <- {0, 1}, Faults <- {"oserror", "tear", "kill", "power"},
    MaxCalls <- 5, MaxFaults <- 2, MaxNewFaults <- 1

NoTranscript ==
    /\ file = None /\ synced = None /\ linked = None /\ lock = None /\ at = None /\ op = None
    /\ envelope = None /\ created = None /\ result = None /\ returned = None
    /\ calls = None /\ spare = None

NoHarness ==
    /\ transcript = None /\ audit = None /\ subscribers = None /\ queue = None /\ joined = None
    /\ pc = None /\ session = None /\ seq = None /\ call = None /\ targets = None
    /\ executed = None /\ lastCall = None /\ prompts = None /\ faults = None

ScenarioInit ==
    \/ scenario \in {"prompts", "delivery"} /\ Init /\ NoTranscript
    \/ scenario = "transcript" /\ File!Init /\ NoHarness

Prompts ==
    \/ \E t \in Thread : Step(t) \/ RecordingFails(t) \/ \E s \in Session : Prompt(t, s)
    \/ Crash

Delivery ==
    /\ \/ \E t \in Thread : Step(t) \/ Prompt(t, s1)
       \/ \E u \in Subscriber : Subscribe(u) \/ Unsubscribe(u)
    /\ \A t \in Thread : pc'[t].kind \in Messages \cup {Idle.kind}

ScenarioNext ==
    /\ \/ scenario = "prompts" /\ Prompts /\ UNCHANGED transcriptVars
       \/ scenario = "delivery" /\ Delivery /\ UNCHANGED transcriptVars
       \/ scenario = "transcript" /\ File!Next /\ UNCHANGED vars
    /\ UNCHANGED scenario

\* A handler that is not waiting for a lock another one holds goes on.
ScenarioSpec ==
    /\ ScenarioInit /\ [][ScenarioNext]_Vars
    /\ \A t \in Thread :
         /\ WF_Vars(scenario = "prompts" /\ Step(t) /\ UNCHANGED <<scenario, transcriptVars>>)
         /\ WF_Vars(scenario = "transcript" /\ File!Step(t) /\ UNCHANGED <<scenario, vars>>)

-----------------------------------------------------------------------------
(* Prompts *)

InHarness == scenario # "transcript"

\* Audit entries, live events and tool runs all follow the durable transcript
\* event they are about, in whatever order the handlers of a session interleave
\* (MiniAgent.prompt, _audit, _publish; security-boundaries.md:20).
EvidenceBeforeEffect == InHarness => EvidenceFirst /\ RunAfterRecord

\* A call has at most one outcome, later in the same session, and one that ran to
\* its end is never recorded as failed (agent.py:131, security-boundaries.md:21).
TruthfulOutcomes == InHarness => OneOutcome /\ NoInventedError

\* If no prompt raised, idle handlers leave one audit entry for every transcript
\* event and an outcome for every call (MiniAgent.prompt).
EvidenceComplete == InHarness => CompleteEvidence

\* A subscriber that stays gets every event once, whoever else comes and goes
\* during publish() (EventBus).
DeliveredOnce == InHarness => ExactlyOnceDelivery

\* Every recorded call gets its outcome, unless its prompt raises or the process
\* dies (MiniAgent.prompt).
InHarnessHolds(P) == IF InHarness THEN P ELSE FALSE
CallsResolve ==
    \A c \in 1..MaxPrompts :
        InHarnessHolds(EventsOf(c) # {})
            ~> InHarnessHolds(Cardinality(EventsOf(c)) = 2 \/ faults > 0)

-----------------------------------------------------------------------------
(* The transcript *)

\* What append_event() returned stays at its sequence, whole and durable, and no
\* order of handlers and crashes makes the file unreadable (Storage.append_event).
TranscriptKept == scenario = "transcript" => File!ReturnedDurable /\ File!NeverCorrupt

\* The file implements a list of events that only grows, a power loss apart, which
\* takes back nothing append_event() returned (EventLog).
TranscriptImplementsLog ==
    /\ scenario = "transcript" => File!Events!Init
    /\ [][scenario = "transcript" => File!Events!Next]_(File!Events!vars)

\* With finitely many calls every call returns, whatever the others suffered
\* (_transcript_lock).
TranscriptCallsReturn ==
    \A t \in Thread :
        (IF InHarness THEN FALSE ELSE at[t] # "idle") ~> (IF InHarness THEN FALSE ELSE at[t] = "idle")
=============================================================================
