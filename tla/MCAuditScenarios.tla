-------------------------- MODULE MCAuditScenarios --------------------------
(***************************************************************************)
(* Three questions about AuditLog in one run of TLC.  A behaviour picks    *)
(* one scenario and stays in it:                                           *)
(*   processes: three threads of two processes, and kills;                 *)
(*   crash: failed system calls, short writes and kills, on a log that     *)
(*     predates audit.head, with one thread per process;                   *)
(*   power: power losses too, from no log at all, one thread per process.  *)
(***************************************************************************)
EXTENDS MCAuditLog

VARIABLE scenario

Processes == INSTANCE AuditLog WITH LegacyData <- MCNoLegacy, Faults <- {"kill"}, Tears <- {},
                                    MaxCalls <- 5
Crash == INSTANCE AuditLog
Power == INSTANCE AuditLog WITH LegacyData <- MCNoLegacy,
                                Faults <- {"kill", "oserror", "tear", "power"}, MaxCalls <- 4

ScenarioInit ==
    \/ scenario = "processes" /\ Processes!Init
    \/ scenario = "crash" /\ Crash!Init
    \/ scenario = "power" /\ Power!Init

ScenarioNext ==
    /\ \/ scenario = "processes" /\ Processes!Next
       \/ scenario = "crash" /\ Crash!Next /\ pc'[t2] = "idle"
       \/ scenario = "power" /\ Power!Next /\ pc'[t2] = "idle"
    /\ UNCHANGED scenario

\* A thread that is runnable eventually runs (AuditLog!FairSpec).
ScenarioSpec ==
    /\ ScenarioInit /\ [][ScenarioNext]_<<vars, scenario>>
    /\ \A t \in Thread :
          WF_<<vars, scenario>>(scenario = "processes" /\ Processes!Step(t) /\ UNCHANGED scenario)

\* A process that may start finds an anchor at most one entry behind the log
\* while the machine stays up (AuditLog.append anchors what it wrote).
AnchorLags == scenario # "power" => AnchorLag

\* No call takes the half-done work of another for corruption, and whatever point
\* a process was killed at, the next one repairs the log and serves
\* (_exclusive_lock; recover_interrupted_append, server.py:25).
CorruptOnlyWhenCorrupt == NoFalseAlarm /\ (scenario = "processes" => RestartRepairs)

\* With finitely many calls every call returns, also the one waiting for a
\* lock that another process or a killed one held (AuditLog._exclusive_lock).
ProcessesReturn ==
    \A t \in Thread : scenario = "processes" /\ pc[t] # "idle" ~> pc[t] = "idle"

\* While the machine stays up files, locks and processes together implement
\* the abstract chain.
CrashChainSpec ==
    /\ scenario = "crash" => Chain!Init
    /\ [][scenario = "crash" => Chain!Next]_Chain!vars
=============================================================================
