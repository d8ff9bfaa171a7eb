------------------------- MODULE AuditScenarioProofs -------------------------
(***************************************************************************)
(* Proofs about the three scenarios MCAuditScenarios runs the audit log    *)
(* in, for any processes, threads and payloads.  Each scenario fixes the   *)
(* faults that occur and the log found at the start, so each is an         *)
(* instance of AuditLog of its own, and what AuditLogProofs proves of the  *)
(* log is used of that instance.                                           *)
(***************************************************************************)
EXTENDS MCAuditScenarios, AuditLogProofs

Killed == INSTANCE AuditLogProofs WITH LegacyData <- MCNoLegacy, Faults <- {"kill"}, Tears <- {},
                                       MaxCalls <- 5
Powered == INSTANCE AuditLogProofs WITH LegacyData <- MCNoLegacy,
                                        Faults <- {"kill", "oserror", "tear", "power"}, MaxCalls <- 4

\* Half a line is all that an interrupted write leaves behind, only the third scenario
\* loses power, and no scenario makes more calls than the bound.
ScenarioConstants == PartialTears /\ "power" \notin Faults /\ MaxCalls >= 5

Vars == <<vars, scenario>>

-----------------------------------------------------------------------------
(* The steps of a scenario are those of an instance of the proofs *)

\* The first scenario starts and steps as the instance of the proofs.
LEMMA SameKilled ==
    /\ Processes!Init => Killed!Init
    /\ Processes!Next => Killed!Next
<1>1. Processes!Init => Killed!Init
  BY DEF Processes!Init, Killed!Init, Processes!Line, Killed!Line, Processes!LegacyEntry,
         Killed!LegacyEntry
<1>2. Processes!Next => Killed!Next
  BY DEF Processes!Next, Killed!Next, Processes!Step, Killed!Step, Processes!Read, Killed!Read,
         Processes!StartProcess, Killed!StartProcess, Processes!StopProcess, Killed!StopProcess,
         Processes!Call, Killed!Call, Processes!Begin, Killed!Begin, Processes!Goto,
         Killed!Goto, Processes!Finish, Killed!Finish, Processes!Suffer, Killed!Suffer,
         Processes!Abandon, Killed!Abandon, Processes!KillProcess, Killed!KillProcess,
         Processes!PowerLoss, Killed!PowerLoss, Processes!AcquireThreadLock,
         Killed!AcquireThreadLock, Processes!AcquireFileLock, Killed!AcquireFileLock,
         Processes!ReadForAppend, Killed!ReadForAppend, Processes!ReadForVerify,
         Killed!ReadForVerify, Processes!ReadForRecover, Killed!ReadForRecover,
         Processes!WriteEntry, Killed!WriteEntry, Processes!FsyncEntry, Killed!FsyncEntry,
         Processes!ReplaceHead, Killed!ReplaceHead, Processes!FsyncDirectory,
         Killed!FsyncDirectory, Processes!Return, Killed!Return, Processes!RaiseOSError,
         Killed!RaiseOSError, Processes!TearWrite, Killed!TearWrite, Processes!files,
         Killed!files, Processes!locks, Killed!locks, Processes!threads, Killed!threads,
         Processes!AppendBytes, Killed!AppendBytes, Processes!Line, Killed!Line, Processes!Hash,
         Killed!Hash, Processes!HashPayload, Killed!HashPayload, Processes!ReadEntries,
         Killed!ReadEntries, Processes!Readable, Killed!Readable, Processes!Parsable,
         Killed!Parsable, Processes!TipHash, Killed!TipHash, Processes!GenesisHash,
         Killed!GenesisHash, Processes!ValidChain, Killed!ValidChain, Processes!ValidTip,
         Killed!ValidTip, Processes!Recoverable, Killed!Recoverable, Processes!Anchor,
         Killed!Anchor
<1> QED BY <1>1, <1>2

\* The second scenario starts and steps as the instance of the proofs.
LEMMA SameCrash ==
    /\ Crash!Init => Init
    /\ Crash!Next => Next
<1>1. Crash!Init => Init
  BY DEF Crash!Init, Init, Crash!Line, Line, Crash!LegacyEntry, LegacyEntry
<1>2. Crash!Next => Next
  BY DEF Crash!Next, Next, Crash!Step, Step, Crash!Read, Read, Crash!StartProcess, StartProcess,
         Crash!StopProcess, StopProcess, Crash!Call, Call, Crash!Begin, Begin, Crash!Goto, Goto,
         Crash!Finish, Finish, Crash!Suffer, Suffer, Crash!Abandon, Abandon, Crash!KillProcess,
         KillProcess, Crash!PowerLoss, PowerLoss, Crash!AcquireThreadLock, AcquireThreadLock,
         Crash!AcquireFileLock, AcquireFileLock, Crash!ReadForAppend, ReadForAppend,
         Crash!ReadForVerify, ReadForVerify, Crash!ReadForRecover, ReadForRecover,
         Crash!WriteEntry, WriteEntry, Crash!FsyncEntry, FsyncEntry, Crash!ReplaceHead,
         ReplaceHead, Crash!FsyncDirectory, FsyncDirectory, Crash!Return, Return,
         Crash!RaiseOSError, RaiseOSError, Crash!TearWrite, TearWrite, Crash!files, files,
         Crash!locks, locks, Crash!threads, threads, Crash!AppendBytes, AppendBytes, Crash!Line,
         Line, Crash!Hash, Hash, Crash!HashPayload, HashPayload, Crash!ReadEntries, ReadEntries,
         Crash!Readable, Readable, Crash!Parsable, Parsable, Crash!TipHash, TipHash,
         Crash!GenesisHash, GenesisHash, Crash!ValidChain, ValidChain, Crash!ValidTip, ValidTip,
         Crash!Recoverable, Recoverable, Crash!Anchor, Anchor
<1> QED BY <1>1, <1>2

\* The third scenario starts and steps as the instance of the proofs.
LEMMA SamePowered ==
    /\ Power!Init => Powered!Init
    /\ Power!Next => Powered!Next
<1>1. Power!Init => Powered!Init
  BY DEF Power!Init, Powered!Init, Power!Line, Powered!Line, Power!LegacyEntry,
         Powered!LegacyEntry
<1>2. Power!Next => Powered!Next
  BY DEF Power!Next, Powered!Next, Power!Step, Powered!Step, Power!Read, Powered!Read,
         Power!StartProcess, Powered!StartProcess, Power!StopProcess, Powered!StopProcess,
         Power!Call, Powered!Call, Power!Begin, Powered!Begin, Power!Goto, Powered!Goto,
         Power!Finish, Powered!Finish, Power!Suffer, Powered!Suffer, Power!Abandon,
         Powered!Abandon, Power!KillProcess, Powered!KillProcess, Power!PowerLoss,
         Powered!PowerLoss, Power!AcquireThreadLock, Powered!AcquireThreadLock,
         Power!AcquireFileLock, Powered!AcquireFileLock, Power!ReadForAppend,
         Powered!ReadForAppend, Power!ReadForVerify, Powered!ReadForVerify,
         Power!ReadForRecover, Powered!ReadForRecover, Power!WriteEntry, Powered!WriteEntry,
         Power!FsyncEntry, Powered!FsyncEntry, Power!ReplaceHead, Powered!ReplaceHead,
         Power!FsyncDirectory, Powered!FsyncDirectory, Power!Return, Powered!Return,
         Power!RaiseOSError, Powered!RaiseOSError, Power!TearWrite, Powered!TearWrite,
         Power!files, Powered!files, Power!locks, Powered!locks, Power!threads, Powered!threads,
         Power!AppendBytes, Powered!AppendBytes, Power!Line, Powered!Line, Power!Hash,
         Powered!Hash, Power!HashPayload, Powered!HashPayload, Power!ReadEntries,
         Powered!ReadEntries, Power!Readable, Powered!Readable, Power!Parsable,
         Powered!Parsable, Power!TipHash, Powered!TipHash, Power!GenesisHash,
         Powered!GenesisHash, Power!ValidChain, Powered!ValidChain, Power!ValidTip,
         Powered!ValidTip, Power!Recoverable, Powered!Recoverable, Power!Anchor, Powered!Anchor
<1> QED BY <1>1, <1>2

\* A step of a scenario, or one that leaves everything alone, is one of its instance.
LEMMA ScenarioSteps ==
    ASSUME [ScenarioNext]_Vars
    PROVE  /\ UNCHANGED scenario
           /\ scenario = "processes" => [Killed!Next]_(Killed!vars)
           /\ scenario = "crash" => [Next]_vars
           /\ scenario = "power" => [Powered!Next]_(Powered!vars)
<1>1. CASE UNCHANGED Vars
  <2>1. UNCHANGED scenario /\ UNCHANGED vars
    BY <1>1 DEF Vars
  <2>2. UNCHANGED Killed!vars /\ UNCHANGED Powered!vars
    BY <2>1 DEF vars, files, locks, threads, Killed!vars, Killed!files, Killed!locks,
                Killed!threads, Powered!vars, Powered!files, Powered!locks, Powered!threads
  <2> QED BY <2>1, <2>2
<1>2. CASE ScenarioNext
  BY <1>2, SameKilled, SameCrash, SamePowered DEF ScenarioNext
<1> QED BY <1>1, <1>2

-----------------------------------------------------------------------------
(* The invariant of the scenarios *)

\* What is assumed of the constants, and the hypotheses of what is proved of the log,
\* hold of the first and the third scenario.
LEMMA InstanceConstants ==
    ASSUME ScenarioConstants
    PROVE  /\ Killed!ThreadAssumption /\ Killed!LogAssumption
           /\ Killed!FaultAssumption /\ Killed!BoundAssumption
           /\ Powered!ThreadAssumption /\ Powered!LogAssumption
           /\ Powered!FaultAssumption /\ Powered!BoundAssumption
           /\ Killed!KillsOnly /\ Killed!PartialTears /\ Powered!PartialTears
<1>1. MCNoLegacy \in Seq(Payload)
  BY EmptySeq DEF MCNoLegacy
<1> QED
  BY <1>1, ThreadAssumption, BoundAssumption
  DEF ScenarioConstants, PartialTears, Killed!KillsOnly, Killed!PartialTears, Powered!PartialTears,
      Killed!ThreadAssumption, Killed!LogAssumption, Killed!FaultAssumption, Killed!BoundAssumption,
      Powered!ThreadAssumption, Powered!LogAssumption, Powered!FaultAssumption,
      Powered!BoundAssumption

\* What each scenario keeps.
ScenarioInv ==
    /\ scenario \in {"processes", "crash", "power"}
    /\ scenario = "processes" =>
          /\ Killed!TypeInv /\ Killed!LockInv /\ Killed!FileInv /\ Killed!FaultFree
          /\ Killed!AnchorLag /\ Killed!Repairable
    /\ scenario = "crash" => TypeInv /\ LockInv /\ FileInv /\ FaultFree /\ AnchorLag
    /\ scenario = "power" =>
          Powered!TypeInv /\ Powered!LockInv /\ Powered!FileInv /\ Powered!FaultFree

\* A first state of a scenario has what the scenario keeps.
LEMMA ScenarioStart == ASSUME ScenarioConstants PROVE ScenarioInit => ScenarioInv
<1>1. Killed!Init => /\ Killed!TypeInv /\ Killed!LockInv /\ Killed!FileInv /\ Killed!FaultFree
                     /\ Killed!AnchorLag /\ Killed!Repairable
  <2>1. Killed!Init => Killed!TypeInv
    BY InstanceConstants, Killed!TypeInit
  <2>2. Killed!Init => Killed!LockInv /\ Killed!FileInv /\ Killed!Repairable
    BY InstanceConstants, Killed!LockInit, Killed!FileInit, Killed!RepairInit
  <2>3. Killed!Init => Killed!FaultFree
    BY InstanceConstants, Killed!LegacyValid DEF Killed!FaultFree, Killed!NoFalseAlarm, Killed!Init
  <2>4. Killed!Init => Killed!AnchorLag
    BY DEF Killed!Init, Killed!AnchorLag
  <2> QED BY <2>1, <2>2, <2>3, <2>4
<1>2. Init => TypeInv /\ LockInv /\ FileInv /\ FaultFree /\ AnchorLag
  <2>1. Init => FaultFree
    BY LegacyValid DEF FaultFree, NoFalseAlarm, Init
  <2>2. Init => AnchorLag
    BY DEF Init, AnchorLag
  <2> QED BY <2>1, <2>2, TypeInit, LockInit, FileInit
<1>3. Powered!Init => Powered!TypeInv /\ Powered!LockInv /\ Powered!FileInv /\ Powered!FaultFree
  <2>1. Powered!Init => Powered!FaultFree
    BY InstanceConstants, Powered!LegacyValid DEF Powered!FaultFree, Powered!NoFalseAlarm, Powered!Init
  <2> QED BY <2>1, InstanceConstants, Powered!TypeInit, Powered!LockInit, Powered!FileInit
<1> QED BY <1>1, <1>2, <1>3, SameKilled, SameCrash, SamePowered DEF ScenarioInit, ScenarioInv

\* Every step of a scenario keeps what the scenario keeps.
LEMMA ScenarioStep == ASSUME ScenarioConstants, ScenarioInv, [ScenarioNext]_Vars PROVE ScenarioInv'
<1>1. CASE scenario = "processes"
  <2>1. [Killed!Next]_(Killed!vars) /\ scenario' = "processes"
    BY <1>1, ScenarioSteps
  <2>2. /\ Killed!TypeInv /\ Killed!LockInv /\ Killed!FileInv /\ Killed!FaultFree
        /\ Killed!AnchorLag /\ Killed!Repairable
    BY <1>1 DEF ScenarioInv
  <2>3. Killed!TypeInv'
    BY <2>1, <2>2, InstanceConstants, Killed!TypeNext
  <2>4. Killed!LockInv'
    BY <2>1, <2>2, InstanceConstants, Killed!LockNext DEF Killed!TypeInv
  <2>5. Killed!FileInv'
    BY <2>1, <2>2, <2>3, <2>4, InstanceConstants, Killed!FileNext
  <2>6. Killed!FaultFree'
    BY <2>1, <2>2, InstanceConstants, Killed!FaultFreeNext
  <2>7. Killed!AnchorLag'
    BY <2>1, <2>2, InstanceConstants, Killed!LagNext
  <2>8. Killed!Repairable'
    BY <2>1, <2>2, InstanceConstants, Killed!RepairNext
  <2> QED BY <2>1, <2>3, <2>4, <2>5, <2>6, <2>7, <2>8 DEF ScenarioInv
<1>2. CASE scenario = "crash"
  <2>1. [Next]_vars /\ scenario' = "crash"
    BY <1>2, ScenarioSteps
  <2>2. TypeInv /\ LockInv /\ FileInv /\ FaultFree /\ AnchorLag
    BY <1>2 DEF ScenarioInv
  <2>3. TypeInv'
    BY <2>1, <2>2, TypeNext
  <2>4. LockInv'
    BY <2>1, <2>2, LockNext DEF TypeInv
  <2>5. FileInv'
    BY <2>1, <2>2, <2>3, <2>4, FileNext DEF ScenarioConstants
  <2>6. FaultFree'
    BY <2>1, <2>2, FaultFreeNext
  <2>7. AnchorLag'
    BY <2>1, <2>2, LagNext DEF ScenarioConstants
  <2> QED BY <2>1, <2>3, <2>4, <2>5, <2>6, <2>7 DEF ScenarioInv
<1>3. CASE scenario = "power"
  <2>1. [Powered!Next]_(Powered!vars) /\ scenario' = "power"
    BY <1>3, ScenarioSteps
  <2>2. Powered!TypeInv /\ Powered!LockInv /\ Powered!FileInv /\ Powered!FaultFree
    BY <1>3 DEF ScenarioInv
  <2>3. Powered!TypeInv'
    BY <2>1, <2>2, InstanceConstants, Powered!TypeNext
  <2>4. Powered!LockInv'
    BY <2>1, <2>2, InstanceConstants, Powered!LockNext DEF Powered!TypeInv
  <2>5. Powered!FileInv'
    BY <2>1, <2>2, <2>3, <2>4, InstanceConstants, Powered!FileNext
  <2>6. Powered!FaultFree'
    BY <2>1, <2>2, InstanceConstants, Powered!FaultFreeNext
  <2> QED BY <2>1, <2>3, <2>4, <2>5, <2>6 DEF ScenarioInv
<1> QED BY <1>1, <1>2, <1>3 DEF ScenarioInv

\* The invariant holds of the scenarios.
THEOREM ScenarioInvariant == ASSUME ScenarioConstants PROVE ScenarioSpec => []ScenarioInv
<1>1. ScenarioInit => ScenarioInv
  BY ScenarioStart
<1>2. ScenarioInv /\ [ScenarioNext]_Vars => ScenarioInv'
  BY ScenarioStep
<1> QED BY <1>1, <1>2, PTL DEF ScenarioSpec, Vars

\* What the invariant says of the files and the results, in the terms of AuditLog.
LEMMA ScenarioMeans ==
    ASSUME ScenarioConstants, ScenarioInv
    PROVE  CorruptOnlyWhenCorrupt /\ AnchorLags /\ AckedDurable /\ TypeOK
<1> USE DEF ScenarioInv
<1>1. CASE scenario = "processes"
  <2>1. NoFalseAlarm
    BY <1>1 DEF Killed!TypeInv, Killed!FaultFree, Killed!NoFalseAlarm, NoFalseAlarm
  <2>2. RestartRepairs
    BY <1>1 DEF Killed!Repairable, Killed!RestartRepairs, RestartRepairs
  <2>3. AnchorLag
    BY <1>1 DEF Killed!AnchorLag, AnchorLag, Killed!ValidChain, ValidChain, Killed!ReadEntries,
                ReadEntries, Killed!Anchor, Anchor, Killed!TipHash, TipHash, Killed!GenesisHash,
                GenesisHash, Killed!Hash, Hash, Killed!HashPayload, HashPayload
  <2>4. AckedDurable
    BY <1>1 DEF Killed!FileInv, Killed!AckedDurable, AckedDurable, Killed!Line, Line
  <2>5. TypeOK
    BY <1>1, BoundAssumption
    DEF Killed!TypeInv, Killed!TypeOK, TypeOK, Killed!LineType, LineType, Killed!EntryType,
        EntryType, ScenarioConstants
  <2> QED BY <1>1, <2>1, <2>2, <2>3, <2>4, <2>5 DEF CorruptOnlyWhenCorrupt, AnchorLags
<1>2. CASE scenario = "crash"
  BY <1>2 DEF CorruptOnlyWhenCorrupt, AnchorLags, FaultFree, NoFalseAlarm, FileInv, TypeInv
<1>3. CASE scenario = "power"
  <2>1. NoFalseAlarm
    BY <1>3 DEF Powered!TypeInv, Powered!FaultFree, Powered!NoFalseAlarm, NoFalseAlarm
  <2>2. AckedDurable
    BY <1>3 DEF Powered!FileInv, Powered!AckedDurable, AckedDurable, Powered!Line, Line
  <2>3. TypeOK
    BY <1>3, BoundAssumption
    DEF Powered!TypeInv, Powered!TypeOK, TypeOK, Powered!LineType, LineType, Powered!EntryType,
        EntryType, ScenarioConstants
  <2> QED BY <1>3, <2>1, <2>2, <2>3 DEF CorruptOnlyWhenCorrupt, AnchorLags
<1> QED BY <1>1, <1>2, <1>3

-----------------------------------------------------------------------------
(* What the run checks *)

\* No call takes the half-done work of another for corruption, and whatever point a
\* process was killed at the next one repairs the log and serves (_exclusive_lock;
\* recover_interrupted_append, server.py:25).
THEOREM OnlyCorruptionRefused ==
    ASSUME ScenarioConstants PROVE ScenarioSpec => []CorruptOnlyWhenCorrupt
<1>1. ScenarioInv => CorruptOnlyWhenCorrupt
  BY ScenarioMeans
<1> QED BY <1>1, ScenarioInvariant, PTL

\* A process that may start finds an anchor at most one entry behind the log while the
\* machine stays up (AuditLog.append anchors what it wrote).
THEOREM AnchorLagsInScenarios ==
    ASSUME ScenarioConstants PROVE ScenarioSpec => []AnchorLags
<1>1. ScenarioInv => AnchorLags
  BY ScenarioMeans
<1> QED BY <1>1, ScenarioInvariant, PTL

\* What append() returned stays whole, in its place and durable in every scenario.
THEOREM AckedDurableInScenarios ==
    ASSUME ScenarioConstants PROVE ScenarioSpec => [](TypeOK /\ AckedDurable)
<1>1. ScenarioInv => TypeOK /\ AckedDurable
  BY ScenarioMeans
<1> QED BY <1>1, ScenarioInvariant, PTL

\* append() returns only when the whole log and its anchor verify, in every scenario.
THEOREM AppendsVerifyInScenarios ==
    ASSUME ScenarioConstants PROVE ScenarioSpec => AppendLeavesValidLog
<1>1. ASSUME ScenarioInv, ScenarioNext, acked' # acked PROVE ValidTip(log, head)
  <2>1. CASE scenario = "processes"
    <3>1. Killed!ValidTip(log, head)
      <4>1. Killed!Next /\ Killed!FileInv
        BY <1>1, <2>1, SameKilled DEF ScenarioInv, ScenarioNext
      <4> QED BY <1>1, <4>1, InstanceConstants, Killed!AppendVerifies
    <3> QED BY <3>1 DEF Killed!ValidTip, ValidTip, Killed!Readable, Readable, Killed!Parsable,
                        Parsable, Killed!ValidChain, ValidChain, Killed!ReadEntries, ReadEntries,
                        Killed!Anchor, Anchor, Killed!TipHash, TipHash, Killed!GenesisHash,
                        GenesisHash, Killed!Hash, Hash, Killed!HashPayload, HashPayload
  <2>2. CASE scenario = "crash"
    BY <1>1, <2>2, SameCrash, AppendVerifies DEF ScenarioInv, ScenarioNext
  <2>3. CASE scenario = "power"
    <3>1. Powered!ValidTip(log, head)
      <4>1. Powered!Next /\ Powered!FileInv
        BY <1>1, <2>3, SamePowered DEF ScenarioInv, ScenarioNext
      <4> QED BY <1>1, <4>1, InstanceConstants, Powered!AppendVerifies
    <3> QED BY <3>1 DEF Powered!ValidTip, ValidTip, Powered!Readable, Readable, Powered!Parsable,
                        Parsable, Powered!ValidChain, ValidChain, Powered!ReadEntries, ReadEntries,
                        Powered!Anchor, Anchor, Powered!TipHash, TipHash, Powered!GenesisHash,
                        GenesisHash, Powered!Hash, Hash, Powered!HashPayload, HashPayload
  <2> QED BY <1>1, <2>1, <2>2, <2>3 DEF ScenarioInv
<1>2. ScenarioInv /\ [ScenarioNext]_Vars => [acked' # acked => ValidTip(log, head)]_vars
  BY <1>1 DEF Vars
<1> QED BY <1>2, ScenarioInvariant, PTL DEF ScenarioSpec, Vars, AppendLeavesValidLog

\* While the machine stays up, system calls that fail, short writes and kills leave one
\* chain that only grows, and that is extended only behind its anchor.
THEOREM CrashesKeepTheChain ==
    ASSUME ScenarioConstants, NoneIsNoAnchor PROVE ScenarioSpec => CrashChainSpec
<1>1. ScenarioInit => (scenario = "crash" => Chain!Init)
  BY SameCrash, ChainInit DEF ScenarioInit
<1>2. ScenarioInv /\ [ScenarioNext]_Vars => [scenario = "crash" => Chain!Next]_(Chain!vars)
  <2> SUFFICES ASSUME ScenarioInv, [ScenarioNext]_Vars, scenario = "crash"
               PROVE  [Chain!Next]_(Chain!vars)
    OBVIOUS
  <2>1. [Next]_vars
    BY ScenarioSteps
  <2> QED BY <2>1, ChainStep DEF ScenarioInv, ScenarioConstants
<1> QED BY <1>1, <1>2, ScenarioInvariant, PTL DEF ScenarioSpec, Vars, CrashChainSpec
=============================================================================
