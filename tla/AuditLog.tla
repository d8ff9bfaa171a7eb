------------------------------ MODULE AuditLog ------------------------------
(***************************************************************************)
(* mini_workbuddy/audit.py: the hash-chained audit log audit.jsonl, its    *)
(* anchor audit.head, and the two locks around them, shared by the threads *)
(* of several harness processes.  One step per system call that another    *)
(* process or a crash can separate: lock, read, write, fsync, replace,     *)
(* fsync of the directory, unlock.                                         *)
(*                                                                         *)
(* A hash is the sequence of the payloads it covers, so that it is free of *)
(* collisions; an entry's stored hash is determined by its other fields.   *)
(***************************************************************************)
EXTENDS Naturals, Sequences, FiniteSets

CONSTANTS
    Proc,           \* harness processes: the server, one per sidecar session
    Thread,         \* their threads
    ProcOf,         \* the process of a thread
    Payload,        \* what an entry records: timestamp, action and data
    LegacyData,     \* payloads of a log that predates audit.head
    Tears,          \* what an interrupted write can leave behind
    Faults,         \* the faults that occur
    MaxCalls,       \* bound on the calls made
    MaxFaults,      \* bound on the faults that occur
    None            \* no lock holder, no anchor, no entry

ASSUME ThreadAssumption == ProcOf \in [Thread -> Proc] /\ None \notin Proc \cup Thread
ASSUME LogAssumption == LegacyData \in Seq(Payload)
ASSUME FaultAssumption ==
    /\ Faults \subseteq {"oserror", "tear", "kill", "power"}
    /\ Tears \subseteq {"partial", "unterminated"}
    /\ ~ ("power" \in Faults /\ "unterminated" \in Tears)
ASSUME BoundAssumption == MaxCalls \in Nat /\ MaxFaults \in Nat

VARIABLES
    log,            \* the lines of audit.jsonl as a reader sees them
    synced,         \* how many of them survive a power loss
    head,           \* audit.head: [count, hash], or None if there is no file
    headSynced,     \* the audit.head that survives a power loss
    tlock,          \* the thread holding _PROCESS_LOCKS[path] of each process
    flock,          \* the process holding the flock on audit.lock
    status,         \* whether a process is down, starting or up
    pc,             \* where each thread is in its call
    op,             \* the method it called
    entry,          \* the entry it read or made
    result,         \* how its call ended
    acked,          \* the entries append() returned
    calls, faults   \* bounds: calls made and faults suffered

files == <<log, synced, head, headSynced>>
locks == <<tlock, flock>>
threads == <<pc, op, entry, result>>
vars == <<files, locks, status, threads, acked, calls, faults>>

GenesisHash == <<>>
HashPayload(prev, data) == Append(prev, data)
Hash(e) == HashPayload(e.prev, e.data)

Line(e, form) == [entry |-> e, form |-> form]
\* Faulty variant: a torn last line is skipped, not refused.
ParsableSkippingTail(l) == l.form \in {"complete", "unterminated", "partial"}

\* A complete line ends in a newline.  A torn one holds half an entry, or all
\* of it without the newline; a garbled one is two entries run together.
Parsable(l) == l.form \in {"complete", "unterminated"}

\* O_APPEND: new bytes continue a line that has no newline yet.
AppendBytes(lines, e, form) ==
    LET n == Len(lines) IN
    IF n = 0 \/ lines[n].form \in {"complete", "garbled"}
      THEN Append(lines, Line(e, form))
      ELSE [lines EXCEPT ![n].form = IF form = "complete" THEN "garbled" ELSE "partial"]

\* The line split of _read_lines_unlocked keeps a last line without newline.
ReadEntries(lines) == [i \in DOMAIN lines |-> lines[i].entry]
Readable(lines) == \A i \in DOMAIN lines : Parsable(lines[i])

TipHash(entries) == IF entries = <<>> THEN GenesisHash ELSE Hash(entries[Len(entries)])
ValidChain(entries) ==
    \A i \in DOMAIN entries :
        /\ entries[i].index = i
        /\ entries[i].prev = TipHash(SubSeq(entries, 1, i - 1))
Anchor(entries) == [count |-> Len(entries), hash |-> TipHash(entries)]

\* Faulty variant: append() validates the chain but not the anchor.
ValidTipWithoutAnchor(lines, anchor) == Readable(lines) /\ ValidChain(ReadEntries(lines))

ValidTip(lines, anchor) ==
    /\ Readable(lines)
    /\ ValidChain(ReadEntries(lines))
    /\ anchor \in {None, Anchor(ReadEntries(lines))}

LegacyEntry(i) == [index |-> i, prev |-> SubSeq(LegacyData, 1, i - 1), data |-> LegacyData[i]]

Init ==
    /\ log = [i \in 1..Len(LegacyData) |-> Line(LegacyEntry(i), "complete")]
    /\ synced = Len(LegacyData)
    /\ head = None
    /\ headSynced = None
    /\ tlock = [p \in Proc |-> None]
    /\ flock = None
    /\ status = [p \in Proc |-> "down"]
    /\ pc = [t \in Thread |-> "idle"]
    /\ op = [t \in Thread |-> "verify"]
    /\ entry = [t \in Thread |-> None]
    /\ result = [t \in Thread |-> "none"]
    /\ acked = {}
    /\ calls = 0
    /\ faults = 0

-----------------------------------------------------------------------------
(* Calls *)

Begin(t, o) ==
    /\ pc[t] = "idle"
    /\ calls < MaxCalls
    /\ calls' = calls + 1
    /\ op' = [op EXCEPT ![t] = o]
    /\ pc' = [pc EXCEPT ![t] = "thread_lock"]
    /\ result' = [result EXCEPT ![t] = "none"]
    /\ UNCHANGED <<files, locks, entry, acked, faults>>

\* HarnessRuntime.__init__ recovers before it serves anything.
StartProcess(p, t) ==
    /\ ProcOf[t] = p
    /\ status[p] = "down"
    /\ status' = [status EXCEPT ![p] = "starting"]
    /\ Begin(t, "recover")

Call(t, o) ==
    /\ status[ProcOf[t]] = "up"
    /\ Begin(t, o)
    /\ UNCHANGED status

StopProcess(p) ==
    /\ status[p] = "up"
    /\ \A t \in Thread : ProcOf[t] = p => pc[t] = "idle"
    /\ status' = [status EXCEPT ![p] = "down"]
    /\ UNCHANGED <<files, locks, threads, acked, calls, faults>>

Goto(t, label) == pc' = [pc EXCEPT ![t] = label]

AcquireThreadLock(t) ==
    /\ pc[t] = "thread_lock"
    /\ tlock[ProcOf[t]] = None
    /\ tlock' = [tlock EXCEPT ![ProcOf[t]] = t]
    /\ Goto(t, "flock")
    /\ UNCHANGED <<files, flock, status, op, entry, result, acked, calls, faults>>

\* Faulty variant: only the threads of one process exclude each other.
AcquireNoFileLock(t) ==
    /\ pc[t] = "flock"
    /\ flock' = ProcOf[t]
    /\ Goto(t, "read")
    /\ UNCHANGED <<files, tlock, status, op, entry, result, acked, calls, faults>>

\* The lock is granted per process, as the docstring of _process_lock says:
\* it does not keep two threads of one process apart.
AcquireFileLock(t) ==
    /\ pc[t] = "flock"
    /\ flock \in {None, ProcOf[t]}
    /\ flock' = ProcOf[t]
    /\ Goto(t, "read")
    /\ UNCHANGED <<files, tlock, status, op, entry, result, acked, calls, faults>>

Finish(t, outcome) ==
    /\ result' = [result EXCEPT ![t] = outcome]
    /\ Goto(t, "unlock")

\* append() and verify() read the chain and hold it against the anchor.
ReadForAppend(t) ==
    /\ pc[t] = "read" /\ op[t] = "append"
    /\ LET entries == ReadEntries(log) IN
       IF ValidTip(log, head)
         THEN \E d \in Payload :
                /\ entry' = [entry EXCEPT ![t] =
                     [index |-> Len(entries) + 1, prev |-> TipHash(entries), data |-> d]]
                /\ Goto(t, "write")
                /\ UNCHANGED result
         ELSE Finish(t, "corrupt") /\ UNCHANGED entry
    /\ UNCHANGED <<files, locks, status, op, acked, calls, faults>>

ReadForVerify(t) ==
    /\ pc[t] = "read" /\ op[t] = "verify"
    /\ Finish(t, IF ValidTip(log, head) THEN "ok" ELSE "corrupt")
    /\ UNCHANGED <<files, locks, status, op, entry, acked, calls, faults>>

\* Faulty variant: recovery holds the anchor against the tip.
RecoverableAtTip(lines, anchor) ==
    LET entries == ReadEntries(lines) IN
    /\ Readable(lines) /\ ValidChain(entries) /\ entries # <<>>
    /\ anchor = [count |-> Len(entries) - 1, hash |-> TipHash(entries)]

\* One whole entry past the anchor, and nothing else, can be recovered.
Recoverable(lines, anchor) ==
    LET entries == ReadEntries(lines) IN
    /\ Readable(lines) /\ ValidChain(entries) /\ entries # <<>>
    /\ anchor = Anchor(SubSeq(entries, 1, Len(entries) - 1))

ReadForRecover(t) ==
    /\ pc[t] = "read" /\ op[t] = "recover"
    /\ IF Recoverable(log, head)
         THEN /\ entry' = [entry EXCEPT ![t] = log[Len(log)].entry]
              /\ Goto(t, "replace")
              /\ UNCHANGED result
         ELSE /\ Finish(t, IF ValidTip(log, head) THEN "ok" ELSE "corrupt")
              /\ UNCHANGED entry
    /\ UNCHANGED <<files, locks, status, op, acked, calls, faults>>

Read(t) == ReadForAppend(t) \/ ReadForVerify(t) \/ ReadForRecover(t)

WriteEntry(t) ==
    /\ pc[t] = "write"
    /\ log' = AppendBytes(log, entry[t], "complete")
    /\ Goto(t, "fsync")
    /\ UNCHANGED <<synced, head, headSynced, locks, status, op, entry, result,
                   acked, calls, faults>>

\* Faulty variant: no fsync between the write and the new anchor.
SkipFsyncEntry(t) ==
    /\ pc[t] = "fsync"
    /\ Goto(t, "replace")
    /\ UNCHANGED <<files, locks, status, op, entry, result, acked, calls, faults>>

\* The data is durable, but a file just created is not yet: its directory
\* entry waits for _fsync_directory.
FsyncEntry(t) ==
    /\ pc[t] = "fsync"
    /\ synced' = IF synced = 0 THEN 0 ELSE Len(log)
    /\ Goto(t, "replace")
    /\ UNCHANGED <<log, head, headSynced, locks, status, op, entry, result,
                   acked, calls, faults>>

ReplaceHead(t) ==
    /\ pc[t] = "replace"
    /\ head' = [count |-> entry[t].index, hash |-> Hash(entry[t])]
    /\ Goto(t, "syncdir")
    /\ UNCHANGED <<log, synced, headSynced, locks, status, op, entry, result,
                   acked, calls, faults>>

\* The directory entry of the log becomes durable with that of the anchor; the
\* contents are what append() has fsynced itself.
FsyncDirectory(t) ==
    /\ pc[t] = "syncdir"
    /\ headSynced' = head
    /\ synced' = IF op[t] = "append" /\ synced = 0 THEN Len(log) ELSE synced
    /\ Finish(t, "ok")
    /\ UNCHANGED <<log, head, locks, status, op, entry, acked, calls, faults>>

\* Faulty variant: the file lock survives the call.
ReturnHoldingFileLock(t) ==
    LET p == ProcOf[t] IN
    /\ pc[t] = "unlock"
    /\ tlock' = [tlock EXCEPT ![p] = None]
    /\ Goto(t, "idle")
    /\ status' = IF op[t] # "recover" THEN status
                 ELSE [status EXCEPT ![p] = IF result[t] = "ok" THEN "up" ELSE "down"]
    /\ acked' = IF op[t] = "append" /\ result[t] = "ok" THEN acked \cup {entry[t]} ELSE acked
    /\ UNCHANGED <<files, flock, op, entry, result, calls, faults>>

\* Faulty variant: a refused append returns like any other.
ReturnRefused(t) ==
    LET p == ProcOf[t] IN
    /\ pc[t] = "unlock"
    /\ tlock' = [tlock EXCEPT ![p] = None]
    /\ flock' = IF flock = p THEN None ELSE flock
    /\ Goto(t, "idle")
    /\ status' = IF op[t] # "recover" THEN status
                 ELSE [status EXCEPT ![p] = IF result[t] = "ok" THEN "up" ELSE "down"]
    /\ acked' = IF op[t] = "append" THEN acked \cup {entry[t]} ELSE acked
    /\ UNCHANGED <<files, op, entry, result, calls, faults>>

\* _unlock_fd, the release of the thread lock, and the return.
Return(t) ==
    LET p == ProcOf[t] IN
    /\ pc[t] = "unlock"
    /\ tlock' = [tlock EXCEPT ![p] = None]
    /\ flock' = IF flock = p THEN None ELSE flock
    /\ Goto(t, "idle")
    /\ status' = IF op[t] # "recover" THEN status
                 ELSE [status EXCEPT ![p] = IF result[t] = "ok" THEN "up" ELSE "down"]
    /\ acked' = IF op[t] = "append" /\ result[t] = "ok" THEN acked \cup {entry[t]} ELSE acked
    /\ UNCHANGED <<files, op, entry, result, calls, faults>>

-----------------------------------------------------------------------------
(* Faults *)

Suffer(f) == f \in Faults /\ faults < MaxFaults /\ faults' = faults + 1

\* Faulty variant: a failure to move the anchor is swallowed.
RaiseOSErrorUnlessAnchoring(t) ==
    /\ pc[t] \in {"flock", "read", "write", "fsync", "replace", "syncdir"}
    /\ Suffer("oserror")
    /\ Finish(t, IF pc[t] = "read" THEN "corrupt"
                 ELSE IF pc[t] = "replace" THEN "ok" ELSE "oserror")
    /\ UNCHANGED <<files, locks, status, op, entry, acked, calls>>

\* A system call fails.  append() and recovery turn a failed read into
\* AuditCorruptionError; later failures reach the caller as they are.
RaiseOSError(t) ==
    /\ pc[t] \in {"flock", "read", "write", "fsync", "replace", "syncdir"}
    /\ Suffer("oserror")
    /\ Finish(t, IF pc[t] = "read" THEN "corrupt" ELSE "oserror")
    /\ UNCHANGED <<files, locks, status, op, entry, acked, calls>>

\* _write_all fails after a short write.
TearWrite(t) ==
    /\ pc[t] = "write"
    /\ Suffer("tear")
    /\ \E form \in Tears : log' = AppendBytes(log, entry[t], form)
    /\ Finish(t, "oserror")
    /\ UNCHANGED <<synced, head, headSynced, locks, status, op, entry, acked, calls>>

\* Everything the threads in S were doing is gone.
Abandon(S) ==
    /\ pc' = [t \in Thread |-> IF t \in S THEN "idle" ELSE pc[t]]
    /\ result' = [t \in Thread |-> IF t \in S THEN "none" ELSE result[t]]
    /\ UNCHANGED <<op, entry, acked, calls>>

\* The kernel keeps the pages written so far and releases the locks.
KillProcess(p) ==
    /\ status[p] # "down"
    /\ Suffer("kill")
    /\ \/ UNCHANGED log
       \/ \E t \in Thread, form \in Tears :
            /\ ProcOf[t] = p
            /\ pc[t] = "write"
            /\ log' = AppendBytes(log, entry[t], form)
    /\ tlock' = [tlock EXCEPT ![p] = None]
    /\ flock' = IF flock = p THEN None ELSE flock
    /\ status' = [status EXCEPT ![p] = "down"]
    /\ Abandon({t \in Thread : ProcOf[t] = p})
    /\ UNCHANGED <<synced, head, headSynced>>

\* Any prefix that holds the durable lines survives, its next line perhaps in
\* part, and either version of the anchor.
PowerLoss ==
    /\ Suffer("power")
    /\ \E n \in synced..Len(log) :
         \/ log' = SubSeq(log, 1, n)
         \/ /\ n < Len(log)
            /\ \E form \in Tears : log' = Append(SubSeq(log, 1, n), Line(log[n + 1].entry, form))
    /\ synced' = Len(log')
    /\ head' \in {head, headSynced}
    /\ headSynced' = head'
    /\ tlock' = [p \in Proc |-> None]
    /\ flock' = None
    /\ status' = [p \in Proc |-> "down"]
    /\ Abandon(Thread)

-----------------------------------------------------------------------------
Step(t) == \/ AcquireThreadLock(t) \/ AcquireFileLock(t) \/ Read(t)
           \/ WriteEntry(t) \/ FsyncEntry(t) \/ ReplaceHead(t)
           \/ FsyncDirectory(t) \/ Return(t)

Next ==
    \/ \E p \in Proc : StopProcess(p) \/ KillProcess(p) \/ \E t \in Thread : StartProcess(p, t)
    \/ \E t \in Thread : \/ Step(t)
                         \/ \E o \in {"append", "verify"} : Call(t, o)
                         \/ RaiseOSError(t) \/ TearWrite(t)
    \/ PowerLoss

Spec == Init /\ [][Next]_vars

\* A thread that is runnable eventually runs.  Nothing is assumed about the
\* order in which the locks are granted.
FairSpec == Spec /\ \A t \in Thread : WF_vars(Step(t))

-----------------------------------------------------------------------------
(* Properties *)

EntryType == [index : Nat, prev : Seq(Payload), data : Payload]
LineType == [entry : EntryType, form : {"complete", "partial", "unterminated", "garbled"}]

\* Every variable keeps its type.
TypeOK ==
    /\ log \in Seq(LineType)
    /\ synced \in 0..Len(log)
    /\ {head, headSynced} \subseteq [count : Nat, hash : Seq(Payload)] \cup {None}
    /\ tlock \in [Proc -> Thread \cup {None}]
    /\ flock \in Proc \cup {None}
    /\ status \in [Proc -> {"down", "starting", "up"}]
    /\ pc \in [Thread -> {"idle", "thread_lock", "flock", "read", "write", "fsync",
                          "replace", "syncdir", "unlock"}]
    /\ op \in [Thread -> {"append", "verify", "recover"}]
    /\ entry \in [Thread -> EntryType \cup {None}]
    /\ result \in [Thread -> {"none", "ok", "corrupt", "oserror"}]
    /\ acked \subseteq EntryType
    /\ calls \in 0..MaxCalls
    /\ faults \in 0..MaxFaults

\* An entry append() returned stays where it is, whole and on disk: no later
\* failure of another writer, recovery or power loss takes it back, replaces
\* it or runs it together with another line (append, _append_entry_unlocked).
AckedDurable ==
    \A e \in acked :
        /\ e.index \in 1..synced
        /\ log[e.index] = Line(e, "complete")

\* While the machine stays up the anchor names the tip of the log or the line
\* before it, and every line up to the anchor is whole: the one state that
\* recovery repairs is the only one an interrupted append can leave.
AnchorLag ==
    head # None =>
        \E n \in {Len(log) - 1, Len(log)} :
            /\ n > 0
            /\ \A i \in 1..n : log[i].form = "complete"
            /\ ValidChain(ReadEntries(log))
            /\ head = Anchor(SubSeq(ReadEntries(log), 1, n))

\* Concurrent appends, verifications and starts never see the log between the
\* write of an entry and of its anchor, and report it corrupt (read_entries'
\* comment, audit.py:164).
NoFalseAlarm == faults = 0 => \A t \in Thread : result[t] # "corrupt"

\* Whatever point of append or of an earlier recovery a process was killed at,
\* the next process to start repairs the log and serves (server.py:25).
RestartRepairs == \A t \in Thread : op[t] = "recover" => result[t] # "corrupt"

\* When append() returns an entry the log it extended still verifies: it was
\* not torn by an earlier failure (security-boundaries.md:19).
AppendLeavesValidLog == [][acked' # acked => ValidTip(log, head)]_vars

\* The anchor never vouches for an entry that a power loss can take back: "exactly
\* one durable JSONL entry follows it" (recover_interrupted_append).
PersistBeforePublish == head # None => head.count <= synced

\* With finitely many calls every call returns, also the one waiting for a
\* lock that another process or a killed one held.
EveryCallReturns == \A t \in Thread : pc[t] # "idle" ~> pc[t] = "idle"

Chain == INSTANCE AuditChain WITH
    chain <- [i \in {j \in DOMAIN log : log[j].form = "complete"} |-> log[i].entry.data],
    published <- IF head = None THEN None ELSE head.count,
    acked <- {e.index : e \in acked}

\* The files, locks and processes together implement the abstract chain.
ChainSpec == Chain!Spec
=============================================================================
