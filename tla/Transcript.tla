----------------------------- MODULE Transcript -----------------------------
(***************************************************************************)
(* mini_workbuddy/storage.py: append_event and read_transcript on the      *)
(* JSONL transcript of one session, called by the threads of one runtime   *)
(* process that may be killed and started again.  One step per system call *)
(* that another thread or a crash can separate.                            *)
(***************************************************************************)
EXTENDS Naturals, Sequences, FiniteSets

CONSTANTS
    Thread,         \* request handler threads
    LegacyLines,    \* how many lines without an envelope the file may start with
    Faults,         \* the faults that occur
    MaxCalls,       \* bound on the calls made
    MaxFaults,      \* bound on the faults that occur ...
    MaxNewFaults,   \* ... and, if there is no file at first
    None            \* no file, no lock holder, no sequence

VARIABLES
    file,           \* the lines of the transcript, or None if there is no file
    synced,         \* how many of them fsync has made durable
    linked,         \* whether the file's directory entry is durable
    lock,           \* the thread holding _transcript_lock(path)
    pc, op,         \* where each thread is in its call, and which it is
    envelope,       \* the [seq, id] a thread is writing
    created,        \* whether the file was missing when it opened it
    result,         \* how its call ended
    returned,       \* the envelopes append_event() returned
    calls, spare    \* bounds: calls made, which also number the events; faults left

disk == <<file, synced, linked>>
threads == <<pc, op, envelope, created, result>>
vars == <<disk, lock, threads, returned, calls, spare>>

\* A partial line has no newline; a garbled one is a partial line that was
\* continued.
Line(e, form) == [seq |-> e.seq, id |-> e.id, form |-> form]
Lines == IF file = None THEN <<>> ELSE file
LegacyEvent(i) == [seq |-> None, id |-> 0]

Torn(lines) == lines # <<>> /\ lines[Len(lines)].form = "partial"
Committed(lines) == IF Torn(lines) THEN SubSeq(lines, 1, Len(lines) - 1) ELSE lines

\* Whole lines must parse, and carry no sequence or the right one.
Valid(lines) == \A i \in DOMAIN lines : lines[i].form = "complete" /\ lines[i].seq \in {None, i}

AppendBytes(lines, e, form) ==
    IF Torn(lines)
      THEN [lines EXCEPT ![Len(lines)].form = IF form = "complete" THEN "garbled" ELSE "partial"]
      ELSE Append(lines, Line(e, form))

Init ==
    /\ \E n \in LegacyLines :
         file = IF n = 0 THEN None ELSE [i \in 1..n |-> Line(LegacyEvent(i), "complete")]
    /\ synced = Len(Lines)
    /\ linked = (file # None)
    /\ lock = None
    /\ pc = [t \in Thread |-> "idle"]
    /\ op = [t \in Thread |-> "read"]
    /\ envelope = [t \in Thread |-> None]
    /\ created = [t \in Thread |-> FALSE]
    /\ result = [t \in Thread |-> "none"]
    /\ returned = {}
    /\ calls = 0
    /\ spare = IF file = None THEN MaxNewFaults ELSE MaxFaults

-----------------------------------------------------------------------------
Goto(t, label) == pc' = [pc EXCEPT ![t] = label]

Finish(t, outcome) ==
    /\ result' = [result EXCEPT ![t] = outcome]
    /\ Goto(t, "unlock")

Call(t, o) ==
    /\ pc[t] = "idle"
    /\ calls < MaxCalls
    /\ calls' = calls + 1
    /\ op' = [op EXCEPT ![t] = o]
    /\ envelope' = [envelope EXCEPT ![t] = [seq |-> None, id |-> calls']]
    /\ result' = [result EXCEPT ![t] = "none"]
    /\ Goto(t, "lock")
    /\ UNCHANGED <<disk, lock, created, returned, spare>>

\* Faulty variant: handlers do not exclude each other.
AcquireNoLock(t) ==
    /\ pc[t] = "lock"
    /\ lock' = t
    /\ Goto(t, "read")
    /\ UNCHANGED <<disk, op, envelope, created, result, returned, calls, spare>>

AcquireLock(t) ==
    /\ pc[t] = "lock"
    /\ lock = None
    /\ lock' = t
    /\ Goto(t, "read")
    /\ UNCHANGED <<disk, op, envelope, created, result, returned, calls, spare>>

\* append_event derives the sequence from the whole lines it finds.
ReadTranscript(t) ==
    /\ pc[t] = "read"
    /\ IF ~ Valid(Committed(Lines))
         THEN Finish(t, "corrupt") /\ UNCHANGED envelope
         ELSE IF op[t] = "read"
           THEN Finish(t, "ok") /\ UNCHANGED envelope
           ELSE /\ envelope' = [envelope EXCEPT ![t].seq = Len(Committed(Lines)) + 1]
                /\ Goto(t, IF Torn(Lines) THEN "truncate" ELSE "open")
                /\ UNCHANGED result
    /\ UNCHANGED <<disk, lock, op, created, returned, calls, spare>>

\* Faulty variant: the uncommitted tail stays in the file.
TruncateNothing(t) ==
    /\ pc[t] = "truncate"
    /\ Goto(t, "open")
    /\ UNCHANGED <<disk, lock, op, envelope, created, result, returned, calls, spare>>

\* ftruncate and fsync: every line that is left is durable.
TruncatePartialTail(t) ==
    /\ pc[t] = "truncate"
    /\ file' = Committed(file)
    /\ synced' = Len(file')
    /\ Goto(t, "open")
    /\ UNCHANGED <<linked, lock, op, envelope, created, result, returned, calls, spare>>

OpenTranscript(t) ==
    /\ pc[t] = "open"
    /\ created' = [created EXCEPT ![t] = (file = None)]
    /\ file' = Lines
    /\ Goto(t, "write")
    /\ UNCHANGED <<synced, linked, lock, op, envelope, result, returned, calls, spare>>

WriteEvent(t) ==
    /\ pc[t] = "write"
    /\ file' = AppendBytes(file, envelope[t], "complete")
    /\ Goto(t, "fsync")
    /\ UNCHANGED <<synced, linked, lock, op, envelope, created, result, returned, calls, spare>>

\* Faulty variant: the event is left to the page cache.
SkipFsyncEvent(t) ==
    /\ pc[t] = "fsync"
    /\ IF created[t] THEN Goto(t, "syncdir") /\ UNCHANGED result ELSE Finish(t, "ok")
    /\ UNCHANGED <<disk, lock, op, envelope, created, returned, calls, spare>>

FsyncEvent(t) ==
    /\ pc[t] = "fsync"
    /\ synced' = Len(file)
    /\ IF created[t] THEN Goto(t, "syncdir") /\ UNCHANGED result ELSE Finish(t, "ok")
    /\ UNCHANGED <<file, linked, lock, op, envelope, created, returned, calls, spare>>

FsyncDirectory(t) ==
    /\ pc[t] = "syncdir"
    /\ linked' = TRUE
    /\ Finish(t, "ok")
    /\ UNCHANGED <<file, synced, lock, op, envelope, created, returned, calls, spare>>

\* Faulty variant: an exception leaves the lock held.
ReturnWithoutFinally(t) ==
    /\ pc[t] = "unlock"
    /\ lock' = IF result[t] = "ok" THEN None ELSE lock
    /\ Goto(t, "idle")
    /\ returned' = IF op[t] = "append" /\ result[t] = "ok"
                   THEN returned \cup {envelope[t]} ELSE returned
    /\ UNCHANGED <<disk, op, envelope, created, result, calls, spare>>

Return(t) ==
    /\ pc[t] = "unlock"
    /\ lock' = None
    /\ Goto(t, "idle")
    /\ returned' = IF op[t] = "append" /\ result[t] = "ok"
                   THEN returned \cup {envelope[t]} ELSE returned
    /\ UNCHANGED <<disk, op, envelope, created, result, calls, spare>>

-----------------------------------------------------------------------------
Suffer(f) == f \in Faults /\ spare > 0 /\ spare' = spare - 1

RaiseOSError(t) ==
    /\ pc[t] \in {"read", "truncate", "open", "write", "fsync", "syncdir"}
    /\ Suffer("oserror")
    /\ Finish(t, "oserror")
    /\ UNCHANGED <<disk, lock, op, envelope, created, returned, calls>>

TearWrite(t) ==
    /\ pc[t] = "write"
    /\ Suffer("tear")
    /\ file' = AppendBytes(file, envelope[t], "partial")
    /\ Finish(t, "oserror")
    /\ UNCHANGED <<synced, linked, lock, op, envelope, created, returned, calls>>

Abandon ==
    /\ lock' = None
    /\ pc' = [t \in Thread |-> "idle"]
    /\ result' = [t \in Thread |-> "none"]
    /\ UNCHANGED <<op, envelope, created, returned, calls>>

\* The process dies, perhaps in the middle of a write, and is started again.
KillProcess ==
    /\ Suffer("kill")
    /\ \/ UNCHANGED file
       \/ \E t \in Thread : /\ pc[t] = "write"
                            /\ file' = AppendBytes(file, envelope[t], "partial")
    /\ Abandon
    /\ UNCHANGED <<synced, linked>>

\* A prefix of the file that holds the durable lines survives, its next line
\* perhaps in part; a file whose directory entry is not durable may be gone.
PowerLoss ==
    /\ Suffer("power")
    /\ \/ /\ ~ linked
          /\ file' = None
       \/ /\ file # None
          /\ \E n \in synced..Len(file) :
               \/ file' = SubSeq(file, 1, n)
               \/ /\ n < Len(file)
                  /\ file' = Append(SubSeq(file, 1, n), [file[n + 1] EXCEPT !.form = "partial"])
    /\ linked' = (file' # None)
    /\ synced' = IF file' = None THEN 0 ELSE Len(file')
    /\ Abandon

-----------------------------------------------------------------------------
Step(t) == \/ AcquireLock(t) \/ ReadTranscript(t) \/ TruncatePartialTail(t)
           \/ OpenTranscript(t) \/ WriteEvent(t) \/ FsyncEvent(t)
           \/ FsyncDirectory(t) \/ Return(t)

Next ==
    \/ \E t \in Thread : \/ Step(t) \/ RaiseOSError(t) \/ TearWrite(t)
                         \/ \E o \in {"append", "read"} : Call(t, o)
    \/ KillProcess
    \/ PowerLoss

Spec == Init /\ [][Next]_vars

\* A runnable thread eventually runs; the lock is granted in any order.
FairSpec == Spec /\ \A t \in Thread : WF_vars(Step(t))

-----------------------------------------------------------------------------
(* Properties *)

\* An envelope append_event() returned stays at its sequence, whole and
\* durable, whatever fails afterwards: audit and live events refer to it.
ReturnedDurable ==
    \A e \in returned :
        /\ e.seq \in 1..synced
        /\ file[e.seq] = Line(e, "complete")

\* No crash at any point, and no order of handlers, leaves a transcript that a
\* later call refuses as corrupt (storage.py:183: only the unterminated tail is dropped).
NeverCorrupt == \A t \in Thread : result[t] # "corrupt"

\* With finitely many calls every call returns, whatever the others suffered.
EveryCallReturns == \A t \in Thread : pc[t] # "idle" ~> pc[t] = "idle"

Events == INSTANCE EventLog WITH
    Legacy <- {[i \in 1..n |-> 0] : n \in LegacyLines},
    EventId <- 1..MaxCalls,
    events <- [i \in DOMAIN Committed(Lines) |-> Committed(Lines)[i].id]

\* The file implements a list of events that only grows, a power loss apart,
\* which takes back nothing append_event() returned.
EventLogSpec == Events!Spec
=============================================================================
