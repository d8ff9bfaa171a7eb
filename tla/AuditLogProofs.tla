--------------------------- MODULE AuditLogProofs ---------------------------
(***************************************************************************)
(* Proofs about AuditLog for any processes, threads, payloads, bounds and  *)
(* faults, as long as an interrupted write does not leave a whole entry    *)
(* without its newline (see the run audit_torn_line for that case).        *)
(***************************************************************************)
EXTENDS AuditLog, TLAPS, SequenceTheorems

\* Inside the critical section with the file lock held.
Critical(t) == \/ pc[t] \in {"read", "write", "fsync", "replace", "syncdir"}
               \/ pc[t] = "unlock" /\ result[t] = "ok"

\* Who is past the thread lock holds it; who is in the critical section holds the file lock.
LockInv ==
    /\ \A t \in Thread : pc[t] \notin {"idle", "thread_lock"} => tlock[ProcOf[t]] = t
    /\ \A t \in Thread : Critical(t) => flock = ProcOf[t]

\* Each line was written whole, or was cut short so that it does not parse.
Whole == \A i \in DOMAIN log : log[i].form \in {"complete", "partial"}

\* The log ends in the entry of t and verifies up to its tip.
EndsWith(t) ==
    /\ entry[t] \in EntryType
    /\ log # <<>>
    /\ log[Len(log)].entry = entry[t]
    /\ Readable(log)
    /\ ValidChain(ReadEntries(log))

\* What a thread knows about the files at each point of its call.
Knows(t) ==
    /\ pc[t] = "write" =>
          /\ op[t] = "append"
          /\ entry[t] \in EntryType
          /\ ValidTip(log, head)
          /\ entry[t].index = Len(log) + 1
          /\ entry[t].prev = TipHash(ReadEntries(log))
    /\ pc[t] = "fsync" => op[t] = "append"
    /\ pc[t] \in {"fsync", "replace", "syncdir"} => EndsWith(t)
    /\ pc[t] \in {"replace", "syncdir"} /\ op[t] = "append" => synced \in {0, Len(log)}
    /\ pc[t] = "syncdir" => head = Anchor(ReadEntries(log))
    /\ pc[t] = "unlock" /\ op[t] = "append" /\ result[t] = "ok" =>
          /\ EndsWith(t)
          /\ head = Anchor(ReadEntries(log))
          /\ synced = Len(log)

\* What holds of the files at every point of every call.
FileInv == Whole /\ (\A t \in Thread : Knows(t)) /\ AckedDurable

-----------------------------------------------------------------------------
(* Lemmas about the log *)

\* At most one thread is in the critical section.
LEMMA MutualExclusion ==
    ASSUME LockInv, NEW t \in Thread, NEW u \in Thread, Critical(t), Critical(u)
    PROVE  t = u
  BY DEF LockInv, Critical

\* A readable log of whole or partial lines has complete lines only, and an
\* append then adds a line of its own.
LEMMA AppendToReadable ==
    ASSUME NEW lines \in Seq(LineType), NEW e, NEW form,
           Readable(lines),
           \A i \in DOMAIN lines : lines[i].form \in {"complete", "partial"}
    PROVE  /\ \A i \in DOMAIN lines : lines[i].form = "complete"
           /\ AppendBytes(lines, e, form) = Append(lines, Line(e, form))
  BY DEF Readable, Parsable, AppendBytes

\* Entries read from typed lines are typed.
LEMMA ReadEntriesType ==
    ASSUME NEW lines \in Seq(LineType)
    PROVE  /\ ReadEntries(lines) \in Seq(EntryType)
           /\ Len(ReadEntries(lines)) = Len(lines)
           /\ \A i \in 1..Len(lines) : ReadEntries(lines)[i] = lines[i].entry
<1>1. DOMAIN lines = 1..Len(lines) /\ Len(lines) \in Nat
  BY LenProperties
<1>2. ASSUME NEW i \in 1..Len(lines)
      PROVE  lines[i].entry \in EntryType
  <2>1. lines[i] \in LineType
    BY ElementOfSeq
  <2> QED BY <2>1 DEF LineType
<1>3. ReadEntries(lines) \in [1..Len(lines) -> EntryType]
  BY <1>1, <1>2 DEF ReadEntries
<1>4. ReadEntries(lines) \in Seq(EntryType)
  BY <1>1, <1>3, SeqDef
<1>5. DOMAIN ReadEntries(lines) = 1..Len(lines)
  BY <1>3
<1> QED BY <1>1, <1>4, <1>5, LenProperties DEF ReadEntries

\* The hash an appended entry links to is a sequence of payloads.
LEMMA TipHashType ==
    ASSUME NEW entries \in Seq(EntryType)
    PROVE  TipHash(entries) \in Seq(Payload)
<1>1. CASE entries = <<>>
  BY <1>1, EmptySeq DEF TipHash, GenesisHash
<1>2. CASE entries # <<>>
  <2>1. Len(entries) \in 1..Len(entries)
    BY <1>2, EmptySeq
  <2>2. entries[Len(entries)] \in EntryType
    BY <2>1, ElementOfSeq
  <2> QED BY <1>2, <2>2, AppendProperties DEF TipHash, Hash, HashPayload, EntryType
<1> QED BY <1>1, <1>2

\* Linking an entry to the tip of a valid chain gives a valid chain.
LEMMA ExtendChain ==
    ASSUME NEW lines \in Seq(LineType), NEW e \in EntryType,
           Readable(lines), ValidChain(ReadEntries(lines)),
           e.index = Len(lines) + 1, e.prev = TipHash(ReadEntries(lines))
    PROVE  LET new == Append(lines, Line(e, "complete")) IN
           Readable(new) /\ ValidChain(ReadEntries(new))
<1> DEFINE new == Append(lines, Line(e, "complete"))
           old == ReadEntries(lines)
           ext == ReadEntries(new)
<1>1. new \in Seq(LineType) /\ Len(new) = Len(lines) + 1
  BY DEF Line, LineType
<1>2. /\ \A i \in 1..Len(lines) : new[i] = lines[i]
      /\ new[Len(lines) + 1] = Line(e, "complete")
  OBVIOUS
<1>3. Readable(new)
  <2>1. DOMAIN new = 1..(Len(lines) + 1) /\ DOMAIN lines = 1..Len(lines)
    BY <1>1, LenProperties
  <2>2. Line(e, "complete").form = "complete"
    BY DEF Line
  <2> QED BY <1>2, <2>1, <2>2, LenProperties DEF Readable, Parsable
<1>4. /\ old \in Seq(EntryType) /\ Len(old) = Len(lines)
      /\ ext \in Seq(EntryType) /\ Len(ext) = Len(lines) + 1
      /\ \A i \in 1..Len(lines) : ext[i] = old[i]
      /\ ext[Len(lines) + 1] = e
  <2>1. Line(e, "complete").entry = e
    BY DEF Line
  <2> HIDE DEF new
  <2> QED BY <1>1, <1>2, <2>1, ReadEntriesType, LenProperties
<1>5. ValidChain(old) /\ e.index = Len(old) + 1 /\ e.prev = TipHash(old)
  BY <1>4
<1> HIDE DEF new, old, ext
<1>6. \A i \in 1..Len(ext) : SubSeq(ext, 1, i - 1) = SubSeq(old, 1, i - 1)
  <2> SUFFICES ASSUME NEW i \in 1..Len(ext)
               PROVE  SubSeq(ext, 1, i - 1) = SubSeq(old, 1, i - 1)
    OBVIOUS
  <2>1. i - 1 \in 0..Len(old) /\ i - 1 \in 0..Len(ext)
    BY <1>4
  <2> QED BY <1>4, <2>1
<1>7. SubSeq(old, 1, Len(old)) = old
  BY <1>4
<1>8. ASSUME NEW i \in 1..Len(ext)
      PROVE  ext[i].index = i /\ ext[i].prev = TipHash(SubSeq(ext, 1, i - 1))
  <2>1. CASE i \in 1..Len(old)
    <3>1. i \in DOMAIN old
      BY <2>1, <1>4, LenProperties
    <3> QED BY <2>1, <3>1, <1>4, <1>5, <1>6 DEF ValidChain
  <2>2. CASE i = Len(old) + 1
    <3>1. SubSeq(ext, 1, i - 1) = old
      BY <2>2, <1>4, <1>6, <1>7
    <3> QED BY <2>2, <3>1, <1>4, <1>5
  <2> QED BY <2>1, <2>2, <1>4
<1>9. ValidChain(ext)
  BY <1>4, <1>8, LenProperties DEF ValidChain
<1> QED BY <1>3, <1>9 DEF new, ext

\* The anchor written for the last entry of a valid chain names its tip.
LEMMA AnchorOfLast ==
    ASSUME NEW t, log \in Seq(LineType), EndsWith(t)
    PROVE  /\ entry[t].index = Len(log)
           /\ [count |-> entry[t].index, hash |-> Hash(entry[t])] = Anchor(ReadEntries(log))
<1>1. Len(log) \in Nat /\ Len(log) # 0
  BY DEF EndsWith
<1>2. /\ ReadEntries(log) \in Seq(EntryType)
      /\ Len(ReadEntries(log)) = Len(log)
      /\ ReadEntries(log)[Len(log)] = entry[t]
  BY <1>1, ReadEntriesType DEF EndsWith
<1>3. entry[t].index = Len(log)
  BY <1>1, <1>2 DEF EndsWith, ValidChain
<1>4. ReadEntries(log) # <<>>
  BY <1>1, <1>2
<1> QED BY <1>2, <1>3, <1>4 DEF Anchor, TipHash

\* Appending bytes to a typed log gives a typed log that is not shorter.
LEMMA AppendBytesType ==
    ASSUME NEW lines \in Seq(LineType), NEW e \in EntryType,
           NEW form \in {"complete", "partial", "unterminated"}
    PROVE  /\ AppendBytes(lines, e, form) \in Seq(LineType)
           /\ Len(AppendBytes(lines, e, form)) >= Len(lines)
<1> DEFINE n == Len(lines)
           new == IF form = "complete" THEN "garbled" ELSE "partial"
<1>1. n \in Nat
  BY LenProperties
<1>2. CASE n = 0 \/ lines[n].form \in {"complete", "garbled"}
  <2>1. Line(e, form) \in LineType
    BY DEF Line, LineType
  <2> QED BY <1>1, <1>2, <2>1, AppendProperties DEF AppendBytes
<1>3. CASE ~ (n = 0 \/ lines[n].form \in {"complete", "garbled"})
  <2>1. n \in 1..n
    BY <1>1, <1>3
  <2>2. lines[n] \in LineType
    BY <2>1, ElementOfSeq
  <2>3. [lines[n] EXCEPT !.form = new] \in LineType
    BY <2>2 DEF LineType
  <2>4. /\ [lines EXCEPT ![n] = [lines[n] EXCEPT !.form = new]] \in Seq(LineType)
        /\ Len([lines EXCEPT ![n] = [lines[n] EXCEPT !.form = new]]) = n
    BY <2>1, <2>3, ExceptSeq
  <2>5. AppendBytes(lines, e, form) = [lines EXCEPT ![n].form = new]
    BY <1>3 DEF AppendBytes
  <2> QED BY <1>1, <2>4, <2>5
<1> QED BY <1>2, <1>3

-----------------------------------------------------------------------------
(* Types *)

\* The entry a thread is about to write, publish or return.
EntryMade ==
    \A t \in Thread :
        \/ pc[t] \in {"write", "fsync", "replace", "syncdir"}
        \/ pc[t] = "unlock" /\ op[t] = "append" /\ result[t] = "ok"
        => entry[t] \in EntryType

\* The types, and that a writer past its read has made an entry.
TypeInv == TypeOK /\ EntryMade

\* The types hold at first.
LEMMA TypeInit == Init => TypeInv
<1> SUFFICES ASSUME Init PROVE TypeInv
  OBVIOUS
<1> USE ThreadAssumption, LogAssumption, FaultAssumption, BoundAssumption
<1> DEFINE n == Len(LegacyData)
<1>1. n \in Nat
  BY LenProperties
<1>2. ASSUME NEW i \in 1..n
      PROVE  Line(LegacyEntry(i), "complete") \in LineType
  <2>1. LegacyData[i] \in Payload
    BY ElementOfSeq
  <2>2. SubSeq(LegacyData, 1, i - 1) \in Seq(Payload)
    BY <1>1
  <2> QED BY <2>1, <2>2 DEF Line, LegacyEntry, LineType, EntryType
<1>3. log \in [1..n -> LineType]
  BY <1>2 DEF Init
<1>4. log \in Seq(LineType) /\ Len(log) = n
  BY <1>1, <1>3, SeqDef, LenProperties
<1> QED BY <1>1, <1>4 DEF Init, TypeInv, TypeOK, EntryMade

\* Every step keeps the types.
LEMMA TypeNext == TypeInv /\ [Next]_vars => TypeInv'
<1> SUFFICES ASSUME TypeInv, [Next]_vars PROVE TypeInv'
  OBVIOUS
<1> USE ThreadAssumption, FaultAssumption, BoundAssumption DEF TypeInv, TypeOK, EntryMade
<1>1. ASSUME NEW p \in Proc, NEW t \in Thread, StartProcess(p, t) PROVE TypeInv'
  BY <1>1 DEF StartProcess, Begin, files, locks
<1>2. ASSUME NEW t \in Thread, NEW o \in {"append", "verify"}, Call(t, o) PROVE TypeInv'
  BY <1>2 DEF Call, Begin, files, locks
<1>3. ASSUME NEW p \in Proc, StopProcess(p) PROVE TypeInv'
  BY <1>3 DEF StopProcess, files, locks, threads
<1>4. ASSUME NEW t \in Thread, AcquireThreadLock(t) PROVE TypeInv'
  BY <1>4 DEF AcquireThreadLock, Goto, files
<1>5. ASSUME NEW t \in Thread, AcquireFileLock(t) PROVE TypeInv'
  BY <1>5 DEF AcquireFileLock, Goto, files
<1>6. ASSUME NEW t \in Thread, ReadForAppend(t) PROVE TypeInv'
  <2>1. ReadEntries(log) \in Seq(EntryType) /\ TipHash(ReadEntries(log)) \in Seq(Payload)
    BY ReadEntriesType, TipHashType
  <2>2. ASSUME NEW d \in Payload
        PROVE  [index |-> Len(ReadEntries(log)) + 1, prev |-> TipHash(ReadEntries(log)),
                data |-> d] \in EntryType
    BY <2>1, LenProperties DEF EntryType
  <2> QED BY <1>6, <2>2 DEF ReadForAppend, Finish, Goto, files, locks
<1>7. ASSUME NEW t \in Thread, ReadForVerify(t) PROVE TypeInv'
  BY <1>7 DEF ReadForVerify, Finish, Goto, files, locks
<1>8. ASSUME NEW t \in Thread, ReadForRecover(t) PROVE TypeInv'
  <2>1. Recoverable(log, head) => log[Len(log)].entry \in EntryType
    <3> SUFFICES ASSUME Recoverable(log, head) PROVE log[Len(log)].entry \in EntryType
      OBVIOUS
    <3>1. Len(log) \in 1..Len(log)
      <4>1. Len(ReadEntries(log)) = Len(log) /\ ReadEntries(log) \in Seq(EntryType)
        BY ReadEntriesType
      <4> QED BY <4>1, EmptySeq DEF Recoverable
    <3>2. log[Len(log)] \in LineType
      BY <3>1, ElementOfSeq
    <3> QED BY <3>2 DEF LineType
  <2> QED BY <1>8, <2>1 DEF ReadForRecover, Finish, Goto, files, locks
<1>9. ASSUME NEW t \in Thread, WriteEntry(t) PROVE TypeInv'
  <2>1. log' \in Seq(LineType) /\ Len(log') >= Len(log)
    BY <1>9, AppendBytesType DEF WriteEntry
  <2> QED BY <1>9, <2>1, LenProperties DEF WriteEntry, Goto, locks
<1>10. ASSUME NEW t \in Thread, FsyncEntry(t) PROVE TypeInv'
  BY <1>10, LenProperties DEF FsyncEntry, Goto, locks
<1>11. ASSUME NEW t \in Thread, ReplaceHead(t) PROVE TypeInv'
  <2>1. Hash(entry[t]) \in Seq(Payload) /\ entry[t].index \in Nat
    BY <1>11, AppendProperties DEF ReplaceHead, Hash, HashPayload, EntryType
  <2> QED BY <1>11, <2>1 DEF ReplaceHead, Goto, locks
<1>12. ASSUME NEW t \in Thread, FsyncDirectory(t) PROVE TypeInv'
  BY <1>12, LenProperties DEF FsyncDirectory, Finish, Goto, locks
<1>13. ASSUME NEW t \in Thread, Return(t) PROVE TypeInv'
  BY <1>13 DEF Return, Goto, files
<1>14. ASSUME NEW t \in Thread, RaiseOSError(t) PROVE TypeInv'
  BY <1>14 DEF RaiseOSError, Suffer, Finish, Goto, files, locks
<1>15. ASSUME NEW t \in Thread, TearWrite(t) PROVE TypeInv'
  <2>1. log' \in Seq(LineType) /\ Len(log') >= Len(log)
    <3>1. PICK form \in Tears : log' = AppendBytes(log, entry[t], form)
      BY <1>15 DEF TearWrite
    <3> QED BY <1>15, <3>1, AppendBytesType DEF TearWrite
  <2> QED BY <1>15, <2>1, LenProperties DEF TearWrite, Suffer, Finish, Goto, locks
<1>16. ASSUME NEW p \in Proc, KillProcess(p) PROVE TypeInv'
  <2>1. log' \in Seq(LineType) /\ Len(log') >= Len(log)
    <3>1. CASE UNCHANGED log
      BY <3>1, LenProperties
    <3>2. CASE \E t \in Thread, form \in Tears :
                 pc[t] = "write" /\ log' = AppendBytes(log, entry[t], form)
      <4>1. PICK t \in Thread, form \in Tears :
                   pc[t] = "write" /\ log' = AppendBytes(log, entry[t], form)
        BY <3>2
      <4> QED BY <4>1, AppendBytesType
    <3> QED BY <1>16, <3>1, <3>2 DEF KillProcess
  <2>2. synced' \in 0..Len(log') /\ faults' \in 0..MaxFaults
    BY <1>16, <2>1, LenProperties DEF KillProcess, Suffer
  <2> QED BY <1>16, <2>1, <2>2 DEF KillProcess, Abandon
<1>17. ASSUME PowerLoss PROVE TypeInv'
  <2>1. log' \in Seq(LineType)
    <3>1. PICK n \in synced..Len(log) :
             \/ log' = SubSeq(log, 1, n)
             \/ /\ n < Len(log)
                /\ \E form \in Tears :
                      log' = Append(SubSeq(log, 1, n), Line(log[n + 1].entry, form))
      BY <1>17 DEF PowerLoss
    <3>2. n \in Nat /\ n <= Len(log) /\ SubSeq(log, 1, n) \in Seq(LineType)
      BY <3>1, LenProperties
    <3>3. ASSUME n < Len(log), NEW form \in Tears
          PROVE  Line(log[n + 1].entry, form) \in LineType
      <4>1. log[n + 1] \in LineType
        BY <3>2, <3>3, ElementOfSeq, LenProperties
      <4> QED BY <4>1 DEF Line, LineType
    <3>4. CASE log' = SubSeq(log, 1, n)
      BY <3>2, <3>4
    <3>5. ASSUME n < Len(log), NEW form \in Tears,
                 log' = Append(SubSeq(log, 1, n), Line(log[n + 1].entry, form))
          PROVE  log' \in Seq(LineType)
      <4>1. Line(log[n + 1].entry, form) \in LineType
        BY <3>3, <3>5
      <4> QED BY <3>2, <3>5, <4>1, AppendProperties
    <3> QED BY <3>1, <3>4, <3>5
  <2>2. synced' \in 0..Len(log') /\ faults' \in 0..MaxFaults
    BY <1>17, <2>1, LenProperties DEF PowerLoss, Suffer
  <2> QED BY <1>17, <2>1, <2>2 DEF PowerLoss, Abandon
<1>18. CASE UNCHANGED vars
  BY <1>18 DEF vars, files, locks, threads
<1> QED BY <1>1, <1>2, <1>3, <1>4, <1>5, <1>6, <1>7, <1>8, <1>9, <1>10, <1>11, <1>12,
           <1>13, <1>14, <1>15, <1>16, <1>17, <1>18 DEF Next, Step, Read

\* Every variable keeps its type, whatever fails.
THEOREM TypeCorrect == Spec => []TypeOK
<1>1. Spec => []TypeInv
  BY TypeInit, TypeNext, PTL DEF Spec
<1> QED BY <1>1, PTL DEF TypeInv
-----------------------------------------------------------------------------
(* Locks *)

LEMMA LockInit == Init => LockInv
  BY DEF Init, LockInv, Critical

\* Every step keeps the discipline of the two locks.
LEMMA LockNext == TypeOK /\ LockInv /\ [Next]_vars => LockInv'
<1> SUFFICES ASSUME TypeOK, LockInv, [Next]_vars PROVE LockInv'
  OBVIOUS
<1> USE ThreadAssumption DEF TypeOK, LockInv, Critical
<1>1. ASSUME NEW p \in Proc, NEW t \in Thread, StartProcess(p, t) PROVE LockInv'
  BY <1>1 DEF StartProcess, Begin, locks
<1>2. ASSUME NEW t \in Thread, NEW o \in {"append", "verify"}, Call(t, o) PROVE LockInv'
  BY <1>2 DEF Call, Begin, locks
<1>3. ASSUME NEW p \in Proc, StopProcess(p) PROVE LockInv'
  BY <1>3 DEF StopProcess, locks, threads
<1>4. ASSUME NEW t \in Thread, AcquireThreadLock(t) PROVE LockInv'
  BY <1>4 DEF AcquireThreadLock, Goto
<1>5. ASSUME NEW t \in Thread, AcquireFileLock(t) PROVE LockInv'
  BY <1>5 DEF AcquireFileLock, Goto
<1>6. ASSUME NEW t \in Thread, ReadForAppend(t) PROVE LockInv'
  BY <1>6 DEF ReadForAppend, Finish, Goto, locks
<1>7. ASSUME NEW t \in Thread, ReadForVerify(t) PROVE LockInv'
  BY <1>7 DEF ReadForVerify, Finish, Goto, locks
<1>8. ASSUME NEW t \in Thread, ReadForRecover(t) PROVE LockInv'
  BY <1>8 DEF ReadForRecover, Finish, Goto, locks
<1>9. ASSUME NEW t \in Thread, WriteEntry(t) \/ FsyncEntry(t) \/ ReplaceHead(t) PROVE LockInv'
  BY <1>9 DEF WriteEntry, FsyncEntry, ReplaceHead, Goto, locks
<1>10. ASSUME NEW t \in Thread, FsyncDirectory(t) PROVE LockInv'
  BY <1>10 DEF FsyncDirectory, Finish, Goto, locks
<1>11. ASSUME NEW t \in Thread, Return(t) PROVE LockInv'
  BY <1>11 DEF Return, Goto
<1>12. ASSUME NEW t \in Thread, RaiseOSError(t) PROVE LockInv'
  BY <1>12 DEF RaiseOSError, Finish, Goto, locks
<1>13. ASSUME NEW t \in Thread, TearWrite(t) PROVE LockInv'
  BY <1>13 DEF TearWrite, Finish, Goto, locks
<1>14. ASSUME NEW p \in Proc, KillProcess(p) PROVE LockInv'
  BY <1>14 DEF KillProcess, Abandon
<1>15. ASSUME PowerLoss PROVE LockInv'
  BY <1>15 DEF PowerLoss, Abandon
<1>16. CASE UNCHANGED vars
  BY <1>16 DEF vars, locks, threads
<1> QED BY <1>1, <1>2, <1>3, <1>4, <1>5, <1>6, <1>7, <1>8, <1>9, <1>10, <1>11, <1>12,
           <1>13, <1>14, <1>15, <1>16 DEF Next, Step, Read

\* At most one thread of all processes is between reading the log and having
\* published its anchor.
THEOREM OneWriter ==
    Spec => [](\A t, u \in Thread : Critical(t) /\ Critical(u) => t = u)
<1>1. Spec => []TypeInv
  BY TypeInit, TypeNext, PTL DEF Spec
<1>2. Spec => []LockInv
  BY <1>1, LockInit, LockNext, PTL DEF Spec, TypeInv
<1>3. LockInv => \A t, u \in Thread : Critical(t) /\ Critical(u) => t = u
  BY MutualExclusion
<1> QED BY <1>2, <1>3, PTL
-----------------------------------------------------------------------------
(* Files.  PartialTears is the hypothesis of everything below. *)

PartialTears == Tears \subseteq {"partial"}

\* What is known of the files holds at first.
LEMMA FileInit == Init => FileInv
<1> SUFFICES ASSUME Init PROVE FileInv
  OBVIOUS
<1>1. Whole
  BY DEF Init, Whole, Line
<1> QED BY <1>1 DEF Init, FileInv, Knows, AckedDurable

\* A step that leaves the files and a thread alone leaves what it knows.
LEMMA KnowsFrame ==
    ASSUME NEW u \in Thread, Knows(u),
           UNCHANGED <<log, synced, head>>,
           pc'[u] = pc[u], op'[u] = op[u], entry'[u] = entry[u], result'[u] = result[u]
    PROVE  Knows(u)'
  BY DEF Knows, EndsWith

\* A thread outside the critical section knows nothing.
LEMMA KnowsNothing ==
    ASSUME NEW u \in Thread, ~ Critical(u)
    PROVE  Knows(u)
  BY DEF Knows, Critical

\* Adding a line to the log, or none, keeps what is durable.
LEMMA DurableAppend ==
    ASSUME log \in Seq(LineType), synced \in 0..Len(log), AckedDurable, UNCHANGED acked,
           synced' \in Nat, synced' >= synced,
           \/ UNCHANGED log
           \/ \E l \in LineType : log' = Append(log, l)
    PROVE  AckedDurable'
<1>1. Len(log) \in Nat
  BY LenProperties
<1>2. \A i \in 1..synced : log'[i] = log[i] /\ i \in 1..synced'
  BY <1>1, AppendProperties
<1> QED BY <1>2 DEF AckedDurable

\* Every step keeps what is known of the files.
LEMMA FileNext ==
    ASSUME PartialTears, TypeInv, TypeInv', LockInv, LockInv', FileInv, [Next]_vars
    PROVE  FileInv'
<1> USE ThreadAssumption DEF TypeInv, TypeOK
<1> DEFINE Others(t) == \A u \in Thread \ {t} :
               pc'[u] = pc[u] /\ op'[u] = op[u] /\ entry'[u] = entry[u] /\ result'[u] = result[u]
<1>0. Whole /\ (\A t \in Thread : Knows(t)) /\ AckedDurable
  BY DEF FileInv
\* Steps that touch no file and leave the other threads alone.
<1>1. ASSUME NEW t \in Thread, Others(t), UNCHANGED <<log, synced, head, acked>>, Knows(t)'
      PROVE  FileInv'
  <2>1. Whole' /\ AckedDurable'
    BY <1>0, <1>1 DEF Whole, AckedDurable
  <2>2. ASSUME NEW u \in Thread PROVE Knows(u)'
    BY <1>0, <1>1, KnowsFrame
  <2> QED BY <2>1, <2>2 DEF FileInv
\* In a step of a thread in the critical section the others know nothing.
<1>2. ASSUME NEW t \in Thread, Critical(t), Others(t), Whole', Knows(t)', AckedDurable'
      PROVE  FileInv'
  <2>1. ASSUME NEW u \in Thread \ {t} PROVE Knows(u)'
    <3>1. ~ Critical(u)
      BY <1>2, MutualExclusion
    <3>2. ~ Critical(u)'
      BY <1>2, <3>1 DEF Critical
    <3> QED BY <3>2 DEF Knows, Critical
  <2> QED BY <1>2, <2>1 DEF FileInv
<1>3. ASSUME NEW p \in Proc, NEW t \in Thread, StartProcess(p, t) PROVE FileInv'
  BY <1>1, <1>3 DEF StartProcess, Begin, files, Knows
<1>4. ASSUME NEW t \in Thread, NEW o \in {"append", "verify"}, Call(t, o) PROVE FileInv'
  BY <1>1, <1>4 DEF Call, Begin, files, Knows
<1>5. ASSUME NEW p \in Proc, StopProcess(p) PROVE FileInv'
  <2>1. UNCHANGED <<log, synced, head, acked>> /\ UNCHANGED threads
    BY <1>5 DEF StopProcess, files
  <2>2. ASSUME NEW u \in Thread PROVE Knows(u)'
    BY <1>0, <2>1, KnowsFrame DEF threads
  <2> QED BY <1>0, <2>1, <2>2 DEF FileInv, Whole, AckedDurable
<1>6. ASSUME NEW t \in Thread, AcquireThreadLock(t) PROVE FileInv'
  BY <1>1, <1>6 DEF AcquireThreadLock, Goto, files, Knows
<1>7. ASSUME NEW t \in Thread, AcquireFileLock(t) PROVE FileInv'
  BY <1>1, <1>7 DEF AcquireFileLock, Goto, files, Knows
<1>8. ASSUME NEW t \in Thread, ReadForAppend(t) PROVE FileInv'
  <2>1. Others(t) /\ UNCHANGED <<log, synced, head, acked>>
    BY <1>8 DEF ReadForAppend, Finish, Goto, files
  <2>2. CASE ValidTip(log, head)
    <3>1. PICK d \in Payload :
            entry' = [entry EXCEPT ![t] = [index |-> Len(ReadEntries(log)) + 1,
                                           prev |-> TipHash(ReadEntries(log)), data |-> d]]
      BY <1>8, <2>2 DEF ReadForAppend
    <3>2. Len(ReadEntries(log)) = Len(log)
      BY ReadEntriesType
    <3>3. pc'[t] = "write" /\ op'[t] = "append"
      BY <1>8, <2>2 DEF ReadForAppend, Goto
    <3>4. /\ entry'[t] \in EntryType
          /\ entry'[t].index = Len(log) + 1
          /\ entry'[t].prev = TipHash(ReadEntries(log))
      BY <3>1, <3>2, <3>3 DEF EntryMade
    <3>5. Knows(t)'
      BY <2>1, <2>2, <3>3, <3>4 DEF Knows
    <3> QED BY <1>1, <2>1, <3>5
  <2>3. CASE ~ ValidTip(log, head)
    <3>1. Knows(t)'
      BY <1>8, <2>3 DEF ReadForAppend, Finish, Goto, Knows
    <3> QED BY <1>1, <2>1, <3>1
  <2> QED BY <2>2, <2>3
<1>9. ASSUME NEW t \in Thread, ReadForVerify(t) PROVE FileInv'
  BY <1>1, <1>9 DEF ReadForVerify, Finish, Goto, files, Knows
<1>10. ASSUME NEW t \in Thread, ReadForRecover(t) PROVE FileInv'
  <2>1. Others(t) /\ UNCHANGED <<log, synced, head, acked>> /\ op'[t] = "recover"
    BY <1>10 DEF ReadForRecover, Finish, Goto, files
  <2>2. CASE Recoverable(log, head)
    <3>1. pc'[t] = "replace" /\ entry'[t] = log[Len(log)].entry
      BY <1>10, <2>2 DEF ReadForRecover, Goto
    <3>2. log # <<>> /\ Readable(log) /\ ValidChain(ReadEntries(log))
      BY <2>2, ReadEntriesType, EmptySeq DEF Recoverable
    <3>3. Knows(t)'
      BY <2>1, <3>1, <3>2 DEF Knows, EndsWith, EntryMade
    <3> QED BY <1>1, <2>1, <3>3
  <2>3. CASE ~ Recoverable(log, head)
    <3>1. Knows(t)'
      BY <1>10, <2>3 DEF ReadForRecover, Finish, Goto, Knows
    <3> QED BY <1>1, <2>1, <3>1
  <2> QED BY <2>2, <2>3
<1>11. ASSUME NEW t \in Thread, WriteEntry(t) PROVE FileInv'
  <2> DEFINE line == Line(entry[t], "complete")
  <2>1. /\ pc[t] = "write" /\ pc'[t] = "fsync" /\ Others(t)
        /\ UNCHANGED <<synced, head, acked, op, entry>>
    BY <1>11 DEF WriteEntry, Goto
  <2>2. /\ op[t] = "append" /\ entry[t] \in EntryType
        /\ Readable(log) /\ ValidChain(ReadEntries(log))
        /\ entry[t].index = Len(log) + 1 /\ entry[t].prev = TipHash(ReadEntries(log))
    BY <1>0, <2>1 DEF Knows, ValidTip
  <2>3. line \in LineType /\ line.entry = entry[t] /\ line.form = "complete"
    BY <2>2 DEF Line, LineType
  <2>4. log' = Append(log, line)
    BY <1>0, <1>11, AppendToReadable, <2>2 DEF WriteEntry, Whole
  <2>5. Readable(log') /\ ValidChain(ReadEntries(log'))
    BY <2>2, <2>4, ExtendChain
  <2>6. /\ Len(log') = Len(log) + 1 /\ log' # <<>> /\ log'[Len(log) + 1] = line
        /\ \A i \in 1..Len(log) : log'[i] = log[i]
    BY <2>3, <2>4, AppendProperties
  <2>7. Whole'
    <3>1. DOMAIN log' = 1..(Len(log) + 1) /\ DOMAIN log = 1..Len(log) /\ Len(log) \in Nat
      BY <2>6, LenProperties
    <3>2. log'[Len(log) + 1].form = "complete"
      BY <2>3, <2>6
    <3> HIDE DEF line
    <3> QED BY <1>0, <2>6, <3>1, <3>2 DEF Whole
  <2>8. Knows(t)'
    BY <2>1, <2>2, <2>3, <2>5, <2>6 DEF Knows, EndsWith
  <2>9. AckedDurable'
    BY <1>0, <2>1, <2>3, <2>4, LenProperties, DurableAppend
  <2> QED BY <1>2, <2>1, <2>7, <2>8, <2>9 DEF Critical
<1>12. ASSUME NEW t \in Thread, FsyncEntry(t) PROVE FileInv'
  <2>1. /\ pc[t] = "fsync" /\ pc'[t] = "replace" /\ Others(t)
        /\ UNCHANGED <<log, head, acked, op, entry>>
        /\ synced' \in {0, Len(log)}
    BY <1>12 DEF FsyncEntry, Goto
  <2>2. synced' \in Nat /\ synced' >= synced
    BY <1>12, LenProperties DEF FsyncEntry
  <2>3. AckedDurable'
    BY <1>0, <2>1, <2>2, DurableAppend
  <2>4. Whole' /\ Knows(t)'
    BY <1>0, <2>1 DEF Whole, Knows, EndsWith
  <2> QED BY <1>2, <2>1, <2>3, <2>4 DEF Critical
<1>13. ASSUME NEW t \in Thread, ReplaceHead(t) PROVE FileInv'
  <2>1. /\ pc[t] = "replace" /\ pc'[t] = "syncdir" /\ Others(t)
        /\ UNCHANGED <<log, synced, acked, op, entry>>
        /\ head' = [count |-> entry[t].index, hash |-> Hash(entry[t])]
    BY <1>13 DEF ReplaceHead, Goto
  <2>2. EndsWith(t)
    BY <1>0, <2>1 DEF Knows
  <2>3. head' = Anchor(ReadEntries(log))
    BY <2>1, <2>2, AnchorOfLast
  <2>4. EndsWith(t)'
    BY <2>1, <2>2 DEF EndsWith
  <2>5. Knows(t)'
    BY <1>0, <2>1, <2>3, <2>4 DEF Knows
  <2>6. Whole' /\ AckedDurable'
    BY <1>0, <2>1 DEF Whole, AckedDurable
  <2> QED BY <1>2, <2>1, <2>5, <2>6 DEF Critical
<1>14. ASSUME NEW t \in Thread, FsyncDirectory(t) PROVE FileInv'
  <2>1. /\ pc[t] = "syncdir" /\ pc'[t] = "unlock" /\ Others(t)
        /\ UNCHANGED <<log, head, acked, op, entry>>
        /\ synced' = IF op[t] = "append" /\ synced = 0 THEN Len(log) ELSE synced
    BY <1>14 DEF FsyncDirectory, Finish, Goto
  <2>2. /\ EndsWith(t) /\ head = Anchor(ReadEntries(log))
        /\ op[t] = "append" => synced \in {0, Len(log)}
    BY <1>0, <2>1 DEF Knows
  <2>3. EndsWith(t)'
    BY <2>1, <2>2 DEF EndsWith
  <2>4. Knows(t)'
    BY <2>1, <2>2, <2>3 DEF Knows
  <2>5. synced' \in Nat /\ synced' >= synced
    BY <2>1, LenProperties
  <2>6. AckedDurable'
    BY <1>0, <2>1, <2>5, DurableAppend
  <2>7. Whole'
    BY <1>0, <2>1 DEF Whole
  <2> QED BY <1>2, <2>1, <2>4, <2>6, <2>7 DEF Critical
<1>15. ASSUME NEW t \in Thread, Return(t) PROVE FileInv'
  <2>1. /\ pc[t] = "unlock" /\ pc'[t] = "idle" /\ Others(t)
        /\ UNCHANGED <<log, synced, head, op, entry, result>>
    BY <1>15 DEF Return, Goto, files
  <2>2. ASSUME op[t] = "append", result[t] = "ok"
        PROVE  entry[t].index \in 1..synced /\ log[entry[t].index] = Line(entry[t], "complete")
    <3>1. EndsWith(t) /\ synced = Len(log)
      BY <1>0, <2>1, <2>2 DEF Knows
    <3>2. entry[t].index = Len(log) /\ Len(log) \in 1..Len(log)
      <4>1. entry[t].index = Len(log)
        BY <3>1, AnchorOfLast
      <4>2. Len(log) \in Nat /\ Len(log) # 0
        BY <3>1, EmptySeq DEF EndsWith
      <4> QED BY <4>1, <4>2
    <3>3. log[Len(log)] \in LineType /\ log[Len(log)].form = "complete"
      <4>1. \A i \in DOMAIN log : log[i].form = "complete"
        BY <1>0, <3>1, AppendToReadable DEF EndsWith, Whole
      <4> QED BY <3>2, <4>1, ElementOfSeq, LenProperties
    <3>4. log[Len(log)] = Line(entry[t], "complete")
      BY <3>1, <3>3 DEF EndsWith, Line, LineType
    <3> QED BY <3>1, <3>2, <3>4
  <2>3. AckedDurable'
    BY <1>0, <1>15, <2>1, <2>2 DEF Return, AckedDurable
  <2>4. ASSUME NEW u \in Thread PROVE Knows(u)'
    <3>1. CASE u = t
      BY <2>1, <3>1 DEF Knows
    <3>2. CASE u # t
      BY <1>0, <2>1, <3>2, KnowsFrame
    <3> QED BY <3>1, <3>2
  <2>5. Whole'
    BY <1>0, <2>1 DEF Whole
  <2> QED BY <2>3, <2>4, <2>5 DEF FileInv
<1>16. ASSUME NEW t \in Thread, RaiseOSError(t) PROVE FileInv'
  BY <1>1, <1>16 DEF RaiseOSError, Finish, Goto, files, Knows
\* A torn write adds half a line to a log of whole ones.
<1>17. ASSUME NEW t \in Thread, pc[t] = "write", NEW form \in Tears,
              log' = AppendBytes(log, entry[t], form), UNCHANGED <<synced, acked>>
       PROVE  Whole' /\ AckedDurable'
  <2>1. entry[t] \in EntryType /\ Readable(log) /\ form = "partial"
    BY <1>0, <1>17 DEF Knows, ValidTip, PartialTears
  <2>2. Line(entry[t], form) \in LineType /\ Line(entry[t], form).form = "partial"
    BY <2>1 DEF Line, LineType
  <2>3. log' = Append(log, Line(entry[t], form))
    BY <1>0, <1>17, <2>1, AppendToReadable DEF Whole
  <2>4. AckedDurable'
    BY <1>0, <1>17, <2>2, <2>3, DurableAppend
  <2>5. Whole'
    BY <1>0, <2>2, <2>3, AppendProperties, LenProperties DEF Whole
  <2> QED BY <2>4, <2>5
<1>18. ASSUME NEW t \in Thread, TearWrite(t) PROVE FileInv'
  <2>1. PICK form \in Tears : log' = AppendBytes(log, entry[t], form)
    BY <1>18 DEF TearWrite
  <2>2. pc[t] = "write" /\ Others(t) /\ UNCHANGED <<synced, acked>>
    BY <1>18 DEF TearWrite, Finish, Goto
  <2>3. Knows(t)'
    BY <1>18 DEF TearWrite, Finish, Goto, Knows
  <2> QED BY <1>2, <1>17, <2>1, <2>2, <2>3 DEF Critical
<1>19. ASSUME NEW p \in Proc, KillProcess(p) PROVE FileInv'
  <2>1. /\ UNCHANGED <<synced, head, acked, op, entry>>
        /\ \A u \in Thread : pc'[u] = IF ProcOf[u] = p THEN "idle" ELSE pc[u]
        /\ \A u \in Thread : ProcOf[u] # p => result'[u] = result[u]
    BY <1>19 DEF KillProcess, Abandon
  <2>2. CASE UNCHANGED log
    <3>1. ASSUME NEW u \in Thread PROVE Knows(u)'
      <4>1. CASE ProcOf[u] = p
        BY <2>1, <4>1 DEF Knows
      <4>2. CASE ProcOf[u] # p
        BY <1>0, <2>1, <2>2, <4>2, KnowsFrame
      <4> QED BY <4>1, <4>2
    <3> QED BY <1>0, <2>1, <2>2, <3>1 DEF FileInv, Whole, AckedDurable
  <2>3. ASSUME NEW t \in Thread, NEW form \in Tears, ProcOf[t] = p, pc[t] = "write",
               log' = AppendBytes(log, entry[t], form)
        PROVE  FileInv'
    <3>1. Whole' /\ AckedDurable'
      BY <1>17, <2>1, <2>3
    <3>2. ASSUME NEW u \in Thread PROVE Knows(u)'
      <4>1. CASE ProcOf[u] = p
        BY <2>1, <4>1 DEF Knows
      <4>2. CASE ProcOf[u] # p
        <5>1. ~ Critical(u)
          BY <2>3, <4>2, MutualExclusion DEF Critical
        <5> QED BY <2>1, <4>2, <5>1 DEF Knows, Critical
      <4> QED BY <4>1, <4>2
    <3> QED BY <3>1, <3>2 DEF FileInv
  <2> QED BY <1>19, <2>2, <2>3 DEF KillProcess
<1>20. ASSUME PowerLoss PROVE FileInv'
  <2>1. (\A u \in Thread : pc'[u] = "idle") /\ UNCHANGED acked /\ synced' = Len(log')
    BY <1>20 DEF PowerLoss, Abandon
  <2>2. PICK n \in synced..Len(log) :
           \/ log' = SubSeq(log, 1, n)
           \/ /\ n < Len(log)
              /\ \E form \in Tears :
                    log' = Append(SubSeq(log, 1, n), Line(log[n + 1].entry, form))
    BY <1>20 DEF PowerLoss
  <2> DEFINE kept == SubSeq(log, 1, n)
  <2>3. /\ Len(log) \in Nat /\ n \in Nat /\ n <= Len(log) /\ synced <= n
        /\ kept \in Seq(LineType) /\ Len(kept) = n
        /\ \A i \in 1..n : kept[i] = log[i]
    <3>1. Len(log) \in Nat /\ n \in Nat /\ n <= Len(log) /\ synced <= n
      BY <2>2, LenProperties
    <3> QED BY <3>1
  <2>4. /\ Len(log') \in Nat /\ n <= Len(log')
        /\ \A i \in 1..n : log'[i] = log[i]
        /\ \A i \in 1..Len(log') : i > n => log'[i].form = "partial"
    <3>1. CASE log' = kept
      BY <2>3, <3>1
    <3>2. ASSUME n < Len(log), NEW form \in Tears,
                 log' = Append(kept, Line(log[n + 1].entry, form))
          PROVE  <2>4
      <4>1. log[n + 1] \in LineType
        BY <2>3, <3>2, ElementOfSeq
      <4>2. /\ Line(log[n + 1].entry, form) \in LineType
            /\ Line(log[n + 1].entry, form).form = "partial"
        BY <4>1, <3>2 DEF Line, LineType, PartialTears
      <4> HIDE DEF kept
      <4>3. /\ Len(log') = n + 1 /\ log'[n + 1] = Line(log[n + 1].entry, form)
            /\ \A i \in 1..n : log'[i] = kept[i]
        BY <2>3, <3>2, <4>2, AppendProperties
      <4> QED BY <2>3, <4>2, <4>3
    <3> QED BY <2>2, <3>1, <3>2
  <2>5. Whole'
    <3>1. DOMAIN log' = 1..Len(log') /\ DOMAIN log = 1..Len(log)
      BY LenProperties
    <3> QED BY <1>0, <2>3, <2>4, <3>1 DEF Whole
  <2>6. AckedDurable'
    BY <1>0, <2>1, <2>3, <2>4 DEF AckedDurable
  <2> QED BY <2>1, <2>5, <2>6 DEF FileInv, Knows
<1>21. CASE UNCHANGED vars
  <2>1. UNCHANGED <<log, synced, head, acked>> /\ UNCHANGED threads
    BY <1>21 DEF vars, files
  <2>2. ASSUME NEW u \in Thread PROVE Knows(u)'
    BY <1>0, <2>1, KnowsFrame DEF threads
  <2> QED BY <1>0, <2>1, <2>2 DEF FileInv, Whole, AckedDurable
<1> QED BY <1>3, <1>4, <1>5, <1>6, <1>7, <1>8, <1>9, <1>10, <1>11, <1>12, <1>13, <1>14,
           <1>15, <1>16, <1>18, <1>19, <1>20, <1>21 DEF Next, Step, Read

\* The inductive invariant.
LEMMA Inductive == ASSUME PartialTears PROVE Spec => [](TypeInv /\ LockInv /\ FileInv)
<1>1. Spec => []TypeInv
  BY TypeInit, TypeNext, PTL DEF Spec
<1>2. Spec => []LockInv
  BY <1>1, LockInit, LockNext, PTL DEF Spec, TypeInv
<1>3. TypeInv /\ TypeInv' /\ LockInv /\ LockInv' /\ FileInv /\ [Next]_vars => FileInv'
  BY FileNext
<1> QED BY <1>1, <1>2, <1>3, FileInit, PTL DEF Spec

\* What append() returned stays whole, in its place and durable through every
\* later failure, unless a torn write can look like a whole entry.
THEOREM AcknowledgedStay == ASSUME PartialTears PROVE Spec => []AckedDurable
<1>1. Spec => []FileInv
  BY Inductive, PTL
<1> QED BY <1>1, PTL DEF FileInv

\* A call that returns an entry returns it from a log that verifies.
LEMMA AppendVerifies == ASSUME FileInv, Next, acked' # acked PROVE ValidTip(log, head)
<1>1. PICK t \in Thread : Return(t)
  BY DEF Next, Step, Read, StartProcess, StopProcess, Call, Begin, KillProcess, PowerLoss,
         Abandon, AcquireThreadLock, AcquireFileLock, ReadForAppend, ReadForVerify,
         ReadForRecover, WriteEntry, FsyncEntry, ReplaceHead, FsyncDirectory,
         RaiseOSError, TearWrite
<1>2. pc[t] = "unlock" /\ op[t] = "append" /\ result[t] = "ok"
  BY <1>1 DEF Return
<1> QED BY <1>2 DEF FileInv, Knows, EndsWith, ValidTip

\* append() returns only when the whole log and its anchor verify.
THEOREM AppendsVerify == ASSUME PartialTears PROVE Spec => AppendLeavesValidLog
<1>1. FileInv /\ [Next]_vars => [acked' # acked => ValidTip(log, head)]_vars
  BY AppendVerifies
<1> QED BY <1>1, Inductive, PTL DEF Spec, AppendLeavesValidLog
-----------------------------------------------------------------------------
(* Without faults nobody sees a corrupt log *)

\* The log and its anchor verify unless a thread is between write and replace.
FaultFree ==
    faults = 0 =>
        /\ NoFalseAlarm
        /\ ValidTip(log, head) \/ \E t \in Thread : pc[t] \in {"fsync", "replace"}

\* A log from before anchoring is a valid chain.
LEMMA LegacyValid == Init => ValidTip(log, head)
<1> SUFFICES ASSUME Init PROVE ValidTip(log, head)
  OBVIOUS
<1> DEFINE n == Len(LegacyData)
           entries == [i \in 1..n |-> LegacyEntry(i)]
<1>1. LegacyData \in Seq(Payload) /\ n \in Nat
  BY LogAssumption, LenProperties
<1>2. Readable(log) /\ ReadEntries(log) = entries /\ head = None
  BY DEF Init, Readable, Parsable, ReadEntries, Line
<1>3. ASSUME NEW i \in 1..n
      PROVE  /\ entries[i].index = i /\ entries[i].data = LegacyData[i]
             /\ entries[i].prev = SubSeq(LegacyData, 1, i - 1)
  BY DEF LegacyEntry
<1>4. ASSUME NEW i \in 1..n PROVE LegacyEntry(i) \in EntryType
  <2>1. SubSeq(LegacyData, 1, i - 1) \in Seq(Payload)
    BY <1>1
  <2>2. LegacyData[i] \in Payload /\ i \in Nat
    BY <1>1, ElementOfSeq
  <2> QED BY <2>1, <2>2 DEF LegacyEntry, EntryType
<1>5. entries \in Seq(EntryType) /\ Len(entries) = n
  <2>1. entries \in [1..n -> EntryType]
    BY <1>4
  <2>2. entries \in Seq(EntryType)
    BY <1>1, <2>1, SeqDef
  <2> QED BY <1>1, <2>1, <2>2, LenProperties
<1> HIDE DEF entries
<1>6. ASSUME NEW i \in 1..n
      PROVE  entries[i].prev = TipHash(SubSeq(entries, 1, i - 1))
  <2> DEFINE before == SubSeq(entries, 1, i - 1)
  <2>1. /\ before \in Seq(EntryType) /\ Len(before) = i - 1 /\ i \in Nat /\ i >= 1
        /\ \A j \in 1..(i - 1) : before[j] = entries[j]
    BY <1>1, <1>5
  <2> HIDE DEF before
  <2>2. CASE i = 1
    <3>1. before = <<>>
      BY <2>1, <2>2, EmptySeq
    <3>2. entries[i].prev = <<>>
      BY <1>1, <1>3, <2>2
    <3> QED BY <3>1, <3>2 DEF TipHash, GenesisHash, before
  <2>3. CASE i # 1
    <3>1. before # <<>> /\ before[Len(before)] = entries[i - 1] /\ i - 1 \in 1..n
      BY <1>1, <2>1, <2>3, EmptySeq
    <3>2. TipHash(before) = Append(SubSeq(LegacyData, 1, i - 2), LegacyData[i - 1])
      <4>1. /\ entries[i - 1].prev = SubSeq(LegacyData, 1, (i - 1) - 1)
            /\ entries[i - 1].data = LegacyData[i - 1]
        BY <1>3, <3>1
      <4>2. (i - 1) - 1 = i - 2
        BY <2>1
      <4> QED BY <3>1, <4>1, <4>2 DEF TipHash, Hash, HashPayload
    <3>3. SubSeq(LegacyData, 1, i - 1) = Append(SubSeq(LegacyData, 1, i - 2), LegacyData[i - 1])
      BY <1>1, <2>1, <2>3, <3>1
    <3> QED BY <1>3, <3>2, <3>3 DEF before
  <2> QED BY <2>2, <2>3
<1>7. DOMAIN entries = 1..n
  BY <1>5, LenProperties
<1> QED BY <1>2, <1>3, <1>6, <1>7 DEF ValidTip, ValidChain

\* Without faults left to happen or behind, every step keeps the log and its anchor together.
LEMMA FaultFreeNext ==
    ASSUME TypeInv, LockInv, FileInv, FaultFree, [Next]_vars
    PROVE  FaultFree'
<1> USE ThreadAssumption DEF TypeInv, TypeOK
<1> SUFFICES ASSUME faults' = 0
             PROVE  /\ \A t \in Thread : result'[t] # "corrupt"
                    /\ ValidTip(log, head)' \/ \E t \in Thread : pc'[t] \in {"fsync", "replace"}
  BY DEF FaultFree, NoFalseAlarm
<1> DEFINE Good == /\ \A t \in Thread : result[t] # "corrupt"
                   /\ ValidTip(log, head) \/ \E t \in Thread : pc[t] \in {"fsync", "replace"}
<1>1. faults \in Nat
  BY BoundAssumption
<1>2. \A f : ~ Suffer(f)
  BY <1>1 DEF Suffer
<1>3. UNCHANGED faults => Good
  BY DEF FaultFree, NoFalseAlarm
<1> HIDE DEF Good
\* Steps that touch no file, and end nothing as corrupt.
<1>4. ASSUME UNCHANGED <<log, head, faults>>,
             \A t \in Thread : result'[t] # "corrupt" \/ result'[t] = result[t],
             \A t \in Thread : pc[t] \in {"fsync", "replace"} => pc'[t] \in {"fsync", "replace"}
      PROVE  Good'
  BY <1>3, <1>4 DEF Good
<1>5. ASSUME NEW t \in Thread,
             \/ AcquireThreadLock(t) \/ AcquireFileLock(t) \/ FsyncEntry(t)
             \/ FsyncDirectory(t) \/ Return(t)
             \/ \E o \in {"append", "verify"} : Call(t, o)
             \/ \E p \in Proc : StartProcess(p, t)
      PROVE  Good'
  BY <1>4, <1>5 DEF AcquireThreadLock, AcquireFileLock, FsyncEntry, FsyncDirectory, Return,
                    Call, Begin, StartProcess, Goto, Finish, files
\* Who reads is alone in the critical section, so the log it reads verifies.
<1>6. ASSUME NEW t \in Thread, Read(t) PROVE Good'
  <2>1. pc[t] = "read" /\ UNCHANGED <<log, head, faults>>
    BY <1>6 DEF Read, ReadForAppend, ReadForVerify, ReadForRecover, files
  <2>2. \A u \in Thread : pc[u] \notin {"fsync", "replace"}
    BY <2>1, MutualExclusion DEF Critical
  <2>3. ValidTip(log, head)
    BY <1>3, <2>1, <2>2 DEF Good
  <2>4. \A u \in Thread : result'[u] # "corrupt" \/ result'[u] = result[u]
    BY <1>6, <2>3 DEF Read, ReadForAppend, ReadForVerify, ReadForRecover, Finish
  <2> QED BY <1>4, <2>1, <2>2, <2>4
<1>7. ASSUME NEW t \in Thread, WriteEntry(t) PROVE Good'
  <2>1. pc'[t] = "fsync" /\ UNCHANGED <<result, faults>>
    BY <1>7 DEF WriteEntry, Goto
  <2> QED BY <1>3, <2>1 DEF Good
<1>8. ASSUME NEW t \in Thread, ReplaceHead(t) PROVE Good'
  <2>1. /\ head' = [count |-> entry[t].index, hash |-> Hash(entry[t])]
        /\ UNCHANGED <<log, result, faults>> /\ EndsWith(t)
    BY <1>8 DEF ReplaceHead, FileInv, Knows
  <2>2. head' = Anchor(ReadEntries(log))
    BY <2>1, AnchorOfLast
  <2>3. ValidTip(log, head)'
    BY <2>1, <2>2 DEF EndsWith, ValidTip
  <2> QED BY <1>3, <2>1, <2>3 DEF Good
<1>9. ASSUME NEW p \in Proc, StopProcess(p) PROVE Good'
  <2>1. UNCHANGED <<log, head, faults, result, pc>>
    BY <1>9 DEF StopProcess, files, threads
  <2> QED BY <1>4, <2>1
<1>10. ASSUME UNCHANGED vars PROVE Good'
  <2>1. UNCHANGED <<log, head, faults, result, pc>>
    BY <1>10 DEF vars, files, threads
  <2> QED BY <1>4, <2>1
<1>11. /\ ~ PowerLoss
       /\ \A p \in Proc : ~ KillProcess(p)
       /\ \A t \in Thread : ~ RaiseOSError(t) /\ ~ TearWrite(t)
  BY <1>2 DEF PowerLoss, KillProcess, RaiseOSError, TearWrite
<1> QED BY <1>5, <1>6, <1>7, <1>8, <1>9, <1>10, <1>11 DEF Next, Step, Good

\* However many processes and threads append, verify and start at the same time, none
\* of them takes the work of another for corruption (read_entries' comment, audit.py:164).
THEOREM NobodyAlarmed == ASSUME PartialTears PROVE Spec => []NoFalseAlarm
<1>1. Init => FaultFree
  BY LegacyValid DEF Init, FaultFree, NoFalseAlarm
<1>2. TypeInv /\ LockInv /\ FileInv /\ FaultFree /\ [Next]_vars => FaultFree'
  BY FaultFreeNext
<1>3. TypeInv /\ FaultFree => NoFalseAlarm
  BY DEF FaultFree, NoFalseAlarm
<1> QED BY <1>1, <1>2, <1>3, Inductive, PTL DEF Spec

-----------------------------------------------------------------------------
(* The anchor is never more than one line behind *)

\* What an entry adds to the readable lines, whole or cut short.
LEMMA EntriesOfAppend ==
    ASSUME NEW lines \in Seq(LineType), NEW e \in EntryType,
           NEW form \in {"complete", "partial"}
    PROVE  LET new == Append(lines, Line(e, form)) IN
           /\ new \in Seq(LineType) /\ Len(new) = Len(lines) + 1
           /\ \A i \in 1..Len(lines) : new[i] = lines[i]
           /\ ReadEntries(new) = Append(ReadEntries(lines), e)
<1> DEFINE new == Append(lines, Line(e, form))
           old == ReadEntries(lines)
<1>1. Line(e, form) \in LineType /\ Line(e, form).entry = e
  BY DEF Line, LineType
<1>2. /\ new \in Seq(LineType) /\ Len(new) = Len(lines) + 1 /\ Len(lines) \in Nat
      /\ \A i \in 1..Len(lines) : new[i] = lines[i]
      /\ new[Len(lines) + 1] = Line(e, form)
  BY <1>1, AppendProperties, LenProperties
<1> HIDE DEF new
<1>3. /\ ReadEntries(new) \in Seq(EntryType) /\ Len(ReadEntries(new)) = Len(lines) + 1
      /\ \A i \in 1..(Len(lines) + 1) : ReadEntries(new)[i] = new[i].entry
  BY <1>2, ReadEntriesType
<1>4. /\ old \in Seq(EntryType) /\ Len(old) = Len(lines)
      /\ \A i \in 1..Len(lines) : old[i] = lines[i].entry
  BY ReadEntriesType
<1> HIDE DEF old
<1>5. /\ Append(old, e) \in Seq(EntryType) /\ Len(Append(old, e)) = Len(lines) + 1
      /\ \A i \in 1..Len(lines) : Append(old, e)[i] = old[i]
      /\ Append(old, e)[Len(lines) + 1] = e
  BY <1>4, AppendProperties
<1>6. \A i \in 1..(Len(lines) + 1) : ReadEntries(new)[i] = Append(old, e)[i]
  BY <1>1, <1>2, <1>3, <1>4, <1>5
<1>7. ReadEntries(new) = Append(old, e)
  BY <1>3, <1>5, <1>6, SeqEqual
<1> QED BY <1>2, <1>7 DEF new, old

\* A write, whole or cut short, leaves the anchor at most one line behind.
LEMMA LagAfterWrite ==
    ASSUME TypeInv, AnchorLag, Whole, ValidTip(log, head), UNCHANGED head,
           NEW e \in EntryType, e.index = Len(log) + 1, e.prev = TipHash(ReadEntries(log)),
           NEW form \in {"complete", "partial"}, log' = Append(log, Line(e, form))
    PROVE  AnchorLag'
<1> SUFFICES ASSUME head # None
             PROVE  \E n \in {Len(log') - 1, Len(log')} :
                       /\ n > 0
                       /\ \A i \in 1..n : log'[i].form = "complete"
                       /\ ValidChain(ReadEntries(log'))
                       /\ head = Anchor(SubSeq(ReadEntries(log'), 1, n))
  BY DEF AnchorLag
<1> DEFINE n == Len(log)
           old == ReadEntries(log)
<1>1. log \in Seq(LineType) /\ n \in Nat
  BY LenProperties DEF TypeInv, TypeOK
<1>2. n > 0
  BY <1>1 DEF AnchorLag
<1>3. /\ Readable(log) /\ ValidChain(old) /\ head = Anchor(old)
      /\ \A i \in DOMAIN log : log[i].form = "complete"
  BY <1>1, AppendToReadable DEF ValidTip, Whole
<1>4. /\ Len(log') = n + 1 /\ \A i \in 1..n : log'[i] = log[i]
      /\ ReadEntries(log') = Append(old, e)
      /\ ReadEntries(Append(log, Line(e, "complete"))) = Append(old, e)
  BY <1>1, EntriesOfAppend
<1>5. ValidChain(ReadEntries(log'))
  BY <1>1, <1>3, <1>4, ExtendChain
<1>6. old \in Seq(EntryType) /\ Len(old) = n
  BY <1>1, ReadEntriesType
<1> HIDE DEF old
<1>7. SubSeq(Append(old, e), 1, n) = old
  <2>1. /\ Append(old, e) \in Seq(EntryType) /\ Len(Append(old, e)) = n + 1
        /\ \A i \in 1..n : Append(old, e)[i] = old[i]
    BY <1>6, AppendProperties
  <2>2. /\ SubSeq(Append(old, e), 1, n) \in Seq(EntryType)
        /\ Len(SubSeq(Append(old, e), 1, n)) = n
        /\ \A i \in 1..n : SubSeq(Append(old, e), 1, n)[i] = Append(old, e)[i]
    BY <1>1, <2>1
  <2> QED BY <1>6, <2>1, <2>2, SeqEqual
<1>8. \A i \in 1..n : log'[i].form = "complete"
  BY <1>1, <1>3, <1>4, LenProperties
<1>9. n = Len(log') - 1
  BY <1>1, <1>4
<1> QED BY <1>2, <1>3, <1>4, <1>5, <1>7, <1>8, <1>9

\* Every step but a power loss keeps the anchor at most one line behind.
LEMMA LagNext ==
    ASSUME PartialTears, "power" \notin Faults, TypeInv, LockInv, FileInv, AnchorLag, [Next]_vars
    PROVE  AnchorLag'
<1> USE DEF TypeInv, TypeOK
<1>0. /\ log \in Seq(LineType) /\ Len(log) \in Nat
      /\ Whole /\ \A t \in Thread : Knows(t)
  BY LenProperties DEF FileInv
<1>1. ASSUME UNCHANGED <<log, head>> PROVE AnchorLag'
  BY <1>1 DEF AnchorLag
<1>2. ASSUME NEW t \in Thread, pc[t] = "write", NEW form \in Tears \cup {"complete"},
             log' = AppendBytes(log, entry[t], form), UNCHANGED head
      PROVE  AnchorLag'
  <2>1. /\ entry[t] \in EntryType /\ ValidTip(log, head)
        /\ entry[t].index = Len(log) + 1 /\ entry[t].prev = TipHash(ReadEntries(log))
        /\ form \in {"complete", "partial"}
    BY <1>0, <1>2 DEF Knows, PartialTears
  <2>2. log' = Append(log, Line(entry[t], form))
    BY <1>0, <1>2, <2>1, AppendToReadable DEF ValidTip, Whole
  <2> QED BY <1>0, <1>2, <2>1, <2>2, LagAfterWrite
<1>3. ASSUME NEW t \in Thread, WriteEntry(t) PROVE AnchorLag'
  BY <1>2, <1>3 DEF WriteEntry
<1>4. ASSUME NEW t \in Thread, TearWrite(t) PROVE AnchorLag'
  BY <1>2, <1>4 DEF TearWrite
<1>5. ASSUME NEW p \in Proc, KillProcess(p) PROVE AnchorLag'
  <2>1. UNCHANGED head
    BY <1>5 DEF KillProcess
  <2>2. CASE UNCHANGED log
    BY <1>1, <2>1, <2>2
  <2>3. CASE ~ UNCHANGED log
    <3>1. PICK t \in Thread, form \in Tears :
            pc[t] = "write" /\ log' = AppendBytes(log, entry[t], form)
      BY <1>5, <2>3 DEF KillProcess
    <3> QED BY <1>2, <2>1, <3>1
  <2> QED BY <2>2, <2>3
<1>6. ASSUME NEW t \in Thread, ReplaceHead(t) PROVE AnchorLag'
  <2>1. /\ head' = [count |-> entry[t].index, hash |-> Hash(entry[t])]
        /\ UNCHANGED log /\ EndsWith(t)
    BY <1>0, <1>6 DEF ReplaceHead, Knows
  <2>2. head' = Anchor(ReadEntries(log))
    BY <1>0, <2>1, AnchorOfLast
  <2>3. \A i \in DOMAIN log : log[i].form = "complete"
    BY <1>0, <2>1, AppendToReadable DEF EndsWith, Whole
  <2>4. Len(log) > 0 /\ ValidChain(ReadEntries(log))
    BY <1>0, <2>1, EmptySeq DEF EndsWith
  <2>5. SubSeq(ReadEntries(log), 1, Len(log)) = ReadEntries(log)
    BY <1>0, ReadEntriesType, SubSeqFull
  <2>6. \A i \in 1..Len(log) : log[i].form = "complete"
    BY <1>0, <2>3, LenProperties
  <2> QED BY <2>1, <2>2, <2>4, <2>5, <2>6 DEF AnchorLag
<1>7. ~ PowerLoss
  BY DEF PowerLoss, Suffer
<1>8. ASSUME NEW t \in Thread,
             \/ AcquireThreadLock(t) \/ AcquireFileLock(t) \/ Read(t) \/ FsyncEntry(t)
             \/ FsyncDirectory(t) \/ Return(t) \/ RaiseOSError(t)
             \/ \E o \in {"append", "verify"} : Call(t, o)
             \/ \E p \in Proc : StartProcess(p, t)
      PROVE  AnchorLag'
  BY <1>1, <1>8 DEF AcquireThreadLock, AcquireFileLock, Read, ReadForAppend, ReadForVerify,
                    ReadForRecover, FsyncEntry, FsyncDirectory, Return, RaiseOSError, Call,
                    Begin, StartProcess, files
<1>9. ASSUME NEW p \in Proc, StopProcess(p) PROVE AnchorLag'
  BY <1>1, <1>9 DEF StopProcess, files
<1>10. CASE UNCHANGED vars
  BY <1>1, <1>10 DEF vars, files
<1> QED BY <1>3, <1>4, <1>5, <1>6, <1>7, <1>8, <1>9, <1>10 DEF Next, Step

\* While the machine stays up, an interrupted append leaves at most the one line that
\* recover_interrupted_append accepts, whoever dies wherever.
THEOREM OneLineBehind ==
    ASSUME PartialTears, "power" \notin Faults
    PROVE  Spec => []AnchorLag
<1>1. Init => AnchorLag
  BY DEF Init, AnchorLag
<1>2. TypeInv /\ LockInv /\ FileInv /\ AnchorLag /\ [Next]_vars => AnchorLag'
  BY LagNext
<1> QED BY <1>1, <1>2, Inductive, PTL DEF Spec

-----------------------------------------------------------------------------
(* After kills alone the next process repairs the log *)

\* Processes are killed between two system calls, and nothing else fails.
KillsOnly == Tears = {} /\ {"oserror", "power"} \cap Faults = {}

\* Every line is readable and links to the one before it, and no recovery gave up.
Repairable == Readable(log) /\ ValidChain(ReadEntries(log)) /\ RestartRepairs

\* A log whose anchor is at most one line behind verifies or can be recovered.
LEMMA VerifiesOrRecovers ==
    ASSUME log \in Seq(LineType), AnchorLag, Readable(log), ValidChain(ReadEntries(log))
    PROVE  ValidTip(log, head) \/ Recoverable(log, head)
<1> DEFINE entries == ReadEntries(log)
<1>1. entries \in Seq(EntryType) /\ Len(entries) = Len(log) /\ Len(log) \in Nat
  BY ReadEntriesType, LenProperties
<1>2. CASE head = None
  BY <1>2 DEF ValidTip
<1>3. CASE head # None
  <2> HIDE DEF entries
  <2>1. PICK n \in {Len(log) - 1, Len(log)} : n > 0 /\ head = Anchor(SubSeq(entries, 1, n))
    BY <1>3 DEF AnchorLag, entries
  <2>2. entries # <<>>
    BY <1>1, <2>1, EmptySeq
  <2>3. CASE n = Len(log)
    <3>1. SubSeq(entries, 1, n) = entries
      BY <1>1, <2>3, SubSeqFull
    <3> QED BY <2>1, <3>1 DEF ValidTip, entries
  <2>4. CASE n = Len(log) - 1
    BY <1>1, <2>1, <2>2, <2>4 DEF Recoverable, entries
  <2> QED BY <2>1, <2>3, <2>4
<1> QED BY <1>2, <1>3

\* The log a first process finds is repairable.
LEMMA RepairInit == Init => Repairable
  BY LegacyValid DEF Init, Repairable, RestartRepairs, ValidTip

\* Whatever the processes do, and wherever they are killed, the log stays repairable.
LEMMA RepairNext ==
    ASSUME KillsOnly, TypeInv, FileInv, AnchorLag, Repairable, [Next]_vars
    PROVE  Repairable'
<1> USE ThreadAssumption DEF TypeInv, TypeOK
<1>0. /\ log \in Seq(LineType)
      /\ Whole /\ \A t \in Thread : Knows(t)
      /\ Readable(log) /\ ValidChain(ReadEntries(log))
      /\ \A t \in Thread : op[t] = "recover" => result[t] # "corrupt"
  BY DEF FileInv, Repairable, RestartRepairs
\* Steps that leave the log alone and end no recovery as corrupt.
<1>1. ASSUME UNCHANGED log,
             \A t \in Thread : op'[t] = "recover" =>
                 \/ result'[t] # "corrupt"
                 \/ op[t] = "recover" /\ result'[t] = result[t]
      PROVE  Repairable'
  BY <1>0, <1>1 DEF Repairable, RestartRepairs
<1>2. ASSUME NEW t \in Thread,
             \/ AcquireThreadLock(t) \/ AcquireFileLock(t) \/ FsyncEntry(t) \/ ReplaceHead(t)
             \/ FsyncDirectory(t) \/ Return(t) \/ ReadForAppend(t) \/ ReadForVerify(t)
             \/ \E o \in {"append", "verify"} : Call(t, o)
             \/ \E p \in Proc : StartProcess(p, t)
      PROVE  Repairable'
  BY <1>1, <1>2 DEF AcquireThreadLock, AcquireFileLock, FsyncEntry, ReplaceHead, FsyncDirectory,
                    Return, ReadForAppend, ReadForVerify, Call, Begin, StartProcess, Finish, files
\* Recovery reads a log that verifies, or one that it can recover.
<1>3. ASSUME NEW t \in Thread, ReadForRecover(t) PROVE Repairable'
  <2>1. ValidTip(log, head) \/ Recoverable(log, head)
    BY <1>0, VerifiesOrRecovers
  <2>2. result' = result \/ result' = [result EXCEPT ![t] = "ok"]
    BY <1>3, <2>1 DEF ReadForRecover, Finish
  <2>3. UNCHANGED <<log, op>>
    BY <1>3 DEF ReadForRecover, files
  <2> QED BY <1>1, <2>2, <2>3
<1>4. ASSUME NEW t \in Thread, WriteEntry(t) PROVE Repairable'
  <2>1. /\ log' = AppendBytes(log, entry[t], "complete") /\ UNCHANGED <<op, result>>
        /\ entry[t] \in EntryType
        /\ entry[t].index = Len(log) + 1 /\ entry[t].prev = TipHash(ReadEntries(log))
    BY <1>0, <1>4 DEF WriteEntry, Knows
  <2>2. log' = Append(log, Line(entry[t], "complete"))
    BY <1>0, <2>1, AppendToReadable DEF Whole
  <2>3. Readable(log') /\ ValidChain(ReadEntries(log'))
    BY <1>0, <2>1, <2>2, ExtendChain
  <2> QED BY <1>0, <2>1, <2>3 DEF Repairable, RestartRepairs
<1>5. ASSUME NEW p \in Proc, KillProcess(p) PROVE Repairable'
  <2>1. UNCHANGED <<log, op>>
    BY <1>5 DEF KillProcess, KillsOnly, Abandon
  <2>2. \A u \in Thread : result'[u] \in {"none", result[u]}
    BY <1>5 DEF KillProcess, Abandon
  <2> QED BY <1>1, <2>1, <2>2
<1>6. /\ ~ PowerLoss
      /\ \A t \in Thread : ~ RaiseOSError(t) /\ ~ TearWrite(t)
  BY DEF PowerLoss, RaiseOSError, TearWrite, Suffer, KillsOnly
<1>7. ASSUME NEW p \in Proc, StopProcess(p) PROVE Repairable'
  BY <1>1, <1>7 DEF StopProcess, files, threads
<1>8. CASE UNCHANGED vars
  BY <1>1, <1>8 DEF vars, files, threads
<1> QED BY <1>2, <1>3, <1>4, <1>5, <1>6, <1>7, <1>8 DEF Next, Step, Read

\* Whatever point of an append, a verification or an earlier recovery processes are killed
\* at, the next one to start repairs the log and serves (server.py:25).
THEOREM RestartsRepair == ASSUME KillsOnly PROVE Spec => []RestartRepairs
<1>1. PartialTears /\ "power" \notin Faults
  BY DEF KillsOnly, PartialTears
<1>2. Spec => [](TypeInv /\ LockInv /\ FileInv) /\ []AnchorLag
  BY <1>1, Inductive, OneLineBehind, PTL
<1>3. TypeInv /\ FileInv /\ AnchorLag /\ Repairable /\ [Next]_vars => Repairable'
  BY RepairNext
<1>4. Spec => []Repairable
  BY <1>2, <1>3, RepairInit, PTL DEF Spec
<1> QED BY <1>4, PTL DEF Repairable

-----------------------------------------------------------------------------
(* The log implements AuditChain while the machine stays up *)

Payloads(lines) ==
    [i \in {j \in DOMAIN lines : lines[j].form = "complete"} |-> lines[i].entry.data]
\* The length the anchor vouches for.
Vouched == IF head = None THEN None ELSE head.count
\* The positions append() has returned.
Returned == {e.index : e \in acked}

\* Reading a log that is whole gives its lines' payloads.
LEMMA PayloadsOfWhole ==
    ASSUME NEW lines \in Seq(LineType), \A i \in DOMAIN lines : lines[i].form = "complete"
    PROVE  /\ Payloads(lines) \in Seq(Payload)
           /\ Len(Payloads(lines)) = Len(lines)
           /\ \A i \in 1..Len(lines) : Payloads(lines)[i] = lines[i].entry.data
<1>1. DOMAIN lines = 1..Len(lines) /\ Len(lines) \in Nat
  BY LenProperties
<1>2. ASSUME NEW i \in 1..Len(lines) PROVE lines[i].entry.data \in Payload
  <2>1. lines[i] \in LineType
    BY ElementOfSeq
  <2> QED BY <2>1 DEF LineType, EntryType
<1>3. {j \in DOMAIN lines : lines[j].form = "complete"} = 1..Len(lines)
  BY <1>1
<1>4. Payloads(lines) = [i \in 1..Len(lines) |-> lines[i].entry.data]
  BY <1>3 DEF Payloads
<1>5. Payloads(lines) \in [1..Len(lines) -> Payload]
  BY <1>2, <1>4
<1>6. Payloads(lines) \in Seq(Payload)
  BY <1>1, <1>5, SeqDef
<1>7. DOMAIN Payloads(lines) = 1..Len(lines)
  BY <1>5
<1> QED BY <1>1, <1>4, <1>6, <1>7, LenProperties

\* Another whole line adds its payload to those of the log.
LEMMA PayloadsOfAppend ==
    ASSUME NEW lines \in Seq(LineType), \A i \in DOMAIN lines : lines[i].form = "complete",
           NEW e \in EntryType
    PROVE  /\ Payloads(Append(lines, Line(e, "complete"))) = Append(Payloads(lines), e.data)
           /\ Payloads(Append(lines, Line(e, "partial"))) = Payloads(lines)
<1>1. /\ Line(e, "complete") \in LineType /\ Line(e, "partial") \in LineType
      /\ Line(e, "complete").form = "complete" /\ Line(e, "partial").form = "partial"
      /\ Line(e, "complete").entry = e
  BY DEF Line, LineType
<1>2. e.data \in Payload
  BY DEF EntryType
<1>3. Payloads(Append(lines, Line(e, "complete"))) = Append(Payloads(lines), e.data)
  <2> DEFINE new == Append(lines, Line(e, "complete"))
             old == Payloads(lines)
  <2>1. /\ new \in Seq(LineType) /\ Len(new) = Len(lines) + 1
        /\ \A i \in 1..Len(lines) : new[i] = lines[i]
        /\ new[Len(lines) + 1] = Line(e, "complete")
        /\ DOMAIN new = 1..(Len(lines) + 1) /\ DOMAIN lines = 1..Len(lines)
        /\ Len(lines) \in Nat
    BY <1>1, AppendProperties, LenProperties
  <2> HIDE DEF new
  <2>2. \A i \in DOMAIN new : new[i].form = "complete"
    BY <1>1, <2>1
  <2>3. /\ Payloads(new) \in Seq(Payload) /\ Len(Payloads(new)) = Len(lines) + 1
        /\ \A i \in 1..(Len(lines) + 1) : Payloads(new)[i] = new[i].entry.data
    BY <2>1, <2>2, PayloadsOfWhole
  <2>4. /\ old \in Seq(Payload) /\ Len(old) = Len(lines)
        /\ \A i \in 1..Len(lines) : old[i] = lines[i].entry.data
    BY PayloadsOfWhole
  <2> HIDE DEF old
  <2>5. /\ Append(old, e.data) \in Seq(Payload) /\ Len(Append(old, e.data)) = Len(lines) + 1
        /\ \A i \in 1..Len(lines) : Append(old, e.data)[i] = old[i]
        /\ Append(old, e.data)[Len(lines) + 1] = e.data
    BY <1>2, <2>4, AppendProperties
  <2>6. \A i \in 1..(Len(lines) + 1) : Payloads(new)[i] = Append(old, e.data)[i]
    BY <1>1, <2>1, <2>3, <2>4, <2>5
  <2>7. Payloads(new) = Append(old, e.data)
    BY <2>3, <2>5, <2>6, SeqEqual
  <2> QED BY <2>7 DEF new, old
<1>4. Payloads(Append(lines, Line(e, "partial"))) = Payloads(lines)
  <2> DEFINE new == Append(lines, Line(e, "partial"))
  <2>1. /\ \A i \in 1..Len(lines) : new[i] = lines[i]
        /\ new[Len(lines) + 1] = Line(e, "partial")
        /\ DOMAIN new = 1..(Len(lines) + 1) /\ DOMAIN lines = 1..Len(lines)
        /\ Len(lines) \in Nat
    BY <1>1, AppendProperties, LenProperties
  <2> HIDE DEF new
  <2>2. {j \in DOMAIN new : new[j].form = "complete"} = {j \in DOMAIN lines : lines[j].form = "complete"}
    BY <1>1, <2>1
  <2>3. Payloads(new) = Payloads(lines)
    BY <2>1, <2>2 DEF Payloads
  <2> QED BY <2>3 DEF new
<1> QED BY <1>3, <1>4

\* None, which stands for a missing anchor file, is not an anchor.
NoneIsNoAnchor == None \notin [count : Nat, hash : Seq(Payload)]

\* A published anchor is never mistaken for none.
LEMMA AnchorIsNotNone ==
    ASSUME NoneIsNoAnchor, NEW entries \in Seq(EntryType)
    PROVE  Anchor(entries) # None
  BY TipHashType, LenProperties DEF NoneIsNoAnchor, Anchor

\* The first states of the log are first states of the chain it promises.
LEMMA ChainInit == Init => Chain!Init
<1> SUFFICES ASSUME Init PROVE Chain!Init
  OBVIOUS
<1> DEFINE old == [i \in 1..Len(LegacyData) |-> Line(LegacyEntry(i), "complete")]
<1>1. LegacyData \in Seq(Payload) /\ Len(LegacyData) \in Nat
  BY LogAssumption, LenProperties
<1>2. \A i \in 1..Len(LegacyData) : old[i].form = "complete" /\ old[i].entry.data = LegacyData[i]
  BY DEF Line, LegacyEntry
<1>3. {j \in DOMAIN old : old[j].form = "complete"} = 1..Len(LegacyData)
  BY <1>2
<1>4. Payloads(old) = [i \in 1..Len(LegacyData) |-> LegacyData[i]]
  BY <1>2, <1>3 DEF Payloads
<1>5. Payloads(old) = LegacyData
  BY <1>1, <1>4, LenProperties
<1> QED BY <1>5 DEF Init, Chain!Init, Payloads

\* A step of the log is a step of the chain it promises, or none.
LEMMA ChainStep ==
    ASSUME PartialTears, NoneIsNoAnchor, "power" \notin Faults, TypeInv, LockInv, FileInv, [Next]_vars
    PROVE  [Chain!Next]_(Chain!vars)
<1> USE DEF TypeInv, TypeOK
<1>0. /\ log \in Seq(LineType)
      /\ Whole /\ \A t \in Thread : Knows(t)
  BY DEF FileInv
<1>1. ASSUME UNCHANGED <<log, head, acked>> PROVE UNCHANGED Chain!vars
  BY <1>1 DEF Chain!vars
<1>2. ASSUME Payloads(log)' = Payloads(log), UNCHANGED <<head, acked>> PROVE UNCHANGED Chain!vars
  BY <1>2 DEF Chain!vars, Payloads
<1>3. ASSUME Readable(log) PROVE \A i \in DOMAIN log : log[i].form = "complete"
  BY <1>0, <1>3, AppendToReadable DEF Whole
\* The writer has verified the log: its entry extends the chain.
<1>4. ASSUME NEW t \in Thread, WriteEntry(t) PROVE Chain!Next
  <2>1. /\ log' = AppendBytes(log, entry[t], "complete") /\ UNCHANGED <<head, acked>>
        /\ entry[t] \in EntryType /\ ValidTip(log, head)
    BY <1>0, <1>4 DEF WriteEntry, Knows
  <2>2. \A i \in DOMAIN log : log[i].form = "complete"
    BY <1>3, <2>1 DEF ValidTip
  <2>3. log' = Append(log, Line(entry[t], "complete"))
    BY <1>0, <2>1, AppendToReadable DEF ValidTip, Whole
  <2>4. Payloads(log)' = Append(Payloads(log), entry[t].data)
    <3>1. Payloads(Append(log, Line(entry[t], "complete"))) = Append(Payloads(log), entry[t].data)
      BY <1>0, <2>1, <2>2, PayloadsOfAppend
    <3> QED BY <2>3, <3>1 DEF Payloads
  <2>5. Vouched \in {None, Len(Payloads(log))}
    <3>1. Len(Payloads(log)) = Len(log) /\ Len(ReadEntries(log)) = Len(log)
      BY <1>0, <2>2, PayloadsOfWhole, ReadEntriesType
    <3>2. head = None \/ head.count = Len(ReadEntries(log))
      BY <2>1 DEF ValidTip, Anchor
    <3> QED BY <3>1, <3>2 DEF Vouched
  <2>6. entry[t].data \in Payload
    BY <2>1 DEF EntryType
  <2> QED BY <2>1, <2>4, <2>5, <2>6 DEF Chain!Next, Chain!Extend, Payloads, Vouched
\* The anchor moves to the last entry, which is whole.
<1>5. ASSUME NEW t \in Thread, ReplaceHead(t) PROVE Chain!Next
  <2>1. /\ head' = [count |-> entry[t].index, hash |-> Hash(entry[t])]
        /\ UNCHANGED <<log, acked>> /\ EndsWith(t)
    BY <1>0, <1>5 DEF ReplaceHead, Knows
  <2>2. head' = Anchor(ReadEntries(log))
    BY <1>0, <2>1, AnchorOfLast
  <2>3. \A i \in DOMAIN log : log[i].form = "complete"
    BY <1>3, <2>1 DEF EndsWith
  <2>4. /\ Payloads(log) \in Seq(Payload) /\ Len(Payloads(log)) = Len(log)
        /\ Len(ReadEntries(log)) = Len(log)
    BY <1>0, <2>3, PayloadsOfWhole, ReadEntriesType
  <2>5. Payloads(log) # <<>>
    BY <1>0, <2>1, <2>4, EmptySeq DEF EndsWith
  <2>6. head'.count = Len(Payloads(log)) /\ head' # None
    BY <1>0, <2>2, <2>4, ReadEntriesType, AnchorIsNotNone DEF Anchor
  <2> QED BY <2>1, <2>5, <2>6 DEF Chain!Next, Chain!Publish, Payloads
\* append() returns an entry that the anchor names.
<1>6. ASSUME NEW t \in Thread, Return(t) PROVE [Chain!Next]_(Chain!vars)
  <2>1. pc[t] = "unlock" /\ UNCHANGED <<log, head, entry>>
    BY <1>6 DEF Return, files
  <2>2. CASE op[t] = "append" /\ result[t] = "ok"
    <3>1. EndsWith(t) /\ head = Anchor(ReadEntries(log))
      BY <1>0, <2>1, <2>2 DEF Knows
    <3>2. \A i \in DOMAIN log : log[i].form = "complete"
      BY <1>3, <3>1 DEF EndsWith
    <3>3. Len(Payloads(log)) = Len(log) /\ Len(ReadEntries(log)) = Len(log)
      BY <1>0, <3>2, PayloadsOfWhole, ReadEntriesType
    <3>4. entry[t].index = Len(Payloads(log))
      BY <1>0, <3>1, <3>3, AnchorOfLast
    <3>5. Vouched = Len(Payloads(log))
      BY <1>0, <3>1, <3>3, ReadEntriesType, AnchorIsNotNone DEF Vouched, Anchor
    <3>6. acked' = acked \cup {entry[t]}
      BY <1>6, <2>2 DEF Return
    <3>7. Returned' = Returned \cup {Vouched}
      BY <3>4, <3>5, <3>6 DEF Returned
    <3> QED BY <2>1, <3>5, <3>7 DEF Chain!Next, Chain!Acknowledge, Payloads, Vouched, Returned
  <2>3. CASE ~ (op[t] = "append" /\ result[t] = "ok")
    BY <1>1, <1>6, <2>1, <2>3 DEF Return
  <2> QED BY <2>2, <2>3
\* Half a line is not part of the chain.
<1>7. ASSUME NEW t \in Thread, pc[t] = "write", NEW form \in Tears,
             log' = AppendBytes(log, entry[t], form)
      PROVE  Payloads(log)' = Payloads(log)
  <2>1. entry[t] \in EntryType /\ Readable(log) /\ form = "partial"
    BY <1>0, <1>7 DEF Knows, ValidTip, PartialTears
  <2>2. \A i \in DOMAIN log : log[i].form = "complete"
    BY <1>3, <2>1
  <2>3. log' = Append(log, Line(entry[t], "partial"))
    BY <1>0, <1>7, <2>1, AppendToReadable DEF Whole
  <2>4. Payloads(Append(log, Line(entry[t], "partial"))) = Payloads(log)
    BY <1>0, <2>1, <2>2, PayloadsOfAppend
  <2> QED BY <2>3, <2>4 DEF Payloads
<1>8. ASSUME NEW t \in Thread, TearWrite(t) PROVE UNCHANGED Chain!vars
  <2>1. PICK form \in Tears : log' = AppendBytes(log, entry[t], form)
    BY <1>8 DEF TearWrite
  <2>2. pc[t] = "write" /\ UNCHANGED <<head, acked>>
    BY <1>8 DEF TearWrite
  <2> QED BY <1>2, <1>7, <2>1, <2>2
<1>9. ASSUME NEW p \in Proc, KillProcess(p) PROVE UNCHANGED Chain!vars
  <2>1. UNCHANGED <<head, acked>>
    BY <1>9 DEF KillProcess, Abandon
  <2>2. CASE UNCHANGED log
    BY <1>1, <2>1, <2>2
  <2>3. CASE ~ UNCHANGED log
    <3>1. PICK t \in Thread, form \in Tears :
            pc[t] = "write" /\ log' = AppendBytes(log, entry[t], form)
      BY <1>9, <2>3 DEF KillProcess
    <3> QED BY <1>2, <1>7, <2>1, <3>1
  <2> QED BY <2>2, <2>3
<1>10. ~ PowerLoss
  BY DEF PowerLoss, Suffer
<1>11. ASSUME NEW t \in Thread,
              \/ AcquireThreadLock(t) \/ AcquireFileLock(t) \/ Read(t) \/ FsyncEntry(t)
              \/ FsyncDirectory(t) \/ RaiseOSError(t)
              \/ \E o \in {"append", "verify"} : Call(t, o)
              \/ \E p \in Proc : StartProcess(p, t)
       PROVE  UNCHANGED Chain!vars
  BY <1>1, <1>11 DEF AcquireThreadLock, AcquireFileLock, Read, ReadForAppend, ReadForVerify,
                     ReadForRecover, FsyncEntry, FsyncDirectory, RaiseOSError, Call, Begin,
                     StartProcess, files
<1>12. ASSUME NEW p \in Proc, StopProcess(p) PROVE UNCHANGED Chain!vars
  BY <1>1, <1>12 DEF StopProcess, files
<1>13. CASE UNCHANGED vars
  BY <1>1, <1>13 DEF vars, files
<1> QED BY <1>4, <1>5, <1>6, <1>8, <1>9, <1>10, <1>11, <1>12, <1>13 DEF Next, Step

\* While the machine stays up, the lock files, the fsyncs, the recoveries and the deaths
\* of any number of processes amount to one chain that only grows, and that is extended
\* only behind its anchor.
THEOREM ChainImplemented ==
    ASSUME PartialTears, NoneIsNoAnchor, "power" \notin Faults
    PROVE  Spec => ChainSpec
<1>1. TypeInv /\ LockInv /\ FileInv /\ [Next]_vars => [Chain!Next]_(Chain!vars)
  BY ChainStep
<1> QED BY <1>1, ChainInit, Inductive, PTL DEF Spec, ChainSpec, Chain!Spec
=============================================================================
