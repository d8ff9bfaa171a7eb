--------------------------- MODULE TranscriptProofs ---------------------------
(***************************************************************************)
(* Proofs about Transcript for any threads, faults and bounds.  Where the  *)
(* file may be missing at first, a power loss must be the only fault: the  *)
(* run transcript_new_file shows what it does after another one.           *)
(***************************************************************************)
EXTENDS Transcript, TLAPS, SequenceTheorems

\* The envelope a thread writes, and a line of the file.
Env == [seq : Nat \cup {None}, id : Nat]
LineType == [seq : Nat \cup {None}, id : Nat, form : {"complete", "partial", "garbled"}]

\* The hypothesis of the theorems.
Constants ==
    /\ None \notin Thread \cup Seq(LineType)
    /\ LegacyLines \subseteq Nat
    /\ MaxCalls \in Nat
    /\ "power" \in Faults => 0 \notin LegacyLines \/ MaxNewFaults \in {0, 1}

-----------------------------------------------------------------------------
(* The inductive invariant *)

\* The places of a call.
Label == {"idle", "lock", "read", "truncate", "open", "write", "fsync", "syncdir", "unlock"}

\* What a thread writes.
Typed(t) == pc[t] # "idle" => envelope[t] \in Env /\ envelope[t].id \in 1..calls

\* The types, and that calls number the events.
TypeInv ==
    /\ file \in Seq(LineType) \cup {None}
    /\ synced \in 0..Len(Lines)
    /\ lock \in Thread \cup {None}
    /\ pc \in [Thread -> Label]
    /\ op \in [Thread -> {"append", "read"}]
    /\ envelope = [t \in Thread |-> envelope[t]]
    /\ created \in [Thread -> BOOLEAN]
    /\ result \in [Thread -> {"none", "ok", "oserror", "corrupt"}]
    /\ \A t \in Thread : Typed(t)
    /\ calls \in 0..MaxCalls

\* Who is past the lock holds it.
LockInv == \A t \in Thread : pc[t] \notin {"idle", "lock"} => lock = t

\* The file can be read: only its last line may have been cut off.
Good(lines) ==
    \A i \in 1..Len(lines) :
        /\ lines[i].form \in {"complete", "partial"}
        /\ i < Len(lines) => lines[i].form = "complete"
        /\ lines[i].form = "complete" => lines[i].seq \in {None, i}

\* The file ends in the event of t.
EndsWith(t) ==
    /\ file # None /\ ~ Torn(file)
    /\ Len(file) > 0
    /\ envelope[t].seq = Len(file)
    /\ file[Len(file)] = Line(envelope[t], "complete")

\* What a thread knows about the file at each point of its call.
Knows(t) ==
    /\ pc[t] \in {"truncate", "open", "write", "fsync", "syncdir"} => op[t] = "append"
    /\ pc[t] = "truncate" => file # None /\ Torn(file) /\ envelope[t].seq = Len(file)
    /\ pc[t] \in {"open", "write"} => ~ Torn(Lines) /\ envelope[t].seq = Len(Lines) + 1
    /\ pc[t] = "write" => file # None
    /\ pc[t] \in {"fsync", "syncdir"} => EndsWith(t)
    /\ pc[t] = "syncdir" => synced = Len(file)
    /\ pc[t] = "unlock" /\ op[t] = "append" /\ result[t] = "ok" => EndsWith(t) /\ synced = Len(file)

\* What holds of the file at every point of every call.
FileInv ==
    /\ Good(Lines)
    /\ \A t \in Thread : Knows(t)
    /\ ReturnedDurable
    /\ NeverCorrupt

\* What no loss of power may take back.
Inv == TypeInv /\ LockInv /\ FileInv

\* A thread that is past the lock.
Critical(t) == pc[t] \notin {"idle", "lock"}

\* The file is there, and so is its durable directory entry.
Rooted == file # None /\ linked

\* Nobody got anything from append_event() yet, and who makes the file knows it.
Fresh ==
    /\ returned = {}
    /\ \A t \in Thread : Critical(t) =>
         IF file = None
           THEN \/ pc[t] \in {"read", "open"}
                \/ pc[t] = "unlock" /\ (op[t] = "append" => result[t] # "ok")
           ELSE pc[t] \in {"write", "fsync", "syncdir"} /\ created[t]
    /\ file # None => \E t \in Thread : Critical(t)

\* A loss of power finds a linked file, or a fresh one.
LinkInv == "power" \in Faults => Rooted \/ spare = 0 \/ (spare = 1 /\ Fresh)

-----------------------------------------------------------------------------
(* Lines *)

\* What is left of a good file without its cut tail is good, and all of it is whole.
LEMMA CommittedOf ==
    ASSUME NEW lines \in Seq(LineType), Good(lines)
    PROVE  /\ Committed(lines) \in Seq(LineType)
           /\ Len(Committed(lines)) \in Nat
           /\ Len(Committed(lines)) = IF Torn(lines) THEN Len(lines) - 1 ELSE Len(lines)
           /\ \A i \in 1..Len(Committed(lines)) :
                Committed(lines)[i] = lines[i] /\ lines[i].form = "complete"
           /\ Valid(Committed(lines))
           /\ ~ Torn(Committed(lines)) /\ Good(Committed(lines))
<1> DEFINE n == Len(lines)
           c == Committed(lines)
           m == Len(c)
<1>1. n \in Nat /\ (lines # <<>> <=> n > 0)
  BY LenProperties, EmptySeq
<1>2. /\ c \in Seq(LineType) /\ m = IF Torn(lines) THEN n - 1 ELSE n
      /\ \A i \in 1..m : c[i] = lines[i]
  <2>1. CASE Torn(lines)
    <3>1. n > 0 /\ c = SubSeq(lines, 1, n - 1)
      BY <1>1, <2>1 DEF Torn, Committed
    <3> DEFINE k == n - 1
    <3>2. k \in Nat /\ \A i \in 1..k : lines[i] \in LineType
      BY <1>1, <3>1, ElementOfSeq
    <3> HIDE DEF n
    <3>3. /\ SubSeq(lines, 1, k) \in Seq(LineType) /\ Len(SubSeq(lines, 1, k)) = k
          /\ \A i \in 1..k : SubSeq(lines, 1, k)[i] = lines[i]
      <4> HIDE DEF k
      <4> QED BY <3>2, SubSeqProperties
    <3>4. /\ SubSeq(lines, 1, n - 1) \in Seq(LineType) /\ Len(SubSeq(lines, 1, n - 1)) = n - 1
          /\ \A i \in 1..(n - 1) : SubSeq(lines, 1, n - 1)[i] = lines[i]
      BY <3>3
    <3> HIDE DEF c
    <3> QED BY <2>1, <3>1, <3>4
  <2>2. CASE ~ Torn(lines)
    BY <2>2 DEF Committed
  <2> QED BY <2>1, <2>2
<1>3. m \in Nat
  BY <1>2, LenProperties
<1> HIDE DEF c, m
<1>4. \A i \in 1..m : c[i] = lines[i] /\ lines[i].form = "complete"
  BY <1>1, <1>2, <1>3 DEF Good, Torn
<1>5. \A i \in 1..m : c[i].form = "complete" /\ c[i].seq \in {None, i}
  BY <1>1, <1>2, <1>3, <1>4 DEF Good, Torn
<1>6. Len(c) = m
  BY DEF m
<1>7. DOMAIN c = 1..m
  BY <1>2, <1>6, LenProperties
<1>8. Valid(c)
  BY <1>5, <1>7 DEF Valid
<1>9. c # <<>> => m > 0
  BY <1>2, <1>3, <1>6, EmptySeq
<1>10. ~ Torn(c)
  BY <1>3, <1>5, <1>6, <1>9 DEF Torn
<1>11. Good(c)
  BY <1>5, <1>6 DEF Good
<1> QED BY <1>2, <1>3, <1>4, <1>8, <1>10, <1>11 DEF c, m

\* What a line, whole or cut short, adds to a good file without a cut tail.
LEMMA AppendLine ==
    ASSUME NEW lines \in Seq(LineType), Good(lines), ~ Torn(lines),
           NEW e \in Env, e.seq = Len(lines) + 1, NEW form \in {"complete", "partial"}
    PROVE  LET new == AppendBytes(lines, e, form) IN
           /\ new \in Seq(LineType) /\ Len(new) = Len(lines) + 1 /\ Len(lines) \in Nat
           /\ \A i \in 1..Len(lines) : new[i] = lines[i]
           /\ new[Len(lines) + 1] = Line(e, form)
           /\ Good(new)
           /\ Torn(new) <=> form = "partial"
<1> DEFINE new == Append(lines, Line(e, form))
           n == Len(lines)
<1>1. AppendBytes(lines, e, form) = new
  BY DEF AppendBytes
<1>2. Line(e, form) \in LineType /\ Line(e, form).form = form /\ Line(e, form).seq = n + 1
  BY DEF Line, LineType, Env
<1>3. /\ new \in Seq(LineType) /\ Len(new) = n + 1 /\ n \in Nat
      /\ \A i \in 1..n : new[i] = lines[i]
      /\ new[n + 1] = Line(e, form)
  BY <1>2, AppendProperties, LenProperties
<1> HIDE DEF new
<1>4. \A i \in 1..n : lines[i].form = "complete" /\ lines[i].seq \in {None, i}
  <2>1. n > 0 => lines # <<>>
    BY <1>3, EmptySeq
  <2> QED BY <1>3, <2>1 DEF Good, Torn
<1>5. \A i \in 1..(n + 1) : /\ new[i].form = IF i = n + 1 THEN form ELSE "complete"
                            /\ new[i].seq \in {None, i}
  BY <1>2, <1>3, <1>4
<1>6. Good(new)
  BY <1>3, <1>5 DEF Good
<1>7. new # <<>>
  BY <1>3, EmptySeq
<1>8. Torn(new) <=> form = "partial"
  BY <1>3, <1>5, <1>7 DEF Torn
<1> QED BY <1>1, <1>3, <1>6, <1>8

\* A prefix of a good file is good, also when the next line survives in part.
LEMMA PrefixGood ==
    ASSUME NEW lines \in Seq(LineType), Good(lines), NEW n \in 0..Len(lines)
    PROVE  /\ SubSeq(lines, 1, n) \in Seq(LineType) /\ Len(SubSeq(lines, 1, n)) = n
           /\ \A i \in 1..n : SubSeq(lines, 1, n)[i] = lines[i]
           /\ Good(SubSeq(lines, 1, n))
           /\ n < Len(lines) => ~ Torn(SubSeq(lines, 1, n))
           /\ n < Len(lines) =>
                LET cut == Append(SubSeq(lines, 1, n), [lines[n + 1] EXCEPT !.form = "partial"]) IN
                /\ cut \in Seq(LineType) /\ Len(cut) = n + 1
                /\ \A i \in 1..n : cut[i] = lines[i]
                /\ Good(cut) /\ Torn(cut)
<1> DEFINE s == SubSeq(lines, 1, n)
           last == [lines[n + 1] EXCEPT !.form = "partial"]
           cut == Append(s, last)
<1>1. n \in Nat /\ Len(lines) \in Nat /\ n <= Len(lines)
  BY LenProperties
<1>2. s \in Seq(LineType) /\ Len(s) = n /\ \A i \in 1..n : s[i] = lines[i]
  BY <1>1, SubSeqProperties
<1> HIDE DEF s
<1>3. Good(s)
  BY <1>1, <1>2 DEF Good
<1>4. ASSUME n < Len(lines) PROVE ~ Torn(s)
  <2>1. s # <<>> => n > 0
    BY <1>2, EmptySeq
  <2> QED BY <1>1, <1>2, <1>4, <2>1 DEF Torn, Good
<1>5. ASSUME n < Len(lines)
      PROVE  /\ cut \in Seq(LineType) /\ Len(cut) = n + 1
             /\ \A i \in 1..n : cut[i] = lines[i]
             /\ Good(cut) /\ Torn(cut)
  <2>1. lines[n + 1] \in LineType
    BY <1>1, <1>5, ElementOfSeq
  <2>2. last \in LineType /\ last.form = "partial"
    BY <2>1 DEF LineType
  <2> HIDE DEF last
  <2>3. /\ cut \in Seq(LineType) /\ Len(cut) = n + 1 /\ cut[n + 1] = last
        /\ \A i \in 1..n : cut[i] = lines[i]
    BY <1>2, <2>2, AppendProperties
  <2> HIDE DEF cut
  <2>4. \A i \in 1..n : lines[i].form = "complete" /\ lines[i].seq \in {None, i}
    BY <1>1, <1>5 DEF Good
  <2>5. \A i \in 1..(n + 1) : cut[i].form = (IF i = n + 1 THEN "partial" ELSE "complete")
                              /\ (i <= n => cut[i].seq \in {None, i})
    BY <1>1, <2>2, <2>3, <2>4
  <2>6. Good(cut)
    BY <1>1, <2>3, <2>5 DEF Good
  <2>7. cut # <<>>
    BY <1>1, <2>3, EmptySeq
  <2>8. Torn(cut)
    BY <1>1, <2>3, <2>5, <2>7 DEF Torn
  <2> QED BY <2>3, <2>6, <2>8
<1> QED BY <1>2, <1>3, <1>4, <1>5 DEF s

-----------------------------------------------------------------------------
(* Steps of a thread *)

\* A step of t leaves the other threads where they are.
Moved(t) ==
    /\ pc' \in [Thread -> Label]
    /\ op' \in [Thread -> {"append", "read"}]
    /\ envelope' = [u \in Thread |-> envelope'[u]]
    /\ created' \in [Thread -> BOOLEAN]
    /\ result' \in [Thread -> {"none", "ok", "oserror", "corrupt"}]
    /\ \A u \in Thread : u # t =>
         /\ pc'[u] = pc[u] /\ op'[u] = op[u]
         /\ envelope'[u] = envelope[u] /\ result'[u] = result[u]

\* A step of t keeps the invariant if it keeps what concerns the file and t: who is past
\* the lock is alone there, and the others know nothing.
LEMMA Frame ==
    ASSUME Constants, Inv, NEW t \in Thread, Moved(t),
           Critical(t) \/ UNCHANGED disk,
           \/ UNCHANGED lock
           \/ lock = None /\ lock' = t
           \/ lock' = None /\ Critical(t),
           Critical(t)' => lock' = t,
           file' \in Seq(LineType) \cup {None}, (synced \in 0..Len(Lines))', Good(Lines)',
           Knows(t)', Typed(t)', ReturnedDurable', result'[t] # "corrupt",
           calls' \in calls..MaxCalls
    PROVE  Inv'
<1> USE DEF Inv
<1>1. ASSUME NEW u \in Thread, u # t PROVE (Critical(u) => lock = u)' /\ Typed(u)' /\ Knows(u)'
  <2>1. /\ pc'[u] = pc[u] /\ op'[u] = op[u]
        /\ envelope'[u] = envelope[u] /\ result'[u] = result[u]
    BY <1>1 DEF Moved
  <2>2. /\ Critical(u) => lock = u
        /\ Critical(t) => lock = t
        /\ Typed(u) /\ Knows(u)
    BY DEF LockInv, Critical, TypeInv, FileInv
  <2>3. Critical(u) => lock' = u
    BY <1>1, <2>2 DEF Constants
  <2>4. Typed(u)'
    BY <2>1, <2>2 DEF Typed, TypeInv, Constants
  <2>5. CASE Critical(u)
    <3>1. UNCHANGED disk
      BY <1>1, <2>2, <2>5
    <3> QED BY <2>1, <2>2, <2>3, <2>4, <3>1 DEF Knows, EndsWith, disk, Lines, Critical
  <2>6. CASE ~ Critical(u)
    BY <2>1, <2>4, <2>6 DEF Knows, Critical
  <2> QED BY <2>5, <2>6
<1>2. TypeInv'
  <2>1. lock' \in Thread \cup {None}
    BY DEF TypeInv
  <2>2. calls' \in 0..MaxCalls
    BY DEF TypeInv, Constants
  <2>3. \A u \in Thread : Typed(u)'
    BY <1>1
  <2> QED BY <2>1, <2>2, <2>3 DEF TypeInv, Moved
<1>3. LockInv'
  BY <1>1 DEF LockInv, Critical
<1>4. FileInv'
  BY <1>1 DEF FileInv, NeverCorrupt, Moved
<1> QED BY <1>2, <1>3, <1>4

\* What append_event returned stays durable while the durable lines stay.
LEMMA ReturnedKept ==
    ASSUME Constants, Inv, UNCHANGED returned,
           synced' \in Nat, synced' >= synced, \A i \in 1..synced : file'[i] = file[i]
    PROVE  ReturnedDurable'
  BY DEF Inv, TypeInv, FileInv, ReturnedDurable

\* What a call does to the place of its thread.
LEMMA Moves ==
    ASSUME Constants, Inv, NEW t \in Thread, UNCHANGED <<op, envelope, created>>
    PROVE  /\ \A label \in Label : Goto(t, label) /\ UNCHANGED result =>
                Moved(t) /\ pc'[t] = label /\ result'[t] = result[t]
           /\ \A outcome \in {"ok", "oserror", "corrupt"} : Finish(t, outcome) =>
                Moved(t) /\ pc'[t] = "unlock" /\ result'[t] = outcome
<1> USE DEF Inv, TypeInv
<1>1. ASSUME NEW label \in Label, Goto(t, label), UNCHANGED result
      PROVE  Moved(t) /\ pc'[t] = label /\ result'[t] = result[t]
  BY <1>1 DEF Goto, Moved
<1>2. ASSUME NEW outcome \in {"ok", "oserror", "corrupt"}, Finish(t, outcome)
      PROVE  Moved(t) /\ pc'[t] = "unlock" /\ result'[t] = outcome
  BY <1>2 DEF Finish, Goto, Moved, Label
<1> QED BY <1>1, <1>2

\* A step that leaves the file alone.
LEMMA Still ==
    ASSUME Constants, Inv, NEW t \in Thread, Moved(t), UNCHANGED <<disk, returned>>,
           \/ UNCHANGED lock
           \/ lock = None /\ lock' = t
           \/ lock' = None /\ Critical(t),
           Critical(t)' => lock' = t,
           Knows(t)', Typed(t)', result'[t] # "corrupt", calls' \in calls..MaxCalls
    PROVE  Inv'
<1>1. UNCHANGED <<file, synced, linked>>
  BY DEF disk
<1>2. (synced \in 0..Len(Lines))' /\ Good(Lines)' /\ ReturnedDurable'
  BY <1>1 DEF Inv, TypeInv, FileInv, ReturnedDurable, Lines
<1> QED BY <1>1, <1>2, Frame DEF Inv, TypeInv

\* What is known of a thread in the middle of its call.
LEMMA InCall ==
    ASSUME Constants, Inv, NEW t \in Thread, pc[t] # "idle"
    PROVE  /\ Typed(t) /\ Knows(t) /\ envelope[t] \in Env
           /\ Critical(t) => lock = t
           /\ result[t] # "corrupt" /\ calls \in calls..MaxCalls
  BY DEF Constants, Inv, TypeInv, FileInv, LockInv, Critical, Typed, NeverCorrupt

\* A call begins.
LEMMA CallKeeps ==
    ASSUME Constants, Inv, NEW t \in Thread, NEW o \in {"append", "read"}, Call(t, o)
    PROVE  Inv'
<1> USE DEF Inv, TypeInv
<1>1. Moved(t) /\ pc[t] = "idle" /\ pc'[t] = "lock" /\ result'[t] = "none"
  BY DEF Call, Goto, Moved, Label
<1>2. /\ UNCHANGED <<disk, returned, lock>> /\ calls' = calls + 1 /\ calls < MaxCalls
      /\ envelope'[t] = [seq |-> None, id |-> calls']
  BY DEF Call
<1>3. Typed(t)' /\ Knows(t)'
  BY <1>1, <1>2 DEF Typed, Knows, Env, Constants
<1>4. calls' \in calls..MaxCalls
  BY <1>2 DEF Constants
<1> QED BY <1>1, <1>2, <1>3, <1>4, Still DEF Critical

\* A thread takes the lock.
LEMMA AcquireKeeps == ASSUME Constants, Inv, NEW t \in Thread, AcquireLock(t) PROVE Inv'
<1>1. Goto(t, "read") /\ UNCHANGED <<disk, op, envelope, created, result, returned, calls>>
  BY DEF AcquireLock
<1>2. Moved(t) /\ pc'[t] = "read" /\ result'[t] = result[t] /\ pc[t] = "lock"
  BY <1>1, Moves DEF Label, AcquireLock
<1>3. Typed(t)' /\ Knows(t)'
  BY <1>1, <1>2, InCall DEF Typed, Knows
<1> QED BY <1>1, <1>2, <1>3, InCall, Still DEF Critical, AcquireLock

\* A thread reads the file, which it finds valid.
LEMMA ReadKeeps == ASSUME Constants, Inv, NEW t \in Thread, ReadTranscript(t) PROVE Inv'
<1>1. /\ pc[t] = "read" /\ UNCHANGED <<disk, lock, op, created, returned, calls>>
  BY DEF ReadTranscript
<1>2. Lines \in Seq(LineType) /\ Good(Lines)
  BY DEF Inv, TypeInv, FileInv, Lines
<1>3. /\ Valid(Committed(Lines)) /\ Len(Committed(Lines)) \in Nat
      /\ Len(Committed(Lines)) = IF Torn(Lines) THEN Len(Lines) - 1 ELSE Len(Lines)
  BY <1>2, CommittedOf
<1>4. Critical(t) /\ lock = t /\ Typed(t) /\ result[t] # "corrupt" /\ calls \in calls..MaxCalls
  BY <1>1, InCall DEF Critical
<1>5. CASE op[t] = "read"
  <2>1. Finish(t, "ok") /\ UNCHANGED envelope
    BY <1>3, <1>5 DEF ReadTranscript
  <2>2. Moved(t) /\ pc'[t] = "unlock" /\ result'[t] = "ok"
    BY <1>1, <2>1, Moves
  <2>3. Typed(t)' /\ Knows(t)'
    BY <1>1, <1>4, <1>5, <2>1, <2>2 DEF Typed, Knows
  <2> QED BY <1>1, <1>4, <2>2, <2>3, Still
<1>6. CASE op[t] = "append"
  <2> DEFINE label == IF Torn(Lines) THEN "truncate" ELSE "open"
  <2>1. /\ envelope' = [envelope EXCEPT ![t].seq = Len(Committed(Lines)) + 1]
        /\ Goto(t, label) /\ UNCHANGED result
    BY <1>3, <1>6 DEF ReadTranscript
  <2>2. Moved(t) /\ pc'[t] = label
    BY <1>1, <2>1 DEF Inv, TypeInv, Goto, Moved, Label
  <2>3. envelope[t] \in Env /\ envelope[t].id \in 1..calls
    BY <1>1, <1>4 DEF Typed
  <2>4. envelope'[t] \in Env /\ envelope'[t].id \in 1..calls'
        /\ envelope'[t].seq = Len(Committed(Lines)) + 1
    BY <1>1, <1>3, <2>1, <2>3 DEF Inv, TypeInv, Env
  <2>5. Torn(Lines) => file # None /\ Torn(file) /\ Lines = file /\ envelope'[t].seq = Len(file)
    <3>1. Torn(Lines) => file # None /\ Lines = file
      BY DEF Torn, Lines
    <3>2. Len(Lines) \in Nat
      BY <1>2, LenProperties
    <3> QED BY <1>3, <2>4, <3>1, <3>2
  <2>6. Typed(t)' /\ Knows(t)'
    BY <1>1, <1>3, <1>6, <2>2, <2>4, <2>5 DEF Typed, Knows, disk, Lines
  <2>7. result'[t] # "corrupt"
    BY <1>4, <2>1
  <2> QED BY <1>1, <1>4, <2>2, <2>6, <2>7, Still
<1> QED BY <1>5, <1>6 DEF Inv, TypeInv

\* The cut tail goes.
LEMMA TruncateKeeps == ASSUME Constants, Inv, NEW t \in Thread, TruncatePartialTail(t) PROVE Inv'
<1>1. /\ pc[t] = "truncate" /\ file' = Committed(file) /\ synced' = Len(file') /\ Goto(t, "open")
      /\ UNCHANGED <<linked, lock, op, envelope, created, result, returned, calls>>
  BY DEF TruncatePartialTail
<1>2. /\ Critical(t) /\ lock = t /\ Typed(t) /\ result[t] # "corrupt" /\ calls \in calls..MaxCalls
      /\ op[t] = "append" /\ file # None /\ Torn(file) /\ envelope[t].seq = Len(file)
  BY <1>1, InCall DEF Critical, Knows
<1>3. file \in Seq(LineType) /\ Good(file) /\ Len(file) \in Nat /\ synced \in 0..Len(file)
  BY <1>2, LenProperties DEF Inv, TypeInv, FileInv, Lines
<1>4. /\ file' \in Seq(LineType) /\ Len(file') = Len(file) - 1 /\ Len(file') \in Nat
      /\ \A i \in 1..Len(file') : file'[i] = file[i]
      /\ ~ Torn(file') /\ Good(file')
  BY <1>1, <1>2, <1>3, CommittedOf
<1>5. file' # None /\ Lines' = file'
  BY <1>4 DEF Constants, Lines
<1>6. Moved(t) /\ pc'[t] = "open" /\ result'[t] = result[t]
  BY <1>1, Moves DEF Label
<1>7. Typed(t)' /\ Knows(t)'
  BY <1>1, <1>2, <1>3, <1>4, <1>5, <1>6 DEF Typed, Knows
<1>8. ReturnedDurable'
  <2> SUFFICES ASSUME NEW e \in returned PROVE e.seq \in 1..synced' /\ file'[e.seq] = Line(e, "complete")
    BY <1>1 DEF ReturnedDurable
  <2>1. e.seq \in 1..synced /\ file[e.seq] = Line(e, "complete")
    BY DEF Inv, FileInv, ReturnedDurable
  <2>2. e.seq # Len(file)
    BY <1>2, <2>1 DEF Torn, Line
  <2>3. e.seq \in 1..Len(file')
    BY <1>3, <1>4, <2>1, <2>2
  <2> QED BY <1>1, <1>4, <2>1, <2>3
<1>9. (synced \in 0..Len(Lines))' /\ Good(Lines)'
  BY <1>1, <1>4, <1>5
<1> QED BY <1>1, <1>2, <1>4, <1>6, <1>7, <1>8, <1>9, Frame

\* The file is opened, and made if there is none.
LEMMA OpenKeeps == ASSUME Constants, Inv, NEW t \in Thread, OpenTranscript(t) PROVE Inv'
<1>1. /\ pc[t] = "open" /\ file' = Lines /\ Goto(t, "write")
      /\ created' = [created EXCEPT ![t] = (file = None)]
      /\ UNCHANGED <<synced, linked, lock, op, envelope, result, returned, calls>>
  BY DEF OpenTranscript
<1>2. /\ Critical(t) /\ lock = t /\ Typed(t) /\ result[t] # "corrupt" /\ calls \in calls..MaxCalls
      /\ op[t] = "append" /\ ~ Torn(Lines) /\ envelope[t].seq = Len(Lines) + 1
  BY <1>1, InCall DEF Critical, Knows
<1>3. Lines \in Seq(LineType) /\ Good(Lines) /\ synced \in 0..Len(Lines)
  BY DEF Inv, TypeInv, FileInv, Lines
<1>4. file' # None /\ Lines' = Lines
  BY <1>1, <1>3 DEF Constants, Lines
<1>5. Moved(t) /\ pc'[t] = "write" /\ result'[t] = result[t]
  BY <1>1 DEF Inv, TypeInv, Goto, Moved, Label
<1>6. Typed(t)' /\ Knows(t)'
  BY <1>1, <1>2, <1>4, <1>5 DEF Typed, Knows
<1>7. ReturnedDurable'
  <2>1. CASE file = None
    <3>1. synced = 0
      BY <1>3, <2>1 DEF Lines
    <3> QED BY <1>1, <3>1 DEF Inv, FileInv, ReturnedDurable
  <2>2. CASE file # None
    BY <1>1, <2>2 DEF Inv, FileInv, ReturnedDurable, Lines
  <2> QED BY <2>1, <2>2
<1>8. (synced \in 0..Len(Lines))' /\ Good(Lines)'
  BY <1>1, <1>3, <1>4
<1> QED BY <1>1, <1>2, <1>3, <1>5, <1>6, <1>7, <1>8, Frame

\* A line is written whole, or cut short: the file keeps what it had.
LEMMA WriteLine ==
    ASSUME Constants, Inv, NEW t \in Thread, pc[t] = "write",
           NEW form \in {"complete", "partial"}, file' = AppendBytes(file, envelope[t], form),
           UNCHANGED <<synced, linked>>
    PROVE  /\ file # None /\ file \in Seq(LineType) /\ Good(file) /\ ~ Torn(file)
           /\ file' \in Seq(LineType) /\ file' # None
           /\ Len(file') = Len(file) + 1 /\ Len(file) \in Nat
           /\ \A i \in 1..Len(file) : file'[i] = file[i]
           /\ file'[Len(file')] = Line(envelope[t], form) /\ envelope[t].seq = Len(file')
           /\ Torn(file') <=> form = "partial"
           /\ (synced \in 0..Len(Lines))' /\ Good(Lines)'
           /\ UNCHANGED returned => ReturnedDurable'
<1>1. /\ file # None /\ ~ Torn(file) /\ envelope[t] \in Env /\ envelope[t].seq = Len(file) + 1
  BY InCall DEF Knows, Lines
<1>2. file \in Seq(LineType) /\ Good(file) /\ synced \in 0..Len(file)
  BY <1>1 DEF Inv, TypeInv, FileInv, Lines
<1>3. /\ file' \in Seq(LineType) /\ Len(file') = Len(file) + 1 /\ Len(file) \in Nat
      /\ \A i \in 1..Len(file) : file'[i] = file[i]
      /\ file'[Len(file) + 1] = Line(envelope[t], form)
      /\ Good(file') /\ (Torn(file') <=> form = "partial")
  BY <1>1, <1>2, AppendLine
<1>4. file' # None /\ Lines' = file'
  BY <1>3 DEF Constants, Lines
<1>5. (synced \in 0..Len(Lines))' /\ Good(Lines)'
  BY <1>2, <1>3, <1>4
<1>6. UNCHANGED returned => ReturnedDurable'
  BY <1>2, <1>3, ReturnedKept
<1> QED BY <1>1, <1>2, <1>3, <1>4, <1>5, <1>6

\* An event is written.
LEMMA WriteKeeps == ASSUME Constants, Inv, NEW t \in Thread, WriteEvent(t) PROVE Inv'
<1>1. /\ pc[t] = "write" /\ file' = AppendBytes(file, envelope[t], "complete") /\ Goto(t, "fsync")
      /\ UNCHANGED <<synced, linked, lock, op, envelope, created, result, returned, calls>>
  BY DEF WriteEvent
<1>2. /\ Critical(t) /\ lock = t /\ Typed(t) /\ result[t] # "corrupt" /\ calls \in calls..MaxCalls
      /\ op[t] = "append"
  BY <1>1, InCall DEF Critical, Knows
<1>3. /\ file' \in Seq(LineType) /\ file' # None /\ ~ Torn(file') /\ Len(file') > 0
      /\ file'[Len(file')] = Line(envelope[t], "complete") /\ envelope[t].seq = Len(file')
      /\ (synced \in 0..Len(Lines))' /\ Good(Lines)' /\ ReturnedDurable'
  BY <1>1, WriteLine
<1>4. Moved(t) /\ pc'[t] = "fsync" /\ result'[t] = result[t]
  BY <1>1, Moves DEF Label
<1>5. Typed(t)' /\ Knows(t)'
  BY <1>1, <1>2, <1>3, <1>4 DEF Typed, Knows, EndsWith
<1> QED BY <1>1, <1>2, <1>3, <1>4, <1>5, Frame

\* The file, or its directory entry, becomes durable.
LEMMA FsyncKeeps ==
    ASSUME Constants, Inv, NEW t \in Thread, FsyncEvent(t) \/ FsyncDirectory(t)
    PROVE  Inv'
<1>1. /\ pc[t] \in {"fsync", "syncdir"}
      /\ UNCHANGED <<file, lock, op, envelope, created, returned, calls>>
      /\ synced' = Len(file) /\ (linked' = linked \/ linked' = TRUE)
      /\ \/ Goto(t, "syncdir") /\ UNCHANGED result
         \/ Finish(t, "ok")
  <2>1. /\ Critical(t) /\ Knows(t)
    BY InCall DEF FsyncEvent, FsyncDirectory, Critical
  <2> QED BY <2>1 DEF FsyncEvent, FsyncDirectory, Knows
<1>2. /\ Critical(t) /\ lock = t /\ Typed(t) /\ result[t] # "corrupt" /\ calls \in calls..MaxCalls
      /\ op[t] = "append" /\ EndsWith(t)
  BY <1>1, InCall DEF Critical, Knows
<1>3. Moved(t) /\ pc'[t] \in {"syncdir", "unlock"} /\ result'[t] # "corrupt"
  BY <1>1, <1>2, Moves DEF Label
<1>4. file \in Seq(LineType) /\ Good(file) /\ synced \in 0..Len(file) /\ Len(file) \in Nat /\ file = Lines
  BY <1>2, LenProperties DEF Inv, TypeInv, FileInv, Lines, EndsWith
<1>5. Lines' = file
  BY <1>1, <1>4 DEF Lines
<1>6. Typed(t)' /\ Knows(t)'
  BY <1>1, <1>2, <1>3 DEF Typed, Knows, EndsWith
<1>7. ReturnedDurable'
  BY <1>1, <1>4, ReturnedKept
<1>8. (synced \in 0..Len(Lines))' /\ Good(Lines)'
  BY <1>1, <1>4, <1>5
<1> QED BY <1>1, <1>2, <1>3, <1>4, <1>6, <1>7, <1>8, Frame

\* The call returns or raises, and what it returned is durable.
LEMMA ReturnKeeps == ASSUME Constants, Inv, NEW t \in Thread, Return(t) PROVE Inv'
<1>1. /\ pc[t] = "unlock" /\ lock' = None /\ Goto(t, "idle")
      /\ UNCHANGED <<disk, op, envelope, created, result, calls>>
      /\ returned' = IF op[t] = "append" /\ result[t] = "ok"
                     THEN returned \cup {envelope[t]} ELSE returned
  BY DEF Return
<1>2. /\ Critical(t) /\ lock = t /\ Typed(t) /\ Knows(t) /\ calls \in calls..MaxCalls
      /\ result[t] # "corrupt"
  BY <1>1, InCall DEF Critical
<1>3. Moved(t) /\ pc'[t] = "idle" /\ result'[t] = result[t]
  BY <1>1, Moves DEF Label
<1>4. UNCHANGED <<file, synced, linked>> /\ Lines' = Lines
  BY <1>1 DEF disk, Lines
<1>5. ReturnedDurable'
  <2>1. CASE op[t] = "append" /\ result[t] = "ok"
    <3>1. envelope[t].seq = synced /\ synced > 0 /\ file[synced] = Line(envelope[t], "complete")
      BY <1>1, <1>2, <2>1 DEF Knows, EndsWith
    <3>2. synced \in Nat
      BY LenProperties DEF Inv, TypeInv
    <3> QED BY <1>1, <1>4, <3>1, <3>2, <2>1 DEF Inv, FileInv, ReturnedDurable
  <2>2. CASE ~ (op[t] = "append" /\ result[t] = "ok")
    BY <1>1, <1>4, <2>2 DEF Inv, FileInv, ReturnedDurable
  <2> QED BY <2>1, <2>2
<1>6. Typed(t)' /\ Knows(t)' /\ ~ Critical(t)'
  BY <1>3 DEF Typed, Knows, Critical
<1>7. (synced \in 0..Len(Lines))' /\ Good(Lines)' /\ file' \in Seq(LineType) \cup {None}
  BY <1>4 DEF Inv, TypeInv, FileInv
<1> QED BY <1>1, <1>2, <1>3, <1>5, <1>6, <1>7, Frame

-----------------------------------------------------------------------------
(* Faults *)

\* A system call fails, the write perhaps after a part of the line.
LEMMA ErrorKeeps ==
    ASSUME Constants, Inv, NEW t \in Thread, RaiseOSError(t) \/ TearWrite(t)
    PROVE  Inv'
<1>1. /\ Critical(t) /\ pc[t] # "idle" /\ Finish(t, "oserror")
      /\ UNCHANGED <<synced, linked, lock, op, envelope, created, returned, calls>>
      /\ \/ UNCHANGED file
         \/ pc[t] = "write" /\ file' = AppendBytes(file, envelope[t], "partial")
  BY DEF RaiseOSError, TearWrite, Critical, disk
<1>2. Moved(t) /\ pc'[t] = "unlock" /\ result'[t] = "oserror"
  BY <1>1, Moves
<1>3. Typed(t)' /\ Knows(t)' /\ lock = t /\ calls \in calls..MaxCalls
  BY <1>1, <1>2, InCall DEF Typed, Knows
<1>4. CASE UNCHANGED file
  BY <1>1, <1>2, <1>3, <1>4, Still DEF disk
<1>5. CASE pc[t] = "write" /\ file' = AppendBytes(file, envelope[t], "partial")
  <2>1. file' \in Seq(LineType) /\ (synced \in 0..Len(Lines))' /\ Good(Lines)' /\ ReturnedDurable'
    BY <1>1, <1>5, WriteLine
  <2> QED BY <1>1, <1>2, <1>3, <2>1, Frame
<1> QED BY <1>1, <1>4, <1>5

\* After the end of the process nobody knows anything, so the invariant is about the
\* file alone.
LEMMA AbandonKeeps ==
    ASSUME Constants, Inv, Abandon,
           file' \in Seq(LineType) \cup {None}, (synced \in 0..Len(Lines))', Good(Lines)',
           ReturnedDurable'
    PROVE  Inv'
<1>1. /\ lock' = None /\ pc' = [t \in Thread |-> "idle"] /\ result' = [t \in Thread |-> "none"]
      /\ UNCHANGED <<op, envelope, created, returned, calls>>
  BY DEF Abandon
<1>2. TypeInv'
  BY <1>1 DEF Inv, TypeInv, Typed, Label
<1>3. LockInv' /\ FileInv'
  BY <1>1 DEF LockInv, FileInv, Knows, NeverCorrupt
<1> QED BY <1>2, <1>3 DEF Inv

\* The process dies, perhaps in the middle of a write.
LEMMA KillKeeps == ASSUME Constants, Inv, KillProcess PROVE Inv'
<1>1. Abandon /\ UNCHANGED <<synced, linked, returned>>
  BY DEF KillProcess, Abandon
<1>2. CASE UNCHANGED file
  <2>1. Lines' = Lines
    BY <1>2 DEF Lines
  <2> QED BY <1>1, <1>2, <2>1, AbandonKeeps DEF Inv, TypeInv, FileInv, ReturnedDurable
<1>3. CASE ~ UNCHANGED file
  <2>1. PICK t \in Thread : pc[t] = "write" /\ file' = AppendBytes(file, envelope[t], "partial")
    BY <1>3 DEF KillProcess
  <2>2. file' \in Seq(LineType) /\ (synced \in 0..Len(Lines))' /\ Good(Lines)' /\ ReturnedDurable'
    BY <1>1, <2>1, WriteLine
  <2> QED BY <1>1, <2>2, AbandonKeeps
<1> QED BY <1>2, <1>3

\* A power loss takes only a file of which append_event() returned nothing.
LEMMA Vanishes ==
    ASSUME Constants, Inv, LinkInv, PowerLoss, file' = None
    PROVE  Abandon /\ returned = {} /\ returned' = {} /\ synced' = 0
<1>1. /\ Abandon /\ "power" \in Faults /\ spare > 0 /\ synced' = 0
      /\ \/ ~ linked
         \/ file # None /\ \E n \in synced..Len(file) :
              \/ file' = SubSeq(file, 1, n)
              \/ /\ n < Len(file)
                 /\ file' = Append(SubSeq(file, 1, n), [file[n + 1] EXCEPT !.form = "partial"])
  BY DEF PowerLoss, Suffer
<1>2. ASSUME file # None, NEW n \in synced..Len(file),
             \/ file' = SubSeq(file, 1, n)
             \/ /\ n < Len(file)
                /\ file' = Append(SubSeq(file, 1, n), [file[n + 1] EXCEPT !.form = "partial"])
      PROVE  FALSE
  <2>1. file \in Seq(LineType) /\ Good(file) /\ synced \in 0..Len(file) /\ Len(file) \in Nat
    BY <1>2, LenProperties DEF Inv, TypeInv, FileInv, Lines
  <2>2. n \in 0..Len(file)
    BY <2>1
  <2>3. file' \in Seq(LineType)
    BY <1>2, <2>1, <2>2, PrefixGood
  <2> QED BY <2>3 DEF Constants
<1>3. ~ linked
  BY <1>1, <1>2
<1>4. returned = {}
  BY <1>1, <1>3 DEF LinkInv, Rooted, Fresh
<1> QED BY <1>1, <1>4 DEF Abandon

\* What a power loss leaves of a file that it does not take: a prefix with all that is
\* durable, its last line perhaps in part.
LEMMA Survives ==
    ASSUME Constants, Inv, PowerLoss, file' # None
    PROVE  /\ Abandon /\ file # None /\ file \in Seq(LineType) /\ Good(file)
           /\ file' \in Seq(LineType) /\ file' # None /\ Good(file') /\ linked'
           /\ synced \in 0..Len(file) /\ Len(file') \in Nat /\ synced' = Len(file')
           /\ \E n \in synced..Len(file) :
                /\ \A i \in 1..n : file'[i] = file[i]
                /\ \/ Len(file') = n /\ (n < Len(file) => ~ Torn(file'))
                   \/ n < Len(file) /\ Len(file') = n + 1 /\ Torn(file')
<1>1. /\ Abandon /\ file # None
      /\ linked' = (file' # None)
      /\ synced' = IF file' = None THEN 0 ELSE Len(file')
  BY DEF PowerLoss
<1>2. file \in Seq(LineType) /\ Good(file) /\ Len(file) \in Nat /\ synced \in 0..Len(file)
  BY <1>1, LenProperties DEF Inv, TypeInv, FileInv, Lines
<1>3. PICK n \in synced..Len(file) :
        \/ file' = SubSeq(file, 1, n)
        \/ /\ n < Len(file)
           /\ file' = Append(SubSeq(file, 1, n), [file[n + 1] EXCEPT !.form = "partial"])
  BY <1>1 DEF PowerLoss
<1>4. n \in 0..Len(file)
  BY <1>2
<1>5. /\ file' \in Seq(LineType) /\ Good(file')
      /\ \A i \in 1..n : file'[i] = file[i]
      /\ \/ Len(file') = n /\ (n < Len(file) => ~ Torn(file'))
         \/ n < Len(file) /\ Len(file') = n + 1 /\ Torn(file')
  <2>1. CASE file' = SubSeq(file, 1, n)
    <3> DEFINE s == SubSeq(file, 1, n)
    <3>1. /\ s \in Seq(LineType) /\ Len(s) = n /\ \A i \in 1..n : s[i] = file[i]
          /\ Good(s) /\ (n < Len(file) => ~ Torn(s))
      BY <1>2, <1>4, PrefixGood
    <3>2. file' = s
      BY <2>1
    <3> HIDE DEF s
    <3> QED BY <3>1, <3>2, Zenon
  <2>2. CASE /\ n < Len(file)
             /\ file' = Append(SubSeq(file, 1, n), [file[n + 1] EXCEPT !.form = "partial"])
    <3> DEFINE cut == Append(SubSeq(file, 1, n), [file[n + 1] EXCEPT !.form = "partial"])
    <3>1. /\ cut \in Seq(LineType) /\ Len(cut) = n + 1
          /\ \A i \in 1..n : cut[i] = file[i]
          /\ Good(cut) /\ Torn(cut)
      BY <1>2, <1>4, <2>2, PrefixGood
    <3>2. n < Len(file) /\ file' = cut
      BY <2>2
    <3> HIDE DEF cut
    <3> QED BY <3>1, <3>2, Zenon
  <2> QED BY <1>3, <2>1, <2>2
<1>6. file' # None /\ Len(file') \in Nat
  BY <1>5, LenProperties DEF Constants
<1> QED BY <1>1, <1>2, <1>5, <1>6

\* A power loss keeps the invariant.
LEMMA PowerKeeps == ASSUME Constants, Inv, LinkInv, PowerLoss PROVE Inv'
<1>1. CASE file' = None
  <2>1. Abandon /\ returned' = {} /\ synced' = 0
    BY <1>1, Vanishes
  <2>2. Lines' = <<>> /\ Len(Lines') = 0
    BY <1>1, EmptySeq DEF Lines
  <2>3. (synced \in 0..Len(Lines))' /\ Good(Lines)' /\ ReturnedDurable'
    BY <2>1, <2>2 DEF Good, ReturnedDurable
  <2> QED BY <1>1, <2>1, <2>3, AbandonKeeps
<1>2. CASE file' # None
  <2>1. /\ Abandon /\ file' \in Seq(LineType) /\ Good(file')
        /\ Len(file') \in Nat /\ synced' = Len(file')
    BY <1>2, Survives
  <2>2. synced \in Nat /\ Len(file) \in Nat
    BY <1>2, Survives, LenProperties
  <2>3. PICK n \in synced..Len(file) :
          /\ \A i \in 1..n : file'[i] = file[i]
          /\ Len(file') >= n
    <3>1. PICK n \in synced..Len(file) :
            /\ \A i \in 1..n : file'[i] = file[i]
            /\ Len(file') = n \/ Len(file') = n + 1
      BY <1>2, Survives
    <3> QED BY <2>2, <3>1
  <2>4. synced' \in Nat /\ synced' >= synced /\ \A i \in 1..synced : file'[i] = file[i]
    BY <2>1, <2>2, <2>3
  <2>5. ReturnedDurable'
    BY <2>1, <2>4, ReturnedKept DEF Abandon
  <2>6. (synced \in 0..Len(Lines))' /\ Good(Lines)'
    BY <1>2, <2>1 DEF Lines
  <2> QED BY <2>1, <2>5, <2>6, AbandonKeeps
<1> QED BY <1>1, <1>2

\* Every step leaves a linked file linked.
LEMMA StaysRooted ==
    ASSUME Constants, Inv, Rooted, [Next]_vars
    PROVE  Rooted'
<1>1. file # None /\ linked /\ file \in Seq(LineType) /\ Good(file)
  BY DEF Rooted, Inv, TypeInv, FileInv, Lines
<1>2. ASSUME NEW t \in Thread, pc[t] = "write", NEW form \in {"complete", "partial"},
             file' = AppendBytes(file, envelope[t], form), UNCHANGED <<synced, linked>>
      PROVE  Rooted'
  BY <1>1, <1>2, WriteLine DEF Rooted
<1>3. ASSUME NEW t \in Thread, Step(t) PROVE Rooted'
  <2>1. CASE TruncatePartialTail(t)
    <3>1. file' \in Seq(LineType) /\ linked'
      BY <1>1, <2>1, CommittedOf DEF TruncatePartialTail
    <3> QED BY <3>1 DEF Constants, Rooted
  <2>2. CASE OpenTranscript(t)
    BY <1>1, <2>2 DEF OpenTranscript, Lines, Rooted
  <2>3. CASE WriteEvent(t)
    BY <1>2, <2>3 DEF WriteEvent
  <2>4. CASE AcquireLock(t) \/ ReadTranscript(t) \/ Return(t)
    BY <1>1, <2>4 DEF AcquireLock, ReadTranscript, Return, disk, Rooted
  <2>5. CASE FsyncEvent(t) \/ FsyncDirectory(t)
    BY <1>1, <2>5 DEF FsyncEvent, FsyncDirectory, Rooted
  <2> QED BY <1>3, <2>1, <2>2, <2>3, <2>4, <2>5 DEF Step
<1>4. ASSUME NEW t \in Thread,
             RaiseOSError(t) \/ TearWrite(t) \/ \E o \in {"append", "read"} : Call(t, o)
      PROVE  Rooted'
  <2>1. CASE TearWrite(t)
    BY <1>2, <2>1 DEF TearWrite
  <2>2. CASE RaiseOSError(t) \/ \E o \in {"append", "read"} : Call(t, o)
    BY <1>1, <2>2 DEF RaiseOSError, Call, disk, Rooted
  <2> QED BY <1>4, <2>1, <2>2
<1>5. CASE KillProcess
  BY <1>1, <1>2, <1>5 DEF KillProcess, Rooted
<1>6. CASE PowerLoss
  <2>1. file' # None
    <3>1. PICK n \in synced..Len(file) :
            \/ file' = SubSeq(file, 1, n)
            \/ /\ n < Len(file)
               /\ file' = Append(SubSeq(file, 1, n), [file[n + 1] EXCEPT !.form = "partial"])
      BY <1>1, <1>6 DEF PowerLoss
    <3>2. synced \in 0..Len(file) /\ Len(file) \in Nat
      BY <1>1, LenProperties DEF Inv, TypeInv, Lines
    <3>3. n \in 0..Len(file)
      BY <3>2
    <3>4. file' \in Seq(LineType)
      BY <1>1, <3>1, <3>3, PrefixGood
    <3> QED BY <3>4 DEF Constants
  <2> QED BY <1>6, <2>1 DEF PowerLoss, Rooted
<1>7. CASE UNCHANGED vars
  BY <1>1, <1>7 DEF vars, disk, Rooted
<1> QED BY <1>3, <1>4, <1>5, <1>6, <1>7 DEF Next

\* The thread that makes the file makes its directory entry durable before it returns.
LEMMA FreshStep ==
    ASSUME Constants, Inv, Fresh, NEW t \in Thread, Step(t)
    PROVE  Fresh' \/ Rooted'
<1>1. pc[t] # "idle" /\ (pc[t] = "lock" \/ Critical(t))
  BY DEF Step, AcquireLock, ReadTranscript, TruncatePartialTail, OpenTranscript, WriteEvent,
         FsyncEvent, FsyncDirectory, Return, Critical
<1>2. /\ Critical(t) => \A u \in Thread : Critical(u) => u = t
      /\ lock = None => \A u \in Thread : ~ Critical(u)
  BY DEF Constants, Inv, LockInv, Critical
<1>3. /\ pc \in [Thread -> Label] /\ result \in [Thread -> {"none", "ok", "oserror", "corrupt"}]
      /\ created \in [Thread -> BOOLEAN] /\ op \in [Thread -> {"append", "read"}]
  BY DEF Inv, TypeInv
<1>4. CASE AcquireLock(t)
  <2>1. /\ \A u \in Thread : ~ Critical(u)
        /\ file' = file /\ returned' = returned
        /\ pc' = [pc EXCEPT ![t] = "read"]
    BY <1>2, <1>4 DEF AcquireLock, Goto, disk
  <2>2. file = None /\ \A u \in Thread : Critical(u)' => u = t
    BY <1>3, <2>1 DEF Fresh, Critical
  <2> QED BY <1>3, <2>1, <2>2 DEF Fresh
<1>5. CASE ReadTranscript(t)
  <2>1. /\ Critical(t) /\ pc[t] = "read" /\ file' = file /\ returned' = returned /\ op' = op
    BY <1>5 DEF ReadTranscript, disk, Critical
  <2>2. file = None
    BY <2>1 DEF Fresh
  <2>3. ~ Torn(Lines)
    BY <2>2 DEF Lines, Torn
  <2>4. \/ pc' = [pc EXCEPT ![t] = "unlock"] /\ result' = [result EXCEPT ![t] = "corrupt"]
        \/ op[t] = "read" /\ pc' = [pc EXCEPT ![t] = "unlock"]
        \/ pc' = [pc EXCEPT ![t] = "open"]
    BY <1>5, <2>3 DEF ReadTranscript, Finish, Goto
  <2>5. \A u \in Thread : Critical(u)' => u = t
    BY <1>2, <1>3, <2>1, <2>4 DEF Critical
  <2> QED BY <1>3, <2>1, <2>2, <2>4, <2>5 DEF Fresh
<1>6. CASE TruncatePartialTail(t)
  <2>1. Critical(t) /\ pc[t] = "truncate"
    BY <1>6 DEF TruncatePartialTail, Critical
  <2> QED BY <2>1 DEF Fresh
<1>7. CASE OpenTranscript(t)
  <2>1. /\ Critical(t) /\ pc[t] = "open" /\ file' = Lines /\ returned' = returned
        /\ created' = [created EXCEPT ![t] = (file = None)] /\ pc' = [pc EXCEPT ![t] = "write"]
    BY <1>7 DEF OpenTranscript, Goto, Critical
  <2>2. file = None
    BY <2>1 DEF Fresh
  <2>3. file' # None
    <3>1. Lines \in Seq(LineType)
      BY EmptySeq DEF Inv, TypeInv, Lines
    <3> QED BY <2>1, <3>1 DEF Constants
  <2>4. Critical(t)' /\ \A u \in Thread : Critical(u)' => u = t
    BY <1>2, <1>3, <2>1 DEF Critical
  <2>5. pc'[t] = "write" /\ created'[t]
    BY <1>3, <2>1, <2>2
  <2> QED BY <2>1, <2>3, <2>4, <2>5 DEF Fresh
<1>8. CASE WriteEvent(t)
  <2>1. /\ Critical(t) /\ pc[t] = "write" /\ returned' = returned /\ created' = created
        /\ pc' = [pc EXCEPT ![t] = "fsync"] /\ file' = AppendBytes(file, envelope[t], "complete")
        /\ UNCHANGED <<synced, linked>>
    BY <1>8 DEF WriteEvent, Goto, Critical
  <2>2. file # None /\ file' # None
    BY <2>1, WriteLine
  <2>3. Critical(t)' /\ \A u \in Thread : Critical(u)' => u = t
    BY <1>2, <1>3, <2>1 DEF Critical
  <2>4. pc'[t] = "fsync" /\ created'[t]
    BY <1>3, <2>1, <2>2 DEF Fresh
  <2> QED BY <2>1, <2>2, <2>3, <2>4 DEF Fresh
<1>9. CASE FsyncEvent(t)
  <2>1. /\ Critical(t) /\ pc[t] = "fsync" /\ returned' = returned /\ created' = created
        /\ file' = file
    BY <1>9 DEF FsyncEvent, Critical
  <2>2. file # None /\ created[t]
    BY <2>1 DEF Fresh
  <2>3. pc' = [pc EXCEPT ![t] = "syncdir"]
    BY <1>9, <2>2 DEF FsyncEvent, Goto
  <2>4. Critical(t)' /\ \A u \in Thread : Critical(u)' => u = t
    BY <1>2, <1>3, <2>1, <2>3 DEF Critical
  <2>5. pc'[t] = "syncdir" /\ created'[t]
    BY <1>3, <2>1, <2>2, <2>3
  <2> QED BY <2>1, <2>2, <2>4, <2>5 DEF Fresh
<1>10. CASE FsyncDirectory(t)
  <2>1. Critical(t) /\ pc[t] = "syncdir" /\ linked' = TRUE /\ file' = file
    BY <1>10 DEF FsyncDirectory, Critical
  <2>2. file # None
    BY <2>1 DEF Fresh
  <2> QED BY <2>1, <2>2 DEF Rooted
<1>11. CASE Return(t)
  <2>1. /\ Critical(t) /\ pc[t] = "unlock" /\ file' = file /\ pc' = [pc EXCEPT ![t] = "idle"]
        /\ returned' = IF op[t] = "append" /\ result[t] = "ok"
                       THEN returned \cup {envelope[t]} ELSE returned
    BY <1>11 DEF Return, Goto, disk, Critical
  <2>2. file = None /\ returned' = returned
    BY <2>1 DEF Fresh
  <2>3. \A u \in Thread : ~ Critical(u)'
    BY <1>2, <1>3, <2>1 DEF Critical
  <2> QED BY <2>1, <2>2, <2>3 DEF Fresh
<1> QED BY <1>4, <1>5, <1>6, <1>7, <1>8, <1>9, <1>10, <1>11 DEF Step

\* A loss of power that finds a linked file, or a fresh one, always will.
LEMMA LinkKeeps ==
    ASSUME Constants, Inv, LinkInv, [Next]_vars
    PROVE  LinkInv'
<1> SUFFICES ASSUME "power" \in Faults PROVE Rooted' \/ spare' = 0 \/ (spare' = 1 /\ Fresh')
  BY DEF LinkInv
<1>1. CASE Rooted
  BY <1>1, StaysRooted
<1>2. CASE spare \in {0, 1} /\ (spare = 1 => Fresh)
  <2>1. ASSUME NEW f, Suffer(f) PROVE spare' = 0
    BY <1>2, <2>1 DEF Suffer
  <2>2. ASSUME NEW t \in Thread, Step(t) PROVE spare' = spare
    BY <2>2 DEF Step, AcquireLock, ReadTranscript, TruncatePartialTail, OpenTranscript, WriteEvent,
                FsyncEvent, FsyncDirectory, Return
  <2>3. ASSUME NEW t \in Thread, NEW o, Call(t, o) PROVE spare' = spare /\ (Fresh => Fresh')
    <3>1. /\ pc[t] = "idle" /\ pc' = [pc EXCEPT ![t] = "lock"] /\ spare' = spare
          /\ op' = [op EXCEPT ![t] = o] /\ result' = [result EXCEPT ![t] = "none"]
          /\ file' = file /\ returned' = returned /\ created' = created
      BY <2>3 DEF Call, Goto, disk
    <3>2. /\ pc \in [Thread -> Label] /\ op \in [Thread -> {"append", "read"}]
          /\ result \in [Thread -> {"none", "ok", "oserror", "corrupt"}]
      BY DEF Inv, TypeInv
    <3>3. ASSUME NEW u \in Thread
          PROVE  /\ Critical(u)' <=> Critical(u)
                 /\ Critical(u) => pc'[u] = pc[u] /\ op'[u] = op[u] /\ result'[u] = result[u]
      BY <3>1, <3>2 DEF Critical
    <3> QED BY <3>1, <3>3 DEF Fresh
  <2>4. ASSUME NEW t \in Thread, RaiseOSError(t) \/ TearWrite(t) PROVE spare' = 0
    BY <2>1, <2>4 DEF RaiseOSError, TearWrite
  <2>5. KillProcess \/ PowerLoss => spare' = 0
    BY <2>1 DEF KillProcess, PowerLoss
  <2>6. UNCHANGED vars => spare' = spare /\ (Fresh => Fresh')
    BY DEF vars, disk, threads, Fresh, Critical
  <2> QED BY <1>2, <2>2, <2>3, <2>4, <2>5, <2>6, FreshStep DEF Next
<1> QED BY <1>1, <1>2 DEF LinkInv

-----------------------------------------------------------------------------
(* The theorems *)

\* The invariant holds at first.
LEMMA InitInv == ASSUME Constants, Init PROVE Inv /\ LinkInv
<1>1. PICK n \in LegacyLines :
        file = IF n = 0 THEN None ELSE [i \in 1..n |-> Line(LegacyEvent(i), "complete")]
  BY DEF Init
<1> DEFINE lines == [i \in 1..n |-> Line(LegacyEvent(i), "complete")]
<1>2. n \in Nat
  BY DEF Constants
<1>3. \A i \in 1..n : Line(LegacyEvent(i), "complete") \in LineType
                      /\ Line(LegacyEvent(i), "complete").form = "complete"
                      /\ Line(LegacyEvent(i), "complete").seq = None
  BY DEF Line, LegacyEvent, LineType
<1>4. lines \in [1..n -> LineType] /\ \A i \in 1..n : lines[i].form = "complete" /\ lines[i].seq = None
  BY <1>3
<1>5. lines \in Seq(LineType) /\ Len(lines) = n
  BY <1>2, <1>4, SeqDef, LenProperties
<1> HIDE DEF lines
<1>6. lines # None
  BY <1>5 DEF Constants
<1>7. Lines \in Seq(LineType) /\ Len(Lines) = n
      /\ \A i \in 1..n : Lines[i].form = "complete" /\ Lines[i].seq = None
  <2>1. CASE n = 0
    BY <1>1, <2>1, EmptySeq DEF Lines
  <2>2. CASE n # 0
    <3>1. Lines = lines
      BY <1>1, <1>6, <2>2 DEF Lines, lines
    <3> QED BY <1>4, <1>5, <3>1
  <2> QED BY <2>1, <2>2
<1>8. file \in Seq(LineType) \cup {None}
  BY <1>1, <1>5 DEF lines
<1>9. synced \in 0..Len(Lines) /\ Good(Lines)
  BY <1>2, <1>7 DEF Init, Good
<1>10. LinkInv
  <2>1. CASE file = None
    <3>1. n = 0
      BY <1>1, <1>6, <2>1 DEF lines
    <3>2. "power" \in Faults => spare \in {0, 1}
      BY <2>1, <3>1 DEF Init, Constants
    <3>3. returned = {} /\ \A t \in Thread : ~ Critical(t)
      BY DEF Init, Critical
    <3> QED BY <2>1, <3>2, <3>3 DEF LinkInv, Fresh
  <2>2. CASE file # None
    BY <2>2 DEF Init, LinkInv, Rooted
  <2> QED BY <2>1, <2>2
<1>11. TypeInv
  BY <1>8, <1>9 DEF Init, TypeInv, Typed, Label, Constants
<1>12. LockInv /\ FileInv
  BY <1>9 DEF Init, LockInv, FileInv, Knows, ReturnedDurable, NeverCorrupt
<1> QED BY <1>10, <1>11, <1>12 DEF Inv

\* Every step keeps the invariant.
LEMMA NextInv == ASSUME Constants, Inv, LinkInv, [Next]_vars PROVE Inv' /\ LinkInv'
<1>1. ASSUME NEW t \in Thread, Step(t) PROVE Inv'
  BY <1>1, AcquireKeeps, ReadKeeps, TruncateKeeps, OpenKeeps, WriteKeeps, FsyncKeeps, ReturnKeeps
     DEF Step
<1>2. ASSUME UNCHANGED vars PROVE Inv'
  BY <1>2 DEF vars, disk, threads, Inv, TypeInv, Typed, LockInv, FileInv, Knows, EndsWith,
              ReturnedDurable, NeverCorrupt, Lines
<1>3. Inv'
  BY <1>1, <1>2, CallKeeps, ErrorKeeps, KillKeeps, PowerKeeps DEF Next
<1> QED BY <1>3, LinkKeeps

\* The inductive invariant.
LEMMA Invariant == ASSUME Constants PROVE Spec => [](Inv /\ LinkInv)
  BY InitInv, NextInv, PTL DEF Spec

\* What append_event() returned stays at its sequence, whole and durable.
THEOREM ReturnedStays == ASSUME Constants PROVE Spec => []ReturnedDurable
<1>1. Inv => ReturnedDurable
  BY DEF Inv, FileInv
<1> QED BY <1>1, Invariant, PTL

\* No order of handlers and crashes makes a later call refuse the transcript as corrupt.
THEOREM AlwaysReadable == ASSUME Constants PROVE Spec => []NeverCorrupt
<1>1. Inv => NeverCorrupt
  BY DEF Inv, FileInv
<1> QED BY <1>1, Invariant, PTL

-----------------------------------------------------------------------------
(* The list of events that the file implements *)

\* The ids of some lines.
Ids(lines) == [i \in DOMAIN lines |-> lines[i].id]

\* A list of ids has the length of its lines.
LEMMA IdsOf ==
    ASSUME NEW lines \in Seq(LineType)
    PROVE  /\ Ids(lines) \in Seq(Nat) /\ DOMAIN Ids(lines) = 1..Len(lines)
           /\ Len(Ids(lines)) = Len(lines) /\ Len(lines) \in Nat
           /\ \A i \in 1..Len(lines) : Ids(lines)[i] = lines[i].id
<1> DEFINE n == Len(lines)
<1>1. n \in Nat /\ DOMAIN lines = 1..n /\ \A i \in 1..n : lines[i] \in LineType
  BY LenProperties, ElementOfSeq
<1> HIDE DEF n
<1>2. Ids(lines) \in [1..n -> Nat] /\ \A i \in 1..n : Ids(lines)[i] = lines[i].id
  BY <1>1 DEF Ids, LineType
<1>3. Ids(lines) \in Seq(Nat) /\ Len(Ids(lines)) = n
  BY <1>1, <1>2, SeqDef, LenProperties
<1> QED BY <1>1, <1>2, <1>3 DEF n

\* The ids of the whole lines of a file.
LEMMA IdsCommitted ==
    ASSUME NEW lines \in Seq(LineType), Good(lines)
    PROVE  LET ids == Ids(Committed(lines)) IN
           /\ ids \in Seq(Nat) /\ DOMAIN ids = 1..Len(ids) /\ Len(ids) \in Nat
           /\ Len(ids) = IF Torn(lines) THEN Len(lines) - 1 ELSE Len(lines)
           /\ \A i \in 1..Len(ids) : ids[i] = lines[i].id /\ lines[i].form = "complete"
<1> DEFINE c == Committed(lines)
<1>1. /\ c \in Seq(LineType) /\ Len(c) = IF Torn(lines) THEN Len(lines) - 1 ELSE Len(lines)
      /\ \A i \in 1..Len(c) : c[i] = lines[i] /\ lines[i].form = "complete"
  BY CommittedOf
<1> HIDE DEF c
<1>2. /\ Ids(c) \in Seq(Nat) /\ DOMAIN Ids(c) = 1..Len(c) /\ Len(Ids(c)) = Len(c) /\ Len(c) \in Nat
      /\ \A i \in 1..Len(c) : Ids(c)[i] = c[i].id
  BY <1>1, IdsOf
<1> QED BY <1>1, <1>2 DEF c

\* Lists are equal if they agree everywhere.
LEMMA SameIds ==
    ASSUME NEW a \in Seq(Nat), NEW b \in Seq(Nat), Len(a) = Len(b),
           \A i \in 1..Len(a) : a[i] = b[i]
    PROVE  a = b
  BY SeqEqual

\* A written line is one more event; half a line is none.
LEMMA IdsWritten ==
    ASSUME NEW lines \in Seq(LineType), Good(lines), ~ Torn(lines),
           NEW e \in Env, e.seq = Len(lines) + 1, NEW form \in {"complete", "partial"}
    PROVE  Ids(Committed(AppendBytes(lines, e, form))) =
             IF form = "complete" THEN Append(Ids(Committed(lines)), e.id)
                                  ELSE Ids(Committed(lines))
<1> DEFINE new == AppendBytes(lines, e, form)
           n == Len(lines)
           old == Ids(Committed(lines))
           ids == Ids(Committed(new))
<1>1. /\ new \in Seq(LineType) /\ Good(new) /\ Len(new) = n + 1 /\ n \in Nat
      /\ \A i \in 1..n : new[i] = lines[i]
      /\ new[n + 1] = Line(e, form) /\ (Torn(new) <=> form = "partial")
  BY AppendLine
<1> HIDE DEF new
<1>2. old \in Seq(Nat) /\ Len(old) = n /\ \A i \in 1..n : old[i] = lines[i].id
  BY IdsCommitted
<1>3. /\ ids \in Seq(Nat) /\ Len(ids) \in Nat /\ Len(ids) = IF form = "partial" THEN n ELSE n + 1
      /\ \A i \in 1..Len(ids) : ids[i] = new[i].id
  BY <1>1, IdsCommitted
<1> HIDE DEF n, old, ids
<1>4. CASE form = "partial"
  <2>1. Len(ids) = n /\ \A i \in 1..n : ids[i] = old[i]
    BY <1>1, <1>2, <1>3, <1>4
  <2>2. ids = old
    BY <1>2, <1>3, <2>1, SameIds
  <2> QED BY <1>4, <2>2 DEF ids, old, new
<1>5. CASE form = "complete"
  <2> DEFINE longer == Append(old, e.id)
  <2>1. e.id \in Nat /\ new[n + 1].id = e.id
    BY <1>1 DEF Env, Line
  <2>2. /\ longer \in Seq(Nat) /\ Len(longer) = n + 1 /\ longer[n + 1] = e.id
        /\ \A i \in 1..n : longer[i] = old[i]
    BY <1>2, <2>1, AppendProperties
  <2> HIDE DEF longer
  <2>3. Len(ids) = n + 1
    BY <1>3, <1>5
  <2>4. \A i \in 1..(n + 1) : ids[i] = longer[i]
    <3> SUFFICES ASSUME NEW i \in 1..(n + 1) PROVE ids[i] = longer[i]
      OBVIOUS
    <3>1. ids[i] = new[i].id
      BY <1>3, <2>3
    <3>2. CASE i = n + 1
      BY <2>1, <2>2, <3>1, <3>2
    <3>3. CASE i # n + 1
      <4>1. i \in 1..n
        BY <1>1, <3>3
      <4> QED BY <1>1, <1>2, <2>2, <3>1, <4>1
    <3> QED BY <3>2, <3>3
  <2>5. ids = longer
    BY <1>3, <2>2, <2>3, <2>4, SameIds
  <2> QED BY <1>5, <2>5 DEF ids, old, new, longer
<1> QED BY <1>4, <1>5

\* What is left of a file whose first n lines survive, and perhaps half of another.
LEMMA IdsSurvive ==
    ASSUME NEW lines \in Seq(LineType), Good(lines), NEW left \in Seq(LineType), Good(left),
           NEW n \in 0..Len(lines), \A i \in 1..n : left[i] = lines[i],
           \/ Len(left) = n /\ (n < Len(lines) => ~ Torn(left))
           \/ n < Len(lines) /\ Len(left) = n + 1 /\ Torn(left)
    PROVE  LET old == Ids(Committed(lines))
               k == IF n < Len(lines) THEN n ELSE Len(old) IN
           /\ k \in 0..Len(old)
           /\ Ids(Committed(left)) = SubSeq(old, 1, k)
<1> DEFINE old == Ids(Committed(lines))
           ids == Ids(Committed(left))
           k == IF n < Len(lines) THEN n ELSE Len(old)
           l == Len(lines)
<1>1. /\ old \in Seq(Nat) /\ Len(old) \in Nat /\ Len(old) = IF Torn(lines) THEN l - 1 ELSE l
      /\ \A i \in 1..Len(old) : old[i] = lines[i].id
  BY IdsCommitted
<1>2. /\ ids \in Seq(Nat) /\ Len(ids) \in Nat
      /\ Len(ids) = IF Torn(left) THEN Len(left) - 1 ELSE Len(left)
      /\ \A i \in 1..Len(ids) : ids[i] = left[i].id
  BY IdsCommitted
<1>3. l \in Nat /\ n \in Nat /\ n <= l /\ Len(left) \in Nat
  BY LenProperties
<1>4. n = l => (Torn(left) <=> Torn(lines))
  <2> SUFFICES ASSUME n = l PROVE Torn(left) <=> Torn(lines)
    OBVIOUS
  <2>1. Len(left) = l
    BY <1>3
  <2>2. left = lines
    BY <1>3, <2>1, SeqEqual
  <2> QED BY <2>2
<1>5. k \in Nat /\ k <= Len(old) /\ k <= n
  BY <1>1, <1>3
<1>6. Len(ids) = k
  BY <1>1, <1>2, <1>3, <1>4
<1> HIDE DEF old, ids, k, l
<1>7. /\ SubSeq(old, 1, k) \in Seq(Nat) /\ Len(SubSeq(old, 1, k)) = k
      /\ \A i \in 1..k : SubSeq(old, 1, k)[i] = old[i]
  <2>1. \A i \in 1..k : old[i] \in Nat
    BY <1>1, <1>5, ElementOfSeq
  <2> QED BY <1>5, <2>1, SubSeqProperties
<1>8. \A i \in 1..k : ids[i] = SubSeq(old, 1, k)[i]
  <2> SUFFICES ASSUME NEW i \in 1..k PROVE ids[i] = SubSeq(old, 1, k)[i]
    OBVIOUS
  <2>1. i \in 1..Len(old) /\ i \in 1..n /\ i \in 1..Len(ids)
    BY <1>1, <1>3, <1>5, <1>6
  <2>2. ids[i] = left[i].id /\ left[i] = lines[i] /\ old[i] = lines[i].id
    BY <1>1, <1>2, <2>1
  <2> QED BY <1>7, <2>2
<1>9. ids = SubSeq(old, 1, k)
  BY <1>2, <1>6, <1>7, <1>8, SameIds
<1> QED BY <1>5, <1>9 DEF old, ids, k, l

\* The events, as the refinement reads them off the file.
Kept == Ids(Committed(Lines))

\* The file at each state, and how many events it holds.
LEMMA KeptType ==
    ASSUME Inv
    PROVE  /\ Lines \in Seq(LineType) /\ Good(Lines)
           /\ Kept \in Seq(Nat) /\ DOMAIN Kept = 1..Len(Kept) /\ Len(Kept) \in Nat
           /\ Len(Kept) = IF Torn(Lines) THEN Len(Lines) - 1 ELSE Len(Lines)
           /\ \A i \in 1..Len(Kept) : Kept[i] = Lines[i].id
<1>1. Lines \in Seq(LineType) /\ Good(Lines)
  BY DEF Inv, TypeInv, FileInv, Lines
<1> QED BY <1>1, IdsCommitted DEF Kept

\* A written line is one more event; half a line is none.
LEMMA KeptWritten ==
    ASSUME Constants, Inv, NEW t \in Thread, pc[t] = "write",
           NEW form \in {"complete", "partial"}, file' = AppendBytes(file, envelope[t], form),
           UNCHANGED <<synced, linked>>
    PROVE  Kept' = IF form = "complete" THEN Append(Kept, envelope[t].id) ELSE Kept
<1>1. /\ file # None /\ file \in Seq(LineType) /\ Good(file) /\ ~ Torn(file) /\ file' # None
  BY WriteLine
<1>2. Lines = file /\ Lines' = file' /\ envelope[t] \in Env /\ envelope[t].seq = Len(file) + 1
  BY <1>1, InCall DEF Lines, Knows
<1>3. Ids(Committed(AppendBytes(file, envelope[t], form))) =
        IF form = "complete" THEN Append(Ids(Committed(file)), envelope[t].id)
                             ELSE Ids(Committed(file))
  BY <1>1, <1>2, IdsWritten
<1> QED BY <1>2, <1>3 DEF Kept

\* A new file holds events without ids.
LEMMA EventsInit == ASSUME Constants, Init PROVE Events!Init
<1>1. PICK n \in LegacyLines :
        file = IF n = 0 THEN None ELSE [i \in 1..n |-> Line(LegacyEvent(i), "complete")]
  BY DEF Init
<1>2. Inv /\ returned = {}
  BY InitInv DEF Init
<1>3. n \in Nat
  BY DEF Constants
<1>4. Len(Lines) = n /\ \A i \in 1..n : Lines[i].id = 0 /\ Lines[i].form = "complete"
  <2>1. CASE n = 0
    BY <1>1, <2>1, EmptySeq DEF Lines
  <2>2. CASE n # 0
    <3> DEFINE lines == [i \in 1..n |-> Line(LegacyEvent(i), "complete")]
    <3>1. file = lines /\ DOMAIN lines = 1..n
      BY <1>1, <2>2
    <3>2. \A i \in 1..n : lines[i].id = 0 /\ lines[i].form = "complete"
      BY DEF Line, LegacyEvent
    <3>3. file # None => Lines = lines
      BY <3>1 DEF Lines
    <3>4. \A i \in 1..n : lines[i] \in LineType
      BY DEF Line, LegacyEvent, LineType
    <3>5. lines \in Seq(LineType) /\ Len(lines) = n
      BY <1>3, <3>4, SeqDef, LenProperties
    <3> HIDE DEF lines
    <3>6. file # None
      BY <3>1, <3>5 DEF Constants
    <3> QED BY <3>2, <3>3, <3>5, <3>6
  <2> QED BY <2>1, <2>2
<1>5. ~ Torn(Lines)
  <2>1. Lines # <<>> => n > 0
    <3>1. Lines \in Seq(LineType)
      BY <1>2, KeptType
    <3>2. Len(Lines) = n
      BY <1>4
    <3> QED BY <1>3, <3>1, <3>2, EmptySeq
  <2> QED BY <1>3, <1>4, <2>1 DEF Torn
<1>6. Len(Kept) = n /\ DOMAIN Kept = 1..n /\ \A i \in 1..n : Kept[i] = 0
  BY <1>2, <1>4, <1>5, KeptType
<1>7. Kept = [i \in 1..n |-> 0]
  BY <1>6 DEF Kept, Ids
<1> QED BY <1>2, <1>7 DEF Events!Init, Kept, Ids

\* What a step of Transcript is to the list of events.
LEMMA EventsStep ==
    ASSUME Constants, Inv, LinkInv, [Next]_vars PROVE [Events!Next]_(Events!vars)
<1>1. ASSUME Kept' = Kept, UNCHANGED returned PROVE UNCHANGED Events!vars
  BY <1>1 DEF Kept, Ids, Events!vars
<1>2. UNCHANGED file => Kept' = Kept
  BY DEF Kept, Lines
\* An event is committed when its line is whole.
<1>4. ASSUME NEW t \in Thread, WriteEvent(t) PROVE Events!Next
  <2>1. /\ pc[t] = "write" /\ file' = AppendBytes(file, envelope[t], "complete")
        /\ UNCHANGED <<synced, linked, returned>>
    BY <1>4 DEF WriteEvent
  <2>2. Kept' = Append(Kept, envelope[t].id)
    BY <2>1, KeptWritten
  <2>3. envelope[t].id \in 1..MaxCalls
    BY <2>1, InCall DEF Typed, Inv, TypeInv, Constants
  <2> QED BY <2>1, <2>2, <2>3 DEF Events!Next, Events!Commit, Kept, Ids
<1>5. ASSUME NEW t \in Thread, Return(t) PROVE [Events!Next]_(Events!vars)
  <2>1. pc[t] = "unlock" /\ UNCHANGED file
    BY <1>5 DEF Return, disk
  <2>2. CASE op[t] = "append" /\ result[t] = "ok"
    <3> DEFINE n == envelope[t].seq
    <3>1. /\ file # None /\ ~ Torn(file) /\ Len(file) > 0 /\ n = Len(file)
          /\ file[Len(file)] = Line(envelope[t], "complete") /\ envelope[t] \in Env
      BY <2>1, <2>2, InCall DEF Knows, EndsWith
    <3>2. Lines = file
      BY <3>1 DEF Lines
    <3>3. n \in DOMAIN Kept /\ Kept[n] = Line(envelope[t], "complete").id
      BY <3>1, <3>2, KeptType
    <3>4. envelope[t] = [seq |-> n, id |-> Kept[n]]
      BY <3>1, <3>3 DEF Env, Line
    <3>5. returned' = returned \cup {envelope[t]}
      BY <1>5, <2>2 DEF Return
    <3>6. Kept' = Kept
      BY <1>2, <2>1
    <3> HIDE DEF n
    <3>7. n \in DOMAIN Kept /\ returned' = returned \cup {[seq |-> n, id |-> Kept[n]]}
      BY <3>3, <3>4, <3>5
    <3> QED BY <3>6, <3>7 DEF Events!Next, Events!Return, Kept, Ids
  <2>3. CASE ~ (op[t] = "append" /\ result[t] = "ok")
    BY <1>1, <1>2, <1>5, <2>1, <2>3 DEF Return
  <2> QED BY <2>2, <2>3
\* A cut tail is not an event.
<1>6. ASSUME NEW t \in Thread, TruncatePartialTail(t) PROVE UNCHANGED Events!vars
  <2>1. pc[t] = "truncate" /\ file' = Committed(file) /\ UNCHANGED returned
    BY <1>6 DEF TruncatePartialTail
  <2>2. file # None
    BY <2>1, InCall DEF Knows
  <2>3. Lines = file /\ Lines' = file' /\ ~ Torn(file')
    <3>1. file \in Seq(LineType) /\ Good(file)
      BY <2>2 DEF Inv, TypeInv, FileInv, Lines
    <3>2. Committed(file) \in Seq(LineType) /\ ~ Torn(Committed(file))
      BY <3>1, CommittedOf
    <3> QED BY <2>1, <2>2, <3>2 DEF Lines, Constants
  <2>4. Committed(Lines') = Committed(Lines)
    BY <2>1, <2>3 DEF Committed
  <2> QED BY <1>1, <2>1, <2>4 DEF Kept
<1>7. ASSUME NEW t \in Thread, OpenTranscript(t) PROVE UNCHANGED Events!vars
  <2>1. file' = Lines /\ UNCHANGED returned
    BY <1>7 DEF OpenTranscript
  <2>2. Lines' = Lines
    BY <2>1 DEF Lines
  <2> QED BY <1>1, <2>1, <2>2 DEF Kept
<1>8. ASSUME NEW t \in Thread, TearWrite(t) PROVE UNCHANGED Events!vars
  <2>1. /\ pc[t] = "write" /\ file' = AppendBytes(file, envelope[t], "partial")
        /\ UNCHANGED <<synced, linked, returned>>
    BY <1>8 DEF TearWrite
  <2> QED BY <1>1, <2>1, KeptWritten
<1>9. CASE KillProcess
  <2>1. UNCHANGED <<synced, linked, returned>>
    BY <1>9 DEF KillProcess, Abandon
  <2>2. CASE UNCHANGED file
    BY <1>1, <1>2, <2>1, <2>2
  <2>3. CASE ~ UNCHANGED file
    <3>1. PICK t \in Thread : pc[t] = "write" /\ file' = AppendBytes(file, envelope[t], "partial")
      BY <1>9, <2>3 DEF KillProcess
    <3> QED BY <1>1, <2>1, <3>1, KeptWritten
  <2> QED BY <2>2, <2>3
\* A loss of power takes back what was not durable.
<1>10. CASE PowerLoss /\ file' # None
  <2>1. /\ Abandon /\ file # None /\ file \in Seq(LineType) /\ Good(file)
        /\ file' \in Seq(LineType) /\ file' # None /\ Good(file')
        /\ synced \in 0..Len(file)
    BY <1>10, Survives
  <2>2. PICK n \in synced..Len(file) :
          /\ \A i \in 1..n : file'[i] = file[i]
          /\ \/ Len(file') = n /\ (n < Len(file) => ~ Torn(file'))
             \/ n < Len(file) /\ Len(file') = n + 1 /\ Torn(file')
    BY <1>10, Survives
  <2>3. Lines = file /\ Lines' = file' /\ UNCHANGED returned
    BY <2>1 DEF Lines, Abandon
  <2>4. n \in 0..Len(file) /\ n \in Nat /\ Len(file) \in Nat /\ synced \in Nat /\ synced <= n
    BY <2>1, LenProperties
  <2> DEFINE k == IF n < Len(file) THEN n ELSE Len(Kept)
  <2>5. k \in 0..Len(Kept) /\ Ids(Committed(file')) = SubSeq(Kept, 1, k)
    BY <2>1, <2>2, <2>3, <2>4, IdsSurvive DEF Kept
  <2>6. Kept' = SubSeq(Kept, 1, k)
    BY <2>3, <2>5 DEF Kept
  <2>7. ASSUME NEW r \in returned PROVE r.seq <= k
    <3>1. r.seq \in 1..synced /\ file[r.seq] = Line(r, "complete")
      BY DEF Inv, FileInv, ReturnedDurable
    <3>2. r.seq = Len(file) => ~ Torn(file)
      BY <3>1 DEF Torn, Line
    <3> QED BY <2>3, <2>4, <3>1, <3>2, KeptType
  <2> HIDE DEF k
  <2> QED BY <2>3, <2>5, <2>6, <2>7 DEF Events!Next, Events!Lose, Kept, Ids
<1>13. CASE PowerLoss /\ file' = None
  <2>1. returned = {} /\ UNCHANGED returned
    BY <1>13, Vanishes
  <2>2. Kept \in Seq(Nat) /\ Len(Kept) \in Nat
    BY KeptType
  <2>3. Kept' = <<>>
    <3>1. Lines' = <<>>
      BY <1>13 DEF Lines
    <3>2. Committed(<<>>) = <<>>
      BY DEF Committed, Torn
    <3>3. Kept' = Ids(<<>>)
      BY <3>1, <3>2 DEF Kept
    <3>4. <<>> \in Seq(LineType) /\ Len(<<>>) = 0
      BY EmptySeq
    <3>5. Ids(<<>>) \in Seq(Nat) /\ Len(Ids(<<>>)) = 0
      BY <3>4, IdsOf
    <3> QED BY <3>3, <3>5, EmptySeq
  <2>4. SubSeq(Kept, 1, 0) = <<>>
    BY <2>2, SubSeqProperties, EmptySeq
  <2>5. 0 \in 0..Len(Kept) /\ Kept' = SubSeq(Kept, 1, 0)
    BY <2>2, <2>3, <2>4
  <2> QED BY <2>1, <2>5 DEF Events!Next, Events!Lose, Kept, Ids
<1>11. ASSUME NEW t \in Thread,
              \/ AcquireLock(t) \/ ReadTranscript(t) \/ FsyncEvent(t) \/ FsyncDirectory(t)
              \/ RaiseOSError(t)
              \/ \E o \in {"append", "read"} : Call(t, o)
       PROVE  UNCHANGED Events!vars
  BY <1>1, <1>2, <1>11 DEF AcquireLock, ReadTranscript, FsyncEvent, FsyncDirectory,
                           RaiseOSError, Call, disk
<1>12. CASE UNCHANGED vars
  BY <1>1, <1>2, <1>12 DEF vars, disk
<1> QED BY <1>4, <1>5, <1>6, <1>7, <1>8, <1>9, <1>10, <1>11, <1>12, <1>13 DEF Next, Step

\* Every step of the handlers, the faults and the restarts is a step of the list of
\* events that append_event() promises, or none.
THEOREM EventsImplemented == ASSUME Constants PROVE Spec => EventLogSpec
<1> QED BY EventsInit, EventsStep, Invariant, PTL DEF Spec, EventLogSpec, Events!Spec
=============================================================================
