---------------------------- MODULE RemoteMemory ----------------------------
(***************************************************************************)
(* s12_cloud_memory/code.py: the append-only store of one remote user,     *)
(* written by several processes under a file lock, and recall over it.     *)
(*                                                                         *)
(* A record is immutable.  Forgetting one appends a retraction, whose ID   *)
(* follows from its target, so that retries find it.  The text of a record *)
(* is the set of its search terms; IDs are numbers, for they break ties.   *)
(***************************************************************************)
EXTENDS Naturals, Sequences, SequencesExt, TLC

CONSTANTS
    Process,
    Id,             \* memory_id, chosen by callers and used again by retries
    Term,           \* search terms
    Ages,           \* capture times, smaller is older
    Faults,         \* "kill", "power"
    MaxRecords,     \* bound on the records
    MaxFaults,      \* bound on the faults
    None

VARIABLES
    store,          \* records.jsonl: whole lines
    torn,           \* a part of a line stands behind them
    synced,         \* lines known to be on disk
    holder,         \* who holds the lock
    pc,             \* where each process is
    job,            \* the record it wants to add
    acked,          \* records whose own append or retraction returned, behind its fsync
    retried,        \* retractions a retry was given: they were in the store, fsynced or not
    unowned,        \* history: "left" while a line stands there whose writer died before its
                    \* fsync, "lost" once a power loss took lines behind such a death
    faults          \* bound: faults that occurred

vars == <<store, torn, synced, holder, pc, job, acked, retried, unowned, faults>>

-----------------------------------------------------------------------------
(* Records and recall *)

\* A retraction's ID is a digest of its target, none of those callers choose.
RetractionId(target) == target + Cardinality(Id)
Memory(id, kind, terms, captured) ==
    [id |-> id, kind |-> kind, retracts |-> None, terms |-> terms, captured |-> captured]
Retraction(target) ==
    [id |-> RetractionId(target), kind |-> "retraction", retracts |-> target, terms |-> {}, captured |-> 0]

\* read_all refuses a store with a line it cannot parse.
Readable == ~ torn
Stored(id) == {r \in ToSet(store) : r.id = id}

Retracted == {r.retracts : r \in {x \in ToSet(store) : x.kind = "retraction"}}
Active == SelectSeq(store, LAMBDA r : r.kind # "retraction" /\ r.id \notin Retracted)

\* active_records refuses a retraction without a target, and a second one.
RetractionsValid ==
    \A i \in DOMAIN store : store[i].kind = "retraction" =>
        /\ store[i].id = RetractionId(store[i].retracts)
        /\ \E j \in DOMAIN store : store[j].id = store[i].retracts /\ store[j].kind # "retraction"
        /\ \A j \in DOMAIN store : j # i => store[j].retracts # store[i].retracts

\* Profiles are selected, not searched.
Candidates(query, records) ==
    SelectSeq(records, LAMBDA r : r.kind = "conversation" /\ r.terms \cap query # {})

\* Coverage weighs 85 parts, and how recent the record is 15.
Coverage(query, r) == (100 * Cardinality(r.terms \cap query)) \div Cardinality(query)
Recency(r) == (100 * 30) \div (30 + (CHOOSE n \in Ages : \A m \in Ages : m <= n) - r.captured)
Score(query, r) == 85 * Coverage(query, r) + 15 * Recency(r)

\* Faulty variant: equals stay in the order they are stored in.
RanksBeforeUnstably(query, r, s) == Score(query, r) > Score(query, s)

\* Explicit keys, the ID last.
RanksBefore(query, r, s) ==
    \/ Score(query, r) > Score(query, s)
    \/ /\ Score(query, r) = Score(query, s)
       /\ \/ Coverage(query, r) > Coverage(query, s)
          \/ Coverage(query, r) = Coverage(query, s) /\ r.captured > s.captured
          \/ Coverage(query, r) = Coverage(query, s) /\ r.captured = s.captured /\ r.id < s.id

Recall(query, limit, records) ==
    LET hits == SortSeq(Candidates(query, records), LAMBDA r, s : RanksBefore(query, r, s)) IN
    [rank \in 1..(IF Len(hits) < limit THEN Len(hits) ELSE limit) |-> hits[rank].id]

\* Faulty variant: the newest snapshot, forgotten or not.
ProfilesAnyway == SelectSeq(store, LAMBDA r : r.kind = "profile")

Profiles == SelectSeq(Active, LAMBDA r : r.kind = "profile")
LatestProfile ==
    {p \in ToSet(Profiles) : \A q \in ToSet(Profiles) :
        p.captured > q.captured \/ (p.captured = q.captured /\ p.id >= q.id)}

-----------------------------------------------------------------------------
Init ==
    /\ store = <<>> /\ torn = FALSE /\ synced = 0
    /\ holder = None
    /\ pc = [p \in Process |-> "idle"]
    /\ job = [p \in Process |-> None]
    /\ acked = {} /\ retried = {} /\ unowned = "no"
    /\ faults = 0

Step(p, next) == pc' = [pc EXCEPT ![p] = next]
Done(p) ==
    /\ Step(p, "idle")
    /\ job' = [job EXCEPT ![p] = None]
    /\ holder' = IF holder = p THEN None ELSE holder

AppendMemory(p, r) ==
    /\ pc[p] = "idle"
    /\ Len(store) < MaxRecords
    /\ Step(p, "wait")
    /\ job' = [job EXCEPT ![p] = r]
    /\ UNCHANGED <<store, torn, synced, holder, acked, retried, unowned, faults>>

\* The target is looked up before the lock: the log only grows.
Retract(p, target) ==
    /\ pc[p] = "idle"
    /\ Readable
    /\ Len(store) < MaxRecords
    /\ Stored(target) # {} /\ \A r \in Stored(target) : r.kind # "retraction"
    /\ Step(p, "wait")
    /\ job' = [job EXCEPT ![p] = Retraction(target)]
    /\ UNCHANGED <<store, torn, synced, holder, acked, retried, unowned, faults>>

\* Faulty variant: the lock is shared.
LockShared(p) ==
    /\ pc[p] = "wait"
    /\ Step(p, "check")
    /\ UNCHANGED <<store, torn, synced, holder, job, acked, retried, unowned, faults>>

Lock(p) ==
    /\ pc[p] = "wait"
    /\ holder = None
    /\ holder' = p
    /\ Step(p, "check")
    /\ UNCHANGED <<store, torn, synced, job, acked, retried, unowned, faults>>

\* A retry of a retraction gets the one that is there, without an fsync; any other record with
\* a known ID is refused, as is everything while the store cannot be read.
CheckDuplicate(p) ==
    LET old == Stored(job[p].id) IN
    /\ pc[p] = "check"
    /\ IF Readable /\ old = {}
         THEN Step(p, "write") /\ UNCHANGED <<holder, job, retried>>
         ELSE /\ Done(p)
              /\ retried' = IF Readable /\ job[p].kind = "retraction" THEN retried \cup old ELSE retried
    /\ UNCHANGED <<store, torn, synced, acked, unowned, faults>>

WriteLine(p) ==
    /\ pc[p] = "write"
    /\ store' = Append(store, job[p])
    /\ Step(p, "sync")
    /\ UNCHANGED <<torn, synced, holder, job, acked, retried, unowned, faults>>

\* A full disk: part of the line is written and the call raises.
ShortWrite(p) ==
    /\ pc[p] = "write"
    /\ "short" \in Faults /\ faults < MaxFaults /\ faults' = faults + 1
    /\ torn' = TRUE
    /\ Done(p)
    /\ UNCHANGED <<store, synced, acked, retried, unowned>>

\* Faulty variant: what was written is acknowledged before it is on disk.
AckUnsynced(p) ==
    /\ pc[p] = "sync"
    /\ acked' = acked \cup {job[p]}
    /\ Done(p)
    /\ UNCHANGED <<store, torn, synced, retried, unowned, faults>>

\* The fsync takes the whole file to disk, lines of the dead included.
SyncAndAck(p) ==
    /\ pc[p] = "sync"
    /\ synced' = Len(store)
    /\ acked' = acked \cup {job[p]}
    /\ unowned' = IF unowned = "left" THEN "no" ELSE unowned
    /\ Done(p)
    /\ UNCHANGED <<store, torn, retried, faults>>

\* The kernel releases the lock of a process that dies, whatever it was doing.
Kill(p) ==
    /\ pc[p] # "idle"
    /\ "kill" \in Faults /\ faults < MaxFaults /\ faults' = faults + 1
    /\ torn' \in IF pc[p] = "write" THEN {torn, TRUE} ELSE {torn}
    /\ unowned' = IF pc[p] = "sync" /\ unowned = "no" THEN "left" ELSE unowned
    /\ Done(p)
    /\ UNCHANGED <<store, synced, acked, retried>>

\* The machine stops: unsynced lines are lost, the first of them perhaps partly.
PowerLoss ==
    /\ "power" \in Faults /\ faults < MaxFaults /\ faults' = faults + 1
    /\ \E n \in synced..Len(store) :
         /\ store' = SubSeq(store, 1, n)
         /\ torn' \in IF n < Len(store) \/ \E p \in Process : pc[p] = "write" THEN {torn, TRUE} ELSE {torn}
         /\ unowned' = IF unowned = "left" THEN IF n = Len(store) THEN "no" ELSE "lost" ELSE unowned
    /\ synced' = Len(store')
    /\ holder' = None
    /\ pc' = [p \in Process |-> "idle"]
    /\ job' = [p \in Process |-> None]
    /\ UNCHANGED <<acked, retried>>

Next ==
    \/ \E p \in Process :
         \/ \E id \in Id, kind \in {"profile", "conversation"}, terms \in SUBSET Term \ {{}}, t \in Ages :
              AppendMemory(p, Memory(id, kind, terms, t))
         \/ \E id \in Id \cup {RetractionId(i) : i \in Id} : Retract(p, id)
         \/ Lock(p) \/ CheckDuplicate(p) \/ WriteLine(p) \/ ShortWrite(p) \/ SyncAndAck(p) \/ Kill(p)
    \/ PowerLoss

Spec == Init /\ [][Next]_vars

-----------------------------------------------------------------------------
(* Properties *)

\* Whatever writers race and die, a store that can be read is one that
\* active_records accepts: no ID twice, every retraction with one target.
StoreAccepted ==
    Readable =>
        /\ \A i, j \in DOMAIN store : i # j => store[i].id # store[j].id
        /\ RetractionsValid

\* What callers may rely on: their own records, for those are fsynced before the
\* call returns, and the retractions retries were given -- these unless a power
\* loss took lines behind the death of a writer, for a retry does not fsync what
\* it finds (_append_record's early return).
Promised == acked \cup (IF unowned = "lost" THEN {} ELSE retried)

\* A promised record is in every later audit stream (append: "Persist one
\* immutable record"), whatever was lost.
AckedStays == Readable => Promised \subseteq ToSet(store)

\* Neither recall nor the profile shows a record whose retraction was promised.
ForgottenStaysOut ==
    \A r \in Promised : r.kind = "retraction" =>
        /\ r.retracts \notin {p.id : p \in LatestProfile}
        /\ \A query \in SUBSET Term \ {{}} :
             r.retracts \notin ToSet(Recall(query, Cardinality(Id), Active))

\* Recall does not depend on the order records are stored in
\* (stable_rank_recall_candidates: "independent of storage iteration").
RankIndependent ==
    \A query \in SUBSET Term \ {{}}, limit \in 1..2 :
        Recall(query, limit, Active) = Recall(query, limit, Reverse(Active))
=============================================================================
