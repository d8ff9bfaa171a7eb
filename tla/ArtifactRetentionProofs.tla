----------------------- MODULE ArtifactRetentionProofs -----------------------
(***************************************************************************)
(* Proofs about ArtifactRetention for any processes, transactions, names,  *)
(* faults and bounds, as long as a cleanup without the journal runs alone. *)
(***************************************************************************)
EXTENDS ArtifactRetention, TLAPS, SequenceTheorems

\* The phases of a lease, and its events.
Phases == {"prepared", "committed", "aborted", "released"}
Event == [phase : Phases, claim : Claims \cup {None}]

\* Where a call stands: in publish_reference past the lease, in reconcile_reference, in a
\* cleanup without the journal, or anywhere.
Publishing == {"publish", "commit", "abort"}
Reconciling == {"lookup", "fence", "decide", "sealed"}
Raw == {"raw_apply", "raw_delete"}
Labels == Publishing \cup Reconciling \cup Raw \cup
          {"idle", "prepare", "remove", "removing", "recover", "scan", "apply"}

-----------------------------------------------------------------------------
(* The inductive invariant *)

\* What a call in progress is about.
Typed(w) ==
    /\ pc[w] \in Publishing \cup Reconciling \cup {"prepare", "remove", "removing"} => tx[w] \in Tx
    /\ pc[w] = "prepare" => claim[w] \in Claims

\* The types.
TypeInv ==
    /\ artifact \in [File -> 0..MaxVersions]
    /\ versions \in [File -> 0..MaxVersions]
    /\ journal \in [Tx -> Seq(Event)]
    /\ jlock \in Worker \cup {None}
    /\ published \subseteq Tx /\ sealed \subseteq Tx /\ inflight \subseteq Tx
    /\ fence \in [Tx -> Worker \cup {None}]
    /\ pc \in [Worker -> Labels]
    /\ tx \in [Worker -> Tx \cup {None}]
    /\ claim \in [Worker -> Claims \cup {None}]
    /\ seen = [w \in Worker |-> seen[w]]
    /\ \A w \in Worker : Typed(w)

\* The history of one transaction, as _validate_transition allows it.
Legal(events) ==
    /\ Len(events) <= 3
    /\ Len(events) >= 1 => events[1].phase = "prepared" /\ events[1].claim \in Claims
    /\ Len(events) >= 2 => events[2].phase \in {"committed", "aborted"}
    /\ Len(events) = 3 => events[2].phase = "committed" /\ events[3].phase = "released"

\* The history of every transaction is legal.
HistoryInv == \A t \in Tx : Legal(journal[t])

\* Nobody else writes the journal between a check under its lock and the event
\* that rests on it.
Locked(w) ==
    /\ pc[w] \in {"removing", "sealed"} => jlock = w
    /\ pc[w] = "removing" => Phase(tx[w]) = "committed"
    /\ pc[w] = "sealed" => Phase(tx[w]) = "prepared"

\* A publication that has not reached the owner, and still may.
Undelivered(t) == t \in inflight \/ \E w \in Worker : pc[w] = "publish" /\ tx[w] = t

\* What a reconciler saw in the fence stays so until it leaves.
Fenced(w) ==
    /\ pc[w] \in {"fence", "decide", "sealed"} => Phase(tx[w]) # "none"
    /\ pc[w] \in {"decide", "sealed"} => fence[tx[w]] = w
    /\ pc[w] = "decide" /\ seen[w] = "published" => ~ Undelivered(tx[w])
    /\ pc[w] = "decide" /\ seen[w] \in {"absent", "sealed"} => tx[w] \notin published
    /\ pc[w] = "sealed" => tx[w] \notin published /\ tx[w] \in sealed

\* A transaction is published at most once, and while it is on its way its lease
\* is pending, or the owner has tombstoned it.
PublishInv ==
    /\ \A t \in Tx : Undelivered(t) =>
         /\ t \notin published
         /\ \/ Phase(t) = "prepared"
            \/ Phase(t) = "aborted" /\ t \in sealed
    /\ \A w, v \in Worker : pc[w] \in Publishing /\ pc[v] \in Publishing /\ tx[w] = tx[v] => w = v
    /\ \A w \in Worker : pc[w] \in Publishing => tx[w] \notin inflight /\ Phase(tx[w]) # "none"
    /\ \A w \in Worker : pc[w] = "abort" => tx[w] \notin published

\* What an active lease protects is there.
ArtifactInv == \A t \in Tx : Active(t) => artifact[ClaimOf(t).file] = ClaimOf(t).digest

\* A cleanup without the journal runs alone.
RawInv ==
    \A w \in Worker : pc[w] \in Raw =>
        /\ \A v \in Worker : v # w => pc[v] = "idle"
        /\ pc[w] = "raw_delete" => NoJournal

\* What every call relies on.
WorkerInv == \A w \in Worker : Locked(w) /\ Fenced(w)

\* The inductive invariant.
Inv == TypeInv /\ HistoryInv /\ WorkerInv /\ PublishInv
       /\ LeaseCoversReference /\ ArtifactInv /\ RawInv

-----------------------------------------------------------------------------
(* The journal *)

\* What a history says of its transaction.
LEMMA PhaseOf ==
    ASSUME TypeInv, HistoryInv, NEW t \in Tx
    PROVE  /\ Len(journal[t]) \in 0..3
           /\ Phase(t) = IF Len(journal[t]) = 0 THEN "none" ELSE journal[t][Len(journal[t])].phase
           /\ Phase(t) \in Phases \cup {"none"}
           /\ Phase(t) = "none" <=> Len(journal[t]) = 0
           /\ Phase(t) = "prepared" <=> Len(journal[t]) = 1
           /\ Phase(t) = "committed" => Len(journal[t]) = 2 /\ journal[t][2].phase = "committed"
           /\ Phase(t) # "none" => ClaimOf(t) = journal[t][1].claim /\ ClaimOf(t) \in Claims
<1> DEFINE s == journal[t]
<1>1. s \in Seq(Event) /\ Legal(s)
  BY DEF TypeInv, HistoryInv
<1>2. Len(s) \in 0..3 /\ (s = <<>> <=> Len(s) = 0)
  <2> DEFINE n == Len(s)
  <2>1. n \in Nat /\ n <= 3
    BY <1>1, LenProperties DEF Legal
  <2>2. s = <<>> <=> n = 0
    BY <1>1, EmptySeq
  <2> HIDE DEF n
  <2>3. n \in 0..3
    BY <2>1
  <2> QED BY <2>2, <2>3 DEF n
<1>3. \A i \in 1..Len(s) : s[i] \in Event
  BY <1>1, ElementOfSeq
<1>4. Phase(t) = IF Len(s) = 0 THEN "none" ELSE s[Len(s)].phase
  BY <1>2 DEF Phase, Last
<1>5. Len(s) # 0 => s[Len(s)].phase \in Phases
  BY <1>2, <1>3 DEF Event
<1>6. Len(s) # 0 => ClaimOf(t) = s[1].claim
  BY <1>1, <1>2 DEF ClaimOf
<1> HIDE DEF s
<1>7. /\ Phase(t) \in Phases \cup {"none"}
      /\ Phase(t) = "none" <=> Len(s) = 0
      /\ Phase(t) = "prepared" <=> Len(s) = 1
      /\ Phase(t) = "committed" => Len(s) = 2 /\ s[2].phase = "committed"
  BY <1>1, <1>2, <1>4, <1>5 DEF Legal, Phases
<1>8. Phase(t) # "none" => ClaimOf(t) = s[1].claim /\ ClaimOf(t) \in Claims
  BY <1>1, <1>2, <1>6, <1>7 DEF Legal
<1> QED BY <1>2, <1>4, <1>7, <1>8 DEF s

\* A step that writes one allowed event, or fails to, keeps the histories legal and
\* changes what the journal says of its transaction alone.
LEMMA Recorded ==
    ASSUME TypeInv, HistoryInv, NEW t \in Tx, NEW phase \in Phases,
           NEW c \in Claims \cup {None}, phase = "prepared" => c \in Claims,
           Allowed(t, phase), NEW outcome \in Outcomes, Record(t, phase, c, outcome)
    PROVE  /\ journal' \in [Tx -> Seq(Event)] /\ HistoryInv'
           /\ \A u \in Tx : u # t => Phase(u)' = Phase(u) /\ ClaimOf(u)' = ClaimOf(u)
           /\ Phase(t)' = IF outcome = "lost" THEN Phase(t) ELSE phase
           /\ Phase(t) # "none" => ClaimOf(t)' = ClaimOf(t)
           /\ Phase(t) = "none" /\ outcome # "lost" => ClaimOf(t)' = c
<1> DEFINE s == journal[t]
           e == [phase |-> phase, claim |-> c]
           n == Len(s)
<1>1. s \in Seq(Event) /\ Legal(s) /\ e \in Event /\ n \in 0..3
  BY PhaseOf DEF TypeInv, HistoryInv, Event
<1>2. CASE outcome = "lost"
  <2>1. journal' = journal
    BY <1>2 DEF Record
  <2> QED BY <1>2, <2>1 DEF TypeInv, HistoryInv, Phase, ClaimOf, Legal
<1>3. CASE outcome # "lost"
  <2>1. /\ journal' = [journal EXCEPT ![t] = Append(s, e)]
    BY <1>3 DEF Record
  <2>2. /\ Append(s, e) \in Seq(Event) /\ Len(Append(s, e)) = n + 1
        /\ \A i \in 1..n : Append(s, e)[i] = s[i]
        /\ Append(s, e)[n + 1] = e
    BY <1>1, AppendProperties
  <2>3. /\ journal' \in [Tx -> Seq(Event)] /\ journal'[t] = Append(s, e)
        /\ \A u \in Tx : u # t => journal'[u] = journal[u]
    BY <2>1, <2>2 DEF TypeInv
  <2>4. Legal(Append(s, e))
    BY <1>1, <2>2, PhaseOf DEF Legal, Allowed, Event
  <2>5. HistoryInv'
    BY <2>3, <2>4 DEF HistoryInv, Legal
  <2>6. \A u \in Tx : u # t => Phase(u)' = Phase(u) /\ ClaimOf(u)' = ClaimOf(u)
    BY <2>3 DEF Phase, ClaimOf
  <2>7. Append(s, e) # <<>> /\ Head(Append(s, e)) = Append(s, e)[1]
    BY <1>1, <2>2
  <2>8. Phase(t)' = phase /\ ClaimOf(t)' = Append(s, e)[1].claim
    BY <1>1, <2>2, <2>3, <2>7 DEF Phase, ClaimOf, Last
  <2>9. Phase(t) # "none" => ClaimOf(t)' = ClaimOf(t)
    BY <1>1, <2>2, <2>8, PhaseOf
  <2>10. Phase(t) = "none" => ClaimOf(t)' = c
    BY <1>1, <2>2, <2>8, PhaseOf
  <2> QED BY <1>3, <2>3, <2>5, <2>6, <2>8, <2>9, <2>10
<1> QED BY <1>2, <1>3

-----------------------------------------------------------------------------
(* What a step does to the workers *)

\* A step of w leaves the other workers where they are.
Moved(w) ==
    /\ pc' \in [Worker -> Labels]
    /\ tx' \in [Worker -> Tx \cup {None}]
    /\ claim' \in [Worker -> Claims \cup {None}]
    /\ seen' = [v \in Worker |-> seen'[v]]
    /\ \A v \in Worker : v # w =>
         pc'[v] = pc[v] /\ tx'[v] = tx[v] /\ claim'[v] = claim[v] /\ seen'[v] = seen[v]

\* What a call does to the place of its worker.
LEMMA Moves ==
    ASSUME TypeInv, NEW w \in Worker
    PROVE  /\ Finish(w) => Moved(w) /\ pc'[w] = "idle"
           /\ \A label \in Labels : Goto(w, label) =>
                /\ Moved(w) /\ pc'[w] = label
                /\ tx'[w] = tx[w] /\ claim'[w] = claim[w] /\ seen'[w] = seen[w]
           /\ \A label \in Labels, t \in Tx \cup {None}, c \in Claims \cup {None} :
                Begin(w, label, t, c) =>
                  /\ Moved(w) /\ pc'[w] = label /\ tx'[w] = t /\ claim'[w] = c
<1> USE DEF TypeInv
<1>1. Finish(w) => Moved(w) /\ pc'[w] = "idle"
  BY DEF Finish, Moved, Labels
<1>2. ASSUME NEW label \in Labels, Goto(w, label)
      PROVE  /\ Moved(w) /\ pc'[w] = label
             /\ tx'[w] = tx[w] /\ claim'[w] = claim[w] /\ seen'[w] = seen[w]
  BY <1>2 DEF Goto, Moved
<1>3. ASSUME NEW label \in Labels, NEW t \in Tx \cup {None}, NEW c \in Claims \cup {None},
             Begin(w, label, t, c)
      PROVE  Moved(w) /\ pc'[w] = label /\ tx'[w] = t /\ claim'[w] = c
  BY <1>3 DEF Begin, Moved
<1> QED BY <1>1, <1>2, <1>3

\* What stays of the invariant when the journal is not written.
LEMMA JournalFrame ==
    ASSUME UNCHANGED journal
    PROVE  /\ HistoryInv => HistoryInv'
           /\ NoJournal' <=> NoJournal
           /\ \A t \in Tx : Phase(t)' = Phase(t) /\ ClaimOf(t)' = ClaimOf(t)
  BY DEF HistoryInv, NoJournal, Phase, ClaimOf

\* A step of w that leaves the others what they rely on: the journal is written only
\* while nobody else holds its lock and for the transaction of w alone, a publication
\* gets through only where no fence stands, and none starts.
Guarantee(w) ==
    /\ Moved(w)
    /\ pc'[w] # "idle" => tx'[w] = tx[w] \/ pc'[w] \notin Publishing
    /\ pc'[w] \in Publishing => pc[w] \in Publishing
    /\ pc'[w] = "publish" => pc[w] = "publish"
    /\ pc'[w] = "abort" => tx'[w] \notin published'
    /\ jlock' \in Worker \cup {None} /\ (jlock \in {None, w} \/ UNCHANGED jlock)
    /\ fence' \in [Tx -> Worker \cup {None}]
    /\ \A t \in Tx : fence[t] \in {None, w} \/ fence'[t] = fence[t]
    /\ \A t \in Tx : Phase(t)' # Phase(t) =>
         /\ jlock \in {None, w} /\ Phase(t)' # "none"
         /\ Undelivered(t) => Phase(t)' = "aborted" /\ t \in sealed'
    /\ sealed \subseteq sealed' /\ sealed' \subseteq Tx
    /\ inflight' \subseteq inflight \cup {t \in {tx[w]} : pc[w] = "publish" /\ pc'[w] = "idle"}
    /\ published' \subseteq published \cup
         {t \in {tx[w]} : pc[w] = "publish" /\ pc'[w] = "commit" /\ fence[t] = None}

\* Such a step never adds to what is undelivered.
LEMMA NoneStarts ==
    ASSUME Inv, NEW w \in Worker, Guarantee(w), NEW t \in Tx, Undelivered(t)'
    PROVE  Undelivered(t)
  BY DEF Inv, Guarantee, Moved, Undelivered, Publishing

\* Such a step keeps the part of the invariant that is about the other workers.
LEMMA OthersKept ==
    ASSUME Inv, NEW w \in Worker, Guarantee(w), NEW v \in Worker, v # w
    PROVE  Typed(v)' /\ Locked(v)' /\ Fenced(v)'
<1> USE RetentionAssumption DEF Inv, WorkerInv
<1>1. pc'[v] = pc[v] /\ tx'[v] = tx[v] /\ claim'[v] = claim[v] /\ seen'[v] = seen[v]
  BY DEF Guarantee, Moved
<1>2. Typed(v) /\ Locked(v) /\ Fenced(v)
  BY DEF TypeInv
<1>3. Typed(v)'
  BY <1>1, <1>2 DEF Typed
<1>4. ASSUME NEW t \in Tx, t = tx[v], pc[v] \in {"removing", "sealed"}
      PROVE  jlock' = v /\ Phase(t)' = Phase(t)
  BY <1>2, <1>4 DEF Guarantee, Locked
<1>5. ASSUME NEW t \in Tx, t = tx[v], pc[v] \in {"fence", "decide", "sealed"}
      PROVE  Phase(t)' # "none"
  BY <1>2, <1>5 DEF Guarantee, Fenced
<1>6. ASSUME NEW t \in Tx, t = tx[v], pc[v] \in {"decide", "sealed"}
      PROVE  /\ fence'[t] = v
             /\ t \notin published => t \notin published'
             /\ t \in sealed => t \in sealed'
  BY <1>2, <1>6 DEF Guarantee, Fenced
<1>7. ASSUME NEW t \in Tx, t = tx[v], pc[v] = "decide", seen[v] = "published"
      PROVE  ~ Undelivered(t)'
  BY <1>2, <1>7, NoneStarts DEF Fenced
<1>8. CASE pc[v] \in Reconciling \cup {"removing"}
  <2>1. PICK t \in Tx : t = tx[v]
    BY <1>2, <1>8 DEF Typed
  <2>2. t = tx'[v]
    BY <1>1, <2>1
  <2>3. Locked(v)'
    BY <1>1, <1>2, <1>4, <2>1, <2>2 DEF Locked
  <2>4. Fenced(v)'
    BY <1>1, <1>2, <1>5, <1>6, <1>7, <2>1, <2>2 DEF Fenced
  <2> QED BY <1>3, <2>3, <2>4
<1>9. CASE pc[v] \notin Reconciling \cup {"removing"}
  BY <1>1, <1>3, <1>9 DEF Locked, Fenced, Reconciling
<1> QED BY <1>8, <1>9

\* Such a step keeps what is known of the publications on their way.
LEMMA PublicationsKept ==
    ASSUME Inv, NEW w \in Worker, Guarantee(w), LeaseCoversReference'
    PROVE  PublishInv'
<1> USE DEF Inv, PublishInv
<1>1. ASSUME NEW t \in Tx, Undelivered(t)'
      PROVE  /\ t \notin published'
             /\ \/ Phase(t)' = "prepared"
                \/ Phase(t)' = "aborted" /\ t \in sealed'
  <2>1. Undelivered(t)
    BY <1>1, NoneStarts
  <2>2. ~ (t = tx[w] /\ pc[w] = "publish" /\ pc'[w] = "commit")
    BY <1>1 DEF Guarantee, Moved, Undelivered, Publishing
  <2> QED BY <2>1, <2>2 DEF Guarantee
<1>2. \A v \in Worker : pc'[v] \in Publishing => pc[v] \in Publishing /\ tx'[v] = tx[v]
  BY DEF Guarantee, Moved, Publishing
<1>3. \A u, v \in Worker : pc'[u] \in Publishing /\ pc'[v] \in Publishing /\ tx'[u] = tx'[v] => u = v
  BY <1>2
<1>4. ASSUME NEW v \in Worker, NEW t \in Tx, pc'[v] \in Publishing, t = tx'[v]
      PROVE  t \notin inflight' /\ Phase(t)' # "none"
  <2>1. pc[v] \in Publishing /\ t = tx[v]
    BY <1>2, <1>4
  <2>2. ~ (t = tx[w] /\ pc[w] = "publish" /\ pc'[w] = "idle")
    BY <1>4, <2>1 DEF Publishing
  <2>3. t \notin inflight /\ Phase(t) # "none"
    BY <2>1
  <2> QED BY <2>2, <2>3 DEF Guarantee
<1>5. ASSUME NEW v \in Worker, pc'[v] = "abort" PROVE tx'[v] \notin published'
  <2>1. CASE v = w
    BY <1>5, <2>1 DEF Guarantee
  <2>2. CASE v # w
    BY <1>2, <1>5, <2>2 DEF Guarantee, Moved, Publishing
  <2> QED BY <2>1, <2>2
<1>6. ASSUME NEW v \in Worker, pc'[v] \in Publishing
      PROVE  (tx[v] \notin inflight /\ Phase(tx[v]) # "none")'
  <2>1. PICK t \in Tx : t = tx'[v]
    BY <1>2, <1>6 DEF TypeInv, Typed
  <2>2. t \notin inflight' /\ Phase(t)' # "none"
    BY <1>4, <1>6, <2>1
  <2> QED BY <2>1, <2>2
<1> QED BY <1>1, <1>3, <1>5, <1>6 DEF PublishInv

\* So such a step keeps the invariant if it keeps the journal, the files, and w itself.
LEMMA WorkerStep ==
    ASSUME Inv, NEW w \in Worker, Guarantee(w),
           artifact' \in [File -> 0..MaxVersions], versions' \in [File -> 0..MaxVersions],
           journal' \in [Tx -> Seq(Event)], HistoryInv', LeaseCoversReference',
           ArtifactInv', RawInv', Typed(w)', Locked(w)', Fenced(w)'
    PROVE  Inv'
<1>1. \A v \in Worker : Typed(v)' /\ Locked(v)' /\ Fenced(v)'
  BY OthersKept
<1>2. inflight' \subseteq Tx /\ published' \subseteq Tx /\ sealed' \subseteq Tx
  BY DEF Inv, TypeInv, Typed, Guarantee, Publishing
<1>3. TypeInv'
  BY <1>1, <1>2 DEF TypeInv, Guarantee, Moved
<1> QED BY <1>1, <1>3, PublicationsKept DEF Inv, WorkerInv

-----------------------------------------------------------------------------
(* The steps that write no event *)

\* What protects the artifacts when neither they nor the leases change.
LEMMA ArtifactFrame ==
    ASSUME UNCHANGED <<artifact, journal, expired>>, ArtifactInv
    PROVE  ArtifactInv'
  BY DEF ArtifactInv, Active, Phase, ClaimOf

\* A call in progress keeps cleanups without the journal out.
LEMMA RawKept ==
    ASSUME Inv, NEW w \in Worker, Moved(w), pc'[w] \notin Raw,
           pc[w] \notin Raw \cup {"idle"} \/ RawCleanups = {}
    PROVE  RawInv'
<1>1. \A v \in Worker : v # w => pc[v] \notin Raw
  BY DEF Inv, RawInv, RawCleanups, Raw
<1> QED BY <1>1 DEF RawInv, Moved

\* A step that writes no event, unlinks nothing and delivers nothing.
LEMMA Quiet ==
    ASSUME Inv, NEW w \in Worker, Guarantee(w), UNCHANGED <<files, journal, expired>>,
           published' \subseteq published, RawInv', Typed(w)', Locked(w)', Fenced(w)'
    PROVE  Inv'
<1>1. \A t \in Tx : Phase(t)' = Phase(t)
  BY JournalFrame
<1>2. LeaseCoversReference'
  BY <1>1 DEF Inv, TypeInv, LeaseCoversReference
<1>3. HistoryInv' /\ ArtifactInv'
  BY JournalFrame, ArtifactFrame DEF Inv, files
<1> QED BY <1>2, <1>3, WorkerStep DEF Inv, TypeInv, files

\* A call begins.
LEMMA BeginKeeps ==
    ASSUME Inv, ~ RawConcurrent, NEW w \in Worker,
           NEW label \in {"prepare", "remove", "lookup", "recover"},
           NEW t \in Tx \cup {None}, label # "recover" => t \in Tx,
           NEW c \in Claims \cup {None}, label = "prepare" => c \in Claims,
           Begin(w, label, t, c)
    PROVE  Inv'
<1>1. label \in Labels
  BY DEF Labels, Reconciling
<1>2. Moved(w) /\ pc'[w] = label /\ tx'[w] = t /\ claim'[w] = c
  BY <1>1, Moves DEF Inv
<1>3. UNCHANGED <<files, journal, jlock, expired, owner>> /\ RawCleanups = {}
  BY DEF Begin
<1>4. \A u \in Tx : Phase(u)' = Phase(u)
  BY <1>3, JournalFrame
<1>5. Guarantee(w)
  BY <1>2, <1>3, <1>4 DEF Guarantee, Publishing, Inv, TypeInv, owner
<1>6. RawInv'
  BY <1>2, <1>3, RawKept DEF Raw
<1>7. Typed(w)' /\ Locked(w)' /\ Fenced(w)'
  BY <1>2 DEF Typed, Locked, Fenced, Publishing, Reconciling
<1> QED BY <1>3, <1>5, <1>6, <1>7, Quiet DEF owner

\* A call ends, or goes where it relies on nothing, without any other effect.
LEMMA LeaveKeeps ==
    ASSUME Inv, NEW w \in Worker, Moved(w), pc[w] \notin Raw \cup {"idle"},
           pc'[w] \in {"idle", "scan", "apply", "abort"},
           pc'[w] = "abort" => pc[w] = "publish" /\ tx'[w] = tx[w],
           UNCHANGED <<files, journal, expired, published, sealed, inflight>>,
           jlock' \in {jlock, None}, jlock \in {None, w} \/ UNCHANGED jlock,
           fence' \in [Tx -> Worker \cup {None}],
           \A t \in Tx : fence[t] \in {None, w} \/ fence'[t] = fence[t]
    PROVE  Inv'
<1>1. \A u \in Tx : Phase(u)' = Phase(u)
  BY JournalFrame
<1>2. pc'[w] = "abort" => tx[w] \in Tx /\ Undelivered(tx[w]) /\ tx[w] \notin published
  BY DEF Inv, TypeInv, Typed, Publishing, PublishInv, Undelivered
<1>3. Guarantee(w)
  BY <1>1, <1>2 DEF Guarantee, Publishing, Inv, TypeInv
<1>4. RawInv'
  BY RawKept DEF Raw
<1>5. Typed(w)' /\ Locked(w)' /\ Fenced(w)'
  BY <1>2 DEF Typed, Locked, Fenced, Publishing, Reconciling
<1> QED BY <1>3, <1>4, <1>5, Quiet

\* Every step that writes no event and is no more than a change of place.
LEMMA PlaceSteps ==
    ASSUME Inv, NEW w \in Worker, Lookup(w) \/ Recover(w) \/ Scan(w) \/ EnterFence(w)
    PROVE  Inv'
<1>1. CASE Lookup(w) /\ Phase(tx[w]) = "prepared"
  <2>1. Goto(w, "fence") /\ pc[w] = "lookup" /\ UNCHANGED <<files, journal, jlock, expired, owner>>
    BY <1>1 DEF Lookup
  <2>2. Moved(w) /\ pc'[w] = "fence" /\ tx'[w] = tx[w]
    BY <2>1, Moves DEF Inv, Labels, Reconciling
  <2>3. \A u \in Tx : Phase(u)' = Phase(u)
    BY <2>1, JournalFrame
  <2>4. Guarantee(w) /\ RawInv'
    BY <2>1, <2>2, <2>3, RawKept DEF Guarantee, Publishing, Inv, TypeInv, owner, Raw
  <2>5. tx[w] \in Tx
    BY <2>1 DEF Inv, TypeInv, Typed, Reconciling
  <2>6. Typed(w)' /\ Locked(w)' /\ Fenced(w)'
    BY <1>1, <2>2, <2>3, <2>5 DEF Typed, Locked, Fenced
  <2> QED BY <2>1, <2>4, <2>6, Quiet DEF owner
<1>2. CASE Lookup(w) /\ Phase(tx[w]) # "prepared"
  <2>1. Finish(w) /\ pc[w] = "lookup" /\ UNCHANGED <<files, journal, jlock, expired, owner>>
    BY <1>2 DEF Lookup
  <2>2. Moved(w) /\ pc'[w] = "idle"
    BY <2>1, Moves DEF Inv
  <2> QED BY <2>1, <2>2, LeaveKeeps DEF owner, Raw, Inv, TypeInv
<1>3. CASE Recover(w) \/ Scan(w)
  <2>1. /\ Moved(w) /\ pc[w] \in {"recover", "scan"} /\ pc'[w] \in {"scan", "apply"}
        /\ UNCHANGED <<files, journal, jlock, expired, owner>>
    BY <1>3 DEF Recover, Scan, Moved, Inv, TypeInv, Labels
  <2> QED BY <2>1, LeaveKeeps DEF owner, Raw, Inv, TypeInv
<1>4. CASE EnterFence(w)
  <2>1. /\ Moved(w) /\ pc[w] = "fence" /\ pc'[w] = "decide" /\ tx'[w] = tx[w]
        /\ UNCHANGED <<files, journal, jlock, expired, published, sealed, inflight>>
        /\ tx[w] \in Tx
        /\ seen'[w] = "published" => tx[w] \in published
        /\ seen'[w] \in {"absent", "sealed"} => tx[w] \notin published
    BY <1>4 DEF EnterFence, Moved, Inv, TypeInv, Labels, Typed, Reconciling
  <2>2. fence[tx[w]] = None /\ fence' = [fence EXCEPT ![tx[w]] = w]
    BY <1>4 DEF EnterFence
  <2>3. /\ fence' \in [Tx -> Worker \cup {None}]
        /\ \A t \in Tx : fence[t] \in {None, w} \/ fence'[t] = fence[t]
        /\ fence'[tx[w]] = w
    BY <2>1, <2>2 DEF Inv, TypeInv
  <2>4. \A u \in Tx : Phase(u)' = Phase(u)
    BY <2>1, JournalFrame
  <2>5. Guarantee(w) /\ RawInv'
    BY <2>1, <2>3, <2>4, RawKept DEF Guarantee, Publishing, Inv, TypeInv, Raw
  <2>6. PICK t \in Tx : t = tx[w]
    BY <2>1
  <2>7. Phase(t)' # "none" /\ (Undelivered(t)' => t \notin published)
    BY <2>1, <2>4, <2>5, <2>6, NoneStarts DEF Inv, WorkerInv, Fenced, PublishInv
  <2>8. Typed(w)' /\ Locked(w)' /\ Fenced(w)'
    BY <2>1, <2>3, <2>6, <2>7 DEF Typed, Locked, Fenced
  <2> QED BY <2>1, <2>5, <2>8, Quiet
<1> QED BY <1>1, <1>2, <1>3, <1>4

\* publisher() confirms, rejects or is cut off.
LEMMA CallPublisherKeeps == ASSUME Inv, NEW w \in Worker, CallPublisher(w) PROVE Inv'
<1>1. /\ pc[w] = "publish" /\ tx[w] \in Tx
      /\ UNCHANGED <<files, journal, jlock, expired, sealed, fence>>
  BY DEF CallPublisher, Inv, TypeInv, Typed, Publishing
<1>2. PICK t \in Tx : t = tx[w]
  BY <1>1
<1>3. Undelivered(t) /\ t \notin published
  BY <1>1, <1>2 DEF Undelivered, Inv, PublishInv
<1>4. \A u \in Tx : Phase(u)' = Phase(u)
  BY <1>1, JournalFrame
<1>5. CASE /\ fence[t] = None /\ t \notin sealed /\ published' = published \cup {t}
           /\ Goto(w, "commit") /\ UNCHANGED inflight
  <2>1. Moved(w) /\ pc'[w] = "commit" /\ tx'[w] = t
    BY <1>2, <1>5, Moves DEF Inv, Labels, Publishing
  <2>2. Guarantee(w) /\ RawInv'
    BY <1>1, <1>2, <1>4, <1>5, <2>1, RawKept DEF Guarantee, Publishing, Inv, TypeInv, Raw
  <2>3. Phase(t) = "prepared"
    BY <1>3, <1>5 DEF Inv, PublishInv
  <2>4. LeaseCoversReference'
    BY <1>4, <1>5, <2>3 DEF Inv, TypeInv, LeaseCoversReference
  <2>5. HistoryInv' /\ ArtifactInv'
    BY <1>1, JournalFrame, ArtifactFrame DEF Inv, files
  <2>6. Typed(w)' /\ Locked(w)' /\ Fenced(w)'
    BY <1>2, <2>1 DEF Typed, Locked, Fenced
  <2> QED BY <1>1, <2>2, <2>4, <2>5, <2>6, WorkerStep DEF Inv, TypeInv, files
<1>6. CASE Goto(w, "abort") /\ UNCHANGED <<published, inflight>>
  <2>1. Moved(w) /\ pc'[w] = "abort" /\ tx'[w] = tx[w]
    BY <1>6, Moves DEF Inv, Labels, Publishing
  <2> QED BY <1>1, <1>6, <2>1, LeaveKeeps DEF Inv, TypeInv, Raw
<1>7. CASE inflight' = inflight \cup {t} /\ Finish(w) /\ UNCHANGED published
  <2>1. Moved(w) /\ pc'[w] = "idle"
    BY <1>7, Moves DEF Inv
  <2>2. Guarantee(w) /\ RawInv'
    BY <1>1, <1>2, <1>4, <1>7, <2>1, RawKept DEF Guarantee, Publishing, Inv, TypeInv, Raw
  <2>3. Typed(w)' /\ Locked(w)' /\ Fenced(w)'
    BY <2>1 DEF Typed, Locked, Fenced, Publishing, Reconciling
  <2> QED BY <1>1, <1>7, <2>2, <2>3, Quiet
<1> QED BY <1>2, <1>5, <1>6, <1>7 DEF CallPublisher

\* remove_reference takes the journal lock for a committed lease.
LEMMA StartRemovalKeeps == ASSUME Inv, NEW w \in Worker, StartRemoval(w) PROVE Inv'
<1>1. /\ pc[w] = "remove" /\ jlock = None /\ tx[w] \in Tx
      /\ UNCHANGED <<files, journal, expired, owner>>
  BY DEF StartRemoval, Inv, TypeInv, Typed
<1>2. CASE Allowed(tx[w], "released")
  <2>1. jlock' = w /\ Goto(w, "removing")
    BY <1>2 DEF StartRemoval
  <2>2. Moved(w) /\ pc'[w] = "removing" /\ tx'[w] = tx[w]
    BY <2>1, Moves DEF Inv, Labels
  <2>3. Phase(tx[w]) = "committed"
    BY <1>2 DEF Allowed
  <2>4. \A u \in Tx : Phase(u)' = Phase(u)
    BY <1>1, JournalFrame
  <2>5. Guarantee(w) /\ RawInv'
    BY <1>1, <2>1, <2>2, <2>4, RawKept DEF Guarantee, Publishing, Inv, TypeInv, owner, Raw
  <2>6. Typed(w)' /\ Locked(w)' /\ Fenced(w)'
    BY <1>1, <2>1, <2>2, <2>3, <2>4 DEF Typed, Locked, Fenced
  <2> QED BY <1>1, <2>5, <2>6, Quiet DEF owner
<1>3. CASE ~ Allowed(tx[w], "released")
  <2>1. Finish(w) /\ UNCHANGED jlock
    BY <1>3 DEF StartRemoval
  <2>2. Moved(w) /\ pc'[w] = "idle"
    BY <2>1, Moves DEF Inv
  <2> QED BY <1>1, <2>1, <2>2, LeaveKeeps DEF owner, Raw, Inv, TypeInv
<1> QED BY <1>2, <1>3

-----------------------------------------------------------------------------
(* The steps that write an event *)

\* A call writes an event for its transaction and ends.
LEMMA ConcludeKeeps ==
    ASSUME Inv, NEW w \in Worker, NEW t \in Tx, t = tx[w], pc[w] \notin Raw \cup {"idle"},
           Finish(w), UNCHANGED <<files, expired, sealed, inflight>>,
           NEW phase \in Phases, NEW c \in Claims \cup {None}, phase = "prepared" => c \in Claims,
           Allowed(t, phase), NEW outcome \in Outcomes, Record(t, phase, c, outcome),
           jlock \in {None, w}, jlock' \in {None, jlock},
           fence' \in [Tx -> Worker \cup {None}],
           \A u \in Tx : fence[u] \in {None, w} \/ fence'[u] = fence[u],
           published' \subseteq published,
           phase \in {"aborted", "released"} => t \notin published',
           phase \in {"aborted", "committed"} /\ Undelivered(t) => phase = "aborted" /\ t \in sealed,
           phase = "prepared" => artifact[c.file] = c.digest
    PROVE  Inv'
<1>1. Moved(w) /\ pc'[w] = "idle"
  BY Moves DEF Inv
<1>2. /\ journal' \in [Tx -> Seq(Event)] /\ HistoryInv'
      /\ \A u \in Tx : u # t => Phase(u)' = Phase(u) /\ ClaimOf(u)' = ClaimOf(u)
      /\ Phase(t)' = IF outcome = "lost" THEN Phase(t) ELSE phase
      /\ Phase(t) # "none" => ClaimOf(t)' = ClaimOf(t)
      /\ Phase(t) = "none" /\ outcome # "lost" => ClaimOf(t)' = c
  BY Recorded DEF Inv
<1>3. <<Phase(t), phase>> \in {<<"none", "prepared">>, <<"prepared", "committed">>,
                               <<"prepared", "aborted">>, <<"committed", "released">>}
  BY DEF Allowed
<1>4. Undelivered(t) => Phase(t) \in {"prepared", "aborted"}
  BY DEF Inv, PublishInv
<1>5. phase # "none"
  BY DEF Phases
<1>6. Guarantee(w)
  BY <1>1, <1>2, <1>3, <1>4, <1>5 DEF Guarantee, Publishing, Inv, TypeInv
<1>7. LeaseCoversReference'
  BY <1>2, <1>3 DEF LeaseCoversReference, Inv, TypeInv
<1>8. ArtifactInv'
  BY <1>2, <1>3 DEF ArtifactInv, Active, Inv, files
<1>9. RawInv'
  BY <1>1, RawKept DEF Raw
<1>10. Typed(w)' /\ Locked(w)' /\ Fenced(w)'
  BY <1>1 DEF Typed, Locked, Fenced, Publishing, Reconciling
<1> QED BY <1>2, <1>6, <1>7, <1>8, <1>9, <1>10, WorkerStep DEF Inv, TypeInv, files

\* _prepare, which alone starts a publication.
LEMMA PrepareKeeps == ASSUME Inv, NEW w \in Worker, Prepare(w) PROVE Inv'
<1>1. /\ pc[w] = "prepare" /\ jlock = None /\ UNCHANGED <<files, jlock, expired, owner>>
      /\ tx[w] \in Tx /\ claim[w] \in Claims
  BY DEF Prepare, Inv, TypeInv, Typed
<1>2. PICK t \in Tx : t = tx[w]
  BY <1>1
<1>3. PICK c \in Claims : c = claim[w]
  BY <1>1
<1>4. CASE Phase(t) # "none" \/ artifact[c.file] # c.digest
  <2>1. Finish(w) /\ UNCHANGED journal
    BY <1>2, <1>3, <1>4 DEF Prepare
  <2>2. Moved(w) /\ pc'[w] = "idle"
    BY <2>1, Moves DEF Inv
  <2> QED BY <1>1, <2>1, <2>2, LeaveKeeps DEF owner, Raw, Inv, TypeInv
<1>5. CASE Phase(t) = "none" /\ artifact[c.file] = c.digest
  <2>1. PICK outcome \in Outcomes :
          /\ Record(t, "prepared", c, outcome)
          /\ IF outcome = "ok" THEN Goto(w, "publish") ELSE Finish(w)
    BY <1>2, <1>3, <1>5 DEF Prepare
  <2>2. Allowed(t, "prepared") /\ ~ Undelivered(t)
    BY <1>5 DEF Allowed, Inv, PublishInv
  <2>3. CASE outcome # "ok"
    BY <1>1, <1>2, <1>5, <2>1, <2>2, <2>3, ConcludeKeeps DEF Raw, Phases, owner, Inv, TypeInv
  <2>4. CASE outcome = "ok"
    <3>1. Moved(w) /\ pc'[w] = "publish" /\ tx'[w] = t
      BY <1>2, <2>1, <2>4, Moves DEF Inv, Labels, Publishing
    <3>2. /\ journal' \in [Tx -> Seq(Event)] /\ HistoryInv'
          /\ \A u \in Tx : u # t => Phase(u)' = Phase(u) /\ ClaimOf(u)' = ClaimOf(u)
          /\ Phase(t)' = "prepared" /\ ClaimOf(t)' = c
      BY <1>5, <2>1, <2>2, <2>4, Recorded DEF Inv, Phases
    <3>3. /\ artifact' = artifact /\ versions' = versions /\ expired' = expired
          /\ published' = published /\ sealed' = sealed /\ inflight' = inflight /\ fence' = fence
      BY <1>1 DEF files, owner
    <3>4. LeaseCoversReference' /\ ArtifactInv'
      BY <1>5, <3>2, <3>3 DEF LeaseCoversReference, ArtifactInv, Active, Inv, TypeInv
    <3>5. RawInv'
      BY <1>1, <3>1, RawKept DEF Raw
    <3>6. \A u \in Tx : Undelivered(u)' => u = t \/ Undelivered(u)
      BY <3>1, <3>3 DEF Undelivered, Moved
    <3>7. \A v \in Worker : v # w =>
            /\ pc[v] \in Publishing \cup {"fence", "decide", "sealed"} => tx[v] # t
            /\ pc[v] \notin {"removing", "sealed"}
      BY <1>1, <1>5, RetentionAssumption DEF Inv, WorkerInv, Locked, Fenced, PublishInv
    <3>8. ASSUME NEW v \in Worker, v # w PROVE Typed(v)' /\ Locked(v)' /\ Fenced(v)'
      <4>1. pc'[v] = pc[v] /\ tx'[v] = tx[v] /\ claim'[v] = claim[v] /\ seen'[v] = seen[v]
        BY <3>1, <3>8 DEF Moved
      <4>2. Typed(v) /\ Fenced(v)
        BY DEF Inv, TypeInv, WorkerInv
      <4>3. CASE pc[v] \in {"fence", "decide"}
        <5>1. PICK u \in Tx : u = tx[v]
          BY <4>2, <4>3 DEF Typed, Reconciling
        <5>2. u # t /\ Phase(u)' = Phase(u) /\ (Undelivered(u)' => Undelivered(u))
          BY <3>2, <3>6, <3>7, <3>8, <4>3, <5>1
        <5> QED BY <3>3, <4>1, <4>2, <4>3, <5>1, <5>2 DEF Typed, Locked, Fenced
      <4>4. CASE pc[v] \notin {"fence", "decide"}
        BY <3>7, <3>8, <4>1, <4>2, <4>4 DEF Typed, Locked, Fenced
      <4> QED BY <4>3, <4>4
    <3>9. Typed(w)' /\ Locked(w)' /\ Fenced(w)'
      BY <3>1 DEF Typed, Locked, Fenced
    <3>10. TypeInv' /\ WorkerInv'
      BY <1>1, <3>1, <3>2, <3>3, <3>8, <3>9 DEF TypeInv, WorkerInv, Inv, Moved
    <3>11. t \notin published /\ t \notin inflight
      BY <1>5, <2>2 DEF Inv, LeaseCoversReference, Undelivered
    <3>12. PublishInv'
      <4>1. ASSUME NEW u \in Tx, Undelivered(u)'
            PROVE  /\ u \notin published'
                   /\ \/ Phase(u)' = "prepared"
                      \/ Phase(u)' = "aborted" /\ u \in sealed'
        BY <3>2, <3>3, <3>6, <3>11, <4>1 DEF Inv, PublishInv
      <4>2. \A v \in Worker : v # w /\ pc'[v] \in Publishing =>
              pc[v] \in Publishing /\ tx'[v] = tx[v] /\ tx[v] # t
        BY <3>1, <3>7 DEF Moved
      <4>3. \A u, v \in Worker :
              pc'[u] \in Publishing /\ pc'[v] \in Publishing /\ tx'[u] = tx'[v] => u = v
        BY <3>1, <4>2 DEF Inv, PublishInv
      <4>4. ASSUME NEW v \in Worker, pc'[v] \in Publishing
            PROVE  (tx[v] \notin inflight /\ Phase(tx[v]) # "none")'
        <5>1. PICK u \in Tx : u = tx'[v]
          BY <3>1, <4>2, <4>4 DEF Inv, TypeInv, Typed
        <5>2. u \notin inflight /\ Phase(u)' # "none"
          BY <3>1, <3>2, <3>11, <4>2, <4>4, <5>1 DEF Inv, PublishInv
        <5> QED BY <3>3, <5>1, <5>2
      <4>5. ASSUME NEW v \in Worker, pc'[v] = "abort" PROVE tx'[v] \notin published'
        BY <3>1, <3>3, <4>5 DEF Moved, Inv, PublishInv
      <4> QED BY <4>1, <4>3, <4>4, <4>5 DEF PublishInv
    <3> QED BY <3>2, <3>4, <3>5, <3>10, <3>12 DEF Inv
  <2> QED BY <2>3, <2>4
<1> QED BY <1>4, <1>5

\* commit() and abort() after the publisher.
LEMMA CommitAbortKeeps == ASSUME Inv, NEW w \in Worker, Commit(w) \/ Abort(w) PROVE Inv'
<1>1. PICK label \in {"commit", "abort"} :
        Conclude(w, label, IF label = "commit" THEN "committed" ELSE "aborted")
  BY DEF Commit, Abort
<1> DEFINE phase == IF label = "commit" THEN "committed" ELSE "aborted"
<1>2. /\ pc[w] = label /\ jlock = None /\ Finish(w) /\ phase \in Phases
      /\ UNCHANGED <<files, jlock, expired, owner>>
  BY <1>1 DEF Conclude, Phases
<1>3. PICK t \in Tx : t = tx[w]
  BY <1>2 DEF Inv, TypeInv, Typed, Publishing
<1>4. ~ Undelivered(t) /\ (label = "abort" => t \notin published)
  BY <1>2, <1>3 DEF Undelivered, Inv, PublishInv, Publishing
<1>5. CASE ~ Allowed(t, phase)
  <2>1. UNCHANGED journal
    BY <1>1, <1>3, <1>5 DEF Conclude
  <2>2. Moved(w) /\ pc'[w] = "idle"
    BY <1>2, Moves DEF Inv
  <2> QED BY <1>2, <2>1, <2>2, LeaveKeeps DEF owner, Raw, Inv, TypeInv
<1>6. CASE Allowed(t, phase)
  <2>1. PICK outcome \in Outcomes : Record(t, phase, None, outcome)
    BY <1>1, <1>3, <1>6 DEF Conclude
  <2> QED BY <1>2, <1>3, <1>4, <1>6, <2>1, ConcludeKeeps DEF Raw, owner, Inv, TypeInv
<1> QED BY <1>5, <1>6

\* remover() removes the reference, or raises before or after it did.
LEMMA CallRemoverKeeps == ASSUME Inv, NEW w \in Worker, CallRemover(w) PROVE Inv'
<1>1. /\ pc[w] = "removing" /\ Finish(w) /\ jlock' = None /\ jlock = w
      /\ UNCHANGED <<files, expired, sealed, fence, inflight>>
  BY DEF CallRemover, Inv, WorkerInv, Locked
<1>2. PICK t \in Tx : t = tx[w] /\ Phase(t) = "committed"
  BY <1>1 DEF Inv, TypeInv, Typed, WorkerInv, Locked
<1>3. CASE published' = published \ {t} /\ \E outcome \in Outcomes : Record(t, "released", None, outcome)
  <2>1. PICK outcome \in Outcomes : Record(t, "released", None, outcome)
    BY <1>3
  <2>2. Allowed(t, "released")
    BY <1>2 DEF Allowed
  <2> QED BY <1>1, <1>2, <1>3, <2>1, <2>2, ConcludeKeeps DEF Raw, Phases, Inv, TypeInv
<1>4. CASE published' \in {published, published \ {t}} /\ UNCHANGED journal
  <2>1. Moved(w) /\ pc'[w] = "idle"
    BY <1>1, Moves DEF Inv
  <2>2. \A u \in Tx : Phase(u)' = Phase(u)
    BY <1>4, JournalFrame
  <2>3. Guarantee(w) /\ RawInv'
    BY <1>1, <1>4, <2>1, <2>2, RawKept DEF Guarantee, Publishing, Inv, TypeInv, Raw
  <2>4. Typed(w)' /\ Locked(w)' /\ Fenced(w)'
    BY <2>1 DEF Typed, Locked, Fenced, Publishing, Reconciling
  <2> QED BY <1>1, <1>4, <2>3, <2>4, Quiet
<1> QED BY <1>2, <1>3, <1>4 DEF CallRemover

\* The decision of a reconciler that is inside the fence.
LEMMA DecideKeeps == ASSUME Inv, NEW w \in Worker, Decide(w) PROVE Inv'
<1>1. /\ pc[w] = "decide" /\ jlock = None /\ tx[w] \in Tx
      /\ UNCHANGED <<files, expired, published, inflight>>
  BY DEF Decide, Inv, TypeInv, Typed, Reconciling
<1>2. PICK t \in Tx : t = tx[w]
  BY <1>1
<1>3. /\ fence[t] = w /\ (seen[w] = "published" => ~ Undelivered(t))
      /\ seen[w] \in {"absent", "sealed"} => t \notin published
  BY <1>1, <1>2 DEF Inv, WorkerInv, Fenced
<1>4. LeaveFence(w) =>
        /\ Finish(w) /\ fence' \in [Tx -> Worker \cup {None}]
        /\ \A u \in Tx : fence[u] \in {None, w} \/ fence'[u] = fence[u]
  BY <1>1, <1>2, <1>3 DEF LeaveFence, Inv, TypeInv
<1>5. CASE LeaveFence(w) /\ UNCHANGED <<journal, jlock, sealed>>
  <2>1. Moved(w) /\ pc'[w] = "idle"
    BY <1>4, <1>5, Moves DEF Inv
  <2> QED BY <1>1, <1>4, <1>5, <2>1, LeaveKeeps DEF Raw, Inv, TypeInv
<1>6. CASE /\ Phase(t) = "prepared" /\ seen[w] = "published" /\ LeaveFence(w)
           /\ \E outcome \in Outcomes : Record(t, "committed", None, outcome)
           /\ UNCHANGED <<jlock, sealed>>
  <2>1. PICK outcome \in Outcomes : Record(t, "committed", None, outcome)
    BY <1>6
  <2>2. Allowed(t, "committed")
    BY <1>6 DEF Allowed
  <2> QED BY <1>1, <1>2, <1>3, <1>4, <1>6, <2>1, <2>2, ConcludeKeeps DEF Raw, Phases
<1>7. CASE /\ Phase(t) = "prepared" /\ seen[w] \in {"absent", "sealed"}
           /\ sealed' = sealed \cup {t} /\ jlock' = w /\ Goto(w, "sealed")
           /\ UNCHANGED <<journal, fence>>
  <2>1. Moved(w) /\ pc'[w] = "sealed" /\ tx'[w] = t
    BY <1>2, <1>7, Moves DEF Inv, Labels, Reconciling
  <2>2. \A u \in Tx : Phase(u)' = Phase(u)
    BY <1>7, JournalFrame
  <2>3. Guarantee(w) /\ RawInv'
    BY <1>1, <1>7, <2>1, <2>2, RawKept DEF Guarantee, Publishing, Inv, TypeInv, Raw
  <2>4. Phase(t)' = "prepared" /\ fence'[t] = w /\ t \notin published' /\ t \in sealed'
    BY <1>1, <1>3, <1>7, <2>2
  <2>5. Typed(w)' /\ Locked(w)' /\ Fenced(w)'
    BY <1>7, <2>1, <2>4 DEF Typed, Locked, Fenced
  <2> QED BY <1>1, <1>7, <2>3, <2>5, Quiet
<1> QED BY <1>2, <1>5, <1>6, <1>7 DEF Decide

\* An absent reference is recorded as aborted, once the owner has tombstoned it.
LEMMA RecordAbortedKeeps == ASSUME Inv, NEW w \in Worker, RecordAborted(w) PROVE Inv'
<1>1. /\ pc[w] = "sealed" /\ jlock' = None /\ tx[w] \in Tx /\ LeaveFence(w)
      /\ UNCHANGED <<files, expired, published, sealed, inflight>>
  BY DEF RecordAborted, Inv, TypeInv, Typed, Reconciling
<1>2. PICK t \in Tx : t = tx[w]
  BY <1>1
<1>3. /\ Phase(t) = "prepared" /\ fence[t] = w /\ jlock = w
      /\ t \notin published /\ t \in sealed
  BY <1>1, <1>2 DEF Inv, WorkerInv, Fenced, Locked
<1>4. /\ Finish(w) /\ fence' \in [Tx -> Worker \cup {None}]
      /\ \A u \in Tx : fence[u] \in {None, w} \/ fence'[u] = fence[u]
  BY <1>1, <1>2, <1>3 DEF LeaveFence, Inv, TypeInv
<1>5. PICK outcome \in Outcomes : Record(t, "aborted", None, outcome)
  BY <1>2 DEF RecordAborted
<1>6. Allowed(t, "aborted")
  BY <1>3 DEF Allowed
<1> QED BY <1>1, <1>2, <1>3, <1>4, <1>5, <1>6, ConcludeKeeps DEF Raw, Phases

-----------------------------------------------------------------------------
(* Files, time, late publications and crashes *)

\* Only files that no active lease protects are unlinked under the lock.
LEMMA ApplyCleanupKeeps == ASSUME Inv, NEW w \in Worker, ApplyCleanup(w) PROVE Inv'
<1>1. /\ pc[w] = "apply" /\ jlock = None /\ Finish(w)
      /\ Unlink({s \in seen[w] : s.file \notin Protected})
      /\ UNCHANGED <<versions, journal, jlock, expired, owner>>
  BY DEF ApplyCleanup
<1>2. Moved(w) /\ pc'[w] = "idle"
  BY <1>1, Moves DEF Inv
<1>3. /\ artifact' \in [File -> 0..MaxVersions]
      /\ \A f \in Protected : f \in File => artifact'[f] = artifact[f]
  BY <1>1, RetentionAssumption DEF Unlink, Inv, TypeInv
<1>4. \A t \in Tx : Phase(t)' = Phase(t) /\ ClaimOf(t)' = ClaimOf(t)
  BY <1>1, JournalFrame
<1>5. \A t \in Tx : Active(t) => ClaimOf(t).file \in Protected /\ ClaimOf(t).file \in File
  <2> TAKE t \in Tx
  <2> HAVE Active(t)
  <2>1. Phase(t) # "none"
    BY DEF Active
  <2>2. ClaimOf(t) \in Claims
    BY <2>1, PhaseOf DEF Inv
  <2> QED BY <2>2 DEF Claims, Protected
<1>6. ArtifactInv'
  BY <1>1, <1>3, <1>4, <1>5 DEF ArtifactInv, Active, Inv
<1>7. LeaseCoversReference' /\ HistoryInv'
  BY <1>1, <1>4, JournalFrame DEF LeaseCoversReference, Inv, TypeInv, owner
<1>8. Guarantee(w) /\ RawInv'
  BY <1>1, <1>2, <1>4, RawKept DEF Guarantee, Publishing, Inv, TypeInv, owner, Raw
<1>9. Typed(w)' /\ Locked(w)' /\ Fenced(w)'
  BY <1>2 DEF Typed, Locked, Fenced, Publishing, Reconciling
<1> QED BY <1>1, <1>3, <1>6, <1>7, <1>8, <1>9, WorkerStep DEF Inv, TypeInv

\* A cleanup without the journal begins, looks again, and deletes.
LEMMA RawKeeps ==
    ASSUME Inv, ~ RawConcurrent, NEW w \in Worker, CleanUpRaw(w) \/ ApplyRaw(w) \/ DeleteRaw(w)
    PROVE  Inv'
<1>1. /\ \A v \in Worker : v # w => pc[v] = "idle"
      /\ UNCHANGED <<versions, journal, jlock, expired, owner>>
      /\ pc[w] \in Raw \cup {"idle"}
  BY DEF CleanUpRaw, ApplyRaw, DeleteRaw, Raw, Inv, RawInv, files
<1>2. Moved(w) /\ pc'[w] \in Raw \cup {"idle"} /\ (pc'[w] = "raw_delete" => NoJournal)
  <2>1. CASE CleanUpRaw(w)
    BY <2>1 DEF CleanUpRaw, Moved, Inv, TypeInv, Labels, Raw
  <2>2. CASE ApplyRaw(w)
    BY <2>2, Moves DEF ApplyRaw, Inv, Labels, Raw
  <2>3. CASE DeleteRaw(w)
    BY <2>3, Moves DEF DeleteRaw, Inv
  <2> QED BY <2>1, <2>2, <2>3
<1>3. /\ artifact' \in [File -> 0..MaxVersions]
      /\ NoJournal \/ UNCHANGED artifact
  <2>1. CASE CleanUpRaw(w) \/ ApplyRaw(w)
    BY <2>1 DEF CleanUpRaw, ApplyRaw, files, Inv, TypeInv
  <2>2. CASE DeleteRaw(w)
    BY <2>2, RetentionAssumption DEF DeleteRaw, Unlink, Inv, TypeInv, RawInv, Raw
  <2> QED BY <2>1, <2>2
<1>4. \A t \in Tx : Phase(t)' = Phase(t)
  BY <1>1, JournalFrame
<1>5. ArtifactInv'
  <2>1. CASE NoJournal
    <3>1. \A t \in Tx : Phase(t) = "none"
      BY <2>1 DEF NoJournal, Phase
    <3> QED BY <1>4, <3>1 DEF ArtifactInv, Active
  <2>2. CASE UNCHANGED artifact
    BY <1>1, <2>2, ArtifactFrame DEF Inv
  <2> QED BY <1>3, <2>1, <2>2
<1>6. LeaseCoversReference' /\ HistoryInv'
  BY <1>1, <1>4, JournalFrame DEF LeaseCoversReference, Inv, TypeInv, owner
<1>7. Guarantee(w)
  BY <1>1, <1>2, <1>4 DEF Guarantee, Publishing, Raw, Inv, TypeInv, owner
<1>8. RawInv'
  BY <1>1, <1>2, JournalFrame DEF RawInv, Moved, Raw
<1>9. Typed(w)' /\ Locked(w)' /\ Fenced(w)'
  BY <1>2 DEF Typed, Locked, Fenced, Publishing, Reconciling, Raw
<1> QED BY <1>1, <1>3, <1>5, <1>6, <1>7, <1>8, <1>9, WorkerStep DEF Inv, TypeInv

\* The process of a call dies.
LEMMA CrashKeeps == ASSUME Inv, NEW w \in Worker, Crash(w) PROVE Inv'
<1>1. /\ pc[w] # "idle" /\ Finish(w) /\ UNCHANGED <<files, journal, expired, sealed>>
      /\ jlock' = IF jlock = w THEN None ELSE jlock
      /\ fence' = [t \in Tx |-> IF fence[t] = w THEN None ELSE fence[t]]
      /\ inflight' \subseteq inflight \cup {t \in {tx[w]} : pc[w] = "publish"}
      /\ published' \subseteq published
  BY DEF Crash
<1>2. Moved(w) /\ pc'[w] = "idle"
  BY <1>1, Moves DEF Inv
<1>3. \A u \in Tx : Phase(u)' = Phase(u)
  BY <1>1, JournalFrame
<1>4. Guarantee(w)
  BY <1>1, <1>2, <1>3 DEF Guarantee, Publishing, Inv, TypeInv
<1>5. RawInv'
  <2>1. CASE pc[w] \in Raw
    BY <1>2, <2>1 DEF RawInv, Moved, Inv, Raw
  <2>2. CASE pc[w] \notin Raw
    BY <1>1, <1>2, <2>2, RawKept DEF Raw
  <2> QED BY <2>1, <2>2
<1>6. Typed(w)' /\ Locked(w)' /\ Fenced(w)'
  BY <1>2 DEF Typed, Locked, Fenced, Publishing, Reconciling
<1> QED BY <1>1, <1>4, <1>5, <1>6, Quiet

\* A late publication reaches the owner, which takes it unless it is fenced off or
\* tombstoned, or gets lost.
LEMMA LandKeeps == ASSUME Inv, NEW t \in Tx, Land(t) PROVE Inv'
<1>1. /\ t \in inflight /\ inflight' = inflight \ {t}
      /\ UNCHANGED <<files, journal, jlock, expired, sealed, fence, locals>>
      /\ \/ UNCHANGED published
         \/ fence[t] = None /\ t \notin sealed /\ published' = published \cup {t}
  BY DEF Land
<1>2. Undelivered(t) /\ t \notin published
  BY <1>1 DEF Undelivered, Inv, PublishInv
<1>3. \A u \in Tx : Phase(u)' = Phase(u)
  BY <1>1, JournalFrame
<1>4. \A u \in Tx : Undelivered(u)' => Undelivered(u)
  BY <1>1 DEF Undelivered, locals
<1>5. ~ Undelivered(t)'
  BY <1>1 DEF Undelivered, Inv, PublishInv, Publishing, locals
<1>6. LeaseCoversReference'
  BY <1>1, <1>2, <1>3 DEF LeaseCoversReference, Inv, TypeInv, PublishInv
<1>7. HistoryInv' /\ ArtifactInv' /\ RawInv'
  BY <1>1, JournalFrame, ArtifactFrame DEF Inv, RawInv, files, locals
<1>8. TypeInv'
  BY <1>1 DEF Inv, TypeInv, Typed, files, locals
<1>9. ASSUME NEW v \in Worker PROVE Locked(v)' /\ Fenced(v)'
  <2>1. Typed(v) /\ Locked(v) /\ Fenced(v)
    BY DEF Inv, TypeInv, WorkerInv
  <2>2. UNCHANGED <<pc, tx, seen, jlock, fence, sealed>>
    BY <1>1 DEF locals
  <2>3. CASE pc[v] \in Reconciling \cup {"removing"}
    <3>1. PICK u \in Tx : u = tx[v]
      BY <2>1, <2>3 DEF Typed
    <3>2. fence[u] = v => (u \notin published => u \notin published')
      BY <1>1, RetentionAssumption
    <3>3. Phase(u)' = Phase(u) /\ (Undelivered(u)' => Undelivered(u))
      BY <1>3, <1>4
    <3> QED BY <2>1, <2>2, <3>1, <3>2, <3>3 DEF Locked, Fenced
  <2>4. CASE pc[v] \notin Reconciling \cup {"removing"}
    BY <2>2, <2>4 DEF Locked, Fenced, Reconciling
  <2> QED BY <2>3, <2>4
<1>10. PublishInv'
  <2>1. ASSUME NEW u \in Tx, Undelivered(u)'
        PROVE  /\ u \notin published'
               /\ \/ Phase(u)' = "prepared"
                  \/ Phase(u)' = "aborted" /\ u \in sealed'
    BY <1>1, <1>3, <1>4, <1>5, <2>1 DEF Inv, PublishInv
  <2>2. pc' = pc /\ tx' = tx
    BY <1>1 DEF locals
  <2>3. ASSUME NEW v \in Worker, pc[v] \in Publishing
        PROVE  (tx[v] \notin inflight /\ Phase(tx[v]) # "none")' /\ tx[v] # t
    <3>1. PICK u \in Tx : u = tx[v]
      BY <2>3 DEF Inv, TypeInv, Typed
    <3>2. u \notin inflight /\ Phase(u)' # "none"
      BY <1>3, <2>3, <3>1 DEF Inv, PublishInv
    <3> QED BY <1>1, <2>2, <3>1, <3>2
  <2>4. \A v \in Worker : pc[v] = "abort" => tx[v] \notin published'
    BY <1>1, <2>3 DEF Inv, PublishInv, Publishing
  <2> QED BY <2>1, <2>2, <2>3, <2>4 DEF PublishInv, Inv
<1> QED BY <1>6, <1>7, <1>8, <1>9, <1>10 DEF Inv, WorkerInv

\* A file is written, or time passes.
LEMMA EnvironmentKeeps ==
    ASSUME Inv, (\E f \in File : Externalize(f)) \/ (\E t \in Tx : Expire(t))
    PROVE  Inv'
<1>1. UNCHANGED <<journal, jlock, owner, locals>>
  BY DEF Externalize, Expire
<1>2. \A t \in Tx : Phase(t)' = Phase(t) /\ ClaimOf(t)' = ClaimOf(t)
  BY <1>1, JournalFrame
<1>3. /\ artifact' \in [File -> 0..MaxVersions] /\ versions' \in [File -> 0..MaxVersions]
      /\ \A f \in File : artifact[f] # 0 => artifact'[f] = artifact[f]
      /\ expired \subseteq expired'
  <2>1. ASSUME NEW f \in File, Externalize(f)
        PROVE  /\ artifact' \in [File -> 0..MaxVersions] /\ versions' \in [File -> 0..MaxVersions]
               /\ \A g \in File : artifact[g] # 0 => artifact'[g] = artifact[g]
               /\ expired' = expired
    BY <2>1, RetentionAssumption DEF Externalize, Inv, TypeInv
  <2>2. ASSUME NEW t \in Tx, Expire(t)
        PROVE  UNCHANGED <<artifact, versions>> /\ expired \subseteq expired'
    BY <2>2 DEF Expire, files
  <2> QED BY <2>1, <2>2 DEF Inv, TypeInv
<1>4. ArtifactInv'
  <2> SUFFICES ASSUME NEW t \in Tx, Active(t)' PROVE (artifact[ClaimOf(t).file] = ClaimOf(t).digest)'
    BY DEF ArtifactInv
  <2>1. Active(t) /\ Phase(t) # "none"
    BY <1>2, <1>3 DEF Active
  <2>2. ClaimOf(t) \in Claims /\ artifact[ClaimOf(t).file] = ClaimOf(t).digest
    BY <2>1, PhaseOf DEF Inv, ArtifactInv
  <2>3. ClaimOf(t).file \in File /\ artifact[ClaimOf(t).file] # 0
    BY <2>2 DEF Claims
  <2> QED BY <1>2, <1>3, <2>2, <2>3
<1>5. HistoryInv' /\ RawInv' /\ LeaseCoversReference'
  BY <1>1, <1>2, JournalFrame DEF Inv, RawInv, LeaseCoversReference, TypeInv, locals, owner
<1>6. TypeInv'
  BY <1>1, <1>3 DEF Inv, TypeInv, Typed, locals, owner
<1>7. WorkerInv' /\ PublishInv'
  BY <1>1 DEF Inv, WorkerInv, Locked, Fenced, PublishInv, Undelivered, Phase, locals, owner
<1> QED BY <1>4, <1>5, <1>6, <1>7 DEF Inv

-----------------------------------------------------------------------------
(* The theorems *)

\* The invariant holds at first.
LEMMA InitInv == Init => Inv
<1> SUFFICES ASSUME Init PROVE Inv
  OBVIOUS
<1>1. \A t \in Tx : journal[t] = <<>> /\ Phase(t) = "none" /\ ~ Undelivered(t)
  BY DEF Init, Phase, Undelivered
<1>2. TypeInv
  BY RetentionAssumption DEF Init, TypeInv, Typed, Labels, Publishing, Reconciling
<1>3. HistoryInv
  BY <1>1 DEF HistoryInv, Legal
<1>4. WorkerInv /\ PublishInv /\ RawInv
  BY <1>1 DEF Init, WorkerInv, Locked, Fenced, PublishInv, RawInv, Publishing, Raw
<1>5. LeaseCoversReference /\ ArtifactInv
  BY <1>1 DEF Init, LeaseCoversReference, ArtifactInv, Active
<1> QED BY <1>2, <1>3, <1>4, <1>5 DEF Inv

\* Every step keeps the invariant.
LEMMA NextInv == ASSUME ~ RawConcurrent, Inv, [Next]_vars PROVE Inv'
<1>1. ASSUME NEW w \in Worker, Step(w) PROVE Inv'
  BY <1>1, PrepareKeeps, CallPublisherKeeps, CommitAbortKeeps, StartRemovalKeeps, CallRemoverKeeps,
     PlaceSteps, DecideKeeps, RecordAbortedKeeps, ApplyCleanupKeeps, RawKeeps DEF Step
<1>2. ASSUME NEW w \in Worker, CleanUp(w) PROVE Inv'
  BY <1>2, BeginKeeps DEF CleanUp
<1>3. ASSUME NEW w \in Worker, NEW t \in Tx, RemoveReference(w, t) \/ ReconcileReference(w, t)
      PROVE  Inv'
  BY <1>3, BeginKeeps DEF RemoveReference, ReconcileReference
<1>4. ASSUME NEW w \in Worker, NEW t \in Tx, NEW c \in Claims, PublishReference(w, t, c)
      PROVE  Inv'
  BY <1>4, BeginKeeps DEF PublishReference
<1>5. ASSUME NEW w \in Worker, CleanUpRaw(w) \/ Crash(w) PROVE Inv'
  BY <1>5, RawKeeps, CrashKeeps
<1>6. ASSUME UNCHANGED vars PROVE Inv'
  BY <1>6 DEF vars, files, owner, locals, Inv, TypeInv, Typed, HistoryInv, WorkerInv, Locked, Fenced,
              PublishInv, Undelivered, LeaseCoversReference, ArtifactInv, Active, RawInv, NoJournal,
              Phase, ClaimOf
<1> QED BY <1>1, <1>2, <1>3, <1>4, <1>5, <1>6, LandKeeps, EnvironmentKeeps DEF Next

\* The inductive invariant.
LEMMA Invariant == ASSUME ~ RawConcurrent PROVE Spec => []Inv
  BY InitInv, NextInv, PTL DEF Spec

\* A reference in Memory always has a lease that is pending or committed, however
\* publishers, reconcilers, removals, late writes and crashes interleave.
THEOREM ReferencesLeased == ASSUME ~ RawConcurrent PROVE Spec => []LeaseCoversReference
<1>1. Inv => LeaseCoversReference
  BY DEF Inv
<1> QED BY <1>1, Invariant, PTL

\* Memory never holds a reference to evidence that is gone or replaced, unless its
\* committed lease ran out.
THEOREM EvidenceStays == ASSUME ~ RawConcurrent PROVE Spec => []ReferenceHasArtifact
<1>1. Inv => ReferenceHasArtifact
  BY DEF Inv, TypeInv, LeaseCoversReference, ArtifactInv, Active, ReferenceHasArtifact
<1> QED BY <1>1, Invariant, PTL

\* The journal stays one that every later call accepts.
THEOREM JournalStaysLegal == ASSUME ~ RawConcurrent PROVE Spec => []JournalAccepted
<1>1. Inv => LegalHistory
  <2> SUFFICES ASSUME Inv, NEW t \in Tx
               PROVE  [i \in DOMAIN journal[t] |-> journal[t][i].phase] \in
                        {<<>>, <<"prepared">>, <<"prepared", "committed">>, <<"prepared", "aborted">>,
                         <<"prepared", "committed", "released">>}
    BY DEF LegalHistory
  <2> DEFINE s == journal[t]
             phases == [i \in DOMAIN s |-> s[i].phase]
  <2>1. s \in Seq(Event) /\ Legal(s) /\ Len(s) \in 0..3 /\ DOMAIN s = 1..Len(s)
    BY PhaseOf, LenProperties DEF Inv, TypeInv, HistoryInv
  <2> HIDE DEF s
  <2>2. \A i \in 1..Len(s) : s[i].phase \in Phases
    <3>1. \A i \in 1..Len(s) : s[i] \in Event
      BY <2>1, ElementOfSeq
    <3> QED BY <3>1 DEF Event
  <2>3. phases \in [1..Len(s) -> Phases] /\ Len(s) \in Nat
    BY <2>1, <2>2
  <2>4. phases \in Seq(Phases) /\ Len(phases) = Len(s) /\ \A i \in 1..Len(s) : phases[i] = s[i].phase
    BY <2>1, <2>3, SeqDef, LenProperties
  <2> HIDE DEF phases
  <2>5. /\ <<>> \in Seq(Phases) /\ <<"prepared">> \in Seq(Phases)
        /\ <<"prepared", "committed">> \in Seq(Phases) /\ <<"prepared", "aborted">> \in Seq(Phases)
        /\ <<"prepared", "committed", "released">> \in Seq(Phases)
    BY DEF Phases
  <2>6. ASSUME Len(s) = 0 PROVE phases = <<>>
    BY <2>4, <2>5, <2>6, SeqEqual
  <2>7. ASSUME Len(s) = 1 PROVE phases = <<"prepared">>
    BY <2>1, <2>4, <2>5, <2>7, SeqEqual DEF Legal
  <2>8. ASSUME Len(s) = 2
        PROVE  phases = <<"prepared", "committed">> \/ phases = <<"prepared", "aborted">>
    BY <2>1, <2>4, <2>5, <2>8, SeqEqual DEF Legal
  <2>9. ASSUME Len(s) = 3 PROVE phases = <<"prepared", "committed", "released">>
    BY <2>1, <2>4, <2>5, <2>9, SeqEqual DEF Legal
  <2>10. Len(s) = 0 \/ Len(s) = 1 \/ Len(s) = 2 \/ Len(s) = 3
    BY <2>1
  <2>11. phases \in {<<>>, <<"prepared">>, <<"prepared", "committed">>, <<"prepared", "aborted">>,
                     <<"prepared", "committed", "released">>}
    BY <2>6, <2>7, <2>8, <2>9, <2>10, Zenon
  <2> QED BY <2>11 DEF s, phases
<1>2. Inv => ClaimsAgree
  BY DEF Inv, ArtifactInv, ClaimsAgree
<1>3. Inv => JournalAccepted
  BY <1>1, <1>2 DEF JournalAccepted
<1> QED BY <1>3, Invariant, PTL
=============================================================================
