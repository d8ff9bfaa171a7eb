---------------------------- MODULE ChapterProofs ----------------------------
(***************************************************************************)
(* Proofs about the scenarios of ChapterScenarios: durable context,        *)
(* sessions, automations, the session database, the sidecar, the session   *)
(* log, the sandbox, governed tools, skills, connectors, the agent and the *)
(* recall harness, for any values of its constants.  A scenario keeps its  *)
(* variables in x1, x2, ...; the invariants below name them by what the    *)
(* scenario's module calls them.                                           *)
(***************************************************************************)
EXTENDS ChapterScenarios, FiniteSetTheorems, SequenceTheorems, TLAPS

\* A scenario starts as its module says.
LEMMA Starts ==
    Init => /\ scenario = "durable" => Durable!Init
            /\ scenario = "sessions" => Sessions!Init
            /\ scenario = "automations" => Automations!Init
            /\ scenario = "database" => Database!Init
            /\ scenario = "sidecar" => Sidecar!Init
            /\ scenario = "skills" => Skills!Init
            /\ scenario = "log" => Log!Init
            /\ scenario = "governed" => Governed!Init
            /\ scenario = "agent" => Agent!Init
            /\ scenario = "connectors" => Connectors!Init
            /\ scenario = "sandbox" => Sandbox!Init
            /\ scenario = "recall" => Recall!Init
  BY DEF Init

\* It goes on as its module says.
LEMMA Steps ==
    Next => /\ scenario' = scenario
            /\ scenario = "durable" => Durable!Next
            /\ scenario = "sessions" => Sessions!Next
            /\ scenario = "automations" => Automations!Next
            /\ scenario = "database" => Database!Next
            /\ scenario = "sidecar" => Sidecar!Next
            /\ scenario = "skills" => Skills!Next
            /\ scenario = "log" => Log!Next
            /\ scenario = "governed" => Governed!Next
            /\ scenario = "agent" => Agent!Next
            /\ scenario = "connectors" => Connectors!Next
            /\ scenario = "sandbox" => Sandbox!Next
            /\ scenario = "recall" => Recall!Next
  BY DEF Next

-----------------------------------------------------------------------------
(* Durable context: x4 is pending, x5 archive, x6 now, x7 resolved,        *)
(* x8 prompt and x9 verified                                               *)

Work == [status : {"open", "blocked", "done"}, pointer : Durable!Pointer, at : Nat]

DurableTypes ==
    /\ x4 \in [Item -> Work \cup {None}]
    /\ x6 \in Nat

\* An item is in the state or, as done, in the archive.
ArchiveInv ==
    /\ \A i \in Item : x4[i] # None => \A r \in x5 : r.item # i
    /\ \A i \in Item : x4[i] = None => \E r \in x5 : r.item = i
    /\ \A r, s \in x5 : r.item = s.item => r = s
    /\ \A r \in x5 : r.was.status = "done"

\* A pointer was resolved to what it names, or to nothing.
EvidenceInv ==
    /\ \A u \in x9 : u.evidence = u.pointer
    /\ x7 # None => \A p \in DOMAIN x7 : x7[p].evidence \in {p, None}

DurableInv == DurableTypes /\ ArchiveInv /\ EvidenceInv

\* A missing item is none that is there.
LEMMA NoWork == None \notin Work
  BY NoneAssumption DEF Work

\* Nothing is done, archived or resolved yet.
LEMMA DurableStart == Durable!Init => DurableInv
<1> SUFFICES ASSUME Durable!Init PROVE DurableInv
  OBVIOUS
<1>1. Durable!Transcript(1) \in Durable!Pointer
  BY BoundsAssumption DEF Durable!Pointer
<1>2. [status |-> "open", pointer |-> Durable!Transcript(1), at |-> 0] \in Work
  BY <1>1 DEF Work
<1> QED BY <1>2, NoWork DEF Durable!Init, DurableInv, DurableTypes, ArchiveInv, EvidenceInv

\* The steps that touch neither items nor evidence.
LEMMA DurableFrame == DurableInv /\ UNCHANGED <<x4, x5, x6, x7, x9>> => DurableInv'
  BY DEF DurableInv, DurableTypes, ArchiveInv, EvidenceInv

\* An item that is in the state is one there can be.
LEMMA InStateWork == ASSUME DurableTypes, NEW i \in Durable!InState PROVE i \in Item /\ x4[i] \in Work
  BY DEF DurableTypes, Durable!InState

\* A transition replaces an item by one (transition_pending_item).
LEMMA DurableTransition ==
    ASSUME DurableInv, NEW i \in Item, NEW status \in {"open", "blocked", "done"},
           NEW p \in Durable!Pointer, Durable!Transition(i, status, p)
    PROVE  DurableInv'
<1> USE DEF DurableInv
<1> DEFINE new == [status |-> status, pointer |-> p, at |-> x6]
<1>1. /\ i \in Durable!InState /\ x4' = [x4 EXCEPT ![i] = new]
      /\ x5' = x5 /\ x6' = x6 /\ x7' = x7 /\ x9' = x9
  BY DEF Durable!Transition
<1>2. new \in Work /\ x4[i] # None
  BY <1>1 DEF DurableTypes, Work, Durable!InState
<1> HIDE DEF new
<1>3. DurableTypes'
  BY <1>1, <1>2 DEF DurableTypes
<1>4. \A j \in Item : x4'[j] = None <=> x4[j] = None
  BY <1>1, <1>2, NoWork DEF DurableTypes
<1>5. ArchiveInv'
  BY <1>1, <1>4 DEF ArchiveInv
<1>6. EvidenceInv'
  BY <1>1 DEF EvidenceInv
<1> QED BY <1>3, <1>5, <1>6

\* Archiving takes what is done out of the state, once (archive_done_pending_items).
LEMMA DurableArchive == ASSUME DurableInv, Durable!ArchiveDone PROVE DurableInv'
<1> USE DEF DurableInv
<1> DEFINE E == Durable!Expired
           record(i) == [item |-> i, was |-> x4[i], at |-> x6]
<1>1. /\ x5' = x5 \cup {record(i) : i \in E}
      /\ x4' = [i \in Item |-> IF i \in E THEN None ELSE x4[i]]
      /\ x6' = x6 /\ x7' = x7 /\ x9' = x9
  BY DEF Durable!ArchiveDone
<1>2. \A i \in E : i \in Item /\ x4[i] # None /\ x4[i].status = "done"
  BY DEF Durable!Expired, Durable!InState
<1> HIDE DEF E
<1>3. DurableTypes'
  BY <1>1 DEF DurableTypes
<1>4. ArchiveInv'
  <2>1. ASSUME NEW i \in Item, x4'[i] # None PROVE \A r \in x5' : r.item # i
    BY <1>1, <2>1 DEF ArchiveInv
  <2>2. ASSUME NEW i \in Item, x4'[i] = None PROVE \E r \in x5' : r.item = i
    <3>1. CASE i \in E
      <4>1. record(i) \in x5' /\ record(i).item = i
        BY <1>1, <3>1
      <4> QED BY <4>1
    <3>2. CASE i \notin E
      BY <1>1, <2>2, <3>2 DEF ArchiveInv
    <3> QED BY <3>1, <3>2
  <2>3. ASSUME NEW r \in x5', NEW s \in x5', r.item = s.item PROVE r = s
    <3>1. \A q \in x5, i \in E : q.item # record(i).item
      BY <1>2 DEF ArchiveInv
    <3> QED BY <1>1, <2>3, <3>1 DEF ArchiveInv
  <2>4. ASSUME NEW r \in x5' PROVE r.was.status = "done"
    BY <1>1, <1>2 DEF ArchiveInv
  <2> QED BY <2>1, <2>2, <2>3, <2>4 DEF ArchiveInv
<1>5. EvidenceInv'
  BY <1>1 DEF EvidenceInv
<1> QED BY <1>3, <1>4, <1>5

\* What a pointer is resolved to is what it names, whatever transcript and artifact
\* hold (_resolve_transcript, _resolve_artifact).
LEMMA ResolvesToItself ==
    ASSUME NEW p \in Durable!Pointer
    PROVE  /\ Durable!ResolvePointer(p).evidence \in {p, None}
           /\ Durable!ResolvePointer(p).status = "available" => Durable!ResolvePointer(p).evidence = p
  BY DEF Durable!ResolvePointer, Durable!ResolveTranscript, Durable!ResolveArtifact,
         Durable!Available, Durable!Refused

\* A resolution answers the pointers of the state (resolve_durable_sources).
LEMMA DurableResolve == ASSUME DurableInv, Durable!ResolveSources PROVE DurableInv'
<1> USE DEF DurableInv
<1> DEFINE P == Durable!Pointers
           answer(p) == Durable!ResolvePointer(p)
<1>1. /\ x7' = [p \in P |-> answer(p)]
      /\ x9' = x9 \cup {[pointer |-> p, evidence |-> x7'[p].evidence] :
                           p \in {q \in P : x7'[q].status = "available"}}
      /\ UNCHANGED <<x4, x5, x6>>
  BY DEF Durable!ResolveSources
<1>2. P \subseteq Durable!Pointer
  BY InStateWork DEF Durable!Pointers, Work
<1>3. \A p \in P : answer(p).evidence \in {p, None} /\ (answer(p).status = "available" => answer(p).evidence = p)
  BY <1>2, ResolvesToItself
<1> HIDE DEF P, answer
<1>4. EvidenceInv'
  <2>1. \A p \in DOMAIN x7' : x7'[p].evidence \in {p, None}
    BY <1>1, <1>3
  <2>2. ASSUME NEW u \in x9' PROVE u.evidence = u.pointer
    <3>1. CASE u \in x9
      BY <3>1 DEF EvidenceInv
    <3>2. ASSUME NEW p \in P, x7'[p].status = "available",
                 u = [pointer |-> p, evidence |-> x7'[p].evidence]
          PROVE  u.evidence = u.pointer
      BY <1>1, <1>3, <3>2
    <3> QED BY <1>1, <3>1, <3>2
  <2> QED BY <2>1, <2>2 DEF EvidenceInv
<1>5. DurableTypes' /\ ArchiveInv'
  BY <1>1 DEF DurableTypes, ArchiveInv
<1> QED BY <1>4, <1>5

\* Every step of the durable context keeps its invariant.
LEMMA DurableNext == ASSUME DurableInv, Durable!Next PROVE DurableInv'
<1>1. ASSUME Durable!Tick PROVE DurableInv'
  BY <1>1 DEF Durable!Tick, DurableInv, DurableTypes, ArchiveInv, EvidenceInv
<1>2. ASSUME Durable!AppendLine PROVE DurableInv'
  BY <1>2, DurableFrame DEF Durable!AppendLine
<1>3. ASSUME NEW d, Durable!ChangeArtifact(d) PROVE DurableInv'
  BY <1>3, DurableFrame DEF Durable!ChangeArtifact
<1>4. ASSUME NEW e, Durable!Render(e) PROVE DurableInv'
  BY <1>4, DurableFrame DEF Durable!Render
<1> QED BY <1>1, <1>2, <1>3, <1>4, DurableTransition, DurableArchive, DurableResolve DEF Durable!Next

\* In every state an item is in the state or in the archive, and evidence is what its
\* pointer names, for any items, contents, bounds and clock.
THEOREM DurableInvariant == Spec => [](scenario = "durable" => DurableInv)
<1>1. Init => (scenario = "durable" => DurableInv)
  BY DurableStart, Starts
<1>2. (scenario = "durable" => DurableInv) /\ [Next]_Vars => (scenario = "durable" => DurableInv)'
  <2>1. ASSUME DurableInv, UNCHANGED Vars PROVE DurableInv'
    BY <2>1, DurableFrame DEF Vars
  <2> QED BY <2>1, DurableNext, Steps DEF Vars
<1> QED BY <1>1, <1>2, PTL DEF Spec

\* A pointer never resolves to two contents, whatever happens to transcript and artifact, and
\* an item leaves the state only as done, once, into the archive (resolve_durable_sources,
\* archive_done_pending_items).
THEOREM EvidenceStaysKept == Spec => []EvidenceKept
<1>1. DurableInv => Durable!EvidenceImmutable
  BY DEF DurableInv, EvidenceInv, Durable!EvidenceImmutable
<1>2. ASSUME DurableInv PROVE Durable!ItemsAccounted
  <2> SUFFICES ASSUME NEW i \in Item
               PROVE  LET records == {r \in x5 : r.item = i} IN
                      /\ Cardinality(records) = (IF x4[i] = None THEN 1 ELSE 0)
                      /\ \A r \in records : r.was.status = "done"
    BY DEF Durable!ItemsAccounted, Durable!Cardinality, Cardinality
  <2> DEFINE records == {r \in x5 : r.item = i}
  <2>1. CASE x4[i] = None
    <3>1. PICK r \in x5 : r.item = i
      BY <1>2, <2>1 DEF DurableInv, ArchiveInv
    <3>2. records = {r}
      BY <1>2, <3>1 DEF DurableInv, ArchiveInv
    <3> QED BY <1>2, <2>1, <3>2, FS_Singleton DEF DurableInv, ArchiveInv
  <2>2. CASE x4[i] # None
    <3>1. records = {}
      BY <1>2, <2>2 DEF DurableInv, ArchiveInv
    <3> QED BY <2>2, <3>1, FS_EmptySet
  <2> QED BY <2>1, <2>2
<1>3. (scenario = "durable" => DurableInv) => EvidenceKept
  BY <1>1, <1>2 DEF EvidenceKept
<1> QED BY <1>3, DurableInvariant, PTL

\* What is done is done for good, and a confirmation is newer than the one before.
LEMMA KeepsDone == ASSUME DurableInv, Durable!Next PROVE Durable!KeepsHistory
<1> USE DEF DurableInv
<1>1. ASSUME NEW i \in Item, NEW status, NEW p, Durable!Transition(i, status, p)
      PROVE  Durable!KeepsHistory
  <2>1. /\ x4' = [x4 EXCEPT ![i] = [status |-> status, pointer |-> p, at |-> x6]]
        /\ x4[i].status # "done" /\ x6 > x4[i].at
    BY <1>1 DEF Durable!Transition, Durable!MayBecome
  <2> QED BY <2>1 DEF Durable!KeepsHistory, DurableTypes
<1>2. ASSUME Durable!ArchiveDone PROVE Durable!KeepsHistory
  BY <1>2 DEF Durable!ArchiveDone, Durable!KeepsHistory
<1>3. ASSUME x4' = x4 PROVE Durable!KeepsHistory
  BY <1>3 DEF Durable!KeepsHistory
<1> QED BY <1>1, <1>2, <1>3 DEF Durable!Next, Durable!Tick, Durable!AppendLine, Durable!ResolveSources,
           Durable!ChangeArtifact, Durable!Render

\* A prompt has the unfinished items of the state and evidence for its pointers only.
LEMMA ShowsState ==
    ASSUME DurableInv, Durable!Next PROVE Durable!ShowsUnfinished /\ Durable!ClaimsOwnEvidence
<1> USE DEF DurableInv
<1>1. ASSUME NEW e \in BOOLEAN, Durable!Render(e) PROVE Durable!ShowsUnfinished /\ Durable!ClaimsOwnEvidence
  <2>1. PICK shown \in Durable!Shown :
           x8' = [shown |-> shown,
                  claims |-> IF e THEN {x7[p].evidence : p \in DOMAIN x7} \ {None} ELSE {}]
    BY <1>1 DEF Durable!Render
  <2>2. \A i \in Durable!InState : x4[i].status # "done" => i \in shown
    BY DEF Durable!Shown, Durable!Done
  <2>3. e => x7 # None /\ DOMAIN x7 = Durable!Pointers
    BY <1>1 DEF Durable!Render, Durable!Fits
  <2>4. x8'.claims \subseteq Durable!Pointers
    BY <2>1, <2>3 DEF EvidenceInv
  <2> QED BY <2>1, <2>2, <2>4 DEF Durable!ShowsUnfinished, Durable!ClaimsOwnEvidence
<1>2. ASSUME x8' = None PROVE Durable!ShowsUnfinished /\ Durable!ClaimsOwnEvidence
  BY <1>2 DEF Durable!ShowsUnfinished, Durable!ClaimsOwnEvidence
<1> QED BY <1>1, <1>2 DEF Durable!Next, Durable!Tick, Durable!AppendLine, Durable!ResolveSources,
           Durable!ChangeArtifact, Durable!ArchiveDone, Durable!Transition

\* No prompt lacks unfinished work, however much is done, and none claims evidence for pointers
\* the state does not have at that time (render_durable_context).
THEOREM PromptsShowTheState ==
    Spec => [][scenario = "durable" => Durable!ShowsUnfinished /\ Durable!ClaimsOwnEvidence]_Vars
<1>1. (scenario = "durable" => DurableInv) /\ [Next]_Vars =>
          [scenario = "durable" => Durable!ShowsUnfinished /\ Durable!ClaimsOwnEvidence]_Vars
  BY ShowsState, Steps
<1> QED BY <1>1, DurableInvariant, PTL DEF Spec

-----------------------------------------------------------------------------
(* Automations: x1 is automations, x2 scheduler, x3 runs, x4 now and       *)
(* x5 crashes                                                              *)

Automatic == [type : {"once", "recurring"}, at : Nat \cup {None},
              status : {"ACTIVE", "PAUSED", "deleted"},
              last : Nat \cup {None}, next : Nat \cup {None}]
RunStatus == {"running", "success", "failed"}
Turn == [pc : {"ready", "start", "call", "update"}, rows : Seq(Automation), run : Nat,
         status : {"success", "failed", None}]

SchedulerTypes ==
    /\ x1 \in [Automation -> Automatic \cup {None}]
    /\ x2 \in [Scheduler -> Turn]
    /\ \A p \in Scheduler : x2[p].pc = "ready" <=> x2[p].rows = <<>>
    /\ x3 \in [Automation -> Seq(RunStatus)]
    /\ \A a \in Automation : Len(x3[a]) \in 0 .. MaxRuns
    /\ x4 \in Nat /\ x5 \in Nat

Once(a) == x1[a] # None /\ x1[a].type = "once"

\* A one-time automation that ran has no next run; one that goes on has, and
\* after a run there is an interval before it.
Planned(a) ==
    /\ a.type = "once" => a.at # None
    /\ a.type = "once" /\ a.last # None => a.next = None
    /\ a.last # None => a.last <= x4
    /\ a.status = "ACTIVE" /\ (a.type = "recurring" \/ a.last = None) => a.next # None
    /\ a.type = "recurring" /\ a.last # None /\ a.next # None => a.next >= a.last + Interval
PlanInv == \A a \in Automation : x1[a] # None => Planned(x1[a])

\* What a process selected exists, and comes once.
RowsInv ==
    \A p \in Scheduler : \A i \in DOMAIN x2[p].rows :
        /\ x1[x2[p].rows[i]] # None
        /\ \A j \in DOMAIN x2[p].rows : i # j => x2[p].rows[i] # x2[p].rows[j]

\* A process executes the automation, or has selected it and will.
InRun(p, a) == x2[p].pc \in {"call", "update"} /\ x2[p].rows[1] = a
Waits(p, a) == \E i \in DOMAIN x2[p].rows : x2[p].rows[i] = a /\ ~ (i = 1 /\ x2[p].pc \in {"call", "update"})

\* The processes that may have spent a run of a one-time automation: until one has finished,
\* those that execute it; then all that are not about to.
Spent(a) == {p \in Scheduler : IF x1[a].last = None THEN InRun(p, a) ELSE ~ Waits(p, a)}
CountInv ==
    \A a \in Automation :
        /\ x1[a] = None => Len(x3[a]) = 0
        /\ Once(a) => Len(x3[a]) <= x5 + Cardinality(Spent(a))

\* A run that is written down as running is that of one process in the call, or was cut off
\* by a death.
Open(history) == {k \in Automation \X (1 .. MaxRuns) :
                     k[2] \in DOMAIN history[k[1]] /\ history[k[1]][k[2]] = "running"}
Calling == {p \in Scheduler : x2[p].pc = "call"}
OwnRun(p) == <<x2[p].rows[1], x2[p].run>>
HistoryInv ==
    /\ \A p \in Calling : OwnRun(p) \in Open(x3)
    /\ \A p, q \in Calling : p # q => OwnRun(p) # OwnRun(q)
    /\ Cardinality(Open(x3)) <= x5 + Cardinality(Calling)

SchedulerInv == SchedulerTypes /\ PlanInv /\ RowsInv /\ CountInv /\ HistoryInv

\* There are finitely many runs to be written down.
LEMMA OpenFinite ==
    ASSUME NEW history
    PROVE  IsFiniteSet(Open(history)) /\ Cardinality(Open(history)) \in Nat
<1>1. IsFiniteSet(Automation) /\ IsFiniteSet(1 .. MaxRuns)
  BY BoundsAssumption, FS_Interval
<1>2. IsFiniteSet(Automation \X (1 .. MaxRuns))
  BY <1>1, FS_Product
<1> QED BY <1>2, FS_Subset, FS_CardinalityType DEF Open

\* There are finitely many processes, and more of them are no fewer.
LEMMA SchedulersCount ==
    ASSUME NEW S \in SUBSET Scheduler, NEW T \in SUBSET Scheduler
    PROVE  /\ IsFiniteSet(S) /\ Cardinality(S) \in Nat /\ Cardinality(T) \in Nat
           /\ S \subseteq T => Cardinality(S) <= Cardinality(T)
           /\ \A p \in Scheduler : p \notin S /\ T = S \cup {p} => Cardinality(T) = Cardinality(S) + 1
           /\ \A p : S \ {p} \subseteq T => Cardinality(S) <= Cardinality(T) + 1
<1>1. IsFiniteSet(Scheduler) /\ IsFiniteSet(S) /\ IsFiniteSet(T)
  BY BoundsAssumption, FS_Subset
<1>2. Cardinality(S) \in Nat /\ Cardinality(T) \in Nat
  BY <1>1, FS_CardinalityType
<1>3. S \subseteq T => Cardinality(S) <= Cardinality(T)
  BY <1>1, FS_Subset
<1>4. ASSUME NEW p, p \notin S, T = S \cup {p} PROVE Cardinality(T) = Cardinality(S) + 1
  BY <1>1, <1>4, FS_AddElement
<1>5. ASSUME NEW p, S \ {p} \subseteq T PROVE Cardinality(S) <= Cardinality(T) + 1
  <2>1. Cardinality(S \ {p}) <= Cardinality(T) /\ Cardinality(S \ {p}) \in Nat
    BY <1>1, <1>5, FS_Subset, FS_CardinalityType
  <2>2. CASE p \in S
    <3>1. Cardinality(S \ {p}) = Cardinality(S) - 1
      BY <1>1, <2>2, FS_RemoveElement
    <3> QED BY <1>2, <2>1, <3>1
  <2>3. CASE p \notin S
    <3>1. S \ {p} = S
      BY <2>3
    <3> QED BY <1>2, <2>1, <3>1
  <2> QED BY <2>2, <2>3
<1> QED BY <1>1, <1>2, <1>3, <1>4, <1>5

\* The row that a process executes.
LEMMA FirstRow ==
    ASSUME SchedulerTypes, NEW p \in Scheduler, x2[p].pc # "ready"
    PROVE  /\ Automations!Row(p) = x2[p].rows[1] /\ x2[p].rows[1] \in Automation
           /\ x2[p].rows \in Seq(Automation) /\ Len(x2[p].rows) \in Nat \ {0} /\ 1 \in DOMAIN x2[p].rows
<1>1. x2[p] \in Turn /\ x2[p].rows \in Seq(Automation) /\ x2[p].rows # <<>>
  BY DEF SchedulerTypes, Turn
<1>2. Automations!Row(p) = Head(x2[p].rows)
  BY DEF Automations!Row
<1> DEFINE rows == x2[p].rows
<1> HIDE DEF rows
<1>3. rows \in Seq(Automation) /\ rows # <<>> /\ Automations!Row(p) = Head(rows)
  BY <1>1, <1>2 DEF rows
<1>4. /\ Automations!Row(p) = rows[1] /\ rows[1] \in Automation
      /\ rows \in Seq(Automation) /\ Len(rows) \in Nat \ {0} /\ 1 \in DOMAIN rows
  BY <1>3
<1> QED BY <1>4 DEF rows

\* One process goes on, the others stay where they are.
LEMMA OneTurn ==
    ASSUME SchedulerTypes, NEW p \in Scheduler, NEW turn \in Turn,
           turn.pc = "ready" <=> turn.rows = <<>>, x2' = [x2 EXCEPT ![p] = turn]
    PROVE  /\ x2' \in [Scheduler -> Turn] /\ x2'[p] = turn
           /\ \A q \in Scheduler : q # p => x2'[q] = x2[q]
           /\ \A q \in Scheduler : x2'[q].pc = "ready" <=> x2'[q].rows = <<>>
  BY DEF SchedulerTypes

\* Nothing is planned and nothing ran.
LEMMA SchedulerStart == Automations!Init => SchedulerInv
<1> SUFFICES ASSUME Automations!Init PROVE SchedulerInv
  OBVIOUS
<1> USE DEF Automations!Init, Automations!Sleeping
<1>1. SchedulerTypes
  BY BoundsAssumption DEF SchedulerTypes, Turn
<1>2. PlanInv /\ RowsInv /\ CountInv
  BY DEF PlanInv, RowsInv, CountInv, Once
<1>3. Open(x3) = {} /\ Calling = {}
  BY DEF Open, Calling
<1>4. HistoryInv
  BY <1>3, FS_EmptySet DEF HistoryInv
<1> QED BY <1>1, <1>2, <1>4 DEF SchedulerInv

\* The steps that touch neither plans nor runs.
LEMMA SchedulerFrame == SchedulerInv /\ UNCHANGED <<x1, x2, x3, x4, x5>> => SchedulerInv'
<1> SUFFICES ASSUME SchedulerInv, UNCHANGED <<x1, x2, x3, x4, x5>> PROVE SchedulerInv'
  OBVIOUS
<1>1. SchedulerTypes' /\ PlanInv' /\ RowsInv'
  BY DEF SchedulerInv, SchedulerTypes, PlanInv, Planned, RowsInv
<1>2. \A a : Spent(a)' = Spent(a) /\ (Once(a))' = Once(a)
  BY DEF Spent, InRun, Waits, Once
<1>3. CountInv'
  BY <1>2 DEF SchedulerInv, CountInv
<1>4. Calling' = Calling /\ Open(x3)' = Open(x3) /\ \A p : OwnRun(p)' = OwnRun(p)
  BY DEF Calling, Open, OwnRun
<1>5. HistoryInv'
  BY <1>4 DEF SchedulerInv, HistoryInv
<1> QED BY <1>1, <1>3, <1>5 DEF SchedulerInv

\* Rows that nobody takes or works off stay distinct.
LEMMA RowsStay ==
    ASSUME RowsInv, x1' = x1, \A q \in Scheduler : x2'[q].rows = x2[q].rows
    PROVE  RowsInv'
<1> SUFFICES ASSUME NEW q \in Scheduler
             PROVE  \A i \in DOMAIN x2'[q].rows :
                      /\ x1'[x2'[q].rows[i]] # None
                      /\ \A j \in DOMAIN x2'[q].rows : i # j => x2'[q].rows[i] # x2'[q].rows[j]
  BY DEF RowsInv
<1>1. x2'[q].rows = x2[q].rows
  OBVIOUS
<1>2. \A i \in DOMAIN x2[q].rows :
        /\ x1[x2[q].rows[i]] # None
        /\ \A j \in DOMAIN x2[q].rows : i # j => x2[q].rows[i] # x2[q].rows[j]
  BY DEF RowsInv
<1> QED BY <1>1, <1>2

\* The bound on the runs holds on if no process that may have spent one is forgotten.
LEMMA CountStays ==
    ASSUME SchedulerInv, x3' = x3 \/ (\A a \in Automation : Len(x3'[a]) = Len(x3[a])), x5' = x5,
           \A a \in Automation : x1[a] # None => x1'[a] # None /\ x1'[a].type = x1[a].type,
           \A a \in Automation : x1'[a] # None => x1[a] # None \/ Len(x3[a]) = 0,
           \A a \in Automation : Once(a) => Spent(a) \subseteq Spent(a)'
    PROVE  CountInv'
<1>1. \A a \in Automation : Len(x3'[a]) = Len(x3[a]) /\ Len(x3[a]) \in Nat
  BY DEF SchedulerInv, SchedulerTypes
<1>2. \A a : Spent(a) \subseteq Scheduler /\ (Spent(a))' \subseteq Scheduler
  BY DEF Spent
<1>3. ASSUME NEW a \in Automation, (Once(a))' PROVE Len(x3'[a]) <= x5' + (Cardinality(Spent(a)))'
  <2>1. (Cardinality(Spent(a)))' = Cardinality((Spent(a))') /\ (Cardinality(Spent(a)))' \in Nat
    BY <1>2, SchedulersCount
  <2>2. CASE x1[a] = None
    BY <1>1, <1>3, <2>1, <2>2 DEF SchedulerInv, SchedulerTypes, Once
  <2>3. CASE x1[a] # None
    <3>1. Once(a)
      BY <1>3, <2>3 DEF Once
    <3>2. Len(x3[a]) <= x5 + Cardinality(Spent(a))
      BY <3>1 DEF SchedulerInv, CountInv
    <3>3. Cardinality(Spent(a)) <= (Cardinality(Spent(a)))' /\ Cardinality(Spent(a)) \in Nat
      BY <1>2, <2>1, <3>1, SchedulersCount
    <3> QED BY <1>1, <2>1, <3>2, <3>3 DEF SchedulerInv, SchedulerTypes
  <2> QED BY <2>2, <2>3
<1>4. \A a \in Automation : x1'[a] = None => Len(x3'[a]) = 0
  BY <1>1 DEF SchedulerInv, CountInv
<1> QED BY <1>3, <1>4 DEF CountInv

\* A plan that changes between two runs leaves the runs as they are.
LEMMA PlanChanges ==
    ASSUME SchedulerInv, NEW a \in Automation, NEW auto \in Automatic, Planned(auto),
           x1' = [x1 EXCEPT ![a] = auto], UNCHANGED <<x2, x3, x4, x5>>,
           x1[a] = None \/ (x1[a].type = auto.type /\ x1[a].last = auto.last)
    PROVE  SchedulerInv'
<1> USE DEF SchedulerInv
<1>1. None \notin Automatic
  BY NoneAssumption DEF Automatic
<1>2. x1' \in [Automation -> Automatic \cup {None}] /\ x1'[a] = auto /\ auto # None
      /\ \A b \in Automation : b # a => x1'[b] = x1[b]
  BY <1>1 DEF SchedulerTypes
<1>3. SchedulerTypes'
  BY <1>2 DEF SchedulerTypes
<1>4. PlanInv'
  <2>1. ASSUME NEW b \in Automation, x1'[b] # None PROVE Planned(x1'[b])
    BY <1>2, <2>1 DEF PlanInv
  <2>2. ASSUME NEW b, Planned(b) PROVE Planned(b)'
    BY <2>2 DEF Planned
  <2> QED BY <2>1 DEF PlanInv, Planned
<1>5. RowsInv'
  <2>1. \A p \in Scheduler : \A i \in DOMAIN x2[p].rows : x2[p].rows[i] \in Automation
    BY DEF SchedulerTypes, Turn
  <2> QED BY <1>2, <2>1 DEF RowsInv
<1>6. CountInv'
  <2>1. \A b \in Automation : x1[b] # None => x1'[b] # None /\ x1'[b].type = x1[b].type /\ x1'[b].last = x1[b].last
    BY <1>2
  <2>2. \A b \in Automation : x1'[b] # None => x1[b] # None \/ Len(x3[b]) = 0
    BY DEF CountInv
  <2>3. \A b \in Automation : Once(b) => Spent(b) \subseteq Spent(b)'
    BY <2>1 DEF Spent, InRun, Waits, Once
  <2> QED BY <2>1, <2>2, <2>3, CountStays
<1>7. HistoryInv'
  BY DEF HistoryInv, Open, Calling, OwnRun
<1> QED BY <1>3, <1>4, <1>5, <1>6, <1>7

\* What is created, paused, resumed or deleted goes on as the module says
\* (create, update_status, soft_delete).
LEMMA SchedulerPlans ==
    ASSUME SchedulerInv, NEW a \in Automation,
           \/ \E type \in {"once", "recurring"}, at \in {None, Interval} : Automations!Create(a, type, at)
           \/ \E status \in {"ACTIVE", "PAUSED"} : Automations!UpdateStatus(a, status)
           \/ Automations!SoftDelete(a)
    PROVE  SchedulerInv'
<1> USE DEF SchedulerInv, Automations!CalculateNextRun
<1>1. None \notin Nat /\ Interval \in Nat /\ x4 \in Nat
  BY NoneAssumption, BoundsAssumption DEF SchedulerTypes
<1>2. ASSUME NEW type \in {"once", "recurring"}, NEW at \in {None, Interval},
             Automations!Create(a, type, at)
      PROVE  SchedulerInv'
  <2> DEFINE auto == [type |-> type, at |-> at, status |-> "ACTIVE", last |-> None,
                      next |-> IF type = "once" THEN at ELSE x4 + Interval]
  <2>1. /\ x1[a] = None /\ (type = "recurring" <=> at = None)
        /\ x1' = [x1 EXCEPT ![a] = auto] /\ UNCHANGED <<x2, x3, x4, x5>>
    BY <1>2 DEF Automations!Create
  <2>2. auto \in Automatic /\ Planned(auto)
    BY <1>1, <2>1 DEF Automatic, Planned
  <2> HIDE DEF auto
  <2> QED BY <2>1, <2>2, PlanChanges
<1>3. ASSUME x1[a] # None PROVE x1[a] \in Automatic /\ Planned(x1[a])
  BY <1>3 DEF SchedulerTypes, PlanInv
<1>4. ASSUME Automations!UpdateStatus(a, "ACTIVE") PROVE SchedulerInv'
  <2> DEFINE auto == Automations!Activated(x1[a])
  <2>1. x1[a] # None /\ x1' = [x1 EXCEPT ![a] = auto] /\ UNCHANGED <<x2, x3, x4, x5>>
    BY <1>4 DEF Automations!UpdateStatus
  <2>2. /\ auto \in Automatic /\ auto.type = x1[a].type /\ auto.last = x1[a].last /\ auto.at = x1[a].at
        /\ auto.next = (IF x1[a].type = "recurring" THEN x4 + Interval
                        ELSE IF x1[a].last = None THEN x1[a].at ELSE x1[a].next)
    <3>1. CASE x1[a].type = "recurring"
      <4> DEFINE next == x4 + Interval
      <4>1. next \in Nat /\ auto = [[x1[a] EXCEPT !.status = "ACTIVE"] EXCEPT !.next = next]
        BY <1>1, <3>1 DEF Automations!Activated
      <4> HIDE DEF next, auto
      <4>2. auto \in Automatic /\ auto.type = x1[a].type /\ auto.last = x1[a].last
            /\ auto.at = x1[a].at /\ auto.next = next
        BY <1>3, <2>1, <4>1 DEF Automatic
      <4> QED BY <3>1, <4>2 DEF next
    <3>2. CASE x1[a].type = "once" /\ x1[a].last = None
      BY <1>1, <1>3, <2>1, <3>2 DEF Automatic, Automations!Activated
    <3>3. CASE x1[a].type = "once" /\ x1[a].last # None
      BY <1>1, <1>3, <2>1, <3>3 DEF Automatic, Automations!Activated
    <3> QED BY <1>3, <2>1, <3>1, <3>2, <3>3 DEF Automatic
  <2> HIDE DEF auto
  <2>3. Planned(auto)
    BY <1>1, <1>3, <2>1, <2>2 DEF Automatic, Planned
  <2> QED BY <2>1, <2>2, <2>3, PlanChanges
<1>5. ASSUME Automations!UpdateStatus(a, "PAUSED") PROVE SchedulerInv'
  <2> DEFINE auto == [x1[a] EXCEPT !.status = "PAUSED", !.next = None]
  <2>1. x1[a] # None /\ x1' = [x1 EXCEPT ![a] = auto] /\ UNCHANGED <<x2, x3, x4, x5>>
    BY <1>5 DEF Automations!UpdateStatus
  <2>2. /\ auto \in Automatic /\ auto.type = x1[a].type /\ auto.last = x1[a].last
        /\ Planned(auto)
    BY <1>1, <1>3, <2>1 DEF Automatic, Planned
  <2> HIDE DEF auto
  <2> QED BY <2>1, <2>2, PlanChanges
<1>6. ASSUME Automations!SoftDelete(a) PROVE SchedulerInv'
  <2> DEFINE auto == [x1[a] EXCEPT !.status = "deleted"]
  <2>1. x1[a] # None /\ x1' = [x1 EXCEPT ![a] = auto] /\ UNCHANGED <<x2, x3, x4, x5>>
    BY <1>6 DEF Automations!SoftDelete
  <2>2. /\ auto \in Automatic /\ auto.type = x1[a].type /\ auto.last = x1[a].last
        /\ Planned(auto)
    BY <1>1, <1>3, <2>1 DEF Automatic, Planned
  <2> HIDE DEF auto
  <2> QED BY <2>1, <2>2, PlanChanges
<1> QED BY <1>2, <1>4, <1>5, <1>6

\* The rows that are due are none of a one-time automation that ran (check_and_run).
LEMMA SchedulerSelects ==
    ASSUME SchedulerInv, NEW p \in Scheduler, Automations!CheckAndRun(p)
    PROVE  SchedulerInv'
<1> USE DEF SchedulerInv
<1> DEFINE D == {a \in Automation : Automations!Due(a)}
<1>1. PICK rows \in Automations!Rows(D) :
        /\ x2[p].pc = "ready" /\ rows # <<>>
        /\ x2' = [x2 EXCEPT ![p] = [pc |-> "start", rows |-> rows, run |-> 0, status |-> None]]
        /\ UNCHANGED <<x1, x3, x4, x5>>
  BY DEF Automations!CheckAndRun, Automations!Sleeping
<1>2. IsFiniteSet(D) /\ Cardinality(D) \in Nat
  BY BoundsAssumption, FS_Subset, FS_CardinalityType
<1>3. /\ rows \in [1 .. Cardinality(D) -> D]
      /\ \A i, j \in 1 .. Cardinality(D) : i # j => rows[i] # rows[j]
  BY DEF Automations!Rows, Automations!Cardinality, Cardinality
<1>4. \A a \in D : a \in Automation /\ x1[a] # None /\ x1[a].next # None
  BY DEF Automations!Due
<1>5. \A a \in D : Once(a) => x1[a].last = None
  BY <1>4 DEF PlanInv, Planned, Once
<1> HIDE DEF D
<1>6. rows \in Seq(Automation) /\ DOMAIN rows = 1 .. Cardinality(D)
  BY <1>2, <1>3, <1>4
<1> DEFINE turn == [pc |-> "start", rows |-> rows, run |-> 0, status |-> None]
<1>7. /\ x2' \in [Scheduler -> Turn] /\ x2'[p] = turn
      /\ \A q \in Scheduler : q # p => x2'[q] = x2[q]
      /\ \A q \in Scheduler : x2'[q].pc = "ready" <=> x2'[q].rows = <<>>
  <2>1. turn \in Turn /\ (turn.pc = "ready" <=> turn.rows = <<>>)
    BY <1>1, <1>6 DEF Turn
  <2> QED BY <1>1, <2>1, OneTurn
<1>8. /\ x2'[p].pc = "start" /\ x2'[p].rows = rows /\ x2[p].rows = <<>>
  BY <1>1, <1>7 DEF SchedulerTypes
<1> HIDE DEF turn
<1>9. SchedulerTypes' /\ PlanInv'
  BY <1>1, <1>7 DEF SchedulerTypes, PlanInv, Planned
<1>10. RowsInv'
  <2> SUFFICES ASSUME NEW q \in Scheduler, NEW i \in DOMAIN x2'[q].rows
               PROVE  /\ x1[x2'[q].rows[i]] # None
                      /\ \A j \in DOMAIN x2'[q].rows : i # j => x2'[q].rows[i] # x2'[q].rows[j]
    BY <1>1 DEF RowsInv
  <2>1. CASE q = p
    BY <1>3, <1>4, <1>6, <1>8, <2>1
  <2>2. CASE q # p
    BY <1>7, <2>2 DEF RowsInv
  <2> QED BY <2>1, <2>2
<1>11. CountInv'
  <2>1. ASSUME NEW a \in Automation, Once(a), NEW q \in Spent(a) PROVE q \in (Spent(a))'
    <3>1. CASE q # p
      BY <1>1, <1>7, <2>1, <3>1 DEF Spent, InRun, Waits
    <3>2. CASE q = p
      <4>1. x1[a].last # None
        BY <1>1, <2>1, <3>2 DEF Spent, InRun
      <4>2. a \notin D
        BY <1>5, <2>1, <4>1
      <4>3. ~ (\E i \in DOMAIN rows : rows[i] = a)
        BY <1>3, <1>6, <4>2
      <4> QED BY <1>1, <1>8, <2>1, <3>2, <4>1, <4>3 DEF Spent, Waits
    <3> QED BY <3>1, <3>2
  <2>2. \A a \in Automation : Once(a) => Spent(a) \subseteq (Spent(a))'
    BY <2>1
  <2> QED BY <1>1, <2>2, CountStays
<1>12. HistoryInv'
  <2>1. Calling' = Calling
    BY <1>1, <1>7, <1>8 DEF Calling
  <2>2. \A q \in Calling : q # p /\ OwnRun(q)' = OwnRun(q)
    BY <1>1, <1>7 DEF Calling, OwnRun
  <2> QED BY <1>1, <2>1, <2>2 DEF HistoryInv, Open
<1> QED BY <1>9, <1>10, <1>11, <1>12

\* A run is written down as running before the provider is called (start_run).
LEMMA SchedulerStartsRun ==
    ASSUME SchedulerInv, NEW p \in Scheduler, Automations!StartRun(p)
    PROVE  SchedulerInv'
<1> USE DEF SchedulerInv
<1> DEFINE r == x2[p].rows[1]
           n == Len(x3[r]) + 1
           turn == [x2[p] EXCEPT !.pc = "call", !.run = n]
<1>1. /\ r \in Automation /\ x2[p].pc = "start" /\ Len(x3[r]) < MaxRuns /\ 1 \in DOMAIN x2[p].rows
      /\ x3' = [x3 EXCEPT ![r] = Append(@, "running")]
      /\ x2' = [x2 EXCEPT ![p].pc = "call", ![p].run = n] /\ UNCHANGED <<x1, x4, x5>>
  BY FirstRow DEF Automations!StartRun
<1>2. x2' = [x2 EXCEPT ![p] = turn]
  BY <1>1 DEF SchedulerTypes, Turn
<1>3. /\ x3 \in [Automation -> Seq(RunStatus)] /\ x3[r] \in Seq(RunStatus) /\ "running" \in RunStatus
  BY <1>1 DEF SchedulerTypes, RunStatus
<1> HIDE DEF r
<1>4. n \in 1 .. MaxRuns /\ MaxRuns \in Nat /\ n \in Nat /\ n - 1 = Len(x3[r]) /\ Len(x3[r]) \in Nat
  BY <1>1, <1>3, BoundsAssumption
<1> HIDE DEF n
<1>5. turn \in Turn /\ turn.pc = "call" /\ turn.rows = x2[p].rows /\ turn.run = n
      /\ (turn.pc = "ready" <=> turn.rows = <<>>)
  BY <1>1, <1>4 DEF SchedulerTypes, Turn
<1>6. /\ x2' \in [Scheduler -> Turn] /\ x2'[p] = turn
      /\ \A q \in Scheduler : q # p => x2'[q] = x2[q]
      /\ \A q \in Scheduler : x2'[q].pc = "ready" <=> x2'[q].rows = <<>>
  BY <1>2, <1>5, OneTurn
<1> HIDE DEF turn
<1>7. x2'[p].pc = "call" /\ x2'[p].rows = x2[p].rows /\ x2'[p].run = n
  BY <1>5, <1>6
<1>8. \A q \in Scheduler : x2'[q].rows = x2[q].rows /\ (q # p => x2'[q].pc = x2[q].pc /\ x2'[q].run = x2[q].run)
  BY <1>6, <1>7
<1>9. /\ x3' \in [Automation -> Seq(RunStatus)] /\ x3'[r] = Append(x3[r], "running")
      /\ \A a \in Automation : a # r => x3'[a] = x3[a]
  BY <1>1, <1>3, AppendProperties
<1>10. Len(x3'[r]) = n /\ x3'[r][n] = "running" /\ \A i \in 1 .. Len(x3[r]) : x3'[r][i] = x3[r][i]
  BY <1>3, <1>9, AppendProperties DEF n
<1>11. SchedulerTypes'
  <2>1. ASSUME NEW a \in Automation PROVE Len(x3'[a]) \in 0 .. MaxRuns
    <3>1. CASE a = r
      BY <1>4, <1>10, <3>1
    <3>2. CASE a # r
      BY <1>9, <3>2 DEF SchedulerTypes
    <3> QED BY <3>1, <3>2
  <2> QED BY <1>1, <1>6, <1>9, <2>1 DEF SchedulerTypes
<1>12. PlanInv' /\ RowsInv'
  <2>1. PlanInv'
    BY <1>1 DEF PlanInv, Planned
  <2>2. \A q \in Scheduler : x2'[q].rows = x2[q].rows
    BY <1>8
  <2>3. RowsInv'
    BY <1>1, <2>2, RowsStay
  <2> QED BY <2>1, <2>3
<1>13. x1[r] # None
  BY <1>1 DEF RowsInv, r
<1>14. CountInv'
  <2>1. ASSUME NEW a \in Automation, a # r PROVE (Spent(a))' = Spent(a)
    <3>1. ASSUME NEW q \in Scheduler
          PROVE  (x1[a].last = None => (InRun(q, a)' <=> InRun(q, a))) /\ (Waits(q, a)' <=> Waits(q, a))
      <4>1. CASE q # p
        BY <1>8, <4>1 DEF InRun, Waits
      <4>2. CASE q = p
        BY <1>1, <1>7, <2>1, <4>2 DEF InRun, Waits, r
      <4> QED BY <4>1, <4>2
    <3> QED BY <1>1, <3>1 DEF Spent
  <2>2. ASSUME NEW a \in Automation, a = r
        PROVE  p \notin Spent(a) /\ (Spent(a))' = Spent(a) \cup {p}
    <3>1. ~ InRun(p, a) /\ InRun(p, a)' /\ Waits(p, a)
      BY <1>1, <1>7, <2>2 DEF InRun, Waits, r
    <3>2. ~ Waits(p, a)'
      <4>1. \A i \in DOMAIN x2[p].rows : i # 1 => x2[p].rows[i] # a
        BY <1>1, <2>2 DEF RowsInv, r
      <4> QED BY <1>7, <4>1 DEF Waits
    <3>3. \A q \in Scheduler : q # p => (InRun(q, a)' <=> InRun(q, a)) /\ (Waits(q, a)' <=> Waits(q, a))
      BY <1>8 DEF InRun, Waits
    <3> QED BY <1>1, <3>1, <3>2, <3>3 DEF Spent
  <2>3. ASSUME NEW a \in Automation
        PROVE  /\ x1[a] = None => Len(x3'[a]) = 0
               /\ Once(a) => Len(x3'[a]) <= x5 + Cardinality(Spent(a)')
    <3>1. CASE a # r
      BY <1>9, <2>1, <3>1 DEF CountInv
    <3>2. CASE a = r /\ Once(a)
      <4>1. Spent(a) \in SUBSET Scheduler /\ (Spent(a))' \in SUBSET Scheduler
        BY DEF Spent
      <4>2. Cardinality(Spent(a)') = Cardinality(Spent(a)) + 1 /\ Cardinality(Spent(a)) \in Nat
        BY <2>2, <3>2, <4>1, SchedulersCount
      <4>3. Len(x3[a]) <= x5 + Cardinality(Spent(a)) /\ x5 \in Nat
        BY <3>2 DEF CountInv, SchedulerTypes
      <4>4. Len(x3'[a]) = Len(x3[a]) + 1 /\ Len(x3[a]) \in Nat /\ x1[a] # None
        BY <1>4, <1>10, <1>13, <3>2
      <4> QED BY <4>2, <4>3, <4>4
    <3>3. CASE a = r /\ ~ Once(a)
      BY <1>13, <3>3
    <3> QED BY <3>1, <3>2, <3>3
  <2>4. \A a \in Automation : /\ (Once(a))' = Once(a) /\ x1' = x1 /\ x5' = x5
                              /\ (Cardinality(Spent(a)))' = Cardinality(Spent(a)')
    BY <1>1 DEF Once
  <2> QED BY <2>3, <2>4 DEF CountInv
<1>15. Open(x3') = Open(x3) \cup {<<r, n>>} /\ <<r, n>> \notin Open(x3)
  <2>1. DOMAIN x3'[r] = 1 .. n /\ DOMAIN x3[r] = 1 .. Len(x3[r])
    BY <1>3, <1>9, <1>10
  <2>2. ASSUME NEW k \in Automation \X (1 .. MaxRuns)
        PROVE  k \in Open(x3') <=> (k \in Open(x3) \/ k = <<r, n>>)
    <3>1. CASE k[1] = r
      BY <1>4, <1>10, <2>1, <3>1 DEF Open
    <3>2. CASE k[1] # r
      BY <1>9, <3>2 DEF Open
    <3> QED BY <3>1, <3>2
  <2>3. <<r, n>> \in Automation \X (1 .. MaxRuns) /\ <<r, n>> \notin Open(x3)
    BY <1>1, <1>4, <2>1 DEF Open
  <2> QED BY <2>2, <2>3 DEF Open
<1>16. HistoryInv'
  <2>1. Calling' = Calling \cup {p} /\ p \notin Calling
    BY <1>1, <1>7, <1>8 DEF Calling
  <2>2. OwnRun(p)' = <<r, n>>
    BY <1>7 DEF OwnRun, r
  <2>3. \A q \in Calling : q # p /\ OwnRun(q)' = OwnRun(q)
    BY <1>1, <1>8 DEF Calling, OwnRun
  <2>4. \A q \in Calling : OwnRun(q)' \in Open(x3) /\ OwnRun(q)' # OwnRun(p)'
    BY <1>15, <2>2, <2>3 DEF HistoryInv
  <2>5. \A q, s \in Calling' : q # s => OwnRun(q)' # OwnRun(s)'
    BY <2>1, <2>3, <2>4 DEF HistoryInv
  <2>6. \A q \in Calling' : OwnRun(q)' \in Open(x3')
    BY <1>15, <2>1, <2>2, <2>4
  <2>7. Cardinality(Open(x3')) <= x5 + Cardinality(Calling')
    <3>1. Cardinality(Open(x3')) = Cardinality(Open(x3)) + 1 /\ Cardinality(Open(x3)) \in Nat
      BY <1>15, OpenFinite, FS_AddElement
    <3>2. Cardinality(Open(x3)) <= x5 + Cardinality(Calling) /\ x5 \in Nat
      BY DEF HistoryInv, SchedulerTypes
    <3>3. Calling \in SUBSET Scheduler /\ Calling' \in SUBSET Scheduler
      BY DEF Calling
    <3>4. Cardinality(Calling') = Cardinality(Calling) + 1 /\ Cardinality(Calling) \in Nat
      BY <2>1, <3>3, SchedulersCount
    <3> QED BY <3>1, <3>2, <3>4
  <2>8. Open(x3)' = Open(x3') /\ (Cardinality(Calling))' = Cardinality(Calling') /\ x5' = x5
    BY <1>1 DEF Open
  <2> QED BY <2>5, <2>6, <2>7, <2>8 DEF HistoryInv
<1> QED BY <1>11, <1>12, <1>14, <1>16

\* What came of it is written into the history (finish_run).
LEMMA SchedulerFinishesRun ==
    ASSUME SchedulerInv, NEW p \in Scheduler, Automations!FinishRun(p)
    PROVE  SchedulerInv'
<1> USE DEF SchedulerInv
<1> DEFINE r == x2[p].rows[1]
           n == x2[p].run
<1>1. PICK status \in {"success", "failed"} :
        /\ x3' = [x3 EXCEPT ![r][n] = status]
        /\ x2' = [x2 EXCEPT ![p].pc = "update", ![p].status = status]
        /\ x2[p].pc = "call" /\ r \in Automation /\ UNCHANGED <<x1, x4, x5>>
  BY FirstRow DEF Automations!FinishRun
<1> DEFINE turn == [x2[p] EXCEPT !.pc = "update", !.status = status]
<1>2. /\ x2' = [x2 EXCEPT ![p] = turn] /\ turn \in Turn /\ turn.pc = "update" /\ turn.rows = x2[p].rows
      /\ (turn.pc = "ready" <=> turn.rows = <<>>)
  BY <1>1 DEF SchedulerTypes, Turn
<1>3. /\ x2' \in [Scheduler -> Turn] /\ x2'[p] = turn
      /\ \A q \in Scheduler : q # p => x2'[q] = x2[q]
      /\ \A q \in Scheduler : x2'[q].pc = "ready" <=> x2'[q].rows = <<>>
  BY <1>2, OneTurn
<1> HIDE DEF turn
<1>4. x2'[p].pc = "update" /\ x2'[p].rows = x2[p].rows
  BY <1>2, <1>3
<1>5. \A q \in Scheduler : x2'[q].rows = x2[q].rows /\ (q # p => x2'[q].pc = x2[q].pc /\ x2'[q].run = x2[q].run)
  BY <1>3, <1>4
<1>6. p \in Calling /\ <<r, n>> \in Open(x3) /\ OwnRun(p) = <<r, n>>
  BY <1>1 DEF HistoryInv, Calling, OwnRun
<1> HIDE DEF r, n
<1>7. /\ x3 \in [Automation -> Seq(RunStatus)] /\ x3[r] \in Seq(RunStatus)
      /\ n \in 1 .. MaxRuns /\ n \in DOMAIN x3[r] /\ status \in RunStatus /\ status # "running"
  BY <1>1, <1>6 DEF SchedulerTypes, RunStatus, Open
<1>8. /\ x3'[r] = [x3[r] EXCEPT ![n] = status] /\ \A a \in Automation : a # r => x3'[a] = x3[a]
      /\ x3'[r] \in Seq(RunStatus) /\ Len(x3'[r]) = Len(x3[r]) /\ DOMAIN x3'[r] = DOMAIN x3[r]
      /\ x3'[r][n] = status
      /\ \A i \in DOMAIN x3[r] : i # n => x3'[r][i] = x3[r][i]
  <2>1. x3'[r] = [x3[r] EXCEPT ![n] = status] /\ \A a \in Automation : a # r => x3'[a] = x3[a]
    BY <1>1, <1>7
  <2>2. n \in 1 .. Len(x3[r]) /\ DOMAIN x3[r] = 1 .. Len(x3[r])
    BY <1>7
  <2> QED BY <1>7, <2>1, <2>2, ExceptSeq
<1>9. \A a \in Automation : Len(x3'[a]) = Len(x3[a])
  BY <1>8
<1>10. SchedulerTypes'
  <2>1. x3' \in [Automation -> Seq(RunStatus)]
    BY <1>1, <1>7, <1>8
  <2> QED BY <1>1, <1>3, <1>9, <2>1 DEF SchedulerTypes
<1>11. PlanInv' /\ RowsInv'
  <2>1. PlanInv'
    BY <1>1 DEF PlanInv, Planned
  <2>2. \A q \in Scheduler : x2'[q].rows = x2[q].rows
    BY <1>5
  <2>3. RowsInv'
    BY <1>1, <2>2, RowsStay
  <2> QED BY <2>1, <2>3
<1>12. CountInv'
  <2>1. ASSUME NEW a \in Automation, NEW q \in Scheduler
        PROVE  (InRun(q, a)' <=> InRun(q, a)) /\ (Waits(q, a)' <=> Waits(q, a))
    <3>1. CASE q # p
      BY <1>5, <3>1 DEF InRun, Waits
    <3>2. CASE q = p
      BY <1>1, <1>4, <3>2 DEF InRun, Waits
    <3> QED BY <3>1, <3>2
  <2>2. \A a \in Automation : Once(a) => Spent(a) \subseteq (Spent(a))'
    BY <1>1, <2>1 DEF Spent
  <2> QED BY <1>1, <1>9, <2>2, CountStays
<1>13. Open(x3') = Open(x3) \ {<<r, n>>}
  <2>1. ASSUME NEW k \in Automation \X (1 .. MaxRuns)
        PROVE  k \in Open(x3') <=> (k \in Open(x3) /\ k # <<r, n>>)
    <3>1. CASE k[1] = r
      BY <1>1, <1>7, <1>8, <3>1 DEF Open
    <3>2. CASE k[1] # r
      BY <1>8, <3>2 DEF Open
    <3> QED BY <3>1, <3>2
  <2> QED BY <2>1 DEF Open
<1>14. HistoryInv'
  <2>1. Calling' = Calling \ {p}
    BY <1>4, <1>5 DEF Calling
  <2>2. \A q \in Calling' : q \in Calling /\ q # p /\ OwnRun(q)' = OwnRun(q)
    BY <1>5, <2>1 DEF Calling, OwnRun
  <2>3. \A q \in Calling' : OwnRun(q)' \in Open(x3')
    BY <1>6, <1>13, <2>2 DEF HistoryInv
  <2>4. \A q, s \in Calling' : q # s => OwnRun(q)' # OwnRun(s)'
    BY <2>2 DEF HistoryInv
  <2>5. Cardinality(Open(x3')) <= x5 + Cardinality(Calling')
    <3>1. Cardinality(Open(x3')) = Cardinality(Open(x3)) - 1 /\ Cardinality(Open(x3)) \in Nat
      BY <1>6, <1>13, OpenFinite, FS_RemoveElement
    <3>2. Cardinality(Open(x3)) <= x5 + Cardinality(Calling) /\ x5 \in Nat
      BY DEF HistoryInv, SchedulerTypes
    <3>3. Calling \in SUBSET Scheduler /\ Calling' \in SUBSET Scheduler
      BY DEF Calling
    <3>4. Cardinality(Calling) <= Cardinality(Calling') + 1
          /\ Cardinality(Calling) \in Nat /\ Cardinality(Calling') \in Nat
      BY <2>1, <3>3, SchedulersCount
    <3> QED BY <3>1, <3>2, <3>4
  <2>6. Open(x3)' = Open(x3') /\ (Cardinality(Calling))' = Cardinality(Calling') /\ x5' = x5
    BY <1>1 DEF Open
  <2> QED BY <2>3, <2>4, <2>5, <2>6 DEF HistoryInv
<1> QED BY <1>10, <1>11, <1>12, <1>14

\* The automation that ran is planned again, or never (_update_state_after_run).
LEMMA SchedulerUpdates ==
    ASSUME SchedulerInv, NEW p \in Scheduler, Automations!UpdateStateAfterRun(p)
    PROVE  SchedulerInv'
<1> USE DEF SchedulerInv
<1> DEFINE r == x2[p].rows[1]
           auto == Automations!AfterRun(x1[r])
           turn == IF Len(x2[p].rows) = 1 THEN Automations!Sleeping
                   ELSE [pc |-> "start", rows |-> Tail(x2[p].rows), run |-> 0, status |-> None]
<1>1. /\ x2[p].pc = "update" /\ x1' = [x1 EXCEPT ![r] = auto] /\ UNCHANGED <<x3, x4, x5>>
      /\ x2' = [x2 EXCEPT ![p] = turn] /\ 1 \in DOMAIN x2[p].rows
  <2>1. x2[p].pc = "update" /\ Automations!Row(p) = r /\ 1 \in DOMAIN x2[p].rows
    BY FirstRow DEF Automations!UpdateStateAfterRun
  <2>2. x1' = [x1 EXCEPT ![r] = auto] /\ UNCHANGED <<x3, x4, x5>>
    BY <2>1 DEF Automations!UpdateStateAfterRun
  <2>3. x2' = [x2 EXCEPT ![p] = turn]
    BY Zenon DEF Automations!UpdateStateAfterRun
  <2> QED BY <2>1, <2>2, <2>3
<1>2. r \in Automation /\ x1[r] # None
  BY <1>1, FirstRow DEF RowsInv
<1>3. x1[r] \in Automatic /\ Planned(x1[r]) /\ None \notin Nat /\ x4 \in Nat /\ Interval \in Nat
  BY <1>2, NoneAssumption, BoundsAssumption DEF SchedulerTypes, PlanInv
<1>4. auto \in Automatic /\ auto.type = x1[r].type /\ auto.last = x4 /\ Planned(auto)
  <2>1. CASE x1[r].type = "once"
    <3>1. auto = [x1[r] EXCEPT !.status = "PAUSED", !.last = x4, !.next = None]
      BY <2>1 DEF Automations!AfterRun
    <3> HIDE DEF auto
    <3>2. auto \in Automatic /\ auto.type = x1[r].type /\ auto.last = x4
          /\ auto.at = x1[r].at /\ auto.next = None /\ auto.status = "PAUSED"
      BY <1>3, <3>1 DEF Automatic
    <3> QED BY <1>3, <2>1, <3>2 DEF Planned
  <2>2. CASE x1[r].type = "recurring"
    <3> DEFINE next == x4 + Interval
    <3>1. next \in Nat /\ auto = [x1[r] EXCEPT !.last = x4, !.next = next]
      BY <1>3, <2>2 DEF Automations!AfterRun, Automations!CalculateNextRun
    <3> HIDE DEF next, auto
    <3>2. auto \in Automatic /\ auto.type = x1[r].type /\ auto.last = x4
          /\ auto.at = x1[r].at /\ auto.next = next
      BY <1>3, <3>1 DEF Automatic
    <3> QED BY <1>3, <2>2, <3>1, <3>2 DEF Planned, next
  <2> QED BY <1>3, <2>1, <2>2 DEF Automatic
<1> HIDE DEF auto
<1>5. None \notin Automatic
  BY NoneAssumption DEF Automatic
<1>6. /\ x1' \in [Automation -> Automatic \cup {None}] /\ x1'[r] = auto /\ auto # None
      /\ \A a \in Automation : a # r => x1'[a] = x1[a]
  BY <1>1, <1>2, <1>4, <1>5 DEF SchedulerTypes
<1> DEFINE rows == x2[p].rows
<1> HIDE DEF rows
<1>7. /\ turn \in Turn /\ turn.pc \in {"ready", "start"} /\ (turn.pc = "ready" <=> turn.rows = <<>>)
      /\ \A i \in DOMAIN turn.rows : i + 1 # 1 /\ i + 1 \in DOMAIN rows /\ turn.rows[i] = rows[i + 1]
      /\ \A i \in DOMAIN rows : i # 1 => \E j \in DOMAIN turn.rows : i = j + 1
  <2>1. rows \in Seq(Automation) /\ rows # <<>> /\ Len(rows) \in Nat \ {0}
    BY <1>1, FirstRow DEF SchedulerTypes, Turn, rows
  <2>2. CASE Len(rows) = 1
    <3>1. turn = [pc |-> "ready", rows |-> <<>>, run |-> 0, status |-> None]
      BY <2>2 DEF Automations!Sleeping, rows
    <3> HIDE DEF turn
    <3>2. DOMAIN rows = {1}
      BY <2>1, <2>2
    <3> QED BY <3>1, <3>2 DEF Turn
  <2>3. CASE Len(rows) # 1
    <3> DEFINE t == Tail(rows)
    <3>1. turn = [pc |-> "start", rows |-> t, run |-> 0, status |-> None]
      BY <2>3 DEF rows
    <3>2. t \in Seq(Automation) /\ Len(t) = Len(rows) - 1
          /\ \A i \in 1 .. Len(t) : t[i] = rows[i + 1]
      BY <2>1, HeadTailProperties
    <3> HIDE DEF t, turn
    <3>3. /\ DOMAIN t = 1 .. Len(t) /\ DOMAIN rows = 1 .. Len(rows)
          /\ Len(t) = Len(rows) - 1 /\ Len(t) \in Nat \ {0} /\ t # <<>>
      BY <2>1, <2>3, <3>2, EmptySeq
    <3>4. /\ \A i \in DOMAIN t : i + 1 # 1 /\ i + 1 \in DOMAIN rows /\ t[i] = rows[i + 1]
          /\ \A i \in DOMAIN rows : i # 1 => \E j \in DOMAIN t : i = j + 1
      <4>1. ASSUME NEW i \in DOMAIN t PROVE i + 1 # 1 /\ i + 1 \in DOMAIN rows /\ t[i] = rows[i + 1]
        <5>1. i \in 1 .. Len(t) /\ i + 1 \in 1 .. Len(rows) /\ i + 1 # 1
          BY <3>3
        <5> QED BY <3>2, <3>3, <5>1
      <4>2. ASSUME NEW i \in DOMAIN rows, i # 1 PROVE i - 1 \in DOMAIN t /\ i = (i - 1) + 1
        BY <3>3, <4>2
      <4> QED BY <4>1, <4>2
    <3>5. turn.rows = t /\ turn.pc = "start" /\ turn \in Turn
      BY <3>1, <3>2 DEF Turn
    <3> QED BY <3>3, <3>4, <3>5
  <2> QED BY <2>2, <2>3
<1> HIDE DEF turn
<1>8. /\ x2' \in [Scheduler -> Turn] /\ x2'[p] = turn
      /\ \A q \in Scheduler : q # p => x2'[q] = x2[q]
      /\ \A q \in Scheduler : x2'[q].pc = "ready" <=> x2'[q].rows = <<>>
  BY <1>1, <1>7, OneTurn
<1>9. SchedulerTypes'
  BY <1>1, <1>6, <1>8 DEF SchedulerTypes
<1>10. PlanInv'
  BY <1>1, <1>4, <1>6 DEF PlanInv, Planned
<1>11. \A i \in DOMAIN turn.rows : turn.rows[i] \in Automation /\ turn.rows[i] # r
  <2>1. ASSUME NEW i \in DOMAIN rows, i # 1 PROVE rows[i] \in Automation /\ rows[i] # r
    <3>1. rows[i] \in Automation
      BY <1>1, FirstRow DEF rows
    <3> QED BY <1>1, <2>1, <3>1 DEF RowsInv, rows
  <2> QED BY <1>7, <2>1
<1>12. \A a \in Automation : x1[a] # None => x1'[a] # None
  BY <1>2, <1>6
<1>13. RowsInv'
  <2>1. ASSUME NEW q \in Scheduler, q # p, NEW i \in DOMAIN x2[q].rows
        PROVE  /\ x1'[x2[q].rows[i]] # None
               /\ \A j \in DOMAIN x2[q].rows : i # j => x2[q].rows[i] # x2[q].rows[j]
    <3>1. x2[q].rows[i] \in Automation
      BY DEF SchedulerTypes, Turn
    <3> QED BY <1>12, <3>1 DEF RowsInv
  <2>2. ASSUME NEW i \in DOMAIN turn.rows
        PROVE  /\ x1'[turn.rows[i]] # None
               /\ \A j \in DOMAIN turn.rows : i # j => turn.rows[i] # turn.rows[j]
    <3>1. x1[rows[i + 1]] # None /\ \A j \in DOMAIN rows : i + 1 # j => rows[i + 1] # rows[j]
      BY <1>7 DEF RowsInv, rows
    <3>2. x1'[turn.rows[i]] # None
      BY <1>7, <1>11, <1>12, <3>1
    <3>3. ASSUME NEW j \in DOMAIN turn.rows, i # j PROVE turn.rows[i] # turn.rows[j]
      <4>1. i \in Nat /\ j \in Nat
        BY <1>7 DEF Turn
      <4>2. i + 1 # j + 1
        BY <3>3, <4>1
      <4> QED BY <1>7, <3>1, <4>2
    <3> QED BY <3>2, <3>3
  <2>3. ASSUME NEW q \in Scheduler, NEW i \in DOMAIN x2'[q].rows
        PROVE  /\ x1'[x2'[q].rows[i]] # None
               /\ \A j \in DOMAIN x2'[q].rows : i # j => x2'[q].rows[i] # x2'[q].rows[j]
    <3>1. CASE q = p
      BY <1>8, <2>2, <3>1
    <3>2. CASE q # p
      BY <1>8, <2>1, <3>2
    <3> QED BY <3>1, <3>2
  <2> QED BY <2>3 DEF RowsInv
<1>14. CountInv'
  <2>1. ASSUME NEW a \in Automation, Once(a) PROVE Spent(a) \subseteq (Spent(a))'
    <3>1. \A q \in Scheduler : q # p => (InRun(q, a)' <=> InRun(q, a)) /\ (Waits(q, a)' <=> Waits(q, a))
      BY <1>8 DEF InRun, Waits
    <3>2. CASE a # r
      <4>1. ~ InRun(p, a) /\ ~ InRun(p, a)'
        BY <1>7, <1>8, <3>2 DEF InRun
      <4>2. Waits(p, a)' => Waits(p, a)
        <5>1. ASSUME NEW i \in DOMAIN turn.rows, turn.rows[i] = a PROVE Waits(p, a)
          <6>1. i + 1 \in DOMAIN x2[p].rows /\ x2[p].rows[i + 1] = a /\ i + 1 # 1
            BY <1>7, <5>1 DEF rows
          <6> QED BY <6>1 DEF Waits
        <5> QED BY <1>8, <5>1 DEF Waits
      <4>3. x1'[a] = x1[a]
        BY <1>6, <3>2
      <4> QED BY <3>1, <4>1, <4>2, <4>3 DEF Spent
    <3>3. CASE a = r
      <4>1. ~ Waits(p, a)'
        BY <1>8, <1>11, <3>3 DEF Waits
      <4>2. \A q \in Scheduler : InRun(q, a) => ~ Waits(q, a)
        <5> SUFFICES ASSUME NEW q \in Scheduler, InRun(q, a), NEW i \in DOMAIN x2[q].rows,
                            x2[q].rows[i] = a, ~ (i = 1 /\ x2[q].pc \in {"call", "update"})
                     PROVE  FALSE
          BY DEF Waits
        <5>1. i # 1 /\ x2[q].rows[1] = a /\ 1 \in DOMAIN x2[q].rows
          BY FirstRow DEF InRun
        <5> QED BY <5>1 DEF RowsInv
      <4>3. x1'[a].last # None
        BY <1>3, <1>4, <1>6, <3>3
      <4>4. ASSUME NEW q \in Spent(a) PROVE ~ Waits(q, a)' /\ q \in Scheduler
        BY <3>1, <4>1, <4>2 DEF Spent
      <4> QED BY <4>3, <4>4 DEF Spent
    <3> QED BY <3>2, <3>3
  <2>2. \A a \in Automation : x1[a] # None => x1'[a] # None /\ x1'[a].type = x1[a].type
    BY <1>2, <1>4, <1>6
  <2>3. \A a \in Automation : x1'[a] # None => x1[a] # None \/ Len(x3[a]) = 0
    BY DEF CountInv
  <2>4. \A a \in Automation : Once(a) => Spent(a) \subseteq (Spent(a))'
    BY <2>1
  <2> QED BY <1>1, <2>2, <2>3, <2>4, CountStays
<1>15. HistoryInv'
  <2>1. Calling' = Calling
    BY <1>1, <1>7, <1>8 DEF Calling
  <2>2. \A q \in Calling : q # p /\ OwnRun(q)' = OwnRun(q)
    BY <1>1, <1>8 DEF Calling, OwnRun
  <2> QED BY <1>1, <2>1, <2>2 DEF HistoryInv, Open
<1> QED BY <1>9, <1>10, <1>13, <1>14, <1>15

\* A death leaves at most the run of the process that died as running.
LEMMA SchedulerDies == ASSUME SchedulerInv, NEW p \in Scheduler, Automations!Crash(p) PROVE SchedulerInv'
<1> USE DEF SchedulerInv
<1> DEFINE turn == [pc |-> "ready", rows |-> <<>>, run |-> 0, status |-> None]
<1>1. x5' = x5 + 1 /\ x5 \in Nat /\ x2' = [x2 EXCEPT ![p] = turn] /\ UNCHANGED <<x1, x3, x4>>
  BY DEF Automations!Crash, Automations!Sleeping, SchedulerTypes
<1>2. /\ x2' \in [Scheduler -> Turn] /\ x2'[p] = turn
      /\ \A q \in Scheduler : q # p => x2'[q] = x2[q]
      /\ \A q \in Scheduler : x2'[q].pc = "ready" <=> x2'[q].rows = <<>>
  <2>1. turn \in Turn /\ (turn.pc = "ready" <=> turn.rows = <<>>)
    BY DEF Turn
  <2> HIDE DEF turn
  <2> QED BY <1>1, <2>1, OneTurn
<1>3. x2'[p].pc = "ready" /\ x2'[p].rows = <<>>
  BY <1>2
<1> HIDE DEF turn
<1>4. SchedulerTypes'
  BY <1>1, <1>2 DEF SchedulerTypes
<1>5. PlanInv'
  BY <1>1 DEF PlanInv, Planned
<1>6. RowsInv'
  <2> SUFFICES ASSUME NEW q \in Scheduler, NEW i \in DOMAIN x2'[q].rows
               PROVE  /\ x1[x2'[q].rows[i]] # None
                      /\ \A j \in DOMAIN x2'[q].rows : i # j => x2'[q].rows[i] # x2'[q].rows[j]
    BY <1>1 DEF RowsInv
  <2>1. q # p
    BY <1>3
  <2> QED BY <1>2, <2>1 DEF RowsInv
<1>7. CountInv'
  <2>1. ASSUME NEW a \in Automation, NEW q \in Spent(a), q # p PROVE q \in (Spent(a))'
    BY <1>1, <1>2, <2>1 DEF Spent, InRun, Waits
  <2>2. ASSUME NEW a \in Automation, Once(a) PROVE Len(x3[a]) <= x5 + 1 + Cardinality((Spent(a))')
    <3>1. Spent(a) \in SUBSET Scheduler /\ (Spent(a))' \in SUBSET Scheduler
      BY DEF Spent
    <3>2. Spent(a) \ {p} \subseteq (Spent(a))'
      BY <2>1
    <3>3. /\ Cardinality(Spent(a)) <= Cardinality((Spent(a))') + 1
          /\ Cardinality(Spent(a)) \in Nat /\ Cardinality((Spent(a))') \in Nat
      BY <3>1, <3>2, SchedulersCount
    <3>4. Len(x3[a]) <= x5 + Cardinality(Spent(a)) /\ Len(x3[a]) \in Nat
      BY <2>2 DEF CountInv, SchedulerTypes
    <3> QED BY <1>1, <3>3, <3>4
  <2>3. \A a \in Automation : /\ (Once(a))' = Once(a)
                              /\ (Cardinality(Spent(a)))' = Cardinality((Spent(a))')
    BY <1>1 DEF Once
  <2> QED BY <1>1, <2>2, <2>3 DEF CountInv
<1>8. HistoryInv'
  <2>1. Calling' = Calling \ {p}
    BY <1>2, <1>3 DEF Calling
  <2>2. \A q \in Calling' : q \in Calling /\ OwnRun(q)' = OwnRun(q)
    BY <1>2, <2>1 DEF Calling, OwnRun
  <2>3. Cardinality(Open(x3)) <= x5 + 1 + Cardinality(Calling')
    <3>1. Cardinality(Open(x3)) <= x5 + Cardinality(Calling) /\ Cardinality(Open(x3)) \in Nat
      BY OpenFinite DEF HistoryInv
    <3>2. Calling \in SUBSET Scheduler /\ Calling' \in SUBSET Scheduler
      BY DEF Calling
    <3>3. Cardinality(Calling) <= Cardinality(Calling') + 1
          /\ Cardinality(Calling) \in Nat /\ Cardinality(Calling') \in Nat
      BY <2>1, <3>2, SchedulersCount
    <3> QED BY <1>1, <3>1, <3>3
  <2>4. /\ (Open(x3))' = Open(x3) /\ (Cardinality(Calling))' = Cardinality(Calling')
        /\ (Cardinality(Open(x3)))' = Cardinality(Open(x3))
    BY <1>1 DEF Open
  <2> QED BY <1>1, <2>2, <2>3, <2>4 DEF HistoryInv
<1> QED BY <1>4, <1>5, <1>6, <1>7, <1>8

\* Every step of the automations keeps their invariant.
LEMMA SchedulerNext == ASSUME SchedulerInv, Automations!Next PROVE SchedulerInv'
<1>1. ASSUME Automations!Tick PROVE SchedulerInv'
  <2>1. x4' = x4 + 1 /\ UNCHANGED <<x1, x2, x3, x5>>
    BY <1>1 DEF Automations!Tick
  <2>2. SchedulerTypes' /\ PlanInv'
    BY <2>1 DEF SchedulerInv, SchedulerTypes, PlanInv, Planned, Automatic
  <2>3. RowsInv'
    BY <2>1 DEF SchedulerInv, RowsInv
  <2>4. \A a : Spent(a)' = Spent(a) /\ (Once(a))' = Once(a)
    BY <2>1 DEF Spent, InRun, Waits, Once
  <2>5. CountInv'
    BY <2>1, <2>4 DEF SchedulerInv, CountInv
  <2>6. Calling' = Calling /\ Open(x3)' = Open(x3) /\ \A p : OwnRun(p)' = OwnRun(p)
    BY <2>1 DEF Calling, Open, OwnRun
  <2>7. HistoryInv'
    BY <2>1, <2>6 DEF SchedulerInv, HistoryInv
  <2> QED BY <2>2, <2>3, <2>5, <2>7 DEF SchedulerInv
<1>2. ASSUME NEW p \in Scheduler,
             \/ Automations!CheckAndRun(p) \/ Automations!StartRun(p) \/ Automations!FinishRun(p)
             \/ Automations!UpdateStateAfterRun(p) \/ Automations!Crash(p)
      PROVE  SchedulerInv'
  BY <1>2, SchedulerSelects, SchedulerStartsRun, SchedulerFinishesRun, SchedulerUpdates, SchedulerDies
<1> QED BY <1>1, <1>2, SchedulerPlans DEF Automations!Next

\* The invariant of the automations: what is planned, what each process is about to run or may
\* have run, and what of the history is still open.
THEOREM SchedulerInvariant == Spec => [](scenario = "automations" => SchedulerInv)
<1>1. Init => (scenario = "automations" => SchedulerInv)
  BY SchedulerStart, Starts
<1>2. (scenario = "automations" => SchedulerInv) /\ [Next]_Vars => (scenario = "automations" => SchedulerInv)'
  <2>1. ASSUME SchedulerInv, UNCHANGED Vars PROVE SchedulerInv'
    BY <2>1, SchedulerFrame DEF Vars
  <2> QED BY <2>1, SchedulerNext, Steps DEF Vars
<1> QED BY <1>1, <1>2, PTL DEF Spec

\* A one-time automation runs once in each process but for deaths, an active one has a next run,
\* runs keep their distance and the history has what each came to, for any automations, any
\* processes that run them beside each other, and any interval, clock and number of deaths
\* (AutomationManager, Scheduler).
THEOREM AutomationsAreSound == Spec => []SchedulerSound
<1>1. SchedulerInv => Automations!OnceRunsOnce
  <2> SUFFICES ASSUME SchedulerInv, NEW a \in Automation, Once(a)
               PROVE  Len(x3[a]) <= x5 + Cardinality(Scheduler)
    BY DEF Automations!OnceRunsOnce, Once, Automations!Cardinality, Cardinality
  <2>1. Len(x3[a]) <= x5 + Cardinality(Spent(a)) /\ x5 \in Nat /\ Len(x3[a]) \in Nat
    BY DEF SchedulerInv, CountInv, SchedulerTypes
  <2>2. Spent(a) \in SUBSET Scheduler /\ Scheduler \in SUBSET Scheduler
    BY DEF Spent
  <2>3. /\ Cardinality(Spent(a)) <= Cardinality(Scheduler)
        /\ Cardinality(Spent(a)) \in Nat /\ Cardinality(Scheduler) \in Nat
    BY <2>2, SchedulersCount
  <2> QED BY <2>1, <2>3
<1>2. SchedulerInv => Automations!ActiveGoesOn /\ Automations!Spaced
  BY DEF SchedulerInv, PlanInv, Planned, Automations!ActiveGoesOn, Automations!Spaced
<1>3. SchedulerInv => Automations!HistoryComplete
  <2>1. {k \in Automations!Runs : x3[k[1]][k[2]] = "running"} = Open(x3)
    BY DEF Automations!Runs, Open
  <2>2. \A S : Automations!Cardinality(S) = Cardinality(S)
    BY DEF Automations!Cardinality, Cardinality
  <2> QED BY <2>1, <2>2 DEF SchedulerInv, HistoryInv, Calling, Automations!HistoryComplete
<1>4. (scenario = "automations" => SchedulerInv) => SchedulerSound
  BY <1>1, <1>2, <1>3 DEF SchedulerSound
<1> QED BY <1>4, SchedulerInvariant, PTL

-----------------------------------------------------------------------------
(* The session database: x1 is now, x2 sessions, x3 usage, x4 saved,       *)
(* x5 counts, x6 proc and x7 ran                                           *)

Procs == [pc : {"down", "ask", "save", "dispatch", "count", "run"},
          sid : Database!Session \cup {None}, tool : Tool \cup {None},
          read : Nat \cup {None}, calls : Nat]

DatabaseTypes ==
    /\ x1 \in Database!Session
    /\ x2 \in [Database!Session -> {"active", "archived", None}]
    /\ x3 \in [Database!Session -> Nat] /\ x4 \in [Database!Session -> Nat]
    /\ x5 \in [Database!Session \X Tool -> Nat] /\ x7 \in [Database!Session \X Tool -> Nat]
    /\ x6 \in [Proc -> Procs]

\* A process that is up has a session of its own, which was created.
Up(p) == x6[p].pc # "down"
OwnerInv ==
    /\ \A p \in Proc : Up(p) => x6[p].sid \in Database!Session /\ x2[x6[p].sid] # None
    /\ \A p, q \in Proc : Up(p) /\ Up(q) /\ x6[p].sid = x6[q].sid => p = q
    /\ \A p \in Proc : x6[p].pc \in {"count", "run"} => x6[p].tool \in Tool

\* What a session's tables say, by the step its process is at; where there is none
\* any more they may be one apart.
Owed(s, t) == x5[<<s, t>>] # x7[<<s, t>>]
TablesInv ==
    /\ \A s \in Database!Session : x2[s] = None => x3[s] = x4[s] /\ \A t \in Tool : ~ Owed(s, t)
    /\ \A s \in Database!Session : x3[s] \in {x4[s], x4[s] + 1}
    /\ \A s \in Database!Session, t \in Tool : Owed(s, t) => x5[<<s, t>>] = x7[<<s, t>>] + 1
    /\ \A s \in Database!Session, t, u \in Tool : Owed(s, t) /\ Owed(s, u) => t = u
    /\ \A p \in Proc : Up(p) => x3[x6[p].sid] = x4[x6[p].sid] + (IF x6[p].pc = "save" THEN 1 ELSE 0)
    /\ \A p \in Proc, t \in Tool : Up(p) /\ Owed(x6[p].sid, t) => x6[p].pc = "run" /\ t = x6[p].tool
    /\ \A p \in Proc : x6[p].pc = "run" => Owed(x6[p].sid, x6[p].tool)
    /\ \A p \in Proc : x6[p].pc = "count" => x6[p].read = x5[<<x6[p].sid, x6[p].tool>>]

DatabaseInv == DatabaseTypes /\ OwnerInv /\ TablesInv

\* Nobody has a session yet.
LEMMA DatabaseStart == Database!Init => DatabaseInv
  BY BoundsAssumption DEF Database!Init, Procs, Database!Down, DatabaseInv, DatabaseTypes, OwnerInv, TablesInv,
     Owed, Up, Database!Session

\* The steps that touch nothing.
LEMMA DatabaseFrame == DatabaseInv /\ UNCHANGED <<x1, x2, x3, x4, x5, x6, x7>> => DatabaseInv'
  BY DEF DatabaseInv, DatabaseTypes, OwnerInv, TablesInv, Owed, Up

\* No session is created twice (create_session).
LEMMA DatabaseCreates == ASSUME DatabaseInv, NEW p \in Proc, Database!CreateSession(p) PROVE DatabaseInv'
<1> USE DEF DatabaseInv
<1>1. /\ x6[p].pc = "down" /\ x2[x1] = None /\ x2' = [x2 EXCEPT ![x1] = "active"]
      /\ x6' = [x6 EXCEPT ![p] = [@ EXCEPT !.pc = "ask", !.sid = x1]]
      /\ UNCHANGED <<x1, x3, x4, x5, x7>>
  BY DEF Database!CreateSession, Database!At
<1>2. /\ x6'[p].pc = "ask" /\ x6'[p].sid = x1 /\ x6'[p].tool = x6[p].tool
      /\ \A q \in Proc : q # p => x6'[q] = x6[q]
  BY <1>1 DEF DatabaseTypes
<1>3. DatabaseTypes'
  <2>1. [x6[p] EXCEPT !.pc = "ask", !.sid = x1] \in Procs
    BY DEF DatabaseTypes, Procs
  <2> QED BY <1>1, <2>1 DEF DatabaseTypes
<1>4. x2'[x1] # None /\ \A s \in Database!Session : s # x1 => x2'[s] = x2[s]
  BY <1>1, NoneAssumption DEF DatabaseTypes
<1>5. OwnerInv'
  BY <1>1, <1>2, <1>4 DEF OwnerInv, DatabaseTypes, Up
<1>6. TablesInv'
  BY <1>1, <1>2, <1>4 DEF OwnerInv, DatabaseTypes, Up, TablesInv, Owed
<1> QED BY <1>3, <1>5, <1>6

\* A step of a process that stays in its session, where no row of another is touched.
LEMMA DatabaseSteps ==
    ASSUME DatabaseInv, NEW p \in Proc, NEW r \in Procs, Up(p), r.pc # "down", r.sid = x6[p].sid,
           x6' = [x6 EXCEPT ![p] = r], UNCHANGED <<x1, x2>>,
           x3' \in [Database!Session -> Nat], x4' \in [Database!Session -> Nat],
           x5' \in [Database!Session \X Tool -> Nat], x7' \in [Database!Session \X Tool -> Nat],
           r.pc \in {"count", "run"} => r.tool \in Tool,
           \A s \in Database!Session \ {r.sid} : x3'[s] = x3[s] /\ x4'[s] = x4[s],
           \A s \in Database!Session \ {r.sid}, t \in Tool :
               x5'[<<s, t>>] = x5[<<s, t>>] /\ x7'[<<s, t>>] = x7[<<s, t>>],
           x3'[r.sid] = x4'[r.sid] + (IF r.pc = "save" THEN 1 ELSE 0),
           \A t \in Tool : IF r.pc = "run" /\ t = r.tool
                             THEN x5'[<<r.sid, t>>] = x7'[<<r.sid, t>>] + 1
                             ELSE x5'[<<r.sid, t>>] = x7'[<<r.sid, t>>],
           r.pc = "count" => r.read = x5'[<<r.sid, r.tool>>]
    PROVE  DatabaseInv'
<1> USE DEF DatabaseInv
<1>1. x6'[p] = r /\ \A q \in Proc : q # p => x6'[q] = x6[q]
  BY DEF DatabaseTypes
<1>2. r.sid \in Database!Session /\ x2[r.sid] # None
      /\ \A q \in Proc : q # p /\ Up(q) => x6[q].sid \in Database!Session \ {r.sid}
  BY DEF OwnerInv
<1>3. DatabaseTypes'
  BY DEF DatabaseTypes
<1>4. OwnerInv'
  BY <1>1 DEF OwnerInv, Up
<1>5. TablesInv'
  <2>1. ASSUME NEW s \in Database!Session PROVE x2[s] = None => x3'[s] = x4'[s] /\ \A t \in Tool : ~ Owed(s, t)'
    BY <1>2, <2>1 DEF TablesInv, Owed
  <2>2. ASSUME NEW s \in Database!Session PROVE x3'[s] \in {x4'[s], x4'[s] + 1}
    BY <1>2, <2>2 DEF TablesInv, DatabaseTypes
  <2>3. ASSUME NEW s \in Database!Session, NEW t \in Tool, Owed(s, t)' PROVE x5'[<<s, t>>] = x7'[<<s, t>>] + 1
    BY <1>2, <2>3 DEF TablesInv, Owed
  <2>4. ASSUME NEW s \in Database!Session, NEW t \in Tool, NEW u \in Tool, Owed(s, t)', Owed(s, u)' PROVE t = u
    BY <1>2, <2>4 DEF TablesInv, Owed
  <2>5. ASSUME NEW q \in Proc, Up(q)'
        PROVE  /\ x3'[x6'[q].sid] = x4'[x6'[q].sid] + (IF x6'[q].pc = "save" THEN 1 ELSE 0)
               /\ \A t \in Tool : x5'[<<x6'[q].sid, t>>] # x7'[<<x6'[q].sid, t>>] =>
                     x6'[q].pc = "run" /\ t = x6'[q].tool
               /\ x6'[q].pc = "run" => x5'[<<x6'[q].sid, x6'[q].tool>>] # x7'[<<x6'[q].sid, x6'[q].tool>>]
               /\ x6'[q].pc = "count" => x6'[q].read = x5'[<<x6'[q].sid, x6'[q].tool>>]
    <3>1. CASE q = p
      BY <1>1, <1>2, <3>1 DEF DatabaseTypes
    <3>2. CASE q # p
      <4>1. x6'[q] = x6[q] /\ Up(q) /\ x6[q].sid \in Database!Session \ {r.sid}
            /\ (x6[q].pc \in {"count", "run"} => x6[q].tool \in Tool)
        BY <1>1, <1>2, <2>5, <3>2 DEF Up, OwnerInv
      <4> QED BY <4>1 DEF TablesInv, Owed
    <3> QED BY <3>1, <3>2
  <2>6. \A q \in Proc, t \in Tool : Up(q)' /\ Owed(x6[q].sid, t)' => x6'[q].pc = "run" /\ t = x6'[q].tool
    BY <2>5 DEF Owed
  <2>7. \A q \in Proc : x6'[q].pc = "run" => Owed(x6[q].sid, x6[q].tool)'
    BY <2>5 DEF Owed, Up
  <2>8. \A q \in Proc : x6'[q].pc = "count" => x6'[q].read = x5'[<<x6'[q].sid, x6'[q].tool>>]
    BY <2>5 DEF Up
  <2> QED BY <2>1, <2>2, <2>3, <2>4, <2>5, <2>6, <2>7, <2>8 DEF TablesInv
<1> QED BY <1>3, <1>4, <1>5

\* What a process writes into the tables of its session.
LEMMA DatabaseWrites ==
    ASSUME DatabaseInv, NEW p \in Proc,
           \/ Database!TrackUsage(p) \/ Database!SaveMessage(p) \/ Database!RecordToolCall(p)
           \/ Database!RunTool(p) \/ Database!EndTurn(p) \/ \E tool \in Tool : Database!ReadCount(p, tool)
    PROVE  DatabaseInv'
<1> USE DEF DatabaseInv, Database!At, Database!Goto, Database!Sid, Database!Key
<1> DEFINE s == x6[p].sid
<1>1. x6[p] \in Procs
  BY DEF DatabaseTypes
<1>2. ASSUME Up(p)
      PROVE  /\ s \in Database!Session
             /\ x3[s] = x4[s] + (IF x6[p].pc = "save" THEN 1 ELSE 0)
             /\ \A t \in Tool : IF x6[p].pc = "run" /\ t = x6[p].tool
                                  THEN x5[<<s, t>>] = x7[<<s, t>>] + 1 ELSE x5[<<s, t>>] = x7[<<s, t>>]
             /\ x6[p].pc \in {"count", "run"} => x6[p].tool \in Tool
             /\ x6[p].pc = "count" => x6[p].read = x5[<<s, x6[p].tool>>]
             /\ x3[s] \in Nat /\ x4[s] \in Nat
             /\ \A t \in Tool : x5[<<s, t>>] \in Nat /\ x7[<<s, t>>] \in Nat
  BY <1>2 DEF OwnerInv, TablesInv, DatabaseTypes, Owed
<1>3. ASSUME Database!TrackUsage(p) PROVE DatabaseInv'
  <2> DEFINE r == [x6[p] EXCEPT !.pc = "save", !.calls = @ + 1]
  <2>1. /\ Up(p) /\ x6[p].pc = "ask" /\ x6' = [x6 EXCEPT ![p] = r]
        /\ x3' = [x3 EXCEPT ![s] = @ + 1] /\ UNCHANGED <<x1, x2, x4, x5, x7>>
    BY <1>3 DEF Database!TrackUsage, Up
  <2>2. r \in Procs /\ r.pc = "save" /\ r.sid = s
    <3>1. x6[p].calls + 1 \in Nat
      BY <1>1 DEF Procs
    <3> QED BY <1>1, <3>1 DEF Procs
  <2> HIDE DEF r
  <2>3. x3' \in [Database!Session -> Nat] /\ x3'[s] = x4[s] + 1
        /\ \A o \in Database!Session \ {s} : x3'[o] = x3[o]
    BY <1>2, <2>1 DEF DatabaseTypes
  <2>7. /\ \A o \in Database!Session \ {r.sid} : x3'[o] = x3[o] /\ x4'[o] = x4[o]
        /\ \A o \in Database!Session \ {r.sid}, t \in Tool :
              x5'[<<o, t>>] = x5[<<o, t>>] /\ x7'[<<o, t>>] = x7[<<o, t>>]
    BY <2>1, <2>2, <2>3
  <2>8. \A t \in Tool : IF r.pc = "run" /\ t = r.tool
                       THEN x5'[<<r.sid, t>>] = x7'[<<r.sid, t>>] + 1
                       ELSE x5'[<<r.sid, t>>] = x7'[<<r.sid, t>>]
    BY <1>2, <2>1, <2>2, <2>3
  <2>9. x3'[r.sid] = x4'[r.sid] + (IF r.pc = "save" THEN 1 ELSE 0)
    BY <1>2, <2>1, <2>2, <2>3
  <2>10. /\ x3' \in [Database!Session -> Nat] /\ x4' \in [Database!Session -> Nat]
         /\ x5' \in [Database!Session \X Tool -> Nat] /\ x7' \in [Database!Session \X Tool -> Nat]
    BY <2>1, <2>2, <2>3 DEF DatabaseTypes
  <2> QED BY ZenonT(40), <1>2, <2>1, <2>2, <2>7, <2>8, <2>9, <2>10, DatabaseSteps
<1>4. ASSUME Database!SaveMessage(p) PROVE DatabaseInv'
  <2> DEFINE r == [x6[p] EXCEPT !.pc = "dispatch"]
  <2>1. /\ Up(p) /\ x6[p].pc = "save" /\ x6' = [x6 EXCEPT ![p] = r]
        /\ x4' = [x4 EXCEPT ![s] = @ + 1] /\ UNCHANGED <<x1, x2, x3, x5, x7>>
    BY <1>4 DEF Database!SaveMessage, Up
  <2>2. r \in Procs /\ r.pc = "dispatch" /\ r.sid = s
    BY <1>1 DEF Procs
  <2> HIDE DEF r
  <2>3. x4' \in [Database!Session -> Nat] /\ x3[s] = x4'[s]
        /\ \A o \in Database!Session \ {s} : x4'[o] = x4[o]
    BY <1>2, <2>1 DEF DatabaseTypes
  <2>4. x3[s] = x4'[s] + 0
    BY <1>2, <2>1, <2>3
  <2>7. /\ \A o \in Database!Session \ {r.sid} : x3'[o] = x3[o] /\ x4'[o] = x4[o]
        /\ \A o \in Database!Session \ {r.sid}, t \in Tool :
              x5'[<<o, t>>] = x5[<<o, t>>] /\ x7'[<<o, t>>] = x7[<<o, t>>]
    BY <2>1, <2>2, <2>3, <2>4
  <2>8. \A t \in Tool : IF r.pc = "run" /\ t = r.tool
                       THEN x5'[<<r.sid, t>>] = x7'[<<r.sid, t>>] + 1
                       ELSE x5'[<<r.sid, t>>] = x7'[<<r.sid, t>>]
    BY <1>2, <2>1, <2>2, <2>3, <2>4
  <2>9. x3'[r.sid] = x4'[r.sid] + (IF r.pc = "save" THEN 1 ELSE 0)
    BY <1>2, <2>1, <2>2, <2>3, <2>4
  <2>10. /\ x3' \in [Database!Session -> Nat] /\ x4' \in [Database!Session -> Nat]
         /\ x5' \in [Database!Session \X Tool -> Nat] /\ x7' \in [Database!Session \X Tool -> Nat]
    BY <2>1, <2>2, <2>3, <2>4 DEF DatabaseTypes
  <2> QED BY ZenonT(40), <1>2, <2>1, <2>2, <2>7, <2>8, <2>9, <2>10, DatabaseSteps
<1>5. ASSUME NEW tool \in Tool, Database!ReadCount(p, tool) PROVE DatabaseInv'
  <2> DEFINE r == [x6[p] EXCEPT !.pc = "count", !.tool = tool, !.read = x5[<<s, tool>>]]
  <2>1. /\ Up(p) /\ x6[p].pc = "dispatch" /\ x6' = [x6 EXCEPT ![p] = r]
        /\ UNCHANGED <<x1, x2, x3, x4, x5, x7>>
    BY <1>5 DEF Database!ReadCount, Up
  <2>2. r \in Procs /\ r.pc = "count" /\ r.sid = s /\ r.tool = tool /\ r.read = x5[<<s, tool>>]
    BY <1>1, <1>2, <2>1 DEF Procs
  <2> HIDE DEF r
  <2>3. x3[s] = x4[s] + 0
    BY <1>2, <2>1
  <2> QED BY <1>2, <2>1, <2>2, <2>3, DatabaseSteps DEF DatabaseTypes
<1>6. ASSUME Database!RecordToolCall(p) PROVE DatabaseInv'
  <2> DEFINE r == [x6[p] EXCEPT !.pc = "run"]
             k == <<s, x6[p].tool>>
  <2>1. /\ Up(p) /\ x6[p].pc = "count" /\ x6' = [x6 EXCEPT ![p] = r]
        /\ x5' = [x5 EXCEPT ![k] = x6[p].read + 1] /\ UNCHANGED <<x1, x2, x3, x4, x7>>
    BY <1>6 DEF Database!RecordToolCall, Up
  <2>2. r \in Procs /\ r.pc = "run" /\ r.sid = s /\ r.tool = x6[p].tool
    BY <1>1 DEF Procs
  <2>3. k \in Database!Session \X Tool /\ x6[p].read = x5[k] /\ x5[k] = x7[k] /\ x7[k] \in Nat
    BY <1>2, <2>1
  <2>4. /\ x5' \in [Database!Session \X Tool -> Nat] /\ x5'[k] = x7[k] + 1
        /\ \A j \in Database!Session \X Tool : j # k => x5'[j] = x5[j]
    BY <2>1, <2>3 DEF DatabaseTypes
  <2>5. \A o \in Database!Session, t \in Tool : o # s \/ t # x6[p].tool => x5'[<<o, t>>] = x5[<<o, t>>]
    BY <2>4
  <2>6. x3[s] = x4[s] + 0
    BY <1>2, <2>1
  <2> HIDE DEF r
  <2>7. /\ \A o \in Database!Session \ {r.sid} : x3'[o] = x3[o] /\ x4'[o] = x4[o]
        /\ \A o \in Database!Session \ {r.sid}, t \in Tool :
              x5'[<<o, t>>] = x5[<<o, t>>] /\ x7'[<<o, t>>] = x7[<<o, t>>]
    BY <2>1, <2>2, <2>3, <2>4, <2>5, <2>6
  <2>8. \A t \in Tool : IF r.pc = "run" /\ t = r.tool
                       THEN x5'[<<r.sid, t>>] = x7'[<<r.sid, t>>] + 1
                       ELSE x5'[<<r.sid, t>>] = x7'[<<r.sid, t>>]
    BY <1>2, <2>1, <2>2, <2>3, <2>4, <2>5, <2>6
  <2>9. x3'[r.sid] = x4'[r.sid] + (IF r.pc = "save" THEN 1 ELSE 0)
    BY <1>2, <2>1, <2>2, <2>3, <2>4, <2>5, <2>6
  <2>10. /\ x3' \in [Database!Session -> Nat] /\ x4' \in [Database!Session -> Nat]
         /\ x5' \in [Database!Session \X Tool -> Nat] /\ x7' \in [Database!Session \X Tool -> Nat]
    BY <2>1, <2>2, <2>3, <2>4, <2>5, <2>6 DEF DatabaseTypes
  <2> QED BY <1>2, <2>1, <2>2, <2>7, <2>8, <2>9, <2>10, DatabaseSteps
<1>7. ASSUME Database!RunTool(p) PROVE DatabaseInv'
  <2> DEFINE r == [x6[p] EXCEPT !.pc = "dispatch"]
             k == <<s, x6[p].tool>>
  <2>1. /\ Up(p) /\ x6[p].pc = "run" /\ x6' = [x6 EXCEPT ![p] = r]
        /\ x7' = [x7 EXCEPT ![k] = @ + 1] /\ UNCHANGED <<x1, x2, x3, x4, x5>>
    BY <1>7 DEF Database!RunTool, Up
  <2>2. r \in Procs /\ r.pc = "dispatch" /\ r.sid = s
    BY <1>1 DEF Procs
  <2>3. k \in Database!Session \X Tool /\ x5[k] = x7[k] + 1 /\ x7[k] \in Nat
    BY <1>2, <2>1
  <2>4. /\ x7' \in [Database!Session \X Tool -> Nat] /\ x7'[k] = x5[k]
        /\ \A j \in Database!Session \X Tool : j # k => x7'[j] = x7[j]
    BY <2>1, <2>3 DEF DatabaseTypes
  <2>5. \A o \in Database!Session, t \in Tool : o # s \/ t # x6[p].tool => x7'[<<o, t>>] = x7[<<o, t>>]
    BY <2>4
  <2>6. x3[s] = x4[s] + 0
    BY <1>2, <2>1
  <2> HIDE DEF r
  <2>7. /\ \A o \in Database!Session \ {r.sid} : x3'[o] = x3[o] /\ x4'[o] = x4[o]
        /\ \A o \in Database!Session \ {r.sid}, t \in Tool :
              x5'[<<o, t>>] = x5[<<o, t>>] /\ x7'[<<o, t>>] = x7[<<o, t>>]
    BY <2>1, <2>2, <2>3, <2>4, <2>5, <2>6
  <2>8. \A t \in Tool : IF r.pc = "run" /\ t = r.tool
                       THEN x5'[<<r.sid, t>>] = x7'[<<r.sid, t>>] + 1
                       ELSE x5'[<<r.sid, t>>] = x7'[<<r.sid, t>>]
    BY SMTT(30), <1>2, <2>1, <2>2, <2>3, <2>4, <2>5, <2>6
  <2>9. x3'[r.sid] = x4'[r.sid] + (IF r.pc = "save" THEN 1 ELSE 0)
    BY <1>2, <2>1, <2>2, <2>3, <2>4, <2>5, <2>6
  <2>10. /\ x3' \in [Database!Session -> Nat] /\ x4' \in [Database!Session -> Nat]
         /\ x5' \in [Database!Session \X Tool -> Nat] /\ x7' \in [Database!Session \X Tool -> Nat]
    BY <2>1, <2>2, <2>3, <2>4, <2>5, <2>6 DEF DatabaseTypes
  <2> QED BY <1>2, <2>1, <2>2, <2>7, <2>8, <2>9, <2>10, DatabaseSteps
<1>8. ASSUME Database!EndTurn(p) PROVE DatabaseInv'
  <2> DEFINE r == [x6[p] EXCEPT !.pc = "ask"]
  <2>1. /\ Up(p) /\ x6[p].pc = "dispatch" /\ x6' = [x6 EXCEPT ![p] = r]
        /\ UNCHANGED <<x1, x2, x3, x4, x5, x7>>
    BY <1>8 DEF Database!EndTurn, Up
  <2>2. r \in Procs /\ r.pc = "ask" /\ r.sid = s
    BY <1>1 DEF Procs
  <2> HIDE DEF r
  <2>3. x3[s] = x4[s] + 0
    BY <1>2, <2>1
  <2> QED BY <1>2, <2>1, <2>2, <2>3, DatabaseSteps DEF DatabaseTypes
<1> QED BY <1>3, <1>4, <1>5, <1>6, <1>7, <1>8

\* A process that ends leaves its session to nobody (archive_session, a death).
LEMMA DatabaseEnds ==
    ASSUME DatabaseInv, NEW p \in Proc, Database!ArchiveSession(p) \/ Database!Crash(p)
    PROVE  DatabaseInv'
<1> USE DEF DatabaseInv
<1> DEFINE r == IF Database!ArchiveSession(p) THEN [x6[p] EXCEPT !.pc = "down"] ELSE Database!Down
<1>1. /\ x6' = [x6 EXCEPT ![p] = r] /\ UNCHANGED <<x1, x3, x4, x5, x7>>
      /\ x2' = x2 \/ x2' = [x2 EXCEPT ![x6[p].sid] = "archived"]
  BY DEF Database!ArchiveSession, Database!Crash, Database!Goto, Database!Sid
<1>2. r \in Procs /\ r.pc = "down"
  BY DEF DatabaseTypes, Procs, Database!Down
<1> HIDE DEF r
<1>3. x6'[p] = r /\ \A q \in Proc : q # p => x6'[q] = x6[q]
  BY <1>1 DEF DatabaseTypes
<1>4. \A s \in Database!Session : x2'[s] # x2[s] => x2'[s] # None
  BY <1>1, NoneAssumption DEF DatabaseTypes
<1>5. \A s \in Database!Session : x2'[s] = None => x2[s] = None
  BY <1>4
<1>6. \A s \in Database!Session : x2[s] # None => x2'[s] # None
  BY <1>4
<1>7. DatabaseTypes'
  BY <1>1, <1>2 DEF DatabaseTypes
<1>8. OwnerInv'
  BY <1>2, <1>3, <1>6 DEF OwnerInv, Up
<1>9. TablesInv'
  BY <1>1, <1>2, <1>3, <1>5 DEF TablesInv, Owed, Up
<1> QED BY <1>7, <1>8, <1>9

\* Every step of the database keeps its invariant.
LEMMA DatabaseNext == ASSUME DatabaseInv, Database!Next PROVE DatabaseInv'
<1>1. ASSUME Database!Tick PROVE DatabaseInv'
  <2>1. x1' \in Database!Session /\ UNCHANGED <<x2, x3, x4, x5, x6, x7>>
    BY <1>1, BoundsAssumption DEF Database!Tick, DatabaseInv, DatabaseTypes, Database!Session
  <2> QED BY <2>1 DEF DatabaseInv, DatabaseTypes, OwnerInv, TablesInv, Owed, Up
<1> QED BY <1>1, DatabaseCreates, DatabaseWrites, DatabaseEnds DEF Database!Next

\* In every state a process has its session alone, and tables of a session are one apart
\* only while a call is on or after a death, for any processes, tools and bounds.
THEOREM DatabaseInvariant == Spec => [](scenario = "database" => DatabaseInv)
<1>1. Init => (scenario = "database" => DatabaseInv)
  BY DatabaseStart, Starts
<1>2. (scenario = "database" => DatabaseInv) /\ [Next]_Vars => (scenario = "database" => DatabaseInv)'
  <2>1. ASSUME DatabaseInv, UNCHANGED Vars PROVE DatabaseInv'
    BY <2>1, DatabaseFrame DEF Vars
  <2> QED BY <2>1, DatabaseNext, Steps DEF Vars
<1> QED BY <1>1, <1>2, PTL DEF Spec

\* A session's counts are its tool runs, one more for a call that is on or died, and its usage
\* covers its answers (record_tool_call, track_usage).
LEMMA DatabaseSound == DatabaseInv => Database!CountsRuns /\ Database!UsageCovers
<1> SUFFICES ASSUME DatabaseInv PROVE Database!CountsRuns /\ Database!UsageCovers
  OBVIOUS
<1> USE DEF DatabaseInv
<1>1. Database!UsageCovers
  BY DEF TablesInv, Database!UsageCovers
<1>2. ASSUME NEW s \in Database!Session
      PROVE  LET over == {t \in Tool : x5[<<s, t>>] # x7[<<s, t>>]} IN
             /\ Cardinality(over) <= 1
             /\ \A t \in over : x5[<<s, t>>] = x7[<<s, t>>] + 1
  <2> DEFINE over == {t \in Tool : x5[<<s, t>>] # x7[<<s, t>>]}
  <2>1. \A t \in over : x5[<<s, t>>] = x7[<<s, t>>] + 1
    BY DEF TablesInv, Owed
  <2>2. CASE over = {}
    <3>1. Cardinality(over) = 0
      BY <2>2, FS_EmptySet
    <3> QED BY <2>1, <3>1
  <2>3. CASE over # {}
    <3>1. PICK t : t \in over
      BY <2>3
    <3>2. over = {t}
      BY <3>1 DEF TablesInv, Owed
    <3>3. Cardinality(over) = 1
      BY <3>2, FS_Singleton
    <3> QED BY <2>1, <3>3
  <2> QED BY <2>1, <2>2, <2>3
<1> QED BY <1>1, <1>2 DEF Database!CountsRuns, Database!Cardinality, Cardinality

-----------------------------------------------------------------------------
(* The sidecar: x1 is wire, x2 received, x3 handler, x4 caller, x5         *)
(* messages, x6 ring, x7 logged and x8 overlaps                            *)

Method == {"agent/send", "session/destroy", "sidecar/ping"}
Turns == Conn \X Nat
Bytes == Method \cup {"error"}
Handlers == [pc : {"recv", "handle", "turn", "answer", "error", "closed"}, id : Nat,
             method : Method \cup {None}, local : Seq(Turns)]
Answers == [id : Nat, method : Method, ok : BOOLEAN]
Callers == [id : Nat, waits : BOOLEAN, answer : Answers \cup {None}]

\* A request on its way: what arrived of it, and the rest.
Request(id, method) == <<<<"id", id>>, <<"method", method>>, <<"end", 0>>>>
Pieces(c, method, k) ==
    LET r == Request(x4[c].id, method) IN x2[c] = SubSeq(r, 1, k) /\ x1[c] = SubSeq(r, k + 1, 3)
FrameInv ==
    /\ x3 \in [Conn -> Handlers] /\ x4 \in [Conn -> Callers]
    /\ DOMAIN x1 = Conn /\ DOMAIN x2 = Conn
    /\ \A c \in Conn :
          IF x4[c].waits /\ x3[c].pc = "recv" THEN \E method \in Method, k \in 0 .. 3 : Pieces(c, method, k)
          ELSE x1[c] = <<>> /\ x2[c] = <<>>
    /\ \A c \in Conn : x3[c].pc # "closed" /\ (~ x4[c].waits => x3[c].pc = "recv")
    /\ \A c \in Conn : x3[c].pc # "recv" => x3[c].id = x4[c].id /\ x3[c].method \in Method
    /\ \A c \in Conn : x4[c].answer # None => x4[c].answer.id = x4[c].id

\* What is read, kept and answered of the turns.
Has(s) == {s[i] : i \in DOMAIN s}
TurnInv ==
    /\ x5 = None \/ x5 \in Seq(Turns)
    /\ \A c, d \in Conn : c # d /\ x3[c].pc = "turn" /\ x3[d].pc = "turn" => <<c, x3[c].id>> \in x8
    /\ x5 # None => \A c \in Conn :
          /\ x3[c].pc = "turn" => Has(x3[c].local) \ x8 = Has(x5) \ x8
          /\ x3[c].pc = "answer" /\ x3[c].method = "agent/send" => <<c, x3[c].id>> \in Has(x5) \cup x8
          /\ x4[c].answer # None /\ x4[c].answer.method = "agent/send" /\ x4[c].answer.ok =>
                <<c, x4[c].answer.id>> \in Has(x5) \cup x8

\* The ring has the newest bytes, the oldest of them where it writes next.
Newest(buffer, pos, bytes) ==
    /\ \A i \in 0 .. (pos - 1) : buffer[i] = bytes[Len(bytes) - pos + i + 1]
    /\ Len(bytes) < BufferSize => pos = Len(bytes)
    /\ Len(bytes) >= BufferSize =>
          \A i \in pos .. (BufferSize - 1) : buffer[i] = bytes[Len(bytes) - BufferSize - pos + i + 1]
Buffers == [0 .. (BufferSize - 1) -> Bytes \cup {None}]
RingInv ==
    /\ x7 \in Seq(Bytes)
    /\ x6 \in [buffer : Buffers, pos : 0 .. (BufferSize - 1), total : Nat]
    /\ x6.total = Len(x7)
    /\ Newest(x6.buffer, x6.pos, x7)

\* The remainder of a position one past the end is the start, of another itself.
LEMMA Wraps == ASSUME NEW n \in Nat \ {0}, NEW i \in 0 .. n PROVE i % n = IF i < n THEN i ELSE 0
  OBVIOUS

\* A byte replaces the oldest.
LEMMA Replaces ==
    ASSUME NEW buffer \in Buffers, NEW pos \in 0 .. (BufferSize - 1), NEW bytes \in Seq(Bytes),
           NEW byte \in Bytes, Newest(buffer, pos, bytes)
    PROVE  Newest([buffer EXCEPT ![pos] = byte], (pos + 1) % BufferSize, Append(bytes, byte))
<1> DEFINE n == BufferSize
           total == Len(bytes)
           new == [buffer EXCEPT ![pos] = byte]
           more == Append(bytes, byte)
           next == (pos + 1) % n
<1>1. n \in Nat \ {0} /\ pos \in 0 .. (n - 1) /\ total \in Nat /\ pos \in Nat
  BY BoundsAssumption
<1>2. next = IF pos + 1 < n THEN pos + 1 ELSE 0
  <2>1. pos + 1 \in 0 .. n
    BY <1>1
  <2> QED BY <1>1, <2>1, Wraps
<1>3. Len(more) = total + 1 /\ more[total + 1] = byte /\ \A i \in 1 .. total : more[i] = bytes[i]
  BY AppendProperties
<1>4. new[pos] = byte /\ \A i \in 0 .. (n - 1) : i # pos => new[i] = buffer[i]
  BY DEF Buffers
<1>5. /\ \A i \in 0 .. (pos - 1) : buffer[i] = bytes[total - pos + i + 1]
      /\ total < n => pos = total
      /\ total >= n => \A i \in pos .. (n - 1) : buffer[i] = bytes[total - n - pos + i + 1]
  BY DEF Newest
<1>6. SUFFICES
      /\ \A i \in 0 .. (next - 1) : new[i] = more[(total + 1) - next + i + 1]
      /\ total + 1 < n => next = total + 1
      /\ total + 1 >= n => \A i \in next .. (n - 1) : new[i] = more[(total + 1) - n - next + i + 1]
  BY <1>3 DEF Newest
<1> HIDE DEF n, total, new, more, next
<1>7. total >= pos
  BY <1>1, <1>5
<1>8. CASE pos + 1 < n
  <2>1. next = pos + 1
    BY <1>2, <1>8
  <2>2. ASSUME NEW i \in 0 .. (next - 1) PROVE new[i] = more[(total + 1) - next + i + 1]
    <3>1. CASE i = pos
      BY <1>1, <1>3, <1>4, <2>1, <3>1
    <3>2. CASE i # pos
      <4>1. i \in 0 .. (pos - 1) /\ i \in 0 .. (n - 1) /\ total - pos + i + 1 \in 1 .. total
        BY <1>1, <1>7, <2>1, <3>2
      <4>2. (total + 1) - next + i + 1 = total - pos + i + 1
        BY <1>1, <2>1
      <4> QED BY <1>3, <1>4, <1>5, <3>2, <4>1, <4>2
    <3> QED BY <3>1, <3>2
  <2>3. total + 1 < n => next = total + 1
    BY <1>1, <1>5, <2>1
  <2>4. ASSUME total + 1 >= n, NEW i \in next .. (n - 1)
        PROVE  new[i] = more[(total + 1) - n - next + i + 1]
    <3>1. total >= n
      BY <1>1, <1>5, <1>8, <2>4
    <3>2. /\ i \in pos .. (n - 1) /\ i \in 0 .. (n - 1) /\ i # pos
          /\ total - n - pos + i + 1 \in 1 .. total
          /\ (total + 1) - n - next + i + 1 = total - n - pos + i + 1
      BY <1>1, <2>1, <3>1
    <3> QED BY <1>3, <1>4, <1>5, <3>1, <3>2
  <2> QED BY <2>2, <2>3, <2>4
<1>9. CASE pos + 1 = n
  <2>1. next = 0 /\ ~ (total + 1 < n)
    BY <1>1, <1>2, <1>5, <1>9
  <2>2. ASSUME NEW i \in next .. (n - 1) PROVE new[i] = more[(total + 1) - n - next + i + 1]
    <3>1. CASE i = pos
      <4>1. (total + 1) - n - next + i + 1 = total + 1
        BY <1>1, <1>9, <2>1, <3>1
      <4> QED BY <1>3, <1>4, <3>1, <4>1
    <3>2. CASE i # pos
      <4>1. /\ i \in 0 .. (pos - 1) /\ i \in 0 .. (n - 1) /\ total - pos + i + 1 \in 1 .. total
            /\ (total + 1) - n - next + i + 1 = total - pos + i + 1
        BY <1>1, <1>7, <1>9, <2>1, <3>2
      <4> QED BY <1>3, <1>4, <1>5, <3>2, <4>1
    <3> QED BY <3>1, <3>2
  <2>3. \A i \in 0 .. (next - 1) : FALSE
    BY <2>1
  <2> QED BY <2>1, <2>2, <2>3
<1>10. pos + 1 < n \/ pos + 1 = n
  BY <1>1
<1> QED BY <1>8, <1>9, <1>10

\* So one log line keeps the ring right (RingBuffer.write).
LEMMA RingWrites ==
    ASSUME RingInv, NEW byte \in Bytes, x6' = Sidecar!Written(x6, byte), x7' = Append(x7, byte)
    PROVE  RingInv'
<1> DEFINE new == [x6.buffer EXCEPT ![x6.pos] = byte]
           at == (x6.pos + 1) % BufferSize
           next == x6.total + 1
<1>1. x6.buffer \in Buffers /\ x6.pos \in 0 .. (BufferSize - 1) /\ x6.total \in Nat /\ x7 \in Seq(Bytes)
  BY DEF RingInv
<1>2. Newest(new, at, Append(x7, byte))
  BY <1>1, Replaces DEF RingInv
<1>3. at \in 0 .. (BufferSize - 1)
  <2>3. BufferSize \in Nat \ {0}
    BY BoundsAssumption
  <2>1. x6.pos + 1 \in 0 .. BufferSize /\ BufferSize \in Nat \ {0}
    BY <1>1, <2>3
  <2>2. at = IF x6.pos + 1 < BufferSize THEN x6.pos + 1 ELSE 0
    BY <2>1, Wraps
  <2> QED BY <2>1, <2>2
<1>4. new \in Buffers
  BY <1>1 DEF Buffers
<1>5. next \in Nat /\ Append(x7, byte) \in Seq(Bytes) /\ Len(Append(x7, byte)) = next
  BY <1>1, AppendProperties DEF RingInv
<1>6. x6' = [buffer |-> new, pos |-> at, total |-> next]
  BY DEF Sidecar!Written
<1> HIDE DEF new, at, next
<1>7. x6' \in [buffer : Buffers, pos : 0 .. (BufferSize - 1), total : Nat]
  BY <1>3, <1>4, <1>5, <1>6
<1>8. x6'.buffer = new /\ x6'.pos = at /\ x6'.total = next
  BY <1>6
<1> QED BY <1>2, <1>5, <1>7, <1>8 DEF RingInv, Newest, Buffers, Bytes, Method

\* What arrives joins what had arrived, in order.
LEMMA Arrives ==
    ASSUME NEW S, NEW r \in Seq(S), Len(r) = 3, NEW k \in 0 .. 3,
           NEW n \in Nat, n <= Len(SubSeq(r, k + 1, 3))
    PROVE  /\ k + n \in 0 .. 3
           /\ SubSeq(r, 1, k) \o SubSeq(SubSeq(r, k + 1, 3), 1, n) = SubSeq(r, 1, k + n)
           /\ SubSeq(SubSeq(r, k + 1, 3), n + 1, Len(SubSeq(r, k + 1, 3))) = SubSeq(r, k + n + 1, 3)
<1> DEFINE rest == SubSeq(r, k + 1, 3)
           got == SubSeq(r, 1, k)
           piece == SubSeq(rest, 1, n)
           left == SubSeq(rest, n + 1, Len(rest))
<1>0. \A i \in 1 .. 3 : r[i] \in S
  BY ElementOfSeq
<1>1. rest \in Seq(S) /\ Len(rest) = 3 - k /\ \A i \in 1 .. (3 - k) : rest[i] = r[k + i]
  <2>1. \A i \in (k + 1) .. 3 : r[i] \in S
    BY <1>0
  <2>2. /\ rest \in Seq(S) /\ Len(rest) = (IF k + 1 <= 3 THEN 3 - (k + 1) + 1 ELSE 0)
        /\ \A i \in 1 .. (3 - (k + 1) + 1) : rest[i] = r[(k + 1) + i - 1]
    BY <2>1, SubSeqProperties
  <2>3. \A i \in 1 .. (3 - k) : i \in 1 .. (3 - (k + 1) + 1) /\ (k + 1) + i - 1 = k + i
    OBVIOUS
  <2> HIDE DEF rest
  <2>4. Len(rest) = 3 - k
    BY <2>2
  <2> QED BY <2>2, <2>3, <2>4
<1>2. got \in Seq(S) /\ Len(got) = k /\ \A i \in 1 .. k : got[i] = r[i]
  <2>1. \A i \in 1 .. k : r[i] \in S
    BY <1>0
  <2>2. /\ got \in Seq(S) /\ Len(got) = (IF 1 <= k THEN k - 1 + 1 ELSE 0)
        /\ \A i \in 1 .. (k - 1 + 1) : got[i] = r[1 + i - 1]
    BY <2>1, SubSeqProperties
  <2> HIDE DEF got
  <2> QED BY <2>2
<1> HIDE DEF rest, got
<1>3. n <= 3 - k
  BY <1>1 DEF rest
<1>4. piece \in Seq(S) /\ Len(piece) = n /\ \A i \in 1 .. n : piece[i] = r[k + i]
  <2>1. \A i \in 1 .. n : rest[i] \in S
    BY <1>1, <1>3
  <2>2. /\ piece \in Seq(S) /\ Len(piece) = (IF 1 <= n THEN n - 1 + 1 ELSE 0)
        /\ \A i \in 1 .. (n - 1 + 1) : piece[i] = rest[1 + i - 1]
    BY <2>1, SubSeqProperties
  <2> HIDE DEF piece
  <2> QED BY <1>1, <1>3, <2>2
<1>5. left \in Seq(S) /\ Len(left) = 3 - k - n /\ \A i \in 1 .. (3 - k - n) : left[i] = r[k + n + i]
  <2>1. \A i \in (n + 1) .. (3 - k) : rest[i] \in S
    BY <1>1
  <2>2. /\ left \in Seq(S) /\ Len(left) = (IF n + 1 <= 3 - k THEN (3 - k) - (n + 1) + 1 ELSE 0)
        /\ \A i \in 1 .. ((3 - k) - (n + 1) + 1) : left[i] = rest[(n + 1) + i - 1]
    BY <1>1, <2>1, SubSeqProperties
  <2> HIDE DEF left
  <2> QED BY <1>1, <1>3, <2>2
<1> HIDE DEF piece, left
<1>6. got \o piece \in Seq(S) /\ Len(got \o piece) = k + n /\ \A i \in 1 .. (k + n) : (got \o piece)[i] = r[i]
  <2>1. /\ got \o piece \in Seq(S) /\ Len(got \o piece) = Len(got) + Len(piece)
        /\ \A i \in 1 .. (Len(got) + Len(piece)) :
              (got \o piece)[i] = IF i <= Len(got) THEN got[i] ELSE piece[i - Len(got)]
    BY <1>2, <1>4, ConcatProperties
  <2> QED BY <1>2, <1>4, <2>1
<1>7. /\ SubSeq(r, 1, k + n) \in Seq(S) /\ Len(SubSeq(r, 1, k + n)) = k + n
      /\ \A i \in 1 .. (k + n) : SubSeq(r, 1, k + n)[i] = r[i]
  <2> DEFINE e == k + n
             s == SubSeq(r, 1, e)
  <2>1. e \in 0 .. 3 /\ \A i \in 1 .. e : r[i] \in S
    BY <1>0, <1>3
  <2>2. /\ s \in Seq(S) /\ Len(s) = (IF 1 <= e THEN e - 1 + 1 ELSE 0)
        /\ \A i \in 1 .. (e - 1 + 1) : s[i] = r[1 + i - 1]
    BY <2>1, SubSeqProperties
  <2> HIDE DEF s
  <2> QED BY <2>1, <2>2 DEF s
<1>8. /\ SubSeq(r, k + n + 1, 3) \in Seq(S) /\ Len(SubSeq(r, k + n + 1, 3)) = 3 - k - n
      /\ \A i \in 1 .. (3 - k - n) : SubSeq(r, k + n + 1, 3)[i] = r[k + n + i]
  <2> DEFINE b == k + n + 1
             s == SubSeq(r, b, 3)
  <2>1. b \in 1 .. 4 /\ \A i \in b .. 3 : r[i] \in S
    BY <1>0, <1>3
  <2>2. /\ s \in Seq(S) /\ Len(s) = (IF b <= 3 THEN 3 - b + 1 ELSE 0)
        /\ \A i \in 1 .. (3 - b + 1) : s[i] = r[b + i - 1]
    BY <2>1, SubSeqProperties
  <2> HIDE DEF s
  <2>3. Len(s) = 3 - k - n /\ \A i \in 1 .. (3 - k - n) : s[i] = r[k + n + i]
    BY <1>3, <2>2
  <2> QED BY <2>2, <2>3 DEF s
<1>9. got \o piece = SubSeq(r, 1, k + n)
  <2> DEFINE s == got \o piece
             t == SubSeq(r, 1, k + n)
  <2>1. s \in Seq(S) /\ t \in Seq(S) /\ Len(s) = Len(t) /\ \A i \in 1 .. Len(s) : s[i] = t[i]
    BY <1>6, <1>7
  <2> HIDE DEF s, t
  <2>2. s = t
    BY <2>1, SeqEqual
  <2> QED BY <2>2 DEF s, t
<1>10. left = SubSeq(r, k + n + 1, 3)
  BY <1>5, <1>8, SeqEqual
<1> QED BY <1>3, <1>9, <1>10 DEF got, rest, piece, left

\* A request before, while and after it arrives.
LEMMA Requests ==
    ASSUME NEW id \in Nat, NEW method \in Method
    PROVE  /\ Request(id, method) \in Seq({"id", "method", "end"} \X (Nat \cup Method))
           /\ Len(Request(id, method)) = 3
           /\ SubSeq(Request(id, method), 1, 0) = <<>> /\ SubSeq(Request(id, method), 4, 3) = <<>>
           /\ SubSeq(Request(id, method), 1, 3) = Request(id, method)
<1> DEFINE r == Request(id, method)
           S == {"id", "method", "end"} \X (Nat \cup Method)
<1>1. r \in Seq(S) /\ Len(r) = 3
  <2>1. <<"id", id>> \in S /\ <<"method", method>> \in S /\ <<"end", 0>> \in S
    OBVIOUS
  <2> HIDE DEF S
  <2> QED BY <2>1 DEF Request
<1>2. SubSeq(r, 1, 0) = <<>> /\ SubSeq(r, 4, 3) = <<>>
  BY SubSeqEmpty
<1>3. SubSeq(r, 1, 3) = r
  <2> HIDE DEF r, S
  <2> QED BY <1>1, SubSeqFull
<1> QED BY <1>1, <1>2, <1>3

\* A client sends one request at a time.
LEMMA SendFrame ==
    ASSUME FrameInv, NEW c \in Conn, NEW method \in Method, Sidecar!Send(c, method)
    PROVE  FrameInv'
<1> DEFINE id == x4[c].id + 1
           r == Request(id, method)
           sent == [id |-> id, waits |-> TRUE, answer |-> None]
<1>1. x3 \in [Conn -> Handlers] /\ x4 \in [Conn -> Callers] /\ x4[c].id \in Nat /\ id \in Nat
  BY DEF FrameInv, Callers
<1>2. ~ x4[c].waits /\ x3[c].pc = "recv" /\ x1[c] = <<>> /\ x2[c] = <<>>
  BY DEF FrameInv, Sidecar!Send
<1>3. /\ x1' = [x1 EXCEPT ![c] = x1[c] \o r] /\ x4' = [x4 EXCEPT ![c] = sent]
      /\ x2' = x2 /\ x3' = x3
  BY DEF Sidecar!Send, Sidecar!Newline, Request
<1>4. /\ SubSeq(r, 1, 0) = <<>> /\ SubSeq(r, 1, 3) = r
      /\ r \in Seq({"id", "method", "end"} \X (Nat \cup Method))
  BY <1>1, Requests
<1> HIDE DEF id, r
<1>5. <<>> \o r = r
  BY <1>4, ConcatEmptySeq
<1>6. sent \in Callers
  BY <1>1 DEF Callers
<1>7. x4' \in [Conn -> Callers] /\ x4'[c] = sent /\ \A d \in Conn \ {c} : x4'[d] = x4[d]
  BY <1>1, <1>3, <1>6
<1>8. DOMAIN x1' = Conn /\ x1'[c] = r /\ \A d \in Conn \ {c} : x1'[d] = x1[d]
  BY <1>2, <1>3, <1>5 DEF FrameInv
<1>9. Pieces(c, method, 0)'
  <2>1. x4'[c].id = id
    BY <1>7
  <2>2. x2'[c] = SubSeq(r, 1, 0)
    BY <1>2, <1>3, <1>4
  <2>3. x1'[c] = SubSeq(r, 0 + 1, 3)
    BY <1>4, <1>8
  <2> QED BY <2>1, <2>2, <2>3 DEF Pieces, r
<1>10. ASSUME NEW d \in Conn
       PROVE  /\ IF x4'[d].waits /\ x3'[d].pc = "recv"
                   THEN \E m \in Method, k \in 0 .. 3 : Pieces(d, m, k)'
                   ELSE x1'[d] = <<>> /\ x2'[d] = <<>>
              /\ x3'[d].pc # "closed" /\ (~ x4'[d].waits => x3'[d].pc = "recv")
              /\ x3'[d].pc # "recv" => x3'[d].id = x4'[d].id /\ x3'[d].method \in Method
              /\ x4'[d].answer # None => x4'[d].answer.id = x4'[d].id
  <2>1. CASE d = c
    BY <1>2, <1>3, <1>7, <1>9, <2>1
  <2>2. CASE d # c
    <3>1. x4'[d] = x4[d] /\ x1'[d] = x1[d] /\ x2'[d] = x2[d] /\ x3'[d] = x3[d]
      BY <1>3, <1>7, <1>8, <2>2
    <3>2. \A m \in Method, k \in 0 .. 3 : Pieces(d, m, k) => Pieces(d, m, k)'
      BY <3>1 DEF Pieces
    <3> QED BY <3>1, <3>2 DEF FrameInv
  <2> QED BY <2>1, <2>2
<1> QED BY <1>1, <1>3, <1>7, <1>8, <1>10 DEF FrameInv, Handlers, Callers, Answers, Turns

\* Its pieces arrive in order.
LEMMA RecvFrame ==
    ASSUME FrameInv, NEW c \in Conn, Sidecar!Recv(c)
    PROVE  FrameInv'
<1>1. PICK n \in 1 .. MaxChunk :
        /\ n <= Len(x1[c])
        /\ x2' = [x2 EXCEPT ![c] = x2[c] \o SubSeq(x1[c], 1, n)]
        /\ x1' = [x1 EXCEPT ![c] = SubSeq(x1[c], n + 1, Len(x1[c]))]
  BY DEF Sidecar!Recv
<1>2. n \in Nat /\ n # 0
  BY BoundsAssumption
<1>3. x3' = x3 /\ x4' = x4 /\ x3[c].pc = "recv"
  BY DEF Sidecar!Recv
<1>4. x4[c].waits
  <2>1. x1[c] # <<>>
    BY <1>1, <1>2
  <2> QED BY <2>1 DEF FrameInv
<1>5. PICK method \in Method, k \in 0 .. 3 : Pieces(c, method, k)
  BY <1>3, <1>4 DEF FrameInv
<1> DEFINE r == Request(x4[c].id, method)
<1>6. r \in Seq({"id", "method", "end"} \X (Nat \cup Method)) /\ Len(r) = 3
  BY Requests DEF FrameInv, Callers
<1>7. x2[c] = SubSeq(r, 1, k) /\ x1[c] = SubSeq(r, k + 1, 3)
  BY <1>5 DEF Pieces
<1> HIDE DEF r
<1>8. /\ k + n \in 0 .. 3
      /\ x2[c] \o SubSeq(x1[c], 1, n) = SubSeq(r, 1, k + n)
      /\ SubSeq(x1[c], n + 1, Len(x1[c])) = SubSeq(r, k + n + 1, 3)
  BY <1>1, <1>2, <1>6, <1>7, Arrives
<1>9. /\ DOMAIN x1' = Conn /\ DOMAIN x2' = Conn
      /\ x2'[c] = SubSeq(r, 1, k + n) /\ x1'[c] = SubSeq(r, k + n + 1, 3)
      /\ \A d \in Conn \ {c} : x1'[d] = x1[d] /\ x2'[d] = x2[d]
  BY <1>1, <1>8 DEF FrameInv
<1>10. \E m \in Method, j \in 0 .. 3 : Pieces(c, m, j)'
  <2>1. Pieces(c, method, k + n)'
    BY <1>3, <1>9 DEF Pieces, r
  <2> QED BY <1>8, <2>1
<1>11. ASSUME NEW d \in Conn
       PROVE  IF x4'[d].waits /\ x3'[d].pc = "recv"
                THEN \E m \in Method, j \in 0 .. 3 : Pieces(d, m, j)'
                ELSE x1'[d] = <<>> /\ x2'[d] = <<>>
  <2>1. CASE d = c
    BY <1>3, <1>4, <1>10, <2>1
  <2>2. CASE d # c
    <3>1. \A m \in Method, j \in 0 .. 3 : Pieces(d, m, j) => Pieces(d, m, j)'
      BY <1>3, <1>9, <2>2 DEF Pieces
    <3> QED BY <1>3, <1>9, <2>2, <3>1 DEF FrameInv
  <2> QED BY <2>1, <2>2
<1> QED BY <1>3, <1>9, <1>11 DEF FrameInv, Handlers, Callers, Answers, Turns

\* Only a whole request is dispatched, for what the client sent.
LEMMA DispatchFrame ==
    ASSUME FrameInv, NEW c \in Conn, Sidecar!Dispatch(c)
    PROVE  FrameInv' /\ \E method \in Method : x6' = Sidecar!Written(x6, method) /\ x7' = Append(x7, method)
<1>1. x3[c].pc = "recv" /\ Sidecar!Newline \in Sidecar!Range(x2[c]) /\ x1' = x1 /\ x4' = x4
  BY DEF Sidecar!Dispatch
<1>2. x4[c].waits
  <2>1. x2[c] # <<>>
    BY <1>1 DEF Sidecar!Range
  <2> QED BY <2>1 DEF FrameInv
<1>3. PICK method \in Method, k \in 0 .. 3 : Pieces(c, method, k)
  BY <1>1, <1>2 DEF FrameInv
<1> DEFINE id == x4[c].id
           r == Request(id, method)
           handling == [pc |-> "handle", id |-> id, method |-> method, local |-> <<>>]
<1>4. /\ id \in Nat /\ r \in Seq({"id", "method", "end"} \X (Nat \cup Method)) /\ Len(r) = 3
      /\ SubSeq(r, 4, 3) = <<>> /\ SubSeq(r, 1, 3) = r
  <2>1. id \in Nat
    BY DEF FrameInv, Callers
  <2> QED BY <2>1, Requests
<1>5. r[1] # Sidecar!Newline /\ r[2] # Sidecar!Newline /\ r[3] = Sidecar!Newline
  BY DEF Request, Sidecar!Newline
<1>6. k = 3
  <2>1. PICK i \in 1 .. Len(SubSeq(r, 1, k)) : SubSeq(r, 1, k)[i] = Sidecar!Newline
    BY <1>1, <1>3 DEF Sidecar!Range, Pieces
  <2>2. \A j \in 1 .. k : r[j] \in {"id", "method", "end"} \X (Nat \cup Method)
    BY <1>4, ElementOfSeq
  <2>3. /\ Len(SubSeq(r, 1, k)) = (IF 1 <= k THEN k - 1 + 1 ELSE 0)
        /\ \A j \in 1 .. (k - 1 + 1) : SubSeq(r, 1, k)[j] = r[1 + j - 1]
    BY <2>2, SubSeqProperties
  <2> HIDE DEF r
  <2>4. i \in 1 .. k /\ r[i] = Sidecar!Newline
    BY <2>1, <2>3
  <2> QED BY <1>5, <2>4
<1>7. x2[c] = r /\ x1[c] = <<>>
  BY <1>3, <1>4, <1>6 DEF Pieces
<1>8. Sidecar!LineEnd(r) = 3
  <2>1. DOMAIN r = 1 .. 3
    BY <1>4
  <2> HIDE DEF r
  <2> QED BY <1>5, <2>1 DEF Sidecar!LineEnd
<1>9. Len(Sidecar!Line(r)) = 2 /\ Sidecar!Line(r)[1] = r[1] /\ Sidecar!Line(r)[2] = r[2]
  <2>1. \A j \in 1 .. 2 : r[j] \in {"id", "method", "end"} \X (Nat \cup Method)
    BY <1>4, ElementOfSeq
  <2>2. /\ Len(SubSeq(r, 1, 2)) = (IF 1 <= 2 THEN 2 - 1 + 1 ELSE 0)
        /\ \A j \in 1 .. (2 - 1 + 1) : SubSeq(r, 1, 2)[j] = r[1 + j - 1]
    BY <2>1, SubSeqProperties
  <2>3. Sidecar!Line(r) = SubSeq(r, 1, 2)
    <3> HIDE DEF r
    <3> QED BY <1>8 DEF Sidecar!Line
  <2> HIDE DEF r
  <2> QED BY <2>2, <2>3
<1>10. /\ x3' = [x3 EXCEPT ![c] = handling]
       /\ x2' = [x2 EXCEPT ![c] = SubSeq(r, 4, Len(r))]
       /\ x6' = Sidecar!Written(x6, method) /\ x7' = Append(x7, method)
  <2>1. r[1][2] = id /\ r[2][2] = method
    BY DEF Request
  <2> HIDE DEF r
  <2> QED BY <1>7, <1>8, <1>9, <2>1 DEF Sidecar!Dispatch, Sidecar!Log
<1>11. handling \in Handlers
  <2>1. <<>> \in Seq(Turns)
    BY EmptySeq
  <2> QED BY <1>4, <2>1 DEF Handlers
<1>12. /\ x3' \in [Conn -> Handlers] /\ x3'[c] = handling /\ \A d \in Conn \ {c} : x3'[d] = x3[d]
       /\ DOMAIN x2' = Conn /\ x2'[c] = <<>> /\ \A d \in Conn \ {c} : x2'[d] = x2[d]
  <2> HIDE DEF handling, r
  <2> QED BY <1>4, <1>10, <1>11 DEF FrameInv
<1>13. ASSUME NEW d \in Conn
       PROVE  /\ IF x4'[d].waits /\ x3'[d].pc = "recv"
                   THEN \E m \in Method, j \in 0 .. 3 : Pieces(d, m, j)'
                   ELSE x1'[d] = <<>> /\ x2'[d] = <<>>
              /\ x3'[d].pc # "closed" /\ (~ x4'[d].waits => x3'[d].pc = "recv")
              /\ x3'[d].pc # "recv" => x3'[d].id = x4'[d].id /\ x3'[d].method \in Method
              /\ x4'[d].answer # None => x4'[d].answer.id = x4'[d].id
  <2>1. CASE d = c
    BY <1>1, <1>2, <1>7, <1>12, <2>1 DEF FrameInv
  <2>2. CASE d # c
    <3>1. x4'[d] = x4[d] /\ x1'[d] = x1[d] /\ x2'[d] = x2[d] /\ x3'[d] = x3[d]
      BY <1>1, <1>12, <2>2
    <3>2. \A m \in Method, j \in 0 .. 3 : Pieces(d, m, j) => Pieces(d, m, j)'
      BY <3>1 DEF Pieces
    <3> QED BY <3>1, <3>2 DEF FrameInv
  <2> QED BY <2>1, <2>2
<1>14. FrameInv'
  BY <1>1, <1>12, <1>13 DEF FrameInv, Handlers, Callers, Answers, Turns
<1> QED BY <1>10, <1>14

\* What a handler does with its request leaves what is on the way alone.
LEMMA HandlerMoves ==
    ASSUME FrameInv, NEW c \in Conn, NEW w \in Handlers,
           x3[c].pc # "recv", w.pc \notin {"recv", "closed"}, w.id = x3[c].id, w.method = x3[c].method,
           x3' = [x3 EXCEPT ![c] = w], x1' = x1, x2' = x2, x4' = x4
    PROVE  FrameInv' /\ x3'[c] = w /\ \A d \in Conn \ {c} : x3'[d] = x3[d]
<1>1. x3' \in [Conn -> Handlers] /\ x3'[c] = w /\ \A d \in Conn \ {c} : x3'[d] = x3[d]
  BY DEF FrameInv
<1>2. ASSUME NEW d \in Conn
      PROVE  /\ IF x4'[d].waits /\ x3'[d].pc = "recv"
                  THEN \E m \in Method, j \in 0 .. 3 : Pieces(d, m, j)'
                  ELSE x1'[d] = <<>> /\ x2'[d] = <<>>
             /\ x3'[d].pc # "closed" /\ (~ x4'[d].waits => x3'[d].pc = "recv")
             /\ x3'[d].pc # "recv" => x3'[d].id = x4'[d].id /\ x3'[d].method \in Method
             /\ x4'[d].answer # None => x4'[d].answer.id = x4'[d].id
  <2>1. CASE d = c
    BY <1>1, <2>1 DEF FrameInv
  <2>2. CASE d # c
    <3>1. \A m \in Method, j \in 0 .. 3 : Pieces(d, m, j) => Pieces(d, m, j)'
      BY DEF Pieces
    <3> QED BY <1>1, <2>2, <3>1 DEF FrameInv
  <2> QED BY <2>1, <2>2
<1> QED BY <1>1, <1>2 DEF FrameInv, Handlers, Callers, Answers, Turns

\* A turn reads the session's messages, and overlaps any other that runs.
LEMMA HandleKeeps ==
    ASSUME FrameInv, TurnInv, NEW c \in Conn, Sidecar!Handle(c)
    PROVE  FrameInv' /\ TurnInv'
<1>1. x3[c] \in Handlers /\ x3[c].pc = "handle" /\ x1' = x1 /\ x2' = x2 /\ x4' = x4
  BY DEF Sidecar!Handle, FrameInv
<1>2. CASE x3[c].method = "agent/send" /\ x5 # None
  <2> DEFINE w == [x3[c] EXCEPT !.pc = "turn", !.local = x5]
             own == <<c, x3[c].id>>
  <2>1. /\ x3' = [x3 EXCEPT ![c] = w] /\ x5' = x5
        /\ x8' = IF Sidecar!Others(c) = {} THEN x8
                 ELSE x8 \cup {own} \cup {<<d, x3[d].id>> : d \in Sidecar!Others(c)}
    BY <1>2 DEF Sidecar!Handle, Sidecar!Turn, FrameInv, Handlers
  <2>2. x5 \in Seq(Turns)
    BY <1>2 DEF TurnInv
  <2>3. w \in Handlers /\ w.pc = "turn" /\ w.id = x3[c].id /\ w.method = x3[c].method /\ w.local = x5
    BY <1>1, <2>2 DEF Handlers
  <2> HIDE DEF w
  <2>4. FrameInv' /\ x3'[c] = w /\ \A d \in Conn \ {c} : x3'[d] = x3[d]
    BY <1>1, <2>1, <2>3, HandlerMoves
  <2>5. /\ x8 \subseteq x8'
        /\ \A d \in Conn \ {c} : x3[d].pc = "turn" => own \in x8' /\ <<d, x3[d].id>> \in x8'
    <3>1. \A d \in Conn \ {c} : x3[d].pc = "turn" => d \in Sidecar!Others(c)
      BY DEF Sidecar!Others
    <3> HIDE DEF own
    <3> QED BY <2>1, <3>1
  <2>6. ASSUME NEW d \in Conn, NEW e \in Conn, d # e, x3'[d].pc = "turn", x3'[e].pc = "turn"
        PROVE  <<d, x3'[d].id>> \in x8'
    <3>1. CASE d = c
      <4>1. <<d, x3'[d].id>> = own
        BY <2>3, <2>4, <3>1
      <4>2. x3[e].pc = "turn" /\ e \in Conn \ {c}
        BY <2>4, <2>6, <3>1
      <4> HIDE DEF own
      <4> QED BY <2>5, <4>1, <4>2
    <3>2. CASE d # c /\ e = c
      BY <2>4, <2>5, <2>6, <3>2
    <3>3. CASE d # c /\ e # c
      BY <2>4, <2>5, <2>6, <3>3 DEF TurnInv
    <3> QED BY <3>1, <3>2, <3>3
  <2>7. ASSUME NEW d \in Conn, x3'[d].pc = "turn" PROVE Has(x3'[d].local) \ x8' = Has(x5') \ x8'
    BY <1>2, <2>1, <2>3, <2>4, <2>5, <2>7 DEF TurnInv
  <2>8. ASSUME NEW d \in Conn
        PROVE  /\ x3'[d].pc = "answer" /\ x3'[d].method = "agent/send" => <<d, x3'[d].id>> \in Has(x5') \cup x8'
               /\ x4'[d].answer # None /\ x4'[d].answer.method = "agent/send" /\ x4'[d].answer.ok =>
                     <<d, x4'[d].answer.id>> \in Has(x5') \cup x8'
    BY <1>1, <1>2, <2>1, <2>3, <2>4, <2>5 DEF TurnInv
  <2> QED BY <2>1, <2>2, <2>4, <2>6, <2>7, <2>8 DEF TurnInv, Has
<1>3. CASE ~ (x3[c].method = "agent/send" /\ x5 # None)
  <2> DEFINE w == [x3[c] EXCEPT !.pc = "answer"]
  <2>1. /\ x3' = [x3 EXCEPT ![c] = w] /\ x8' = x8
        /\ x5' = None \/ (x5' = x5 /\ x3[c].method # "agent/send")
    BY <1>3 DEF Sidecar!Handle, FrameInv, Handlers
  <2>2. w \in Handlers /\ w.pc = "answer" /\ w.id = x3[c].id /\ w.method = x3[c].method
    BY <1>1 DEF Handlers
  <2> HIDE DEF w
  <2>3. FrameInv' /\ x3'[c] = w /\ \A d \in Conn \ {c} : x3'[d] = x3[d]
    BY <1>1, <2>1, <2>2, HandlerMoves
  <2>4. \A d, e \in Conn : d # e /\ x3'[d].pc = "turn" /\ x3'[e].pc = "turn" => <<d, x3'[d].id>> \in x8'
    BY <2>1, <2>2, <2>3 DEF TurnInv
  <2>5. CASE x5' = None
    BY <2>3, <2>4, <2>5 DEF TurnInv
  <2>6. CASE x5' = x5 /\ x3[c].method # "agent/send"
    BY <1>1, <2>1, <2>2, <2>3, <2>4, <2>6 DEF TurnInv, Has
  <2> QED BY <2>1, <2>5, <2>6
<1> QED BY <1>2, <1>3

\* A turn is saved with what it read; who read before overlaps it.
LEMMA SaveKeeps ==
    ASSUME FrameInv, TurnInv, NEW c \in Conn, Sidecar!SaveTurn(c)
    PROVE  FrameInv' /\ TurnInv'
<1> DEFINE w == [x3[c] EXCEPT !.pc = "answer"]
           own == <<c, x3[c].id>>
<1>1. /\ x3[c] \in Handlers /\ x3[c].pc = "turn" /\ x1' = x1 /\ x2' = x2 /\ x4' = x4 /\ x8' = x8
      /\ x3' = [x3 EXCEPT ![c] = w]
      /\ x5' = IF x5 = None THEN None ELSE Append(x3[c].local, own)
  BY DEF Sidecar!SaveTurn, Sidecar!Turn, FrameInv, Handlers
<1>2. w \in Handlers /\ w.pc = "answer" /\ w.id = x3[c].id /\ w.method = x3[c].method
  BY <1>1 DEF Handlers
<1> HIDE DEF w
<1>3. FrameInv' /\ x3'[c] = w /\ \A d \in Conn \ {c} : x3'[d] = x3[d]
  BY <1>1, <1>2, HandlerMoves
<1>4. \A d, e \in Conn : d # e /\ x3'[d].pc = "turn" /\ x3'[e].pc = "turn" => <<d, x3'[d].id>> \in x8'
  BY <1>1, <1>2, <1>3 DEF TurnInv
<1>5. CASE x5 = None
  BY <1>1, <1>3, <1>4, <1>5 DEF TurnInv
<1>6. CASE x5 # None
  <2>1. own \in Turns /\ x3[c].local \in Seq(Turns) /\ x5' = Append(x3[c].local, own)
    BY <1>1, <1>6 DEF Handlers, Turns
  <2>2. x5' \in Seq(Turns) /\ Has(x5') = Has(x3[c].local) \cup {own}
    <3> DEFINE s == x3[c].local
    <3>1. s \in Seq(Turns) /\ DOMAIN s = 1 .. Len(s) /\ Len(s) \in Nat
      BY <2>1, LenProperties
    <3> HIDE DEF s, own
    <3>2. /\ Append(s, own) \in Seq(Turns) /\ Len(Append(s, own)) = Len(s) + 1
          /\ \A i \in 1 .. Len(s) : Append(s, own)[i] = s[i]
          /\ Append(s, own)[Len(s) + 1] = own
      BY <2>1, <3>1, AppendProperties
    <3>3. DOMAIN Append(s, own) = 1 .. (Len(s) + 1)
      BY <3>2, LenProperties
    <3>4. Has(Append(s, own)) = Has(s) \cup {own}
      BY <3>1, <3>2, <3>3 DEF Has
    <3> QED BY <2>1, <3>2, <3>4 DEF s
  <2>3. Has(x3[c].local) \ x8 = Has(x5) \ x8
    BY <1>1, <1>6 DEF TurnInv
  <2> HIDE DEF own
  <2>4. ASSUME NEW d \in Conn, x3'[d].pc = "turn" PROVE Has(x3'[d].local) \ x8' = Has(x5') \ x8'
    <3>1. d # c /\ x3'[d] = x3[d]
      BY <1>2, <1>3, <2>4
    <3>2. own \in x8 /\ Has(x3[d].local) \ x8 = Has(x5) \ x8
      BY <1>1, <1>6, <2>4, <3>1 DEF TurnInv, own
    <3> QED BY <1>1, <2>2, <2>3, <3>1, <3>2
  <2>5. Has(x5) \cup x8 \subseteq Has(x5') \cup x8' /\ own \in Has(x5')
    BY <1>1, <2>2, <2>3
  <2>6. ASSUME NEW d \in Conn
        PROVE  /\ x3'[d].pc = "answer" /\ x3'[d].method = "agent/send" => <<d, x3'[d].id>> \in Has(x5') \cup x8'
               /\ x4'[d].answer # None /\ x4'[d].answer.method = "agent/send" /\ x4'[d].answer.ok =>
                     <<d, x4'[d].answer.id>> \in Has(x5') \cup x8'
    <3>1. CASE d = c
      BY <1>1, <1>2, <1>3, <1>6, <2>5, <3>1 DEF TurnInv, own
    <3>2. CASE d # c
      BY <1>1, <1>3, <1>6, <2>5, <3>2 DEF TurnInv
    <3> QED BY <3>1, <3>2
  <2>7. x5' \in Seq(Turns)
    BY <2>2
  <2> QED BY <1>3, <1>4, <2>4, <2>6, <2>7 DEF TurnInv
<1> QED BY <1>5, <1>6

\* A turn that fails saves nothing.
LEMMA FailKeeps ==
    ASSUME FrameInv, TurnInv, NEW c \in Conn, Sidecar!TurnFails(c)
    PROVE  FrameInv' /\ TurnInv'
<1> DEFINE w == [x3[c] EXCEPT !.pc = "error"]
<1>1. /\ x3[c] \in Handlers /\ x3[c].pc = "turn" /\ x1' = x1 /\ x2' = x2 /\ x4' = x4 /\ x5' = x5 /\ x8' = x8
      /\ x3' = [x3 EXCEPT ![c] = w]
  BY DEF Sidecar!TurnFails, FrameInv, Handlers
<1>2. w \in Handlers /\ w.pc = "error" /\ w.id = x3[c].id /\ w.method = x3[c].method
  BY <1>1 DEF Handlers
<1> HIDE DEF w
<1>3. FrameInv' /\ x3'[c] = w /\ \A d \in Conn \ {c} : x3'[d] = x3[d]
  BY <1>1, <1>2, HandlerMoves
<1> QED BY <1>1, <1>2, <1>3 DEF TurnInv, Has, Turns

\* The answer is for the request that was sent.
LEMMA AnswerKeeps ==
    ASSUME FrameInv, TurnInv, NEW c \in Conn, Sidecar!Answer(c)
    PROVE  FrameInv' /\ TurnInv'
<1> DEFINE got == [id |-> x3[c].id, method |-> x3[c].method, ok |-> (x3[c].pc = "answer" /\ x5 # None)]
           asked == [id |-> x4[c].id, waits |-> FALSE, answer |-> got]
<1>1. /\ x3[c] \in Handlers /\ x4[c] \in Callers /\ x3[c].pc \in {"answer", "error"}
      /\ x3[c].id = x4[c].id /\ x3[c].method \in Method
      /\ x1[c] = <<>> /\ x2[c] = <<>>
  BY DEF Sidecar!Answer, FrameInv
<1>2. /\ x1' = x1 /\ x2' = x2 /\ x5' = x5 /\ x8' = x8
      /\ x3' = [x3 EXCEPT ![c] = Sidecar!Waiting] /\ x4' = [x4 EXCEPT ![c] = asked]
  BY DEF Sidecar!Answer, FrameInv, Callers
<1>3. got \in Answers
  <2> DEFINE ok == x3[c].pc = "answer" /\ x5 # None
  <2>1. ok \in BOOLEAN /\ x3[c].id \in Nat
    BY <1>1 DEF Handlers
  <2> HIDE DEF ok
  <2> QED BY <1>1, <2>1 DEF Answers, ok
<1>4. asked \in Callers /\ Sidecar!Waiting \in Handlers
  <2>1. <<>> \in Seq(Turns)
    BY EmptySeq
  <2> HIDE DEF got
  <2> QED BY <1>1, <1>3, <2>1 DEF Callers, Handlers, Sidecar!Waiting
<1>5. /\ x3' \in [Conn -> Handlers] /\ x3'[c] = Sidecar!Waiting /\ \A d \in Conn \ {c} : x3'[d] = x3[d]
      /\ x4' \in [Conn -> Callers] /\ x4'[c] = asked /\ \A d \in Conn \ {c} : x4'[d] = x4[d]
  <2> HIDE DEF asked
  <2> QED BY <1>2, <1>4 DEF FrameInv
<1>6. /\ asked.id = x4[c].id /\ ~ asked.waits /\ asked.answer = got /\ Sidecar!Waiting.pc = "recv"
      /\ got.id = x3[c].id /\ got.method = x3[c].method /\ (got.ok => x3[c].pc = "answer")
  BY DEF Sidecar!Waiting
<1> HIDE DEF got, asked
<1>7. ASSUME NEW d \in Conn
      PROVE  /\ IF x4'[d].waits /\ x3'[d].pc = "recv"
                  THEN \E m \in Method, j \in 0 .. 3 : Pieces(d, m, j)'
                  ELSE x1'[d] = <<>> /\ x2'[d] = <<>>
             /\ x3'[d].pc # "closed" /\ (~ x4'[d].waits => x3'[d].pc = "recv")
             /\ x3'[d].pc # "recv" => x3'[d].id = x4'[d].id /\ x3'[d].method \in Method
             /\ x4'[d].answer # None => x4'[d].answer.id = x4'[d].id
  <2>1. CASE d = c
    BY <1>1, <1>2, <1>5, <1>6, <2>1
  <2>2. CASE d # c
    <3>1. x4'[d] = x4[d] /\ x1'[d] = x1[d] /\ x2'[d] = x2[d] /\ x3'[d] = x3[d]
      BY <1>2, <1>5, <2>2
    <3>2. \A m \in Method, j \in 0 .. 3 : Pieces(d, m, j) => Pieces(d, m, j)'
      BY <3>1 DEF Pieces
    <3> QED BY <3>1, <3>2 DEF FrameInv
  <2> QED BY <2>1, <2>2
<1>8. FrameInv'
  BY <1>2, <1>5, <1>7 DEF FrameInv, Handlers, Callers, Answers, Turns
<1>9. ASSUME NEW d \in Conn, x5 # None
      PROVE  /\ x3'[d].pc = "turn" => Has(x3'[d].local) \ x8' = Has(x5') \ x8'
             /\ x3'[d].pc = "answer" /\ x3'[d].method = "agent/send" => <<d, x3'[d].id>> \in Has(x5') \cup x8'
             /\ x4'[d].answer # None /\ x4'[d].answer.method = "agent/send" /\ x4'[d].answer.ok =>
                   <<d, x4'[d].answer.id>> \in Has(x5') \cup x8'
  <2>1. CASE d = c
    BY <1>2, <1>5, <1>6, <1>9, <2>1 DEF TurnInv
  <2>2. CASE d # c
    BY <1>2, <1>5, <1>9, <2>2 DEF TurnInv
  <2> QED BY <2>1, <2>2
<1>10. \A d, e \in Conn : d # e /\ x3'[d].pc = "turn" /\ x3'[e].pc = "turn" => <<d, x3'[d].id>> \in x8'
  BY <1>2, <1>5, <1>6 DEF TurnInv
<1> QED BY <1>2, <1>8, <1>9, <1>10 DEF TurnInv, Has, Turns

\* Requests that arrive, turns that are saved and bytes that are kept.
SidecarInv == scenario = "sidecar" => FrameInv /\ TurnInv /\ RingInv

\* Requests reach their handler whole, turns that ran alone are in the messages, and the
\* ring has the newest bytes, whatever the connections and the buffer's size.
THEOREM SidecarInvariant == Spec => []SidecarInv
<1>1. Init => SidecarInv
  <2> SUFFICES ASSUME Init, scenario = "sidecar" PROVE FrameInv /\ TurnInv /\ RingInv
    BY DEF SidecarInv
  <2>1. Sidecar!Init
    BY Starts
  <2>2. <<>> \in Seq(Turns) /\ <<>> \in Seq(Bytes) /\ Len(<<>>) = 0
    BY EmptySeq
  <2>3. Sidecar!Waiting \in Handlers /\ Sidecar!Waiting.pc = "recv"
    BY <2>2 DEF Sidecar!Waiting, Handlers
  <2>4. [id |-> 0, waits |-> FALSE, answer |-> None] \in Callers
    BY DEF Callers
  <2>5. FrameInv
    BY <2>1, <2>3, <2>4 DEF Sidecar!Init, FrameInv
  <2>6. TurnInv
    BY <2>1, <2>2, <2>3 DEF Sidecar!Init, TurnInv
  <2>7. Newest(x6.buffer, 0, <<>>)
    BY <2>2, BoundsAssumption DEF Newest
  <2>8. /\ x7 = <<>> /\ x6 = [buffer |-> [i \in 0 .. (BufferSize - 1) |-> None], pos |-> 0, total |-> 0]
        /\ 0 \in 0 .. (BufferSize - 1) /\ 0 \in Nat
    BY <2>1, BoundsAssumption DEF Sidecar!Init, Sidecar!Empty
  <2>9. [i \in 0 .. (BufferSize - 1) |-> None] \in Buffers
    BY DEF Buffers
  <2>10. RingInv
    BY <2>2, <2>7, <2>8, <2>9 DEF RingInv
  <2> QED BY <2>5, <2>6, <2>10
<1>2. SidecarInv /\ [Next]_Vars => SidecarInv'
  <2> SUFFICES ASSUME SidecarInv, [Next]_Vars, scenario' = "sidecar"
               PROVE  (FrameInv /\ TurnInv /\ RingInv)'
    BY DEF SidecarInv
  <2>1. CASE UNCHANGED Vars
    <3>1. /\ scenario' = scenario /\ x1' = x1 /\ x2' = x2 /\ x3' = x3 /\ x4' = x4 /\ x5' = x5 /\ x6' = x6
          /\ x7' = x7 /\ x8' = x8
      BY <2>1 DEF Vars
    <3>2. FrameInv /\ TurnInv /\ RingInv
      BY <3>1 DEF SidecarInv
    <3>3. FrameInv'
      BY ZenonT(40), <3>1, <3>2 DEF FrameInv, Pieces, Handlers, Callers, Answers, Turns
    <3>4. TurnInv'
      BY <3>1, <3>2 DEF TurnInv, Turns
    <3>5. RingInv'
      BY <3>1, <3>2 DEF RingInv, Newest, Buffers, Bytes, Method
    <3> QED BY <3>3, <3>4, <3>5
  <2>2. CASE Next
    <3>1. FrameInv /\ TurnInv /\ RingInv /\ Sidecar!Next
      BY <2>2, Steps DEF SidecarInv
    <3>2. x6' = x6 /\ x7' = x7 => RingInv'
      BY <3>1 DEF RingInv, Newest, Buffers, Bytes, Method
    <3>3. x3' = x3 /\ x5' = x5 /\ x8' = x8 /\ (\A c \in Conn : x4'[c] = x4[c] \/ x4'[c].answer = None) => TurnInv'
      BY <3>1 DEF TurnInv, Turns
    <3>4. ASSUME NEW c \in Conn, NEW method \in Method, Sidecar!Send(c, method) PROVE (FrameInv /\ TurnInv /\ RingInv)'
      <4>1. FrameInv'
        BY <3>1, <3>4, SendFrame
      <4>2. \A d \in Conn : x4'[d] = x4[d] \/ x4'[d].answer = None
        BY <3>1, <3>4 DEF Sidecar!Send, FrameInv
      <4> QED BY <3>2, <3>3, <3>4, <4>1, <4>2 DEF Sidecar!Send
    <3>5. ASSUME NEW c \in Conn, Sidecar!Recv(c) PROVE (FrameInv /\ TurnInv /\ RingInv)'
      <4>1. FrameInv'
        BY <3>1, <3>5, RecvFrame
      <4> QED BY <3>2, <3>3, <3>5, <4>1 DEF Sidecar!Recv
    <3>6. ASSUME NEW c \in Conn, Sidecar!Dispatch(c) PROVE (FrameInv /\ TurnInv /\ RingInv)'
      <4>1. FrameInv' /\ \E method \in Method : x6' = Sidecar!Written(x6, method) /\ x7' = Append(x7, method)
        BY <3>1, <3>6, DispatchFrame
      <4>2. RingInv'
        BY <3>1, <4>1, RingWrites DEF Bytes
      <4>3. x3[c].pc = "recv" /\ x4' = x4 /\ x5' = x5 /\ x8' = x8 /\ \A d \in Conn \ {c} : x3'[d] = x3[d]
        BY <3>1, <3>6 DEF Sidecar!Dispatch, FrameInv
      <4>4. x3'[c].pc \in {"handle", "closed"}
        BY <3>1, <3>6 DEF Sidecar!Dispatch, FrameInv, Handlers
      <4>5. TurnInv'
        BY <3>1, <4>3, <4>4 DEF TurnInv, Turns
      <4> QED BY <4>1, <4>2, <4>5
    <3>7. ASSUME NEW c \in Conn, Sidecar!Handle(c) PROVE (FrameInv /\ TurnInv /\ RingInv)'
      BY <3>1, <3>2, <3>7, HandleKeeps DEF Sidecar!Handle
    <3>8. ASSUME NEW c \in Conn, Sidecar!SaveTurn(c) PROVE (FrameInv /\ TurnInv /\ RingInv)'
      BY <3>1, <3>2, <3>8, SaveKeeps DEF Sidecar!SaveTurn
    <3>9. ASSUME NEW c \in Conn, Sidecar!TurnFails(c) PROVE (FrameInv /\ TurnInv /\ RingInv)'
      <4>1. x6' = Sidecar!Written(x6, "error") /\ x7' = Append(x7, "error")
        BY <3>9 DEF Sidecar!TurnFails, Sidecar!Log
      <4>2. RingInv'
        BY <3>1, <4>1, RingWrites DEF Bytes
      <4> QED BY <3>1, <3>9, <4>2, FailKeeps
    <3>10. ASSUME NEW c \in Conn, Sidecar!Answer(c) PROVE (FrameInv /\ TurnInv /\ RingInv)'
      BY <3>1, <3>2, <3>10, AnswerKeeps DEF Sidecar!Answer
    <3> QED BY <3>1, <3>4, <3>5, <3>6, <3>7, <3>8, <3>9, <3>10 DEF Sidecar!Next, Method
  <2> QED BY <2>1, <2>2
<1> QED BY <1>1, <1>2, PTL DEF Spec

\* A function on 1 .. n is a sequence of that length.
LEMMA IsSequence ==
    ASSUME NEW S, NEW n \in Nat, NEW s, DOMAIN s = 1 .. n, s = [i \in 1 .. n |-> s[i]], \A i \in 1 .. n : s[i] \in S
    PROVE  s \in Seq(S) /\ Len(s) = n
<1>1. s \in [1 .. n -> S]
  OBVIOUS
<1>2. s \in Seq(S)
  BY <1>1, SeqDef
<1>3. 1 .. Len(s) = 1 .. n /\ Len(s) \in Nat
  BY <1>2, LenProperties
<1> QED BY <1>2, <1>3

\* The ring reads as the newest bytes, oldest first (RingBuffer.read_all).
LEMMA RingReads == ASSUME RingInv PROVE Sidecar!RingKeepsLatest
<1> DEFINE n == BufferSize
           total == Len(x7)
           pos == x6.pos
           first == Sidecar!From(x6, 0, pos)
           rest == Sidecar!From(x6, pos, n)
<1>1. /\ n \in Nat \ {0} /\ pos \in 0 .. (n - 1) /\ pos \in Nat /\ total \in Nat /\ x6.total = total
      /\ x7 \in Seq(Bytes) /\ \A i \in 1 .. total : x7[i] \in Bytes
  BY BoundsAssumption, ElementOfSeq DEF RingInv
<1>2. /\ \A i \in 0 .. (pos - 1) : x6.buffer[i] = x7[total - pos + i + 1]
      /\ total < n => pos = total
      /\ total >= n => \A i \in pos .. (n - 1) : x6.buffer[i] = x7[total - n - pos + i + 1]
  BY DEF RingInv, Newest
<1>3. /\ first = [i \in 1 .. (pos - 0) |-> x6.buffer[0 + i - 1]]
      /\ rest = [i \in 1 .. (n - pos) |-> x6.buffer[pos + i - 1]]
  BY DEF Sidecar!From
<1>4. Sidecar!ReadAll(x6) = IF total < n THEN first ELSE rest \o first
  BY <1>1 DEF Sidecar!ReadAll
<1> HIDE DEF n, total, pos, first, rest
<1>5. pos <= total
  BY <1>1, <1>2
<1>6. first \in Seq(Bytes) /\ Len(first) = pos /\ \A i \in 1 .. pos : first[i] = x7[total - pos + i]
  <2>1. \A i \in 1 .. pos : x6.buffer[0 + i - 1] = x7[total - pos + i] /\ x7[total - pos + i] \in Bytes
    <3> TAKE i \in 1 .. pos
    <3> DEFINE j == i - 1
    <3>1. j \in 0 .. (pos - 1) /\ 0 + i - 1 = j /\ total - pos + j + 1 = total - pos + i
          /\ total - pos + i \in 1 .. total
      BY <1>1, <1>5
    <3> HIDE DEF j
    <3> QED BY <1>1, <1>2, <3>1
  <2>2. DOMAIN first = 1 .. pos /\ first = [i \in 1 .. pos |-> first[i]]
    BY <1>1, <1>3
  <2>3. \A i \in 1 .. pos : first[i] = x7[total - pos + i] /\ first[i] \in Bytes
    BY <1>1, <1>3, <2>1
  <2> QED BY <1>1, <2>2, <2>3, IsSequence
<1>7. CASE total < n
  <2>1. pos = total /\ Sidecar!ReadAll(x6) = first
    BY <1>2, <1>4, <1>7
  <2>2. first = x7
    <3>1. Len(first) = Len(x7) /\ \A i \in 1 .. Len(first) : first[i] = x7[i]
      BY <1>1, <1>6, <2>1 DEF total
    <3> QED BY <1>1, <1>6, <3>1, SeqEqual
  <2>3. SubSeq(x7, 1, total) = x7
    BY <1>1, SubSeqFull DEF total
  <2>4. total - total + 1 = 1
    BY <1>1
  <2> QED BY <1>7, <2>1, <2>2, <2>3, <2>4 DEF Sidecar!RingKeepsLatest, total, n
<1>8. CASE total >= n
  <2>1. rest \in Seq(Bytes) /\ Len(rest) = n - pos /\ \A i \in 1 .. (n - pos) : rest[i] = x7[total - n + i]
    <3>1. \A i \in 1 .. (n - pos) : x6.buffer[pos + i - 1] = x7[total - n + i] /\ x7[total - n + i] \in Bytes
      <4> TAKE i \in 1 .. (n - pos)
      <4> DEFINE j == pos + i - 1
      <4>1. /\ j \in pos .. (n - 1) /\ total - n - pos + j + 1 = total - n + i
            /\ total - n + i \in 1 .. total
        BY <1>1, <1>8
      <4> HIDE DEF j
      <4>2. x6.buffer[j] = x7[total - n + i]
        BY <1>2, <1>8, <4>1
      <4> QED BY <1>1, <4>1, <4>2 DEF j
    <3>2. DOMAIN rest = 1 .. (n - pos) /\ rest = [i \in 1 .. (n - pos) |-> rest[i]] /\ n - pos \in Nat
      BY <1>1, <1>3
    <3>3. \A i \in 1 .. (n - pos) : rest[i] = x7[total - n + i] /\ rest[i] \in Bytes
      BY <1>3, <3>1
    <3> QED BY <3>2, <3>3, IsSequence
  <2>2. /\ rest \o first \in Seq(Bytes) /\ Len(rest \o first) = Len(rest) + Len(first)
        /\ \A i \in 1 .. (Len(rest) + Len(first)) :
              (rest \o first)[i] = IF i <= Len(rest) THEN rest[i] ELSE first[i - Len(rest)]
    BY <1>6, <2>1, ConcatProperties
  <2>3. Len(rest \o first) = n /\ \A i \in 1 .. n : (rest \o first)[i] = x7[total - n + i]
    <3>1. Len(rest) + Len(first) = n
      BY <1>1, <1>6, <2>1
    <3>2. ASSUME NEW i \in 1 .. n PROVE (rest \o first)[i] = x7[total - n + i]
      <4>1. CASE i <= n - pos
        BY <1>1, <2>1, <2>2, <3>1, <4>1
      <4>2. CASE i > n - pos
        <5> DEFINE j == i - (n - pos)
        <5>1. j \in 1 .. pos /\ total - pos + j = total - n + i
          BY <1>1, <4>2
        <5> HIDE DEF j
        <5>2. first[j] = x7[total - n + i]
          BY <1>6, <5>1
        <5> QED BY <1>1, <2>1, <2>2, <3>1, <4>2, <5>2 DEF j
      <4>3. i <= n - pos \/ i > n - pos
        BY <1>1
      <4> QED BY <4>1, <4>2, <4>3
    <3> QED BY <2>2, <3>1, <3>2
  <2> DEFINE b == total - n + 1
             kept == SubSeq(x7, b, total)
             read == rest \o first
  <2>4. b \in Int /\ b >= 1 /\ total - b + 1 = n /\ b <= total
    BY <1>1, <1>8
  <2>5. kept \in Seq(Bytes) /\ Len(kept) = n /\ \A i \in 1 .. n : kept[i] = x7[total - n + i]
    <3>1. \A i \in b .. total : x7[i] \in Bytes
      BY <1>1, <2>4
    <3>2. /\ kept \in Seq(Bytes) /\ Len(kept) = (IF b <= total THEN total - b + 1 ELSE 0)
          /\ \A i \in 1 .. (total - b + 1) : kept[i] = x7[b + i - 1]
      <4> HIDE DEF b
      <4> QED BY <1>1, <2>4, <3>1, SubSeqProperties
    <3>3. \A i \in 1 .. n : b + i - 1 = total - n + i
      BY <1>1
    <3> HIDE DEF b, kept
    <3> QED BY <2>4, <3>2, <3>3
  <2> HIDE DEF b, kept, read
  <2>6. read = kept
    <3>1. read \in Seq(Bytes) /\ Len(read) = Len(kept) /\ \A i \in 1 .. Len(read) : read[i] = kept[i]
      BY <2>2, <2>3, <2>5 DEF read
    <3> QED BY <2>5, <3>1, SeqEqual
  <2>7. ~ (total < n)
    BY <1>1, <1>8
  <2> QED BY <1>4, <2>6, <2>7 DEF Sidecar!RingKeepsLatest, total, n, read, kept, b
<1> QED BY <1>1, <1>7, <1>8

\* A client gets the answer to its own call, a turn that was answered and ran alone is in
\* the session's messages, and the log reads as its newest bytes.
THEOREM SidecarIsSound == Spec => []SidecarSound
<1>1. SidecarInv => SidecarSound
  <2> SUFFICES ASSUME SidecarInv, scenario = "sidecar"
               PROVE  Sidecar!AnswersOwnCall /\ Sidecar!TurnsKept /\ Sidecar!RingKeepsLatest
    BY DEF SidecarSound
  <2>1. FrameInv /\ TurnInv /\ RingInv
    BY DEF SidecarInv
  <2>2. Sidecar!AnswersOwnCall
    BY <2>1 DEF FrameInv, Sidecar!AnswersOwnCall
  <2>3. Sidecar!TurnsKept
    <3> SUFFICES ASSUME x5 # None, NEW c \in Conn, x4[c].answer # None, x4[c].answer.method = "agent/send",
                        x4[c].answer.ok, <<c, x4[c].answer.id>> \notin x8
                 PROVE  <<c, x4[c].answer.id>> \in Sidecar!Range(x5)
      BY DEF Sidecar!TurnsKept, Sidecar!Turn
    <3>1. <<c, x4[c].answer.id>> \in Has(x5) /\ x5 \in Seq(Turns)
      BY <2>1 DEF TurnInv
    <3>2. DOMAIN x5 = 1 .. Len(x5)
      BY <3>1, LenProperties
    <3> QED BY <3>1, <3>2 DEF Has, Sidecar!Range
  <2> QED BY <2>1, <2>2, <2>3, RingReads
<1> QED BY <1>1, SidecarInvariant, PTL

-----------------------------------------------------------------------------
(* The log of a session: x1 is lines, x2 tail, x3 acked and x4 candidate   *)

LogEvent == [type : LogType, call : LogCall]
LogRecord == [sequence : Nat, event : LogEvent]

\* Complete lines are numbered records, and a whole record without its newline is the
\* next; what was acknowledged is among the lines, what was selected among the events.
LogInv ==
    /\ x1 \in Seq(LogRecord) /\ \A i \in DOMAIN x1 : x1[i].sequence = i
    /\ x2 \in {None, Cut, Split} \/ (x2 \in LogRecord /\ x2.sequence = Len(x1) + 1)
    /\ x3 \in Seq(LogRecord) /\ \A i \in DOMAIN x3 : \E j \in DOMAIN x1 : x1[j] = x3[i]
    /\ x4 # None =>
         /\ x4.sequence \in DOMAIN Log!Events /\ Log!Events[x4.sequence].event = x4.event
         /\ Log!Eligible(x4.event)

\* The events that can be read are numbered records too, the lines first.
LEMMA EventsNumbered ==
    ASSUME LogInv
    PROVE  /\ Log!Events \in Seq(LogRecord)
           /\ \A i \in DOMAIN Log!Events : Log!Events[i].sequence = i
           /\ \A i \in DOMAIN x1 : i \in DOMAIN Log!Events /\ Log!Events[i] = x1[i]
<1>1. CASE ~ Log!Whole
  BY <1>1 DEF LogInv, Log!Events
<1>2. CASE Log!Whole
  <2>1. x2 \in LogRecord /\ x2.sequence = Len(x1) + 1 /\ Log!Events = Append(x1, x2)
    BY <1>2 DEF LogInv, Log!Events, Log!Whole
  <2>2. PICK n : n = Len(x1)
    OBVIOUS
  <2>3. n \in Nat /\ DOMAIN x1 = 1 .. n
    BY <2>2, LenProperties DEF LogInv
  <2>4. /\ Log!Events \in Seq(LogRecord) /\ DOMAIN Log!Events = 1 .. n + 1
        /\ Log!Events[n + 1] = x2 /\ \A i \in 1 .. n : Log!Events[i] = x1[i]
    BY <2>1, <2>2, AppendProperties, LenProperties DEF LogInv
  <2>5. /\ \A i \in 1 .. n : i \in 1 .. n + 1
        /\ \A i \in 1 .. n + 1 : i \in 1 .. n \/ i = n + 1
    BY <2>3
  <2>6. ASSUME NEW i \in 1 .. n + 1 PROVE Log!Events[i].sequence = i
    <3>1. CASE i \in 1 .. n
      BY <2>3, <2>4, <3>1 DEF LogInv
    <3>2. CASE i = n + 1
      BY <2>1, <2>2, <2>4, <3>2
    <3> QED BY <2>5, <3>1, <3>2
  <2> QED BY <2>3, <2>4, <2>5, <2>6
<1> QED BY <1>1, <1>2

\* A record is no line that is cut or cannot be read.
LEMMA RecordsReadable == \A r \in LogRecord : r \notin {None, Cut, Split, Garbage}
  BY LinesAssumption DEF LogRecord, LogEvent

\* Every step of the log keeps it.
LEMMA LogNext == ASSUME LogInv, Log!Next PROVE LogInv'
<1> DEFINE E == Log!Events
<1>1. PICK n : n = Len(x1)
  OBVIOUS
<1>2. n \in Nat /\ DOMAIN x1 = 1 .. n
  BY <1>1, LenProperties DEF LogInv
<1>3. ASSUME Log!Appendable, NEW event \in LogEvent
      PROVE  /\ x2 = None /\ Log!Events = x1
             /\ Log!Record(event) \in LogRecord /\ Log!Record(event).sequence = n + 1
             /\ Log!Record(event).event = event
  <2>1. x2 = None /\ Log!Events = x1
    BY <1>3 DEF Log!Appendable, Log!Events, Log!Whole
  <2> QED BY <1>1, <1>2, <2>1 DEF Log!Record, LogRecord
<1>4. ASSUME NEW r \in LogRecord, r.sequence = n + 1, x1' = Append(x1, r), x2 = None, x2' = None, x4' = x4
      PROVE  /\ x1' \in Seq(LogRecord) /\ \A i \in DOMAIN x1' : x1'[i].sequence = i
             /\ n + 1 \in DOMAIN x1' /\ x1'[n + 1] = r
             /\ \A j \in DOMAIN x1 : j \in DOMAIN x1' /\ x1'[j] = x1[j]
             /\ x4' # None =>
                  /\ x4'.sequence \in DOMAIN Log!Events' /\ Log!Events'[x4'.sequence].event = x4'.event
                  /\ Log!Eligible(x4'.event)
  <2>1. /\ x1' \in Seq(LogRecord) /\ DOMAIN x1' = 1 .. n + 1
        /\ x1'[n + 1] = r /\ \A i \in 1 .. n : x1'[i] = x1[i]
    BY <1>1, <1>4, AppendProperties, LenProperties DEF LogInv
  <2>2. /\ \A i \in 1 .. n : i \in 1 .. n + 1
        /\ \A i \in 1 .. n + 1 : i \in 1 .. n \/ i = n + 1
        /\ n + 1 \in 1 .. n + 1
    BY <1>2
  <2>3. ASSUME NEW i \in 1 .. n + 1 PROVE x1'[i].sequence = i
    <3>1. CASE i \in 1 .. n
      BY <1>2, <2>1, <3>1 DEF LogInv
    <3>2. CASE i = n + 1
      BY <1>4, <2>1, <3>2
    <3> QED BY <2>2, <3>1, <3>2
  <2>4. Log!Events = x1 /\ Log!Events' = x1'
    BY <1>4 DEF Log!Events, Log!Whole
  <2> QED BY <1>2, <1>4, <2>1, <2>2, <2>3, <2>4 DEF LogInv
<1>5. ASSUME NEW event \in LogEvent, Log!AppendEvent(event) PROVE LogInv'
  <2> DEFINE r == Log!Record(event)
  <2>1. /\ x2 = None /\ x1' = Append(x1, r) /\ x2' = None
        /\ x3' = Append(x3, r) /\ x4' = x4
    BY <1>5 DEF Log!AppendEvent, Log!Appendable
  <2>2. r \in LogRecord /\ r.sequence = n + 1
    BY <1>3, <1>5 DEF Log!AppendEvent
  <2> HIDE DEF r
  <2>3. /\ x1' \in Seq(LogRecord) /\ \A i \in DOMAIN x1' : x1'[i].sequence = i
        /\ n + 1 \in DOMAIN x1' /\ x1'[n + 1] = r
        /\ \A j \in DOMAIN x1 : j \in DOMAIN x1' /\ x1'[j] = x1[j]
        /\ x4' # None =>
             /\ x4'.sequence \in DOMAIN Log!Events' /\ Log!Events'[x4'.sequence].event = x4'.event
             /\ Log!Eligible(x4'.event)
    BY <1>4, <2>1, <2>2
  <2>4. PICK m : m = Len(x3)
    OBVIOUS
  <2>5. /\ m \in Nat /\ DOMAIN x3 = 1 .. m /\ x3' \in Seq(LogRecord) /\ DOMAIN x3' = 1 .. m + 1
        /\ x3'[m + 1] = r /\ \A i \in 1 .. m : x3'[i] = x3[i]
    BY <2>1, <2>2, <2>4, AppendProperties, LenProperties DEF LogInv
  <2>6. \A i \in 1 .. m + 1 : i \in 1 .. m \/ i = m + 1
    BY <2>5
  <2>7. ASSUME NEW i \in DOMAIN x3' PROVE \E j \in DOMAIN x1' : x1'[j] = x3'[i]
    <3>1. CASE i = m + 1
      BY <2>3, <2>5, <3>1
    <3>2. CASE i \in 1 .. m
      <4>1. PICK j \in DOMAIN x1 : x1[j] = x3[i]
        BY <2>5, <3>2 DEF LogInv
      <4> QED BY <2>3, <2>5, <3>2, <4>1
    <3> QED BY <2>5, <2>6, <3>1, <3>2
  <2> QED BY <2>1, <2>3, <2>5, <2>7 DEF LogInv
<1>6. ASSUME NEW event \in LogEvent, Log!Crash(event) PROVE LogInv'
  <2> DEFINE r == Log!Record(event)
  <2>1. x2 = None /\ Log!Events = x1 /\ r \in LogRecord /\ r.sequence = n + 1
    BY <1>3, <1>6 DEF Log!Crash
  <2>2. /\ \/ x2' \in {None, Cut, Split, r} /\ x1' = x1
           \/ x1' = Append(x1, r) /\ x2' = x2
        /\ x3' = x3 /\ x4' = x4
    BY <1>6 DEF Log!Crash
  <2> HIDE DEF r
  <2>3. CASE x2' \in {None, Cut, Split, r} /\ x1' = x1
    <3>1. Log!Events' = IF x2' \in {None, Cut, Split} THEN x1 ELSE Append(x1, x2')
      BY <2>3 DEF Log!Events, Log!Whole
    <3>2. \A i \in DOMAIN x1 : i \in DOMAIN Log!Events' /\ Log!Events'[i] = x1[i]
      <4>1. CASE x2' \in {None, Cut, Split}
        BY <3>1, <4>1
      <4>2. CASE x2' \notin {None, Cut, Split}
        <5>1. Log!Events' = Append(x1, r)
          BY <2>3, <3>1, <4>2
        <5>2. DOMAIN Append(x1, r) = 1 .. n + 1 /\ \A i \in 1 .. n : Append(x1, r)[i] = x1[i]
          BY <1>1, <2>1, AppendProperties, LenProperties DEF LogInv
        <5>3. \A i \in 1 .. n : i \in 1 .. n + 1
          BY <1>2
        <5> QED BY <1>2, <5>1, <5>2, <5>3
      <4> QED BY <4>1, <4>2
    <3>3. x2' \in {None, Cut, Split} \/ (x2' \in LogRecord /\ x2'.sequence = Len(x1') + 1)
      BY <1>1, <2>1, <2>3
    <3>4. x4' # None =>
            /\ x4'.sequence \in DOMAIN Log!Events' /\ Log!Events'[x4'.sequence].event = x4'.event
            /\ Log!Eligible(x4'.event)
      BY <2>1, <2>2, <3>2 DEF LogInv
    <3> QED BY <2>2, <2>3, <3>3, <3>4 DEF LogInv
  <2>4. CASE x1' = Append(x1, r) /\ x2' = x2
    <3>1. /\ x1' \in Seq(LogRecord) /\ \A i \in DOMAIN x1' : x1'[i].sequence = i
          /\ \A j \in DOMAIN x1 : j \in DOMAIN x1' /\ x1'[j] = x1[j]
          /\ x4' # None =>
               /\ x4'.sequence \in DOMAIN Log!Events' /\ Log!Events'[x4'.sequence].event = x4'.event
               /\ Log!Eligible(x4'.event)
      BY <1>4, <2>1, <2>2, <2>4
    <3>2. \A i \in DOMAIN x3' : \E j \in DOMAIN x1' : x1'[j] = x3'[i]
      BY <2>2, <3>1 DEF LogInv
    <3>3. x2' \in {None, Cut, Split}
      BY <2>1, <2>4
    <3> QED BY <2>2, <3>1, <3>2, <3>3 DEF LogInv
  <2> QED BY <2>2, <2>3, <2>4
<1>7. ASSUME NEW i, Log!Select(i) PROVE LogInv'
  <2>1. /\ i \in DOMAIN Log!Events /\ Log!Eligible(Log!Events[i].event)
        /\ x4' = [sequence |-> i, event |-> Log!Events[i].event]
        /\ x1' = x1 /\ x2' = x2 /\ x3' = x3
    BY <1>7 DEF Log!Select
  <2>2. Log!Events' = Log!Events
    BY <2>1 DEF Log!Events, Log!Whole
  <2>3. x4'.sequence = i /\ x4'.event = Log!Events[i].event
    BY <2>1
  <2> QED BY <2>1, <2>2, <2>3 DEF LogInv
<1> QED BY <1>5, <1>6, <1>7 DEF Log!Next, LogEvent

\* A replay is no longer than its limit.
LEMMA ReplayLimited ==
    ASSUME LogInv, NEW max \in Nat
    PROVE  Cardinality(Log!Replay(max)) <= max
<1>1. PICK E \in Seq(LogRecord) : E = Log!Events
  BY EventsNumbered
<1>2. PICK n \in Nat : n = Len(E)
  BY LenProperties
<1>3. PICK lo : lo = IF max < n THEN n - max + 1 ELSE 1
  OBVIOUS
<1>4. lo \in 1 .. n + 1 /\ lo \in Int /\ n - lo + 1 <= max /\ n - lo + 1 \in Nat
  BY <1>2, <1>3
<1>5. PICK r : r = SubSeq(E, lo, n)
  OBVIOUS
<1>6. \A i \in lo .. n : E[i] \in LogRecord
  BY <1>2, <1>4, ElementOfSeq
<1>7. r \in Seq(LogRecord) /\ Len(r) = IF lo <= n THEN n - lo + 1 ELSE 0
  BY <1>2, <1>4, <1>5, <1>6, SubSeqProperties
<1>8. Len(r) <= max /\ Len(r) \in Nat
  BY <1>4, <1>7
<1>9. PICK k \in Nat : k = Len(r)
  BY <1>8
<1>10. PICK S : S = {r[i] : i \in DOMAIN r}
  OBVIOUS
<1>11. r \in [1 .. k -> S] /\ \A s \in S : \E i \in 1 .. k : r[i] = s
  BY <1>7, <1>9, <1>10, LenProperties
<1>12. r \in Surjection(1 .. k, S)
  BY <1>11 DEF Surjection
<1>13. IsFiniteSet(S) /\ Cardinality(S) <= k
  <2>1. IsFiniteSet(1 .. k)
    BY FS_Interval
  <2> QED BY <1>12, <2>1, FS_Surjection, FS_SurjCardinalityBound DEF ExistsSurjection
<1>14. Log!Replay(max) \in SUBSET S
  <2>1. Log!Recent(E, max) = r
    BY <1>2, <1>3, <1>5 DEF Log!Recent
  <2> QED BY <1>1, <1>10, <2>1 DEF Log!Replay, Log!Range
<1>15. Cardinality(Log!Replay(max)) <= Cardinality(S) /\ Cardinality(Log!Replay(max)) \in Nat /\ Cardinality(S) \in Nat
  BY <1>13, <1>14, FS_Subset, FS_CardinalityType
<1> QED BY <1>8, <1>9, <1>13, <1>15

\* What is rebuilt holds what was acknowledged and what was selected.
LEMMA LogIsSound == LogInv => Log!AckedReplayed /\ Log!RebuiltWhole /\ Log!CandidateNamesEvidence
<1> SUFFICES ASSUME LogInv PROVE Log!AckedReplayed /\ Log!RebuiltWhole /\ Log!CandidateNamesEvidence
  OBVIOUS
<1>1. /\ Log!Events \in Seq(LogRecord)
      /\ \A i \in DOMAIN Log!Events : Log!Events[i].sequence = i
      /\ \A i \in DOMAIN x1 : i \in DOMAIN Log!Events /\ Log!Events[i] = x1[i]
  BY EventsNumbered
<1>2. Log!AckedReplayed
  <2>1. ASSUME NEW i \in DOMAIN x1 PROVE Log!IsRecord(x1[i]) /\ x1[i].sequence = i
    <3>1. x1[i] \in LogRecord
      BY ElementOfSeq, LenProperties DEF LogInv
    <3> QED BY <3>1, RecordsReadable DEF LogInv, Log!IsRecord
  <2>2. ASSUME NEW i \in DOMAIN x3 PROVE Log!Events[x3[i].sequence] = x3[i]
    <3>1. PICK j \in DOMAIN x1 : x1[j] = x3[i]
      BY DEF LogInv
    <3>2. x3[i].sequence = j
      BY <2>1, <3>1
    <3> QED BY <1>1, <3>1, <3>2
  <2> QED BY <2>1, <2>2 DEF Log!AckedReplayed, Log!Readable
<1>3. Log!RebuiltWhole
  <2> SUFFICES ASSUME Log!Readable, NEW max \in ReplayLimit
               PROVE  /\ Log!ReplayState(max).title = Log!TitleOf(Log!Events)
                      /\ \A r \in Log!Range(Log!Events) : r.sequence < Log!ReplayState(max).next_sequence
                      /\ Log!Cardinality(Log!ReplayState(max).messages) <= max
    BY DEF Log!RebuiltWhole
  <2>1. max \in Nat
    BY BoundsAssumption
  <2>2. /\ Log!ReplayState(max).title = Log!TitleOf(Log!Events)
        /\ Log!ReplayState(max).next_sequence = Len(Log!Events) + 1
        /\ Log!ReplayState(max).messages = Log!Replay(max)
    BY DEF Log!ReplayState
  <2>3. Log!Cardinality(Log!Replay(max)) = Cardinality(Log!Replay(max))
    BY DEF Log!Cardinality, Cardinality
  <2>4. ASSUME NEW r \in Log!Range(Log!Events) PROVE r.sequence < Len(Log!Events) + 1
    <3>1. PICK i \in DOMAIN Log!Events : r = Log!Events[i]
      BY DEF Log!Range
    <3>2. r.sequence = i /\ i \in 1 .. Len(Log!Events) /\ Len(Log!Events) \in Nat
      BY <1>1, <3>1, LenProperties
    <3> QED BY <3>2
  <2> QED BY <2>1, <2>2, <2>3, <2>4, ReplayLimited
<1>4. Log!CandidateNamesEvidence
  BY DEF LogInv, Log!Eligible, Log!CandidateNamesEvidence
<1> QED BY <1>2, <1>3, <1>4

-----------------------------------------------------------------------------
(* Sandbox: x1 is pc, x2 command, x3 log, x4 anchor, x5 executed, x7 tears *)
(* and x8 behind                                                           *)

SandboxItem == [n : Nat, what : {"sandbox_block", "command_execute", "command_result"}]
SandboxLine == [item : SandboxItem, prev : Nat, ended : BOOLEAN]
AnyLine == SandboxLine \cup {Cut, Split, Garbage}
Writing == {"block", "attempt", "result"}
Anchoring == {"block_anchor", "attempt_anchor", "result_anchor"}

Unreadable(i) == x3[i] \in {Cut, Split, Garbage}
Permitted(c) == c.disabled \/ (c.level \notin {"BLOCKED", "HIGH_RISK"} /\ ~ c.blocked_path)
AttemptOf(c) == [n |-> c.n, what |-> "command_execute"]

\* No line of the log has the attempt.
Lost(c) == \A i \in DOMAIN x3 : Unreadable(i) \/ x3[i].item # AttemptOf(c)

\* What the log has lost, or will with the command in work and with the line that is
\* glued to one without its newline, was paid for with a torn line.
LostCount == Cardinality({c \in x5 : Lost(c)})

Owes == x1 \in {"attempt_anchor", "execute"} /\ Lost(x2)

LostInv ==
    /\ LostCount <= x7
    /\ Owes \/ Sandbox!Unended => LostCount + 1 <= x7

\* Whoever dies while the line is written does not run the command: no command that ran
\* has its attempt in a line without its newline.
TailInv ==
    /\ \A c \in x5 : c.n <= x2.n /\ (x1 \in {"attempt", "attempt_anchor", "execute"} => c.n # x2.n)
    /\ x1 \in Anchoring \cup {"execute"} => ~ Sandbox!Unended
    /\ Sandbox!WholeTail => \A c \in x5 : x3[Len(x3)].item # AttemptOf(c)

\* A torn line stays to be seen, unless it is the first, lacks its newline only, and is
\* anchored for less; without one the chain has no gap, and a process that did not die
\* between line and anchor has anchored it.
ChainInv ==
    /\ x7 > 0 => \/ \E i \in DOMAIN x3 : Unreadable(i)
                 \/ x7 = 1 /\ Sandbox!WholeTail /\ x4 # Len(x3)
    /\ x7 = 0 => \A i \in DOMAIN x3 : ~ Unreadable(i) /\ x3[i].prev = i - 1
    /\ x4 \in {None, Cut} \/ (x4 \in Nat /\ x4 <= Len(x3))
    /\ ~ x8 /\ x1 \notin Anchoring /\ x4 # None => x4 = Len(x3)

SandboxInv ==
    /\ x3 \in Seq(AnyLine) /\ x7 \in Nat /\ x8 \in BOOLEAN
    /\ x2.n \in Nat /\ IsFiniteSet(x5) /\ \A c \in x5 : c.n \in Nat
    /\ \A c \in x5 : Permitted(c)
    /\ x1 \in {"attempt", "attempt_anchor", "execute"} => Permitted(x2)
    /\ LostInv /\ TailInv /\ ChainInv

\* Sets are counted as anywhere else.
LEMMA SandboxCounted == \A S : Sandbox!Cardinality(S) = Cardinality(S)
<1> SUFFICES ASSUME NEW S PROVE Sandbox!Cardinality(S) = Cardinality(S)
  OBVIOUS
<1> QED BY DEF Sandbox!Cardinality, Cardinality

\* A line that was cut or cannot be read is none that was written.
LEMMA LinesDiffer ==
    /\ \A line \in SandboxLine : line \notin {Cut, Split, Garbage}
    /\ Cut \notin {Split, Garbage} /\ Split # Garbage
  BY LinesAssumption DEF SandboxLine, SandboxItem

\* The module's notions of the last line are those above.
LEMMA LastLine ==
    /\ Sandbox!WholeTail <=> x3 # <<>> /\ ~ Unreadable(Len(x3)) /\ ~ x3[Len(x3)].ended
    /\ Sandbox!Unended <=> Sandbox!WholeTail \/ (x3 # <<>> /\ x3[Len(x3)] = Cut)
  BY DEF Sandbox!WholeTail, Sandbox!Unended, Sandbox!Unreadable, Unreadable

\* A log that ends in a certain line, perhaps in place of the last one.
EndsIn(log, line, at) ==
    /\ log \in Seq(AnyLine) /\ Len(log) = at /\ DOMAIN log = 1 .. at /\ at \in Nat \ {0}
    /\ log[at] = line
    /\ at \in {Len(x3), Len(x3) + 1}
    /\ \A i \in 1 .. at : i # at => i \in DOMAIN x3 /\ log[i] = x3[i]

LEMMA Appended ==
    ASSUME x3 \in Seq(AnyLine), NEW line \in AnyLine
    PROVE  EndsIn(Append(x3, line), line, Len(x3) + 1)
<1> DEFINE n == Len(x3)
           log == Append(x3, line)
<1>1. n \in Nat /\ DOMAIN x3 = 1 .. n
  BY LenProperties
<1>2. log \in Seq(AnyLine) /\ Len(log) = n + 1 /\ DOMAIN log = 1 .. n + 1
      /\ log[n + 1] = line /\ \A i \in 1 .. n : log[i] = x3[i]
  BY AppendProperties, LenProperties
<1> HIDE DEF log
<1>3. \A i \in 1 .. n + 1 : i # n + 1 => i \in DOMAIN x3 /\ log[i] = x3[i]
  BY <1>1, <1>2
<1> QED BY <1>1, <1>2, <1>3 DEF EndsIn, log

LEMMA Replaced ==
    ASSUME x3 \in Seq(AnyLine), x3 # <<>>, NEW line \in AnyLine
    PROVE  EndsIn([x3 EXCEPT ![Len(x3)] = line], line, Len(x3))
<1> DEFINE n == Len(x3)
           log == [x3 EXCEPT ![n] = line]
<1>1. n \in Nat \ {0} /\ DOMAIN x3 = 1 .. n /\ n \in 1 .. n
  BY EmptySeq, LenProperties
<1>2. n \in {Len(x3), Len(x3) + 1}
  OBVIOUS
<1>3. /\ log \in Seq(AnyLine) /\ Len(log) = n
      /\ \A j \in 1 .. n : log[j] = IF j = n THEN line ELSE x3[j]
  BY <1>1, ExceptSeq
<1>4. EndsIn(log, line, n)
  <2> HIDE DEF log, n
  <2>1. DOMAIN log = 1 .. n
    BY <1>3, LenProperties
  <2>2. log[n] = line
    BY <1>1, <1>3
  <2>3. \A i \in 1 .. n : i # n => log[i] = x3[i]
    BY <1>3
  <2> QED BY <1>1, <1>2, <1>3, <2>1, <2>2, <2>3 DEF EndsIn
<1> QED BY <1>4

\* What is written keeps the lines before it (append_audit_entry, Crash).
LEMMA LineKept ==
    ASSUME SandboxInv, NEW line \in AnyLine, NEW at, EndsIn(x3', line, at),
           at = Len(x3) => x3 # <<>> /\ (Sandbox!Unended \/ Unreadable(at)) /\ line \notin SandboxLine
    PROVE  /\ x3' \in Seq(AnyLine) /\ Len(x3') = at /\ x3'[at] = line /\ at \in DOMAIN x3' /\ x3' # <<>>
           /\ \A c \in x5 : Lost(c)' => Lost(c)
           /\ \A c : line \in SandboxLine /\ line.item = AttemptOf(c) => ~ Lost(c)'
           /\ line \notin SandboxLine => \E i \in DOMAIN x3' : Unreadable(i)'
           /\ (\E i \in DOMAIN x3 : Unreadable(i)) => (\E i \in DOMAIN x3' : Unreadable(i)')
           /\ (\A i \in DOMAIN x3 : ~ Unreadable(i) /\ x3[i].prev = i - 1)
                 /\ line \in SandboxLine /\ line.prev = at - 1
              => (\A i \in DOMAIN x3' : ~ Unreadable(i)' /\ x3'[i].prev = i - 1)
<1> DEFINE n == Len(x3)
<1>1. n \in Nat /\ DOMAIN x3 = 1 .. n /\ x3 \in Seq(AnyLine)
  BY LenProperties DEF SandboxInv
<1>2. /\ x3' \in Seq(AnyLine) /\ Len(x3') = at /\ DOMAIN x3' = 1 .. at /\ at \in Nat \ {0}
      /\ x3'[at] = line /\ at \in {n, n + 1} /\ at \in DOMAIN x3'
      /\ \A i \in 1 .. at : i # at => i \in DOMAIN x3 /\ x3'[i] = x3[i]
  BY DEF EndsIn
<1>3. x3' # <<>>
  BY <1>2
<1>4. \A i \in 1 .. at : i # at => (Unreadable(i)' <=> Unreadable(i))
  BY <1>2 DEF Unreadable
<1>5. Unreadable(at)' <=> line \notin SandboxLine
  BY <1>2, LinesDiffer DEF Unreadable, AnyLine
<1>6. /\ \A i \in DOMAIN x3 : i # at => i \in 1 .. at
      /\ at \in DOMAIN x3 => at = n
  <2>1. ASSUME NEW k \in Nat, NEW a \in {k, k + 1}
        PROVE  (\A i \in 1 .. k : i \in 1 .. a) /\ (a \in 1 .. k => a = k)
    <3>1. CASE a = k
      BY <3>1
    <3>2. CASE a = k + 1
      BY <3>2
    <3> QED BY <3>1, <3>2
  <2>2. n \in Nat /\ at \in {n, n + 1} /\ DOMAIN x3 = 1 .. n
    BY <1>1, <1>2
  <2> HIDE DEF n
  <2> QED BY <2>1, <2>2
<1>7. ASSUME NEW c \in x5, Lost(c)', NEW i \in DOMAIN x3
      PROVE  Unreadable(i) \/ x3[i].item # AttemptOf(c)
  <2>1. CASE i # at
    BY <1>2, <1>4, <1>6, <1>7, <2>1 DEF Lost
  <2>2. CASE i = at
    <3>1. at = n /\ (Sandbox!Unended \/ Unreadable(n))
      <4>1. at = n
        BY <1>6, <2>2
      <4> QED BY <4>1
    <3>2. CASE Unreadable(n)
      BY <2>2, <3>1, <3>2
    <3>3. CASE ~ Unreadable(n)
      <4>1. Sandbox!WholeTail
        BY <3>1, <3>3, LastLine DEF Unreadable
      <4> QED BY <2>2, <3>1, <4>1 DEF SandboxInv, TailInv
    <3> QED BY <3>2, <3>3
  <2> QED BY <2>1, <2>2
<1>8. \A c \in x5 : Lost(c)' => Lost(c)
  BY <1>7 DEF Lost
<1>9. ASSUME NEW c, line \in SandboxLine, line.item = AttemptOf(c) PROVE ~ Lost(c)'
  BY <1>2, <1>5, <1>9 DEF Lost
<1>10. ASSUME NEW j \in DOMAIN x3, Unreadable(j) PROVE \E i \in DOMAIN x3' : Unreadable(i)'
  <2>1. CASE j # at
    BY <1>2, <1>4, <1>6, <1>10, <2>1
  <2>2. CASE j = at
    <3>1. at = n
      BY <1>6, <2>2
    <3>2. line \notin SandboxLine
      BY <3>1
    <3> QED BY <1>2, <1>5, <3>2
  <2> QED BY <2>1, <2>2
<1>11. ASSUME \A i \in DOMAIN x3 : ~ Unreadable(i) /\ x3[i].prev = i - 1,
              line \in SandboxLine, line.prev = at - 1, NEW i \in DOMAIN x3'
       PROVE  ~ Unreadable(i)' /\ x3'[i].prev = i - 1
  <2>1. CASE i = at
    BY <1>2, <1>5, <1>11, <2>1
  <2>2. CASE i # at
    BY <1>2, <1>4, <1>11, <2>2
  <2> QED BY <2>1, <2>2
<1>12. line \notin SandboxLine => \E i \in DOMAIN x3' : Unreadable(i)'
  BY <1>2, <1>5
<1> QED BY <1>2, <1>3, <1>8, <1>9, <1>10, <1>11, <1>12

\* Attempts that nobody lost are not counted.
LEMMA LostFewer ==
    ASSUME IsFiniteSet(x5), x5' = x5, \A c \in x5 : Lost(c)' => Lost(c)
    PROVE  LostCount \in Nat /\ LostCount' \in Nat /\ LostCount' <= LostCount
<1> DEFINE S == {c \in x5 : Lost(c)}
           T == {c \in x5 : Lost(c)'}
<1>1. IsFiniteSet(S) /\ T \in SUBSET S
  BY FS_Subset
<1>2. Cardinality(S) \in Nat /\ Cardinality(T) \in Nat /\ Cardinality(T) <= Cardinality(S)
  BY <1>1, FS_Subset, FS_CardinalityType
<1> QED BY <1>2 DEF LostCount

\* A command that runs adds itself, if its attempt is lost.
LEMMA LostRuns ==
    ASSUME IsFiniteSet(x5), x5' = x5 \cup {x2}, x3' = x3
    PROVE  /\ LostCount \in Nat /\ LostCount' \in Nat /\ IsFiniteSet(x5')
           /\ LostCount' <= LostCount \/ (Lost(x2) /\ LostCount' <= LostCount + 1)
<1> DEFINE S == {c \in x5 : Lost(c)}
           T == {c \in x5 \cup {x2} : Lost(c)}
<1>1. \A c : Lost(c)' <=> Lost(c)
  BY DEF Lost, Unreadable, AttemptOf
<1>2. LostCount = Cardinality(S) /\ LostCount' = Cardinality(T)
  BY <1>1 DEF LostCount
<1>3. IsFiniteSet(S) /\ Cardinality(S) \in Nat
  BY FS_Subset, FS_CardinalityType
<1>4. IsFiniteSet(x5')
  BY FS_AddElement
<1>5. CASE Lost(x2)
  <2>1. T = S \cup {x2}
    BY <1>5
  <2> HIDE DEF S, T
  <2>2. IsFiniteSet(T) /\ (Cardinality(T) = Cardinality(S) \/ Cardinality(T) = Cardinality(S) + 1)
    BY <1>3, <2>1, FS_AddElement
  <2> QED BY <1>2, <1>3, <1>4, <1>5, <2>2
<1>6. CASE ~ Lost(x2)
  <2>1. T = S
    BY <1>6
  <2> HIDE DEF S, T
  <2> QED BY <1>2, <1>3, <1>4, <1>6, <2>1
<1> QED BY <1>5, <1>6

\* As little is owed to a smaller count.
LEMMA StillPaid == \A a, b, m \in Nat : b <= a => /\ a <= m => b <= m
                                                  /\ a + 1 <= m => b + 1 <= m
  OBVIOUS

\* A command that runs takes what was owed for it, and is none whose line lacks its newline.
LEMMA CommandRuns ==
    ASSUME SandboxInv, x1 = "execute", x1' \in {"result", "down"}, x5' = x5 \cup {x2},
           UNCHANGED <<x2, x3, x4, x7, x8>>
    PROVE  SandboxInv'
<1>1. /\ LostCount \in Nat /\ LostCount' \in Nat /\ IsFiniteSet(x5')
      /\ LostCount' <= LostCount \/ (Lost(x2) /\ LostCount' <= LostCount + 1)
  BY LostRuns DEF SandboxInv
<1>2. ~ Sandbox!Unended /\ ~ Sandbox!WholeTail
  BY LastLine DEF SandboxInv, TailInv
<1>3. (Sandbox!Unended)' = Sandbox!Unended /\ (Sandbox!WholeTail)' = Sandbox!WholeTail
  BY DEF Sandbox!Unended, Sandbox!WholeTail, Sandbox!Unreadable
<1>4. ~ Owes'
  BY DEF Owes
<1>5. LostInv'
  <2>1. x7 \in Nat /\ LostCount <= x7 /\ (Lost(x2) => LostCount + 1 <= x7)
    BY DEF SandboxInv, LostInv, Owes
  <2>2. LostCount' <= x7
    <3>1. CASE LostCount' <= LostCount
      BY <1>1, <2>1, <3>1, StillPaid
    <3>2. CASE Lost(x2) /\ LostCount' <= LostCount + 1
      <4>1. LostCount + 1 \in Nat /\ LostCount + 1 <= x7 /\ LostCount' <= LostCount + 1
        BY <1>1, <2>1, <3>2
      <4> QED BY <1>1, <2>1, <4>1, StillPaid
    <3> QED BY <1>1, <3>1, <3>2
  <2> QED BY <1>2, <1>3, <1>4, <2>2 DEF LostInv
<1>6. TailInv'
  <2>1. \A c \in x5' : c.n <= x2.n
    BY DEF SandboxInv, TailInv
  <2> QED BY <1>2, <1>3, <2>1 DEF TailInv, Anchoring
<1>7. ChainInv'
  <2>1. x1 \notin Anchoring
    BY DEF Anchoring
  <2>2. \A i : Unreadable(i)' <=> Unreadable(i)
    BY DEF Unreadable
  <2> QED BY <1>3, <2>1, <2>2 DEF SandboxInv, ChainInv
<1>8. \A c \in x5' : Permitted(c) /\ c.n \in Nat
  BY DEF SandboxInv
<1> QED BY <1>1, <1>5, <1>6, <1>7, <1>8 DEF SandboxInv, Permitted

\* A line of the audit keeps the invariant: the attempt that it may lose is paid for
\* by the torn line it ends.
LEMMA SandboxWrites ==
    ASSUME SandboxInv, NEW next \in Anchoring, Sandbox!AppendLine(next), x1 \in Writing,
           next = "attempt_anchor" <=> x1 = "attempt"
    PROVE  SandboxInv'
<1> DEFINE n == Len(x3)
           line == IF Sandbox!Unended THEN Garbage ELSE Sandbox!Line(TRUE)
           at == IF Sandbox!Unended THEN n ELSE n + 1
<1>1. /\ ~ Sandbox!Undecodable /\ x3' = Sandbox!WithLine /\ x1' = next
      /\ UNCHANGED <<x2, x4, x5, x6, x7, x8>>
  BY DEF Sandbox!AppendLine
<1>2. n \in Nat /\ x3 \in Seq(AnyLine)
  BY LenProperties DEF SandboxInv
<1>3. /\ Sandbox!Entry \in SandboxItem
      /\ x1 = "attempt" => Sandbox!Entry = AttemptOf(x2)
  BY DEF Sandbox!Entry, SandboxItem, AttemptOf, Writing, SandboxInv
<1>4. Sandbox!PrevHash \in Nat
  BY <1>2 DEF Sandbox!PrevHash
<1>5. /\ Sandbox!Line(TRUE) \in SandboxLine /\ Sandbox!Line(TRUE).item = Sandbox!Entry
      /\ Sandbox!Line(TRUE).prev = Sandbox!PrevHash /\ Sandbox!Line(TRUE).ended = TRUE
  BY <1>3, <1>4 DEF Sandbox!Line, SandboxLine
<1>6. EndsIn(x3', line, at) /\ line \in AnyLine
      /\ (at = n => x3 # <<>> /\ Sandbox!Unended /\ line \notin SandboxLine)
  <2>1. CASE Sandbox!Unended
    <3>1. x3 # <<>>
      BY <2>1, LastLine
    <3>2. EndsIn([x3 EXCEPT ![n] = Garbage], Garbage, n)
      BY <1>2, <3>1, Replaced DEF AnyLine
    <3> QED BY <1>1, <2>1, <3>1, <3>2, LinesDiffer DEF Sandbox!WithLine, AnyLine
  <2>2. CASE ~ Sandbox!Unended
    <3>1. EndsIn(Append(x3, Sandbox!Line(TRUE)), Sandbox!Line(TRUE), n + 1)
      BY <1>2, <1>5, Appended DEF AnyLine
    <3>2. n + 1 # n
      BY <1>2
    <3> QED BY <1>1, <1>5, <2>2, <3>1, <3>2 DEF Sandbox!WithLine, AnyLine
  <2> QED BY <2>1, <2>2
<1>7. line = Garbage \/ (~ Sandbox!Unended /\ line = Sandbox!Line(TRUE) /\ at = n + 1)
  OBVIOUS
<1>8. at \in {n, n + 1}
  OBVIOUS
<1> HIDE DEF line, at
<1>9. /\ x3' \in Seq(AnyLine) /\ Len(x3') = at /\ x3'[at] = line /\ at \in DOMAIN x3' /\ x3' # <<>>
      /\ \A c \in x5 : Lost(c)' => Lost(c)
      /\ \A c : line \in SandboxLine /\ line.item = AttemptOf(c) => ~ Lost(c)'
      /\ line \notin SandboxLine => \E i \in DOMAIN x3' : Unreadable(i)'
      /\ (\E i \in DOMAIN x3 : Unreadable(i)) => (\E i \in DOMAIN x3' : Unreadable(i)')
      /\ (\A i \in DOMAIN x3 : ~ Unreadable(i) /\ x3[i].prev = i - 1)
            /\ line \in SandboxLine /\ line.prev = at - 1
         => (\A i \in DOMAIN x3' : ~ Unreadable(i)' /\ x3'[i].prev = i - 1)
  BY <1>6, LineKept
<1>10. ~ (Sandbox!WholeTail)' /\ ~ (Sandbox!Unended)'
  <2>1. x3'[Len(x3')] = line
    BY <1>9
  <2>2. line # Cut /\ (line \in {Cut, Split, Garbage} \/ line.ended)
    BY <1>5, <1>7, LinesDiffer
  <2>3. ~ (Sandbox!WholeTail)'
    BY <2>1, <2>2 DEF Sandbox!WholeTail, Sandbox!Unreadable
  <2> QED BY <2>1, <2>2, <2>3 DEF Sandbox!Unended
<1>11. LostCount \in Nat /\ LostCount' \in Nat /\ LostCount' <= LostCount
  BY <1>1, <1>9, LostFewer DEF SandboxInv
<1>12. LostInv'
  <2>1. LostCount <= x7 /\ (Sandbox!Unended => LostCount + 1 <= x7) /\ x7 \in Nat
    BY DEF SandboxInv, LostInv
  <2>2. Owes' => Sandbox!Unended
    <3> SUFFICES ASSUME Owes', ~ Sandbox!Unended PROVE FALSE
      OBVIOUS
    <3>1. x1 = "attempt" /\ \A c : c = x2 => Lost(c)'
      BY <1>1 DEF Owes, Anchoring, Lost, Unreadable, AttemptOf
    <3>2. line = Sandbox!Line(TRUE)
      BY DEF line
    <3>3. line \in SandboxLine /\ line.item = AttemptOf(x2)
      BY <1>3, <1>5, <3>1, <3>2
    <3> QED BY <1>9, <3>1, <3>3
  <2>3. LostCount' <= x7
    BY <1>11, <2>1, StillPaid
  <2>4. ASSUME Owes' PROVE LostCount' + 1 <= x7
    <3>1. LostCount + 1 <= x7
      BY <2>1, <2>2, <2>4
    <3> QED BY <1>11, <2>1, <3>1, StillPaid
  <2> QED BY <1>1, <1>10, <2>3, <2>4 DEF LostInv
<1>13. TailInv'
  <2>1. \A c \in x5 : c.n <= x2.n /\ (x1 = "attempt" => c.n # x2.n)
    BY DEF SandboxInv, TailInv
  <2> QED BY <1>1, <1>10, <2>1 DEF TailInv, Anchoring
<1>14. ChainInv'
  <2>1. x7 > 0 => \E i \in DOMAIN x3' : Unreadable(i)'
    <3>1. CASE Sandbox!Unended
      <4>1. line = Garbage
        BY <3>1 DEF line
      <4> QED BY <1>9, <4>1, LinesDiffer
    <3>2. CASE ~ Sandbox!Unended
      <4>1. ~ Sandbox!WholeTail
        BY <3>2, LastLine
      <4> QED BY <1>9, <4>1 DEF SandboxInv, ChainInv
    <3> QED BY <3>1, <3>2
  <2>2. x7 = 0 => \A i \in DOMAIN x3' : ~ Unreadable(i)' /\ x3'[i].prev = i - 1
    <3> SUFFICES ASSUME x7 = 0 PROVE \A i \in DOMAIN x3' : ~ Unreadable(i)' /\ x3'[i].prev = i - 1
      OBVIOUS
    <3>1. \A i \in DOMAIN x3 : ~ Unreadable(i) /\ x3[i].prev = i - 1
      BY DEF SandboxInv, ChainInv
    <3>2. ~ Sandbox!Unended
      BY <1>11 DEF SandboxInv, LostInv
    <3>3. Sandbox!PrevHash = n
      <4>1. x3 = <<>> => n = 0
        BY EmptySeq
      <4>2. x3 # <<>> => n \in DOMAIN x3
        BY <1>2, EmptySeq, LenProperties
      <4> QED BY <3>1, <4>1, <4>2 DEF Sandbox!PrevHash, Unreadable
    <3>4. line = Sandbox!Line(TRUE) /\ at = n + 1
      BY <3>2 DEF line, at
    <3>5. line \in SandboxLine /\ line.prev = at - 1
      <4>1. line \in SandboxLine /\ line.prev = n
        BY <1>5, <3>3, <3>4
      <4>2. at - 1 = n
        BY <1>2, <3>4
      <4> QED BY <4>1, <4>2
    <3> QED BY <1>9, <3>1, <3>5
  <2>3. x4 \in {None, Cut} \/ (x4 \in Nat /\ x4 <= at)
    <3>1. x4 \in {None, Cut} \/ (x4 \in Nat /\ x4 <= n)
      BY DEF SandboxInv, ChainInv
    <3> QED BY <1>2, <1>8, <3>1
  <2> QED BY <1>1, <1>9, <2>1, <2>2, <2>3 DEF ChainInv
<1>15. x1' \in {"attempt", "attempt_anchor", "execute"} => Permitted(x2')
  BY <1>1 DEF SandboxInv, Anchoring, Permitted
<1> QED BY <1>1, <1>9, <1>12, <1>13, <1>14, <1>15 DEF SandboxInv, Permitted

\* The steps that leave log and commands.
LEMMA SandboxFrame ==
    ASSUME SandboxInv, UNCHANGED <<x3, x5, x7>>,
           x2'.n \in Nat, x2'.n >= x2.n, x8' \in BOOLEAN,
           x1' \in {"attempt", "attempt_anchor", "execute"} =>
               Permitted(x2') /\ \A c \in x5 : c.n # x2'.n,
           x1' \in Anchoring \cup {"execute"} => x1 \in Anchoring \cup {"execute"},
           Owes' => Owes, x4' \in {x4, Len(x3)} \/ x4' = Cut,
           x4' = x4 \/ x1 \in Anchoring,
           ~ x8' /\ x1' \notin Anchoring /\ x4' # None => x4' = Len(x3)
    PROVE  SandboxInv'
<1>1. \A c : Lost(c)' <=> Lost(c)
  BY DEF Lost, Unreadable, AttemptOf
<1>2. LostCount' = LostCount /\ Sandbox!Unended' = Sandbox!Unended /\ Sandbox!WholeTail' = Sandbox!WholeTail
  BY <1>1 DEF LostCount, Sandbox!Unended, Sandbox!WholeTail, Sandbox!Unreadable
<1>3. LostInv'
  BY <1>2 DEF SandboxInv, LostInv
<1>4. TailInv'
  <2>1. \A c \in x5 : c.n <= x2'.n
    BY DEF SandboxInv, TailInv
  <2>2. Sandbox!WholeTail => \A c \in x5 : x3[Len(x3)].item # AttemptOf(c)
    BY DEF SandboxInv, TailInv
  <2>3. x1' \in Anchoring \cup {"execute"} => ~ Sandbox!Unended
    BY DEF SandboxInv, TailInv
  <2> QED BY <1>2, <2>1, <2>2, <2>3 DEF TailInv, AttemptOf
<1>5. ChainInv'
  <2>1. \A i : Unreadable(i)' <=> Unreadable(i)
    BY DEF Unreadable
  <2>2. Sandbox!WholeTail => x4' = x4
    BY LastLine DEF SandboxInv, TailInv
  <2>3. x4' \in {None, Cut} \/ (x4' \in Nat /\ x4' <= Len(x3))
    BY LenProperties DEF SandboxInv, ChainInv
  <2> QED BY <1>2, <2>1, <2>2, <2>3 DEF SandboxInv, ChainInv
<1>6. \A c \in x5' : Permitted(c) /\ c.n \in Nat
  BY DEF SandboxInv
<1> QED BY <1>3, <1>4, <1>5, <1>6 DEF SandboxInv, Permitted

\* A process that dies in the write of a line leaves a part of it, or all but its newline.
LEMMA LineCut ==
    ASSUME SandboxInv, x1 \in Writing, x3' \in Sandbox!CutLines, x1' = "down",
           x7' = x7 + 1, x8' = TRUE, UNCHANGED <<x2, x4, x5>>
    PROVE  SandboxInv'
<1> DEFINE n == Len(x3)
<1>1. n \in Nat /\ x3 \in Seq(AnyLine)
  BY LenProperties DEF SandboxInv
<1>2. /\ Sandbox!Entry \in SandboxItem
      /\ \A c \in x5 : Sandbox!Entry # AttemptOf(c)
  <2>1. x1 = "attempt" => \A c \in x5 : c.n # x2.n
    BY DEF SandboxInv, TailInv
  <2>2. Sandbox!Entry \in SandboxItem /\ Sandbox!Entry.n = x2.n
        /\ (x1 # "attempt" => Sandbox!Entry.what # "command_execute")
    BY DEF Sandbox!Entry, SandboxItem, Writing, SandboxInv
  <2> QED BY <2>1, <2>2 DEF AttemptOf
<1>3. Sandbox!PrevHash \in Nat
  BY <1>1 DEF Sandbox!PrevHash
<1>4. /\ Sandbox!Line(FALSE) \in SandboxLine /\ Sandbox!Line(FALSE).item = Sandbox!Entry
  BY <1>2, <1>3 DEF Sandbox!Line, SandboxLine
<1>5. PICK line \in AnyLine, at \in {n, n + 1} :
        /\ EndsIn(x3', line, at)
        /\ at = n => x3 # <<>> /\ Sandbox!Unended /\ line \notin SandboxLine
        /\ at = n + 1 => ~ Sandbox!Unended
        /\ line \in {Cut, Split, Sandbox!Line(FALSE)}
  <2>1. CASE Sandbox!Unended
    <3>1. PICK part \in {Cut, Split} : x3' = [x3 EXCEPT ![n] = part]
      BY <2>1 DEF Sandbox!CutLines
    <3>2. x3 # <<>>
      BY <2>1, LastLine
    <3>3. EndsIn(x3', part, n) /\ part \in AnyLine /\ part \notin SandboxLine
      BY <1>1, <3>1, <3>2, Replaced, LinesDiffer DEF AnyLine
    <3>4. n # n + 1
      BY <1>1
    <3> QED BY <2>1, <3>1, <3>2, <3>3, <3>4
  <2>2. CASE ~ Sandbox!Unended
    <3>1. PICK part \in {Cut, Split, Sandbox!Line(FALSE)} : x3' = Append(x3, part)
      BY <2>2 DEF Sandbox!CutLines
    <3>2. part \in AnyLine
      BY <1>4, <3>1 DEF AnyLine
    <3>3. EndsIn(x3', part, n + 1)
      BY <1>1, <3>1, <3>2, Appended
    <3>4. n # n + 1
      BY <1>1
    <3> QED BY <2>2, <3>1, <3>2, <3>3, <3>4
  <2> QED BY <2>1, <2>2
<1>6. /\ x3' \in Seq(AnyLine) /\ Len(x3') = at /\ x3'[at] = line /\ at \in DOMAIN x3' /\ x3' # <<>>
      /\ \A c \in x5 : Lost(c)' => Lost(c)
      /\ line \notin SandboxLine => \E i \in DOMAIN x3' : Unreadable(i)'
      /\ (\E i \in DOMAIN x3 : Unreadable(i)) => (\E i \in DOMAIN x3' : Unreadable(i)')
  BY <1>5, LineKept
<1>7. LostCount \in Nat /\ LostCount' \in Nat /\ LostCount' <= LostCount
  BY <1>6, LostFewer DEF SandboxInv
<1>8. LostInv'
  <2>1. x7 \in Nat /\ LostCount <= x7
    BY DEF SandboxInv, LostInv
  <2>2. \A a, b, m \in Nat : b <= a /\ a <= m => b <= m + 1 /\ b + 1 <= m + 1
    OBVIOUS
  <2>3. LostCount' <= x7 + 1 /\ LostCount' + 1 <= x7 + 1
    BY <1>7, <2>1, <2>2
  <2> QED BY <2>3 DEF LostInv
<1>9. line \in SandboxLine => line = Sandbox!Line(FALSE)
  BY <1>5, LinesDiffer
<1>10. TailInv'
  <2>1. \A c \in x5 : c.n <= x2.n
    BY DEF SandboxInv, TailInv
  <2>2. ASSUME (Sandbox!WholeTail)', NEW c \in x5 PROVE x3'[Len(x3')].item # AttemptOf(c)
    <3>1. line \notin {Cut, Split, Garbage}
      BY <1>6, <2>2 DEF Sandbox!WholeTail, Sandbox!Unreadable
    <3>2. line = Sandbox!Line(FALSE)
      BY <1>5, <3>1
    <3> QED BY <1>2, <1>4, <1>6, <3>2
  <2> QED BY <2>1, <2>2 DEF TailInv, Anchoring, AttemptOf
<1>11. ChainInv'
  <2>1. x7' > 0 /\ x7' # 0
    BY DEF SandboxInv
  <2>2. x4 \in {None, Cut} \/ (x4 \in Nat /\ x4 <= at)
    <3>1. x4 \in {None, Cut} \/ (x4 \in Nat /\ x4 <= n)
      BY DEF SandboxInv, ChainInv
    <3> QED BY <1>1, <1>5, <3>1
  <2>3. \/ \E i \in DOMAIN x3' : Unreadable(i)'
        \/ x7' = 1 /\ (Sandbox!WholeTail)' /\ x4 # at
    <3>1. CASE line \notin SandboxLine
      BY <1>6, <3>1
    <3>2. CASE \E i \in DOMAIN x3 : Unreadable(i)
      BY <1>6, <3>2
    <3>3. CASE line \in SandboxLine /\ ~ \E i \in DOMAIN x3 : Unreadable(i)
      <4>1. at = n + 1 /\ ~ Sandbox!Unended
        BY <1>5, <3>3
      <4>2. ~ Sandbox!WholeTail
        BY <4>1, LastLine
      <4>3. x7 = 0
        BY <3>3, <4>2 DEF SandboxInv, ChainInv
      <4>4. x4 # at
        BY <1>1, <4>1, NoneAssumption, LinesAssumption DEF SandboxInv, ChainInv
      <4>5. line = Sandbox!Line(FALSE) /\ ~ line.ended /\ line \notin {Cut, Split, Garbage}
        BY <1>9, <3>3, LinesDiffer DEF Sandbox!Line
      <4>6. (Sandbox!WholeTail)'
        BY <1>6, <4>5 DEF Sandbox!WholeTail, Sandbox!Unreadable
      <4> QED BY <4>3, <4>4, <4>6
    <3> QED BY <3>1, <3>2, <3>3
  <2> QED BY <1>6, <2>1, <2>2, <2>3 DEF ChainInv
<1>12. x7' \in Nat /\ x8' \in BOOLEAN
  BY DEF SandboxInv
<1>13. x1' \notin {"attempt", "attempt_anchor", "execute"}
  OBVIOUS
<1> QED BY <1>6, <1>8, <1>10, <1>11, <1>12, <1>13 DEF SandboxInv, Permitted

\* A process that dies has written what it had, or a part of it.
LEMMA SandboxDies == ASSUME SandboxInv, Sandbox!Crash PROVE SandboxInv'
<1>1. x1 # "down" /\ x1' = "down" /\ x2' = x2
  BY DEF Sandbox!Crash
<1>2. ~ Owes' /\ x1' \notin Anchoring \cup {"execute", "attempt"} /\ x2'.n \in Nat /\ x2'.n >= x2.n
  BY <1>1 DEF Owes, Anchoring, SandboxInv
<1>4. CASE x8' = (x8 \/ x1 \in Anchoring) /\ UNCHANGED <<x3, x4, x7, x5>>
  <2>1. ~ x8' /\ x4' # None => x4' = Len(x3)
    BY <1>4 DEF SandboxInv, ChainInv
  <2>2. x8' \in BOOLEAN
    BY <1>4
  <2> QED BY <1>1, <1>2, <1>4, <2>1, <2>2, SandboxFrame
<1>5. CASE /\ x1 \in Writing /\ x3' \in Sandbox!CutLines
           /\ x7' = x7 + 1 /\ x8' = TRUE /\ x4' = x4 /\ x5' = x5
  BY <1>1, <1>5, LineCut
<1>6. CASE x1 \in Anchoring /\ x4' = Cut /\ x8' = TRUE /\ UNCHANGED <<x3, x7, x5>>
  BY <1>1, <1>2, <1>6, SandboxFrame
<1>7. CASE x1 = "execute" /\ x5' = x5 \cup {x2} /\ UNCHANGED <<x3, x4, x7, x8>>
  BY <1>1, <1>7, CommandRuns
<1> QED BY <1>4, <1>5, <1>6, <1>7 DEF Sandbox!Crash, Anchoring, Writing

\* Every step of the sandbox keeps the invariant.
LEMMA SandboxNext == ASSUME SandboxInv, Sandbox!Next PROVE SandboxInv'
<1>1. ASSUME Sandbox!Submit PROVE SandboxInv'
  <2>1. PICK level \in Sandbox!Level, blocked_path \in BOOLEAN, disabled \in BOOLEAN :
          /\ x2' = [n |-> x2.n + 1, level |-> level, blocked_path |-> blocked_path, disabled |-> disabled]
          /\ x1' = IF disabled \/ Sandbox!SandboxAllows(x2') THEN "attempt" ELSE "block"
    BY <1>1 DEF Sandbox!Submit
  <2>2. x1 = "ready" /\ UNCHANGED <<x3, x4, x5, x7, x8>>
    BY <1>1 DEF Sandbox!Submit
  <2>3. x2'.n = x2.n + 1 /\ x2'.disabled = disabled /\ x2'.level = level /\ x2'.blocked_path = blocked_path
    BY <2>1
  <2>4. x2'.n \in Nat /\ x2'.n >= x2.n
    BY <2>3 DEF SandboxInv
  <2>5. x1' \in {"attempt", "attempt_anchor", "execute"} => Permitted(x2') /\ \A c \in x5 : c.n # x2'.n
    <3>1. x1' \in {"attempt", "attempt_anchor", "execute"} => Permitted(x2')
      BY <2>1, <2>3 DEF Sandbox!SandboxAllows, Permitted
    <3>2. \A c \in x5 : c.n # x2'.n
      BY <2>3 DEF SandboxInv, TailInv
    <3> QED BY <3>1, <3>2
  <2>6. x1' \in {"attempt", "block"}
    BY <2>1
  <2>7. ~ Owes' /\ x1' \notin Anchoring \cup {"execute"}
    BY <2>6 DEF Owes, Anchoring
  <2>8. ~ x8' /\ x1' \notin Anchoring /\ x4' # None => x4' = Len(x3)
    BY <2>2 DEF SandboxInv, ChainInv, Anchoring
  <2> QED BY <2>2, <2>4, <2>5, <2>7, <2>8, SandboxFrame DEF SandboxInv
<1>2. ASSUME Sandbox!AuditBlock PROVE SandboxInv'
  BY <1>2, SandboxWrites DEF Sandbox!AuditBlock, Anchoring, Writing
<1>3. ASSUME Sandbox!AuditAttempt PROVE SandboxInv'
  BY <1>3, SandboxWrites DEF Sandbox!AuditAttempt, Anchoring, Writing
<1>4. ASSUME Sandbox!AuditResult PROVE SandboxInv'
  BY <1>4, SandboxWrites DEF Sandbox!AuditResult, Anchoring, Writing
<1>5. ASSUME Sandbox!AnchorEntry PROVE SandboxInv'
  <2>1. /\ x4' = Len(x3) /\ x8' = FALSE /\ UNCHANGED <<x2, x3, x5, x7>> /\ x1 \in Anchoring
        /\ \/ x1' = "ready"
           \/ x1 = "attempt_anchor" /\ x1' = "execute"
    BY <1>5 DEF Sandbox!AnchorEntry, Sandbox!WriteAnchor, Sandbox!Counted, Anchoring
  <2>2. x1' \in {"attempt", "attempt_anchor", "execute"} => Permitted(x2') /\ \A c \in x5 : c.n # x2'.n
    BY <2>1 DEF SandboxInv, TailInv
  <2>3. Owes' => Owes
    BY <2>1 DEF Owes, Lost, Unreadable, AttemptOf
  <2>4. x2'.n \in Nat /\ x2'.n >= x2.n
    BY <2>1 DEF SandboxInv
  <2> QED BY <2>1, <2>2, <2>3, <2>4, SandboxFrame
<1>6. ASSUME Sandbox!Execute PROVE SandboxInv'
  BY <1>6, CommandRuns DEF Sandbox!Execute
<1>7. ASSUME Sandbox!Restart \/ Sandbox!AuditRaises PROVE SandboxInv'
  <2>1. /\ x1 \in Writing \cup {"down"} /\ x1' \in {"ready", "down"}
        /\ UNCHANGED <<x2, x3, x4, x5, x7, x8>>
    BY <1>7 DEF Sandbox!Restart, Sandbox!AuditRaises, Writing
  <2>2. ~ Owes' /\ (~ x8' /\ x4' # None => x4' = Len(x3))
    BY <2>1 DEF Owes, SandboxInv, ChainInv, Anchoring, Writing
  <2>3. x2'.n \in Nat /\ x2'.n >= x2.n /\ x8' \in BOOLEAN /\ x1' \notin Anchoring \cup {"execute", "attempt"}
    BY <2>1 DEF SandboxInv, Anchoring
  <2> QED BY <2>1, <2>2, <2>3, SandboxFrame
<1>8. ASSUME Sandbox!Crash PROVE SandboxInv'
  BY <1>8, SandboxDies
<1> QED BY <1>1, <1>2, <1>3, <1>4, <1>5, <1>6, <1>7, <1>8 DEF Sandbox!Next

\* Every attempt is in the log or was paid for, and the verifier tells which.
LEMMA SandboxSound == SandboxInv => Sandbox!AttemptsAudited /\ Sandbox!VerifyTells
<1> SUFFICES ASSUME SandboxInv PROVE Sandbox!AttemptsAudited /\ Sandbox!VerifyTells
  OBVIOUS
<1>1. \A i : Sandbox!Unreadable(i) <=> Unreadable(i)
  BY DEF Sandbox!Unreadable, Unreadable
<1>2. Cardinality({c \in x5 : \A i \in DOMAIN x3 :
            Sandbox!Unreadable(i) \/ x3[i].item # [n |-> c.n, what |-> "command_execute"]}) <= x7
  BY <1>1 DEF SandboxInv, LostInv, LostCount, Lost, AttemptOf
<1>3. Sandbox!AttemptsAudited
  BY <1>2, SandboxCounted DEF SandboxInv, Permitted, Sandbox!AttemptsAudited
<1>4. Sandbox!VerifyTells
  BY <1>1 DEF SandboxInv, ChainInv, Anchoring, Sandbox!VerifyTells, Sandbox!VerifyChain
<1> QED BY <1>3, <1>4

-----------------------------------------------------------------------------
(* Governed tools: x1 is pc, x2 requests, x3 permission, x4 status, x5     *)
(* records and x6 executed                                                 *)

\* The record of a request, and those of its permission and its result.
Asked(n) == x5[3 * n - 2].event = "request" /\ x5[3 * n - 2].n = n

Resolved(n, outcome) ==
    LET r == x5[3 * n - 1] IN
    /\ r.event = "permission" /\ r.n = n
    /\ r.rule = Governed!Decide(x2[n]).id /\ r.outcome = outcome
    /\ outcome \in Governed!Resolutions(Governed!Decide(x2[n]))

Reported(n) ==
    LET r == x5[3 * n] IN
    /\ r.event = "result" /\ r.n = n /\ r.rule = Governed!Decide(x2[n]).id
    /\ r.outcome = "blocked" <=> ~ Governed!Allowed(x5[3 * n - 1].outcome)
    /\ r.outcome = "succeeded" => n \in x6

Told(n) == Asked(n) /\ Resolved(n, x5[3 * n - 1].outcome) /\ Reported(n)

\* How far the trail is with the request in work.
Trail ==
    LET n == Len(x2) IN
    CASE x1 = "ready" -> Len(x5) = 3 * n /\ (n > 0 => Told(n))
      [] x1 \in {"decide", "permission"} -> Len(x5) = 3 * n - 2 /\ Asked(n)
      [] x1 \in {"execute", "post"} -> Len(x5) = 3 * n - 1 /\ Asked(n) /\ Resolved(n, x3)
      [] OTHER -> x1 = "down"

RuleId == {"bash.hard_deny", "path.outside_workspace", "path.read_allow",
           "path.write_requires_approval", "bash.requires_approval",
           "request.invalid_arguments", "default.deny"}
Outcome == {"allowed", "denied", "approved", "rejected", "cancelled", "blocked", "succeeded", "failed"}
TrailRecord == [event : {"request"}, n : Nat]
                 \cup [event : {"permission", "result"}, n : Nat, rule : RuleId, outcome : Outcome]

GovernedInv ==
    /\ x2 \in Seq(Governed!Request)
    /\ x5 \in Seq(TrailRecord)
    /\ x1 \in {"ready", "decide", "permission", "execute", "post", "down"}
    /\ x1 \in {"decide", "permission", "execute", "post"} => Len(x2) > 0
    /\ x1 \in {"permission", "execute", "post"} => x3 \in Governed!Resolutions(Governed!Decide(x2[Len(x2)]))
    /\ x1 = "post" => /\ x4 \in {"blocked", "succeeded", "failed"}
                      /\ x4 = "blocked" <=> ~ Governed!Allowed(x3)
                      /\ x4 = "succeeded" => Len(x2) \in x6
    /\ Trail
    /\ \A n \in 1 .. Len(x2) - 1 : Len(x5) >= 3 * n /\ Told(n)
    /\ \A n \in x6 : /\ n \in 1 .. Len(x2) /\ Len(x5) >= 3 * n - 1
                     /\ Resolved(n, x5[3 * n - 1].outcome) /\ Governed!Allowed(x5[3 * n - 1].outcome)

\* What the first rule that matches says of every kind of call (Decide).
LEMMA DecideCases ==
    ASSUME NEW r \in Governed!Request
    PROVE  LET d == Governed!Decide(r) IN
           /\ d.id \in RuleId /\ d.action \in {"allow", "deny", "ask"}
           /\ d.action # "deny" => /\ r.valid
                                   /\ r.tool \in Governed!Path => r.inside
                                   /\ r.tool = "bash" => ~ r.harmful
           /\ d.action = "allow" <=> r.valid /\ r.tool \in {"read_file", "glob"} /\ r.inside
<1> DEFINE hits == {i \in DOMAIN Governed!Rules : Governed!Matches(Governed!Rules[i].id, r)}
<1>1. /\ DOMAIN Governed!Rules = 1 .. 5
      /\ Governed!Rules[1] = [id |-> "bash.hard_deny", action |-> "deny"]
      /\ Governed!Rules[2] = [id |-> "path.outside_workspace", action |-> "deny"]
      /\ Governed!Rules[3] = [id |-> "path.read_allow", action |-> "allow"]
      /\ Governed!Rules[4] = [id |-> "path.write_requires_approval", action |-> "ask"]
      /\ Governed!Rules[5] = [id |-> "bash.requires_approval", action |-> "ask"]
  BY DEF Governed!Rules, Governed!Rule
<1>7. /\ Governed!Matches(Governed!Rules[1].id, r) <=> r.tool = "bash" /\ r.harmful
      /\ Governed!Matches(Governed!Rules[2].id, r) <=> r.tool \in Governed!Path /\ ~ r.inside
      /\ Governed!Matches(Governed!Rules[3].id, r) <=> r.tool \in {"read_file", "glob"} /\ r.inside
      /\ Governed!Matches(Governed!Rules[4].id, r) <=> r.tool \in {"write_file", "edit_file"} /\ r.inside
      /\ Governed!Matches(Governed!Rules[5].id, r) <=> r.tool = "bash"
  BY <1>1 DEF Governed!Matches
<1>2. /\ 1 \in hits <=> r.tool = "bash" /\ r.harmful
      /\ 2 \in hits <=> r.tool \in Governed!Path /\ ~ r.inside
      /\ 3 \in hits <=> r.tool \in {"read_file", "glob"} /\ r.inside
      /\ 4 \in hits <=> r.tool \in {"write_file", "edit_file"} /\ r.inside
      /\ 5 \in hits <=> r.tool = "bash"
      /\ hits \subseteq 1 .. 5
  BY <1>1, <1>7
<1> HIDE DEF hits
<1>3. ASSUME hits # {}
      PROVE  Governed!Min(hits) \in hits /\ \A i \in hits : Governed!Min(hits) <= i
  <2>1. \E i \in hits : \A j \in hits : i <= j
    <3>1. CASE 1 \in hits
      <4>1. hits \subseteq 1 .. 5
        BY <1>2
      <4> QED BY <4>1, <3>1
    <3>2. CASE 1 \notin hits /\ 2 \in hits
      <4>1. hits \subseteq 1 .. 5
        BY <1>2
      <4> QED BY <4>1, <3>2
    <3>3. CASE 1 \notin hits /\ 2 \notin hits /\ 3 \in hits
      <4>1. hits \subseteq 1 .. 5
        BY <1>2
      <4> QED BY <4>1, <3>3
    <3>4. CASE 1 \notin hits /\ 2 \notin hits /\ 3 \notin hits /\ 4 \in hits
      <4>1. hits \subseteq 1 .. 5
        BY <1>2
      <4> QED BY <4>1, <3>4
    <3>5. CASE 1 \notin hits /\ 2 \notin hits /\ 3 \notin hits /\ 4 \notin hits
      <4>1. hits \subseteq 1 .. 5
        BY <1>2
      <4>2. PICK i \in hits : TRUE
        BY <1>3
      <4>3. \A j \in hits : j = 5
        BY <4>1, <3>5
      <4> QED BY <4>1, <4>2, <4>3
    <3> QED BY <3>1, <3>2, <3>3, <3>4, <3>5
  <2> QED BY <2>1 DEF Governed!Min
<1>4. Governed!Decide(r) = IF ~ r.valid THEN [id |-> "request.invalid_arguments", action |-> "deny"]
                           ELSE IF hits # {} THEN Governed!Rules[Governed!Min(hits)]
                           ELSE [id |-> "default.deny", action |-> "deny"]
  BY DEF Governed!Decide, Governed!Rule, hits
<1>5. CASE r.valid /\ hits # {}
  <2> DEFINE m == Governed!Min(hits)
  <2>1. m \in 1 .. 5 /\ m \in hits /\ \A i \in hits : m <= i
    BY <1>2, <1>3, <1>5
  <2>2. Governed!Decide(r) = Governed!Rules[m]
    BY <1>4, <1>5
  <2> HIDE DEF m
  <2>3. r.tool \in {"read_file", "glob"} => r.tool # "bash" /\ r.tool \in Governed!Path
    BY DEF Governed!Path
  <2>4. "bash" \notin Governed!Path
    BY DEF Governed!Path
  <2> DEFINE d == Governed!Decide(r)
  <2>5. ASSUME m = 1 PROVE r.valid /\ r.tool = "bash" /\ r.harmful /\ d = [id |-> "bash.hard_deny", action |-> "deny"]
    BY <1>1, <1>2, <1>5, <2>1, <2>2, <2>5
  <2>6. ASSUME m = 2 PROVE r.tool \in Governed!Path /\ ~ r.inside /\ d = [id |-> "path.outside_workspace", action |-> "deny"]
    BY <1>1, <1>2, <1>5, <2>1, <2>2, <2>6
  <2>7. ASSUME m = 3 PROVE r.tool \in {"read_file", "glob"} /\ r.inside /\ d = [id |-> "path.read_allow", action |-> "allow"]
    BY <1>1, <1>2, <1>5, <2>1, <2>2, <2>7
  <2>8. ASSUME m = 4 PROVE r.tool \in {"write_file", "edit_file"} /\ r.inside /\ d = [id |-> "path.write_requires_approval", action |-> "ask"]
    BY <1>1, <1>2, <1>5, <2>1, <2>2, <2>8
  <2>9. ASSUME m = 5 PROVE r.tool = "bash" /\ ~ r.harmful /\ d = [id |-> "bash.requires_approval", action |-> "ask"]
    <3>1. 1 \notin hits
      BY <2>1, <2>9
    <3> QED BY <1>1, <1>2, <1>5, <2>1, <2>2, <2>9, <3>1
  <2> HIDE DEF d
  <2>10. d.id \in RuleId /\ d.action \in {"allow", "deny", "ask"}
    BY <2>1, <2>5, <2>6, <2>7, <2>8, <2>9 DEF RuleId
  <2>11. d.action # "deny" => (r.tool \in Governed!Path => r.inside) /\ (r.tool = "bash" => ~ r.harmful)
    BY <2>1, <2>3, <2>4, <2>5, <2>6, <2>7, <2>8, <2>9
  <2>12. d.action = "allow" <=> r.tool \in {"read_file", "glob"} /\ r.inside
    <3>1. m = 1 \/ m = 2 \/ m = 3 \/ m = 4 \/ m = 5
      BY <2>1
    <3>2. "write_file" \notin {"read_file", "glob"} /\ "edit_file" \notin {"read_file", "glob"} /\ "bash" \notin {"read_file", "glob"}
      OBVIOUS
    <3> QED BY <2>3, <2>5, <2>6, <2>7, <2>8, <2>9, <3>1, <3>2
  <2> QED BY <1>5, <2>10, <2>11, <2>12 DEF d
<1>6. CASE ~ (r.valid /\ hits # {})
  <2>1. \/ Governed!Decide(r) = [id |-> "request.invalid_arguments", action |-> "deny"]
        \/ Governed!Decide(r) = [id |-> "default.deny", action |-> "deny"]
    BY <1>4, <1>6
  <2>2. r.valid => ~ (r.tool \in {"read_file", "glob"} /\ r.inside)
    BY <1>2, <1>6
  <2> QED BY <2>1, <2>2 DEF RuleId
<1> QED BY <1>5, <1>6

\* What is in the trail stays there.
LEMMA TrailKept ==
    ASSUME x5 \in Seq(TrailRecord), x6 \subseteq x6', \A i \in 1 .. Len(x5) : x5'[i] = x5[i],
           NEW n \in Nat, n > 0, x2'[n] = x2[n]
    PROVE  /\ Len(x5) >= 3 * n - 2 /\ Asked(n) => Asked(n)'
           /\ Len(x5) >= 3 * n - 1 => x5'[3 * n - 1] = x5[3 * n - 1]
           /\ \A o : Len(x5) >= 3 * n - 1 /\ Resolved(n, o) => Resolved(n, o)'
           /\ Len(x5) >= 3 * n /\ Told(n) => Told(n)'
<1>0. Len(x5) \in Nat
  BY LenProperties
<1>1. ASSUME Len(x5) >= 3 * n - 2 PROVE x5'[3 * n - 2] = x5[3 * n - 2]
  BY <1>0, <1>1
<1>2. ASSUME Len(x5) >= 3 * n - 1 PROVE x5'[3 * n - 1] = x5[3 * n - 1]
  BY <1>0, <1>2
<1>3. ASSUME Len(x5) >= 3 * n PROVE x5'[3 * n] = x5[3 * n] /\ Len(x5) >= 3 * n - 1 /\ Len(x5) >= 3 * n - 2
  BY <1>0, <1>3
<1>4. Len(x5) >= 3 * n - 2 /\ Asked(n) => Asked(n)'
  BY <1>1 DEF Asked
<1>5. ASSUME NEW o, Len(x5) >= 3 * n - 1, Resolved(n, o) PROVE Resolved(n, o)'
  BY <1>2, <1>5 DEF Resolved
<1>6. ASSUME Len(x5) >= 3 * n, Reported(n) PROVE Reported(n)'
  <2>1. x5'[3 * n] = x5[3 * n] /\ x5'[3 * n - 1] = x5[3 * n - 1]
    BY <1>2, <1>3, <1>6
  <2> QED BY <1>6, <2>1 DEF Reported
<1>7. ASSUME Len(x5) >= 3 * n, Told(n) PROVE Told(n)'
  <2>1. Asked(n)' /\ Reported(n)'
    BY <1>3, <1>4, <1>6, <1>7 DEF Told
  <2>2. x5'[3 * n - 1] = x5[3 * n - 1] /\ Resolved(n, x5[3 * n - 1].outcome)
    BY <1>2, <1>3, <1>7 DEF Told
  <2>3. Resolved(n, x5[3 * n - 1].outcome)'
    BY <1>2, <1>3, <2>2 DEF Resolved
  <2> QED BY <2>1, <2>3 DEF Told
<1> QED BY <1>2, <1>4, <1>5, <1>7

\* Every step of a governed call keeps the trail.
LEMMA GovernedNext == ASSUME GovernedInv, Governed!Next PROVE GovernedInv'
<1> DEFINE n == Len(x2)
<1>0. n \in Nat /\ Len(x5) \in Nat
  BY LenProperties DEF GovernedInv
<1>1. ASSUME NEW e \in TrailRecord, x5' = Append(x5, e)
      PROVE  /\ x5' \in Seq(TrailRecord) /\ Len(x5') = Len(x5) + 1 /\ x5'[Len(x5) + 1] = e
             /\ \A i \in 1 .. Len(x5) : x5'[i] = x5[i]
  BY <1>1, AppendProperties DEF GovernedInv
<1>2. ASSUME Governed!PreToolUse PROVE GovernedInv'
  <2> DEFINE e == [event |-> "request", n |-> n + 1]
  <2>1. PICK r \in Governed!Request : x2' = Append(x2, r) /\ x5' = Append(x5, e)
    BY <1>2 DEF Governed!PreToolUse, Governed!Audit
  <2>2. x1 = "ready" /\ x1' \in {"decide", "down"} /\ x6' = x6
    BY <1>2 DEF Governed!PreToolUse
  <2>3. e \in TrailRecord /\ e.event = "request" /\ e.n = n + 1
    BY <1>0 DEF TrailRecord
  <2> HIDE DEF e
  <2>4. /\ x5' \in Seq(TrailRecord) /\ Len(x5') = Len(x5) + 1 /\ x5'[Len(x5) + 1] = e
        /\ \A i \in 1 .. Len(x5) : x5'[i] = x5[i]
    BY <1>1, <2>1, <2>3
  <2>5. /\ x2' \in Seq(Governed!Request) /\ Len(x2') = n + 1
        /\ \A k \in 1 .. n : x2'[k] = x2[k]
    BY <2>1, AppendProperties DEF GovernedInv
  <2>6. Len(x5) = 3 * n /\ (n > 0 => Told(n))
    BY <2>2 DEF GovernedInv, Trail
  <2>7. \A k \in 1 .. n : Len(x5) >= 3 * k /\ Told(k)
    <3> SUFFICES ASSUME NEW k \in 1 .. n PROVE Len(x5) >= 3 * k /\ Told(k)
      OBVIOUS
    <3>1. CASE k = n
      BY <1>0, <2>6, <3>1
    <3>2. CASE k # n
      <4>1. k \in 1 .. n - 1
        BY <1>0, <3>2
      <4> QED BY <4>1 DEF GovernedInv
    <3> QED BY <3>1, <3>2
  <2> HIDE DEF n
  <2>8. \A k \in 1 .. n : Len(x5') >= 3 * k /\ Told(k)'
    <3> SUFFICES ASSUME NEW k \in 1 .. n PROVE Len(x5') >= 3 * k /\ Told(k)'
      OBVIOUS
    <3>1. k \in Nat /\ k > 0 /\ x2'[k] = x2[k] /\ Len(x5) >= 3 * k /\ Told(k) /\ x6 \subseteq x6' /\ x5 \in Seq(TrailRecord)
      BY <1>0, <2>2, <2>5, <2>7 DEF GovernedInv
    <3>2. Told(k)'
      BY <2>4, <3>1, TrailKept
    <3> QED BY <1>0, <2>4, <3>1, <3>2
  <2>9. Trail'
    <3>1. Len(x5') = 3 * Len(x2') - 2
      BY <1>0, <2>4, <2>5, <2>6
    <3>2. /\ x5'[3 * Len(x2') - 2].event = "request"
          /\ x5'[3 * Len(x2') - 2].n = Len(x2')
      <4>1. 3 * Len(x2') - 2 = Len(x5) + 1
        BY <1>0, <2>4, <2>5, <2>6
      <4> QED BY <2>3, <2>4, <2>5, <4>1
    <3> QED BY <2>2, <3>1, <3>2 DEF Trail, Asked
  <2>10. \A k \in x6' : /\ k \in 1 .. Len(x2') /\ Len(x5') >= 3 * k - 1
                        /\ Resolved(k, x5[3 * k - 1].outcome)' /\ Governed!Allowed(x5'[3 * k - 1].outcome)
    <3> SUFFICES ASSUME NEW k \in x6
                 PROVE  /\ k \in 1 .. Len(x2') /\ Len(x5') >= 3 * k - 1
                        /\ Resolved(k, x5[3 * k - 1].outcome)' /\ Governed!Allowed(x5'[3 * k - 1].outcome)
      BY <2>2
    <3>1. /\ k \in 1 .. n /\ Len(x5) >= 3 * k - 1
          /\ Governed!Allowed(x5[3 * k - 1].outcome)
      BY DEF GovernedInv, n
    <3>2. Told(k)' /\ Len(x5') >= 3 * k
      BY <2>8, <3>1
    <3>3. x5'[3 * k - 1] = x5[3 * k - 1]
      <4>1. 3 * k - 1 \in 1 .. Len(x5)
        BY <1>0, <3>1
      <4> QED BY <2>4, <4>1
    <3> QED BY <1>0, <2>5, <3>1, <3>2, <3>3 DEF Told
  <2>11. \A k \in 1 .. Len(x2') - 1 : Len(x5') >= 3 * k /\ Told(k)'
    <3>1. 1 .. Len(x2') - 1 = 1 .. n
      BY <1>0, <2>5
    <3> QED BY <2>8, <3>1
  <2> QED BY <1>0, <2>2, <2>4, <2>5, <2>9, <2>10, <2>11 DEF GovernedInv
<1>3. ASSUME Governed!ResolvePermission PROVE GovernedInv'
  <2>1. /\ x1 = "decide" /\ x1' = "permission" /\ x3' \in Governed!Resolutions(Governed!Decide(x2[n]))
        /\ UNCHANGED <<x2, x4, x5, x6>>
    BY <1>3 DEF Governed!ResolvePermission, Governed!Current
  <2> QED BY <1>0, <2>1 DEF GovernedInv, Trail, Asked, Told, Resolved, Reported
<1>4. ASSUME Governed!Block PROVE GovernedInv'
  BY <1>0, <1>4 DEF Governed!Block, GovernedInv, Trail, Asked, Told, Resolved, Reported
<1>5. ASSUME NEW e \in TrailRecord, x5' = Append(x5, e), x2' = x2, x6' = x6,
             Len(x5) >= 3 * n - 2, n > 0, n \notin x6 \/ Len(x5) >= 3 * n - 1,
             NEW p \in {"execute", "ready", "down"}, x1' = p, Trail',
             p = "execute" => x3' \in Governed!Resolutions(Governed!Decide(x2[n]))
      PROVE  GovernedInv'
  <2>1. /\ x5' \in Seq(TrailRecord) /\ Len(x5') = Len(x5) + 1
        /\ \A i \in 1 .. Len(x5) : x5'[i] = x5[i]
    BY <1>1, <1>5
  <2>2. ASSUME NEW k \in 1 .. Len(x2) - 1 PROVE Len(x5') >= 3 * k /\ Told(k)'
    <3>1. k \in Nat /\ k > 0 /\ x2'[k] = x2[k] /\ Len(x5) >= 3 * k /\ Told(k) /\ x6 \subseteq x6' /\ x5 \in Seq(TrailRecord)
      BY <1>0, <1>5 DEF GovernedInv
    <3>2. Told(k)'
      BY <2>1, <3>1, TrailKept
    <3> QED BY <1>0, <2>1, <3>1, <3>2
  <2>3. ASSUME NEW k \in x6
        PROVE  /\ k \in 1 .. Len(x2) /\ Len(x5') >= 3 * k - 1
               /\ Resolved(k, x5[3 * k - 1].outcome)' /\ Governed!Allowed(x5'[3 * k - 1].outcome)
    <3>1. /\ k \in 1 .. n /\ Len(x5) >= 3 * k - 1
          /\ Governed!Allowed(x5[3 * k - 1].outcome) /\ Resolved(k, x5[3 * k - 1].outcome)
      BY DEF GovernedInv
    <3>2. k \in Nat /\ k > 0 /\ x2'[k] = x2[k] /\ x6 \subseteq x6' /\ x5 \in Seq(TrailRecord)
      BY <1>0, <1>5, <3>1 DEF GovernedInv
    <3>3. /\ x5'[3 * k - 1] = x5[3 * k - 1]
          /\ \A o : Len(x5) >= 3 * k - 1 /\ Resolved(k, o) => Resolved(k, o)'
      BY <2>1, <3>1, <3>2, TrailKept
    <3>4. Resolved(k, x5[3 * k - 1].outcome)'
      BY <3>1, <3>3 DEF Resolved
    <3> QED BY <1>0, <2>1, <3>1, <3>3, <3>4
  <2>4. /\ x2' \in Seq(Governed!Request)
        /\ x1' \in {"ready", "decide", "permission", "execute", "post", "down"}
        /\ x1' \in {"decide", "permission", "execute", "post"} => Len(x2') > 0
        /\ x1' \in {"permission", "execute", "post"} => x3' \in Governed!Resolutions(Governed!Decide(x2'[Len(x2')]))
        /\ x1' # "post"
    BY <1>5 DEF GovernedInv
  <2> QED BY <1>5, <2>1, <2>2, <2>3, <2>4 DEF GovernedInv
<1>6. ASSUME Governed!PermissionDecision PROVE GovernedInv'
  <2> DEFINE e == [event |-> "permission", n |-> n, rule |-> Governed!Decide(x2[n]).id, outcome |-> x3]
  <2>1. /\ x1 = "permission" /\ x1' \in {"execute", "down"} /\ x5' = Append(x5, e)
        /\ UNCHANGED <<x2, x3, x4, x6>>
    BY <1>6 DEF Governed!PermissionDecision, Governed!Audit, Governed!Current
  <2>2. /\ n > 0 /\ x2[n] \in Governed!Request /\ Len(x5) = 3 * n - 2 /\ Asked(n)
        /\ x3 \in Governed!Resolutions(Governed!Decide(x2[n]))
    BY <1>0, <2>1 DEF GovernedInv, Trail
  <2>3. x3 \in Outcome /\ Governed!Decide(x2[n]).id \in RuleId
    BY <2>2, DecideCases DEF Governed!Resolutions, Outcome
  <2>4. /\ e \in TrailRecord /\ e.event = "permission" /\ e.n = n
        /\ e.rule = Governed!Decide(x2[n]).id /\ e.outcome = x3
    BY <1>0, <2>3 DEF TrailRecord
  <2> HIDE DEF e
  <2>5. /\ Len(x5') = 3 * n - 1 /\ x5'[3 * n - 1] = e
        /\ x5'[3 * n - 2] = x5[3 * n - 2]
    <3>1. Len(x5) + 1 = 3 * n - 1 /\ 3 * n - 2 \in 1 .. Len(x5)
      BY <1>0, <2>2
    <3> QED BY <1>1, <2>1, <2>4, <3>1
  <2>6. Trail'
    BY <2>1, <2>2, <2>4, <2>5 DEF Trail, Asked, Resolved
  <2>7. n \notin x6 \/ Len(x5) >= 3 * n - 1
    BY DEF GovernedInv
  <2>8. Len(x5) >= 3 * n - 2
    BY <1>0, <2>2
  <2> QED BY <1>5, <2>1, <2>2, <2>4, <2>6, <2>7, <2>8
<1>7. ASSUME Governed!PostToolUse PROVE GovernedInv'
  <2> DEFINE e == [event |-> "result", n |-> n, rule |-> Governed!Decide(x2[n]).id, outcome |-> x4]
  <2>1. /\ x1 = "post" /\ x1' \in {"ready", "down"} /\ x5' = Append(x5, e)
        /\ UNCHANGED <<x2, x3, x4, x6>>
    BY <1>7 DEF Governed!PostToolUse, Governed!Audit, Governed!Current
  <2>2. /\ n > 0 /\ x2[n] \in Governed!Request /\ Len(x5) = 3 * n - 1 /\ Asked(n) /\ Resolved(n, x3)
        /\ x4 \in {"blocked", "succeeded", "failed"}
        /\ x4 = "blocked" <=> ~ Governed!Allowed(x3)
        /\ x4 = "succeeded" => n \in x6
    BY <1>0, <2>1 DEF GovernedInv, Trail
  <2>3. x4 \in Outcome /\ Governed!Decide(x2[n]).id \in RuleId
    BY <2>2, DecideCases DEF Outcome
  <2>4. /\ e \in TrailRecord /\ e.event = "result" /\ e.n = n
        /\ e.rule = Governed!Decide(x2[n]).id /\ e.outcome = x4
    BY <1>0, <2>3 DEF TrailRecord
  <2> HIDE DEF e
  <2>5. /\ Len(x5') = 3 * n /\ x5'[3 * n] = e
        /\ x5'[3 * n - 2] = x5[3 * n - 2] /\ x5'[3 * n - 1] = x5[3 * n - 1]
    <3>1. Len(x5) + 1 = 3 * n /\ 3 * n - 2 \in 1 .. Len(x5) /\ 3 * n - 1 \in 1 .. Len(x5)
      BY <1>0, <2>2
    <3> QED BY <1>1, <2>1, <2>4, <3>1
  <2>6. x5[3 * n - 1].outcome = x3
    BY <2>2 DEF Resolved
  <2>9. Asked(n)' /\ Resolved(n, x5[3 * n - 1].outcome)' /\ Reported(n)'
    BY <2>1, <2>2, <2>4, <2>5, <2>6 DEF Asked, Resolved, Reported
  <2>10. Trail'
    BY <2>1, <2>5, <2>9 DEF Trail, Told
  <2>7. n \notin x6 \/ Len(x5) >= 3 * n - 1
    BY <1>0, <2>2
  <2>8. Len(x5) >= 3 * n - 2
    BY <1>0, <2>2
  <2> QED BY <1>5, <2>1, <2>2, <2>4, <2>10, <2>7, <2>8
<1>8. ASSUME Governed!Execute PROVE GovernedInv'
  <2>1. /\ x1 = "execute" /\ x1' = "post" /\ Governed!Allowed(x3)
        /\ \/ x6' = x6 \cup {n} /\ x4' \in {"succeeded", "failed"}
           \/ x6' = x6 /\ x4' = "failed"
        /\ UNCHANGED <<x2, x3, x5>>
    BY <1>8 DEF Governed!Execute
  <2>2. n > 0 /\ Len(x5) = 3 * n - 1 /\ Asked(n) /\ Resolved(n, x3)
    BY <1>0, <2>1 DEF GovernedInv, Trail
  <2>3. Trail' /\ Asked(n)' /\ Resolved(n, x3)'
    BY <2>1, <2>2 DEF Trail, Asked, Resolved
  <2>4. x5[3 * n - 1].outcome = x3
    BY <2>2 DEF Resolved
  <2>5. ASSUME NEW k \in 1 .. Len(x2) - 1 PROVE Len(x5') >= 3 * k /\ Told(k)'
    BY <2>1 DEF GovernedInv, Told, Asked, Resolved, Reported
  <2>6. ASSUME NEW k \in x6'
        PROVE  /\ k \in 1 .. Len(x2) /\ Len(x5) >= 3 * k - 1
               /\ Resolved(k, x5[3 * k - 1].outcome)' /\ Governed!Allowed(x5[3 * k - 1].outcome)
    <3>1. CASE k \in x6
      BY <2>1, <3>1 DEF GovernedInv, Resolved
    <3>2. CASE k = n
      <4>1. k \in 1 .. Len(x2) /\ Len(x5) >= 3 * k - 1
        BY <1>0, <2>2, <3>2
      <4> QED BY <2>1, <2>2, <2>3, <2>4, <3>2, <4>1 DEF Resolved
    <3> QED BY <2>1, <3>1, <3>2
  <2>7. /\ x4' \in {"blocked", "succeeded", "failed"}
        /\ x4' = "blocked" <=> ~ Governed!Allowed(x3)
        /\ x4' = "succeeded" => n \in x6'
    BY <2>1
  <2>8. /\ x2 \in Seq(Governed!Request) /\ x5 \in Seq(TrailRecord)
        /\ x3 \in Governed!Resolutions(Governed!Decide(x2[Len(x2)]))
    BY <2>1 DEF GovernedInv
  <2> QED BY <1>0, <2>1, <2>2, <2>3, <2>5, <2>6, <2>7, <2>8 DEF GovernedInv
<1> QED BY <1>2, <1>3, <1>4, <1>6, <1>7, <1>8 DEF Governed!Next

\* An executed request was resolved to a yes, which no call that is refused has; and
\* the trail of a call that came back is its three records.
LEMMA GovernedSound == GovernedInv => Governed!ExecutedPermitted /\ Governed!TrailComplete
<1> SUFFICES ASSUME GovernedInv PROVE Governed!ExecutedPermitted /\ Governed!TrailComplete
  OBVIOUS
<1>0. Len(x2) \in Nat /\ Len(x5) \in Nat
  BY LenProperties DEF GovernedInv
<1>1. ASSUME NEW n \in x6
      PROVE  LET r == x2[n] IN
             /\ r.valid
             /\ r.tool \in Governed!Path => r.inside
             /\ r.tool = "bash" => ~ r.harmful
             /\ \E i \in DOMAIN x5 :
                  /\ x5[i].n = n /\ x5[i].event = "permission"
                  /\ IF r.tool \in {"read_file", "glob"} THEN x5[i].outcome = "allowed"
                     ELSE x5[i].outcome = "approved"
  <2> DEFINE o == x5[3 * n - 1].outcome
             d == Governed!Decide(x2[n])
  <2>1. n \in 1 .. Len(x2) /\ Len(x5) >= 3 * n - 1 /\ Resolved(n, o) /\ Governed!Allowed(o)
    BY DEF GovernedInv
  <2>2. x2[n] \in Governed!Request
    BY <2>1 DEF GovernedInv
  <2>3. /\ d.action \in {"allow", "deny", "ask"}
        /\ d.action # "deny" => /\ x2[n].valid
                                /\ x2[n].tool \in Governed!Path => x2[n].inside
                                /\ x2[n].tool = "bash" => ~ x2[n].harmful
        /\ d.action = "allow" <=> x2[n].valid /\ x2[n].tool \in {"read_file", "glob"} /\ x2[n].inside
    BY <2>2, DecideCases
  <2> HIDE DEF d
  <2>4. (d.action = "allow" /\ o = "allowed") \/ (d.action = "ask" /\ o = "approved")
    BY <2>1, <2>3 DEF Resolved, Governed!Resolutions, Governed!Allowed, d
  <2>5. 3 * n - 1 \in DOMAIN x5
    <3>1. DOMAIN x5 = 1 .. Len(x5)
      BY LenProperties DEF GovernedInv
    <3> QED BY <1>0, <2>1, <3>1
  <2>6. x5[3 * n - 1].n = n /\ x5[3 * n - 1].event = "permission"
    BY <2>1 DEF Resolved
  <2>7. {"read_file", "glob"} \subseteq Governed!Path
    BY DEF Governed!Path
  <2>8. IF x2[n].tool \in {"read_file", "glob"} THEN o = "allowed" ELSE o = "approved"
    BY <2>3, <2>4, <2>7
  <2> QED BY <2>3, <2>4, <2>5, <2>6, <2>8
<1>2. ASSUME x1 = "ready" PROVE Len(x5) = 3 * Len(x2) /\ \A n \in DOMAIN x2 : Told(n)
  <2>1. DOMAIN x2 = 1 .. Len(x2)
    BY LenProperties DEF GovernedInv
  <2>2. Len(x5) = 3 * Len(x2) /\ (Len(x2) > 0 => Told(Len(x2)))
    BY <1>2 DEF GovernedInv, Trail
  <2>3. ASSUME NEW n \in 1 .. Len(x2) PROVE Told(n)
    <3>1. CASE n = Len(x2)
      BY <1>0, <2>2, <3>1
    <3>2. CASE n # Len(x2)
      <4>1. n \in 1 .. Len(x2) - 1
        BY <1>0, <3>2
      <4> QED BY <4>1 DEF GovernedInv
    <3> QED BY <3>1, <3>2
  <2> QED BY <2>1, <2>2, <2>3
<1> QED BY <1>1, <1>2 DEF Governed!ExecutedPermitted, Governed!TrailComplete, Told, Asked, Resolved, Reported

-----------------------------------------------------------------------------
(* Skills: x1 is index, x2 loaded, x3 pending, x4 agreed and x5 executed   *)

\* The skill the program comes with, and those a model proposes.
SkillSeed == [title |-> "git-commit", content |-> "plain",
              permissions |-> [tools |-> {"bash"}, network |-> FALSE, read |-> SkillPath, write |-> {}]]
Proposed == [title : SkillTitle, content : Skills!Content, permissions : Skills!Permissions]
Skill == Proposed \cup {SkillSeed}

SkillTypes ==
    /\ x1 \in Seq(Skill) /\ x2 \in Seq(Skill)
    /\ x3 \in [SkillTitle -> Proposed \cup {None}]
    /\ x4 \in [SkillTitle -> Proposed \cup {None}]

\* What waits needs the user and is not in the index; what they agreed to waits still
\* or is there.
QueueInv ==
    \A t \in SkillTitle :
        /\ x3[t] # None => /\ x3[t].title = t /\ ~ Skills!Indexed(t)
                           /\ Skills!AuditSkill(x3[t].content, x3[t].permissions, None) = "P1"
        /\ x4[t] # None => IF x3[t] # None THEN x4[t] = x3[t] ELSE Skills!Indexed(t)

\* A call ran under skills of the index, one of which lets it use the network.
CallInv ==
    x5 # None =>
        /\ \A s \in x5.active : \E i \in DOMAIN x1 : x1[i] = s
        /\ x5.active # {} /\ x5.call.tool = "bash" /\ x5.call.network =>
             \E s \in x5.active : s.permissions.network

LoadedInv ==
    /\ \A i, j \in DOMAIN x2 : x2[i].title = x2[j].title => i = j
    /\ \A i \in DOMAIN x2 : \E j \in DOMAIN x1 : x1[j] = x2[i]

SkillsInv == SkillTypes /\ QueueInv /\ Skills!IndexAsAgreed /\ LoadedInv /\ CallInv

\* Whoever is not the program's own skill was proposed.
LEMMA NotSeed == ASSUME NEW s \in Skill, s # SkillSeed PROVE s \in Proposed /\ s.title \in SkillTitle
  BY DEF Skill, Proposed

\* The index as it was, and one skill more.
LEMMA IndexGrows ==
    ASSUME SkillsInv, NEW s \in Proposed, ~ Skills!Indexed(s.title), x1' = Append(x1, s),
           x2' = x2, x5' = x5, x4' = x4,
           s = x4[s.title] \/ (s.content = "plain" /\ ~ s.permissions.network /\ s.permissions.write = {})
    PROVE  /\ x1' \in Seq(Skill) /\ Skills!IndexAsAgreed' /\ LoadedInv' /\ CallInv'
           /\ \A t : Skills!Indexed(t)' <=> Skills!Indexed(t) \/ t = s.title
<1> DEFINE n == Len(x1)
<1>1. /\ x1' \in Seq(Skill) /\ n \in Nat /\ DOMAIN x1 = 1 .. n /\ DOMAIN x1' = 1 .. n + 1
      /\ x1'[n + 1] = s /\ \A i \in 1 .. n : x1'[i] = x1[i]
  BY AppendProperties, LenProperties DEF SkillsInv, SkillTypes, Skill
<1> HIDE DEF n
<1>2. ASSUME NEW i \in 1 .. n + 1 PROVE i \in 1 .. n \/ i = n + 1
  BY <1>1
<1>3. \A i \in 1 .. n : i \in 1 .. n + 1
  BY <1>1
<1>8. n + 1 \in 1 .. n + 1
  BY <1>1
<1>4. ASSUME NEW t PROVE Skills!Indexed(t)' <=> Skills!Indexed(t) \/ t = s.title
  BY <1>1, <1>2, <1>3, <1>8 DEF Skills!Indexed
<1>5. Skills!IndexAsAgreed'
  <2>1. ASSUME NEW i \in 1 .. n + 1, NEW j \in 1 .. n + 1, x1'[i].title = x1'[j].title PROVE i = j
    BY <1>1, <1>2, <2>1 DEF SkillsInv, Skills!IndexAsAgreed, Skills!Indexed
  <2>2. ASSUME NEW i \in 1 .. n + 1, x1'[i] # SkillSeed
        PROVE  \/ x1'[i].content = "plain" /\ ~ x1'[i].permissions.network /\ x1'[i].permissions.write = {}
               \/ x1'[i] = x4'[x1'[i].title]
    <3>1. CASE i = n + 1
      BY <1>1, <3>1
    <3>2. CASE i \in 1 .. n
      <4>1. x1'[i] = x1[i] /\ x1[i] # SkillSeed
        BY <1>1, <2>2, <3>2
      <4>2. \/ x1[i].content = "plain" /\ ~ x1[i].permissions.network /\ x1[i].permissions.write = {}
            \/ x1[i] = x4[x1[i].title]
        BY <1>1, <3>2, <4>1 DEF SkillsInv, Skills!IndexAsAgreed, SkillSeed
      <4> QED BY <4>1, <4>2
    <3> QED BY <1>2, <3>1, <3>2
  <2> QED BY <1>1, <2>1, <2>2 DEF Skills!IndexAsAgreed, SkillSeed
<1>6. LoadedInv'
  BY <1>1, <1>3 DEF SkillsInv, LoadedInv
<1>7. CallInv'
  BY <1>1, <1>3 DEF SkillsInv, CallInv
<1> QED BY <1>1, <1>4, <1>5, <1>6, <1>7

\* The user changes their mind about a skill that is not in the index.
LEMMA AgreesOutside ==
    ASSUME SkillsInv, NEW t \in SkillTitle, ~ Skills!Indexed(t), NEW v, x4' = [x4 EXCEPT ![t] = v],
           x1' = x1, x2' = x2, x5' = x5
    PROVE  Skills!IndexAsAgreed' /\ LoadedInv' /\ CallInv'
<1>1. ASSUME NEW i \in DOMAIN x1, x1[i] # SkillSeed PROVE x4'[x1[i].title] = x4[x1[i].title]
  <2>1. x1[i].title # t
    BY DEF Skills!Indexed
  <2>2. x1[i].title \in SkillTitle
    BY <1>1, NotSeed, ElementOfSeq, LenProperties DEF SkillsInv, SkillTypes
  <2> QED BY <2>1, <2>2 DEF SkillsInv, SkillTypes
<1>2. Skills!IndexAsAgreed'
  BY <1>1 DEF SkillsInv, Skills!IndexAsAgreed, SkillSeed
<1>3. LoadedInv' /\ CallInv'
  BY DEF SkillsInv, LoadedInv, CallInv
<1> QED BY <1>2, <1>3

\* What an audit of a new skill says (audit_skill without previous permissions).
LEMMA AuditOfNew ==
    ASSUME NEW s \in Proposed
    PROVE  LET level == Skills!AuditSkill(s.content, s.permissions, None) IN
           level = "P2" => s.content = "plain" /\ ~ s.permissions.network /\ s.permissions.write = {}
<1>1. s.content \in {"plain", "network", "danger"}
  BY DEF Proposed, Skills!Content
<1> QED BY <1>1 DEF Skills!AuditSkill

\* Every step of the skills keeps the index as agreed.
LEMMA SkillsNext == ASSUME SkillsInv, Skills!Next PROVE SkillsInv'
<1>1. ASSUME NEW t \in SkillTitle, NEW content \in Skills!Content, NEW permissions \in Skills!Permissions,
             Skills!ProposeSkill(t, content, permissions)
      PROVE  SkillsInv'
  <2> DEFINE s == [title |-> t, content |-> content, permissions |-> permissions]
             level == Skills!AuditSkill(content, permissions, None)
  <2>1. /\ ~ Skills!Indexed(t) /\ x3[t] = None
        /\ \/ level = "P1" /\ x3' = [x3 EXCEPT ![t] = s] /\ x1' = x1
           \/ level = "P2" /\ x1' = Append(x1, s) /\ x3' = x3
        /\ x2' = x2 /\ x4' = x4 /\ x5' = x5
    BY <1>1 DEF Skills!ProposeSkill, Skills!CreateSkill, Skills!Skill
  <2>2. s \in Proposed /\ s.title = t /\ s.content = content /\ s.permissions = permissions
    BY DEF Proposed
  <2>3. level = "P2" => s.content = "plain" /\ ~ s.permissions.network /\ s.permissions.write = {}
    BY <2>2, AuditOfNew
  <2>4. CASE level = "P1" /\ x3' = [x3 EXCEPT ![t] = s] /\ x1' = x1
    <3>1. level = "P1"
      BY <2>4
    <3> HIDE DEF s
    <3>2. SkillTypes'
      BY <2>1, <2>2, <2>4 DEF SkillsInv, SkillTypes
    <3>3. Skills!IndexAsAgreed' /\ LoadedInv' /\ CallInv'
      BY <2>1, <2>4 DEF SkillsInv, Skills!IndexAsAgreed, LoadedInv, CallInv
    <3>4. \A u : Skills!Indexed(u)' = Skills!Indexed(u)
      BY <2>4 DEF Skills!Indexed
    <3>5. x4[t] = None
      BY <2>1 DEF SkillsInv, QueueInv
    <3>6. QueueInv'
      <4> SUFFICES ASSUME NEW u \in SkillTitle
                   PROVE  /\ x3'[u] # None =>
                               /\ x3'[u].title = u /\ ~ Skills!Indexed(u)'
                               /\ Skills!AuditSkill(x3'[u].content, x3'[u].permissions, None) = "P1"
                          /\ x4'[u] # None => IF x3'[u] # None THEN x4'[u] = x3'[u] ELSE Skills!Indexed(u)'
        BY DEF QueueInv
      <4>1. CASE u = t
        <5>1. x3'[u] = s /\ x4'[u] = None /\ ~ Skills!Indexed(u)'
          BY <2>1, <2>4, <3>4, <3>5, <4>1 DEF SkillsInv, SkillTypes
        <5> QED BY <2>2, <3>1, <4>1, <5>1
      <4>2. CASE u # t
        <5>1. x3'[u] = x3[u] /\ x4'[u] = x4[u] /\ Skills!Indexed(u)' = Skills!Indexed(u)
          BY <2>1, <2>4, <3>4, <4>2 DEF SkillsInv, SkillTypes
        <5> QED BY <5>1 DEF SkillsInv, QueueInv
      <4> QED BY <4>1, <4>2
    <3> QED BY <3>2, <3>3, <3>6 DEF SkillsInv
  <2>5. CASE level = "P2" /\ x1' = Append(x1, s) /\ x3' = x3
    <3>1. s.content = "plain" /\ ~ s.permissions.network /\ s.permissions.write = {}
      BY <2>3, <2>5
    <3> HIDE DEF s, level
    <3>2. /\ x1' \in Seq(Skill) /\ Skills!IndexAsAgreed' /\ LoadedInv' /\ CallInv'
          /\ \A u : Skills!Indexed(u)' <=> Skills!Indexed(u) \/ u = t
      BY <2>1, <2>2, <2>5, <3>1, IndexGrows
    <3>3. SkillTypes'
      BY <2>1, <2>5, <3>2 DEF SkillsInv, SkillTypes
    <3>4. QueueInv'
      BY <2>1, <2>5, <3>2 DEF SkillsInv, QueueInv
    <3> QED BY <3>2, <3>3, <3>4 DEF SkillsInv
  <2> QED BY <2>1, <2>4, <2>5
<1>2. ASSUME NEW t \in SkillTitle, Skills!Show(t) PROVE SkillsInv'
  <2> DEFINE v == x3[t]
  <2>1. v # None /\ x4' = [x4 EXCEPT ![t] = v] /\ x1' = x1 /\ x2' = x2 /\ x3' = x3 /\ x5' = x5
    BY <1>2 DEF Skills!Show
  <2>2. ~ Skills!Indexed(t) /\ v \in Proposed
    BY <2>1 DEF SkillsInv, QueueInv, SkillTypes
  <2>3. SkillTypes'
    BY <2>1, <2>2 DEF SkillsInv, SkillTypes
  <2>4. QueueInv'
    <3>1. \A u : Skills!Indexed(u)' = Skills!Indexed(u)
      BY <2>1 DEF Skills!Indexed
    <3>2. \A u \in SkillTitle : x4'[u] = IF u = t THEN x3[t] ELSE x4[u]
      BY <2>1 DEF SkillsInv, SkillTypes
    <3> QED BY <2>1, <3>1, <3>2 DEF SkillsInv, QueueInv
  <2> HIDE DEF v
  <2>5. Skills!IndexAsAgreed' /\ LoadedInv' /\ CallInv'
    BY <2>1, <2>2, AgreesOutside
  <2> QED BY <2>3, <2>4, <2>5 DEF SkillsInv
<1>3. ASSUME NEW t \in SkillTitle, Skills!ApproveSkill(t) PROVE SkillsInv'
  <2> DEFINE s == x3[t]
  <2>1. /\ x4[t] # None /\ s # None /\ x3' = [x3 EXCEPT ![t] = None]
        /\ x1' = IF Skills!Indexed(t) \/ Skills!AuditSkill(s.content, s.permissions, None) = "P0"
                   THEN x1 ELSE Append(x1, s)
        /\ x2' = x2 /\ x4' = x4 /\ x5' = x5
    BY <1>3 DEF Skills!ApproveSkill
  <2>2. /\ s.title = t /\ ~ Skills!Indexed(t) /\ s \in Proposed /\ s = x4[t]
        /\ Skills!AuditSkill(s.content, s.permissions, None) = "P1"
    BY <2>1 DEF SkillsInv, QueueInv, SkillTypes
  <2> HIDE DEF s
  <2>3. x1' = Append(x1, s)
    BY <2>1, <2>2
  <2>4. /\ x1' \in Seq(Skill) /\ Skills!IndexAsAgreed' /\ LoadedInv' /\ CallInv'
        /\ \A u : Skills!Indexed(u)' <=> Skills!Indexed(u) \/ u = t
    BY <2>1, <2>2, <2>3, IndexGrows
  <2>5. SkillTypes'
    BY <2>1, <2>4 DEF SkillsInv, SkillTypes
  <2>6. QueueInv'
    <3>1. \A u \in SkillTitle : x3'[u] = IF u = t THEN None ELSE x3[u]
      BY <2>1 DEF SkillsInv, SkillTypes
    <3> QED BY <2>1, <2>4, <3>1 DEF SkillsInv, QueueInv
  <2> QED BY <2>4, <2>5, <2>6 DEF SkillsInv
<1>4. ASSUME NEW t \in SkillTitle, Skills!RejectSkill(t) PROVE SkillsInv'
  <2>1. /\ x3[t] # None /\ x3' = [x3 EXCEPT ![t] = None] /\ x4' = [x4 EXCEPT ![t] = None]
        /\ x1' = x1 /\ x2' = x2 /\ x5' = x5
    BY <1>4 DEF Skills!RejectSkill
  <2>2. ~ Skills!Indexed(t)
    BY <2>1 DEF SkillsInv, QueueInv
  <2>3. SkillTypes'
    BY <2>1 DEF SkillsInv, SkillTypes
  <2>4. QueueInv'
    <3>1. \A u : Skills!Indexed(u)' = Skills!Indexed(u)
      BY <2>1 DEF Skills!Indexed
    <3>2. \A u \in SkillTitle : /\ x4'[u] = IF u = t THEN None ELSE x4[u]
                                /\ x3'[u] = IF u = t THEN None ELSE x3[u]
      BY <2>1 DEF SkillsInv, SkillTypes
    <3> QED BY <3>1, <3>2 DEF SkillsInv, QueueInv
  <2>5. Skills!IndexAsAgreed' /\ LoadedInv' /\ CallInv'
    BY <2>1, <2>2, AgreesOutside
  <2> QED BY <2>3, <2>4, <2>5 DEF SkillsInv
<1>5. ASSUME NEW t, Skills!LoadSkill(t) PROVE SkillsInv'
  <2>1. PICK k \in DOMAIN x1 : x1[k].title = t /\ x2' = Append(x2, x1[k])
    BY <1>5 DEF Skills!LoadSkill
  <2>2. (\A i \in DOMAIN x2 : x2[i].title # t) /\ x1' = x1 /\ x3' = x3 /\ x4' = x4 /\ x5' = x5
    BY <1>5 DEF Skills!LoadSkill
  <2>3. x1[k] \in Skill
    BY ElementOfSeq, LenProperties DEF SkillsInv, SkillTypes
  <2> DEFINE s == x1[k]
             n == Len(x2)
  <2>4. /\ x2' \in Seq(Skill) /\ n \in Nat /\ DOMAIN x2 = 1 .. n /\ DOMAIN x2' = 1 .. n + 1
        /\ x2'[n + 1] = s /\ \A i \in 1 .. n : x2'[i] = x2[i]
    BY <2>1, <2>3, AppendProperties, LenProperties DEF SkillsInv, SkillTypes
  <2>5. LoadedInv'
    <3>1. s.title = t /\ k \in DOMAIN x1' /\ x1'[k] = s
      BY <2>1, <2>2
    <3> HIDE DEF s, n
    <3>2. ASSUME NEW i \in 1 .. n + 1 PROVE i \in 1 .. n \/ i = n + 1
      BY <2>4
    <3>3. \A i \in DOMAIN x2' : \A j \in DOMAIN x2' : x2'[i].title = x2'[j].title => i = j
      BY <2>2, <2>4, <3>1, <3>2 DEF SkillsInv, LoadedInv
    <3>4. \A i \in DOMAIN x2' : \E j \in DOMAIN x1' : x1'[j] = x2'[i]
      <4> SUFFICES ASSUME NEW i \in 1 .. n + 1 PROVE \E j \in DOMAIN x1' : x1'[j] = x2'[i]
        BY <2>4
      <4>1. CASE i = n + 1
        BY <2>4, <3>1, <4>1
      <4>2. CASE i \in 1 .. n
        BY <2>2, <2>4, <4>2 DEF SkillsInv, LoadedInv
      <4> QED BY <3>2, <4>1, <4>2
    <3> QED BY <3>3, <3>4 DEF LoadedInv
  <2>6. SkillTypes' /\ QueueInv' /\ Skills!IndexAsAgreed' /\ CallInv'
    BY <2>2, <2>4 DEF SkillsInv, SkillTypes, QueueInv, Skills!Indexed, Skills!IndexAsAgreed, CallInv
  <2> QED BY <2>5, <2>6 DEF SkillsInv
<1>6. ASSUME NEW call \in Skills!Call, Skills!CallTool(call) PROVE SkillsInv'
  <2> DEFINE active == Skills!Range(x2)
  <2>1. /\ x2 = <<>> \/ \E i \in DOMAIN x2 : Skills!AuthorizeSkillTool(x2[i], call)
        /\ x5' = [call |-> call, active |-> active]
        /\ x1' = x1 /\ x2' = x2 /\ x3' = x3 /\ x4' = x4
    BY <1>6 DEF Skills!CallTool, Skills!AuthorizeLoaded
  <2>2. active = {x2[i] : i \in DOMAIN x2}
    BY DEF Skills!Range
  <2> HIDE DEF active
  <2>3. \A s \in active : \E i \in DOMAIN x1 : x1[i] = s
    BY <2>2 DEF SkillsInv, LoadedInv
  <2>4. ASSUME active # {}, call.tool = "bash", call.network PROVE \E s \in active : s.permissions.network
    <3>1. x2 # <<>>
      BY <2>2, <2>4
    <3>2. PICK i \in DOMAIN x2 : Skills!AuthorizeSkillTool(x2[i], call)
      BY <2>1, <3>1
    <3> QED BY <2>2, <2>4, <3>2 DEF Skills!AuthorizeSkillTool
  <2>5. CallInv'
    BY <2>1, <2>3, <2>4 DEF CallInv
  <2>6. SkillTypes' /\ QueueInv' /\ Skills!IndexAsAgreed' /\ LoadedInv'
    BY <2>1 DEF SkillsInv, SkillTypes, QueueInv, Skills!Indexed, Skills!IndexAsAgreed, LoadedInv
  <2> QED BY <2>5, <2>6 DEF SkillsInv
<1> QED BY <1>1, <1>2, <1>3, <1>4, <1>5, <1>6 DEF Skills!Next

\* An update that needs no approval asks for nothing more, so it allows no more.
LEMMA UpdatesAreNarrow == SkillsInv => Skills!UpdatesNarrow
<1> SUFFICES ASSUME SkillsInv, NEW i \in DOMAIN x1, NEW requested \in Skills!Permissions,
                    Skills!AuditSkill("plain", requested, x1[i].permissions) = "P2",
                    NEW call \in Skills!Call, Skills!AuthorizeSkillTool(Skills!Updated(x1[i], requested), call)
             PROVE  Skills!AuthorizeSkillTool(x1[i], call)
  BY DEF Skills!UpdatesNarrow
<1> DEFINE s == x1[i]
           p == s.permissions
           u == Skills!Updated(s, requested)
<1>1. s \in Skill
  BY ElementOfSeq, LenProperties DEF SkillsInv, SkillTypes
<1>2. p \in Skills!Permissions /\ u.permissions = requested
  <2>1. CASE s \in Proposed
    BY <2>1 DEF Proposed, Skills!Updated
  <2>2. CASE s = SkillSeed
    <3>1. p = [tools |-> {"bash"}, network |-> FALSE, read |-> SkillPath, write |-> {}]
      BY <2>2 DEF SkillSeed
    <3>2. p \in Skills!Permissions
      <4> DEFINE T == {{"bash"}, {"read_file", "SkillCreate"}}
                 R == {{}, SkillPath}
                 b == {"bash"}
                 e == {}
      <4>1. b \in T /\ SkillPath \in R /\ e \in R /\ FALSE \in BOOLEAN
        OBVIOUS
      <4>2. Skills!Permissions = [tools : T, network : BOOLEAN, read : R, write : R]
        BY DEF Skills!Permissions
      <4>3. p = [tools |-> b, network |-> FALSE, read |-> SkillPath, write |-> e]
        BY <3>1
      <4> HIDE DEF T, R, b, e, p
      <4> QED BY <4>1, <4>2, <4>3
    <3>3. u.permissions = requested
      BY <2>2 DEF SkillSeed, Skills!Updated
    <3> QED BY <3>2, <3>3
  <2> QED BY <1>1, <2>1, <2>2 DEF Skill
<1>3. p # None
  BY <1>2, NoneAssumption
<1> HIDE DEF u, p
<1>4. ~ Skills!HasEscalation(Skills!PermissionDiff(p, requested))
  BY <1>3 DEF Skills!AuditSkill, p
<1>5. requested.tools \subseteq p.tools /\ (requested.network => p.network) /\ requested.read \subseteq p.read
  BY <1>2, <1>4 DEF Skills!HasEscalation, Skills!PermissionDiff, Skills!Permissions
<1>6. Skills!AuthorizeSkillTool(u, call)
  BY DEF u
<1> QED BY <1>2, <1>5, <1>6 DEF Skills!AuthorizeSkillTool, Skills!Declares, p

\* The network was used under the program's own skill or one that was agreed to, for a
\* harmless one does not let it be used.
LEMMA SkillsSound ==
    SkillsInv => /\ Skills!IndexAsAgreed /\ Skills!PromptOnce
                 /\ Skills!NetworkAgreed /\ Skills!UpdatesNarrow
<1> SUFFICES ASSUME SkillsInv
             PROVE  Skills!IndexAsAgreed /\ Skills!PromptOnce /\ Skills!NetworkAgreed /\ Skills!UpdatesNarrow
  OBVIOUS
<1>1. Skills!PromptOnce
  BY DEF SkillsInv, LoadedInv, Skills!PromptOnce, Skills!Range
<1>2. Skills!NetworkAgreed
  <2> SUFFICES ASSUME x5 # None, x5.active # {}, x5.call.tool = "bash", x5.call.network
               PROVE  \E s \in x5.active : s.permissions.network /\ (s = SkillSeed \/ s = x4[s.title])
    BY DEF Skills!NetworkAgreed, SkillSeed
  <2>1. PICK s \in x5.active : s.permissions.network
    BY DEF SkillsInv, CallInv
  <2>2. PICK i \in DOMAIN x1 : x1[i] = s
    BY DEF SkillsInv, CallInv
  <2>3. s = SkillSeed \/ s = x4[s.title]
    BY <2>1, <2>2 DEF SkillsInv, Skills!IndexAsAgreed, SkillSeed
  <2> QED BY <2>1, <2>3
<1> QED BY <1>1, <1>2, UpdatesAreNarrow DEF SkillsInv

-----------------------------------------------------------------------------
(* Connectors: x1 is trusted, x2 tools, x3 grant, x4 schemas, x5 grants,   *)
(* x6 shown and x7 executed                                                *)

\* A connector offers its own tools, and only when it is trusted; what is loaded was
\* shown under the grant of now, and so was what was called, under the grant of then.
ConnectorInv ==
    /\ \A c \in Connector : \A t \in x2[c] : t \in Connector \X ServerTool /\ t[1] = c /\ c \in x1
    /\ DOMAIN x2 = Connector
    /\ \A t \in x4 : <<t, x5>> \in x6
    /\ Connectors!CallsGranted

\* Every step of the connectors keeps it.
LEMMA ConnectorNext == ASSUME ConnectorInv, Connectors!Next PROVE ConnectorInv'
<1> USE DEF ConnectorInv, Connectors!CallsGranted
<1>1. ASSUME NEW c \in Connector, Connectors!TrustConnector(c) PROVE ConnectorInv'
  <2> PICK offered \in SUBSET {t \in Connector \X ServerTool : t[1] = c} : x2' = [x2 EXCEPT ![c] = offered]
    BY <1>1 DEF Connectors!TrustConnector
  <2>1. /\ x1' = x1 \cup {c}
        /\ UNCHANGED <<x3, x4, x5, x6, x7>>
    BY <1>1 DEF Connectors!TrustConnector
  <2> QED BY <2>1
<1>2. ASSUME NEW c \in Connector, Connectors!Disconnect(c) PROVE ConnectorInv'
  BY <1>2 DEF Connectors!Disconnect
<1>3. ASSUME NEW g \in Connectors!Grant, Connectors!SetPermissionGrant(g) PROVE ConnectorInv'
  BY <1>3 DEF Connectors!SetPermissionGrant
<1>4. ASSUME NEW t \in Connector \X ServerTool, Connectors!ToolSearch(t) PROVE ConnectorInv'
  BY <1>4 DEF Connectors!ToolSearch
<1>5. ASSUME NEW t \in Connector \X ServerTool, Connectors!DeferExecuteTool(t) PROVE ConnectorInv'
  <2>1. /\ x7' = [tool |-> t, grant |-> x3, number |-> x5, trusted |-> t[1] \in x1]
        /\ x3.network /\ t \in x3.tools /\ t \in x4
        /\ UNCHANGED <<x1, x2, x3, x4, x5, x6>>
    BY <1>5 DEF Connectors!DeferExecuteTool, Connectors!Allows
  <2>2. t[1] \in x1
    BY <1>5 DEF Connectors!DeferExecuteTool, Connectors!Offered
  <2>3. <<t, x5>> \in x6
    BY <2>1
  <2> QED BY <2>1, <2>2, <2>3
<1> QED BY <1>1, <1>2, <1>3, <1>4, <1>5 DEF Connectors!Next

-----------------------------------------------------------------------------
(* The agent: x1 is pc, x2 session, x3 history, x4 calls, x5 results, x6   *)
(* executed, x7 started, x8 audited, x10 counted, x11 transcribed and x12  *)
(* output                                                                  *)

AgentId == Nat \X Nat
AgentCall == [id : AgentId, tool : AgentTool]
Outputs == {"ok", "Tool failed", "Permission denied"}
Written == [call : AgentCall, output : Outputs]
Execution == [call : AgentCall, answer : AgentAnswers]
Messages == [role : {"user", "assistant"}, content : Seq(AgentId) \cup Seq(AgentCall)]
AgentSession == 1 .. AgentSessions

AgentTypes ==
    /\ x2 \in AgentSession /\ x3 \in Seq(Messages) /\ x4 \in Seq(AgentCall) /\ x5 \in Seq(AgentId)
    /\ x6 \in [AgentSession -> Seq(Execution)]
    /\ x7 \in [AgentSession -> Seq(AgentCall)]
    /\ x8 \in [AgentSession -> Seq(Written)]
    /\ x10 \in [AgentSession -> Seq(AgentCall)]
    /\ x11 \in [AgentSession -> Seq(Written)]

\* Each store has what the next one has, and is at most a call ahead of the last.
InStep(s) ==
    /\ Len(x11[s]) <= Len(x8[s]) /\ Len(x8[s]) <= Len(x10[s]) /\ Len(x10[s]) <= Len(x7[s])
    /\ Len(x7[s]) <= Len(x11[s]) + 1
    /\ \A i \in 1 .. Len(x10[s]) : x10[s][i] = x7[s][i]
    /\ \A i \in 1 .. Len(x8[s]) : x8[s][i].call = x10[s][i]
    /\ \A i \in 1 .. Len(x11[s]) : x11[s][i] = x8[s][i]

\* A session to come has no calls.
Unused(s) == x6[s] = <<>> /\ x7[s] = <<>> /\ x8[s] = <<>> /\ x10[s] = <<>> /\ x11[s] = <<>>

\* How far the stores are with the call that is in work.
PlaceInv ==
    /\ x1 \in {"idle", "compact", "ask", "dispatch", "answer"} => Len(x7[x2]) = Len(x11[x2])
    /\ x1 \in {"execute", "count", "audit", "transcribe"} =>
         /\ Len(x7[x2]) = Len(x11[x2]) + 1 /\ x7[x2][Len(x7[x2])] = Head(x4)
         /\ x1 \in {"execute", "count"} => Len(x10[x2]) = Len(x11[x2])
         /\ x1 \in {"audit", "transcribe"} => Len(x10[x2]) = Len(x7[x2])
         /\ x1 # "transcribe" => Len(x8[x2]) = Len(x11[x2])
         /\ x1 = "transcribe" =>
              Len(x8[x2]) = Len(x7[x2]) /\ x8[x2][Len(x8[x2])] = [call |-> Head(x4), output |-> x12]

\* The stores have of session s what they had.
SameStores(s) ==
    x6'[s] = x6[s] /\ x7'[s] = x7[s] /\ x8'[s] = x8[s] /\ x10'[s] = x10[s] /\ x11'[s] = x11[s]

Ran(s, call) == \E i \in DOMAIN x6[s] : x6[s][i].call = call
Began(s, call) == \E i \in DOMAIN x7[s] : x7[s][i] = call

\* A call is a new one: no two of a turn have one identifier, and no turn has another's.
FreshInv ==
    /\ Agent!Turn \in Nat
    /\ \A i \in DOMAIN x7[x2] : x7[x2][i].id[1] <= Agent!Turn
    /\ x1 \in {"dispatch", "execute", "count", "audit", "transcribe"} =>
         /\ x4 # <<>>
         /\ \A i \in DOMAIN x4 : x4[i].id[1] <= Agent!Turn
         /\ \A i, j \in DOMAIN x4 : i # j => x4[i] # x4[j]
         /\ \A i \in DOMAIN x4 : i # 1 \/ x1 = "dispatch" => ~ Began(x2, x4[i])

Allowed(e) == e.call.tool = "bash" \/ (e.call.tool = "write_file" /\ e.answer = "yes")

\* What ran was begun, by the policy and the answer; what the stores call refused did not run.
RanInv ==
    /\ \A s \in AgentSession : \A i \in DOMAIN x6[s] :
         /\ Began(s, x6[s][i].call)
         /\ Allowed(x6[s][i])
    /\ \A s \in AgentSession : \A i \in DOMAIN x11[s] :
         x11[s][i].output = "Permission denied" <=> ~ Ran(s, x11[s][i].call)
    /\ x1 \in {"execute", "count", "audit", "transcribe"} => Head(x4).tool \in {"bash", "write_file"}
    /\ x1 = "execute" =>
         /\ ~ Ran(x2, Head(x4))
         /\ \A i \in DOMAIN x11[x2] : x11[x2][i].call # Head(x4)
    /\ x1 \in {"count", "audit", "transcribe"} =>
         x12 \in Outputs /\ (x12 = "Permission denied" <=> ~ Ran(x2, Head(x4)))

AgentInv ==
    /\ AgentTypes
    /\ \A s \in AgentSession : InStep(s) /\ (s > x2 => Unused(s))
    /\ PlaceInv /\ FreshInv /\ RanInv

\* The turns of a history are its answers by the assistant.
LEMMA TurnsCounted ==
    ASSUME x3 \in Seq(Messages), NEW role \in {"user", "assistant"},
           NEW content \in Seq(AgentId) \cup Seq(AgentCall), Agent!Say(role, content), Agent!Turn \in Nat
    PROVE  /\ x3' \in Seq(Messages)
           /\ role = "user" => Agent!Turn' = Agent!Turn
           /\ role = "assistant" => Agent!Turn' = Agent!Turn + 1
<1> DEFINE e == [role |-> role, content |-> content]
           said(h) == {k \in DOMAIN h : h[k].role = "assistant"}
<1>1. PICK n : n = Len(x3)
  OBVIOUS
<1>2. n \in Nat /\ DOMAIN x3 = 1 .. n
  BY <1>1, LenProperties
<1>3. e \in Messages /\ e.role = role /\ x3' = Append(x3, e)
  BY DEF Messages, Agent!Say
<1> HIDE DEF e
<1>4. /\ x3' \in Seq(Messages) /\ DOMAIN x3' = 1 .. n + 1
      /\ x3'[n + 1] = e /\ \A k \in 1 .. n : x3'[k] = x3[k]
  BY <1>1, <1>3, AppendProperties, LenProperties
<1>5. /\ \A k \in 1 .. n : k \in 1 .. n + 1 /\ k # n + 1
      /\ \A k \in 1 .. n + 1 : k \in 1 .. n \/ k = n + 1
      /\ n + 1 \in 1 .. n + 1 /\ n + 1 \notin 1 .. n
  BY <1>2
<1>6. role = "user" => said(x3') = said(x3)
  BY <1>2, <1>3, <1>4, <1>5
<1>7. role = "assistant" => said(x3') = said(x3) \cup {n + 1} /\ n + 1 \notin said(x3)
  BY <1>2, <1>3, <1>4, <1>5
<1>8. IsFiniteSet(said(x3))
  <2>1. said(x3) \subseteq 1 .. n
    BY <1>2
  <2> QED BY <1>2, <2>1, FS_Interval, FS_Subset
<1>9. Agent!Turn = Cardinality(said(x3)) /\ Agent!Turn' = Cardinality(said(x3'))
  BY DEF Agent!Turn, Agent!Cardinality, Cardinality
<1> HIDE DEF said
<1> QED BY <1>4, <1>6, <1>7, <1>8, <1>9, FS_AddElement

\* Then a session is in step, or unused, as before.
LEMMA StoresStay ==
    ASSUME NEW s, SameStores(s)
    PROVE  /\ InStep(s) => InStep(s)'
           /\ Unused(s) => Unused(s)'
<1>1. InStep(s) => InStep(s)'
  BY DEF SameStores, InStep
<1>2. Unused(s) => Unused(s)'
  BY DEF SameStores, Unused
<1> QED BY <1>1, <1>2

\* A write of one session leaves the others, and what was there.
LEMMA AgentAdds ==
    ASSUME NEW S, NEW f \in [AgentSession -> Seq(S)], NEW item \in S, x2 \in AgentSession,
           NEW g, g = Agent!Add(f, item)
    PROVE  /\ g \in [AgentSession -> Seq(S)]
           /\ \A s \in AgentSession : s # x2 => g[s] = f[s]
           /\ Len(f[x2]) \in Nat /\ DOMAIN f[x2] = 1 .. Len(f[x2])
           /\ Len(g[x2]) = Len(f[x2]) + 1 /\ DOMAIN g[x2] = 1 .. Len(f[x2]) + 1
           /\ g[x2][Len(f[x2]) + 1] = item
           /\ \A i \in 1 .. Len(f[x2]) : g[x2][i] = f[x2][i]
<1>1. f[x2] \in Seq(S)
  OBVIOUS
<1>2. g = [f EXCEPT ![x2] = Append(f[x2], item)]
  BY DEF Agent!Add
<1>3. /\ Append(f[x2], item) \in Seq(S)
      /\ Len(Append(f[x2], item)) = Len(f[x2]) + 1
      /\ Append(f[x2], item)[Len(f[x2]) + 1] = item
      /\ \A i \in 1 .. Len(f[x2]) : Append(f[x2], item)[i] = f[x2][i]
  BY <1>1, AppendProperties
<1>4. g[x2] = Append(f[x2], item)
  BY <1>2
<1>5. g \in [AgentSession -> Seq(S)] /\ \A s \in AgentSession : s # x2 => g[s] = f[s]
  BY <1>2, <1>3
<1> QED BY <1>1, <1>3, <1>4, <1>5, LenProperties

Writes == <<x6, x7, x8, x10, x11>>

\* Steps of the loop that write no store that counts here.
LEMMA AgentTurns1 ==
    ASSUME AgentInv, Agent!Submit \/ Agent!Compact \/ Agent!AskProvider \/ Agent!Answer
    PROVE  AgentInv'
<1>1. AgentTypes /\ PlaceInv /\ FreshInv /\ RanInv
  BY DEF AgentInv
<1>2. UNCHANGED <<x2, x6, x7, x8, x10, x11>>
  BY DEF Agent!Submit, Agent!Compact, Agent!AskProvider, Agent!Answer, Agent!stores
<1>3. \A s \in AgentSession : InStep(s)' /\ (s > x2' => Unused(s)')
  BY <1>2 DEF AgentInv, InStep, Unused
<1>4. x1 \in {"idle", "compact", "ask", "answer"} /\ x1' \in {"idle", "compact", "ask", "dispatch", "down"}
  BY DEF Agent!Submit, Agent!Compact, Agent!AskProvider, Agent!Answer
<1>5. PlaceInv'
  BY <1>1, <1>2, <1>4 DEF PlaceInv
<1>6. RanInv'
  BY <1>1, <1>2, <1>4 DEF RanInv, Ran, Began
<1>7. CASE ~ Agent!AskProvider
  <2>1. x4' = x4 /\ x5' = x5 /\ x1' # "dispatch"
    BY <1>7 DEF Agent!Submit, Agent!Compact, Agent!Answer
  <2>2. x3' \in Seq(Messages) /\ Agent!Turn' = Agent!Turn
    <3>1. CASE Agent!Compact
      BY <1>1, <3>1 DEF Agent!Compact, AgentTypes, Agent!Turn
    <3>2. CASE Agent!Submit
      <4>1. Agent!Say("user", <<>>) /\ <<>> \in Seq(AgentId)
        BY <3>2, EmptySeq DEF Agent!Submit
      <4> QED BY <1>1, <4>1, TurnsCounted DEF AgentTypes, FreshInv
    <3>3. CASE Agent!Answer
      <4>1. Agent!Say("user", x5) /\ x5 \in Seq(AgentId)
        BY <1>1, <3>3 DEF Agent!Answer, AgentTypes
      <4> QED BY <1>1, <4>1, TurnsCounted DEF AgentTypes, FreshInv
    <3> QED BY <1>7, <3>1, <3>2, <3>3
  <2>3. AgentTypes'
    BY <1>1, <1>2, <2>1, <2>2 DEF AgentTypes
  <2>4. FreshInv'
    BY <1>1, <1>2, <1>4, <2>1, <2>2 DEF FreshInv
  <2> QED BY <1>3, <1>5, <1>6, <2>3, <2>4 DEF AgentInv
<1>8. CASE Agent!AskProvider
  <2>1. PICK n \in 0 .. AgentCalls : \E tools \in [1 .. n -> AgentTool] :
           /\ x4' = [i \in 1 .. n |-> [id |-> <<Agent!Turn + 1, i>>, tool |-> tools[i]]]
           /\ Agent!Say("assistant", x4')
           /\ x1' = IF n = 0 THEN "idle" ELSE "dispatch"
    BY <1>8 DEF Agent!AskProvider
  <2>11. PICK tools \in [1 .. n -> AgentTool] :
            x4' = [i \in 1 .. n |-> [id |-> <<Agent!Turn + 1, i>>, tool |-> tools[i]]]
    BY <2>1
  <2>12. Agent!Say("assistant", x4') /\ x1' = IF n = 0 THEN "idle" ELSE "dispatch"
    BY <2>1
  <2>2. n \in Nat /\ x5' = <<>>
    BY <1>8, BoundsAssumption DEF Agent!AskProvider
  <2>3. PICK turn : turn = Agent!Turn
    OBVIOUS
  <2>4. turn \in Nat
    BY <1>1, <2>3 DEF FreshInv
  <2>5. \A i \in 1 .. n : [id |-> <<turn + 1, i>>, tool |-> tools[i]] \in AgentCall
    BY <2>2, <2>4 DEF AgentCall, AgentId
  <2>6. /\ x4' \in Seq(AgentCall) /\ DOMAIN x4' = 1 .. n
        /\ \A i \in 1 .. n : x4'[i].id = <<turn + 1, i>>
    BY <2>11, <2>2, <2>3, <2>5, IsASeq
  <2>7. x3' \in Seq(Messages) /\ Agent!Turn' = turn + 1
    <3>1. PICK content : content = x4'
      OBVIOUS
    <3> QED BY <1>1, <2>12, <2>3, <2>4, <2>6, <3>1, TurnsCounted DEF AgentTypes
  <2>8. AgentTypes'
    BY <1>1, <1>2, <2>2, <2>6, <2>7, EmptySeq DEF AgentTypes
  <2>9. \A i \in DOMAIN x7[x2] : x7[x2][i].id[1] <= turn /\ x7[x2][i].id[1] \in Nat
    <3>1. x7[x2] \in Seq(AgentCall)
      BY <1>1 DEF AgentTypes
    <3>2. \A call \in AgentCall : call.id[1] \in Nat
      BY DEF AgentCall, AgentId
    <3>3. \A i \in DOMAIN x7[x2] : x7[x2][i] \in AgentCall
      BY <3>1, ElementOfSeq, LenProperties
    <3> QED BY <1>1, <2>3, <3>2, <3>3 DEF FreshInv
  <2>10. FreshInv'
    <3>1. \A i \in 1 .. n : x4'[i].id[1] = turn + 1 /\ x4'[i].id[2] = i
      BY <2>6
    <3>2. \A i \in DOMAIN x7[x2] : x7[x2][i].id[1] <= turn + 1 /\ x7[x2][i].id[1] # turn + 1
      BY <2>4, <2>9
    <3>3. \A i, j \in DOMAIN x4' : i # j => x4'[i] # x4'[j]
      BY <2>6, <3>1
    <3>4. \A i \in 1 .. n : ~ \E k \in DOMAIN x7[x2] : x7[x2][k] = x4'[i]
      BY <3>1, <3>2
    <3>5. x1' = "dispatch" => x4' # <<>>
      <4>1. x4' = <<>> => n = 0
        <5>2. n # 0 => 1 \in 1 .. n
          BY <2>2
        <5>3. x4' = <<>> => DOMAIN x4' = {}
          OBVIOUS
        <5> QED BY <2>6, <5>2, <5>3
      <4> QED BY <2>12, <4>1
    <3>6. Agent!Turn' \in Nat
      BY <2>4, <2>7
    <3>7. \A i \in DOMAIN x4' : x4'[i].id[1] <= turn + 1
      BY <2>4, <2>6, <3>1
    <3>8. \A i \in DOMAIN x7[x2]' : x7[x2]'[i].id[1] <= turn + 1
      BY <1>2, <3>2
    <3>9. \A i \in DOMAIN x4' : ~ \E k \in DOMAIN x7[x2]' : x7[x2]'[k] = x4'[i]
      BY <1>2, <2>6, <3>4
    <3>10. x1' = "dispatch" \/ x1' = "idle"
      BY <2>12
    <3> QED BY <1>2, <2>7, <3>3, <3>5, <3>6, <3>7, <3>8, <3>9, <3>10 DEF FreshInv, Began
  <2> QED BY <1>3, <1>5, <1>6, <2>8, <2>10 DEF AgentInv
<1> QED BY <1>7, <1>8

\* A process that ends, and the next one.
LEMMA AgentEnds ==
    ASSUME AgentInv, Agent!Crash \/ Agent!Restart
    PROVE  AgentInv'
<1>1. AgentTypes /\ FreshInv /\ RanInv
  BY DEF AgentInv
<1>2. CASE Agent!Crash
  <2>1. x1' = "down" /\ UNCHANGED <<x2, x3, x4, x5, x6, x7, x8, x10, x11>>
    BY <1>2 DEF Agent!Crash, Agent!stores
  <2>2. AgentTypes' /\ \A s \in AgentSession : InStep(s)' /\ (s > x2' => Unused(s)')
    BY <2>1 DEF AgentInv, AgentTypes, InStep, Unused
  <2>3. PlaceInv'
    BY <2>1 DEF PlaceInv
  <2>4. FreshInv'
    BY <1>1, <2>1 DEF FreshInv, Agent!Turn
  <2>5. RanInv'
    BY <1>1, <2>1 DEF RanInv, Ran, Began
  <2> QED BY <2>2, <2>3, <2>4, <2>5 DEF AgentInv
<1>3. CASE Agent!Restart
  <2>1. /\ x2' = x2 + 1 /\ x2 < AgentSessions /\ x1' = "idle"
        /\ x3' = <<>> /\ x4' = <<>> /\ x5' = <<>>
        /\ UNCHANGED <<x6, x7, x8, x10, x11>>
    BY <1>3 DEF Agent!Restart, Agent!stores
  <2>2. x2 \in Nat /\ x2 + 1 \in AgentSession
    BY <1>1, <2>1, BoundsAssumption DEF AgentTypes, AgentSession
  <2>3. AgentTypes'
    BY <1>1, <2>1, <2>2, EmptySeq DEF AgentTypes
  <2>4. \A s \in AgentSession : InStep(s)' /\ (s > x2' => Unused(s)')
    <3>1. \A s \in AgentSession : s > x2 + 1 => s > x2
      BY <2>2, BoundsAssumption DEF AgentSession
    <3> QED BY <2>1, <3>1 DEF AgentInv, InStep, Unused
  <2>5. Unused(x2)'
    <3>1. x2 + 1 > x2
      BY <2>2
    <3> QED BY <2>1, <2>2, <3>1 DEF AgentInv, Unused
  <2>6. PlaceInv'
    BY <2>1, <2>5 DEF PlaceInv, Unused
  <2>7. Agent!Turn' = 0
    <3>1. {k \in DOMAIN <<>> : <<>>[k].role = "assistant"} = {}
      BY EmptySeq
    <3>2. Agent!Turn' = Cardinality({k \in DOMAIN x3' : x3'[k].role = "assistant"})
      BY DEF Agent!Turn, Agent!Cardinality, Cardinality
    <3> QED BY <2>1, <3>1, <3>2, FS_EmptySet
  <2>8. FreshInv'
    BY <2>1, <2>5, <2>7, EmptySeq DEF FreshInv, Unused
  <2>9. RanInv'
    BY <1>1, <2>1 DEF RanInv, Ran, Began
  <2> QED BY <2>3, <2>4, <2>6, <2>8, <2>9 DEF AgentInv
<1> QED BY <1>2, <1>3

\* The call in work is the first that is left.
LEMMA CallInWork ==
    ASSUME x4 \in Seq(AgentCall), x4 # <<>>
    PROVE  Head(x4) = x4[1] /\ 1 \in DOMAIN x4 /\ Head(x4) \in AgentCall
<1>1. Len(x4) \in Nat /\ DOMAIN x4 = 1 .. Len(x4) /\ Len(x4) # 0
  BY LenProperties, EmptySeq
<1>2. 1 \in 1 .. Len(x4)
  BY <1>1
<1> QED BY <1>1, <1>2, HeadTailProperties

\* What is left after a call are new calls still.
LEMMA RestIsFresh ==
    ASSUME AgentTypes, FreshInv, x1 \in {"dispatch", "transcribe"}, x4' = Tail(x4), x1' = Agent!AfterCall,
           UNCHANGED <<x2, x3, x7>>
    PROVE  FreshInv' /\ x4' \in Seq(AgentCall) /\ x1' \in {"dispatch", "answer"}
<1>1. x4 \in Seq(AgentCall) /\ x4 # <<>>
  BY DEF AgentTypes, FreshInv
<1>2. PICK n : n = Len(x4)
  OBVIOUS
<1>3. n \in Nat \ {0} /\ DOMAIN x4 = 1 .. n
  BY <1>1, <1>2, LenProperties, EmptySeq
<1>4. x4' \in Seq(AgentCall) /\ DOMAIN x4' = 1 .. n - 1 /\ \A i \in 1 .. n - 1 : x4'[i] = x4[i + 1]
  BY <1>1, <1>2, HeadTailProperties, LenProperties
<1>5. \A i \in 1 .. n - 1 : i + 1 \in 1 .. n /\ i + 1 # 1
  BY <1>3
<1>6. x1' = "dispatch" => x4' # <<>>
  <2>1. x1' = "dispatch" => 1 \in 1 .. n - 1
    BY <1>2, <1>3 DEF Agent!AfterCall
  <2>2. x4' = <<>> => DOMAIN x4' = {}
    OBVIOUS
  <2> QED BY <1>4, <2>1, <2>2
<1>7. Agent!Turn' = Agent!Turn
  BY DEF Agent!Turn
<1>8. \A i \in DOMAIN x4' : x4'[i].id[1] <= Agent!Turn
  BY <1>3, <1>4, <1>5 DEF FreshInv
<1>9. \A i, j \in DOMAIN x4' : i # j => x4'[i] # x4'[j]
  <2>1. ASSUME NEW i \in 1 .. n - 1, NEW j \in 1 .. n - 1, i # j PROVE x4'[i] # x4'[j]
    <3>1. i + 1 # j + 1
      BY <1>3, <2>1
    <3>2. i + 1 \in DOMAIN x4 /\ j + 1 \in DOMAIN x4
      BY <1>3, <1>5
    <3>3. x4[i + 1] # x4[j + 1]
      BY <3>1, <3>2 DEF FreshInv
    <3> QED BY <1>4, <3>3
  <2> QED BY <1>4, <2>1
<1>10. \A i \in DOMAIN x4' : ~ \E k \in DOMAIN x7[x2] : x7[x2][k] = x4'[i]
  BY <1>3, <1>4, <1>5 DEF FreshInv, Began
<1>11. x1' \in {"dispatch", "answer"}
  BY DEF Agent!AfterCall
<1> QED BY <1>4, <1>6, <1>7, <1>8, <1>9, <1>10, <1>11 DEF FreshInv, Began

LEMMA AgentDenies == ASSUME AgentInv, Agent!Deny PROVE AgentInv'
<1>1. AgentTypes /\ PlaceInv /\ FreshInv /\ RanInv
  BY DEF AgentInv
<1>2. /\ x1 = "dispatch" /\ x1' = Agent!AfterCall /\ x4' = Tail(x4) /\ x5' = Append(x5, Head(x4).id)
      /\ UNCHANGED <<x2, x3, x6, x7, x8, x10, x11>>
  BY DEF Agent!Deny, Agent!Call
<1>3. FreshInv' /\ x4' \in Seq(AgentCall) /\ x1' \in {"dispatch", "answer"}
  BY <1>1, <1>2, RestIsFresh
<1>4. x5' \in Seq(AgentId)
  <2>1. Head(x4).id \in AgentId
    BY <1>1, <1>2, CallInWork DEF AgentTypes, FreshInv, AgentCall
  <2> QED BY <1>1, <1>2, <2>1, AppendProperties DEF AgentTypes
<1>5. AgentTypes'
  BY <1>1, <1>2, <1>3, <1>4 DEF AgentTypes
<1>6. \A s \in AgentSession : InStep(s)' /\ (s > x2' => Unused(s)')
  BY <1>2 DEF AgentInv, InStep, Unused
<1>7. PlaceInv'
  BY <1>1, <1>2, <1>3 DEF PlaceInv
<1>8. RanInv'
  BY <1>1, <1>2, <1>3 DEF RanInv, Ran, Began
<1> QED BY <1>3, <1>5, <1>6, <1>7, <1>8 DEF AgentInv

LEMMA AgentStarts == ASSUME AgentInv, Agent!Start PROVE AgentInv'
<1>1. AgentTypes /\ PlaceInv /\ FreshInv /\ RanInv
  BY DEF AgentInv
<1>2. /\ x1 = "dispatch" /\ x1' = "execute" /\ x7' = Agent!Add(x7, Head(x4))
      /\ UNCHANGED <<x2, x3, x4, x5, x6, x8, x10, x11>>
      /\ Agent!Permission(Head(x4).tool) # "deny"
  BY DEF Agent!Start, Agent!Call
<1>3. Head(x4) = x4[1] /\ 1 \in DOMAIN x4 /\ Head(x4) \in AgentCall
  BY <1>1, <1>2, CallInWork DEF AgentTypes, FreshInv
<1>4. x2 \in AgentSession /\ x7 \in [AgentSession -> Seq(AgentCall)]
  BY <1>1 DEF AgentTypes
<1>5. PICK n : n = Len(x7[x2])
  OBVIOUS
<1>6. PICK g : g = x7'
  OBVIOUS
<1>7. /\ g \in [AgentSession -> Seq(AgentCall)]
      /\ \A s \in AgentSession : s # x2 => g[s] = x7[s]
      /\ n \in Nat /\ DOMAIN x7[x2] = 1 .. n
      /\ Len(g[x2]) = n + 1 /\ DOMAIN g[x2] = 1 .. n + 1
      /\ g[x2][n + 1] = Head(x4)
      /\ \A i \in 1 .. n : g[x2][i] = x7[x2][i]
  BY <1>2, <1>3, <1>4, <1>5, <1>6, AgentAdds
<1>8. n = Len(x11[x2]) /\ n = Len(x10[x2]) /\ n = Len(x8[x2])
  <2>1. n = Len(x11[x2])
    BY <1>1, <1>2, <1>5 DEF PlaceInv
  <2>2. InStep(x2)
    BY <1>4 DEF AgentInv
  <2>3. Len(x10[x2]) \in Nat /\ Len(x8[x2]) \in Nat
    BY <1>1, LenProperties DEF AgentTypes
  <2> QED BY <1>5, <1>7, <2>1, <2>2, <2>3 DEF InStep
<1>9. AgentTypes'
  BY <1>1, <1>2, <1>6, <1>7 DEF AgentTypes
<1>10. \A s \in AgentSession : InStep(s)' /\ (s > x2' => Unused(s)')
  <2>1. InStep(x2)'
    <3>1. InStep(x2)
      BY <1>4 DEF AgentInv
    <3>2. n <= n + 1
      BY <1>7
    <3> QED BY <1>2, <1>5, <1>6, <1>7, <1>8, <3>1, <3>2 DEF InStep
  <2>2. ~ (x2 > x2)
    BY <1>4 DEF AgentSession
  <2>3. ASSUME NEW s \in AgentSession, s # x2 PROVE InStep(s)' /\ (s > x2' => Unused(s)')
    <3>1. InStep(s) /\ (s > x2 => Unused(s))
      BY DEF AgentInv
    <3>2. SameStores(s) /\ x2' = x2
      BY <1>2, <1>6, <1>7, <2>3 DEF SameStores
    <3> QED BY <3>1, <3>2, StoresStay
  <2> QED BY <1>2, <2>1, <2>2, <2>3
<1>11. PlaceInv'
  BY <1>2, <1>6, <1>7, <1>8 DEF PlaceInv
<1>12. FreshInv'
  <2>1. Agent!Turn' = Agent!Turn
    BY <1>2 DEF Agent!Turn
  <2>2. \A i \in 1 .. n + 1 : i \in 1 .. n \/ i = n + 1
    BY <1>7
  <2>3. \A i \in DOMAIN g[x2] : g[x2][i].id[1] <= Agent!Turn
    BY <1>1, <1>2, <1>3, <1>7, <2>2 DEF FreshInv
  <2>4. \A i \in DOMAIN x4 : i # 1 => ~ \E k \in DOMAIN g[x2] : g[x2][k] = x4[i]
    BY <1>1, <1>2, <1>3, <1>7, <2>2 DEF FreshInv, Began
  <2> QED BY <1>1, <1>2, <1>6, <2>1, <2>3, <2>4 DEF FreshInv, Began
<1>13. RanInv'
  <2>1. \A s \in AgentSession : \A call : Began(s, call) => Began(s, call)'
    <3>1. \A i \in 1 .. n : i \in 1 .. n + 1
      BY <1>7
    <3> QED BY <1>6, <1>7, <3>1 DEF Began
  <2>2. \A s \in AgentSession : \A call : Ran(s, call)' <=> Ran(s, call)
    BY <1>2 DEF Ran
  <2>3. Head(x4).tool \in {"bash", "write_file"}
    BY <1>2 DEF Agent!Permission
  <2>4. ~ Began(x2, Head(x4))
    BY <1>1, <1>2, <1>3 DEF FreshInv
  <2>5. ~ Ran(x2, Head(x4))
    BY <1>1, <1>4, <2>4 DEF RanInv, Ran
  <2>6. \A i \in DOMAIN x11[x2] : x11[x2][i].call # Head(x4)
    <3>1. DOMAIN x11[x2] = 1 .. n
      BY <1>1, <1>8, LenProperties DEF AgentTypes
    <3>2. \A i \in 1 .. n : x11[x2][i].call = x7[x2][i]
      BY ZenonT(40), <1>4, <1>5, <1>8 DEF AgentInv, InStep
    <3> QED BY <1>7, <2>4, <3>1, <3>2 DEF Began
  <2>7. \A s \in AgentSession : \A i \in DOMAIN x6[s] :
           /\ Began(s, x6[s][i].call)'
           /\ Allowed(x6[s][i])
    BY <1>1, <1>2, <2>1 DEF RanInv
  <2>8. \A s \in AgentSession : \A i \in DOMAIN x11[s] :
           x11[s][i].output = "Permission denied" <=> ~ Ran(s, x11[s][i].call)
    BY <1>1 DEF RanInv
  <2>9. (\A s \in AgentSession : \A i \in DOMAIN x6[s] : Began(s, x6[s][i].call) /\ Allowed(x6[s][i]))'
    BY <1>2, <2>7 DEF Began
  <2>10. (\A s \in AgentSession : \A i \in DOMAIN x11[s] :
             x11[s][i].output = "Permission denied" <=> ~ Ran(s, x11[s][i].call))'
    BY <1>2, <2>8 DEF Ran
  <2>11. (~ Ran(x2, Head(x4)) /\ \A i \in DOMAIN x11[x2] : x11[x2][i].call # Head(x4))'
    BY <1>2, <2>5, <2>6 DEF Ran
  <2> QED BY <1>2, <2>3, <2>9, <2>10, <2>11 DEF RanInv
<1> QED BY <1>9, <1>10, <1>11, <1>12, <1>13 DEF AgentInv

LEMMA AgentExecutes == ASSUME AgentInv, Agent!Execute PROVE AgentInv'
<1>1. AgentTypes /\ PlaceInv /\ FreshInv /\ RanInv
  BY DEF AgentInv
<1>2. x1 = "execute" /\ UNCHANGED <<x2, x3, x4, x5, x7, x8, x10, x11>>
  BY DEF Agent!Execute
<1>3. Head(x4) = x4[1] /\ 1 \in DOMAIN x4 /\ Head(x4) \in AgentCall
  BY <1>1, <1>2, CallInWork DEF AgentTypes, FreshInv
<1>4. /\ \A s \in AgentSession : InStep(s)'
      /\ \A s \in AgentSession : s > x2 => Unused(s)
      /\ x2 \in AgentSession
  BY <1>1, <1>2 DEF AgentInv, AgentTypes, InStep
<1>5. Began(x2, Head(x4))
  <2>1. Len(x7[x2]) = Len(x11[x2]) + 1 /\ x7[x2][Len(x7[x2])] = Head(x4)
    BY <1>1, <1>2 DEF PlaceInv
  <2>2. Len(x11[x2]) \in Nat /\ DOMAIN x7[x2] = 1 .. Len(x7[x2])
    BY <1>1, LenProperties DEF AgentTypes
  <2>3. Len(x7[x2]) \in 1 .. Len(x7[x2])
    BY <2>1, <2>2
  <2> QED BY <2>1, <2>2, <2>3 DEF Began
<1>6. \A s \in AgentSession : \A call : Began(s, call)' <=> Began(s, call)
  BY <1>2 DEF Began
<1>7. Agent!Turn' = Agent!Turn
  BY <1>2 DEF Agent!Turn
<1>8. ASSUME NEW answer \in AgentAnswers, Agent!Approved(Head(x4).tool, answer),
             x6' = Agent!Add(x6, [call |-> Head(x4), answer |-> answer]),
             \/ x12' \in {"ok", "Tool failed"} /\ x1' = "count"
             \/ x12' = None /\ x1' = "down"
      PROVE  AgentInv'
  <2>1. PICK e : e = [call |-> Head(x4), answer |-> answer]
    OBVIOUS
  <2>2. e \in Execution /\ e.call = Head(x4) /\ e.answer = answer
    BY <1>3, <2>1 DEF Execution
  <2>3. PICK n : n = Len(x6[x2])
    OBVIOUS
  <2>4. PICK g : g = x6'
    OBVIOUS
  <2>5. x6 \in [AgentSession -> Seq(Execution)]
    BY <1>1 DEF AgentTypes
  <2>6. /\ g \in [AgentSession -> Seq(Execution)]
        /\ \A s \in AgentSession : s # x2 => g[s] = x6[s]
        /\ n \in Nat /\ DOMAIN x6[x2] = 1 .. n
        /\ DOMAIN g[x2] = 1 .. n + 1
        /\ g[x2][n + 1] = e
        /\ \A i \in 1 .. n : g[x2][i] = x6[x2][i]
    <3>1. g = Agent!Add(x6, e)
      BY <1>8, <2>1, <2>4
    <3> QED BY <1>4, <2>2, <2>3, <2>5, <3>1, AgentAdds
  <2>7. /\ \A i \in 1 .. n + 1 : i \in 1 .. n \/ i = n + 1
        /\ \A i \in 1 .. n : i \in 1 .. n + 1
        /\ n + 1 \in 1 .. n + 1
    BY <2>6
  <2>8. AgentTypes'
    BY <1>1, <1>2, <2>4, <2>6 DEF AgentTypes
  <2>9. \A s \in AgentSession : s > x2' => Unused(s)'
    <3>1. ~ (x2 > x2)
      BY <1>4 DEF AgentSession
    <3> QED BY <1>2, <1>4, <2>4, <2>6, <3>1 DEF Unused
  <2>10. PlaceInv'
    BY <1>1, <1>2, <1>8 DEF PlaceInv
  <2>11. FreshInv'
    BY <1>1, <1>2, <1>7, <1>8 DEF FreshInv, Began
  <2>12. RanInv'
    <3>1. Head(x4).tool \in {"bash", "write_file"}
      BY <1>1, <1>2 DEF RanInv
    <3>2. Allowed(e)
      BY <1>8, <2>2, <3>1 DEF Allowed, Agent!Approved, Agent!Permission
    <3>3. \A s \in AgentSession : \A i \in DOMAIN g[s] :
             /\ Began(s, g[s][i].call)
             /\ Allowed(g[s][i])
      <4>1. ASSUME NEW i \in DOMAIN g[x2]
            PROVE  /\ Began(x2, g[x2][i].call)
                   /\ Allowed(g[x2][i])
        <5>1. CASE i = n + 1
          BY <1>5, <2>2, <2>6, <3>2, <5>1
        <5>2. CASE i \in 1 .. n
          BY <1>1, <1>4, <2>6, <5>2 DEF RanInv
        <5> QED BY <2>6, <2>7, <5>1, <5>2
      <4> QED BY <1>1, <2>6, <4>1 DEF RanInv
    <3>4. \A s \in AgentSession : \A call : Ran(s, call)' <=> Ran(s, call) \/ (s = x2 /\ call = Head(x4))
      <4>1. ASSUME NEW call PROVE Ran(x2, call)' <=> Ran(x2, call) \/ call = Head(x4)
        BY <1>2, <2>2, <2>4, <2>6, <2>7 DEF Ran
      <4>2. \A s \in AgentSession : s # x2 => \A call : Ran(s, call)' <=> Ran(s, call)
        BY <2>4, <2>6 DEF Ran
      <4> QED BY <1>2, <4>1, <4>2 DEF Ran
    <3>5. \A s \in AgentSession : \A i \in DOMAIN x11[s] :
             x11[s][i].output = "Permission denied" <=> ~ (Ran(s, x11[s][i].call) \/ (s = x2 /\ x11[s][i].call = Head(x4)))
      <4>1. \A i \in DOMAIN x11[x2] : x11[x2][i].call # Head(x4)
        BY <1>1, <1>2 DEF RanInv
      <4> QED BY <1>1, <4>1 DEF RanInv
    <3>6. \A s \in AgentSession : \A i \in DOMAIN x11[s] :
             x11[s][i].output = "Permission denied" <=> ~ Ran(s, x11[s][i].call)'
      <4>1. ASSUME NEW s \in AgentSession, NEW i \in DOMAIN x11[s]
            PROVE  x11[s][i].output = "Permission denied" <=> ~ Ran(s, x11[s][i].call)'
        <5>1. PICK call : call = x11[s][i].call
          OBVIOUS
        <5>2. x11[s][i].output = "Permission denied" <=> ~ Ran(s, call)'
          BY <3>4, <3>5, <5>1
        <5> QED BY <1>2, <5>1, <5>2 DEF Ran
      <4> QED BY <4>1
    <3>7. Ran(x2, Head(x4))'
      BY <1>2, <1>4, <3>4 DEF Ran
    <3>8. x1' = "count" => x12' \in Outputs /\ x12' # "Permission denied"
      BY <1>8 DEF Outputs
    <3>9. x1' \in {"count", "down"}
      BY <1>8
    <3> QED BY <1>2, <1>6, <2>4, <3>1, <3>3, <3>6, <3>7, <3>8, <3>9 DEF RanInv, Ran, Began
  <2> QED BY <1>4, <2>8, <2>9, <2>10, <2>11, <2>12 DEF AgentInv
<1>9. ASSUME x12' = "Permission denied", x1' = "count", UNCHANGED x6 PROVE AgentInv'
  <2>1. AgentTypes' /\ \A s \in AgentSession : s > x2' => Unused(s)'
    BY <1>1, <1>2, <1>4, <1>9 DEF AgentTypes, Unused
  <2>2. PlaceInv'
    BY <1>1, <1>2, <1>9 DEF PlaceInv
  <2>3. FreshInv'
    BY <1>1, <1>2, <1>7, <1>9 DEF FreshInv, Began
  <2>4. RanInv'
    BY <1>1, <1>2, <1>9 DEF RanInv, Ran, Began, Outputs
  <2> QED BY <1>4, <2>1, <2>2, <2>3, <2>4 DEF AgentInv
<1> QED BY <1>8, <1>9 DEF Agent!Execute, Agent!Call

\* The stores after a call follow each other in the order of the loop.
LEMMA AgentRecords == ASSUME AgentInv, Agent!RecordTool PROVE AgentInv'
<1>1. AgentTypes /\ PlaceInv /\ FreshInv /\ RanInv
  BY DEF AgentInv
<1>2. /\ x1 = "count" /\ x1' = "audit" /\ x10' = Agent!Add(x10, Head(x4))
      /\ UNCHANGED <<x2, x3, x4, x5, x6, x7, x8, x11, x12>>
  BY DEF Agent!RecordTool, Agent!Call
<1>3. Head(x4) \in AgentCall
  BY <1>1, <1>2, CallInWork DEF AgentTypes, FreshInv
<1>4. x2 \in AgentSession /\ x10 \in [AgentSession -> Seq(AgentCall)]
  BY <1>1 DEF AgentTypes
<1>5. PICK n : n = Len(x10[x2])
  OBVIOUS
<1>6. PICK g : g = x10'
  OBVIOUS
<1>7. /\ g \in [AgentSession -> Seq(AgentCall)]
      /\ \A s \in AgentSession : s # x2 => g[s] = x10[s]
      /\ n \in Nat /\ Len(g[x2]) = n + 1
      /\ g[x2][n + 1] = Head(x4)
      /\ \A i \in 1 .. n : g[x2][i] = x10[x2][i]
  BY <1>2, <1>3, <1>4, <1>5, <1>6, AgentAdds
<1>8. Len(x11[x2]) = n /\ Len(x7[x2]) = n + 1 /\ x7[x2][n + 1] = Head(x4) /\ Len(x8[x2]) = n
  BY <1>1, <1>2, <1>5 DEF PlaceInv
<1>9. AgentTypes'
  BY <1>1, <1>2, <1>6, <1>7 DEF AgentTypes
<1>10. \A s \in AgentSession : InStep(s)' /\ (s > x2' => Unused(s)')
  <2>1. \A i \in 1 .. n + 1 : i \in 1 .. n \/ i = n + 1
    BY <1>7
  <2>2. \A i \in 1 .. n + 1 : g[x2][i] = x7[x2][i]
    BY <1>4, <1>5, <1>7, <1>8, <2>1 DEF AgentInv, InStep
  <2>3. InStep(x2)'
    <3>1. \A i \in 1 .. n : x8[x2][i].call = g[x2][i] /\ x11[x2][i] = x8[x2][i]
      BY <1>4, <1>7, <1>8 DEF AgentInv, InStep
    <3>2. n <= n + 1 /\ n <= n /\ n + 1 <= n + 1
      BY <1>7
    <3> QED BY <1>2, <1>6, <1>7, <1>8, <2>2, <3>1, <3>2 DEF InStep
  <2>4. ~ (x2 > x2)
    BY <1>4 DEF AgentSession
  <2>5. ASSUME NEW s \in AgentSession, s # x2 PROVE InStep(s)' /\ (s > x2' => Unused(s)')
    <3>1. InStep(s) /\ (s > x2 => Unused(s))
      BY DEF AgentInv
    <3>2. SameStores(s) /\ x2' = x2
      BY <1>2, <1>6, <1>7, <2>5 DEF SameStores
    <3> QED BY <3>1, <3>2, StoresStay
  <2> QED BY <1>2, <2>3, <2>4, <2>5
<1>11. PlaceInv'
  BY <1>2, <1>6, <1>7, <1>8 DEF PlaceInv
<1>12. Agent!Turn' = Agent!Turn
  BY <1>2 DEF Agent!Turn
<1>13. FreshInv'
  BY <1>1, <1>2, <1>12 DEF FreshInv, Began
<1>14. RanInv'
  BY <1>1, <1>2 DEF RanInv, Ran, Began
<1> QED BY <1>9, <1>10, <1>11, <1>13, <1>14 DEF AgentInv

LEMMA AgentAudits == ASSUME AgentInv, Agent!AuditResult PROVE AgentInv'
<1>1. AgentTypes /\ PlaceInv /\ FreshInv /\ RanInv
  BY DEF AgentInv
<1>2. /\ x1 = "audit" /\ x1' = "transcribe" /\ x8' = Agent!Add(x8, [call |-> Head(x4), output |-> x12])
      /\ UNCHANGED <<x2, x3, x4, x5, x6, x7, x10, x11, x12>>
  BY DEF Agent!AuditResult, Agent!Call
<1>3. PICK e : e = [call |-> Head(x4), output |-> x12]
  OBVIOUS
<1>15. e \in Written /\ e.call = Head(x4)
  <2>1. Head(x4) \in AgentCall
    BY <1>1, <1>2, CallInWork DEF AgentTypes, FreshInv
  <2>2. x12 \in Outputs
    BY <1>1, <1>2 DEF RanInv
  <2> QED BY <1>3, <2>1, <2>2 DEF Written
<1>4. x2 \in AgentSession /\ x8 \in [AgentSession -> Seq(Written)]
  BY <1>1 DEF AgentTypes
<1>5. PICK n : n = Len(x8[x2])
  OBVIOUS
<1>6. PICK g : g = x8'
  OBVIOUS
<1>7. /\ g \in [AgentSession -> Seq(Written)]
      /\ \A s \in AgentSession : s # x2 => g[s] = x8[s]
      /\ n \in Nat /\ Len(g[x2]) = n + 1
      /\ g[x2][n + 1] = e
      /\ \A i \in 1 .. n : g[x2][i] = x8[x2][i]
  <2>1. g = Agent!Add(x8, e)
    BY <1>2, <1>3, <1>6
  <2> QED BY <1>4, <1>5, <1>15, <2>1, AgentAdds
<1>8. Len(x11[x2]) = n /\ Len(x7[x2]) = n + 1 /\ x7[x2][n + 1] = Head(x4) /\ Len(x10[x2]) = n + 1
  BY <1>1, <1>2, <1>5 DEF PlaceInv
<1>9. AgentTypes'
  BY <1>1, <1>2, <1>6, <1>7 DEF AgentTypes
<1>10. \A s \in AgentSession : InStep(s)' /\ (s > x2' => Unused(s)')
  <2>1. \A i \in 1 .. n + 1 : i \in 1 .. n \/ i = n + 1
    BY <1>7
  <2>6. InStep(x2) /\ n + 1 \in 1 .. n + 1
    BY <1>4, <1>7 DEF AgentInv
  <2>2. \A i \in 1 .. n + 1 : g[x2][i].call = x10[x2][i]
    BY <1>5, <1>7, <1>8, <1>15, <2>1, <2>6 DEF InStep
  <2>3. InStep(x2)'
    <3>1. \A i \in 1 .. n : x11[x2][i] = g[x2][i]
      BY <1>7, <1>8, <2>6 DEF InStep
    <3>2. n <= n + 1 /\ n + 1 <= n + 1
      BY <1>7
    <3>3. \A i \in 1 .. n + 1 : x10[x2][i] = x7[x2][i]
      BY <1>8, <2>6 DEF InStep
    <3> QED BY <1>2, <1>6, <1>7, <1>8, <2>2, <3>1, <3>2, <3>3 DEF InStep
  <2>4. ~ (x2 > x2)
    BY <1>4 DEF AgentSession
  <2>5. ASSUME NEW s \in AgentSession, s # x2 PROVE InStep(s)' /\ (s > x2' => Unused(s)')
    <3>1. InStep(s) /\ (s > x2 => Unused(s))
      BY DEF AgentInv
    <3>2. SameStores(s) /\ x2' = x2
      BY <1>2, <1>6, <1>7, <2>5 DEF SameStores
    <3> QED BY <3>1, <3>2, StoresStay
  <2> QED BY <1>2, <2>3, <2>4, <2>5
<1>11. PlaceInv'
  BY <1>2, <1>3, <1>6, <1>7, <1>8 DEF PlaceInv
<1>12. Agent!Turn' = Agent!Turn
  BY <1>2 DEF Agent!Turn
<1>13. FreshInv'
  BY <1>1, <1>2, <1>12 DEF FreshInv, Began
<1>14. RanInv'
  BY <1>1, <1>2 DEF RanInv, Ran, Began
<1> QED BY <1>9, <1>10, <1>11, <1>13, <1>14 DEF AgentInv

LEMMA AgentTranscribes == ASSUME AgentInv, Agent!TranscribeResult PROVE AgentInv'
<1>1. AgentTypes /\ PlaceInv /\ FreshInv /\ RanInv
  BY DEF AgentInv
<1>2. /\ x1 = "transcribe" /\ x1' = Agent!AfterCall
      /\ x11' = Agent!Add(x11, [call |-> Head(x4), output |-> x12])
      /\ x5' = Append(x5, Head(x4).id) /\ x4' = Tail(x4)
      /\ UNCHANGED <<x2, x3, x6, x7, x8, x10>>
  BY DEF Agent!TranscribeResult, Agent!Call
<1>3. PICK e : e = [call |-> Head(x4), output |-> x12]
  OBVIOUS
<1>15. e \in Written /\ e.call = Head(x4) /\ e.output = x12 /\ Head(x4) \in AgentCall
  <2>1. Head(x4) \in AgentCall
    BY <1>1, <1>2, CallInWork DEF AgentTypes, FreshInv
  <2>2. x12 \in Outputs
    BY <1>1, <1>2 DEF RanInv
  <2> QED BY <1>3, <2>1, <2>2 DEF Written
<1>4. x2 \in AgentSession /\ x11 \in [AgentSession -> Seq(Written)]
  BY <1>1 DEF AgentTypes
<1>5. PICK n : n = Len(x11[x2])
  OBVIOUS
<1>6. PICK g : g = x11'
  OBVIOUS
<1>7. /\ g \in [AgentSession -> Seq(Written)]
      /\ \A s \in AgentSession : s # x2 => g[s] = x11[s]
      /\ n \in Nat /\ Len(g[x2]) = n + 1 /\ DOMAIN x11[x2] = 1 .. n /\ DOMAIN g[x2] = 1 .. n + 1
      /\ g[x2][n + 1] = e
      /\ \A i \in 1 .. n : g[x2][i] = x11[x2][i]
  <2>1. g = Agent!Add(x11, e)
    BY <1>2, <1>3, <1>6
  <2> QED BY <1>4, <1>5, <1>15, <2>1, AgentAdds
<1>8. Len(x7[x2]) = n + 1 /\ Len(x10[x2]) = n + 1 /\ Len(x8[x2]) = n + 1 /\ x8[x2][n + 1] = e
  BY <1>1, <1>2, <1>3, <1>5 DEF PlaceInv
<1>9. FreshInv' /\ x4' \in Seq(AgentCall) /\ x1' \in {"dispatch", "answer"}
  BY <1>1, <1>2, RestIsFresh
<1>10. AgentTypes'
  <2>1. x5' \in Seq(AgentId)
    BY <1>1, <1>2, <1>15, AppendProperties DEF AgentTypes, AgentCall
  <2> QED BY <1>1, <1>2, <1>6, <1>7, <1>9, <2>1 DEF AgentTypes
<1>16. \A i \in 1 .. n + 1 : i \in 1 .. n \/ i = n + 1
  BY <1>7
<1>11. \A s \in AgentSession : InStep(s)' /\ (s > x2' => Unused(s)')
  <2>1. InStep(x2) /\ n + 1 \in 1 .. n + 1
    BY <1>4, <1>7 DEF AgentInv
  <2>2. \A i \in 1 .. n + 1 : g[x2][i] = x8[x2][i]
    BY <1>5, <1>7, <1>8, <1>16, <2>1 DEF InStep
  <2>3. InStep(x2)'
    <3>1. n + 1 <= n + 1 /\ n + 1 <= n + 1 + 1
      BY <1>7
    <3> QED BY <1>2, <1>6, <1>7, <1>8, <2>1, <2>2, <3>1 DEF InStep
  <2>4. ~ (x2 > x2)
    BY <1>4 DEF AgentSession
  <2>5. \A s \in AgentSession : s # x2 => InStep(s)' /\ (s > x2' => Unused(s)')
    <3>1. ASSUME NEW s \in AgentSession, s # x2 PROVE InStep(s)' /\ (s > x2' => Unused(s)')
      <4>1. x11'[s] = x11[s]
        BY <1>6, <1>7, <3>1
      <4>2. InStep(s)'
        BY <1>2, <4>1 DEF AgentInv, InStep
      <4>3. s > x2' => Unused(s)'
        BY <1>2, <4>1 DEF AgentInv, Unused
      <4> QED BY <4>2, <4>3
    <3> QED BY <3>1
  <2> QED BY <1>2, <2>3, <2>4, <2>5
<1>12. PlaceInv'
  BY <1>2, <1>6, <1>7, <1>8, <1>9 DEF PlaceInv
<1>13. RanInv'
  <2>1. \A s \in AgentSession : \A i \in DOMAIN g[s] :
           g[s][i].output = "Permission denied" <=> ~ Ran(s, g[s][i].call)
    <3>1. ASSUME NEW i \in DOMAIN g[x2]
          PROVE  g[x2][i].output = "Permission denied" <=> ~ Ran(x2, g[x2][i].call)
      <4>1. CASE i = n + 1
        BY <1>1, <1>2, <1>7, <1>15, <4>1 DEF RanInv
      <4>2. CASE i \in 1 .. n
        BY <1>1, <1>4, <1>7, <4>2 DEF RanInv
      <4> QED BY <1>7, <1>16, <4>1, <4>2
    <3>2. ASSUME NEW s \in AgentSession, s # x2, NEW i \in DOMAIN g[s]
          PROVE  g[s][i].output = "Permission denied" <=> ~ Ran(s, g[s][i].call)
      <4>1. g[s] = x11[s]
        BY <1>7, <3>2
      <4> QED BY <1>1, <3>2, <4>1 DEF RanInv
    <3> QED BY <3>1, <3>2
  <2>2. \A s \in AgentSession : \A i \in DOMAIN x6[s] : Began(s, x6[s][i].call) /\ Allowed(x6[s][i])
    BY <1>1 DEF RanInv
  <2> QED BY <1>2, <1>6, <1>9, <2>1, <2>2 DEF RanInv, Ran, Began
<1> QED BY <1>9, <1>10, <1>11, <1>12, <1>13 DEF AgentInv

\* Every step of the agent keeps it.
LEMMA AgentNext == ASSUME AgentInv, Agent!Next PROVE AgentInv'
BY AgentTurns1, AgentEnds, AgentDenies, AgentStarts, AgentExecutes, AgentRecords, AgentAudits,
   AgentTranscribes DEF Agent!Next

LEMMA AgentStart == Agent!Init => AgentInv
<1> SUFFICES ASSUME Agent!Init PROVE AgentInv
  OBVIOUS
<1>1. /\ x1 = "idle" /\ x2 = 1 /\ x3 = <<>> /\ x4 = <<>> /\ x5 = <<>>
      /\ \A s \in AgentSession : Unused(s)
      /\ x6 = [s \in AgentSession |-> <<>>] /\ x7 = [s \in AgentSession |-> <<>>]
      /\ x8 = [s \in AgentSession |-> <<>>] /\ x10 = [s \in AgentSession |-> <<>>]
      /\ x11 = [s \in AgentSession |-> <<>>]
  BY DEF Agent!Init, Agent!Empty, Agent!Session, AgentSession, Unused
<1>2. 1 \in AgentSession
  BY BoundsAssumption DEF AgentSession
<1>3. AgentTypes
  BY <1>1, <1>2, EmptySeq DEF AgentTypes
<1>4. \A s \in AgentSession : InStep(s) /\ (s > x2 => Unused(s))
  BY <1>1, EmptySeq DEF InStep, Unused
<1>5. PlaceInv
  BY <1>1, <1>2 DEF PlaceInv, Unused
<1>6. Agent!Turn = 0
  <2>1. {k \in DOMAIN <<>> : <<>>[k].role = "assistant"} = {}
    BY EmptySeq
  <2>2. Agent!Turn = Cardinality({k \in DOMAIN x3 : x3[k].role = "assistant"})
    BY DEF Agent!Turn, Agent!Cardinality, Cardinality
  <2> QED BY <1>1, <2>1, <2>2, FS_EmptySet
<1>7. FreshInv
  BY <1>1, <1>2, <1>6, EmptySeq DEF FreshInv, Unused
<1>8. RanInv
  BY <1>1, EmptySeq DEF RanInv, Unused
<1> QED BY <1>3, <1>4, <1>5, <1>7, <1>8 DEF AgentInv

LEMMA AgentFrame ==
    ASSUME AgentInv, UNCHANGED <<x1, x2, x3, x4, x5, x6, x7, x8, x10, x11, x12>>
    PROVE  AgentInv'
<1>1. AgentTypes' /\ \A s \in AgentSession : InStep(s)' /\ (s > x2' => Unused(s)')
  BY DEF AgentInv, AgentTypes, InStep, Unused
<1>2. PlaceInv'
  BY DEF AgentInv, PlaceInv
<1>3. FreshInv'
  BY DEF AgentInv, FreshInv, Began, Agent!Turn
<1>4. RanInv'
  BY DEF AgentInv, RanInv, Ran, Began
<1> QED BY <1>1, <1>2, <1>3, <1>4 DEF AgentInv

\* The stores agree, and what ran was permitted.
LEMMA AgentSound == AgentInv => Agent!StoresAgree /\ Agent!PermittedOnly
<1> SUFFICES ASSUME AgentInv PROVE Agent!StoresAgree /\ Agent!PermittedOnly
  OBVIOUS
<1>1. AgentTypes /\ RanInv /\ \A s \in AgentSession : InStep(s)
  BY DEF AgentInv
<1>2. Agent!Session = AgentSession
  BY DEF Agent!Session, AgentSession
<1>3. ASSUME NEW s \in AgentSession
      PROVE  /\ Agent!Continues(x8[s], x11[s])
             /\ Agent!Continues(x10[s], Agent!CallsIn(x8[s]))
             /\ Agent!Continues(x7[s], x10[s])
             /\ Len(x7[s]) <= Len(x11[s]) + 1
  <2>1. x7[s] \in Seq(AgentCall) /\ x10[s] \in Seq(AgentCall) /\ x8[s] \in Seq(Written) /\ x11[s] \in Seq(Written)
    BY <1>1 DEF AgentTypes
  <2>2. /\ Len(x7[s]) \in Nat /\ DOMAIN x7[s] = 1 .. Len(x7[s])
        /\ Len(x8[s]) \in Nat /\ DOMAIN x8[s] = 1 .. Len(x8[s])
        /\ Len(x10[s]) \in Nat /\ DOMAIN x10[s] = 1 .. Len(x10[s])
        /\ Len(x11[s]) \in Nat /\ DOMAIN x11[s] = 1 .. Len(x11[s])
    BY <2>1, LenProperties
  <2>3. InStep(s)
    BY <1>1
  <2> QED BY <2>2, <2>3 DEF InStep, Agent!Continues, Agent!CallsIn
<1>4. \A s \in AgentSession : \A call : call \in Agent!Range(Agent!CallsIn(x6[s])) <=> Ran(s, call)
  BY DEF Agent!Range, Agent!CallsIn, Ran
<1>5. \A s \in AgentSession : \A call : call \in Agent!Range(x7[s]) <=> Began(s, call)
  BY DEF Agent!Range, Began
<1>6. \A s \in AgentSession : Agent!Range(Agent!CallsIn(x6[s])) \subseteq Agent!Range(x7[s])
  <2>1. ASSUME NEW s \in AgentSession, NEW call, Ran(s, call) PROVE Began(s, call)
    BY <1>1, <2>1 DEF RanInv, Ran
  <2> QED BY <1>4, <1>5, <2>1
<1>7. Agent!StoresAgree
  BY <1>2, <1>3, <1>6 DEF Agent!StoresAgree
<1>8. Agent!PermittedOnly
  <2>1. ASSUME NEW s \in AgentSession, NEW e \in Agent!Range(x6[s])
        PROVE  e.call.tool = "bash" \/ (e.call.tool = "write_file" /\ e.answer = "yes")
    <3>1. Allowed(e)
      BY <1>1 DEF RanInv, Agent!Range
    <3> QED BY <3>1 DEF Allowed
  <2>2. ASSUME NEW s \in AgentSession, NEW t \in Agent!Range(x11[s])
        PROVE  t.output = "Permission denied" <=> t.call \notin Agent!Range(Agent!CallsIn(x6[s]))
    <3>1. t.output = "Permission denied" <=> ~ Ran(s, t.call)
      BY <1>1 DEF RanInv, Agent!Range
    <3> QED BY <1>4, <3>1
  <2> QED BY <1>2, <2>1, <2>2 DEF Agent!PermittedOnly
<1> QED BY <1>7, <1>8

-----------------------------------------------------------------------------
(* The recall harness: x1 is pc, x2 store, x3 transcripts, x4 reports and  *)
(* x5 tampered                                                             *)

RecallRun == 1 .. RecallRuns
RecallPlaces == {"away", "read_winner", "add_winner", "read_loser", "add_loser", "collision",
                 "recall", "select", "tool", "complete", "check"}
RecallHits == [id : {m3, m4}, source : {"source"} \X {m3, m4, Garbage}]
FactHit(fact) == [id |-> fact, source |-> <<"source", fact>>]

\* What a run writes, from its start to its end, whatever the others do.
Message == [type |-> "message"]
Result == [type |-> "tool_result"]
Found(r) == [type |-> "recall", query |-> r, hits |-> {FactHit(m3), FactHit(m4)}]
Chosen(r) == [type |-> "selected", query |-> r, selected |-> {m3}, rejected |-> {m4},
              evidence |-> {FactHit(m3)}]
Trace(r, i) ==
    IF i = 2 THEN Found(r) ELSE IF i = 3 THEN Chosen(r) ELSE IF i = 4 THEN Result ELSE Message

\* What may stand in place of its selection.
Forgery == [type : {"selected"}, query : RecallRun, selected : SUBSET {m3, m4},
            rejected : {{m4}}, evidence : SUBSET RecallHits]
RecallEvent ==
    {Message, Result} \cup {Found(r) : r \in RecallRun} \cup {Chosen(r) : r \in RecallRun} \cup Forgery

\* The events a run has written where it is.
EventsAt(at) == CASE at = "select" -> 2 [] at = "tool" -> 3 [] at = "complete" -> 4
              [] at = "check" -> 5 [] OTHER -> 1

RecallTypes ==
    /\ x1 \in [RecallProcess -> [at : RecallPlaces, run : Nat]]
    /\ x2 \in Seq([id : {m3, m4}, content : {m3, m4, Garbage}])
    /\ x3 \in [RecallRun -> Seq(RecallEvent)]
    /\ DOMAIN x4 = RecallRun
    /\ x5 \subseteq RecallRun

TraceInv ==
    \A r \in RecallRun :
        /\ Len(x3[r]) <= 5
        /\ \A i \in DOMAIN x3[r] : (i = 3 /\ r \in x5) \/ x3[r][i] = Trace(r, i)
        /\ r \in x5 => Len(x3[r]) >= 3 /\ x3[r][3] \in Forgery

\* Runs are numbered as they start, and each has one process at most.
NumberInv(n) ==
    /\ \A r \in RecallRun : x3[r] # <<>> <=> r <= n
    /\ \A p \in RecallProcess : x1[p].at # "away" =>
         x1[p].run \in 1 .. n /\ Len(x3[x1[p].run]) = EventsAt(x1[p].at)
    /\ \A p, q \in RecallProcess :
         x1[p].at # "away" /\ x1[q].at # "away" /\ x1[p].run = x1[q].run => p = q

\* A run that has started is a run there is.
LEMMA RunWithin == ASSUME NEW n \in 0 .. RecallRuns, NEW r \in 1 .. n PROVE r \in RecallRun
<1>1. RecallRuns \in Nat
  BY BoundsAssumption
<1> QED BY <1>1 DEF RecallRun

\* A fact whose record this is, and the facts a process has seen to.
Kept(fact) == [id |-> fact, content |-> fact] \in Has(x2)
StoreInv ==
    /\ \A i, j \in DOMAIN x2 : x2[i].id = x2[j].id => i = j
    /\ \A p \in RecallProcess :
         /\ x1[p].at \in {"read_loser", "add_loser", "recall", "select", "tool", "complete", "check"} => Kept(m3)
         /\ x1[p].at \in {"recall", "select", "tool", "complete", "check"} => Kept(m4)
         /\ x1[p].at = "collision" => \E i \in DOMAIN x2 : x2[i].content # x2[i].id

ReportInv ==
    \A r \in RecallRun \ x5 : x4[r] # None => x4[r].replayed /\ x4[r].proof /\ x4[r].unique

RecallInv ==
    /\ RecallTypes /\ TraceInv /\ StoreInv /\ ReportInv
    /\ \E n \in 0 .. RecallRuns : NumberInv(n)

\* A position alone is the newest.
LEMMA NewestAlone == ASSUME NEW i \in Nat PROVE Recall!Newest({i}) = i
  BY DEF Recall!Newest

\* What a run has selected and recalled.
LEMMA TraceTypes ==
  ASSUME RecallTypes, TraceInv, NEW r \in RecallRun
  PROVE  /\ DOMAIN x3[r] = 1 .. Len(x3[r]) /\ Len(x3[r]) \in Nat /\ Len(x3[r]) <= 5
         /\ \A i \in 1 .. Len(x3[r]) : x3[r][i].type = "recall" <=> i = 2
         /\ Len(x3[r]) >= 3 => Recall!Selections(x3[r]) = {3}
         /\ Len(x3[r]) < 3 => Recall!Selections(x3[r]) = {}
<1> DEFINE n == Len(x3[r])
<1>1. x3[r] \in Seq(RecallEvent) /\ n \in Nat /\ DOMAIN x3[r] = 1 .. n /\ n <= 5
  BY LenProperties DEF RecallTypes, TraceInv
<1>2. \A i \in 1 .. n : x3[r][i].type =
         IF i = 3 THEN "selected" ELSE IF i = 2 THEN "recall" ELSE IF i = 4 THEN "tool_result" ELSE "message"
  <2> SUFFICES ASSUME NEW i \in 1 .. n
               PROVE  x3[r][i].type = IF i = 3 THEN "selected" ELSE IF i = 2 THEN "recall"
                                      ELSE IF i = 4 THEN "tool_result" ELSE "message"
    OBVIOUS
  <2>1. i \in {1, 2, 3, 4, 5}
    BY <1>1
  <2>2. CASE i = 3 /\ r \in x5
    BY <1>1, <2>2 DEF TraceInv, Forgery
  <2>3. CASE ~ (i = 3 /\ r \in x5)
    <3>1. x3[r][i] = Trace(r, i)
      BY <1>1, <2>3 DEF TraceInv
    <3>2. /\ Found(r).type = "recall" /\ Chosen(r).type = "selected"
          /\ Result.type = "tool_result" /\ Message.type = "message"
      BY DEF Found, Chosen, Result, Message
    <3> QED BY <2>1, <3>1, <3>2 DEF Trace
  <2> QED BY <2>2, <2>3
<1>3. Recall!Selections(x3[r]) = {i \in 1 .. n : x3[r][i].type = "selected"}
  BY <1>1 DEF Recall!Selections
<1>4. n >= 3 => Recall!Selections(x3[r]) = {3}
  BY <1>1, <1>2, <1>3
<1>5. n < 3 => Recall!Selections(x3[r]) = {}
  BY <1>1, <1>2, <1>3
<1>6. \A i \in 1 .. n : x3[r][i].type = "recall" <=> i = 2
  BY <1>1, <1>2
<1> QED BY <1>1, <1>4, <1>5, <1>6

\* The selection that is replayed, and the recall it is compared with.
LEMMA Replays ==
  ASSUME RecallTypes, TraceInv, NEW r \in RecallRun, Len(x3[r]) >= 3
  PROVE  /\ Recall!Selection(x3[r]) = x3[r][3] /\ x3[r][3].rejected = {m4}
         /\ x3[r][2] = Found(r)
         /\ Recall!Proven(x3[r]) <=>
              /\ Recall!Ids(x3[r][3].evidence) = x3[r][3].selected
              /\ m4 \notin x3[r][3].selected
              /\ x3[r][3].query = r
              /\ x3[r][3].evidence \subseteq {FactHit(m3), FactHit(m4)}
<1> DEFINE s == x3[r][3]
<1>1. /\ DOMAIN x3[r] = 1 .. Len(x3[r]) /\ Len(x3[r]) \in Nat /\ Len(x3[r]) <= 5
      /\ Recall!Selections(x3[r]) = {3}
      /\ \A i \in 1 .. Len(x3[r]) : x3[r][i].type = "recall" <=> i = 2
  BY TraceTypes
<1>2. Recall!Selection(x3[r]) = s
  BY <1>1, NewestAlone DEF Recall!Selection
<1>3. x3[r][2] = Found(r)
  BY <1>1 DEF TraceInv, Trace
<1>4. s.rejected = {m4}
  <2>1. s \in Forgery \/ s = Chosen(r)
    BY <1>1 DEF TraceInv, Trace
  <2> QED BY <2>1 DEF Forgery, Chosen
<1>5. Recall!Newest(Recall!Selections(x3[r])) = 3
  BY <1>1, NewestAlone
<1>6. Recall!Recalls(x3[r]) = IF r = s.query THEN {2} ELSE {}
  <2>1. x3[r][2].query = r
    BY <1>3 DEF Found
  <2>2. Recall!Recalls(x3[r]) = {i \in 1 .. Len(x3[r]) : i = 2 /\ i < 3 /\ x3[r][i].query = s.query}
    BY <1>1, <1>2, <1>5 DEF Recall!Recalls
  <2> QED BY <1>1, <2>1, <2>2
<1>7. r = s.query => Recall!Newest(Recall!Recalls(x3[r])) = 2
  BY <1>6, NewestAlone
<1>8. CASE r = s.query
  <2>1. x3[r][2].hits = {FactHit(m3), FactHit(m4)}
    BY <1>3 DEF Found
  <2>2. Recall!Proven(x3[r]) <=>
          /\ Recall!Ids(s.evidence) = s.selected /\ s.selected \cap {m4} = {}
          /\ s.evidence \subseteq x3[r][2].hits
    BY <1>2, <1>4, <1>6, <1>7, <1>8 DEF Recall!Proven, Recall!MatchesRecall
  <2> QED BY <1>2, <1>3, <1>4, <1>8, <2>1, <2>2
<1>9. CASE r # s.query
  <2>1. ~ Recall!Proven(x3[r])
    BY <1>6, <1>9 DEF Recall!Proven
  <2> QED BY <1>2, <1>3, <1>4, <1>9, <2>1
<1> QED BY <1>8, <1>9

\* A run nobody edited that has written everything proves the fact that won.
LEMMA RunProves ==
  ASSUME RecallTypes, TraceInv, NEW r \in RecallRun \ x5, Len(x3[r]) = 5
  PROVE  /\ Recall!Types(x3[r]) = <<"message", "recall", "selected", "tool_result", "message">>
         /\ Recall!Selections(x3[r]) # {} /\ Recall!Replay(x3[r]) # None
         /\ Recall!Ids(Recall!Replay(x3[r])) = {m3} /\ Recall!Selection(x3[r]).rejected = {m4}
<1>1. DOMAIN x3[r] = 1 .. 5 /\ Recall!Selections(x3[r]) = {3}
  BY TraceTypes
<1>2. /\ x3[r][1] = Message /\ x3[r][2] = Found(r) /\ x3[r][3] = Chosen(r)
      /\ x3[r][4] = Result /\ x3[r][5] = Message
  <2>1. \A i \in 1 .. 5 : x3[r][i] = Trace(r, i)
    BY <1>1 DEF TraceInv
  <2> QED BY <2>1 DEF Trace
<1>3. [i \in DOMAIN x3[r] |-> x3[r][i].type] = <<"message", "recall", "selected", "tool_result", "message">>
  <2>1. /\ x3[r][1].type = "message" /\ x3[r][2].type = "recall" /\ x3[r][3].type = "selected"
        /\ x3[r][4].type = "tool_result" /\ x3[r][5].type = "message"
    BY <1>2 DEF Found, Chosen, Result, Message
  <2> QED BY <1>1, <2>1
<1>4. /\ x3[r][3].query = r /\ x3[r][3].selected = {m3} /\ x3[r][3].rejected = {m4}
      /\ x3[r][3].evidence = {FactHit(m3)}
  BY <1>2 DEF Chosen
<1>5. Recall!Ids({FactHit(m3)}) = {m3}
  BY DEF Recall!Ids, FactHit
<1>6. Recall!Proven(x3[r]) /\ Recall!Selection(x3[r]) = x3[r][3]
  <2>1. /\ Len(x3[r]) >= 3 /\ r \in RecallRun
        /\ m4 \notin {m3} /\ {FactHit(m3)} \subseteq {FactHit(m3), FactHit(m4)}
    BY FactsAssumption
  <2>2. /\ Recall!Selection(x3[r]) = x3[r][3]
        /\ Recall!Proven(x3[r]) <=>
              /\ Recall!Ids(x3[r][3].evidence) = x3[r][3].selected
              /\ m4 \notin x3[r][3].selected
              /\ x3[r][3].query = r
              /\ x3[r][3].evidence \subseteq {FactHit(m3), FactHit(m4)}
    BY <2>1, Replays
  <2> QED BY <1>4, <1>5, <2>1, <2>2
<1>7. Recall!Replay(x3[r]) = {FactHit(m3)}
  BY <1>1, <1>4, <1>6 DEF Recall!Replay
<1>8. {FactHit(m3)} # None
  BY FactsAssumption DEF FactHit
<1> QED BY <1>1, <1>3, <1>4, <1>5, <1>6, <1>7, <1>8 DEF Recall!Types

\* A transcript proves what the recall of its own query found.
LEMMA OnlyRecalledProved == ASSUME RecallTypes, TraceInv PROVE Recall!ProofRecalled
<1> SUFFICES ASSUME NEW r \in Recall!Started, Recall!Replay(x3[r]) \notin {None, {}}
             PROVE  /\ \A e \in Recall!Replay(x3[r]) : \E i \in DOMAIN x3[r] :
                         x3[r][i].type = "recall" /\ x3[r][i].query = r /\ e \in x3[r][i].hits
                    /\ Recall!Ids(Recall!Replay(x3[r])) \cap Recall!Selection(x3[r]).rejected = {}
  BY DEF Recall!ProofRecalled
<1>1. r \in RecallRun
  BY DEF Recall!Started, Recall!Run, RecallRun
<1>2. Recall!Selections(x3[r]) # {} /\ Recall!Proven(x3[r])
      /\ Recall!Replay(x3[r]) = Recall!Selection(x3[r]).evidence
  BY DEF Recall!Replay
<1>3. Len(x3[r]) >= 3 /\ 2 \in DOMAIN x3[r]
  <2>1. /\ DOMAIN x3[r] = 1 .. Len(x3[r]) /\ Len(x3[r]) \in Nat
        /\ ~ (Len(x3[r]) < 3)
    BY <1>1, <1>2, TraceTypes
  <2> QED BY <2>1
<1>4. /\ Recall!Selection(x3[r]) = x3[r][3] /\ x3[r][3].rejected = {m4}
      /\ Recall!Ids(x3[r][3].evidence) = x3[r][3].selected /\ m4 \notin x3[r][3].selected
      /\ x3[r][3].evidence \subseteq {FactHit(m3), FactHit(m4)}
      /\ x3[r][2] = Found(r)
  BY <1>1, <1>2, <1>3, Replays
<1>5. x3[r][2].type = "recall" /\ x3[r][2].query = r /\ x3[r][2].hits = {FactHit(m3), FactHit(m4)}
  BY <1>4 DEF Found
<1>6. \A e \in x3[r][3].evidence : e \in x3[r][2].hits
  BY <1>4, <1>5
<1> QED BY <1>2, <1>3, <1>4, <1>5, <1>6
\* A recall finds both facts once they are stored, and nothing else.
LEMMA BothFound ==
  ASSUME RecallTypes, StoreInv, Kept(m3), Kept(m4)
  PROVE  /\ {Recall!Hit(x2[i]) : i \in DOMAIN x2} = {FactHit(m3), FactHit(m4)}
         /\ \A f \in {m3, m4} : Cardinality({i \in DOMAIN x2 : x2[i].id = f}) = 1
<1>1. x2 \in Seq([id : {m3, m4}, content : {m3, m4, Garbage}])
  BY DEF RecallTypes
<1>2. \A f \in {m3, m4} : \E i \in DOMAIN x2 : x2[i] = [id |-> f, content |-> f]
  BY DEF Kept, Has
<1>3. \A i \in DOMAIN x2 : x2[i] \in [id : {m3, m4}, content : {m3, m4, Garbage}]
  BY <1>1, ElementOfSeq, LenProperties
<1>4. \A i \in DOMAIN x2 : x2[i].content = x2[i].id /\ x2[i].id \in {m3, m4}
  BY <1>2, <1>3 DEF StoreInv
<1>5. \A i \in DOMAIN x2 : Recall!Hit(x2[i]) = FactHit(x2[i].id)
  BY <1>4 DEF Recall!Hit, Recall!Source, FactHit
<1>6. {Recall!Hit(x2[i]) : i \in DOMAIN x2} \subseteq {FactHit(m3), FactHit(m4)}
  BY <1>4, <1>5
<1>7. \A f \in {m3, m4} : FactHit(f) \in {Recall!Hit(x2[i]) : i \in DOMAIN x2}
  BY <1>2, <1>5
<1>8. ASSUME NEW f \in {m3, m4} PROVE Cardinality({i \in DOMAIN x2 : x2[i].id = f}) = 1
  <2>1. PICK k \in DOMAIN x2 : x2[k].id = f
    BY <1>2
  <2>2. {i \in DOMAIN x2 : x2[i].id = f} = {k}
    BY <2>1 DEF StoreInv
  <2> QED BY <2>2, FS_Singleton
<1> QED BY <1>6, <1>7, <1>8

\* A process that moves on as much as its transcript has grown keeps its place.
LEMMA PlaceKept ==
  ASSUME RecallTypes, NEW n \in 0 .. RecallRuns, NumberInv(n),
         NEW p \in RecallProcess, x1[p].at # "away", NEW at \in RecallPlaces,
         x1' = [x1 EXCEPT ![p].at = at],
         \/ x3' = x3 /\ EventsAt(at) = EventsAt(x1[p].at)
         \/ \E e \in RecallEvent : /\ x3' = [x3 EXCEPT ![x1[p].run] = Append(@, e)]
                                   /\ EventsAt(at) = EventsAt(x1[p].at) + 1
  PROVE  NumberInv(n)'
<1> DEFINE r == x1[p].run
<1>1. r \in 1 .. n /\ r \in RecallRun /\ Len(x3[r]) = EventsAt(x1[p].at)
  BY BoundsAssumption DEF NumberInv, RecallRun
<1>2. /\ x1' \in [RecallProcess -> [at : RecallPlaces, run : Nat]]
      /\ x1'[p].at = at /\ x1'[p].run = r
      /\ \A q \in RecallProcess \ {p} : x1'[q] = x1[q]
      /\ \A q \in RecallProcess : x1'[q].run = x1[q].run
  BY DEF RecallTypes
<1>3. /\ \A s \in RecallRun \ {r} : x3'[s] = x3[s]
      /\ x3[r] # <<>> /\ x3'[r] # <<>> /\ Len(x3'[r]) = EventsAt(at)
  <2>1. x3[r] \in Seq(RecallEvent) /\ x3[r] # <<>>
    BY <1>1 DEF RecallTypes, NumberInv
  <2>2. CASE x3' = x3 /\ EventsAt(at) = EventsAt(x1[p].at)
    BY <1>1, <2>1, <2>2
  <2>3. CASE \E e \in RecallEvent : /\ x3' = [x3 EXCEPT ![r] = Append(@, e)]
                                    /\ EventsAt(at) = EventsAt(x1[p].at) + 1
    <3>1. PICK e \in RecallEvent : /\ x3' = [x3 EXCEPT ![r] = Append(@, e)]
                                   /\ EventsAt(at) = EventsAt(x1[p].at) + 1
      BY <2>3
    <3>2. /\ x3'[r] = Append(x3[r], e)
          /\ \A s \in RecallRun \ {r} : x3'[s] = x3[s]
      BY <1>1, <3>1 DEF RecallTypes
    <3>3. Append(x3[r], e) # <<>> /\ Len(Append(x3[r], e)) = Len(x3[r]) + 1
      BY <2>1, AppendProperties
    <3> QED BY <1>1, <2>1, <3>1, <3>2, <3>3
  <2> QED BY <2>2, <2>3
<1>4. \A s \in RecallRun : x3'[s] # <<>> <=> s <= n
  BY <1>3 DEF NumberInv
<1>5. \A q \in RecallProcess : x1'[q].at # "away" =>
         x1'[q].run \in 1 .. n /\ Len(x3'[x1'[q].run]) = EventsAt(x1'[q].at)
  <2> SUFFICES ASSUME NEW q \in RecallProcess, x1'[q].at # "away"
               PROVE  x1'[q].run \in 1 .. n /\ Len(x3'[x1'[q].run]) = EventsAt(x1'[q].at)
    OBVIOUS
  <2>1. CASE q = p
    BY <1>1, <1>2, <1>3, <2>1
  <2>2. CASE q # p
    <3>1. x1[q].at # "away" /\ x1'[q] = x1[q]
      BY <1>2, <2>2
    <3>2. x1[q].run # r /\ x1[q].run \in 1 .. n /\ Len(x3[x1[q].run]) = EventsAt(x1[q].at)
      BY <2>2, <3>1 DEF NumberInv
    <3>3. x1[q].run \in RecallRun \ {r}
      BY <3>2, BoundsAssumption DEF RecallRun
    <3> QED BY <1>3, <3>1, <3>2, <3>3
  <2> QED BY <2>1, <2>2
<1>6. \A q, s \in RecallProcess :
         x1'[q].at # "away" /\ x1'[s].at # "away" /\ x1'[q].run = x1'[s].run => q = s
  <2> SUFFICES ASSUME NEW q \in RecallProcess, NEW s \in RecallProcess,
                      x1'[q].at # "away", x1'[s].at # "away", x1'[q].run = x1'[s].run
               PROVE  q = s
    OBVIOUS
  <2>1. x1[q].at # "away" /\ x1[s].at # "away" /\ x1[q].run = x1[s].run
    BY <1>2
  <2> QED BY <2>1 DEF NumberInv
<1> QED BY <1>4, <1>5, <1>6 DEF NumberInv

\* The next event of a run is written.
LEMMA TraceGrows ==
  ASSUME RecallTypes, TraceInv, NEW r \in RecallRun, Len(x3[r]) < 5, UNCHANGED x5,
         x3' = [x3 EXCEPT ![r] = Append(@, Trace(r, Len(x3[r]) + 1))]
  PROVE  TraceInv' /\ x3' \in [RecallRun -> Seq(RecallEvent)] /\ Trace(r, Len(x3[r]) + 1) \in RecallEvent
<1> DEFINE n == Len(x3[r])  e == Trace(r, n + 1)
<1>1. x3[r] \in Seq(RecallEvent) /\ n \in Nat /\ DOMAIN x3[r] = 1 .. n
  BY LenProperties DEF RecallTypes
<1>2. e \in RecallEvent
  BY DEF Trace, RecallEvent
<1>3. /\ x3'[r] = Append(x3[r], e) /\ x3' \in [RecallRun -> Seq(RecallEvent)]
      /\ \A s \in RecallRun \ {r} : x3'[s] = x3[s]
  BY <1>1, <1>2 DEF RecallTypes
<1>4. /\ Len(x3'[r]) = n + 1 /\ DOMAIN x3'[r] = 1 .. (n + 1)
      /\ \A i \in 1 .. n : x3'[r][i] = x3[r][i]
      /\ x3'[r][n + 1] = e
  <2>1. Append(x3[r], e) \in Seq(RecallEvent) /\ Len(Append(x3[r], e)) = n + 1
    BY <1>1, <1>2, AppendProperties
  <2>2. \A i \in 1 .. n : Append(x3[r], e)[i] = x3[r][i]
    BY <1>1, <1>2, AppendProperties
  <2>3. Append(x3[r], e)[n + 1] = e /\ DOMAIN Append(x3[r], e) = 1 .. (n + 1)
    BY <1>1, <1>2, <2>1, AppendProperties, LenProperties
  <2> QED BY <1>3, <2>1, <2>2, <2>3
<1>5. ASSUME NEW s \in RecallRun
      PROVE  /\ Len(x3'[s]) <= 5
             /\ \A i \in DOMAIN x3'[s] : (i = 3 /\ s \in x5) \/ x3'[s][i] = Trace(s, i)
             /\ s \in x5 => Len(x3'[s]) >= 3 /\ x3'[s][3] \in Forgery
  <2>1. CASE s = r
    <3>1. \A i \in 1 .. (n + 1) : i \in 1 .. n \/ i = n + 1
      BY <1>1
    <3>2. \A i \in 1 .. n : (i = 3 /\ r \in x5) \/ x3'[r][i] = Trace(r, i)
      BY <1>1, <1>4 DEF TraceInv
    <3>3. r \in x5 => n >= 3 /\ x3'[r][3] \in Forgery
      BY <1>1, <1>4 DEF TraceInv
    <3>4. n + 1 <= 5 /\ (n >= 3 => n + 1 >= 3)
      BY <1>1
    <3> QED BY <1>4, <2>1, <3>1, <3>2, <3>3, <3>4
  <2>2. CASE s # r
    BY <1>3, <2>2 DEF TraceInv
  <2> QED BY <2>1, <2>2
<1> QED BY <1>2, <1>3, <1>5 DEF TraceInv
\* The module counts as FiniteSets does.
LEMMA RecallCounted == \A S : Recall!Cardinality(S) = Cardinality(S)
<1> SUFFICES ASSUME NEW S PROVE Recall!Cardinality(S) = Cardinality(S)
  OBVIOUS
<1> QED BY DEF Recall!Cardinality, Cardinality

\* A process starts the next run.
LEMMA RecallBegins == ASSUME RecallInv, NEW p \in RecallProcess, Recall!Begin(p) PROVE RecallInv'
<1>1. PICK n \in 0 .. RecallRuns : NumberInv(n)
  BY DEF RecallInv
<1>2. n \in Nat /\ RecallRuns \in Nat
  BY <1>1, BoundsAssumption
<1>3. Recall!Cardinality(Recall!Started) = n
  <2>1. Recall!Started = 1 .. n
    BY <1>1, <1>2 DEF Recall!Started, Recall!Run, NumberInv, RecallRun
  <2> QED BY <1>2, <2>1, FS_Interval, RecallCounted
<1>4. /\ x1[p].at = "away" /\ n < RecallRuns /\ UNCHANGED <<x2, x4, x5>>
      /\ x1' = [x1 EXCEPT ![p] = [at |-> "read_winner", run |-> n + 1]]
      /\ x3' = [x3 EXCEPT ![n + 1] = <<Message>>]
  <2>1. n < RecallRuns
    BY <1>2, <1>3 DEF Recall!Begin
  <2>2. x1[p].at = "away" /\ UNCHANGED <<x2, x4, x5>>
    BY DEF Recall!Begin, Recall!At
  <2>3. x1' = [x1 EXCEPT ![p] = [at |-> "read_winner", run |-> n + 1]]
    BY <1>3 DEF Recall!Begin
  <2>4. x3' = [x3 EXCEPT ![n + 1] = <<[type |-> "message"]>>]
    BY <1>3 DEF Recall!Begin
  <2> QED BY <2>1, <2>2, <2>3, <2>4 DEF Message
<1>5. n + 1 \in RecallRun /\ n + 1 \in 0 .. RecallRuns
  BY <1>2, <1>4 DEF RecallRun
<1>6. x3[n + 1] = <<>>
  BY <1>1, <1>2, <1>5 DEF NumberInv
<1>7. /\ <<Message>> \in Seq(RecallEvent) /\ <<Message>> # <<>> /\ Len(<<Message>>) = 1
      /\ DOMAIN <<Message>> = {1} /\ <<Message>>[1] = Message /\ EventsAt("read_winner") = 1
  BY DEF RecallEvent, EventsAt
<1>8. RecallTypes' /\ (\A s \in RecallRun \ {n + 1} : x3'[s] = x3[s]) /\ x3'[n + 1] = <<Message>>
  BY <1>2, <1>4, <1>5, <1>7 DEF RecallInv, RecallTypes, RecallPlaces
<1>9. n + 1 \notin x5
  <2>1. Len(x3[n + 1]) = 0
    BY <1>6
  <2> QED BY <1>5, <2>1 DEF RecallInv, TraceInv
<1>10. TraceInv'
  <2> SUFFICES ASSUME NEW s \in RecallRun
               PROVE  /\ Len(x3'[s]) <= 5
                      /\ \A i \in DOMAIN x3'[s] : (i = 3 /\ s \in x5) \/ x3'[s][i] = Trace(s, i)
                      /\ s \in x5 => Len(x3'[s]) >= 3 /\ x3'[s][3] \in Forgery
    BY <1>4 DEF TraceInv
  <2>1. CASE s = n + 1
    <3>1. Trace(s, 1) = Message
      BY DEF Trace
    <3>2. \A i \in DOMAIN x3'[s] : x3'[s][i] = Trace(s, i)
      BY <1>7, <1>8, <2>1, <3>1
    <3>3. Len(x3'[s]) = 1 /\ s \notin x5
      BY <1>7, <1>8, <1>9, <2>1
    <3> QED BY <3>2, <3>3
  <2>2. CASE s # n + 1
    BY <1>8, <2>2 DEF RecallInv, TraceInv
  <2> QED BY <2>1, <2>2
<1>11. /\ x1'[p] = [at |-> "read_winner", run |-> n + 1]
       /\ \A q \in RecallProcess \ {p} : x1'[q] = x1[q]
  BY <1>4 DEF RecallInv, RecallTypes
<1>12. StoreInv'
  <2>1. x1'[p].at = "read_winner"
    BY <1>11
  <2> QED BY <1>4, <1>11, <2>1 DEF RecallInv, StoreInv, Kept
<1>13. NumberInv(n + 1)'
  <2>1. \A s \in RecallRun : x3'[s] # <<>> <=> s <= n + 1
    BY <1>1, <1>2, <1>7, <1>8 DEF NumberInv, RecallRun
  <2>2. x1'[p].at = "read_winner" /\ x1'[p].run = n + 1
    BY <1>11
  <2>3. \A q \in RecallProcess \ {p} : x1'[q].at # "away" =>
          x1'[q].run \in 1 .. n /\ Len(x3[x1'[q].run]) = EventsAt(x1'[q].at)
    BY <1>1, <1>11 DEF NumberInv
  <2>4. \A q \in RecallProcess : x1'[q].at # "away" =>
          x1'[q].run \in 1 .. (n + 1) /\ Len(x3'[x1'[q].run]) = EventsAt(x1'[q].at)
    <3>1. \A k \in 1 .. n : k \in 1 .. (n + 1) /\ k \in RecallRun \ {n + 1}
      BY <1>2, <1>4 DEF RecallRun
    <3>2. n + 1 \in 1 .. (n + 1) /\ Len(x3'[n + 1]) = EventsAt("read_winner")
      BY <1>2, <1>7, <1>8
    <3>3. \A q \in RecallProcess \ {p} : x1'[q].at # "away" =>
            x1'[q].run \in 1 .. (n + 1) /\ Len(x3'[x1'[q].run]) = EventsAt(x1'[q].at)
      BY <1>8, <2>3, <3>1
    <3> QED BY <2>2, <3>2, <3>3
  <2>5. \A q \in RecallProcess \ {p} : x1'[q].run # n + 1 \/ x1'[q].at = "away"
    BY <1>2, <2>3
  <2>6. \A q, t \in RecallProcess :
          x1'[q].at # "away" /\ x1'[t].at # "away" /\ x1'[q].run = x1'[t].run => q = t
    BY <1>1, <1>11, <2>2, <2>5 DEF NumberInv
  <2> QED BY <2>1, <2>4, <2>6 DEF NumberInv
<1>14. ReportInv'
  BY <1>4 DEF RecallInv, ReportInv
<1> QED BY <1>5, <1>8, <1>10, <1>12, <1>13, <1>14 DEF RecallInv

\* A store that has only got a fact under a new ID keeps what processes know of it.
LEMMA StoreKept ==
  ASSUME RecallTypes, StoreInv, NEW p \in RecallProcess, NEW at \in RecallPlaces,
         x1' = [x1 EXCEPT ![p].at = at],
         \/ UNCHANGED x2
         \/ \E f \in {m3, m4} : ~ Recall!Stored(f) /\ x2' = Append(x2, [id |-> f, content |-> f]),
         at \in {"read_loser", "add_loser", "recall", "select", "tool", "complete", "check"} => Kept(m3)',
         at \in {"recall", "select", "tool", "complete", "check"} => Kept(m4)',
         at = "collision" => \E i \in DOMAIN x2 : x2[i].content # x2[i].id
  PROVE  StoreInv' /\ x2' \in Seq([id : {m3, m4}, content : {m3, m4, Garbage}])
<1> DEFINE Record == [id : {m3, m4}, content : {m3, m4, Garbage}]
<1>1. x2 \in Seq(Record) /\ DOMAIN x2 = 1 .. Len(x2) /\ Len(x2) \in Nat
  BY LenProperties DEF RecallTypes
<1>2. /\ x2' \in Seq(Record)
      /\ \A i \in DOMAIN x2 : i \in DOMAIN x2' /\ x2'[i] = x2[i]
      /\ \A i, j \in DOMAIN x2' : x2'[i].id = x2'[j].id => i = j
  <2>1. CASE UNCHANGED x2
    BY <1>1, <2>1 DEF StoreInv
  <2>2. CASE \E f \in {m3, m4} : ~ Recall!Stored(f) /\ x2' = Append(x2, [id |-> f, content |-> f])
    <3>1. PICK f \in {m3, m4} : ~ Recall!Stored(f) /\ x2' = Append(x2, [id |-> f, content |-> f])
      BY <2>2
    <3> DEFINE new == [id |-> f, content |-> f]
    <3>2. new \in Record /\ new.id = f
      OBVIOUS
    <3>3. /\ Append(x2, new) \in Seq(Record) /\ Len(Append(x2, new)) = Len(x2) + 1
          /\ \A i \in 1 .. Len(x2) : Append(x2, new)[i] = x2[i]
          /\ Append(x2, new)[Len(x2) + 1] = new
      BY <1>1, <3>2, AppendProperties
    <3>4. DOMAIN x2' = 1 .. (Len(x2) + 1)
      BY <3>1, <3>3, LenProperties
    <3>5. \A i \in DOMAIN x2 : x2[i].id # f
      BY <3>1 DEF Recall!Stored
    <3>6. \A i \in DOMAIN x2' : i \in DOMAIN x2 \/ i = Len(x2) + 1
      BY <1>1, <3>4
    <3>7. (\A i \in DOMAIN x2 : x2'[i] = x2[i]) /\ x2'[Len(x2) + 1].id = f
      <4> DEFINE longer == Append(x2, new)
      <4>1. x2' = longer /\ \A i \in 1 .. Len(x2) : longer[i] = x2[i]
        BY <3>1, <3>3
      <4>2. longer[Len(x2) + 1] = new
        BY <3>3
      <4> HIDE DEF longer, new
      <4>3. \A i \in DOMAIN x2 : x2'[i] = x2[i]
        BY <1>1, <4>1
      <4>4. x2'[Len(x2) + 1].id = f
        BY <3>2, <4>1, <4>2
      <4> QED BY <4>3, <4>4
    <3>8. \A i, j \in DOMAIN x2' : x2'[i].id = x2'[j].id => i = j
      BY <3>5, <3>6, <3>7 DEF StoreInv
    <3>9. \A i \in DOMAIN x2 : i \in DOMAIN x2'
      BY <1>1, <3>4
    <3>10. x2' \in Seq(Record)
      BY <3>1, <3>3
    <3> QED BY <3>7, <3>8, <3>9, <3>10
  <2> QED BY <2>1, <2>2
<1>3. \A f \in {m3, m4} : Kept(f) => Kept(f)'
  BY <1>2 DEF Kept, Has
<1>4. (\E i \in DOMAIN x2 : x2[i].content # x2[i].id) => \E i \in DOMAIN x2' : x2'[i].content # x2'[i].id
  BY <1>2
<1>5. x1'[p].at = at /\ \A q \in RecallProcess \ {p} : x1'[q] = x1[q]
  BY DEF RecallTypes
<1>6. ASSUME NEW q \in RecallProcess
      PROVE  /\ x1'[q].at \in {"read_loser", "add_loser", "recall", "select", "tool", "complete", "check"} => Kept(m3)'
             /\ x1'[q].at \in {"recall", "select", "tool", "complete", "check"} => Kept(m4)'
             /\ x1'[q].at = "collision" => \E i \in DOMAIN x2' : x2'[i].content # x2'[i].id
  <2>1. CASE q = p
    BY <1>4, <1>5, <2>1
  <2>2. CASE q # p
    BY <1>3, <1>4, <1>5, <2>2 DEF StoreInv
  <2> QED BY <2>1, <2>2
<1> QED BY <1>2, <1>6 DEF StoreInv

\* What a process finds under the ID of a fact is the fact, or the two collide.
LEMMA RecallAccepts ==
  ASSUME RecallTypes, NEW f \in {m3, m4}, Recall!Stored(f)
  PROVE  IF Recall!Genuine(f) THEN Kept(f) ELSE \E i \in DOMAIN x2 : x2[i].content # x2[i].id
<1>1. \A i \in DOMAIN x2 : x2[i] \in [id : {m3, m4}, content : {m3, m4, Garbage}]
  <2>1. x2 \in Seq([id : {m3, m4}, content : {m3, m4, Garbage}])
    BY DEF RecallTypes
  <2> QED BY <2>1, ElementOfSeq, LenProperties
<1>2. PICK i \in DOMAIN x2 : x2[i].id = f
  BY DEF Recall!Stored
<1>3. CASE Recall!Genuine(f)
  <2>1. x2[i] = [id |-> f, content |-> f]
    BY <1>1, <1>2, <1>3 DEF Recall!Genuine
  <2> QED BY <1>3, <2>1 DEF Kept, Has
<1>4. CASE ~ Recall!Genuine(f)
  BY <1>2, <1>4 DEF Recall!Genuine
<1> QED BY <1>3, <1>4

\* A process that looks for a fact or stores it.
LEMMA RecallStores ==
  ASSUME RecallInv, NEW p \in RecallProcess, Recall!ReadFact(p) \/ Recall!AddFact(p)
  PROVE  RecallInv'
<1>1. PICK n \in 0 .. RecallRuns : NumberInv(n)
  BY DEF RecallInv
<1>2. PICK f \in {m3, m4} :
         \/ f = m3 /\ x1[p].at \in {"read_winner", "add_winner"}
         \/ f = m4 /\ x1[p].at \in {"read_loser", "add_loser"}
  BY DEF Recall!ReadFact, Recall!AddFact, Recall!Reading, Recall!Adding
<1>3. PICK at \in RecallPlaces :
         /\ x1' = [x1 EXCEPT ![p].at = at] /\ UNCHANGED <<x3, x4, x5>>
         /\ \/ UNCHANGED x2 /\ Recall!Stored(f) /\ Recall!Genuine(f) /\ at = Recall!After(f)
            \/ UNCHANGED x2 /\ Recall!Stored(f) /\ ~ Recall!Genuine(f) /\ at = "collision"
            \/ UNCHANGED x2 /\ at = IF f = m3 THEN "add_winner" ELSE "add_loser"
            \/ /\ ~ Recall!Stored(f) /\ x2' = Append(x2, [id |-> f, content |-> f])
               /\ at = Recall!After(f)
  <2>1. Recall!After(f) \in RecallPlaces /\ "collision" \in RecallPlaces
        /\ (IF f = m3 THEN "add_winner" ELSE "add_loser") \in RecallPlaces
    BY DEF Recall!After, RecallPlaces
  <2>2. CASE Recall!ReadFact(p)
    <3>1. Recall!Reading[x1[p].at] = f
      BY <1>2, <2>2 DEF Recall!ReadFact, Recall!Reading
    <3> QED BY <2>1, <2>2, <3>1 DEF Recall!ReadFact, Recall!Accept, Recall!Goto
  <2>3. CASE Recall!AddFact(p)
    <3>1. Recall!Adding[x1[p].at] = f
      BY <1>2, <2>3 DEF Recall!AddFact, Recall!Adding
    <3> QED BY <2>1, <2>3, <3>1 DEF Recall!AddFact, Recall!Accept, Recall!Goto
  <2> QED BY <2>2, <2>3
<1>4. m3 # m4 /\ Recall!After(f) = (IF f = m3 THEN "read_loser" ELSE "recall")
  BY FactsAssumption DEF Recall!After
<1>5. Kept(m3) \/ f = m3
  BY <1>2 DEF RecallInv, StoreInv
<1>6. at = Recall!After(f) => Kept(f)'
  <2>1. CASE UNCHANGED x2 /\ Recall!Stored(f) /\ Recall!Genuine(f)
    BY <2>1, RecallAccepts DEF RecallInv, Kept
  <2>2. CASE x2' = Append(x2, [id |-> f, content |-> f])
    <3>1. x2 \in Seq([id : {m3, m4}, content : {m3, m4, Garbage}])
      BY DEF RecallInv, RecallTypes
    <3>2. Append(x2, [id |-> f, content |-> f])[Len(x2) + 1] = [id |-> f, content |-> f]
          /\ Len(x2) + 1 \in DOMAIN Append(x2, [id |-> f, content |-> f])
      BY <3>1, AppendProperties, LenProperties
    <3> QED BY <2>2, <3>2 DEF Kept, Has
  <2>3. CASE at = "collision" \/ at = IF f = m3 THEN "add_winner" ELSE "add_loser"
    BY <1>4, <2>3
  <2> QED BY <1>3, <2>1, <2>2, <2>3
<1>7. Kept(m3) => Kept(m3)'
  <2>1. CASE UNCHANGED x2
    BY <2>1 DEF Kept
  <2>2. CASE x2' = Append(x2, [id |-> f, content |-> f])
    <3>1. x2 \in Seq([id : {m3, m4}, content : {m3, m4, Garbage}])
      BY DEF RecallInv, RecallTypes
    <3>2. \A i \in DOMAIN x2 : /\ Append(x2, [id |-> f, content |-> f])[i] = x2[i]
                               /\ i \in DOMAIN Append(x2, [id |-> f, content |-> f])
      BY <3>1, AppendProperties, LenProperties
    <3> QED BY <2>2, <3>2 DEF Kept, Has
  <2> QED BY <1>3, <2>1, <2>2
<1>8. /\ at \in {"read_loser", "add_loser", "recall", "select", "tool", "complete", "check"} => Kept(m3)'
      /\ at \in {"recall", "select", "tool", "complete", "check"} => Kept(m4)'
  BY <1>3, <1>4, <1>5, <1>6, <1>7
<1>9. at = "collision" => \E i \in DOMAIN x2 : x2[i].content # x2[i].id
  BY <1>3, <1>4, RecallAccepts DEF RecallInv
<1>10. \/ UNCHANGED x2
       \/ \E g \in {m3, m4} : ~ Recall!Stored(g) /\ x2' = Append(x2, [id |-> g, content |-> g])
  BY <1>3
<1>11. StoreInv' /\ x2' \in Seq([id : {m3, m4}, content : {m3, m4, Garbage}])
  BY <1>3, <1>8, <1>9, <1>10, StoreKept DEF RecallInv
<1>12. NumberInv(n)'
  <2>1. x1[p].at # "away" /\ EventsAt(at) = EventsAt(x1[p].at)
    BY <1>2, <1>3, <1>4 DEF EventsAt
  <2> QED BY <1>1, <1>3, <2>1, PlaceKept DEF RecallInv
<1>13. RecallTypes'
  BY <1>3, <1>11 DEF RecallInv, RecallTypes
<1>14. TraceInv' /\ ReportInv'
  BY <1>3 DEF RecallInv, TraceInv, ReportInv
<1> QED BY <1>11, <1>12, <1>13, <1>14 DEF RecallInv

\* A process writes the next event of its run.
LEMMA RecallWrites ==
  ASSUME RecallInv, NEW p \in RecallProcess,
         Recall!Recall(p) \/ Recall!Select(p) \/ Recall!CallTool(p) \/ Recall!Complete(p)
  PROVE  RecallInv'
<1> DEFINE r == x1[p].run
<1>1. PICK n \in 0 .. RecallRuns : NumberInv(n)
  BY DEF RecallInv
<1>2. x1[p].at \in {"recall", "select", "tool", "complete"}
  BY DEF Recall!Recall, Recall!Select, Recall!CallTool, Recall!Complete, Recall!At
<1>3. r \in RecallRun /\ Len(x3[r]) = EventsAt(x1[p].at)
  BY <1>1, <1>2, BoundsAssumption DEF NumberInv, RecallRun
<1>4. Kept(m3) /\ Kept(m4)
  BY <1>2 DEF RecallInv, StoreInv
<1>5. UNCHANGED <<x2, x4, x5>>
  BY DEF Recall!Recall, Recall!Select, Recall!CallTool, Recall!Complete
<1>6. PICK at \in RecallPlaces :
         /\ at \in {"select", "tool", "complete", "check"} /\ EventsAt(at) = EventsAt(x1[p].at) + 1
         /\ x1' = [x1 EXCEPT ![p].at = at]
         /\ x3' = [x3 EXCEPT ![r] = Append(@, Trace(r, EventsAt(at)))]
  <2>1. CASE Recall!Recall(p)
    <3>1. {Recall!Hit(x2[i]) : i \in DOMAIN x2} = {FactHit(m3), FactHit(m4)}
      BY <1>4, BothFound DEF RecallInv
    <3>2. x3' = [x3 EXCEPT ![r] = Append(@, Found(r))]
      BY <2>1, <3>1 DEF Recall!Recall, Recall!Write, Found
    <3>3. x1[p].at = "recall" /\ x1' = [x1 EXCEPT ![p].at = "select"]
      BY <2>1 DEF Recall!Recall, Recall!At, Recall!Goto
    <3>4. Trace(r, EventsAt("select")) = Found(r) /\ EventsAt("select") = EventsAt("recall") + 1
      BY DEF Trace, EventsAt
    <3> QED BY <3>2, <3>3, <3>4 DEF RecallPlaces
  <2>2. CASE Recall!Select(p)
    <3>1. x1[p].at = "select" /\ x1' = [x1 EXCEPT ![p].at = "tool"]
      BY <2>2 DEF Recall!Select, Recall!At, Recall!Goto
    <3>2. Len(x3[r]) = 2
      BY <1>3, <3>1 DEF EventsAt
    <3>3. Recall!Latest(x3[r]) = Found(r)
      <4>1. DOMAIN x3[r] = 1 .. 2
        BY <1>3, <3>2, TraceTypes DEF RecallInv
      <4>2. x3[r][2] = Trace(r, 2)
        BY <1>3, <4>1 DEF RecallInv, TraceInv
      <4> QED BY <3>2, <4>2 DEF Recall!Latest, Trace
    <3>4. /\ Found(r).query = r /\ Found(r).hits = {FactHit(m3), FactHit(m4)}
          /\ Recall!Ids(Found(r).hits) = {m3, m4}
          /\ {m3, m4} \cap {m3} = {m3} /\ {m3, m4} \ {m3} = {m4}
          /\ {h \in Found(r).hits : h.id \in {m3}} = {FactHit(m3)}
      <4>1. Found(r).query = r /\ Found(r).hits = {FactHit(m3), FactHit(m4)}
        BY DEF Found
      <4>2. FactHit(m3).id = m3 /\ FactHit(m4).id = m4
        BY DEF FactHit
      <4>3. Recall!Ids(Found(r).hits) = {m3, m4}
        BY <4>1, <4>2 DEF Recall!Ids
      <4>4. {h \in Found(r).hits : h.id \in {m3}} = {FactHit(m3)}
        BY <4>1, <4>2, FactsAssumption
      <4> QED BY <4>1, <4>3, <4>4, FactsAssumption
    <3>5. x3' = [x3 EXCEPT ![r] = Append(@, Chosen(r))]
      BY <2>2, <3>3, <3>4 DEF Recall!Select, Recall!Write, Chosen
    <3>6. Trace(r, EventsAt("tool")) = Chosen(r) /\ EventsAt("tool") = EventsAt("select") + 1
      BY DEF Trace, EventsAt
    <3> QED BY <3>1, <3>5, <3>6 DEF RecallPlaces
  <2>3. CASE Recall!CallTool(p)
    <3>1. x1[p].at = "tool" /\ x1' = [x1 EXCEPT ![p].at = "complete"]
      BY <2>3 DEF Recall!CallTool, Recall!At, Recall!Goto
    <3>2. x3' = [x3 EXCEPT ![r] = Append(@, Result)]
      BY <2>3 DEF Recall!CallTool, Recall!Write, Result
    <3>3. Trace(r, EventsAt("complete")) = Result /\ EventsAt("complete") = EventsAt("tool") + 1
      BY DEF Trace, EventsAt
    <3> QED BY <3>1, <3>2, <3>3 DEF RecallPlaces
  <2>4. CASE Recall!Complete(p)
    <3>1. x1[p].at = "complete" /\ x1' = [x1 EXCEPT ![p].at = "check"]
      BY <2>4 DEF Recall!Complete, Recall!At, Recall!Goto
    <3>2. x3' = [x3 EXCEPT ![r] = Append(@, Message)]
      BY <2>4 DEF Recall!Complete, Recall!Write, Message
    <3>3. Trace(r, EventsAt("check")) = Message /\ EventsAt("check") = EventsAt("complete") + 1
      BY DEF Trace, EventsAt
    <3> QED BY <3>1, <3>2, <3>3 DEF RecallPlaces
  <2> QED BY <2>1, <2>2, <2>3, <2>4
<1>7. EventsAt(at) = Len(x3[r]) + 1 /\ Len(x3[r]) < 5
  BY <1>2, <1>3, <1>6 DEF EventsAt
<1>8. TraceInv' /\ x3' \in [RecallRun -> Seq(RecallEvent)] /\ Trace(r, EventsAt(at)) \in RecallEvent
  BY <1>3, <1>5, <1>6, <1>7, TraceGrows DEF RecallInv
<1>9. NumberInv(n)'
  BY <1>1, <1>2, <1>6, <1>8, PlaceKept DEF RecallInv
<1>10. StoreInv'
  <2>1. Kept(m3)' /\ Kept(m4)'
    BY <1>4, <1>5 DEF Kept
  <2> QED BY <1>5, <1>6, <2>1, StoreKept DEF RecallInv
<1>11. RecallTypes'
  BY <1>5, <1>6, <1>8 DEF RecallInv, RecallTypes
<1>12. ReportInv'
  BY <1>5 DEF RecallInv, ReportInv
<1> QED BY <1>8, <1>9, <1>10, <1>11, <1>12 DEF RecallInv

\* A process is done with its run, or dies in it.
LEMMA PlaceLeft ==
  ASSUME RecallInv, NEW p \in RecallProcess, x1' = [x1 EXCEPT ![p] = Recall!Away], UNCHANGED <<x2, x3>>
  PROVE  /\ StoreInv' /\ (\E n \in 0 .. RecallRuns : NumberInv(n)')
         /\ x1' \in [RecallProcess -> [at : RecallPlaces, run : Nat]]
<1>1. PICK n \in 0 .. RecallRuns : NumberInv(n)
  BY DEF RecallInv
<1>2. /\ x1' \in [RecallProcess -> [at : RecallPlaces, run : Nat]]
      /\ x1'[p].at = "away" /\ \A q \in RecallProcess \ {p} : x1'[q] = x1[q]
  BY DEF RecallInv, RecallTypes, RecallPlaces, Recall!Away
<1>3. NumberInv(n)'
  BY <1>1, <1>2 DEF NumberInv
<1>4. StoreInv'
  BY <1>2 DEF RecallInv, StoreInv, Kept
<1> QED BY <1>2, <1>3, <1>4

\* The report of a run nobody edited says that all is well.
LEMMA RecallChecks == ASSUME RecallInv, NEW p \in RecallProcess, Recall!Check(p) PROVE RecallInv'
<1> DEFINE r == x1[p].run
           report == [replayed |-> Recall!Types(x3[r]) =
                          <<"message", "recall", "selected", "tool_result", "message">>,
                      proof |-> /\ Recall!Selections(x3[r]) # {} /\ Recall!Replay(x3[r]) # None
                                /\ Recall!Ids(Recall!Replay(x3[r])) = {m3}
                                /\ Recall!Selection(x3[r]).rejected = {m4},
                      unique |-> \A f \in {m3, m4} : Recall!Cardinality({i \in DOMAIN x2 : x2[i].id = f}) = 1]
<1>1. x1[p].at = "check" /\ x1' = [x1 EXCEPT ![p] = Recall!Away] /\ UNCHANGED <<x2, x3, x5>>
  BY DEF Recall!Check, Recall!At
<1>2. x4' = [x4 EXCEPT ![r] = report]
  BY DEF Recall!Check, Recall!Fact
<1>3. /\ StoreInv' /\ (\E n \in 0 .. RecallRuns : NumberInv(n)')
      /\ x1' \in [RecallProcess -> [at : RecallPlaces, run : Nat]]
  BY <1>1, PlaceLeft
<1>4. r \in RecallRun /\ Len(x3[r]) = 5
  <2>1. PICK n \in 0 .. RecallRuns : NumberInv(n)
    BY DEF RecallInv
  <2>2. r \in 1 .. n /\ Len(x3[r]) = EventsAt("check") /\ EventsAt("check") = 5
    BY <1>1, <2>1 DEF NumberInv, EventsAt
  <2> QED BY <2>2, RunWithin
<1>5. Kept(m3) /\ Kept(m4)
  BY <1>1 DEF RecallInv, StoreInv
<1>6. ReportInv'
  <2> SUFFICES ASSUME NEW s \in RecallRun \ x5, x4'[s] # None
               PROVE  x4'[s].replayed /\ x4'[s].proof /\ x4'[s].unique
    BY <1>1 DEF ReportInv
  <2>1. CASE s = r
    <3>1. report.replayed
      BY <1>4, <2>1, RunProves DEF RecallInv
    <3>2. report.proof
      BY <1>4, <2>1, RunProves DEF RecallInv
    <3>3. report.unique
      BY <1>5, BothFound, RecallCounted DEF RecallInv
    <3>4. x4'[s] = report
      BY <1>2, <1>4, <2>1 DEF RecallInv, RecallTypes
    <3> HIDE DEF report
    <3> QED BY <3>1, <3>2, <3>3, <3>4
  <2>2. CASE s # r
    <3>1. x4'[s] = x4[s]
      BY <1>2, <2>2 DEF RecallInv, RecallTypes
    <3> QED BY <3>1 DEF RecallInv, ReportInv
  <2> QED BY <2>1, <2>2
<1>7. DOMAIN x4' = RecallRun
  BY <1>2 DEF RecallInv, RecallTypes
<1>8. RecallTypes' /\ TraceInv'
  BY <1>1, <1>3, <1>7 DEF RecallInv, RecallTypes, TraceInv
<1>9. \E n \in 0 .. RecallRuns : NumberInv(n)'
  BY <1>3
<1> QED BY <1>3, <1>6, <1>8, <1>9 DEF RecallInv

\* Somebody edits the selection a transcript ends with.
LEMMA RecallTampered == ASSUME RecallInv, NEW r \in RecallRun, Recall!Tamper(r) PROVE RecallInv'
<1>1. /\ r \notin x5 /\ x5' = x5 \cup {r} /\ UNCHANGED <<x1, x2, x4>>
      /\ x3[r] # <<>> /\ Recall!Latest(x3[r]).type = "selected"
  BY DEF Recall!Tamper
<1>2. x3[r] \in Seq(RecallEvent) /\ DOMAIN x3[r] = 1 .. Len(x3[r]) /\ Len(x3[r]) \in Nat /\ Len(x3[r]) <= 5
  BY TraceTypes DEF RecallInv, RecallTypes
<1>3. Len(x3[r]) = 3 /\ x3[r][3] = Chosen(r)
  <2>1. Len(x3[r]) \in DOMAIN x3[r]
    BY <1>1, <1>2, EmptySeq
  <2>2. x3[r][Len(x3[r])] = Trace(r, Len(x3[r]))
    BY <1>1, <2>1 DEF RecallInv, TraceInv
  <2>3. Trace(r, Len(x3[r])).type = "selected"
    BY <1>1, <2>2 DEF Recall!Latest
  <2>4. Len(x3[r]) = 3
    BY <2>3 DEF Trace, Found, Result, Message
  <2> QED BY <2>2, <2>4 DEF Trace
<1>4. PICK e \in Forgery : x3' = [x3 EXCEPT ![r][3] = e]
  <2>1. PICK selected \in SUBSET {m3, m4}, query \in RecallRun,
             evidence \in SUBSET [id : {m3, m4}, source : {<<"source", m3>>, <<"source", Garbage>>}] :
          x3' = [x3 EXCEPT ![r][Len(x3[r])] =
                   [@ EXCEPT !.selected = selected, !.evidence = evidence, !.query = query]]
    <3> DEFINE forged == [id : Recall!Fact, source : {Recall!Source(m3), Recall!Source(Garbage)}]
    <3>1. PICK selected \in SUBSET Recall!Fact, evidence \in SUBSET forged, query \in Recall!Run :
            x3' = [x3 EXCEPT ![r][Len(x3[r])] =
                     [@ EXCEPT !.selected = selected, !.evidence = evidence, !.query = query]]
      BY ZenonT(30) DEF Recall!Tamper
    <3>2. Recall!Fact = {m3, m4} /\ Recall!Run = RecallRun
      BY DEF Recall!Fact, Recall!Run, RecallRun
    <3>3. Recall!Source(m3) = <<"source", m3>> /\ Recall!Source(Garbage) = <<"source", Garbage>>
      BY DEF Recall!Source
    <3>4. evidence \in SUBSET [id : {m3, m4}, source : {<<"source", m3>>, <<"source", Garbage>>}]
      BY <3>2, <3>3
    <3>5. selected \in SUBSET {m3, m4} /\ query \in RecallRun
      BY <3>2
    <3>6. x3' = [x3 EXCEPT ![r][Len(x3[r])] =
                   [@ EXCEPT !.selected = selected, !.evidence = evidence, !.query = query]]
      BY <3>1
    <3> HIDE DEF forged
    <3> QED BY <3>4, <3>5, <3>6, ZenonT(30)
  <2> DEFINE e == [Chosen(r) EXCEPT !.selected = selected, !.evidence = evidence, !.query = query]
  <2>2. evidence \in SUBSET RecallHits
    BY DEF RecallHits
  <2>3. Chosen(r) \in Forgery
    BY DEF Chosen, Forgery, FactHit, RecallHits
  <2>4. e \in Forgery
    BY <2>2, <2>3 DEF Forgery
  <2>5. x3' = [x3 EXCEPT ![r][3] = e]
    BY <1>3, <2>1
  <2> QED BY <2>4, <2>5
<1>5. /\ x3'[r] = [x3[r] EXCEPT ![3] = e]
      /\ \A s \in RecallRun \ {r} : x3'[s] = x3[s]
  BY <1>4 DEF RecallInv, RecallTypes
<1>6. /\ x3'[r] \in Seq(RecallEvent) /\ Len(x3'[r]) = 3 /\ DOMAIN x3'[r] = 1 .. 3 /\ x3'[r] # <<>>
      /\ x3'[r][3] = e /\ \A i \in 1 .. 3 : i # 3 => x3'[r][i] = x3[r][i]
  <2>1. e \in RecallEvent
    BY DEF RecallEvent
  <2> QED BY <1>2, <1>3, <1>5, <2>1, ExceptSeq
<1>7. x3' \in [RecallRun -> Seq(RecallEvent)]
  BY <1>4, <1>5, <1>6 DEF RecallInv, RecallTypes
<1>8. RecallTypes'
  BY <1>1, <1>7 DEF RecallInv, RecallTypes
<1>9. TraceInv'
  <2> SUFFICES ASSUME NEW s \in RecallRun
               PROVE  /\ Len(x3'[s]) <= 5
                      /\ \A i \in DOMAIN x3'[s] : (i = 3 /\ s \in x5') \/ x3'[s][i] = Trace(s, i)
                      /\ s \in x5' => Len(x3'[s]) >= 3 /\ x3'[s][3] \in Forgery
    BY DEF TraceInv
  <2>1. CASE s = r
    <3>1. \A i \in 1 .. 3 : i # 3 => x3[r][i] = Trace(r, i)
      BY <1>2, <1>3 DEF RecallInv, TraceInv
    <3>2. \A i \in DOMAIN x3'[s] : i # 3 => x3'[s][i] = Trace(s, i)
      BY <1>6, <2>1, <3>1
    <3>3. s \in x5' /\ Len(x3'[s]) = 3 /\ x3'[s][3] \in Forgery
      BY <1>1, <1>4, <1>6, <2>1
    <3> QED BY <3>2, <3>3
  <2>2. CASE s # r
    BY <1>1, <1>5, <2>2 DEF RecallInv, TraceInv
  <2> QED BY <2>1, <2>2
<1>10. PICK n \in 0 .. RecallRuns : NumberInv(n)
  BY DEF RecallInv
<1>11. NumberInv(n)'
  <2>1. \A s \in RecallRun : Len(x3'[s]) = Len(x3[s]) /\ (x3'[s] # <<>> <=> x3[s] # <<>>)
    BY <1>1, <1>3, <1>5, <1>6
  <2>2. \A q \in RecallProcess : x1[q].at # "away" => x1[q].run \in RecallRun
    <3>1. \A q \in RecallProcess : x1[q].at # "away" => x1[q].run \in 1 .. n
      BY <1>10 DEF NumberInv
    <3> QED BY <3>1, RunWithin
  <2> QED BY <1>1, <1>10, <2>1, <2>2 DEF NumberInv
<1>12. StoreInv' /\ ReportInv'
  BY <1>1 DEF RecallInv, StoreInv, Kept, ReportInv
<1> QED BY <1>8, <1>9, <1>11, <1>12 DEF RecallInv

\* Every step of the harness keeps all of it.
LEMMA RecallNext == ASSUME RecallInv, Recall!Next PROVE RecallInv'
<1>1. ASSUME NEW p \in RecallProcess, Recall!Die(p) PROVE RecallInv'
  <2>1. x1' = [x1 EXCEPT ![p] = Recall!Away] /\ UNCHANGED <<x2, x3, x4, x5>>
    BY <1>1 DEF Recall!Die
  <2>2. /\ StoreInv' /\ (\E n \in 0 .. RecallRuns : NumberInv(n)')
        /\ x1' \in [RecallProcess -> [at : RecallPlaces, run : Nat]]
    BY <2>1, PlaceLeft
  <2>3. RecallTypes' /\ TraceInv' /\ ReportInv'
    BY <2>1, <2>2 DEF RecallInv, RecallTypes, TraceInv, ReportInv
  <2>4. \E n \in 0 .. RecallRuns : NumberInv(n)'
    BY <2>2
  <2> QED BY <2>2, <2>3, <2>4 DEF RecallInv
<1>2. ASSUME NEW r \in Recall!Run, Recall!Tamper(r) PROVE RecallInv'
  BY <1>2, RecallTampered DEF Recall!Run, RecallRun
<1> QED BY <1>1, <1>2, RecallBegins, RecallStores, RecallWrites, RecallChecks DEF Recall!Next

\* No run has started, and the store may have the first fact's ID.
LEMMA RecallStart == Recall!Init => RecallInv
<1> SUFFICES ASSUME Recall!Init PROVE RecallInv
  OBVIOUS
<1> DEFINE Record == [id : {m3, m4}, content : {m3, m4, Garbage}]
<1>1. /\ x1 = [p \in RecallProcess |-> [at |-> "away", run |-> 0]]
      /\ x3 = [r \in RecallRun |-> <<>>] /\ x4 = [r \in RecallRun |-> None] /\ x5 = {}
      /\ x2 = <<>> \/ \E c \in {m3, Garbage} : x2 = <<[id |-> m3, content |-> c]>>
  BY DEF Recall!Init, Recall!Away, Recall!Run, RecallRun
<1>2. x2 \in Seq(Record) /\ \A i, j \in DOMAIN x2 : i = j
  <2>1. CASE x2 = <<>>
    BY <2>1
  <2>2. CASE \E c \in {m3, Garbage} : x2 = <<[id |-> m3, content |-> c]>>
    <3>1. PICK c \in {m3, Garbage} : x2 = <<[id |-> m3, content |-> c]>>
      BY <2>2
    <3>2. [id |-> m3, content |-> c] \in Record
      OBVIOUS
    <3> QED BY <3>1, <3>2
  <2> QED BY <1>1, <2>1, <2>2
<1>3. RecallTypes
  BY <1>1, <1>2 DEF RecallTypes, RecallPlaces
<1>4. TraceInv /\ ReportInv /\ StoreInv
  BY <1>1, <1>2 DEF TraceInv, ReportInv, StoreInv
<1>5. NumberInv(0)
  BY <1>1 DEF NumberInv, RecallRun
<1>6. 0 \in 0 .. RecallRuns
  BY BoundsAssumption
<1> QED BY <1>3, <1>4, <1>5, <1>6 DEF RecallInv

\* A step that changes nothing keeps it.
LEMMA RecallFrame == ASSUME RecallInv, UNCHANGED <<x1, x2, x3, x4, x5>> PROVE RecallInv'
<1>1. PICK n \in 0 .. RecallRuns : NumberInv(n)
  BY DEF RecallInv
<1>2. NumberInv(n)'
  BY <1>1 DEF NumberInv
<1>3. RecallTypes' /\ TraceInv' /\ StoreInv' /\ ReportInv'
  BY DEF RecallInv, RecallTypes, TraceInv, StoreInv, Kept, ReportInv
<1> QED BY <1>2, <1>3 DEF RecallInv

\* Facts are stored once, reports are good, and only a collision gives up.
LEMMA RecallConverges == RecallInv => Recall!RetriesConverge
<1> SUFFICES ASSUME RecallInv PROVE Recall!RetriesConverge
  OBVIOUS
<1>1. \A i, j \in DOMAIN x2 : x2[i].id = x2[j].id => i = j
  BY DEF RecallInv, StoreInv
<1>2. \A r \in Recall!Run \ x5 : x4[r] # None => x4[r].replayed /\ x4[r].proof /\ x4[r].unique
  BY DEF RecallInv, ReportInv, Recall!Run, RecallRun
<1>3. ASSUME NEW p \in RecallProcess, Recall!At(p, "collision")
      PROVE  ~ Recall!Genuine(m3) \/ ~ Recall!Genuine(m4)
  <2>1. PICK i \in DOMAIN x2 : x2[i].content # x2[i].id
    BY <1>3 DEF RecallInv, StoreInv, Recall!At
  <2>2. x2 \in Seq([id : {m3, m4}, content : {m3, m4, Garbage}])
    BY DEF RecallInv, RecallTypes
  <2>3. x2[i] \in [id : {m3, m4}, content : {m3, m4, Garbage}]
    BY <2>2, ElementOfSeq, LenProperties
  <2> QED BY <2>1, <2>3 DEF Recall!Genuine
<1> QED BY <1>1, <1>2, <1>3 DEF Recall!RetriesConverge

-----------------------------------------------------------------------------
(* Where the log, the sandbox, the tools, the skills and the connectors    *)
(* start, and what a step that changes nothing keeps                       *)

LEMMA LogStart == Log!Init => LogInv
  BY EmptySeq DEF Log!Init, LogInv

LEMMA LogFrame == LogInv /\ UNCHANGED <<x1, x2, x3, x4>> => LogInv'
  BY DEF LogInv, Log!Events, Log!Whole

LEMMA SandboxStart == Sandbox!Init => SandboxInv
<1> SUFFICES ASSUME Sandbox!Init PROVE SandboxInv
  OBVIOUS
<1>1. /\ x1 = "ready" /\ x3 = <<>> /\ x4 = None /\ x5 = {} /\ x7 = 0 /\ x8 = FALSE /\ x2.n = 0
      /\ x3 \in Seq(AnyLine)
  BY EmptySeq DEF Sandbox!Init
<1>2. {c \in x5 : Lost(c)} = {}
  BY <1>1
<1>3. LostCount = 0
  BY <1>2, FS_EmptySet DEF LostCount
<1>4. ~ Owes /\ ~ Sandbox!WholeTail /\ ~ Sandbox!Unended
  BY <1>1, LastLine DEF Owes
<1>5. LostInv
  BY <1>1, <1>3, <1>4 DEF LostInv
<1>6. TailInv
  BY <1>1, <1>4 DEF TailInv
<1>7. ChainInv
  BY <1>1, EmptySeq DEF ChainInv
<1>8. IsFiniteSet(x5) /\ \A c \in x5 : Permitted(c) /\ c.n \in Nat
  BY <1>1, FS_EmptySet
<1>9. x1 \notin {"attempt", "attempt_anchor", "execute"} /\ x8 \in BOOLEAN
  BY <1>1
<1> QED BY <1>1, <1>5, <1>6, <1>7, <1>8, <1>9 DEF SandboxInv

LEMMA SandboxStays == ASSUME SandboxInv, UNCHANGED <<x1, x2, x3, x4, x5, x7, x8>> PROVE SandboxInv'
<1>1. (Sandbox!WholeTail <=> (Sandbox!WholeTail)') /\ (Sandbox!Unended <=> (Sandbox!Unended)')
  BY DEF Sandbox!WholeTail, Sandbox!Unended, Sandbox!Unreadable
<1>2. LostInv'
  BY <1>1 DEF SandboxInv, LostInv, LostCount, Lost, Owes, Unreadable, AttemptOf
<1>3. TailInv'
  BY <1>1 DEF SandboxInv, TailInv, AttemptOf
<1>4. ChainInv'
  BY <1>1 DEF SandboxInv, ChainInv, Unreadable
<1> QED BY <1>2, <1>3, <1>4 DEF SandboxInv, Permitted

LEMMA GovernedStart == Governed!Init => GovernedInv
<1> SUFFICES ASSUME Governed!Init PROVE GovernedInv
  OBVIOUS
<1>1. x1 = "ready" /\ x2 = <<>> /\ x5 = <<>> /\ x6 = {} /\ Len(x2) = 0 /\ Len(x5) = 0
  BY EmptySeq DEF Governed!Init
<1>2. Trail
  BY <1>1 DEF Trail
<1>3. \A n \in 1 .. Len(x2) - 1 : Len(x5) >= 3 * n /\ Told(n)
  BY <1>1
<1> QED BY <1>1, <1>2, <1>3, EmptySeq DEF GovernedInv

LEMMA GovernedFrame == ASSUME GovernedInv, UNCHANGED <<x1, x2, x3, x4, x5, x6>> PROVE GovernedInv'
<1>1. Trail' <=> Trail
  BY DEF Trail, Told, Asked, Resolved, Reported
<1>2. \A n : Told(n)' <=> Told(n)
  BY DEF Told, Asked, Resolved, Reported
<1>3. \A n : Resolved(n, x5[3 * n - 1].outcome)' <=> Resolved(n, x5[3 * n - 1].outcome)
  BY DEF Resolved
<1> QED BY <1>1, <1>2, <1>3 DEF GovernedInv

LEMMA SkillsStart == Skills!Init => SkillsInv
<1> SUFFICES ASSUME Skills!Init PROVE SkillsInv
  OBVIOUS
<1>1. /\ x1 = <<SkillSeed>> /\ x2 = <<>> /\ x5 = None
      /\ x3 = [t \in SkillTitle |-> None] /\ x4 = [t \in SkillTitle |-> None]
  BY DEF Skills!Init, SkillSeed
<1>2. /\ x1 \in Seq(Skill) /\ \A i \in DOMAIN x1 : x1[i] = SkillSeed
      /\ x2 \in Seq(Skill) /\ DOMAIN x2 = {}
  <2>1. SkillSeed \in Skill
    BY DEF Skill
  <2> HIDE DEF SkillSeed
  <2> QED BY <1>1, <2>1, EmptySeq
<1>3. SkillTypes
  BY <1>1, <1>2 DEF SkillTypes
<1>4. QueueInv
  BY <1>1 DEF QueueInv
<1>5. Skills!IndexAsAgreed
  BY <1>1, <1>2 DEF Skills!IndexAsAgreed, SkillSeed
<1>6. LoadedInv /\ CallInv
  BY <1>1, <1>2 DEF LoadedInv, CallInv
<1> QED BY <1>3, <1>4, <1>5, <1>6 DEF SkillsInv

LEMMA SkillsFrame == ASSUME SkillsInv, UNCHANGED <<x1, x2, x3, x4, x5>> PROVE SkillsInv'
<1>1. SkillTypes' /\ LoadedInv' /\ CallInv'
  BY DEF SkillsInv, SkillTypes, LoadedInv, CallInv
<1>2. QueueInv'
  BY DEF SkillsInv, QueueInv, Skills!Indexed
<1>3. Skills!IndexAsAgreed'
  BY DEF SkillsInv, Skills!IndexAsAgreed
<1> QED BY <1>1, <1>2, <1>3 DEF SkillsInv

LEMMA ConnectorStart == Connectors!Init => ConnectorInv
  BY DEF Connectors!Init, ConnectorInv, Connectors!CallsGranted

LEMMA ConnectorFrame == ConnectorInv /\ UNCHANGED <<x1, x2, x3, x4, x5, x6, x7>> => ConnectorInv'
  BY DEF ConnectorInv, Connectors!CallsGranted

-----------------------------------------------------------------------------
(* Sessions: what SessionLifecycleProofs proves is used of the scenario     *)

SessionsProved == INSTANCE SessionLifecycleProofs WITH
    record <- x1, runtime <- x2, live <- x3, manager <- x4, turn <- x5, turns <- x6,
    committed <- x7, MaxCalls <- TurnCalls

\* The constants are those the proofs are about.
LEMMA SessionConstants == SessionsProved!Constants
<1>1. SessionsProved!Generation = 1 .. MaxGeneration
  BY DEF SessionsProved!Generation
<1> QED BY <1>1, NoneAssumption, BoundsAssumption DEF SessionsProved!Constants, SessionsProved!Record,
           SessionsProved!Runtime, SessionsProved!Status

\* The scenario starts and steps as the instance of the proofs.
LEMMA SameSessions ==
    /\ Sessions!Init => SessionsProved!Init
    /\ Sessions!Next => SessionsProved!Next
<1>1. Sessions!Init => SessionsProved!Init
  BY DEF Sessions!Init, SessionsProved!Init, Sessions!Generation, SessionsProved!Generation,
         Sessions!Ready, SessionsProved!Ready, Sessions!Idle, SessionsProved!Idle
<1>2. Sessions!Next => SessionsProved!Next
  BY DEF Sessions!Next, SessionsProved!Next, Sessions!CreateSession,
         SessionsProved!CreateSession, Sessions!ResumeSession, SessionsProved!ResumeSession,
         Sessions!StartSucceeds, SessionsProved!StartSucceeds, Sessions!StartFails,
         SessionsProved!StartFails, Sessions!CloseSession, SessionsProved!CloseSession,
         Sessions!RequestAbort, SessionsProved!RequestAbort, Sessions!StopListener,
         SessionsProved!StopListener, Sessions!CloseWithoutRuntime,
         SessionsProved!CloseWithoutRuntime, Sessions!ForgetSession,
         SessionsProved!ForgetSession, Sessions!Restart, SessionsProved!Restart,
         Sessions!SetMode, SessionsProved!SetMode, Sessions!Abort, SessionsProved!Abort,
         Sessions!TurnStep, SessionsProved!TurnStep, Sessions!Acquire, SessionsProved!Acquire,
         Sessions!CheckIdle, SessionsProved!CheckIdle, Sessions!ClearAbort,
         SessionsProved!ClearAbort, Sessions!BeginTurn, SessionsProved!BeginTurn,
         Sessions!CheckAbort, SessionsProved!CheckAbort, Sessions!CallProvider,
         SessionsProved!CallProvider, Sessions!Commit, SessionsProved!Commit,
         Sessions!CheckRunning, SessionsProved!CheckRunning, Sessions!FinishTurn,
         SessionsProved!FinishTurn, Sessions!ReleaseTurn, SessionsProved!ReleaseTurn,
         Sessions!Generation, SessionsProved!Generation, Sessions!Idle, SessionsProved!Idle,
         Sessions!Ready, SessionsProved!Ready, Sessions!StartRuntime,
         SessionsProved!StartRuntime, Sessions!Successor, SessionsProved!Successor,
         Sessions!Transition, SessionsProved!Transition, Sessions!Published,
         SessionsProved!Published, Sessions!May, SessionsProved!May, Sessions!Allowed,
         SessionsProved!Allowed, Sessions!At, SessionsProved!At, Sessions!Goto,
         SessionsProved!Goto, Sessions!Leave, SessionsProved!Leave, Sessions!Release,
         SessionsProved!Release
<1> QED BY <1>1, <1>2

\* A step of the scenario, or one that leaves everything alone, is one of the proofs.
LEMMA SessionSteps ==
    ASSUME [Next]_Vars
    PROVE  /\ scenario' = scenario
           /\ scenario = "sessions" => [SessionsProved!Next]_(SessionsProved!vars)
<1>1. CASE Next
  BY <1>1, Steps, SameSessions
<1>2. CASE UNCHANGED Vars
  BY <1>2 DEF Vars, SessionsProved!vars
<1> QED BY <1>1, <1>2

\* So a behaviour of the scenario is one of the specification the proofs are about.
LEMMA SessionBehaviour == Spec /\ scenario = "sessions" => SessionsProved!Spec
<1>1. Init /\ scenario = "sessions" => SessionsProved!Init
  BY Starts, SameSessions
<1>2. [Next]_Vars => /\ scenario = "sessions" => (scenario = "sessions")'
                     /\ scenario = "sessions" => [SessionsProved!Next]_(SessionsProved!vars)
  BY SessionSteps
<1> QED BY <1>1, <1>2, PTL DEF Spec, SessionsProved!Spec

\* What the proofs state is what the scenario states.
LEMMA SameSessionProperties ==
    /\ SessionsProved!OneRuntime => Sessions!OneRuntime
    /\ SessionsProved!CommittedKept => Sessions!CommittedKept
    /\ SessionsProved!AbortStops /\ SessionsProved!LockFreed => Sessions!AbortStops /\ Sessions!LockFreed
    /\ [SessionsProved!KeepsClosed]_(SessionsProved!vars) => Sessions!KeepsClosed
<1>1. SessionsProved!OneRuntime => Sessions!OneRuntime
  BY DEF Sessions!OneRuntime, SessionsProved!OneRuntime, Sessions!Generation, SessionsProved!Generation,
         Sessions!Settled, SessionsProved!Settled
<1>2. SessionsProved!CommittedKept => Sessions!CommittedKept
  BY DEF Sessions!CommittedKept, SessionsProved!CommittedKept, Sessions!Range, SessionsProved!Range
<1>3. SessionsProved!AbortStops /\ SessionsProved!LockFreed => Sessions!AbortStops /\ Sessions!LockFreed
  BY DEF Sessions!AbortStops, SessionsProved!AbortStops, Sessions!LockFreed, SessionsProved!LockFreed,
         Sessions!Generation, SessionsProved!Generation
<1>4. [SessionsProved!KeepsClosed]_(SessionsProved!vars) => Sessions!KeepsClosed
  BY DEF Sessions!KeepsClosed, SessionsProved!KeepsClosed, SessionsProved!vars
<1> QED BY <1>1, <1>2, <1>3, <1>4

\* The sessions of the scenario are safe in every state.
LEMMA SessionsSafe ==
    Spec => [](scenario = "sessions" => /\ Sessions!OneRuntime /\ Sessions!CommittedKept
                                        /\ Sessions!AbortStops /\ Sessions!LockFreed)
<1>1. SessionsProved!Spec => []SessionsProved!OneRuntime
  BY SessionConstants, SessionsProved!OneRuntimeServes
<1>2. SessionsProved!Spec => []SessionsProved!CommittedKept
  BY SessionConstants, SessionsProved!CommittedTurnsStay
<1>3. SessionsProved!Spec => [](SessionsProved!AbortStops /\ SessionsProved!LockFreed)
  BY SessionConstants, SessionsProved!TurnsStopAndRelease
<1>4. [Next]_Vars => (~ (scenario = "sessions") => ~ (scenario = "sessions")')
  BY SessionSteps
<1> QED BY <1>1, <1>2, <1>3, <1>4, SessionBehaviour, SameSessionProperties, PTL DEF Spec

-----------------------------------------------------------------------------
(* What the runs check of sessions, the database and settled items         *)

\* One runtime serves a session, what was committed stays, an aborted session stops and
\* its lock is given back; the database counts what ran and covers usage by messages.
THEOREM SessionsAreSound == Spec => []SessionSound
<1>1. SessionSound <=>
        /\ scenario = "sessions" => /\ Sessions!OneRuntime /\ Sessions!CommittedKept
                                    /\ Sessions!AbortStops /\ Sessions!LockFreed
        /\ scenario = "database" => Database!CountsRuns /\ Database!UsageCovers
  BY DEF SessionSound
<1>2. DatabaseInv => Database!CountsRuns /\ Database!UsageCovers
  BY DatabaseSound
<1> QED BY <1>1, <1>2, SessionsSafe, DatabaseInvariant, PTL

\* An item that is done stays done, and a closed session closed until it is resumed.
THEOREM SettledStaysSettled == Spec => SettledStays
<1>1. SessionsProved!Spec => [][SessionsProved!KeepsClosed]_(SessionsProved!vars)
  BY SessionConstants, SessionsProved!ClosedStays DEF SessionsProved!ClosedFinal
<1>2. (scenario = "durable" => DurableInv) /\ [Next]_Vars => [scenario = "durable" => Durable!KeepsHistory]_Vars
  <2> SUFFICES ASSUME scenario = "durable", DurableInv, Next PROVE Durable!KeepsHistory
    OBVIOUS
  <2> QED BY Steps, KeepsDone
<1>3. [Next]_Vars => (~ (scenario = "sessions") => ~ (scenario = "sessions")')
  BY SessionSteps
<1>4. [SessionsProved!KeepsClosed]_(SessionsProved!vars) => Sessions!KeepsClosed
  BY SameSessionProperties
<1>5. [scenario = "durable" => Durable!KeepsHistory]_Vars /\ (scenario = "sessions" => Sessions!KeepsClosed) =>
        [/\ scenario = "durable" => Durable!KeepsHistory
         /\ scenario = "sessions" => Sessions!KeepsClosed]_Vars
  OBVIOUS
<1>6. ~ (scenario = "sessions") => (scenario = "sessions" => Sessions!KeepsClosed)
  OBVIOUS
<1> QED BY <1>1, <1>2, <1>3, <1>4, <1>5, <1>6, SessionBehaviour, DurableInvariant, PTL DEF Spec, SettledStays

-----------------------------------------------------------------------------
(* What the runs check of logs and tools                                   *)

\* A record whose append returned is replayed, whatever later appends the process dies in,
\* what is rebuilt is rebuilt from the whole log, and a memory candidate names the event it was
\* taken from; and the sandbox's verifier tells a line that is lost from a death between line
\* and anchor, for any events, bounds of a replay, commands and deaths (JSONLTranscript;
\* append_audit_entry, verify_chain).
THEOREM LogsAreSound == Spec => []LogSound
<1> DEFINE Inv == (scenario = "log" => LogInv) /\ (scenario = "sandbox" => SandboxInv)
<1>1. Init => Inv
  BY Starts, LogStart, SandboxStart
<1>2. Inv /\ [Next]_Vars => Inv'
  <2>1. ASSUME LogInv, UNCHANGED Vars PROVE LogInv'
    BY <2>1, LogFrame DEF Vars
  <2>2. ASSUME SandboxInv, UNCHANGED Vars PROVE SandboxInv'
    BY <2>2, SandboxStays DEF Vars
  <2> QED BY <2>1, <2>2, Steps, LogNext, SandboxNext DEF Vars
<1>3. Inv => LogSound
  BY LogIsSound, SandboxSound DEF LogSound
<1> QED BY <1>1, <1>2, <1>3, PTL DEF Spec

\* What runs was allowed and is on record before, for any tools, rules, answers, skills,
\* connectors and deaths: by the policy and the user (run), by the agreed manifest of a skill
\* (approve_skill), by the grant of now (call_tool), by the sandbox (run_with_sandbox), and with
\* the audit log, the database and the transcript of the agent in step (execute_tool).
THEOREM OnlyPermittedRun == Spec => []OnlyPermittedRuns
<1> DEFINE Inv == /\ scenario = "governed" => GovernedInv
                  /\ scenario = "skills" => SkillsInv
                  /\ scenario = "connectors" => ConnectorInv
                  /\ scenario = "sandbox" => SandboxInv
                  /\ scenario = "agent" => AgentInv
<1>1. Init => Inv
  BY Starts, GovernedStart, SkillsStart, ConnectorStart, SandboxStart, AgentStart
<1>2. Inv /\ [Next]_Vars => Inv'
  <2>1. ASSUME Inv, Next PROVE Inv'
    BY <2>1, Steps, GovernedNext, SkillsNext, ConnectorNext, SandboxNext, AgentNext
  <2>2. ASSUME Inv, UNCHANGED Vars PROVE Inv'
    <3>1. UNCHANGED <<scenario, x1, x2, x3, x4, x5, x6, x7, x8, x10, x11, x12>>
      BY <2>2 DEF Vars
    <3> QED BY <2>2, <3>1, GovernedFrame, SkillsFrame, ConnectorFrame, SandboxStays, AgentFrame
  <2> QED BY <2>1, <2>2
<1>3. Inv => OnlyPermittedRuns
  BY GovernedSound, SkillsSound, SandboxSound, AgentSound DEF OnlyPermittedRuns, ConnectorInv
<1> QED BY <1>1, <1>2, <1>3, PTL DEF Spec

\* However runs of the recall harness race, die and are tried again, each fact is stored
\* once and every run that ends reports success, or its ID has other content; a transcript,
\* cut off or edited, proves only what the recall of its own query found, for any
\* processes, runs and edits (run_rag_memory_harness; replay_durable_retrieval_state).
THEOREM RecallsAreProved == Spec => []RecallProof
<1> DEFINE Inv == scenario = "recall" => RecallInv
<1>1. Init => Inv
  BY Starts, RecallStart
<1>2. Inv /\ [Next]_Vars => Inv'
  BY Steps, RecallNext, RecallFrame DEF Vars
<1>3. Inv => RecallProof
  BY RecallConverges, OnlyRecalledProved DEF RecallProof, RecallInv
<1> QED BY <1>1, <1>2, <1>3, PTL DEF Spec
=============================================================================
