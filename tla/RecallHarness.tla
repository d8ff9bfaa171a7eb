--------------------------- MODULE RecallHarness ---------------------------
(***************************************************************************)
(* s24_comprehensive/code.py, run_rag_memory_harness: two facts stored     *)
(* under IDs made from their content, recalled, one selected, its proof    *)
(* written to the run's transcript and read back by fresh adapters.        *)
(*                                                                         *)
(* Runs of several processes share the workspace's remote store; each has  *)
(* a transcript of its own.  A process may die between two writes and run  *)
(* again.  Ranking is RemoteMemory's and admission PromptAssembly's; the   *)
(* workspace log, which runs add to and this part does not read, and the   *)
(* files a manifest points to are left out.                                *)
(***************************************************************************)
EXTENDS Naturals, Sequences, FiniteSets

CONSTANTS
    Process,
    Winner, Loser,      \* the two facts
    Foreign,            \* content that is neither
    MaxRuns, MaxTampered,   \* bounds: runs altogether, edited transcripts
    None

VARIABLES
    pc,             \* where each process is, and in which run
    store,          \* the remote store: ID and content, in order
    transcripts,    \* events of each run
    reports,        \* the manifest of each run: its checks, or None
    tampered        \* runs whose transcript was edited

vars == <<pc, store, transcripts, reports, tampered>>

Fact == {Winner, Loser}
Run == 1..MaxRuns
Started == {r \in Run : transcripts[r] # <<>>}
Away == [at |-> "away", run |-> 0]

\* An ID is a digest of the content; a store may hold other content under it.
Init ==
    /\ pc = [p \in Process |-> Away]
    /\ store \in {<<>>} \cup {<<[id |-> Winner, content |-> c]>> : c \in {Winner, Foreign}}
    /\ transcripts = [r \in Run |-> <<>>]
    /\ reports = [r \in Run |-> None]
    /\ tampered = {}

At(p, at) == pc[p].at = at
Goto(p, at) == pc' = [pc EXCEPT ![p].at = at]
Write(p, event) == transcripts' = [transcripts EXCEPT ![pc[p].run] = Append(@, event)]
Types(events) == [i \in DOMAIN events |-> events[i].type]
Latest(events) == events[Len(events)]
Newest(positions) == CHOOSE i \in positions : \A j \in positions : j <= i

-----------------------------------------------------------------------------
(* replay_durable_retrieval_state *)

Source(content) == <<"source", content>>
Hit(record) == [id |-> record.id, source |-> Source(record.content)]
Ids(evidence) == {e.id : e \in evidence}

\* Faulty variant: evidence is matched with what was recalled by ID.
MatchesRecallById(selection, recall) == Ids(selection.evidence) \subseteq Ids(recall.hits)

MatchesRecall(selection, recall) == selection.evidence \subseteq recall.hits

Selections(events) == {i \in DOMAIN events : events[i].type = "selected"}
Selection(events) == events[Newest(Selections(events))]

\* Recalls of the query of the newest selection, before it.
Recalls(events) ==
    {i \in DOMAIN events :
        /\ events[i].type = "recall" /\ i < Newest(Selections(events))
        /\ events[i].query = Selection(events).query}

Proven(events) ==
    LET selection == Selection(events) IN
    /\ Ids(selection.evidence) = selection.selected
    /\ selection.selected \cap selection.rejected = {}
    /\ Recalls(events) # {}
    /\ MatchesRecall(selection, events[Newest(Recalls(events))])

\* None: refused.  Nothing selected yet is an empty proof.
Replay(events) ==
    IF Selections(events) = {} THEN {}
    ELSE IF Proven(events) THEN Selection(events).evidence
    ELSE None

-----------------------------------------------------------------------------
(* run_rag_memory_harness *)

Begin(p) ==
    /\ At(p, "away") /\ Cardinality(Started) < MaxRuns
    /\ LET r == Cardinality(Started) + 1 IN
         /\ pc' = [pc EXCEPT ![p] = [at |-> "read_winner", run |-> r]]
         /\ transcripts' = [transcripts EXCEPT ![r] = <<[type |-> "message"]>>]
    /\ UNCHANGED <<store, reports, tampered>>

Reading == [read_winner |-> Winner, read_loser |-> Loser]
Adding == [add_winner |-> Winner, add_loser |-> Loser]
After(fact) == IF fact = Winner THEN "read_loser" ELSE "recall"

Stored(fact) == \E i \in DOMAIN store : store[i].id = fact
Genuine(fact) == \A i \in DOMAIN store : store[i].id = fact => store[i].content = fact
Accept(p, fact) == Goto(p, IF Genuine(fact) THEN After(fact) ELSE "collision")

\* _ensure_remote_fact: look first; a record with this ID must be this record.
ReadFact(p) ==
    /\ pc[p].at \in DOMAIN Reading
    /\ LET fact == Reading[pc[p].at] IN
       IF Stored(fact) THEN Accept(p, fact)
       ELSE Goto(p, IF fact = Winner THEN "add_winner" ELSE "add_loser")
    /\ UNCHANGED <<store, transcripts, reports, tampered>>

\* Faulty variant: who finds the record there after all gives up.
AddFactOrFail(p) ==
    /\ pc[p].at \in DOMAIN Adding
    /\ LET fact == Adding[pc[p].at] IN
       IF Stored(fact) THEN Goto(p, "collision") /\ UNCHANGED store
       ELSE Goto(p, After(fact)) /\ store' = Append(store, [id |-> fact, content |-> fact])
    /\ UNCHANGED <<transcripts, reports, tampered>>

\* The store refuses an ID it has; the record that won is read and taken.
AddFact(p) ==
    /\ pc[p].at \in DOMAIN Adding
    /\ LET fact == Adding[pc[p].at] IN
       IF Stored(fact) THEN Accept(p, fact) /\ UNCHANGED store
       ELSE Goto(p, After(fact)) /\ store' = Append(store, [id |-> fact, content |-> fact])
    /\ UNCHANGED <<transcripts, reports, tampered>>

Recall(p) ==
    /\ At(p, "recall")
    /\ Write(p, [type |-> "recall", query |-> pc[p].run, hits |-> {Hit(store[i]) : i \in DOMAIN store}])
    /\ Goto(p, "select")
    /\ UNCHANGED <<store, reports, tampered>>

\* The facts conflict and the workspace's wins; its proof passes compaction.
Select(p) ==
    /\ At(p, "select")
    /\ LET recall == Latest(transcripts[pc[p].run])
           selected == Ids(recall.hits) \cap {Winner} IN
       Write(p, [type |-> "selected", query |-> recall.query, selected |-> selected,
                 rejected |-> Ids(recall.hits) \ selected,
                 evidence |-> {h \in recall.hits : h.id \in selected}])
    /\ Goto(p, "tool")
    /\ UNCHANGED <<store, reports, tampered>>

CallTool(p) ==
    /\ At(p, "tool")
    /\ Write(p, [type |-> "tool_result"])
    /\ Goto(p, "complete")
    /\ UNCHANGED <<store, reports, tampered>>

Complete(p) ==
    /\ At(p, "complete")
    /\ Write(p, [type |-> "message"])
    /\ Goto(p, "check")
    /\ UNCHANGED <<store, reports, tampered>>

\* Fresh adapters read everything back; the manifest has the outcome.
Check(p) ==
    /\ At(p, "check")
    /\ LET events == transcripts[pc[p].run] IN
       reports' = [reports EXCEPT ![pc[p].run] =
           [replayed |-> Types(events) = <<"message", "recall", "selected", "tool_result", "message">>,
            proof |-> Selections(events) # {} /\ Replay(events) # None
                        /\ Ids(Replay(events)) = {Winner} /\ Selection(events).rejected = {Loser},
            unique |-> \A f \in Fact : Cardinality({i \in DOMAIN store : store[i].id = f}) = 1]]
    /\ pc' = [pc EXCEPT ![p] = Away]
    /\ UNCHANGED <<store, transcripts, tampered>>

Die(p) ==
    /\ pc[p].at \notin {"away", "collision"}
    /\ pc' = [pc EXCEPT ![p] = Away]
    /\ UNCHANGED <<store, transcripts, reports, tampered>>

\* Somebody edits what a transcript says was selected, and on what evidence.
Tamper(r) ==
    LET events == transcripts[r]
        forged == [id : Fact, source : {Source(Winner), Source(Foreign)}] IN
    /\ r \notin tampered /\ Cardinality(tampered) < MaxTampered
    /\ events # <<>> /\ Latest(events).type = "selected"
    /\ \E selected \in SUBSET Fact, evidence \in {e \in SUBSET forged : Cardinality(e) < 2}, query \in Run :
         transcripts' = [transcripts EXCEPT ![r][Len(events)] =
             [@ EXCEPT !.selected = selected, !.evidence = evidence, !.query = query]]
    /\ tampered' = tampered \cup {r}
    /\ UNCHANGED <<pc, store, reports>>

Next ==
    \/ \E p \in Process :
         \/ Begin(p) \/ ReadFact(p) \/ AddFact(p) \/ Recall(p) \/ Select(p)
         \/ CallTool(p) \/ Complete(p) \/ Check(p) \/ Die(p)
    \/ \E r \in Run : Tamper(r)

Spec == Init /\ [][Next]_vars

-----------------------------------------------------------------------------
(* Properties *)

\* However runs race, die and are tried again, each fact is stored once, every
\* run that ends reports success, and one gives up only over an ID with other
\* content (README of s24: concurrent retries converge, conflicts fail closed).
RetriesConverge ==
    /\ \A i, j \in DOMAIN store : store[i].id = store[j].id => i = j
    /\ \A r \in Run \ tampered : reports[r] # None =>
         reports[r].replayed /\ reports[r].proof /\ reports[r].unique
    /\ \A p \in Process : At(p, "collision") => ~ Genuine(Winner) \/ ~ Genuine(Loser)

\* A transcript, cut off or edited, gives no proof but one that the recall of
\* its own query found, word for word, and that was not rejected
\* (replay_durable_retrieval_state).
ProofRecalled ==
    \A r \in Started :
        LET events == transcripts[r]
            proof == Replay(events) IN
        proof \notin {None, {}} =>
            /\ \A e \in proof : \E i \in DOMAIN events :
                 events[i].type = "recall" /\ events[i].query = r /\ e \in events[i].hits
            /\ Ids(proof) \cap Selection(events).rejected = {}
=============================================================================
