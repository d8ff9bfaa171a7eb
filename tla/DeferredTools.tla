---------------------------- MODULE DeferredTools ----------------------------
(***************************************************************************)
(* s03_deferred_loading/code.py: tools whose schema the model gets to see  *)
(* only when it searches for them, and the two calls that search and run.  *)
(*                                                                         *)
(* A tool is its name, the words of its name and of its description.  A    *)
(* schema is a version of the source constant it was registered from.      *)
(***************************************************************************)
EXTENDS Naturals, Integers, Sequences, FiniteSets, Functions, TLC

CONSTANTS
    Tool,           \* [name: 1.., words, described]: names are ordered like numbers
    Query,          \* what may be searched for: sequences of words
    TopK,           \* how many matches a search may ask for
    MaxVersion,     \* bound: edits of the source constants
    None

VARIABLES
    source,         \* version of each tool's source constant, by name
    tools,          \* the registry, in the order of registration
    loaded,         \* _loaded_schemas: name and schema
    shown,          \* every schema a search put into the transcript
    executed        \* the last call of a deferred tool: its name and the schema it ran under

vars == <<source, tools, loaded, shown, executed>>

Names == {t.name : t \in Tool}

Init ==
    /\ source = [n \in Names |-> 0]
    /\ tools = <<>>
    /\ loaded = {} /\ shown = {}
    /\ executed = None

-----------------------------------------------------------------------------
(* ToolRegistry *)

Registered(n) == \E i \in DOMAIN tools : tools[i].tool.name = n
Entry(n) == tools[CHOOSE i \in DOMAIN tools : tools[i].tool.name = n]
Deferred(n) == Registered(n) /\ Entry(n).defer
Loaded(n) == \E s \in loaded : s.name = n

\* A name that is taken is refused; the schema is copied.
Register(t, defer) ==
    /\ ~ Registered(t.name)
    /\ tools' = Append(tools, [tool |-> t, defer |-> defer, schema |-> source[t.name]])
    /\ UNCHANGED <<source, loaded, shown, executed>>

\* _match_score: the exact name, then words of the name, then of the description.
Score(t, query) ==
    LET hits(words) == Cardinality(Range(query) \cap words) IN
    (IF query = t.words THEN 100 ELSE 0) + 20 * hits(Range(t.words)) + 3 * hits(t.described)

\* Faulty variant: equal scores stay in the order of registration.
RankedStably(query) ==
    SortSeq(SelectSeq([i \in DOMAIN tools |-> tools[i]], LAMBDA e : e.defer /\ Score(e.tool, query) > 0),
            LAMBDA d, e : Score(d.tool, query) > Score(e.tool, query))

Ranked(query) ==
    SortSeq(SelectSeq([i \in DOMAIN tools |-> tools[i]], LAMBDA e : e.defer /\ Score(e.tool, query) > 0),
            LAMBDA d, e : \/ Score(d.tool, query) > Score(e.tool, query)
                          \/ Score(d.tool, query) = Score(e.tool, query) /\ d.tool.name < e.tool.name)

Matched(query, k) == SubSeq(Ranked(query), 1, IF k < Len(Ranked(query)) THEN k ELSE Len(Ranked(query)))

\* Faulty variant: a schema is taken from the source when it is searched for.
SchemaAtSearch(n) == source[n]

\* _load_match: the first search of a session decides what is shown.
Schema(n) == IF Loaded(n) THEN (CHOOSE s \in loaded : s.name = n).schema ELSE Entry(n).schema

Load(names) ==
    LET found == {[name |-> n, schema |-> Schema(n)] : n \in {m \in names : Deferred(m)}} IN
    /\ loaded' = loaded \cup {s \in found : ~ Loaded(s.name)}
    /\ shown' = shown \cup found

-----------------------------------------------------------------------------
(* Calls *)

SearchNames(names) == Load(names) /\ UNCHANGED <<source, tools, executed>>

Search(query, k) ==
    /\ Load({e.tool.name : e \in Range(Matched(query, k))})
    /\ UNCHANGED <<source, tools, executed>>

\* Unknown, immediate and not loaded are errors.
DeferExecute(n) ==
    /\ Deferred(n) /\ Loaded(n)
    /\ executed' = [name |-> n, schema |-> Entry(n).schema]
    /\ UNCHANGED <<source, tools, loaded, shown>>

\* agent_loop: any other name goes to the handler it has, deferred or not.
CallDirectly(n) ==
    /\ Registered(n)
    /\ executed' = IF Deferred(n) THEN [name |-> n, schema |-> Entry(n).schema] ELSE executed
    /\ UNCHANGED <<source, tools, loaded, shown>>

EditSource(n) ==
    /\ source[n] < MaxVersion
    /\ source' = [source EXCEPT ![n] = @ + 1]
    /\ UNCHANGED <<tools, loaded, shown, executed>>

Next ==
    \/ \E t \in Tool, defer \in BOOLEAN : Register(t, defer)
    \/ \E names \in SUBSET Names : SearchNames(names)
    \/ \E query \in Query, k \in TopK : Search(query, k)
    \/ \E n \in Names : DeferExecute(n) \/ CallDirectly(n) \/ EditSource(n)

Spec == Init /\ [][Next]_vars

-----------------------------------------------------------------------------
(* Properties *)

\* What a search finds depends on the tools there are and not on the order they
\* came in: a tool is found unless k others are better, by score and then by
\* name (search: "equal-score output independent of registration order").
SearchByRank ==
    \A query \in Query, k \in TopK :
        LET found == {e.tool.name : e \in Range(Matched(query, k))}
            better(d, e) == \/ Score(d, query) > Score(e, query)
                            \/ Score(d, query) = Score(e, query) /\ d.name < e.name
            live == {t \in Tool : Deferred(t.name) /\ Score(t, query) > 0} IN
        found = {t.name : t \in {u \in live : Cardinality({v \in live : better(v, u)}) < k}}

\* A session shows one schema of a tool, the one it was registered with and runs
\* under, however the source changes and however often it is searched for (register: "cannot
\* change search results or the execution contract halfway through a session").
OneSchema ==
    /\ \A s, t \in shown : s.name = t.name => s = t
    /\ \A s \in shown : s.schema = Entry(s.name).schema /\ s \in loaded
    /\ executed # None => \A s \in shown : s.name = executed.name => s = executed
=============================================================================
