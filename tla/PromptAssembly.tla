--------------------------- MODULE PromptAssembly ---------------------------
(***************************************************************************)
(* s15_prompt_assembly/code.py: recalled memory is selected for the prompt *)
(* (scope, confidence, duplicates, conflicts, budget), and the prompt is   *)
(* packed from segments again whenever something about them changes.       *)
(*                                                                         *)
(* A text is an equivalence class of normalised prose and has a size; the  *)
(* budgets in characters and tokens are one.  Scores are whole numbers.    *)
(***************************************************************************)
EXTENDS Naturals, Sequences, FiniteSets, SequencesExt, FiniteSetsExt

CONSTANTS
    Pool,           \* fields of the candidates a search may return
    MaxCandidates,  \* bound on how many it returns
    Scopes,         \* user scopes a query may have
    MinScore, TopK, MemoryBudget,     \* MemorySelectionPolicy
    PromptBudget,
    Extras,         \* optional segments beside memory, with value and size
    RequiredSize,   \* size of the required segments, by work mode
    None, Broken    \* no value; a candidate list nothing can be selected from

VARIABLES
    offered,        \* what searches return, of any scope
    recalled,       \* recalled_memory_candidates: None for an empty tuple,
                    \* Broken if selecting from it raises
    scope,          \* recalled_memory_user_scope
    extras,         \* names of the optional segments that are active
    workMode,
    systemPrompt,   \* SYSTEM_PROMPT
    returned        \* the last call that reassembles returned

vars == <<offered, recalled, scope, extras, workMode, systemPrompt, returned>>

-----------------------------------------------------------------------------
(* select_memory_context *)

\* _candidate_order; source rank and capture time break ties as the ID does.
RanksBefore(c, d) ==
    \/ c.authority > d.authority
    \/ c.authority = d.authority /\ c.score > d.score
    \/ c.authority = d.authority /\ c.score = d.score /\ c.id < d.id

Eligible(cs, owner) == {c \in cs : c.scope = owner /\ c.score >= MinScore}

\* Faulty variant: equal prose is equal, whatever slot it fills.
SameContentAcrossSlots(c, d) == c.text = d.text

SameContent(c, d) == c.text = d.text /\ c.slot = d.slot

Deduplicated(cs) == {c \in cs : ~ \E d \in cs : SameContent(c, d) /\ RanksBefore(d, c)}

ConflictFree(cs) ==
    {c \in cs : c.slot # None => ~ \E d \in cs : d.slot = c.slot /\ RanksBefore(d, c)}

\* The wrapper costs once, and not without a hit.
WrapperSize == 1
ContextSize(cs) == IF cs = {} THEN 0 ELSE WrapperSize + MapThenSumSet(LAMBDA c : c.size, cs)

\* Faulty variant: the wrapper is left out of the account.
FitsWithoutWrapper(cs) == Cardinality(cs) <= TopK /\ MapThenSumSet(LAMBDA c : c.size, cs) <= MemoryBudget

FitsMemory(cs) == Cardinality(cs) <= TopK /\ ContextSize(cs) <= MemoryBudget

\* Faulty variant: packing stops at the first candidate that does not fit.
PackUntilFull(cs) ==
    LET ranked == SetToSortSeq(cs, RanksBefore)
        fits == {n \in 0..Len(ranked) : FitsMemory({ranked[i] : i \in 1..n})} IN
    {ranked[i] : i \in 1..(CHOOSE n \in fits : \A m \in fits : m <= n)}

\* One after the other, each whole or not at all.
Pack(cs) ==
    FoldSeq(LAMBDA c, selected : IF FitsMemory(selected \cup {c}) THEN selected \cup {c} ELSE selected,
            {}, Reverse(SetToSortSeq(cs, RanksBefore)))

SelectMemory(cs, owner) == Pack(ConflictFree(Deduplicated(Eligible(cs, owner))))

-----------------------------------------------------------------------------
(* plan_prompt *)

Memory(selected) == [name |-> "memory", value |-> 60, size |-> ContextSize(selected)]

\* By value, then by presentation priority; values differ here.
ByValue(s, t) == s.value > t.value
SeparatorSize == 1

\* Faulty variant: separators are left out of the account.
RenderedLengthBare(segments, mode) ==
    RequiredSize[mode] + MapThenSumSet(LAMBDA s : s.size, segments)

\* The required segments, with separators between all.
RenderedLength(segments, mode) ==
    RequiredSize[mode] + MapThenSumSet(LAMBDA s : s.size + SeparatorSize, segments)

Built(selected, names) ==
    {s \in Extras : s.name \in names} \cup IF selected = {} THEN {} ELSE {Memory(selected)}

PlanPrompt(segments, mode) ==
    FoldSeq(LAMBDA s, chosen : IF RenderedLength(chosen \cup {s}, mode) <= PromptBudget
                                 THEN chosen \cup {s} ELSE chosen,
            {}, Reverse(SetToSortSeq(segments, ByValue)))

\* What the runtime state assembles to: the segments, and the memories in them.
Assembled(cs, owner, names, mode) ==
    LET selected == IF cs = None THEN {} ELSE SelectMemory(cs, owner)
        plan == PlanPrompt(Built(selected, names), mode) IN
    [mode |-> mode, segments |-> plan,
     memories |-> IF \E s \in plan : s.name = "memory" THEN selected ELSE {}]

-----------------------------------------------------------------------------
Candidate(id, f) ==
    [id |-> id, scope |-> f.scope, authority |-> f.authority, score |-> f.score,
     text |-> f.text, slot |-> f.slot, size |-> f.size]

Init ==
    /\ \E n \in 1..MaxCandidates : \E fields \in [1..n -> Pool] :
         offered = {Candidate(i, fields[i]) : i \in 1..n}
    /\ recalled = None /\ scope = None
    /\ extras = {}
    /\ workMode = "craft"
    /\ systemPrompt = Assembled(None, None, {}, "craft")
    /\ returned = TRUE

\* reassemble_prompt: required segments that do not fit raise an error, and
\* so does a broken candidate list or tokenizer; SYSTEM_PROMPT stays then.
Reassemble ==
    IF RenderedLength({}, workMode') <= PromptBudget /\ recalled' # Broken
      THEN systemPrompt' = Assembled(recalled', scope', extras', workMode') /\ returned' = TRUE
      ELSE returned' = FALSE /\ UNCHANGED systemPrompt

\* set_recalled_memory, with a list or one nothing can be selected from.
SetRecalledMemory(cs, owner) ==
    /\ recalled' = cs
    /\ scope' = owner
    /\ UNCHANGED <<offered, extras, workMode>>
    /\ Reassemble

\* Faulty variant: the prompt is left for the next reassembly.
ClearLazily ==
    /\ recalled' = None
    /\ scope' = None
    /\ returned' = TRUE
    /\ UNCHANGED <<offered, extras, workMode, systemPrompt>>

ClearRecalledMemory ==
    /\ recalled' = None
    /\ scope' = None
    /\ UNCHANGED <<offered, extras, workMode>>
    /\ Reassemble

\* load_skill, set_expert, add_connector.
Activate(name) ==
    /\ name \notin extras
    /\ extras' = extras \cup {name}
    /\ UNCHANGED <<offered, recalled, scope, workMode>>
    /\ Reassemble

SwitchMode(mode) ==
    /\ workMode' = mode
    /\ UNCHANGED <<offered, recalled, scope, extras>>
    /\ Reassemble

Next ==
    \/ \E owner \in Scopes, cs \in {offered, Broken} : SetRecalledMemory(cs, owner)
    \/ ClearRecalledMemory
    \/ \E s \in Extras : Activate(s.name)
    \/ \E mode \in DOMAIN RequiredSize : SwitchMode(mode)

Spec == Init /\ [][Next]_vars

-----------------------------------------------------------------------------
(* Properties *)

\* Once a call returned, the prompt shows memory of the current query only,
\* none after clear_recalled_memory, whatever calls raised in between
\* (clear_recalled_memory: "so it cannot leak into another turn").
QueryScoped ==
    returned =>
        /\ \A c \in systemPrompt.memories : c.scope = scope /\ c.score >= MinScore
        /\ recalled = None => systemPrompt.memories = {}

\* A slot is filled by the candidate of the highest authority that query has
\* for it, or by none: no duplicate elsewhere and no budget lets a
\* superseded one in (select_memory_context: "Conflict losers never backfill").
SlotWinners ==
    \A c \in systemPrompt.memories : c.slot # None =>
        \A d \in offered :
            d.scope = c.scope /\ d.score >= MinScore /\ d.slot = c.slot => d = c \/ RanksBefore(c, d)

\* The block fits, and who is left out for its budget would not fit on top of
\* those that rank before (select_memory_context packs in rank order).
MemoryPacked ==
    LET chosen == SelectMemory(offered, CHOOSE s \in Scopes : TRUE)
        Cost(cs) == IF cs = {} THEN 0 ELSE WrapperSize + MapThenSumSet(LAMBDA c : c.size, cs) IN
    /\ Cost(chosen) <= MemoryBudget /\ Cardinality(chosen) <= TopK
    /\ \A c \in ConflictFree(Deduplicated(Eligible(offered, CHOOSE s \in Scopes : TRUE))) \ chosen :
         LET above == {d \in chosen : RanksBefore(d, c)} IN
         Cardinality(above) = TopK \/ Cost(above \cup {c}) > MemoryBudget

\* The prompt fits with its separators, whatever was activated (plan_prompt).
PromptFits ==
    RequiredSize[systemPrompt.mode] + MapThenSumSet(LAMBDA s : s.size, systemPrompt.segments)
        + SeparatorSize * Cardinality(systemPrompt.segments) <= PromptBudget
=============================================================================
