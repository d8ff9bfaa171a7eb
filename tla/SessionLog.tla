----------------------------- MODULE SessionLog -----------------------------
(***************************************************************************)
(* s09_jsonl_transcript/code.py: the JSONL file of one session, written by *)
(* one process that may die in an append, and what is rebuilt from it.     *)
(*                                                                         *)
(* A complete line is a record; what follows the last newline is nothing,  *)
(* a cut record, one that is cut inside a character, or a whole record     *)
(* without its newline.  Garbage is a complete line that is no record.     *)
(***************************************************************************)
EXTENDS Naturals, Sequences, FiniteSetsExt, Functions

CONSTANTS
    Event,          \* what may be appended: a type and a call ID
    MaxItems,       \* replay limits
    MaxEvents, MaxCrashes,              \* bounds
    None, Cut, Split, Garbage   \* nothing; a cut record; a record cut inside a character;
                                \* a complete line that is no record

VARIABLES
    lines,          \* complete lines of the file
    tail,           \* after the last newline: None, Cut, Split, or a record
    acked,          \* records whose append returned
    candidate,      \* the last memory candidate selected: a reference and its event
    crashes

vars == <<lines, tail, acked, candidate, crashes>>

Init ==
    /\ lines = <<>> /\ tail = None
    /\ acked = <<>>
    /\ candidate = None
    /\ crashes = 0

-----------------------------------------------------------------------------
(* Reading *)

IsRecord(line) == line # Garbage

\* _read_all_events raises otherwise, and so do replay, append and selection: the file
\* is decoded as a whole, and records number from 1 without a gap.
Readable ==
    /\ tail # Split
    /\ \A i \in DOMAIN lines : IsRecord(lines[i]) /\ lines[i].sequence = i

\* What it returns of a readable log: a record without its newline is read, a cut one
\* is ignored.
Whole == tail \notin {None, Cut, Split}
Events == IF Whole THEN Append(lines, tail) ELSE lines

\* The last of them, in order; none for a limit of zero.
Recent(events, max) ==
    SubSeq(events, IF max < Len(events) THEN Len(events) - max + 1 ELSE 1, Len(events))

\* _event_to_message: reasoning, snapshots and titles are metadata.
IsMessage(record) == record.event.type \in {"message", "function_call", "function_call_result"}

\* In the order of their numbers.
Replay(max) == {r \in Range(Recent(Events, max)) : IsMessage(r)}

\* The last one counts.
TitleOf(events) ==
    LET titles == {i \in DOMAIN events : events[i].event.type = "ai-title"} IN
    IF titles = {} THEN None ELSE events[Max(titles)].event

\* Faulty variant: the title is looked for among the replayed events.
ReplayStateOfWindow(max) ==
    [messages |-> Replay(max), title |-> TitleOf(Recent(Events, max)), next_sequence |-> Len(Events) + 1]

ReplayState(max) ==
    [messages |-> Replay(max), title |-> TitleOf(Events), next_sequence |-> Len(Events) + 1]

-----------------------------------------------------------------------------
(* Writing *)

\* Faulty variant: an unterminated last line counts as complete.
AppendableUnterminated == Readable /\ tail # Cut

\* append refuses a cut or an unterminated tail, and a corrupt log.
Appendable == Readable /\ tail = None

Record(event) == [sequence |-> Len(Events) + 1, event |-> event]

\* What a write joins to a tail is not a record.
AppendEvent(event) ==
    /\ Appendable /\ Len(acked) < MaxEvents
    /\ lines' = Append(lines, IF tail = None THEN Record(event) ELSE Garbage)
    /\ tail' = None
    /\ acked' = Append(acked, Record(event))
    /\ UNCHANGED <<candidate, crashes>>

\* The process dies in the write, or before the call returns; so does power.
Crash(event) ==
    /\ Appendable /\ crashes < MaxCrashes
    /\ crashes' = crashes + 1
    /\ \/ tail' \in {None, Cut, Split, Record(event)} /\ UNCHANGED lines
       \/ lines' = Append(lines, Record(event)) /\ UNCHANGED tail
    /\ UNCHANGED <<acked, candidate>>

\* Faulty variant: any event may become a memory.
EligibleAll(event) == TRUE

Eligible(event) == event.type \in {"message", "file-history-snapshot"}

\* select_memory_candidate: by event ID, which is the sequence.
Select(i) ==
    /\ Readable
    /\ i \in DOMAIN Events /\ Eligible(Events[i].event)
    /\ candidate' = [sequence |-> i, event |-> Events[i].event]
    /\ UNCHANGED <<lines, tail, acked, crashes>>

Next ==
    \/ \E event \in Event : AppendEvent(event) \/ Crash(event)
    \/ \E i \in 1..(MaxEvents + MaxCrashes) : Select(i)

Spec == Init /\ [][Next]_vars

-----------------------------------------------------------------------------
(* Properties *)

\* The log keeps what was acknowledged, and stays readable, through crashes and
\* refused appends (append: "would turn it into a corrupt complete line"); only a
\* record that is cut inside a character stops every later read of it, as
\* test_short_write_inside_utf8_preserves_decode_failure has it.
AckedReplayed ==
    /\ Readable \/ tail = Split
    /\ \A i \in DOMAIN acked : Events[acked[i].sequence] = acked[i]

\* State is rebuilt from the whole of a readable log however small the replay
\* window: a title is not lost, and a number is not used again (replay_state).
RebuiltWhole ==
    Readable => \A max \in MaxItems :
        /\ ReplayState(max).title = TitleOf(Events)
        /\ \A r \in Range(Events) : r.sequence < ReplayState(max).next_sequence
        /\ Cardinality(ReplayState(max).messages) <= max

\* A candidate names the same event as long as the log lives, and never a step
\* of the agent's own (select_memory_candidate).
CandidateNamesEvidence ==
    candidate # None =>
        /\ Events[candidate.sequence].event = candidate.event
        /\ candidate.event.type \notin {"reasoning", "function_call", "function_call_result", "ai-title"}
=============================================================================
