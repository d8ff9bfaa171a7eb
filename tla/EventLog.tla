------------------------------ MODULE EventLog ------------------------------
(***************************************************************************)
(* What mini_workbuddy/storage.py promises about one session's transcript: *)
(* a list of events in which append_event() returns the position its event *)
(* has, and which loses events only from its end, never a returned one.    *)
(***************************************************************************)
EXTENDS Naturals, Sequences

CONSTANTS Legacy,       \* the lists of events without envelopes it may start with
          EventId       \* what tells new events apart

VARIABLES events,       \* the committed events
          returned      \* the [seq, id] that append_event() returned

vars == <<events, returned>>

Init == events \in Legacy /\ returned = {}

Commit(id) == events' = Append(events, id) /\ UNCHANGED returned

Return(n) ==
    /\ returned' = returned \cup {[seq |-> n, id |-> events[n]]}
    /\ UNCHANGED events

\* Loss of power.
Lose(n) ==
    /\ \A r \in returned : r.seq <= n
    /\ events' = SubSeq(events, 1, n)
    /\ UNCHANGED returned

Next == \/ \E id \in EventId : Commit(id)
        \/ \E n \in DOMAIN events : Return(n)
        \/ \E n \in 0..Len(events) : Lose(n)

Spec == Init /\ [][Next]_vars
=============================================================================
