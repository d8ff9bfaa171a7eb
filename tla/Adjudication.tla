---------------------------- MODULE Adjudication ----------------------------
(***************************************************************************)
(* What workspace memory promises about human decisions: one step closes   *)
(* the case, makes its choice the active revision and records the          *)
(* decision; nothing else touches a decided case or an older revision.     *)
(***************************************************************************)
EXTENDS Naturals, Sequences

CONSTANTS Event
VARIABLES curated, cases, decisions

vars == <<curated, cases, decisions>>

Init == curated = <<>> /\ cases = <<>> /\ decisions = {}

Superseded(case) == [case EXCEPT !.status = "superseded"]
Resolved(case, c, result, e) ==
    [case EXCEPT !.status = "resolved", !.selected = c.value, !.result = result, !.event = e]
Closed(cs, n, c, result, e) == [cs EXCEPT ![n] = Resolved(@, c, result, e)]

\* Distillation extends the active revision, or adds one.
Curate ==
    /\ Len(curated') \in {Len(curated), Len(curated) + 1}
    /\ \A n \in DOMAIN curated :
         /\ curated'[n].value = curated[n].value
         /\ n < Len(curated) => curated'[n] = curated[n]
    /\ UNCHANGED <<cases, decisions>>

\* It opens cases and closes open ones undecided.
Review ==
    /\ \A n \in DOMAIN cases :
         \/ cases'[n] = cases[n]
         \/ cases[n].status = "open" /\ cases'[n] = Superseded(cases[n])
    /\ \A n \in DOMAIN cases' \ DOMAIN cases : cases'[n].status = "open"
    /\ UNCHANGED <<curated, decisions>>

Decide(n, c, e) ==
    /\ cases[n].status = "open"
    /\ cases[n].active = Len(curated)
    /\ e \notin decisions
    /\ decisions' = decisions \cup {e}
    /\ curated' = IF c.incumbent THEN curated
                  ELSE Append(curated, [value |-> c.value, evidence |-> c.evidence, last |-> c.last])
    /\ cases' = Closed(cases, n, c, Len(curated'), e)

Next ==
    \/ Curate \/ Review
    \/ \E n \in DOMAIN cases, e \in Event : \E c \in cases[n].candidates : Decide(n, c, e)

Spec == Init /\ [][Next]_vars
=============================================================================
