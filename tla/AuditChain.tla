----------------------------- MODULE AuditChain -----------------------------
(***************************************************************************)
(* What mini_workbuddy/audit.py promises its callers while the machine     *)
(* stays up, without files, locks or processes: one append-only chain of   *)
(* payloads.  A log from before anchoring has no anchor; once there is one *)
(* the chain grows only while the anchor ("published") names its tip, so   *)
(* at most one entry is unpublished, however many processes write or die;  *)
(* append() returns an entry only when the anchor names it.                *)
(***************************************************************************)
EXTENDS Naturals, Sequences

CONSTANTS Payload,      \* what an entry records (action and data)
          LegacyData,   \* payloads of a log written before anchoring existed
          None          \* "there is no anchor"

VARIABLES chain,        \* the payloads of the readable entries
          published,    \* how many of them the anchor vouches for, or None
          acked         \* indices of the entries append() returned

vars == <<chain, published, acked>>

Init == /\ chain = LegacyData
        /\ published = None
        /\ acked = {}

\* An append lands behind the validated tip.
Extend(d) ==
    /\ published \in {None, Len(chain)}
    /\ chain' = Append(chain, d)
    /\ UNCHANGED <<published, acked>>

\* The anchor moves to the tip: by the append itself, or by the recovery of
\* the next process to start.
Publish ==
    /\ chain # <<>>
    /\ published' = Len(chain)
    /\ UNCHANGED <<chain, acked>>

Acknowledge ==
    /\ published = Len(chain)
    /\ acked' = acked \cup {published}
    /\ UNCHANGED <<chain, published>>

Next == \/ \E d \in Payload : Extend(d)
        \/ Publish
        \/ Acknowledge

Spec == Init /\ [][Next]_vars
=============================================================================
