----------------------------- MODULE MCAuditLog -----------------------------
(* Instances of AuditLog for TLC: two processes, the first with two threads. *)
EXTENDS AuditLog

CONSTANTS p1, p2, t1, t2, t3, d1, d2

MCProcOf == [t \in Thread |-> IF t = t3 THEN p2 ELSE p1]
MCNoLegacy == <<>>
MCLegacy == <<d1>>
=============================================================================
