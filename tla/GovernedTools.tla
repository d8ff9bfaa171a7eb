--------------------------- MODULE GovernedTools ---------------------------
(***************************************************************************)
(* s04_permission_hooks/code.py: every tool call passes a policy of        *)
(* ordered rules, perhaps the user, and hooks, two of which write the      *)
(* audit trail.                                                            *)
(*                                                                         *)
(* A request is its tool and what the rules tell apart.  A hook registered *)
(* behind the audit's may raise, which ends the loop; so does its program. *)
(***************************************************************************)
EXTENDS Naturals, Sequences, FiniteSetsExt

CONSTANTS
    Tool,           \* tools the model may name
    Handled,        \* those with a handler
    MaxRequests,    \* bound
    None

VARIABLES
    pc,             \* where run is, or "down"
    requests,       \* every request so far; the last is the one in run
    permission,     \* its PermissionResolution
    status,         \* its ToolExecutionStatus
    records,        \* the audit trail
    executed        \* requests whose handler was called, by number

vars == <<pc, requests, permission, status, records, executed>>

Path == {"read_file", "glob", "write_file", "edit_file"}
Request == [tool: Tool, valid: BOOLEAN, harmful: BOOLEAN, inside: BOOLEAN]
Current == requests[Len(requests)]

Init ==
    /\ pc = "ready"
    /\ requests = <<>> /\ records = <<>>
    /\ permission = None /\ status = None
    /\ executed = {}

-----------------------------------------------------------------------------
(* PermissionPolicy *)

Rule(id, action) == [id |-> id, action |-> action]

\* Faulty variant: bash asks before its commands are looked at.
RulesAskFirst ==
    <<Rule("bash.requires_approval", "ask"), Rule("bash.hard_deny", "deny"),
      Rule("path.outside_workspace", "deny"), Rule("path.read_allow", "allow"),
      Rule("path.write_requires_approval", "ask")>>

Rules ==
    <<Rule("bash.hard_deny", "deny"), Rule("path.outside_workspace", "deny"),
      Rule("path.read_allow", "allow"), Rule("path.write_requires_approval", "ask"),
      Rule("bash.requires_approval", "ask")>>

Matches(id, r) ==
    \/ id = "bash.hard_deny" /\ r.tool = "bash" /\ r.harmful
    \/ id = "path.outside_workspace" /\ r.tool \in Path /\ ~ r.inside
    \/ id = "path.read_allow" /\ r.tool \in {"read_file", "glob"} /\ r.inside
    \/ id = "path.write_requires_approval" /\ r.tool \in {"write_file", "edit_file"} /\ r.inside
    \/ id = "bash.requires_approval" /\ r.tool = "bash"

\* Arguments that are missing or no object, then the first rule, then no.
Decide(r) ==
    LET hits == {i \in DOMAIN Rules : Matches(Rules[i].id, r)} IN
    CASE ~ r.valid -> Rule("request.invalid_arguments", "deny")
      [] r.valid /\ hits # {} -> Rules[Min(hits)]
      [] OTHER -> Rule("default.deny", "deny")

\* What may come of a decision: only ASK asks, and a prompt that breaks is no.
Resolutions(decision) ==
    CASE decision.action = "allow" -> {"allowed"}
      [] decision.action = "deny" -> {"denied"}
      [] OTHER -> {"approved", "rejected", "cancelled"}

Allowed(outcome) == outcome \in {"allowed", "approved"}

-----------------------------------------------------------------------------
(* GovernedToolRunner.run *)

Audit(record) == records' = Append(records, record)

PreToolUse ==
    /\ pc = "ready" /\ Len(requests) < MaxRequests
    /\ \E r \in Request :
         /\ requests' = Append(requests, r)
         /\ Audit([event |-> "request", n |-> Len(requests) + 1])
    /\ permission' = None /\ status' = None
    /\ pc' \in {"decide", "down"}
    /\ UNCHANGED executed

ResolvePermission ==
    /\ pc = "decide"
    /\ \E outcome \in Resolutions(Decide(Current)) : permission' = outcome
    /\ pc' = "permission"
    /\ UNCHANGED <<requests, status, records, executed>>

PermissionDecision ==
    /\ pc = "permission"
    /\ Audit([event |-> "permission", n |-> Len(requests),
              rule |-> Decide(Current).id, outcome |-> permission])
    /\ pc' \in {"execute", "down"}
    /\ UNCHANGED <<requests, permission, status, executed>>

\* Faulty variant: a blocked call returns without its last hook.
BlockSilently ==
    /\ pc = "execute" /\ ~ Allowed(permission)
    /\ status' = "blocked"
    /\ pc' = "ready"
    /\ UNCHANGED <<requests, permission, records, executed>>

Block ==
    /\ pc = "execute" /\ ~ Allowed(permission)
    /\ status' = "blocked"
    /\ pc' = "post"
    /\ UNCHANGED <<requests, permission, records, executed>>

Execute ==
    /\ pc = "execute" /\ Allowed(permission)
    /\ IF Current.tool \in Handled
         THEN executed' = executed \cup {Len(requests)} /\ status' \in {"succeeded", "failed"}
         ELSE status' = "failed" /\ UNCHANGED executed
    /\ pc' = "post"
    /\ UNCHANGED <<requests, permission, records>>

PostToolUse ==
    /\ pc = "post"
    /\ Audit([event |-> "result", n |-> Len(requests), rule |-> Decide(Current).id, outcome |-> status])
    /\ pc' \in {"ready", "down"}
    /\ UNCHANGED <<requests, permission, status, executed>>

Next == PreToolUse \/ ResolvePermission \/ PermissionDecision \/ Block \/ Execute \/ PostToolUse

Spec == Init /\ [][Next]_vars

-----------------------------------------------------------------------------
(* Properties *)

\* No handler was called for a request outside the workspace, for a command
\* that no approval may override, or for one the user was not asked about when
\* it changes something; its permission is in the trail whatever a hook or the
\* handler did later (run: decide, approve, then execute).
ExecutedPermitted ==
    \A n \in executed :
        LET r == requests[n] IN
        /\ r.valid
        /\ r.tool \in Path => r.inside
        /\ r.tool = "bash" => ~ r.harmful
        /\ \E i \in DOMAIN records :
             /\ records[i].n = n /\ records[i].event = "permission"
             /\ IF r.tool \in {"read_file", "glob"} THEN records[i].outcome = "allowed"
                ELSE records[i].outcome = "approved"

\* The trail tells every call that came back in three records, in order, and a
\* call is told as blocked exactly if its handler was not reached (AuditTrail).
TrailComplete ==
    pc = "ready" =>
        /\ Len(records) = 3 * Len(requests)
        /\ \A n \in DOMAIN requests :
             LET request == records[3 * n - 2]
                 decided == records[3 * n - 1]
                 result == records[3 * n] IN
             /\ request.n = n /\ decided.n = n /\ result.n = n
             /\ request.event = "request" /\ decided.event = "permission" /\ result.event = "result"
             /\ decided.rule = result.rule
             /\ result.outcome = "blocked" <=> ~ Allowed(decided.outcome)
             /\ result.outcome = "succeeded" => n \in executed
=============================================================================
