---------------------------- MODULE ConnectorGate ----------------------------
(***************************************************************************)
(* s17_mcp_connectors/code.py: which remote tools the model may look up    *)
(* and call, while the user trusts connectors, connectors come and go and  *)
(* the reviewed grant of the active skill is replaced.                     *)
(*                                                                         *)
(* A tool is its connector and a number.  A server may offer other tools   *)
(* each time it is connected.                                              *)
(***************************************************************************)
EXTENDS Naturals, FiniteSets

CONSTANTS
    Connector,
    Tool,           \* namespaced tools: connector and number
    MaxGrants,      \* bound: grants set
    None

VARIABLES
    trusted,        \* connectors the user trusted
    tools,          \* what each connector offers, nothing unless connected
    grant,          \* permission_grant
    schemas,        \* _deferred_schemas
    grants,         \* grants set so far
    shown,          \* tools whose schema the model was given, with the grant it was under
    executed        \* the last call that reached a connector

vars == <<trusted, tools, grant, schemas, grants, shown, executed>>

Grant == [tools: SUBSET Tool, network: BOOLEAN]
Allows(tool) == grant.network /\ tool \in grant.tools

\* The grant given to the constructor; none is one that allows nothing.
Init ==
    /\ trusted = {}
    /\ tools = [c \in Connector |-> {}]
    /\ grant \in Grant
    /\ schemas = {} /\ shown = {}
    /\ grants = 0
    /\ executed = None

\* trust and connect: tools/list is asked for again.
TrustConnector(c) ==
    /\ trusted' = trusted \cup {c}
    /\ \E offered \in SUBSET {t \in Tool : t[1] = c} : tools' = [tools EXCEPT ![c] = offered]
    /\ UNCHANGED <<grant, schemas, grants, shown, executed>>

Disconnect(c) ==
    /\ tools' = [tools EXCEPT ![c] = {}]
    /\ UNCHANGED <<trusted, grant, schemas, grants, shown, executed>>

\* Faulty variant: what was loaded under the old grant stays loaded.
SetGrantKeepingSchemas(g) ==
    /\ grants < MaxGrants
    /\ grant' = g /\ grants' = grants + 1
    /\ UNCHANGED <<trusted, tools, schemas, shown, executed>>

SetPermissionGrant(g) ==
    /\ grants < MaxGrants
    /\ grant' = g /\ grants' = grants + 1
    /\ schemas' = {}
    /\ UNCHANGED <<trusted, tools, shown, executed>>

Offered(tool) == \E c \in Connector : tool \in tools[c]

ToolSearch(tool) ==
    /\ Allows(tool) /\ Offered(tool)
    /\ schemas' = schemas \cup {tool}
    /\ shown' = shown \cup {<<tool, grants>>}
    /\ UNCHANGED <<trusted, tools, grant, grants, executed>>

\* Permission is looked at again: it may have been revoked since the search.
DeferExecuteTool(tool) ==
    /\ Allows(tool) /\ tool \in schemas /\ Offered(tool)
    /\ executed' = [tool |-> tool, grant |-> grant, number |-> grants, trusted |-> tool[1] \in trusted]
    /\ UNCHANGED <<trusted, tools, grant, schemas, grants, shown>>

Next ==
    \/ \E c \in Connector : TrustConnector(c) \/ Disconnect(c)
    \/ \E g \in Grant : SetPermissionGrant(g)
    \/ \E t \in Tool : ToolSearch(t) \/ DeferExecuteTool(t)

Spec == Init /\ [][Next]_vars

-----------------------------------------------------------------------------
(* Properties *)

\* A call reaches a connector only if the user trusted it, the grant of that
\* moment allows it and the model was given its schema under that very grant,
\* whatever was connected, revoked and granted again in between
\* (set_permission_grant: "invalidate previously loaded schemas").
CallsGranted ==
    executed # None =>
        /\ executed.trusted
        /\ executed.grant.network /\ executed.tool \in executed.grant.tools
        /\ <<executed.tool, executed.number>> \in shown
=============================================================================
