------------------------------ MODULE SkillGate ------------------------------
(***************************************************************************)
(* s16_skills_system/code.py: skills the model proposes pass an audit, and *)
(* the user, before they enter the index; loaded skills say which tool     *)
(* calls are allowed.                                                      *)
(*                                                                         *)
(* One process: the user's commands come between the model's turns.  What  *)
(* a SKILL.md says is the class of its content and its permissions; a path *)
(* pattern stands for the paths it matches.                                *)
(***************************************************************************)
EXTENDS Naturals, Sequences, FiniteSets, Functions

CONSTANTS
    Title,          \* titles of skills the model proposes
    Seed,           \* the skill the program comes with
    Path,
    None

VARIABLES
    index,          \* skill_index
    loaded,         \* loaded_skills: the blocks of the system prompt
    pending,        \* pending_skills, by title
    agreed,         \* what the user was shown and agreed to, by title
    executed        \* the last tool call that ran

vars == <<index, loaded, pending, agreed, executed>>

Content == {"plain", "network", "danger"}
Permissions == [tools: {{"bash"}, {"read_file", "SkillCreate"}}, network: BOOLEAN,
                read: {{}, Path}, write: {{}, Path}]
Call == [tool: {"bash", "read_file"}, network: BOOLEAN, path: Path]

Init ==
    /\ index = <<Seed>>
    /\ loaded = <<>>
    /\ pending = [t \in Title |-> None]
    /\ agreed = [t \in Title |-> None]
    /\ executed = None

-----------------------------------------------------------------------------
(* Permissions and audit *)

\* Only what is added counts.
PermissionDiff(previous, requested) ==
    [tools |-> requested.tools \ previous.tools,
     network |-> requested.network /\ ~ previous.network,
     read |-> requested.read \ previous.read,
     write |-> requested.write \ previous.write]

\* Faulty variant: a change of tools is not an escalation.
HasEscalationInReach(diff) == diff.network \/ diff.read # {} \/ diff.write # {}

HasEscalation(diff) == diff.tools # {} \/ diff.network \/ diff.read # {} \/ diff.write # {}

\* Faulty variant: the text is looked at, what it asks for is not.
AuditTextOnly(content, requested, previous) ==
    CASE content = "danger" -> "P0"
      [] content = "network" -> "P1"
      [] OTHER -> "P2"

\* previous is None for a skill that is new.
AuditSkill(content, requested, previous) ==
    IF content = "danger" THEN "P0"
    ELSE IF \/ content = "network"
            \/ previous # None /\ HasEscalation(PermissionDiff(previous, requested))
            \/ requested.network \/ requested.write # {}
         THEN "P1" ELSE "P2"

-----------------------------------------------------------------------------
(* Skill management *)

Indexed(title) == \E i \in DOMAIN index : index[i].title = title
Skill(title, content, permissions) == [title |-> title, content |-> content, permissions |-> permissions]

\* Faulty variant: a proposal takes the place of one that waits.
CreateOverPending(title, content, permissions) ==
    /\ ~ Indexed(title)
    /\ LET skill == Skill(title, content, permissions)
           level == AuditSkill(content, permissions, None) IN
       \/ level = "P1" /\ pending' = [pending EXCEPT ![title] = skill] /\ UNCHANGED index
       \/ level = "P2" /\ index' = Append(index, skill) /\ UNCHANGED pending

\* What does not parse back to the fields asked for changes nothing, as do a
\* title that is taken or waits, and P0.
CreateSkill(title, content, permissions) ==
    /\ ~ Indexed(title) /\ pending[title] = None
    /\ LET skill == Skill(title, content, permissions)
           level == AuditSkill(content, permissions, None) IN
       \/ level = "P1" /\ pending' = [pending EXCEPT ![title] = skill] /\ UNCHANGED index
       \/ level = "P2" /\ index' = Append(index, skill) /\ UNCHANGED pending

\* The user agrees to what the queue showed when they looked.
Show(title) ==
    /\ pending[title] # None
    /\ agreed' = [agreed EXCEPT ![title] = pending[title]]
    /\ UNCHANGED <<index, loaded, pending, executed>>

ApproveSkill(title) ==
    /\ agreed[title] # None /\ pending[title] # None
    /\ pending' = [pending EXCEPT ![title] = None]
    /\ LET skill == pending[title] IN
       index' = IF Indexed(title) \/ AuditSkill(skill.content, skill.permissions, None) = "P0"
                  THEN index ELSE Append(index, skill)
    /\ UNCHANGED <<loaded, agreed, executed>>

RejectSkill(title) ==
    /\ pending[title] # None
    /\ pending' = [pending EXCEPT ![title] = None]
    /\ agreed' = [agreed EXCEPT ![title] = None]
    /\ UNCHANGED <<index, loaded, executed>>

\* Faulty variant: a skill in the context is loaded again.
LoadSkillAgain(title) ==
    /\ Len(loaded) <= Cardinality(Title) + 1
    /\ \E i \in DOMAIN index : index[i].title = title /\ loaded' = Append(loaded, index[i])
    /\ UNCHANGED <<index, pending, agreed, executed>>

\* By the user, by a trigger word, or by the model; the first of a title is taken.
LoadSkill(title) ==
    /\ ~ \E i \in DOMAIN loaded : loaded[i].title = title
    /\ \E i \in DOMAIN index :
         /\ index[i].title = title /\ \A j \in 1..(i - 1) : index[j].title # title
         /\ loaded' = Append(loaded, index[i])
    /\ UNCHANGED <<index, pending, agreed, executed>>

-----------------------------------------------------------------------------
(* Tool calls *)

Declares(skill, tool) == tool \in skill.permissions.tools

\* What an update asks for, under the skill's title.
Updated(skill, requested) == [skill EXCEPT !.permissions = requested]

AuthorizeSkillTool(skill, call) ==
    /\ Declares(skill, call.tool)
    /\ call.tool = "bash" /\ call.network => skill.permissions.network
    /\ call.tool = "read_file" => call.path \in skill.permissions.read

\* Without an active skill the harness's own policy decides.
AuthorizeLoaded(call) == loaded = <<>> \/ \E i \in DOMAIN loaded : AuthorizeSkillTool(loaded[i], call)

CallTool(call) ==
    /\ AuthorizeLoaded(call)
    /\ executed' = [call |-> call, active |-> Range(loaded)]
    /\ UNCHANGED <<index, loaded, pending, agreed>>

\* SkillCreate is a tool like others; the user's create command is not.
ProposeSkill(title, content, permissions) ==
    /\ loaded = <<>> \/ \E i \in DOMAIN loaded : Declares(loaded[i], "SkillCreate")
    /\ CreateSkill(title, content, permissions)
    /\ UNCHANGED <<loaded, agreed, executed>>

Next ==
    \/ \E t \in Title :
         \/ \E content \in Content, permissions \in Permissions : ProposeSkill(t, content, permissions)
         \/ Show(t) \/ ApproveSkill(t) \/ RejectSkill(t)
    \/ \E t \in Title \cup {Seed.title} : LoadSkill(t)
    \/ \E call \in Call : CallTool(call)

Spec == Init /\ [][Next]_vars

-----------------------------------------------------------------------------
(* Properties *)

\* A title names one skill, and what the index has beyond the seed is either
\* harmless or exactly what the user agreed to, whatever was proposed while it
\* waited (create_skill: "already in the queue, not overwritten").
IndexAsAgreed ==
    /\ \A i, j \in DOMAIN index : index[i].title = index[j].title => i = j
    /\ \A i \in DOMAIN index : index[i] # Seed =>
         \/ index[i].content = "plain" /\ ~ index[i].permissions.network /\ index[i].permissions.write = {}
         \/ index[i] = agreed[index[i].title]

\* A skill is in the prompt once, as the index has it (load_skill).
PromptOnce ==
    /\ \A i, j \in DOMAIN loaded : loaded[i].title = loaded[j].title => i = j
    /\ Range(loaded) \subseteq Range(index)

\* With skills active, a network call runs only under one that came with the
\* program or that the user agreed to (authorize_loaded_skill_tool: "at least
\* one reviewed manifest must declare the capability").
NetworkAgreed ==
    executed # None /\ executed.active # {} /\ executed.call.tool = "bash" /\ executed.call.network =>
        \E s \in executed.active : s.permissions.network /\ (s = Seed \/ s = agreed[s.title])

\* An update that audits as harmless allows no call the skill did not (audit_skill
\* with previous_permissions: an update that widens permissions needs approval).
UpdatesNarrow ==
    \A i \in DOMAIN index : \A requested \in Permissions :
        AuditSkill("plain", requested, index[i].permissions) = "P2" =>
            \A call \in Call :
                AuthorizeSkillTool(Updated(index[i], requested), call)
                    => AuthorizeSkillTool(index[i], call)
=============================================================================
