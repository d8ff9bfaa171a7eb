---------------------------- MODULE SandboxAudit ----------------------------
(***************************************************************************)
(* s23_audit_sandbox/code.py: commands pass a sandbox check, and every     *)
(* attempt and result goes into the day's hash chain and its head anchor,  *)
(* written one after the other by a process that may die in between.       *)
(*                                                                         *)
(* A line of the log knows the place of the line it was chained to, and    *)
(* whether its newline was written.  The anchor is the number of lines it  *)
(* was written for.                                                        *)
(***************************************************************************)
EXTENDS Naturals, Sequences, FiniteSets

CONSTANTS
    MaxCommands, MaxCrashes,            \* bounds
    None,           \* no anchor
    Cut, Split,     \* a last line or an anchor cut short; a last line cut inside a character
    Garbage         \* a complete line that cannot be read

VARIABLES
    pc,             \* where run_with_sandbox is, or "down"
    command,        \* the command in work
    log, anchor,    \* the two files of the day
    executed,       \* commands handed to the shell
    crashes,
    tears,          \* lines cut short so far, if only of their newline
    behind          \* a process died between a line and its anchor, not made good since

vars == <<pc, command, log, anchor, executed, crashes, tears, behind>>

Level == {"BLOCKED", "HIGH_RISK", "DESTRUCTIVE", "SAFE", "UNKNOWN"}

Init ==
    /\ pc = "ready"
    /\ command = [n |-> 0, level |-> "SAFE", blocked_path |-> FALSE, disabled |-> FALSE]
    /\ log = <<>> /\ anchor = None
    /\ executed = {}
    /\ crashes = 0 /\ tears = 0 /\ behind = FALSE

-----------------------------------------------------------------------------
(* Audit log *)

\* The last line's hash, or the first hash if it cannot be read.
PrevHash == IF log = <<>> \/ log[Len(log)] = Garbage THEN 0 ELSE Len(log)

Unreadable(i) == log[i] \in {Cut, Split, Garbage}

\* The last line has no newline: all of it was written but that, or less.
WholeTail == log # <<>> /\ ~ Unreadable(Len(log)) /\ ~ log[Len(log)].ended
Unended == WholeTail \/ (log # <<>> /\ log[Len(log)] = Cut)

\* read_text decodes the whole file before anything is appended.
Undecodable == log # <<>> /\ log[Len(log)] = Split

\* The entry that is due.
Entry ==
    LET what == [block |-> "sandbox_block", attempt |-> "command_execute", result |-> "command_result"] IN
    [n |-> command.n, what |-> what[pc]]
Line(ended) == [item |-> Entry, prev |-> PrevHash, ended |-> ended]

\* A line that follows one without its newline is glued to it.
WithLine == IF Unended THEN [log EXCEPT ![Len(log)] = Garbage] ELSE Append(log, Line(TRUE))

AppendLine(next) ==
    /\ ~ Undecodable
    /\ log' = WithLine
    /\ pc' = next
    /\ UNCHANGED <<command, anchor, executed, crashes, tears, behind>>

\* Faulty variant: one more than the anchor had.
CountedFromAnchor == IF anchor \in {None, Cut} THEN 1 ELSE anchor + 1

\* The lines are counted again each time.
Counted == Len(log)

WriteAnchor(next) ==
    /\ anchor' = Counted
    /\ behind' = FALSE
    /\ pc' = next
    /\ UNCHANGED <<command, log, executed, crashes, tears>>

VerifyChain ==
    /\ \A i \in DOMAIN log : ~ Unreadable(i) /\ log[i].prev = i - 1
    /\ anchor # None => anchor = Len(log)

-----------------------------------------------------------------------------
(* run_with_sandbox *)

\* Faulty variant: the personal zones are left to the audit.
SandboxAllowsZones(c) == c.level # "BLOCKED" /\ ~ c.blocked_path

\* check_sandbox
SandboxAllows(c) == c.level \notin {"BLOCKED", "HIGH_RISK"} /\ ~ c.blocked_path

Submit ==
    /\ pc = "ready" /\ command.n < MaxCommands
    /\ \E level \in Level, blocked_path \in BOOLEAN, disabled \in BOOLEAN :
         /\ command' = [n |-> command.n + 1, level |-> level,
                         blocked_path |-> blocked_path, disabled |-> disabled]
         /\ pc' = IF disabled \/ SandboxAllows(command') THEN "attempt" ELSE "block"
    /\ UNCHANGED <<log, anchor, executed, crashes, tears, behind>>

AuditBlock == pc = "block" /\ AppendLine("block_anchor")

\* Faulty variant: the shell is started before the attempt is written down.
AttemptUnaudited ==
    /\ pc = "attempt"
    /\ pc' = "attempt_anchor"
    /\ UNCHANGED <<command, log, anchor, executed, crashes, tears, behind>>

AuditAttempt == pc = "attempt" /\ AppendLine("attempt_anchor")
AuditResult == pc = "result" /\ AppendLine("result_anchor")

\* The exception ends the program: that of a result is caught, and raised again by the
\* entry that reports it.
AuditRaises ==
    /\ pc \in {"block", "attempt", "result"} /\ Undecodable
    /\ pc' = "down"
    /\ UNCHANGED <<command, log, anchor, executed, crashes, tears, behind>>

AnchorEntry ==
    \/ pc \in {"block_anchor", "result_anchor"} /\ WriteAnchor("ready")
    \/ pc = "attempt_anchor" /\ WriteAnchor("execute")

\* The shell ends, fails or is timed out: each has its own entry.
Execute ==
    /\ pc = "execute"
    /\ executed' = executed \cup {command}
    /\ pc' = "result"
    /\ UNCHANGED <<command, log, anchor, crashes, tears, behind>>

-----------------------------------------------------------------------------
\* What a death in the write of a line leaves at the end of the log: a part of the
\* line, cut between two characters or inside one, or all but its newline.
CutLines ==
    IF Unended THEN {[log EXCEPT ![Len(log)] = part] : part \in {Cut, Split}}
    ELSE {Append(log, part) : part \in {Cut, Split, Line(FALSE)}}

\* The process dies: between two writes, in the write of a line, in that of
\* the anchor, which empties the file first, or while the shell runs.
Crash ==
    /\ pc # "down" /\ crashes < MaxCrashes
    /\ crashes' = crashes + 1
    /\ pc' = "down"
    /\ \/ behind' = (behind \/ pc \in {"block_anchor", "attempt_anchor", "result_anchor"})
          /\ UNCHANGED <<log, anchor, tears, executed>>
       \/ /\ pc \in {"block", "attempt", "result"} /\ ~ Undecodable
          /\ log' \in CutLines
          /\ tears' = tears + 1 /\ behind' = TRUE
          /\ UNCHANGED <<anchor, executed>>
       \/ /\ pc \in {"block_anchor", "attempt_anchor", "result_anchor"}
          /\ anchor' = Cut /\ behind' = TRUE
          /\ UNCHANGED <<log, tears, executed>>
       \/ /\ pc = "execute"
          /\ executed' = executed \cup {command}
          /\ UNCHANGED <<log, anchor, tears, behind>>
    /\ UNCHANGED command

Restart ==
    /\ pc = "down"
    /\ pc' = "ready"
    /\ UNCHANGED <<command, log, anchor, executed, crashes, tears, behind>>

Next ==
    \/ Submit \/ AuditBlock \/ AuditAttempt \/ AuditResult \/ AuditRaises \/ AnchorEntry
    \/ Execute \/ Crash \/ Restart

Spec == Init /\ [][Next]_vars

-----------------------------------------------------------------------------
(* Properties *)

\* No command the sandbox refuses reaches the shell unless the sandbox was
\* disabled for it, and the log has the attempt of every command that did, at
\* most one lost for each line a crash cut short (run_with_sandbox: "Audit the
\* execution attempt").
AttemptsAudited ==
    /\ \A c \in executed : c.disabled \/ (c.level \notin {"BLOCKED", "HIGH_RISK"} /\ ~ c.blocked_path)
    /\ LET attempt(c) == [n |-> c.n, what |-> "command_execute"] IN
       Cardinality({c \in executed :
           \A i \in DOMAIN log : Unreadable(i) \/ log[i].item # attempt(c)}) <= tears

\* The chain verifies after every append that came to its end, whatever died
\* between a line and its anchor before.  A torn line is passed over only while it
\* is the last, lacks nothing but its newline, and the day has no anchor yet
\* (append_audit_entry writes the anchor last, from the lines it counts).
VerifyTells ==
    pc = "ready" =>
        /\ tears = 0 /\ ~ behind => VerifyChain
        /\ tears > 0 /\ VerifyChain => tears = 1 /\ WholeTail /\ anchor = None
=============================================================================
