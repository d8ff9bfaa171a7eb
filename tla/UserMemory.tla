----------------------------- MODULE UserMemory -----------------------------
(***************************************************************************)
(* s11_user_memory/code.py: the profile and the preferences of one user,   *)
(* the readable views derived from them, and the first-run setup.          *)
(*                                                                         *)
(* An operation reads the canonical files, computes what it will write and *)
(* replaces the files one by one; the process may die between two of them. *)
(* Preference keys do not share anything: one is modelled.                 *)
(***************************************************************************)
EXTENDS Naturals, Sequences, SequencesExt

CONSTANTS
    Value,          \* values of the preference
    Fact,           \* values of the profile
    Event,          \* source_event_id
    MaxTime,        \* bound on the clock
    MaxRevision,    \* bound on the revisions
    MaxCrashes,     \* bound on the deaths of the process
    None

VARIABLES
    disk,           \* the files
    todo,           \* the writes the operation still makes
    now,            \* the wall clock, in steps of evidence
    shown,          \* what the last prompt showed, and when
    forgotten,      \* when the preference was last forgotten
    written,        \* contents each revision had
    crashes         \* bound: deaths

vars == <<disk, todo, now, shown, forgotten, written, crashes>>

-----------------------------------------------------------------------------
(* Files and views *)

NoPreferences == [live |-> None, tomb |-> None]
Fresh == [profile |-> None, preferences |-> NoPreferences, memory |-> None,
          soul |-> FALSE, identity |-> FALSE, user |-> None, bootstrap |-> FALSE]

Live == disk.preferences.live
Tomb == disk.preferences.tomb

IsActive(p, at) == p # None /\ (p.expires = None \/ at < p.expires)

RenderPreferences(p, at) == IF IsActive(p, at) THEN p.value ELSE None

IsIdentityEstablished == disk.profile # None /\ disk.soul /\ disk.identity

Put(file, content) == [file |-> file, content |-> content]
StorePreferences(live, tomb) ==
    <<Put("preferences", [live |-> live, tomb |-> tomb]), Put("memory", RenderPreferences(live, now))>>

-----------------------------------------------------------------------------
Init ==
    /\ disk = Fresh /\ todo = <<>>
    /\ now = 1
    /\ shown = None
    /\ forgotten = 0
    /\ written = {}
    /\ crashes = 0

Idle == todo = <<>>

Tick ==
    /\ now < MaxTime
    /\ now' = now + 1
    /\ UNCHANGED <<disk, todo, shown, forgotten, written, crashes>>

\* Faulty variant: a forgotten preference starts over.
RevisionAfterFromOne == IF Live # None THEN Live.revision + 1 ELSE 1

\* Revisions go on after a deletion.
RevisionAfter ==
    IF Live # None THEN Live.revision + 1
    ELSE IF Tomb # None THEN Tomb.revision + 1 ELSE 1

Preference(value, at, expires, event) ==
    [value |-> value, at |-> at, expires |-> expires, event |-> event, revision |-> RevisionAfter]

\* Faulty variant: only what is stored counts.
StaleLiveOnly(p) == Live # None /\ p.at <= Live.at

\* Evidence from before the deletion, or not newer than what is stored.
Stale(p) ==
    \/ Tomb # None /\ p.at <= Tomb.at
    \/ Live # None /\ p.at <= Live.at

\* The same statement again: same event, or no event and no newer time given.
Retry(p, explicit) ==
    /\ Live # None
    /\ ~ (p.event = None /\ explicit /\ p.at > Live.at)
    /\ <<p.value, p.expires, p.event>> = <<Live.value, Live.expires, Live.event>>

\* Evidence carries its own time, which may run ahead of this clock, or gets
\* the time of the call.
SetPreference(p, explicit) ==
    /\ Idle
    /\ p.revision <= MaxRevision
    /\ explicit \/ p.at = now
    /\ ~ Retry(p, explicit) /\ ~ Stale(p)
    /\ todo' = StorePreferences(p, None)
    /\ UNCHANGED <<disk, now, shown, forgotten, written, crashes>>

\* Not before the evidence it forgets.
DeletedAt == IF Live.at > now THEN Live.at ELSE now

\* With a time of its own, an old deletion does not undo newer evidence.
DeletePreference(at) ==
    /\ Idle
    /\ Live # None
    /\ at = DeletedAt \/ at > Live.at
    /\ todo' = StorePreferences(None, [at |-> at, revision |-> Live.revision])
    /\ UNCHANGED <<disk, now, shown, forgotten, written, crashes>>

\* update_profile; None removes the fact.  The view is written in any case.
UpdateProfile(fact) ==
    /\ Idle
    /\ IsIdentityEstablished
    /\ disk.profile # fact \/ disk.user # fact
    /\ todo' = (IF fact = disk.profile THEN <<>> ELSE <<Put("profile", fact)>>) \o <<Put("user", fact)>>
    /\ UNCHANGED <<disk, now, shown, forgotten, written, crashes>>

\* The program starts on a user without an identity.
CreateBootstrap ==
    /\ Idle
    /\ ~ disk.bootstrap /\ ~ IsIdentityEstablished
    /\ todo' = <<Put("bootstrap", TRUE)>>
    /\ UNCHANGED <<disk, now, shown, forgotten, written, crashes>>

\* Faulty variant: the setup instruction goes first.
CompleteUnsetFirst(fact, p) ==
    /\ Idle
    /\ disk.bootstrap
    /\ p.revision <= MaxRevision /\ p.at = now /\ p.expires = None /\ p.event = None
    /\ Retry(p, FALSE) \/ ~ Stale(p)
    /\ todo' = <<Put("bootstrap", FALSE), Put("soul", TRUE), Put("identity", TRUE), Put("profile", fact), Put("user", fact)>>
                 \o IF Retry(p, FALSE) THEN <<>> ELSE StorePreferences(p, None)
    /\ UNCHANGED <<disk, now, shown, forgotten, written, crashes>>

\* save_identity, set_preference, delete_bootstrap.
Complete(fact, p) ==
    /\ Idle
    /\ disk.bootstrap
    /\ p.revision <= MaxRevision /\ p.at = now /\ p.expires = None /\ p.event = None
    /\ Retry(p, FALSE) \/ ~ Stale(p)
    /\ todo' = <<Put("soul", TRUE), Put("identity", TRUE), Put("profile", fact), Put("user", fact)>>
                 \o (IF Retry(p, FALSE) THEN <<>> ELSE StorePreferences(p, None))
                 \o <<Put("bootstrap", FALSE)>>
    /\ UNCHANGED <<disk, now, shown, forgotten, written, crashes>>

\* /reset-id removes the files of this user in this order, and the program ends.
Reset ==
    /\ Idle
    /\ IsIdentityEstablished
    /\ todo' = <<Put("profile", None), Put("preferences", NoPreferences), Put("memory", None),
                 Put("soul", FALSE), Put("identity", FALSE), Put("user", None),
                 Put("bootstrap", FALSE), Put("bootstrap", TRUE)>>
    /\ UNCHANGED <<disk, now, shown, forgotten, written, crashes>>

\* Faulty variant: the view is taken as it is.
GetContextUnrepaired ==
    /\ Idle
    /\ IsIdentityEstablished
    /\ shown' = [user |-> disk.user, memory |-> disk.memory, at |-> now]
    /\ UNCHANGED <<disk, todo, now, forgotten, written, crashes>>

\* get_context_for_agent: views that are not what the files say are repaired,
\* and what is sent comes from the files.
GetContext ==
    LET memory == RenderPreferences(Live, now) IN
    /\ Idle
    /\ IsIdentityEstablished
    /\ disk' = [disk EXCEPT !.user = disk.profile, !.memory = memory]
    /\ shown' = [user |-> disk'.user, memory |-> memory, at |-> now]
    /\ UNCHANGED <<todo, now, forgotten, written, crashes>>

\* A file is replaced.
WriteFile ==
    LET w == Head(todo) IN
    /\ todo # <<>>
    /\ disk' = [disk EXCEPT ![w.file] = w.content]
    /\ todo' = Tail(todo)
    /\ forgotten' = IF w.file = "preferences" /\ w.content = NoPreferences THEN 0
                    ELSE IF w.file = "preferences" /\ w.content.tomb # None THEN w.content.tomb.at
                    ELSE forgotten
    /\ written' = IF w.file # "preferences" THEN written
                  ELSE IF w.content = NoPreferences THEN {}
                  ELSE IF w.content.live = None THEN written ELSE written \cup {w.content.live}
    /\ UNCHANGED <<now, shown, crashes>>

\* The process dies, and the program is started again.
Crash ==
    /\ todo # <<>>
    /\ crashes < MaxCrashes
    /\ crashes' = crashes + 1
    /\ todo' = <<>>
    /\ UNCHANGED <<disk, now, shown, forgotten, written>>

Next ==
    \/ Tick \/ CreateBootstrap \/ Reset \/ GetContext \/ WriteFile \/ Crash
    \/ \E value \in Value :
         \/ \E at \in 1..MaxTime, lasts \in {0, 1}, event \in Event \cup {None}, explicit \in BOOLEAN :
              SetPreference(Preference(value, at, IF lasts = 0 THEN None ELSE at + lasts, event), explicit)
         \/ \E fact \in Fact : Complete(fact, Preference(value, now, None, None))
    \/ \E at \in 1..MaxTime : DeletePreference(at)
    \/ \E fact \in Fact \cup {None} : UpdateProfile(fact)

Spec == Init /\ [][Next]_vars

-----------------------------------------------------------------------------
(* Properties *)

\* A forgotten preference comes back on newer evidence only, whatever is
\* replayed and whatever crashes came between (set_preference's tombstone check).
StaysForgotten == Live # None => Live.at > forgotten

\* A revision number names one statement, across deletion and recreation.
RevisionsNameOne == \A p, q \in written : p.revision = q.revision => p = q

\* The prompt shows what the files say at its time: no forgotten or expired
\* preference, no removed fact, however stale the views were.
ShowsCurrent ==
    shown' # shown =>
        /\ shown'.user = disk.profile
        /\ shown'.memory = (IF IsActive(Live, now) THEN Live.value ELSE None)
PromptsCurrent == [][ShowsCurrent]_vars

Resetting == Last(todo).file = "bootstrap" /\ Last(todo).content

\* When the setup instruction goes, identity and preference are on disk
\* (delete_bootstrap: "only after both user and assistant identity exist").
UnsetsComplete == disk.bootstrap /\ ~ disk'.bootstrap /\ ~ Resetting => IsIdentityEstablished /\ Live # None
SetupComplete == [][UnsetsComplete]_vars
=============================================================================
