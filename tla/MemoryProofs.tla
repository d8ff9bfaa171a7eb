---------------------------- MODULE MemoryProofs ----------------------------
(***************************************************************************)
(* Proofs about the scenarios of MCMemory, for any values of its           *)
(* constants: user memory, reflection memory, skill releases, the remote   *)
(* store, and workspace memory with its refinement of Adjudication.  Each  *)
(* scenario has an invariant of its own, which says of the writes that are *)
(* still to come, or of the step a process is at, what they will make of   *)
(* the files.                                                              *)
(***************************************************************************)
EXTENDS MCMemory, FiniteSetTheorems, SequenceTheorems, TLAPS

-----------------------------------------------------------------------------
(* User memory *)

Preference == [value : Value, at : Nat, expires : Nat \cup {None},
               event : SourceEvent \cup {None}, revision : Nat]
Tombstone == [at : Nat, revision : Nat]
Preferences == [live : Preference \cup {None}, tomb : Tombstone \cup {None}]
Profile == ProfileFact \cup {None}
Files == [profile : Profile, preferences : Preferences, memory : Value \cup {None},
          soul : BOOLEAN, identity : BOOLEAN, user : Profile, bootstrap : BOOLEAN]

\* One file and what replaces it.
Write ==
    [file : {"preferences"}, content : Preferences]
        \cup [file : {"memory"}, content : Value \cup {None}]
        \cup [file : {"profile", "user"}, content : Profile]
        \cup [file : {"soul", "identity", "bootstrap"}, content : BOOLEAN]

UserTypes ==
    /\ disk \in Files
    /\ todo \in Seq(Write)
    /\ now \in Nat /\ now > 0
    /\ forgotten \in Nat
    /\ written \subseteq Preference

\* The revision of what is stored last.
Revision ==
    IF User!Live # None THEN User!Live.revision
    ELSE IF User!Tomb # None THEN User!Tomb.revision ELSE 0

\* What the preferences file says of what was written and forgotten.
PreferencesInv ==
    /\ User!Live = None \/ User!Tomb = None
    /\ User!Live # None => User!Live.at > forgotten
    /\ User!Tomb # None => forgotten = User!Tomb.at
    /\ User!Live = None /\ User!Tomb = None => forgotten = 0 /\ written = {}
    /\ \A q \in written : q.revision <= Revision
    /\ \A p, q \in written : p.revision = q.revision => p = q

\* A write of the preferences file that may come next.
Legitimate(content) ==
    \/ content = User!NoPreferences
    \/ /\ content.tomb = None /\ content.live # None
       /\ content.live.at > forgotten /\ content.live.revision = Revision + 1
    \/ /\ content.live = None /\ content.tomb # None
       /\ User!Live # None /\ content.tomb.revision = Revision

\* The preferences are written once by an operation.
PendingInv ==
    /\ \A i \in DOMAIN todo : todo[i].file = "preferences" => Legitimate(todo[i].content)
    /\ \A i, j \in DOMAIN todo :
          todo[i].file = "preferences" /\ todo[j].file = "preferences" => i = j

\* The setup instruction is the last thing that goes.
Unsets(w) == w.file = "bootstrap" /\ ~ w.content
Awaits(file) == \E i \in DOMAIN todo : todo[i].file = file
SetupInv ==
    (\E i \in DOMAIN todo : Unsets(todo[i])) /\ ~ User!Resetting =>
        /\ \A i \in DOMAIN todo : todo[i].file = "bootstrap" => i = Len(todo)
        /\ \A i \in DOMAIN todo :
              /\ todo[i].file \in {"soul", "identity"} => todo[i].content
              /\ todo[i].file = "profile" => todo[i].content # None
              /\ todo[i].file = "preferences" => todo[i].content.live # None
        /\ disk.soul \/ Awaits("soul")
        /\ disk.identity \/ Awaits("identity")
        /\ disk.profile # None \/ Awaits("profile")
        /\ User!Live # None \/ Awaits("preferences")

UserInv == UserTypes /\ PreferencesInv /\ PendingInv /\ SetupInv

\* A fresh directory has nothing written and nothing forgotten (Fresh).
LEMMA UserStart == User!Init => UserInv
<1> SUFFICES ASSUME User!Init PROVE UserInv
  OBVIOUS
<1> USE DEF User!Init, User!Fresh, User!NoPreferences, User!Live, User!Tomb
<1>1. UserTypes
  BY DEF UserTypes, Files, Preferences, Profile
<1>2. PreferencesInv
  BY DEF PreferencesInv, Revision
<1>3. PendingInv /\ SetupInv
  BY DEF PendingInv, SetupInv
<1> QED BY <1>1, <1>2, <1>3 DEF UserInv

\* The writes of an operation, put together from its parts.
LEMMA JoinTwo == ASSUME NEW a, NEW b PROVE <<a>> \o <<b>> = <<a, b>>
<1> DEFINE S == {a, b}
           w == <<a>> \o <<b>>
           t == <<a, b>>
<1>1. <<a>> \in Seq(S) /\ <<b>> \in Seq(S) /\ t \in Seq(S) /\ Len(t) = 2 /\ t[1] = a /\ t[2] = b
  OBVIOUS
<1>2. w \in Seq(S) /\ Len(w) = 2 /\ w[1] = a /\ w[2] = b
  BY <1>1, ConcatProperties
<1> HIDE DEF S, w, t
<1>3. \A i \in 1 .. Len(w) : w[i] = t[i]
  BY <1>1, <1>2
<1>4. w = t
  BY <1>1, <1>2, <1>3, SeqEqual
<1> QED BY <1>4 DEF w, t

\* The same, of a setup that stores no new preference.
LEMMA JoinFive == ASSUME NEW a, NEW b, NEW c, NEW d, NEW e
  PROVE (<<a, b, c, d>> \o <<>>) \o <<e>> = <<a, b, c, d, e>>
<1> DEFINE S == {a, b, c, d, e}
           w == <<a, b, c, d>> \o <<e>>
           t == <<a, b, c, d, e>>
<1>1. /\ <<a, b, c, d>> \in Seq(S) /\ <<e>> \in Seq(S) 
      /\ t \in Seq(S) /\ Len(t) = 5 /\ t[1] = a /\ t[2] = b /\ t[3] = c /\ t[4] = d /\ t[5] = e
  OBVIOUS
<1>2. <<a, b, c, d>> \o <<>> = <<a, b, c, d>>
  BY <1>1, ConcatEmptySeq
<1>3. /\ w \in Seq(S) /\ Len(w) = 5
      /\ w[1] = a /\ w[2] = b /\ w[3] = c /\ w[4] = d /\ w[5] = e
  BY <1>1, ConcatProperties
<1> HIDE DEF S, w, t
<1>4. \A i \in 1 .. Len(w) : w[i] = t[i]
  BY <1>1, <1>3
<1>5. w = t
  BY <1>1, <1>3, <1>4, SeqEqual
<1> QED BY <1>2, <1>5 DEF w, t

\* The same, of a setup that stores one.
LEMMA JoinSeven == ASSUME NEW a, NEW b, NEW c, NEW d, NEW e, NEW f, NEW g
  PROVE (<<a, b, c, d>> \o <<e, f>>) \o <<g>> = <<a, b, c, d, e, f, g>>
<1> DEFINE S == {a, b, c, d, e, f, g}
           h == <<a, b, c, d>>
           v == h \o <<e, f>>
           w == v \o <<g>>
           t == <<a, b, c, d, e, f, g>>
<1>1. /\ h \in Seq(S) /\ <<e, f>> \in Seq(S) /\ <<g>> \in Seq(S)
      /\ t \in Seq(S) /\ Len(t) = 7 /\ t[1] = a /\ t[2] = b /\ t[3] = c /\ t[4] = d
      /\ t[5] = e /\ t[6] = f /\ t[7] = g
  OBVIOUS
<1>2. /\ v \in Seq(S) /\ Len(v) = 6
      /\ v[1] = a /\ v[2] = b /\ v[3] = c /\ v[4] = d /\ v[5] = e /\ v[6] = f
  BY <1>1, ConcatProperties
<1> HIDE DEF v, S
<1>3. /\ w \in Seq(S) /\ Len(w) = 7
      /\ \A i \in 1..6 : w[i] = v[i]
      /\ w[7] = g
  <2>1. Len(<<g>>) = 1 /\ <<g>>[1] = g
    OBVIOUS
  <2> DEFINE l == <<g>>
  <2> HIDE DEF l
  <2>2. l \in Seq(S) /\ Len(l) = 1 /\ l[1] = g
    BY <1>1, <2>1 DEF l
  <2>3. /\ v \o l \in Seq(S) /\ Len(v \o l) = 7
        /\ \A i \in 1..7 : (v \o l)[i] = IF i <= 6 THEN v[i] ELSE l[i - 6]
    <3>1. /\ v \o l \in Seq(S) /\ Len(v \o l) = Len(v) + Len(l)
          /\ \A i \in 1 .. Len(v) + Len(l) : (v \o l)[i] = IF i <= Len(v) THEN v[i] ELSE l[i - Len(v)]
      BY <1>2, <2>2, ConcatProperties
    <3> QED BY <1>2, <2>2, <3>1
  <2> QED BY <2>2, <2>3 DEF l
<1> HIDE DEF w, t
<1>4. \A i \in 1 .. Len(w) : w[i] = t[i]
  BY <1>1, <1>2, <1>3
<1>5. w = t
  BY <1>1, <1>3, <1>4, SeqEqual
<1> QED BY <1>5 DEF w, v, t

\* The operations leave the files alone until they write.
LEMMA UserStarts ==
    ASSUME UserInv, UNCHANGED <<disk, now, forgotten, written>>,
           todo' \in Seq(Write), PendingInv', SetupInv'
    PROVE  UserInv'
<1>1. UserTypes'
  BY DEF UserInv, UserTypes
<1>2. PreferencesInv'
  BY DEF UserInv, PreferencesInv, Revision, User!Live, User!Tomb
<1> QED BY <1>1, <1>2 DEF UserInv

\* The preference an operation stores is newer than what was forgotten, and has the next revision.
LEMMA StoresNext ==
    ASSUME UserInv, NEW p \in Preference, p.at > 0, p.revision = User!RevisionAfter, ~ User!Stale(p)
    PROVE  /\ Legitimate([live |-> p, tomb |-> None])
           /\ [live |-> p, tomb |-> None] \in Preferences
<1> USE UserAssumption DEF UserInv, UserTypes, PreferencesInv, Preference, Tombstone, Preferences, Files,
      User!Live, User!Tomb
<1>1. p # None
  OBVIOUS
<1>2. p.at > forgotten
  BY DEF User!Stale
<1>3. p.revision = Revision + 1
  BY DEF Revision, User!RevisionAfter
<1> QED BY <1>1, <1>2, <1>3 DEF Legitimate

\* What goes into MEMORY.md.
LEMMA RenderedType ==
    ASSUME NEW p \in Preference \cup {None}, NEW at
    PROVE  User!RenderPreferences(p, at) \in Value \cup {None}
  BY DEF User!RenderPreferences, User!IsActive, Preference

\* set_preference stores newer evidence under the next revision.
LEMMA UserSetPreference ==
    ASSUME UserInv, NEW p \in Preference, p.at > 0, p.revision = User!RevisionAfter,
           NEW explicit, User!SetPreference(p, explicit)
    PROVE  UserInv'
<1> DEFINE content == [live |-> p, tomb |-> None]
           memory == User!RenderPreferences(p, now)
<1>1. Legitimate(content) /\ content \in Preferences
  BY StoresNext DEF User!SetPreference
<1>2. memory \in Value \cup {None}
  BY RenderedType
<1>3. /\ todo' = <<[file |-> "preferences", content |-> content], [file |-> "memory", content |-> memory]>>
      /\ UNCHANGED <<disk, now, forgotten, written>>
  BY DEF User!SetPreference, User!StorePreferences, User!Put
<1> HIDE DEF content, memory
<1>4. todo' \in Seq(Write)
  BY <1>1, <1>2, <1>3 DEF Write
<1>5. Legitimate(content)'
  BY <1>1, <1>3 DEF Legitimate, Revision, User!Live, User!Tomb
<1>6. PendingInv'
  BY <1>3, <1>5 DEF PendingInv
<1>7. SetupInv'
  BY <1>3 DEF SetupInv, Unsets
<1> QED BY <1>3, <1>4, <1>6, <1>7, UserStarts

\* delete_preference leaves a tombstone that is not before what it forgets.
LEMMA UserDeletePreference ==
    ASSUME UserInv, NEW at \in Nat, User!DeletePreference(at)
    PROVE  UserInv'
<1> DEFINE content == [live |-> None, tomb |-> [at |-> at, revision |-> User!Live.revision]]
           memory == User!RenderPreferences(None, now)
<1>1. User!Live \in Preference /\ User!Live # None
  BY DEF UserInv, UserTypes, Files, Preferences, User!Live, User!DeletePreference
<1>2. content \in Preferences
  BY <1>1 DEF Preferences, Tombstone, Preference
<1>3. Legitimate(content)
  BY <1>1, <1>2, UserAssumption DEF Legitimate, Revision, Preference, Tombstone
<1>4. memory \in Value \cup {None}
  BY RenderedType
<1>5. /\ todo' = <<[file |-> "preferences", content |-> content], [file |-> "memory", content |-> memory]>>
      /\ UNCHANGED <<disk, now, forgotten, written>>
  BY DEF User!DeletePreference, User!StorePreferences, User!Put
<1>6. UNCHANGED <<User!Live, User!Tomb>>
  BY <1>5 DEF User!Live, User!Tomb
<1>7. Legitimate(content)'
  BY <1>3, <1>5, <1>6 DEF Legitimate, Revision
<1>11. content' = content
  BY <1>6
<1> HIDE DEF content, memory
<1>8. todo' \in Seq(Write)
  BY <1>2, <1>4, <1>5 DEF Write
<1>9. PendingInv'
  <2>1. DOMAIN todo' = 1..2 /\ todo'[1] = [file |-> "preferences", content |-> content] /\ todo'[2].file = "memory"
    BY <1>5
  <2> QED BY <1>5, <1>7, <1>11, <2>1 DEF PendingInv
<1>10. SetupInv'
  BY <1>5 DEF SetupInv, Unsets
<1> QED BY <1>5, <1>8, <1>9, <1>10, UserStarts

\* update_profile writes the profile and its view, and no preference.
LEMMA UserUpdateProfile ==
    ASSUME UserInv, NEW fact \in Profile, User!UpdateProfile(fact)
    PROVE  UserInv'
<1>1. UNCHANGED <<disk, now, forgotten, written>>
  BY DEF User!UpdateProfile
<1>2. \/ todo' = <<[file |-> "user", content |-> fact]>>
      \/ todo' = <<[file |-> "profile", content |-> fact], [file |-> "user", content |-> fact]>>
  <2>1. CASE fact = disk.profile
    <3>1. todo' = <<>> \o <<[file |-> "user", content |-> fact]>>
      BY <2>1 DEF User!UpdateProfile, User!Put
    <3>2. <<>> \o <<[file |-> "user", content |-> fact]>> = <<[file |-> "user", content |-> fact]>>
      BY ConcatEmptySeq
    <3> QED BY <3>1, <3>2
  <2>2. CASE fact # disk.profile
    <3>1. todo' = <<[file |-> "profile", content |-> fact]>> \o <<[file |-> "user", content |-> fact]>>
      BY <2>2 DEF User!UpdateProfile, User!Put
    <3> QED BY <3>1, JoinTwo
  <2> QED BY <2>1, <2>2
<1>3. todo' \in Seq(Write)
  <2>1. /\ [file |-> "user", content |-> fact] \in Write
        /\ [file |-> "profile", content |-> fact] \in Write
    BY DEF Write
  <2>2. CASE todo' = <<[file |-> "user", content |-> fact]>>
    BY <2>1, <2>2
  <2>3. CASE todo' = <<[file |-> "profile", content |-> fact], [file |-> "user", content |-> fact]>>
    BY <2>1, <2>3
  <2> QED BY <1>2, <2>2, <2>3
<1>4. PendingInv' /\ SetupInv'
  BY <1>2 DEF PendingInv, SetupInv, Unsets
<1> QED BY <1>1, <1>3, <1>4, UserStarts

\* Starting the program only writes the setup instruction.
LEMMA UserCreateBootstrap == ASSUME UserInv, User!CreateBootstrap PROVE UserInv'
<1>1. UNCHANGED <<disk, now, forgotten, written>> /\ todo' = <<[file |-> "bootstrap", content |-> TRUE]>>
  BY DEF User!CreateBootstrap, User!Put
<1>2. todo' \in Seq(Write)
  BY <1>1 DEF Write
<1>3. PendingInv' /\ SetupInv'
  BY <1>1 DEF PendingInv, SetupInv, Unsets
<1> QED BY <1>1, <1>2, <1>3, UserStarts

\* /reset-id writes the preferences file once, and the setup instruction again at the end.
LEMMA UserReset == ASSUME UserInv, User!Reset PROVE UserInv'
<1>1. UNCHANGED <<disk, now, forgotten, written>>
  BY DEF User!Reset
<1>2. todo' = <<[file |-> "profile", content |-> None],
                [file |-> "preferences", content |-> User!NoPreferences],
                [file |-> "memory", content |-> None],
                [file |-> "soul", content |-> FALSE], [file |-> "identity", content |-> FALSE],
                [file |-> "user", content |-> None],
                [file |-> "bootstrap", content |-> FALSE], [file |-> "bootstrap", content |-> TRUE]>>
  BY DEF User!Reset, User!Put
<1>3. todo' \in Seq(Write)
  BY <1>2 DEF Write, Profile, Preferences, User!NoPreferences
<1>4. PendingInv'
  BY <1>2 DEF PendingInv, Legitimate
<1>5. SetupInv'
  <2>1. User!Resetting'
    BY <1>2 DEF User!Resetting, User!Last
  <2> QED BY <2>1 DEF SetupInv
<1> QED BY <1>1, <1>3, <1>4, <1>5, UserStarts

\* The setup writes identity and preference first, and the instruction goes last.
LEMMA UserComplete ==
    ASSUME UserInv, NEW fact \in ProfileFact, NEW p \in Preference, p.revision = User!RevisionAfter,
           User!Complete(fact, p)
    PROVE  UserInv'
<1> DEFINE soul == [file |-> "soul", content |-> TRUE]
           identity == [file |-> "identity", content |-> TRUE]
           profile == [file |-> "profile", content |-> fact]
           user == [file |-> "user", content |-> fact]
           content == [live |-> p, tomb |-> None]
           preferences == [file |-> "preferences", content |-> content]
           memory == [file |-> "memory", content |-> User!RenderPreferences(p, now)]
           done == [file |-> "bootstrap", content |-> FALSE]
<1>1. UNCHANGED <<disk, now, forgotten, written>> /\ fact # None
  BY UserAssumption DEF User!Complete
<1>2. soul \in Write /\ identity \in Write /\ profile \in Write /\ user \in Write /\ done \in Write
  BY DEF Write, Profile
<1>3. CASE User!Retry(p, FALSE)
  <2>1. todo' = <<soul, identity, profile, user, done>>
    <3>1. todo' = (<<soul, identity, profile, user>> \o <<>>) \o <<done>>
      BY <1>3 DEF User!Complete, User!Put
    <3> QED BY <3>1, JoinFive
  <2> HIDE DEF soul, identity, profile, user, done
  <2>2. todo' \in Seq(Write)
    BY <1>2, <2>1
  <2>3. /\ DOMAIN todo' = 1..5 /\ Len(todo') = 5
        /\ todo'[1] = soul /\ todo'[2] = identity /\ todo'[3] = profile
        /\ todo'[4] = user /\ todo'[5] = done
    BY <2>1
  <2>4. User!Live' # None
    BY <1>1, <1>3 DEF User!Retry, User!Live
  <2> USE DEF soul, identity, profile, user, done
  <2>5. PendingInv'
    BY <2>3 DEF PendingInv
  <2>6. SetupInv'
    <3>1. Awaits("soul")' /\ Awaits("identity")' /\ Awaits("profile")'
      BY <2>3 DEF Awaits
    <3> QED BY <1>1, <2>3, <2>4, <3>1 DEF SetupInv
  <2> QED BY <1>1, <2>2, <2>5, <2>6, UserStarts
<1>4. CASE ~ User!Retry(p, FALSE)
  <2>1. todo' = <<soul, identity, profile, user, preferences, memory, done>>
    <3>1. todo' = (<<soul, identity, profile, user>> \o <<preferences, memory>>) \o <<done>>
      BY <1>4 DEF User!Complete, User!Put, User!StorePreferences
    <3> HIDE DEF soul, identity, profile, user, done, preferences, memory
    <3> QED BY <3>1, JoinSeven
  <2>2. Legitimate(content) /\ content \in Preferences
    <3>1. p.at > 0 /\ ~ User!Stale(p)
      BY <1>4 DEF User!Complete, UserInv, UserTypes
    <3> QED BY <3>1, StoresNext
  <2>3. preferences \in Write /\ memory \in Write
    BY <2>2, RenderedType DEF Write
  <2> HIDE DEF soul, identity, profile, user, done, preferences, memory
  <2>4. todo' \in Seq(Write)
    BY <1>2, <2>1, <2>3
  <2>5. /\ DOMAIN todo' = 1..7 /\ Len(todo') = 7
        /\ todo'[1] = soul /\ todo'[2] = identity /\ todo'[3] = profile
        /\ todo'[4] = user /\ todo'[5] = preferences /\ todo'[6] = memory /\ todo'[7] = done
    BY <2>1
  <2>6. Legitimate(content)'
    BY <1>1, <2>2 DEF Legitimate, Revision, User!Live, User!Tomb
  <2>7. p # None
    BY UserAssumption DEF Preference
  <2> USE DEF soul, identity, profile, user, done, preferences
  <2>8. memory.file = "memory"
    BY DEF memory
  <2>9. PendingInv'
    BY <2>5, <2>6, <2>8 DEF PendingInv
  <2>10. SetupInv'
    <3>1. Awaits("soul")' /\ Awaits("identity")' /\ Awaits("profile")' /\ Awaits("preferences")'
      BY <2>5 DEF Awaits
    <3> QED BY <1>1, <2>5, <2>7, <2>8, <3>1 DEF SetupInv
  <2> QED BY <1>1, <2>4, <2>9, <2>10, UserStarts
<1> QED BY <1>3, <1>4

\* Time passes.
LEMMA UserTick == ASSUME UserInv, User!Tick PROVE UserInv'
  BY DEF User!Tick, UserInv, UserTypes, PreferencesInv, Revision, PendingInv, Legitimate, SetupInv,
         Unsets, Awaits, User!Live, User!Tomb, User!Resetting, User!Last

\* A death keeps what was replaced and forgets what was not.
LEMMA UserCrash == ASSUME UserInv, User!Crash PROVE UserInv'
<1>1. UNCHANGED <<disk, now, forgotten, written>> /\ todo' = <<>>
  BY DEF User!Crash
<1>2. todo' \in Seq(Write) /\ PendingInv' /\ SetupInv'
  BY <1>1 DEF PendingInv, SetupInv
<1> QED BY <1>1, <1>2, UserStarts

\* get_context_for_agent repairs views, and leaves the canonical files alone.
LEMMA UserGetContext == ASSUME UserInv, User!GetContext PROVE UserInv'
<1> DEFINE memory == User!RenderPreferences(User!Live, now)
<1>1. /\ disk' = [disk EXCEPT !.user = disk.profile, !.memory = memory]
      /\ todo' = <<>> /\ UNCHANGED <<now, forgotten, written>>
  BY DEF User!GetContext, User!Idle
<1>2. memory \in Value \cup {None}
  <2>1. User!Live \in Preference \cup {None}
    BY DEF UserInv, UserTypes, Files, Preferences, User!Live
  <2> QED BY <2>1, RenderedType
<1> HIDE DEF memory
<1>3. UserTypes'
  <2>1. disk \in Files /\ disk.profile \in Profile
    BY DEF UserInv, UserTypes, Files
  <2>2. [disk EXCEPT !.user = disk.profile, !.memory = memory] \in Files
    BY <1>2, <2>1 DEF Files
  <2> QED BY <1>1, <2>2 DEF UserInv, UserTypes
<1>4. disk'.preferences = disk.preferences
  BY <1>1 DEF UserInv, UserTypes, Files
<1>5. PreferencesInv'
  BY <1>1, <1>4 DEF UserInv, PreferencesInv, Revision, User!Live, User!Tomb
<1>6. PendingInv' /\ SetupInv'
  BY <1>1 DEF PendingInv, SetupInv
<1> QED BY <1>3, <1>5, <1>6 DEF UserInv

\* One file is replaced: what was due is now on disk, and the rest is still due.
LEMMA UserWriteFile == ASSUME UserInv, User!WriteFile PROVE UserInv'
<1> DEFINE w == Head(todo)
<1>1. /\ w \in Write /\ w = todo[1] /\ Len(todo) \in Nat /\ Len(todo) >= 1
      /\ DOMAIN todo = 1 .. Len(todo)
  BY DEF UserInv, UserTypes, User!WriteFile
<1>2. /\ todo' \in Seq(Write) /\ Len(todo') = Len(todo) - 1
      /\ DOMAIN todo' = 1 .. Len(todo) - 1
      /\ \A i \in DOMAIN todo' : i + 1 \in DOMAIN todo /\ todo'[i] = todo[i + 1]
  BY DEF UserInv, UserTypes, User!WriteFile
<1>3. /\ disk' = [disk EXCEPT ![w.file] = w.content]
      /\ now' = now
      /\ forgotten' = IF w.file = "preferences" /\ w.content = User!NoPreferences THEN 0
                      ELSE IF w.file = "preferences" /\ w.content.tomb # None THEN w.content.tomb.at
                      ELSE forgotten
      /\ written' = IF w.file # "preferences" THEN written
                    ELSE IF w.content = User!NoPreferences THEN {}
                    ELSE IF w.content.live = None THEN written ELSE written \cup {w.content.live}
  BY DEF User!WriteFile
<1>4. w.file = "preferences" => Legitimate(w.content) /\ w.content \in Preferences
  BY <1>1 DEF UserInv, PendingInv, Write
<1> HIDE DEF w
<1>5. UserTypes'
  <2>1. disk' \in Files
    BY <1>1, <1>3 DEF UserInv, UserTypes, Files, Write
  <2>2. forgotten' \in Nat
    BY <1>3, <1>4 DEF UserInv, UserTypes, Preferences, Tombstone
  <2>3. written' \subseteq Preference
    BY <1>3, <1>4 DEF UserInv, UserTypes, Preferences
  <2> QED BY <1>2, <1>3, <2>1, <2>2, <2>3 DEF UserInv, UserTypes
<1>6. \A f \in DOMAIN disk : disk'[f] = IF f = w.file THEN w.content ELSE disk[f]
  BY <1>1, <1>3 DEF UserInv, UserTypes, Files, Write
<1>7. DOMAIN disk = {"profile", "preferences", "memory", "soul", "identity", "user", "bootstrap"}
  BY DEF UserInv, UserTypes, Files
<1>8. ASSUME w.file = "preferences" PROVE PreferencesInv' /\ PendingInv'
  <2>1. User!Live' = w.content.live /\ User!Tomb' = w.content.tomb
    BY <1>6, <1>7, <1>8 DEF User!Live, User!Tomb
  <2>2. PreferencesInv'
    <3>1. CASE w.content = User!NoPreferences
      BY <1>3, <1>8, <2>1, <3>1 DEF PreferencesInv, User!NoPreferences
    <3>2. CASE /\ w.content # User!NoPreferences
               /\ w.content.tomb = None /\ w.content.live # None
               /\ w.content.live.at > forgotten /\ w.content.live.revision = Revision + 1
      <4>1. forgotten' = forgotten /\ written' = written \cup {w.content.live}
        BY <1>3, <1>8, <3>2
      <4>2. Revision' = Revision + 1 /\ Revision \in Nat
        BY <2>1, <3>2 DEF Revision, UserInv, UserTypes, Files, Preferences, Preference, Tombstone, User!Live, User!Tomb
      <4>3. \A q \in written : q.revision \in Nat /\ q.revision <= Revision
        BY DEF UserInv, UserTypes, PreferencesInv, Preference
      <4> QED BY <2>1, <3>2, <4>1, <4>2, <4>3 DEF PreferencesInv, UserInv
    <3>3. CASE /\ w.content # User!NoPreferences
               /\ w.content.live = None /\ w.content.tomb # None
               /\ User!Live # None /\ w.content.tomb.revision = Revision
      <4>1. forgotten' = w.content.tomb.at /\ written' = written
        BY <1>3, <1>8, <3>3
      <4>2. Revision' = Revision
        BY <2>1, <3>3 DEF Revision
      <4> QED BY <2>1, <3>3, <4>1, <4>2 DEF PreferencesInv, UserInv
    <3> QED BY <1>4, <1>8, <3>1, <3>2, <3>3 DEF Legitimate
  <2>3. \A i \in DOMAIN todo' : todo'[i].file # "preferences"
    BY <1>1, <1>2, <1>8 DEF UserInv, PendingInv
  <2>4. PendingInv'
    BY <2>3 DEF PendingInv
  <2> QED BY <2>2, <2>4
<1>9. ASSUME w.file # "preferences" PROVE PreferencesInv' /\ PendingInv'
  <2>1. UNCHANGED <<User!Live, User!Tomb, forgotten, written>>
    BY <1>3, <1>6, <1>7, <1>9 DEF User!Live, User!Tomb
  <2>2. PreferencesInv' /\ Revision' = Revision
    BY <2>1 DEF PreferencesInv, Revision, UserInv
  <2>3. \A c : Legitimate(c) => Legitimate(c)'
    BY <2>1, <2>2 DEF Legitimate
  <2>4. PendingInv'
    BY <1>2, <2>3 DEF UserInv, PendingInv
  <2> QED BY <2>2, <2>4
<1>10. PreferencesInv' /\ PendingInv'
  BY <1>8, <1>9
<1>11. SetupInv'
  <2> SUFFICES ASSUME \E i \in DOMAIN todo' : Unsets(todo'[i]), ~ User!Resetting'
               PROVE  /\ \A i \in DOMAIN todo' : todo'[i].file = "bootstrap" => i = Len(todo')
                      /\ \A i \in DOMAIN todo' :
                            /\ todo'[i].file \in {"soul", "identity"} => todo'[i].content
                            /\ todo'[i].file = "profile" => todo'[i].content # None
                            /\ todo'[i].file = "preferences" => todo'[i].content.live # None
                      /\ disk'.soul \/ Awaits("soul")'
                      /\ disk'.identity \/ Awaits("identity")'
                      /\ disk'.profile # None \/ Awaits("profile")'
                      /\ User!Live' # None \/ Awaits("preferences")'
    BY DEF SetupInv, Unsets
  <2>1. ~ User!Resetting
    <3>1. Len(todo') >= 1
      BY <1>1, <1>2
    <3>2. todo'[Len(todo')] = todo[Len(todo)]
      BY <1>1, <1>2, <3>1
    <3> QED BY <3>2 DEF User!Resetting, User!Last
  <2>2. \E i \in DOMAIN todo : Unsets(todo[i])
    BY <1>2
  <2>3. /\ \A i \in DOMAIN todo : todo[i].file = "bootstrap" => i = Len(todo)
        /\ \A i \in DOMAIN todo :
              /\ todo[i].file \in {"soul", "identity"} => todo[i].content
              /\ todo[i].file = "profile" => todo[i].content # None
              /\ todo[i].file = "preferences" => todo[i].content.live # None
        /\ disk.soul \/ Awaits("soul")
        /\ disk.identity \/ Awaits("identity")
        /\ disk.profile # None \/ Awaits("profile")
        /\ User!Live # None \/ Awaits("preferences")
    BY <2>1, <2>2 DEF UserInv, SetupInv
  <2>4. \A i \in DOMAIN todo' : todo'[i].file = "bootstrap" => i = Len(todo')
    <3> SUFFICES ASSUME NEW i \in DOMAIN todo', todo'[i].file = "bootstrap" PROVE i = Len(todo')
      OBVIOUS
    <3>1. todo[i + 1].file = "bootstrap" /\ i + 1 \in DOMAIN todo
      BY <1>2
    <3>2. i + 1 = Len(todo)
      BY <2>3, <3>1
    <3> QED BY <1>1, <1>2, <3>2
  <2>5. \A i \in DOMAIN todo' :
              /\ todo'[i].file \in {"soul", "identity"} => todo'[i].content
              /\ todo'[i].file = "profile" => todo'[i].content # None
              /\ todo'[i].file = "preferences" => todo'[i].content.live # None
    BY <1>2, <2>3
  <2>6. \A f : Awaits(f) => Awaits(f)' \/ w.file = f
    <3> SUFFICES ASSUME NEW f, NEW i \in DOMAIN todo, todo[i].file = f, w.file # f
                 PROVE  Awaits(f)'
      BY DEF Awaits
    <3>1. i # 1 /\ i - 1 \in DOMAIN todo' /\ todo'[i - 1] = todo[i]
      BY <1>1, <1>2
    <3> QED BY <3>1 DEF Awaits
  <2>7. /\ w.file \in {"soul", "identity"} => w.content
        /\ w.file = "profile" => w.content # None
        /\ w.file = "preferences" => w.content.live # None
    BY <1>1, <2>3
  <2>8. disk'.soul \/ Awaits("soul")'
    BY <1>6, <1>7, <2>3, <2>6, <2>7
  <2>9. disk'.identity \/ Awaits("identity")'
    BY <1>6, <1>7, <2>3, <2>6, <2>7
  <2>10. disk'.profile # None \/ Awaits("profile")'
    BY <1>6, <1>7, <2>3, <2>6, <2>7
  <2>11. User!Live' # None \/ Awaits("preferences")'
    BY <1>6, <1>7, <2>3, <2>6, <2>7 DEF User!Live
  <2> QED BY <2>4, <2>5, <2>8, <2>9, <2>10, <2>11
<1> QED BY <1>5, <1>10, <1>11 DEF UserInv

\* The preference an operation makes carries the revision after the stored one.
LEMMA NextPreference ==
    ASSUME UserInv, NEW value \in Value, NEW at \in Nat, NEW expires \in Nat \cup {None},
           NEW event \in SourceEvent \cup {None}
    PROVE  /\ User!Preference(value, at, expires, event) \in Preference
           /\ User!Preference(value, at, expires, event).at = at
           /\ User!Preference(value, at, expires, event).revision = User!RevisionAfter
<1>1. User!RevisionAfter \in Nat
  BY DEF UserInv, UserTypes, Files, Preferences, Preference, Tombstone, User!RevisionAfter, User!Live, User!Tomb
<1> QED BY <1>1 DEF User!Preference, Preference

\* Every step of the user memory keeps its invariant.
LEMMA UserNext == ASSUME UserInv, User!Next PROVE UserInv'
<1>1. CASE \E value \in Value : \E at \in 1 .. MaxTime, lasts \in {0, 1}, event \in SourceEvent \cup {None}, explicit \in BOOLEAN :
             User!SetPreference(User!Preference(value, at, IF lasts = 0 THEN None ELSE at + lasts, event), explicit)
  <2> PICK value \in Value, at \in 1 .. MaxTime, lasts \in {0, 1}, event \in SourceEvent \cup {None}, explicit \in BOOLEAN :
             User!SetPreference(User!Preference(value, at, IF lasts = 0 THEN None ELSE at + lasts, event), explicit)
    BY <1>1
  <2> DEFINE expires == IF lasts = 0 THEN None ELSE at + lasts
  <2>1. expires \in Nat \cup {None} /\ at \in Nat /\ at > 0
    BY UserAssumption
  <2> HIDE DEF expires
  <2> DEFINE p == User!Preference(value, at, expires, event)
  <2>2. p \in Preference /\ p.at = at /\ p.revision = User!RevisionAfter
    BY <2>1, NextPreference
  <2>3. User!SetPreference(p, explicit)
    BY DEF expires
  <2> HIDE DEF p
  <2> QED BY <2>1, <2>2, <2>3, UserSetPreference
<1>2. CASE \E value \in Value : \E fact \in ProfileFact : User!Complete(fact, User!Preference(value, now, None, None))
  <2> PICK value \in Value, fact \in ProfileFact : User!Complete(fact, User!Preference(value, now, None, None))
    BY <1>2
  <2> DEFINE p == User!Preference(value, now, None, None)
  <2>1. p \in Preference /\ p.revision = User!RevisionAfter
    <3>1. now \in Nat /\ None \in Nat \cup {None} /\ None \in SourceEvent \cup {None}
      BY DEF UserInv, UserTypes
    <3> QED BY <3>1, NextPreference
  <2>2. User!Complete(fact, p)
    OBVIOUS
  <2> HIDE DEF p
  <2> QED BY <2>1, <2>2, UserComplete
<1>3. CASE \E at \in 1 .. MaxTime : User!DeletePreference(at)
  BY <1>3, UserAssumption, UserDeletePreference
<1>4. CASE \E fact \in ProfileFact \cup {None} : User!UpdateProfile(fact)
  BY <1>4, UserUpdateProfile DEF Profile
<1>5. CASE User!Tick \/ User!CreateBootstrap \/ User!Reset \/ User!GetContext \/ User!WriteFile \/ User!Crash
  BY <1>5, UserTick, UserCreateBootstrap, UserReset, UserGetContext, UserWriteFile, UserCrash
<1> QED BY <1>1, <1>2, <1>3, <1>4, <1>5 DEF User!Next

\* A step of something else keeps it.
LEMMA UserUnchanged == ASSUME UserInv, UNCHANGED Vars PROVE UserInv'
<1>1. UNCHANGED <<disk, todo, now, forgotten, written>>
  BY DEF Vars, UserVars
<1>2. User!Resetting' = User!Resetting
  BY <1>1 DEF User!Resetting, User!Last
<1>3. UserTypes'
  BY <1>1 DEF UserInv, UserTypes
<1>4. PreferencesInv'
  BY <1>1 DEF UserInv, PreferencesInv, Revision, User!Live, User!Tomb
<1>5. PendingInv'
  BY <1>1 DEF UserInv, PendingInv, Legitimate, Revision, User!Live, User!Tomb
<1>6. SetupInv'
  BY <1>1, <1>2 DEF UserInv, SetupInv, Unsets, Awaits, User!Live
<1> QED BY <1>3, <1>4, <1>5, <1>6 DEF UserInv

\* The invariant of the user memory holds in every state: what the files say of what was
\* written and forgotten, and what the pending writes will make of it.
THEOREM UserInvariant == Spec => [](scenario = "user" => UserInv)
<1>1. Init => (scenario = "user" => UserInv)
  BY UserStart DEF Init
<1>2. (scenario = "user" => UserInv) /\ [Next]_Vars => (scenario = "user" => UserInv)'
  <2> SUFFICES ASSUME scenario = "user" => UserInv, [Next]_Vars, scenario' = "user" PROVE UserInv'
    OBVIOUS
  <2>1. CASE UNCHANGED Vars
    BY <2>1, UserUnchanged DEF Vars
  <2>2. CASE Next
    <3>1. scenario = "user" /\ User!Next
      BY <2>2 DEF Next
    <3> QED BY <3>1, UserNext
  <2> QED BY <2>1, <2>2
<1> QED BY <1>1, <1>2, PTL DEF Spec

\* A forgotten preference comes back on newer evidence only, and a revision names one
\* statement, for any values, events, clock and number of crashes (set_preference, delete_preference).
THEOREM UserMemoryIsSound == Spec => []UserMemorySound
<1>1. (scenario = "user" => UserInv) => UserMemorySound
  BY DEF UserMemorySound, UserInv, PreferencesInv, User!StaysForgotten, User!RevisionsNameOne
<1> QED BY <1>1, UserInvariant, PTL

\* Prompts alone show, and writes and prompts alone change files.
LEMMA UserFrames ==
    ASSUME User!Next
    PROVE  /\ User!GetContext \/ shown' = shown
           /\ User!GetContext \/ User!WriteFile \/ disk' = disk
<1>1. ASSUME NEW p, NEW explicit, User!SetPreference(p, explicit) PROVE UNCHANGED <<disk, shown>>
  BY <1>1 DEF User!SetPreference
<1>2. ASSUME NEW fact, NEW p, User!Complete(fact, p) PROVE UNCHANGED <<disk, shown>>
  BY <1>2 DEF User!Complete
<1>3. ASSUME NEW at, User!DeletePreference(at) PROVE UNCHANGED <<disk, shown>>
  BY <1>3 DEF User!DeletePreference
<1>4. ASSUME NEW fact, User!UpdateProfile(fact) PROVE UNCHANGED <<disk, shown>>
  BY <1>4 DEF User!UpdateProfile
<1>5. ASSUME User!Tick \/ User!CreateBootstrap \/ User!Reset \/ User!Crash PROVE UNCHANGED <<disk, shown>>
  BY <1>5 DEF User!Tick, User!CreateBootstrap, User!Reset, User!Crash
<1>6. ASSUME User!WriteFile PROVE shown' = shown
  BY <1>6 DEF User!WriteFile
<1> QED BY <1>1, <1>2, <1>3, <1>4, <1>5, <1>6 DEF User!Next

\* What a prompt shows is what the canonical files say (get_context_for_agent).
LEMMA ShowsFiles == ASSUME UserInv, User!Next PROVE User!ShowsCurrent
<1> SUFFICES ASSUME shown' # shown
             PROVE  /\ shown'.user = disk.profile
                    /\ shown'.memory = IF User!IsActive(User!Live, now) THEN User!Live.value ELSE None
  BY DEF User!ShowsCurrent
<1>1. User!GetContext
  BY UserFrames
<1>2. disk'.user = disk.profile
  BY <1>1 DEF User!GetContext, UserInv, UserTypes, Files
<1> QED BY <1>1, <1>2 DEF User!GetContext, User!RenderPreferences

\* The instruction is removed by the last write of a setup, when all before it are on disk.
LEMMA SetupEnds == ASSUME UserInv, User!Next PROVE User!UnsetsComplete
<1> SUFFICES ASSUME disk.bootstrap, ~ disk'.bootstrap, ~ User!Resetting
             PROVE  User!IsIdentityEstablished /\ User!Live # None
  BY DEF User!UnsetsComplete
<1> DEFINE w == Head(todo)
<1>1. disk' # disk
  OBVIOUS
<1>2. User!WriteFile
  <2>1. ~ User!GetContext
    BY DEF User!GetContext, UserInv, UserTypes, Files
  <2> QED BY <1>1, <2>1, UserFrames
<1>3. w \in Write /\ w = todo[1] /\ DOMAIN todo = 1 .. Len(todo) /\ Len(todo) \in Nat /\ Len(todo) >= 1
  BY <1>2 DEF UserInv, UserTypes, User!WriteFile
<1>4. disk' = [disk EXCEPT ![w.file] = w.content]
  BY <1>2 DEF User!WriteFile
<1> HIDE DEF w
<1>5. w.file = "bootstrap" /\ ~ w.content
  BY <1>3, <1>4 DEF UserInv, UserTypes, Files, Write
<1>6. \E i \in DOMAIN todo : Unsets(todo[i])
  BY <1>3, <1>5 DEF Unsets
<1>7. /\ \A i \in DOMAIN todo : todo[i].file = "bootstrap" => i = Len(todo)
      /\ disk.soul \/ Awaits("soul")
      /\ disk.identity \/ Awaits("identity")
      /\ disk.profile # None \/ Awaits("profile")
      /\ User!Live # None \/ Awaits("preferences")
  BY <1>6 DEF UserInv, SetupInv
<1>8. Len(todo) = 1
  BY <1>3, <1>5, <1>7
<1>9. \A f : Awaits(f) => f = "bootstrap"
  BY <1>3, <1>5, <1>8 DEF Awaits
<1> QED BY <1>7, <1>9 DEF User!IsIdentityEstablished

\* Every prompt shows the canonical files at its time, and the setup instruction goes only
\* after identity and preference are on disk, wherever the process dies (_complete).
THEOREM PromptsAreCurrent == Spec => PromptsCurrent
<1>1. (scenario = "user" => UserInv) /\ [Next]_Vars =>
          [scenario = "user" => User!ShowsCurrent /\ User!UnsetsComplete]_Vars
  BY ShowsFiles, SetupEnds DEF Next
<1> QED BY <1>1, UserInvariant, PTL DEF Spec, PromptsCurrent

-----------------------------------------------------------------------------
(* Reflection memory *)

Reflections == [failures : SUBSET Failure, rec : Recovery,
                text : UNION {[d -> Nat] : d \in SUBSET (Failure \cup Recovery)}]

ReflectionTypes ==
    /\ traces \in [Failure \cup Recovery -> Nat]
    /\ held \in [Recovery -> [candidate : Reflections \cup {None},
                              report : [passed : BOOLEAN] \cup {None}]]
    /\ manifest \in [status : {"candidate", "active", "resolved"}, active : Nat \cup {None},
                     history : Seq(Reflections)]
    /\ records \in [1 .. MaxVersions -> Reflections \cup {None}]

\* The version being promoted, and what of it is written.
Promoting(c) ==
    /\ Reflection!NextVersion <= MaxVersions
    /\ \/ todo = <<Reflection!Record(Reflection!NextVersion, c), Reflection!Publish(Reflection!NextVersion, c)>>
       \/ /\ todo = <<Reflection!Publish(Reflection!NextVersion, c)>>
          /\ records[Reflection!NextVersion] = c

ReflectionInv ==
    /\ ReflectionTypes
    /\ Len(manifest.history) <= MaxVersions
    /\ \A v \in 1 .. Len(manifest.history) : records[v] = manifest.history[v]
    /\ manifest.active # None => manifest.active \in 1 .. Len(manifest.history)
    /\ todo = <<>> \/ \E c \in Reflections : Promoting(c)

\* An operation that leaves the promoted versions alone.
LEMMA ReflectionKeeps ==
    ASSUME ReflectionInv, ReflectionTypes', UNCHANGED <<records, manifest.history>>,
           manifest' = manifest \/ manifest'.active = None,
           todo' = <<>> \/ UNCHANGED <<todo, manifest>>
    PROVE  ReflectionInv'
<1>1. \A c : Promoting(c) /\ UNCHANGED <<todo, manifest>> => Promoting(c)'
  BY DEF Promoting, Reflection!NextVersion, Reflection!Record, Reflection!Publish
<1>2. todo' = <<>> \/ \E c \in Reflections : Promoting(c)'
  BY <1>1 DEF ReflectionInv
<1>3. manifest'.active # None => manifest'.active = manifest.active
  OBVIOUS
<1> QED BY <1>2, <1>3 DEF ReflectionInv

\* Nothing is promoted at first.
LEMMA ReflectionStart == Reflection!Init => ReflectionInv
<1> SUFFICES ASSUME Reflection!Init PROVE ReflectionInv
  OBVIOUS
<1>1. ReflectionTypes
  BY DEF Reflection!Init, ReflectionTypes, Reflection!Trace
<1>2. manifest.history = <<>> /\ manifest.active = None /\ todo = <<>>
  BY DEF Reflection!Init
<1> QED BY <1>1, <1>2, VersionsAssumption DEF ReflectionInv

\* A step of something else keeps the promoted versions.
LEMMA ReflectionUnchanged ==
    ASSUME ReflectionInv, UNCHANGED <<traces, held, records, manifest, todo>>
    PROVE  ReflectionInv'
<1>1. ReflectionTypes'
  BY DEF ReflectionInv, ReflectionTypes
<1> QED BY <1>1, ReflectionKeeps

\* The record of a version is written before the manifest refers to it, and neither write
\* changes an older version (promote).
LEMMA ReflectionWrites ==
    ASSUME ReflectionInv, Reflection!WriteFile
    PROVE  ReflectionInv' /\ Reflection!KeepsVersions
<1> DEFINE v == Reflection!NextVersion
<1>1. PICK c \in Reflections : Promoting(c)
  BY DEF ReflectionInv, Reflection!WriteFile
<1>2. /\ v \in 1 .. MaxVersions /\ v = Len(manifest.history) + 1
      /\ manifest.history \in Seq(Reflections)
  BY <1>1, VersionsAssumption DEF Promoting, Reflection!NextVersion, ReflectionInv, ReflectionTypes
<1>3. UNCHANGED <<traces, held>>
  BY DEF Reflection!WriteFile
<1>4. CASE todo = <<Reflection!Record(v, c), Reflection!Publish(v, c)>>
  <2>1. /\ records' = [records EXCEPT ![v] = c] /\ manifest' = manifest
        /\ todo' = <<Reflection!Publish(v, c)>>
    BY <1>4 DEF Reflection!WriteFile, Reflection!Record
  <2>2. Reflection!NextVersion' = v /\ Reflection!Publish(v, c)' = Reflection!Publish(v, c)
    BY <2>1 DEF Reflection!NextVersion, Reflection!Publish
  <2>3. ReflectionTypes'
    BY <1>3, <2>1 DEF ReflectionTypes, ReflectionInv
  <2>4. records'[v] = c /\ \A n \in 1 .. Len(manifest.history) : records'[n] = records[n]
    BY <1>2, <2>1 DEF ReflectionTypes, ReflectionInv
  <2>5. Promoting(c)'
    BY <1>2, <2>1, <2>2, <2>4 DEF Promoting, Reflection!NextVersion, Reflection!Publish
  <2>6. ReflectionInv'
    BY <2>1, <2>3, <2>4, <2>5 DEF ReflectionInv
  <2>7. Reflection!KeepsVersions
    BY <1>2, <2>1, <2>4 DEF Reflection!KeepsVersions
  <2> QED BY <2>6, <2>7
<1>5. CASE todo = <<Reflection!Publish(v, c)>> /\ records[v] = c
  <2>1. /\ records' = records /\ todo' = <<>>
        /\ manifest' = [status |-> "active", active |-> v, history |-> Append(manifest.history, c)]
    BY <1>5 DEF Reflection!WriteFile, Reflection!Publish
  <2>2. /\ manifest'.history \in Seq(Reflections) /\ Len(manifest'.history) = v
        /\ manifest'.history[v] = c
        /\ \A n \in 1 .. Len(manifest.history) : manifest'.history[n] = manifest.history[n]
    BY <1>2, <2>1
  <2>3. ReflectionTypes'
    BY <1>2, <1>3, <2>1, <2>2 DEF ReflectionTypes, ReflectionInv
  <2>4. \A n \in 1 .. Len(manifest'.history) : records'[n] = manifest'.history[n]
    BY <1>2, <1>5, <2>1, <2>2 DEF ReflectionInv
  <2>5. manifest'.active = v
    BY <2>1
  <2>6. ReflectionInv'
    BY <1>2, <2>1, <2>2, <2>3, <2>4, <2>5 DEF ReflectionInv
  <2>7. Reflection!KeepsVersions
    BY <1>2, <2>1, <2>2 DEF Reflection!KeepsVersions
  <2> QED BY <2>6, <2>7
<1> QED BY <1>1, <1>4, <1>5 DEF Promoting

\* Every step of the reflection memory keeps its invariant and its versions.
LEMMA ReflectionNext ==
    ASSUME ReflectionInv, Reflection!Next
    PROVE  ReflectionInv' /\ Reflection!KeepsVersions
<1>1. ASSUME UNCHANGED <<records, manifest.history>> PROVE Reflection!KeepsVersions
  BY <1>1 DEF Reflection!KeepsVersions
<1>2. ASSUME NEW t \in Failure \cup Recovery, Reflection!WriteTrajectory(t)
      PROVE  ReflectionInv' /\ UNCHANGED <<records, manifest.history>>
  <2>1. ReflectionTypes'
    BY <1>2 DEF Reflection!WriteTrajectory, ReflectionInv, ReflectionTypes
  <2> QED BY <1>2, <2>1, ReflectionKeeps DEF Reflection!WriteTrajectory
<1>3. ASSUME NEW rec \in Recovery, NEW failures \in SUBSET Failure, Reflection!Distill(failures, rec)
      PROVE  ReflectionInv' /\ UNCHANGED <<records, manifest.history>>
  <2> DEFINE c == Reflection!Candidate(failures, rec)
  <2>1. c \in Reflections
    <3>1. [t \in failures \cup {rec} |-> traces[t]] \in [failures \cup {rec} -> Nat]
      BY DEF ReflectionInv, ReflectionTypes
    <3>2. failures \cup {rec} \in SUBSET (Failure \cup Recovery)
      OBVIOUS
    <3> QED BY <3>1, <3>2 DEF Reflections, Reflection!Candidate
  <2>2. held' = [held EXCEPT ![rec].candidate = c]
    BY <1>3 DEF Reflection!Distill
  <2> HIDE DEF c
  <2>3. ReflectionTypes'
    <3>2. held \in [Recovery -> [candidate : Reflections \cup {None}, report : [passed : BOOLEAN] \cup {None}]]
      BY DEF ReflectionInv, ReflectionTypes
    <3>1. held' \in [Recovery -> [candidate : Reflections \cup {None}, report : [passed : BOOLEAN] \cup {None}]]
      BY <2>1, <2>2, <3>2
    <3> QED BY <1>3, <3>1 DEF Reflection!Distill, ReflectionInv, ReflectionTypes
  <2> QED BY <1>3, <2>3, ReflectionKeeps DEF Reflection!Distill
<1>4. ASSUME NEW rec \in Recovery, Reflection!Evaluate(rec)
      PROVE  ReflectionInv' /\ UNCHANGED <<records, manifest.history>>
  <2> DEFINE report == Reflection!Report(held[rec].candidate)
  <2>1. report \in [passed : BOOLEAN]
    BY DEF Reflection!Report
  <2>2. held' = [held EXCEPT ![rec].report = report]
    BY <1>4 DEF Reflection!Evaluate
  <2> HIDE DEF report
  <2>3. ReflectionTypes'
    <3>2. held \in [Recovery -> [candidate : Reflections \cup {None}, report : [passed : BOOLEAN] \cup {None}]]
      BY DEF ReflectionInv, ReflectionTypes
    <3>1. held' \in [Recovery -> [candidate : Reflections \cup {None}, report : [passed : BOOLEAN] \cup {None}]]
      BY <2>1, <2>2, <3>2
    <3> QED BY <1>4, <3>1 DEF Reflection!Evaluate, ReflectionInv, ReflectionTypes
  <2> QED BY <1>4, <2>3, ReflectionKeeps DEF Reflection!Evaluate
<1>5. ASSUME NEW rec \in Recovery, Reflection!Promote(rec)
      PROVE  ReflectionInv' /\ UNCHANGED <<records, manifest.history>>
  <2> DEFINE c == held[rec].candidate
             v == Reflection!NextVersion
  <2>1. c \in Reflections
    BY <1>5 DEF Reflection!Promote, ReflectionInv, ReflectionTypes
  <2>2. /\ v <= MaxVersions /\ UNCHANGED <<traces, held, records, manifest>>
        /\ todo' = <<Reflection!Record(v, c), Reflection!Publish(v, c)>>
    BY <1>5 DEF Reflection!Promote, Reflection!Publication
  <2>3. v' = v /\ c' = c /\ Reflection!Record(v, c)' = Reflection!Record(v, c)
        /\ Reflection!Publish(v, c)' = Reflection!Publish(v, c)
    BY <2>2 DEF Reflection!NextVersion, Reflection!Record, Reflection!Publish
  <2>4. Promoting(c)'
    BY <2>2, <2>3 DEF Promoting
  <2>5. ReflectionTypes'
    BY <2>2 DEF ReflectionInv, ReflectionTypes
  <2> QED BY <2>1, <2>2, <2>3, <2>4, <2>5 DEF ReflectionInv
<1>6. ASSUME Reflection!Resolve PROVE ReflectionInv' /\ UNCHANGED <<records, manifest.history>>
  <2>1. UNCHANGED <<traces, held, records, todo>> /\ manifest' = [manifest EXCEPT !.status = "resolved", !.active = None]
    BY <1>6 DEF Reflection!Resolve
  <2>2. ReflectionTypes' /\ manifest'.history = manifest.history /\ manifest'.active = None
    BY <2>1 DEF ReflectionInv, ReflectionTypes
  <2> QED BY <1>6, <2>1, <2>2, ReflectionKeeps DEF Reflection!Resolve, Reflection!Idle
<1>7. ASSUME Reflection!Crash PROVE ReflectionInv' /\ UNCHANGED <<records, manifest.history>>
  <2>1. ReflectionTypes'
    BY <1>7 DEF Reflection!Crash, ReflectionInv, ReflectionTypes
  <2> QED BY <1>7, <2>1, ReflectionKeeps DEF Reflection!Crash
<1> QED BY <1>1, <1>2, <1>3, <1>4, <1>5, <1>6, <1>7, ReflectionWrites DEF Reflection!Next, Reflection!Trace

\* What the manifest refers to is on disk and what was promoted, and a promoted version
\* never changes, for any trajectories, bounds and deaths of the process (ReflectionStore.promote).
THEOREM ReflectionInvariant ==
    Spec => /\ [](scenario = "reflection" => ReflectionInv)
            /\ [][scenario = "reflection" => Reflection!KeepsVersions]_Vars
<1>1. Init => (scenario = "reflection" => ReflectionInv)
  BY ReflectionStart DEF Init
<1>2. (scenario = "reflection" => ReflectionInv) /\ [Next]_Vars => (scenario = "reflection" => ReflectionInv)'
  <2>1. ASSUME ReflectionInv, UNCHANGED Vars PROVE ReflectionInv'
    BY <2>1, ReflectionUnchanged DEF Vars, ReflectionVars
  <2> QED BY <2>1, ReflectionNext DEF Next, Vars
<1>3. (scenario = "reflection" => ReflectionInv) /\ [Next]_Vars =>
          [scenario = "reflection" => Reflection!KeepsVersions]_Vars
  BY ReflectionNext DEF Next
<1> QED BY <1>1, <1>2, <1>3, PTL DEF Spec

-----------------------------------------------------------------------------
(* Skill releases *)

Events == [action : {"skill_promoted", "skill_activated"}, version : Nat]

SkillTypes ==
    /\ candidates \in [CandidateId -> CandidateId \cup {0}]
    /\ passed \subseteq CandidateId
    /\ history \in Seq(CandidateId) /\ approved = history
    /\ releases \in Seq(CandidateId \cup {0}) /\ Len(releases) >= Len(history)
    /\ active \in 0 .. Len(history)
    /\ audit \in Seq(Events)
    /\ pc \in {"idle", "manifest", "audit"}

\* The audit says that the pointer is at a version, or the version's promotion lost its event, or
\* a death or a failed truncation left the pointer there.
Audited(version) ==
    version # 0 =>
        \/ audit # <<>> /\ audit[Len(audit)].version = version
        \/ /\ version = Len(history)
           /\ \A i \in DOMAIN audit : audit[i] # Skills!Event("skill_promoted", version)
        \/ version = unaudited

SkillInv ==
    /\ SkillTypes
    /\ \A c \in passed : candidates[c] = c
    /\ \A v \in DOMAIN history : history[v] \in passed
    /\ \A i \in DOMAIN audit : audit[i].version <= Len(history)
    /\ pc \in {"idle", "manifest"} => Audited(active)
    /\ pc = "manifest" => before = None /\ Len(releases) = Len(history) + 1 /\ releases[Len(releases)] \in passed
    /\ pc = "audit" /\ before = None =>
          /\ active = Len(history)
          /\ \A i \in DOMAIN audit : audit[i] # Skills!Event("skill_promoted", active)
    /\ pc = "audit" /\ before # None => before \in 0 .. Len(history) /\ Audited(before)

\* No release, no pointer, no event.
LEMMA SkillStart == Skills!Init => SkillInv
  BY DEF Skills!Init, SkillInv, SkillTypes, Audited

\* A step of something else keeps the releases.
LEMMA SkillUnchanged ==
    ASSUME SkillInv, UNCHANGED <<candidates, pc, SkillVars>>
    PROVE  SkillInv'
<1>1. UNCHANGED <<candidates, pc, passed, history, active, releases, audit, before, approved, unaudited>>
  BY DEF SkillVars
<1>2. SkillTypes'
  BY <1>1 DEF SkillInv, SkillTypes
<1> QED BY <1>1, <1>2 DEF SkillInv, Audited

\* What is evaluated is stored as its candidate renders it.
LEMMA SkillEvaluate == ASSUME SkillInv, NEW c \in CandidateId, Skills!Evaluate(c) PROVE SkillInv'
<1>1. /\ candidates' = [candidates EXCEPT ![c] = c] /\ passed' = passed \cup {c} /\ pc = "idle"
      /\ UNCHANGED <<history, active, releases, audit, pc, before, approved, unaudited>>
  BY DEF Skills!Evaluate
<1>2. SkillTypes'
  BY <1>1 DEF SkillInv, SkillTypes
<1>3. \A x \in passed' : candidates'[x] = x
  BY <1>1 DEF SkillInv, SkillTypes
<1> QED BY <1>1, <1>2, <1>3 DEF SkillInv, Audited

\* A promotion writes its release behind those the manifest names.
LEMMA SkillPromote == ASSUME SkillInv, NEW c \in CandidateId, Skills!Promote(c) PROVE SkillInv'
<1> DEFINE named == SubSeq(releases, 1, Len(history))
<1>1. /\ c \in passed /\ releases' = Append(named, c) /\ before' = None /\ pc' = "manifest" /\ pc = "idle"
      /\ UNCHANGED <<candidates, passed, history, active, audit, approved, unaudited>>
  BY DEF Skills!Promote
<1>2. named \in Seq(CandidateId \cup {0}) /\ Len(named) = Len(history) /\ Len(history) \in Nat
  BY DEF SkillInv, SkillTypes
<1> HIDE DEF named
<1>3. /\ releases' \in Seq(CandidateId \cup {0}) /\ Len(releases') = Len(history) + 1
      /\ releases'[Len(releases')] = c
  BY <1>1, <1>2
<1>4. SkillTypes'
  BY <1>1, <1>2, <1>3 DEF SkillInv, SkillTypes
<1> QED BY <1>1, <1>3, <1>4 DEF SkillInv, Audited

\* The manifest points at the version it names last, for which there is no event yet.
LEMMA SkillPublish == ASSUME SkillInv, Skills!PublishManifest PROVE SkillInv'
<1> DEFINE c == releases[Len(releases)]
<1>1. /\ pc = "manifest" /\ history' = Append(history, c) /\ approved' = Append(approved, c)
      /\ active' = Len(history') /\ pc' = "audit"
      /\ UNCHANGED <<candidates, passed, releases, audit, before, unaudited>>
  BY DEF Skills!PublishManifest, Skills!Last
<1>2. /\ history \in Seq(CandidateId) /\ releases \in Seq(CandidateId \cup {0}) /\ approved = history
      /\ Len(releases) >= Len(history) /\ audit \in Seq(Events) /\ c \in passed /\ c \in CandidateId
      /\ before = None
  BY <1>1 DEF SkillInv, SkillTypes
<1> HIDE DEF c
<1>3. /\ Len(history') = Len(history) + 1 /\ Len(history) \in Nat /\ history' \in Seq(CandidateId)
      /\ DOMAIN history' = 1 .. Len(history) + 1
      /\ \A v \in DOMAIN history' : history'[v] = IF v \in DOMAIN history THEN history[v] ELSE c
  BY <1>1, <1>2
<1>4. Len(releases) > Len(history)
  BY <1>1, <1>2 DEF SkillInv
<1>5. SkillTypes'
  BY <1>1, <1>2, <1>3, <1>4 DEF SkillInv, SkillTypes
<1>6. \A v \in DOMAIN history' : history'[v] \in passed'
  BY <1>1, <1>2, <1>3 DEF SkillInv
<1>7. \A i \in DOMAIN audit : audit[i].version \in Nat /\ audit[i].version <= Len(history)
  <2>1. \A i \in DOMAIN audit : audit[i] \in Events
    BY <1>2
  <2> QED BY <2>1 DEF SkillInv, Events
<1>8. \A i \in DOMAIN audit : audit[i] # Skills!Event("skill_promoted", active')
  BY <1>1, <1>3, <1>7 DEF Skills!Event
<1>9. \A i \in DOMAIN audit' : audit'[i].version <= Len(history')
  BY <1>1, <1>3, <1>7
<1> QED BY <1>1, <1>2, <1>5, <1>6, <1>8, <1>9 DEF SkillInv, Skills!Event

\* set_active_version remembers a pointer that the audit knows.
LEMMA SkillSet == ASSUME SkillInv, NEW v \in DOMAIN history, Skills!SetActiveVersion(v) PROVE SkillInv'
<1>1. /\ pc = "idle" /\ before' = active /\ active' = v /\ pc' = "audit"
      /\ UNCHANGED <<candidates, passed, history, releases, audit, approved, unaudited>>
  BY DEF Skills!SetActiveVersion
<1>2. v \in 0 .. Len(history) /\ active # None /\ active \in 0 .. Len(history)
  BY NoneAssumption DEF SkillInv, SkillTypes
<1>3. SkillTypes'
  BY <1>1, <1>2 DEF SkillInv, SkillTypes
<1>4. Audited(before)'
  BY <1>1 DEF SkillInv, Audited
<1> QED BY <1>1, <1>2, <1>3, <1>4 DEF SkillInv

\* The event that is appended, by whatever step, names the pointer that was written.
LEMMA SkillAppended ==
    ASSUME SkillInv, pc = "audit", audit' = Skills!Appended
    PROVE  /\ audit' \in Seq(Events) /\ audit' # <<>> /\ audit'[Len(audit')].version = active
           /\ \A i \in DOMAIN audit' : audit'[i].version <= Len(history)
<1> DEFINE e == Skills!Event(IF before = None THEN "skill_promoted" ELSE "skill_activated", active)
<1>1. audit' = Append(audit, e)
  BY DEF Skills!Appended
<1>2. e \in Events /\ e.version = active /\ active <= Len(history) /\ audit \in Seq(Events)
  BY DEF Skills!Event, Events, SkillInv, SkillTypes
<1> HIDE DEF e
<1>3. /\ Append(audit, e) \in Seq(Events) /\ Len(Append(audit, e)) = Len(audit) + 1
      /\ Append(audit, e)[Len(audit) + 1] = e
  BY <1>2
<1>4. \A i \in 1 .. Len(audit) : Append(audit, e)[i] = audit[i]
  BY <1>2
<1>5. Len(audit) \in Nat /\ DOMAIN audit = 1 .. Len(audit) /\ DOMAIN audit' = 1 .. Len(audit) + 1
  BY <1>1, <1>2, <1>3
<1>6. Len(audit') = Len(audit) + 1 /\ audit'[Len(audit')] = e /\ audit' \in Seq(Events)
  BY <1>1, <1>3
<1>7. audit' # <<>>
  BY <1>5, <1>6
<1>8. ASSUME NEW i \in DOMAIN audit' PROVE audit'[i].version <= Len(history)
  <2>1. CASE i = Len(audit) + 1
    BY <1>2, <1>6, <2>1
  <2>2. CASE i \in 1 .. Len(audit)
    BY <1>1, <1>4, <1>5, <2>2 DEF SkillInv
  <2> QED BY <1>5, <2>1, <2>2
<1> QED BY <1>2, <1>6, <1>7, <1>8

\* After it the pointer is audited, or is said to be unaudited; so it is when nothing was appended.
LEMMA SkillSettles ==
    ASSUME SkillInv, pc = "audit", pc' = "idle", active' \in 0 .. Len(history),
           UNCHANGED <<candidates, passed, history, releases, approved>>,
           \/ audit' = Skills!Appended /\ active' = active
           \/ audit' = Skills!Appended /\ active' = unaudited'
           \/ UNCHANGED audit /\ active' = unaudited'
           \/ UNCHANGED <<audit, unaudited>> /\ before # None /\ active' = before
           \/ UNCHANGED audit /\ before = None /\ active' = active
    PROVE  SkillInv'
<1>1. audit' \in Seq(Events) /\ \A i \in DOMAIN audit' : audit'[i].version <= Len(history)
  BY SkillAppended DEF SkillInv, SkillTypes
<1>2. SkillTypes'
  BY <1>1 DEF SkillInv, SkillTypes
<1>3. Audited(active)'
  <2>1. CASE audit' = Skills!Appended /\ active' = active
    BY <2>1, SkillAppended DEF Audited
  <2>2. CASE active' = unaudited'
    BY <2>2 DEF Audited
  <2>3. CASE UNCHANGED <<audit, unaudited>> /\ before # None /\ active' = before
    BY <2>3 DEF SkillInv, Audited
  <2>4. CASE UNCHANGED audit /\ before = None /\ active' = active
    BY <2>4 DEF SkillInv, Audited, Skills!Event
  <2> QED BY <2>1, <2>2, <2>3, <2>4
<1> QED BY <1>1, <1>2, <1>3 DEF SkillInv

\* The event is written, or its append fails: set_active_version restores the pointer then, and
\* promote leaves its own.
LEMMA SkillAudit ==
    ASSUME SkillInv, Skills!AppendAudit \/ Skills!AuditFails \/ Skills!PromotionAuditFails
    PROVE  SkillInv'
<1>1. CASE Skills!AppendAudit
  <2>1. /\ pc = "audit" /\ pc' = "idle" /\ audit' = Skills!Appended
        /\ UNCHANGED <<candidates, passed, history, active, releases, approved>>
    BY <1>1 DEF Skills!AppendAudit
  <2>2. active' \in 0 .. Len(history)
    BY <2>1 DEF SkillInv, SkillTypes
  <2> QED BY <2>1, <2>2, SkillSettles
<1>2. CASE Skills!AuditFails
  <2>1. /\ pc = "audit" /\ before # None /\ active' = before /\ pc' = "idle"
        /\ \/ UNCHANGED <<audit, unaudited>>
           \/ audit' = Skills!Appended /\ unaudited' = before
        /\ UNCHANGED <<candidates, passed, history, releases, approved>>
    BY <1>2 DEF Skills!AuditFails
  <2>2. active' \in 0 .. Len(history)
    BY <2>1 DEF SkillInv
  <2> QED BY <2>1, <2>2, SkillSettles
<1>3. CASE Skills!PromotionAuditFails
  <2>1. /\ pc = "audit" /\ before = None /\ pc' = "idle"
        /\ \/ UNCHANGED audit
           \/ audit' = Skills!Appended
        /\ UNCHANGED <<candidates, passed, history, active, releases, approved>>
    BY <1>3 DEF Skills!PromotionAuditFails
  <2>2. active' \in 0 .. Len(history)
    BY <2>1 DEF SkillInv, SkillTypes
  <2> QED BY <2>1, <2>2, SkillSettles
<1> QED BY <1>1, <1>2, <1>3

\* A death leaves the pointer that was written, with its event or without.
LEMMA SkillDie == ASSUME SkillInv, Skills!Die PROVE SkillInv'
<1>1. /\ pc # "idle" /\ pc' = "idle"
      /\ \/ UNCHANGED audit /\ unaudited' = IF pc = "audit" /\ before # None THEN active ELSE unaudited
         \/ pc = "audit" /\ audit' = Skills!Appended
      /\ UNCHANGED <<candidates, passed, history, active, releases, before, approved>>
  BY DEF Skills!Die
<1>2. active' \in 0 .. Len(history)
  BY <1>1 DEF SkillInv, SkillTypes
<1>3. CASE pc = "audit"
  BY <1>1, <1>2, <1>3, SkillSettles
<1>4. CASE pc # "audit"
  <2>1. pc = "manifest" /\ UNCHANGED <<audit, unaudited>>
    BY <1>1, <1>4 DEF SkillInv, SkillTypes
  <2>2. SkillTypes'
    BY <1>1, <2>1 DEF SkillInv, SkillTypes
  <2> QED BY <1>1, <2>1, <2>2 DEF SkillInv, Audited
<1> QED BY <1>3, <1>4

\* Editing a release moves no pointer.
LEMMA SkillTamper == ASSUME SkillInv, NEW v \in DOMAIN history, Skills!Tamper(v) PROVE SkillInv'
<1>1. /\ releases' = [releases EXCEPT ![v] = 0] /\ pc = "idle"
      /\ UNCHANGED <<candidates, passed, history, active, audit, pc, before, approved, unaudited>>
  BY DEF Skills!Tamper
<1>2. SkillTypes'
  <2>1. releases \in Seq(CandidateId \cup {0}) /\ v \in 1 .. Len(releases)
    BY DEF SkillInv, SkillTypes
  <2>2. releases' \in Seq(CandidateId \cup {0}) /\ Len(releases') = Len(releases)
    BY <1>1, <2>1, ExceptSeq
  <2> QED BY <1>1, <2>2 DEF SkillInv, SkillTypes
<1> QED BY <1>1, <1>2 DEF SkillInv, Audited

\* The invariant of the skill releases: the pointer, or the one to restore, is audited, or one that
\* a death or a failed truncation left.
THEOREM SkillInvariant == Spec => [](scenario = "skills" => SkillInv)
<1>1. Init => (scenario = "skills" => SkillInv)
  BY SkillStart DEF Init
<1>2. (scenario = "skills" => SkillInv) /\ [Next]_Vars => (scenario = "skills" => SkillInv)'
  <2>1. ASSUME SkillInv, UNCHANGED Vars PROVE SkillInv'
    BY <2>1, SkillUnchanged DEF Vars, SkillVars
  <2>2. ASSUME SkillInv, Skills!Next PROVE SkillInv'
    BY <2>2, SkillEvaluate, SkillPromote, SkillPublish, SkillSet, SkillTamper, SkillAudit, SkillDie
       DEF Skills!Next
  <2> QED BY <2>1, <2>2 DEF Next, Vars
<1> QED BY <1>1, <1>2, PTL DEF Spec

\* The active reflection is on disk and what was promoted; the active release is the one the
\* audit says, but for a lost promotion event and a pointer left by a death or a failed truncation,
\* and is served only with the approved text (promote, set_active_version, _verify_release).
THEOREM ReleasesAreSound == Spec => []ReleasesSound
<1>1. ReflectionInv => Reflection!ContextReadable
  BY DEF ReflectionInv, Reflection!ContextReadable
<1>2. SkillInv => Skills!PointerAudited
  <2>1. ASSUME SkillInv, NEW e, Skills!Contains(audit, e) PROVE \E i \in DOMAIN audit : audit[i] = e
    BY <2>1 DEF Skills!Contains, SkillInv, SkillTypes
  <2> QED BY <2>1 DEF SkillInv, Audited, Skills!PointerAudited, Skills!Last
<1>3. SkillInv => Skills!ServedApproved
  BY DEF SkillInv, SkillTypes, Skills!ServedApproved, Skills!VerifyRelease
<1>4. /\ (scenario = "reflection" => ReflectionInv) /\ (scenario = "skills" => SkillInv)
      => ReleasesSound
  BY <1>1, <1>2, <1>3 DEF ReleasesSound
<1> QED BY <1>4, ReflectionInvariant, SkillInvariant, PTL

-----------------------------------------------------------------------------
(* Remote memory *)

Kinds == {"profile", "conversation", "retraction"}
Lines == [id : Nat, kind : Kinds, retracts : Id \cup {None}, terms : SUBSET Term, captured : Nat]

RemoteTypes ==
    /\ store \in Seq(Lines)
    /\ torn \in BOOLEAN
    /\ synced \in 0 .. Len(store)
    /\ pc \in [Process -> {"idle", "wait", "check", "write", "sync"}]
    /\ job \in [Process -> Lines \cup {None}]
    /\ acked \subseteq Lines
    /\ unowned \in {"no", "left", "lost"}

\* Callers choose from Id, and a retraction's ID is that of its target.
WellFormed(r) ==
    IF r.kind = "retraction"
      THEN r.retracts \in Id /\ r.id = Writers!RetractionId(r.retracts)
      ELSE r.retracts = None /\ r.id \in Id

Targets(r, i) == store[i].id = r.retracts /\ store[i].kind # "retraction"

\* A retraction stands behind its target, so it also does in the part that survives.
StoreInv ==
    /\ \A i \in DOMAIN store : WellFormed(store[i])
    /\ \A i, j \in DOMAIN store : store[i].id = store[j].id => i = j
    /\ \A i \in DOMAIN store : store[i].kind = "retraction" => \E j \in 1 .. i : Targets(store[i], j)

\* The lock covers what is between the check and the acknowledgement.
LockInv ==
    \A p \in Process :
        /\ pc[p] \in {"check", "write", "sync"} => holder = p
        /\ pc[p] # "idle" =>
              /\ job[p] \in Lines /\ WellFormed(job[p])
              /\ job[p].kind = "retraction" => \E i \in DOMAIN store : Targets(job[p], i)
        /\ pc[p] = "write" => \A i \in DOMAIN store : store[i].id # job[p].id
        /\ pc[p] = "sync" => Len(store) > 0 /\ store[Len(store)] = job[p]

\* What a call of its own acknowledged is on disk.  What a retry was given is stored until lines
\* go that a dead writer left; while there are no such lines, only one being synced is not on disk.
DurableInv ==
    /\ \A r \in acked : \E i \in 1 .. synced : store[i] = r
    /\ unowned # "lost" => \A r \in retried : \E i \in DOMAIN store : store[i] = r
    /\ unowned = "no" =>
          /\ \A r \in retried : \E i \in 1 .. synced : store[i] = r
          /\ synced # Len(store) => \E p \in Process : pc[p] = "sync"

WritersInv == RemoteTypes /\ StoreInv /\ LockInv

\* IDs of retractions are numbers that name their target (retraction_id).
LEMMA RetractionIds ==
    /\ \A i \in Id : Writers!RetractionId(i) \in Nat
    /\ \A i, j \in Id : Writers!RetractionId(i) = Writers!RetractionId(j) => i = j
<1>1. Writers!Cardinality(Id) \in Nat
  <2>1. Writers!Cardinality(Id) = Cardinality(Id)
    BY DEF Writers!Cardinality, Cardinality
  <2> QED BY <2>1, IdAssumption, FS_CardinalityType
<1>2. \A i : Writers!RetractionId(i) = i + Writers!Cardinality(Id)
  BY DEF Writers!RetractionId
<1> QED BY <1>1, <1>2, IdAssumption

\* The store is empty and nobody holds the lock.
LEMMA WritersStart == Writers!Init => WritersInv /\ DurableInv
<1> SUFFICES ASSUME Writers!Init PROVE WritersInv /\ DurableInv
  OBVIOUS
<1>1. store = <<>> /\ acked = {} /\ retried = {} /\ synced = 0
  BY DEF Writers!Init
<1>2. RemoteTypes
  <2>1. store \in Seq(Lines) /\ Len(store) = 0
    BY <1>1
  <2>2. /\ synced \in 0 .. Len(store) /\ torn \in BOOLEAN /\ acked \subseteq Lines
        /\ unowned \in {"no", "left", "lost"}
    <3>1. 0 \in 0 .. Len(store)
      BY <2>1
    <3> QED BY <1>1, <3>1 DEF Writers!Init
  <2>3. /\ pc \in [Process -> {"idle", "wait", "check", "write", "sync"}]
        /\ job \in [Process -> Lines \cup {None}]
    BY DEF Writers!Init
  <2> QED BY <2>1, <2>2, <2>3 DEF RemoteTypes
<1>3. LockInv
  <2>1. \A p \in Process : pc[p] = "idle"
    BY DEF Writers!Init
  <2> QED BY <2>1 DEF LockInv
<1> QED BY <1>1, <1>2, <1>3 DEF WritersInv, StoreInv, DurableInv

\* A step of one process that leaves the store alone, and releases the lock at most.
LEMMA WritersStep ==
    ASSUME WritersInv, NEW p \in Process, UNCHANGED store, RemoteTypes',
           \A q \in Process \ {p} : pc'[q] = pc[q] /\ job'[q] = job[q],
           \A q \in Process \ {p} : holder = q => holder' = q,
           \/ pc'[p] = "idle"
           \/ /\ pc'[p] \in {"wait", "check", "write"}
              /\ job'[p] \in Lines /\ WellFormed(job'[p])
              /\ job'[p].kind = "retraction" =>
                    \E i \in DOMAIN store : store[i].id = job'[p].retracts /\ store[i].kind # "retraction"
              /\ pc'[p] \in {"check", "write"} => holder' = p
              /\ pc'[p] = "write" => \A i \in DOMAIN store : store[i].id # job'[p].id
    PROVE  WritersInv'
<1>1. StoreInv'
  BY DEF WritersInv, StoreInv, Targets
<1>2. LockInv'
  <2> SUFFICES ASSUME NEW q \in Process
               PROVE  /\ pc'[q] \in {"check", "write", "sync"} => holder' = q
                      /\ pc'[q] # "idle" =>
                            /\ job'[q] \in Lines /\ WellFormed(job'[q])
                            /\ job'[q].kind = "retraction" =>
                                  \E i \in DOMAIN store' :
                                     store'[i].id = job'[q].retracts /\ store'[i].kind # "retraction"
                      /\ pc'[q] = "write" => \A i \in DOMAIN store' : store'[i].id # job'[q].id
                      /\ pc'[q] = "sync" => Len(store') > 0 /\ store'[Len(store')] = job'[q]
    BY DEF LockInv, Targets
  <2>1. CASE q = p
    BY <2>1 DEF Targets
  <2>2. CASE q # p
    BY <2>2 DEF WritersInv, LockInv, Targets
  <2> QED BY <2>1, <2>2
<1> QED BY <1>1, <1>2 DEF WritersInv

\* It answers with what is stored while nobody syncs, if at all.
LEMMA DurableStep ==
    ASSUME WritersInv, DurableInv, UNCHANGED <<store, synced, acked>>,
           \/ unowned' = unowned /\ \A q \in Process : pc[q] = "sync" => pc'[q] = "sync"
           \/ unowned' # "no" /\ (unowned' = "lost" <=> unowned = "lost"),
           \/ retried' = retried
           \/ /\ \A r \in retried' : r \in retried \/ \E i \in DOMAIN store : store[i] = r
              /\ \A q \in Process : pc[q] # "sync"
    PROVE  DurableInv'
<1>1. /\ DOMAIN store = 1 .. Len(store) /\ Len(store) \in Nat /\ synced \in 0 .. Len(store)
      /\ unowned \in {"no", "left", "lost"}
  BY DEF WritersInv, RemoteTypes
<1>2. \A r \in acked' : \E i \in 1 .. synced' : store'[i] = r
  BY DEF DurableInv
<1>3. ASSUME unowned' # "lost", NEW r \in retried' PROVE \E i \in DOMAIN store' : store'[i] = r
  <2>1. unowned # "lost"
    BY <1>3
  <2>2. r \in retried \/ \E i \in DOMAIN store : store[i] = r
    BY <1>3
  <2> QED BY <2>1, <2>2 DEF DurableInv
<1>4. ASSUME unowned' = "no"
      PROVE  /\ \A r \in retried' : \E i \in 1 .. synced' : store'[i] = r
             /\ synced' # Len(store') => \E q \in Process : pc'[q] = "sync"
  <2>1. /\ \A r \in retried : \E i \in 1 .. synced : store[i] = r
        /\ synced # Len(store) => \E q \in Process : pc[q] = "sync"
        /\ \A q \in Process : pc[q] = "sync" => pc'[q] = "sync"
    BY <1>4 DEF DurableInv
  <2>2. CASE retried' = retried
    BY <2>1, <2>2
  <2>3. CASE /\ \A r \in retried' : r \in retried \/ \E i \in DOMAIN store : store[i] = r
             /\ \A q \in Process : pc[q] # "sync"
    <3>1. synced = Len(store)
      BY <2>1, <2>3
    <3> QED BY <1>1, <2>1, <2>3, <3>1
  <2> QED BY <2>2, <2>3
<1> QED BY <1>2, <1>3, <1>4 DEF DurableInv

\* What a caller appends is a line with an ID of its choice.
LEMMA MemoryLines ==
    ASSUME NEW id \in Id, NEW kind \in {"profile", "conversation"}, NEW terms \in SUBSET Term
    PROVE  Writers!Memory(id, kind, terms, 1) \in Lines /\ WellFormed(Writers!Memory(id, kind, terms, 1))
  BY IdAssumption DEF Writers!Memory, Lines, Kinds, WellFormed

\* A call to append waits for the lock.
LEMMA WritersAppend ==
    ASSUME WritersInv, NEW p \in Process, NEW r \in Lines, WellFormed(r), r.kind # "retraction",
           Writers!AppendMemory(p, r)
    PROVE  WritersInv' /\ (DurableInv => DurableInv')
<1>1. /\ pc[p] = "idle" /\ pc' = [pc EXCEPT ![p] = "wait"] /\ job' = [job EXCEPT ![p] = r]
      /\ UNCHANGED <<store, torn, synced, holder, acked, retried, unowned>>
  BY DEF Writers!AppendMemory, Writers!Step
<1>2. RemoteTypes'
  BY <1>1 DEF WritersInv, RemoteTypes
<1>3. /\ pc'[p] = "wait" /\ job'[p] = r
      /\ \A q \in Process \ {p} : pc'[q] = pc[q] /\ job'[q] = job[q]
  BY <1>1 DEF WritersInv, RemoteTypes
<1>4. WritersInv'
  BY <1>1, <1>2, <1>3, WritersStep
<1>5. DurableInv => DurableInv'
  BY <1>1, <1>2, <1>3, DurableStep DEF RemoteTypes, WritersInv
<1> QED BY <1>4, <1>5

\* A retraction of a stored record waits for the lock, its target behind it.
LEMMA WritersRetract ==
    ASSUME WritersInv, NEW p \in Process, NEW target, Writers!Retract(p, target)
    PROVE  WritersInv' /\ (DurableInv => DurableInv')
<1> DEFINE r == Writers!Retraction(target)
<1>1. /\ pc[p] = "idle" /\ pc' = [pc EXCEPT ![p] = "wait"] /\ job' = [job EXCEPT ![p] = r]
      /\ UNCHANGED <<store, torn, synced, holder, acked, retried, unowned>>
  BY DEF Writers!Retract, Writers!Step
<1>2. PICK i \in DOMAIN store : store[i].id = target /\ store[i].kind # "retraction"
  BY DEF Writers!Retract, Writers!Stored, Writers!ToSet
<1>3. target \in Id
  BY <1>2 DEF WritersInv, StoreInv, WellFormed
<1>4. r \in Lines /\ WellFormed(r) /\ r.retracts = target
  BY <1>3, RetractionIds DEF Writers!Retraction, Lines, Kinds, WellFormed
<1> HIDE DEF r
<1>5. RemoteTypes'
  BY <1>1, <1>4 DEF WritersInv, RemoteTypes
<1>6. /\ pc'[p] = "wait" /\ job'[p] = r
      /\ \A q \in Process \ {p} : pc'[q] = pc[q] /\ job'[q] = job[q]
  BY <1>1 DEF WritersInv, RemoteTypes
<1>7. WritersInv'
  BY <1>1, <1>2, <1>4, <1>5, <1>6, WritersStep
<1>8. DurableInv => DurableInv'
  BY <1>1, <1>5, <1>6, DurableStep DEF RemoteTypes, WritersInv
<1> QED BY <1>7, <1>8

\* The lock has one holder (flock).
LEMMA WritersLock ==
    ASSUME WritersInv, NEW p \in Process, Writers!Lock(p)
    PROVE  WritersInv' /\ (DurableInv => DurableInv')
<1>1. /\ pc[p] = "wait" /\ holder = None /\ holder' = p /\ pc' = [pc EXCEPT ![p] = "check"]
      /\ UNCHANGED <<store, torn, synced, job, acked, retried, unowned>>
  BY DEF Writers!Lock, Writers!Step
<1>2. RemoteTypes'
  BY <1>1 DEF WritersInv, RemoteTypes
<1>3. pc'[p] = "check" /\ \A q \in Process \ {p} : pc'[q] = pc[q]
  BY <1>1 DEF WritersInv, RemoteTypes
<1>4. /\ job[p] \in Lines /\ WellFormed(job[p])
      /\ job[p].kind = "retraction" => \E i \in DOMAIN store : Targets(job[p], i)
  BY <1>1 DEF WritersInv, LockInv
<1>5. \A q \in Process : holder # q
  BY <1>1, WritersAssumption
<1>6. WritersInv'
  BY <1>1, <1>2, <1>3, <1>4, <1>5, WritersStep DEF Targets
<1>7. DurableInv => DurableInv'
  BY <1>1, <1>2, <1>3, DurableStep DEF RemoteTypes, WritersInv
<1> QED BY <1>6, <1>7

\* Who is done lets go of the lock it holds.
LEMMA WritersDone ==
    ASSUME WritersInv, NEW p \in Process, Writers!Done(p), UNCHANGED <<store, synced>>,
           torn' \in BOOLEAN, acked' \subseteq Lines, unowned' \in {"no", "left", "lost"}
    PROVE  /\ WritersInv'
           /\ pc'[p] = "idle" /\ \A q \in Process \ {p} : pc'[q] = pc[q]
<1>1. /\ pc' = [pc EXCEPT ![p] = "idle"] /\ job' = [job EXCEPT ![p] = None]
      /\ holder' = IF holder = p THEN None ELSE holder
  BY DEF Writers!Done, Writers!Step
<1>2. RemoteTypes'
  BY <1>1 DEF WritersInv, RemoteTypes
<1>3. /\ pc'[p] = "idle" /\ \A q \in Process \ {p} : pc'[q] = pc[q] /\ job'[q] = job[q]
      /\ \A q \in Process \ {p} : holder = q => holder' = q
  BY <1>1 DEF WritersInv, RemoteTypes
<1> QED BY <1>2, <1>3, WritersStep

\* Under the lock an ID that was not found stays unknown until the line is written; a retry
\* vouches for what is stored.
LEMMA WritersCheck ==
    ASSUME WritersInv, NEW p \in Process, Writers!CheckDuplicate(p)
    PROVE  WritersInv' /\ (DurableInv => DurableInv')
<1> DEFINE old == Writers!Stored(job[p].id)
<1>1. pc[p] = "check" /\ UNCHANGED <<store, torn, synced, acked, unowned>>
  BY DEF Writers!CheckDuplicate
<1>2. /\ job[p] \in Lines /\ WellFormed(job[p])
      /\ job[p].kind = "retraction" => \E i \in DOMAIN store : Targets(job[p], i)
      /\ holder = p
  BY <1>1 DEF WritersInv, LockInv
<1>3. old = {r \in {store[i] : i \in DOMAIN store} : r.id = job[p].id}
  BY DEF Writers!Stored, Writers!ToSet
<1>4. CASE Writers!Readable /\ old = {}
  <2>1. pc' = [pc EXCEPT ![p] = "write"] /\ UNCHANGED <<holder, job, retried>>
    BY <1>4 DEF Writers!CheckDuplicate, Writers!Step
  <2>2. RemoteTypes'
    BY <1>1, <2>1 DEF WritersInv, RemoteTypes
  <2>3. pc'[p] = "write" /\ \A q \in Process \ {p} : pc'[q] = pc[q]
    BY <2>1 DEF WritersInv, RemoteTypes
  <2>4. \A i \in DOMAIN store : store[i].id # job[p].id
    BY <1>3, <1>4
  <2>5. WritersInv'
    BY <1>1, <1>2, <2>1, <2>2, <2>3, <2>4, WritersStep DEF Targets
  <2>6. DurableInv => DurableInv'
    BY <1>1, <2>1, <2>2, <2>3, DurableStep DEF RemoteTypes, WritersInv
  <2> QED BY <2>5, <2>6
<1>5. CASE ~ (Writers!Readable /\ old = {})
  <2>1. /\ Writers!Done(p)
        /\ retried' = IF Writers!Readable /\ job[p].kind = "retraction" THEN retried \cup old ELSE retried
    BY <1>5 DEF Writers!CheckDuplicate
  <2>2. \A r \in retried' : r \in retried \/ \E i \in DOMAIN store : store[i] = r
    BY <1>3, <2>1
  <2>4. /\ WritersInv' /\ pc'[p] = "idle"
        /\ \A q \in Process \ {p} : pc'[q] = pc[q]
    BY <1>1, <2>1, WritersDone DEF WritersInv, RemoteTypes
  <2>5. \A q \in Process : pc[q] # "sync"
    BY <1>1, <1>2 DEF WritersInv, LockInv
  <2>6. DurableInv => DurableInv'
    BY <1>1, <2>2, <2>4, <2>5, DurableStep DEF RemoteTypes, WritersInv
  <2> QED BY <2>4, <2>6
<1> QED BY <1>4, <1>5

\* The new line has an ID of its own, and stands behind its target.
LEMMA WritersWrite ==
    ASSUME WritersInv, NEW p \in Process, Writers!WriteLine(p)
    PROVE  WritersInv' /\ (DurableInv => DurableInv')
<1> DEFINE r == job[p]
           n == Len(store)
<1>1. /\ pc[p] = "write" /\ store' = Append(store, r) /\ pc' = [pc EXCEPT ![p] = "sync"]
      /\ UNCHANGED <<torn, synced, holder, job, acked, retried, unowned>>
  BY DEF Writers!WriteLine, Writers!Step
<1>2. /\ r \in Lines /\ WellFormed(r) /\ holder = p
      /\ r.kind = "retraction" => \E i \in DOMAIN store : Targets(r, i)
      /\ \A i \in DOMAIN store : store[i].id # r.id
  BY <1>1 DEF WritersInv, LockInv
<1>3. /\ n \in Nat /\ DOMAIN store = 1 .. n /\ store' \in Seq(Lines)
      /\ Len(store') = n + 1 /\ DOMAIN store' = 1 .. n + 1
      /\ store'[n + 1] = r /\ \A i \in 1 .. n : store'[i] = store[i]
  BY <1>1, <1>2 DEF WritersInv, RemoteTypes
<1>4. r' = r /\ n \in Nat
  BY <1>1, <1>3
<1>5. pc'[p] = "sync" /\ \A q \in Process \ {p} : pc'[q] = pc[q]
  BY <1>1 DEF WritersInv, RemoteTypes
<1>6. RemoteTypes'
  BY <1>1, <1>3 DEF WritersInv, RemoteTypes
<1>7. StoreInv'
  <2>1. \A i \in DOMAIN store' : WellFormed(store'[i])
    BY <1>2, <1>3 DEF WritersInv, StoreInv
  <2>2. \A i, j \in DOMAIN store' : store'[i].id = store'[j].id => i = j
    <3> SUFFICES ASSUME NEW i \in 1 .. n + 1, NEW j \in 1 .. n + 1, store'[i].id = store'[j].id PROVE i = j
      BY <1>3
    <3>1. CASE i \in 1 .. n /\ j \in 1 .. n
      BY <1>3, <3>1 DEF WritersInv, StoreInv
    <3>2. CASE i = n + 1 /\ j \in 1 .. n
      BY <1>2, <1>3, <3>2
    <3>3. CASE i \in 1 .. n /\ j = n + 1
      BY <1>2, <1>3, <3>3
    <3> QED BY <1>3, <3>1, <3>2, <3>3
  <2>3. ASSUME NEW i \in DOMAIN store', store'[i].kind = "retraction"
        PROVE  \E j \in 1 .. i : store'[j].id = store'[i].retracts /\ store'[j].kind # "retraction"
    <3>1. CASE i \in 1 .. n
      <4>1. PICK j \in 1 .. i : Targets(store[i], j)
        BY <1>3, <2>3, <3>1 DEF WritersInv, StoreInv
      <4>2. j \in 1 .. n /\ store'[j] = store[j] /\ store'[i] = store[i]
        BY <1>3, <3>1
      <4> QED BY <4>1, <4>2 DEF Targets
    <3>2. CASE i = n + 1
      <4>1. PICK j \in 1 .. n : Targets(r, j)
        BY <1>2, <1>3, <2>3, <3>2
      <4>2. j \in 1 .. i /\ store'[j] = store[j] /\ store'[i] = r
        BY <1>3, <3>2
      <4> QED BY <4>1, <4>2 DEF Targets
    <3> QED BY <1>3, <3>1, <3>2
  <2> QED BY <2>1, <2>2, <2>3 DEF StoreInv, Targets
<1>8. LockInv'
  <2> SUFFICES ASSUME NEW q \in Process
               PROVE  /\ pc'[q] \in {"check", "write", "sync"} => holder' = q
                      /\ pc'[q] # "idle" =>
                            /\ job'[q] \in Lines /\ WellFormed(job'[q])
                            /\ job'[q].kind = "retraction" =>
                                  \E i \in DOMAIN store' :
                                     store'[i].id = job'[q].retracts /\ store'[i].kind # "retraction"
                      /\ pc'[q] = "write" => \A i \in DOMAIN store' : store'[i].id # job'[q].id
                      /\ pc'[q] = "sync" => Len(store') > 0 /\ store'[Len(store')] = job'[q]
    BY DEF LockInv, Targets
  <2>1. \A i \in DOMAIN store : i \in DOMAIN store' /\ store'[i] = store[i]
    BY <1>3
  <2>2. CASE q = p
    <3>1. job'[q].kind = "retraction" =>
             \E i \in DOMAIN store' : store'[i].id = job'[q].retracts /\ store'[i].kind # "retraction"
      BY <1>1, <1>2, <2>1, <2>2 DEF Targets
    <3>2. Len(store') > 0 /\ store'[Len(store')] = job'[q]
      BY <1>1, <1>3, <2>2
    <3> QED BY <1>1, <1>2, <1>5, <2>2, <3>1, <3>2
  <2>3. CASE q # p
    <3>1. pc'[q] \notin {"check", "write", "sync"}
      BY <1>2, <1>5, <2>3 DEF WritersInv, LockInv
    <3>2. pc'[q] # "idle" =>
             /\ job'[q] \in Lines /\ WellFormed(job'[q])
             /\ job'[q].kind = "retraction" =>
                   \E i \in DOMAIN store : store[i].id = job'[q].retracts /\ store[i].kind # "retraction"
      BY <1>1, <1>5, <2>3 DEF WritersInv, LockInv, Targets
    <3>3. pc'[q] # "idle" /\ job'[q].kind = "retraction" =>
             \E i \in DOMAIN store' : store'[i].id = job'[q].retracts /\ store'[i].kind # "retraction"
      BY <2>1, <3>2
    <3> QED BY <3>1, <3>2, <3>3
  <2> QED BY <2>2, <2>3
<1>9. ASSUME DurableInv PROVE DurableInv'
  <2>1. synced' = synced /\ synced \in 0 .. n /\ \A i \in 1 .. synced : store'[i] = store[i]
    BY <1>1, <1>3 DEF WritersInv, RemoteTypes
  <2>2. \A x \in acked' : \E i \in 1 .. synced' : store'[i] = x
    BY <1>1, <1>9, <2>1 DEF DurableInv
  <2>3. unowned' # "lost" => \A x \in retried' : \E i \in DOMAIN store' : store'[i] = x
    BY <1>1, <1>3, <1>9 DEF DurableInv
  <2>4. unowned' = "no" => \A x \in retried' : \E i \in 1 .. synced' : store'[i] = x
    BY <1>1, <1>9, <2>1 DEF DurableInv
  <2> QED BY <1>5, <2>2, <2>3, <2>4 DEF DurableInv
<1> QED BY <1>6, <1>7, <1>8, <1>9 DEF WritersInv

\* A full disk leaves a torn line, and the lock is released.
LEMMA WritersShort ==
    ASSUME WritersInv, NEW p \in Process, Writers!ShortWrite(p)
    PROVE  WritersInv' /\ (DurableInv => DurableInv')
<1>1. /\ pc[p] = "write" /\ torn' = TRUE /\ Writers!Done(p)
      /\ UNCHANGED <<store, synced, acked, retried, unowned>>
  BY DEF Writers!ShortWrite
<1>2. acked' \subseteq Lines /\ unowned' \in {"no", "left", "lost"}
  BY <1>1 DEF WritersInv, RemoteTypes
<1>3. WritersInv' /\ pc'[p] = "idle" /\ \A q \in Process \ {p} : pc'[q] = pc[q]
  BY <1>1, <1>2, WritersDone
<1>4. \A q \in Process : pc[q] = "sync" => pc'[q] = "sync"
  BY <1>1, <1>3
<1>5. DurableInv => DurableInv'
  BY <1>1, <1>4, DurableStep
<1> QED BY <1>3, <1>5

\* The fsync puts the whole file on disk, what was acknowledged and what the dead left.
LEMMA WritersSync ==
    ASSUME WritersInv, NEW p \in Process, Writers!SyncAndAck(p)
    PROVE  WritersInv' /\ (DurableInv => DurableInv')
<1>1. /\ pc[p] = "sync" /\ synced' = Len(store) /\ acked' = acked \cup {job[p]} /\ Writers!Done(p)
      /\ unowned' = IF unowned = "left" THEN "no" ELSE unowned
      /\ UNCHANGED <<store, torn, retried>>
  BY DEF Writers!SyncAndAck
<1>2. job[p] \in Lines /\ Len(store) > 0 /\ store[Len(store)] = job[p]
  BY <1>1 DEF WritersInv, LockInv
<1>3. /\ pc' = [pc EXCEPT ![p] = "idle"] /\ job' = [job EXCEPT ![p] = None]
      /\ holder' = IF holder = p THEN None ELSE holder
  BY <1>1 DEF Writers!Done, Writers!Step
<1>4. Len(store) \in Nat /\ DOMAIN store = 1 .. Len(store)
  BY DEF WritersInv, RemoteTypes
<1>5. RemoteTypes'
  BY <1>1, <1>2, <1>3, <1>4 DEF WritersInv, RemoteTypes
<1>6. /\ pc'[p] = "idle" /\ \A q \in Process \ {p} : pc'[q] = pc[q] /\ job'[q] = job[q]
      /\ \A q \in Process \ {p} : holder = q => holder' = q
  BY <1>3 DEF WritersInv, RemoteTypes
<1>7. WritersInv'
  BY <1>1, <1>5, <1>6, WritersStep
<1>8. ASSUME DurableInv PROVE DurableInv'
  <2>1. \A r \in acked' : \E i \in DOMAIN store : store[i] = r
    <3>1. synced \in 0 .. Len(store)
      BY DEF WritersInv, RemoteTypes
    <3> QED BY <1>1, <1>2, <1>4, <1>8, <3>1 DEF DurableInv
  <2>2. unowned' # "lost" => unowned # "lost"
    BY <1>1
  <2>3. unowned' # "lost" => \A r \in retried' : \E i \in DOMAIN store' : store'[i] = r
    BY <1>1, <1>8, <2>2 DEF DurableInv
  <2>4. unowned' = "no" => \A r \in retried' : \E i \in 1 .. synced' : store'[i] = r
    BY <1>1, <1>4, <2>3
  <2> QED BY <1>1, <1>4, <2>1, <2>3, <2>4 DEF DurableInv
<1> QED BY <1>7, <1>8

\* A process that dies releases the lock; what it did not sync may be lost later.
LEMMA WritersKill ==
    ASSUME WritersInv, NEW p \in Process, Writers!Kill(p)
    PROVE  WritersInv' /\ (DurableInv => DurableInv')
<1>1. /\ torn' \in BOOLEAN /\ Writers!Done(p) /\ UNCHANGED <<store, synced, acked, retried>>
      /\ unowned' = IF pc[p] = "sync" /\ unowned = "no" THEN "left" ELSE unowned
  BY DEF Writers!Kill, WritersInv, RemoteTypes
<1>2. acked' \subseteq Lines /\ unowned' \in {"no", "left", "lost"}
  BY <1>1 DEF WritersInv, RemoteTypes
<1>3. WritersInv' /\ pc'[p] = "idle" /\ \A q \in Process \ {p} : pc'[q] = pc[q]
  BY <1>1, <1>2, WritersDone
<1>4. CASE unowned' = "no"
  <2>1. unowned' = unowned /\ \A q \in Process : pc[q] = "sync" => pc'[q] = "sync"
    BY <1>1, <1>3, <1>4
  <2> QED BY <1>1, <1>3, <2>1, DurableStep
<1>5. CASE unowned' # "no"
  <2>1. unowned' = "lost" <=> unowned = "lost"
    BY <1>1
  <2> QED BY <1>1, <1>3, <1>5, <2>1, DurableStep
<1> QED BY <1>4, <1>5

\* What was synced survives, and every retraction that survives has its target.
LEMMA WritersPowerLoss ==
    ASSUME WritersInv, Writers!PowerLoss
    PROVE  WritersInv' /\ (DurableInv => DurableInv')
<1>1. PICK n \in synced .. Len(store) :
        /\ store' = SubSeq(store, 1, n)
        /\ torn' \in IF n < Len(store) \/ \E p \in Process : pc[p] = "write" THEN {torn, TRUE} ELSE {torn}
        /\ unowned' = IF unowned = "left" THEN IF n = Len(store) THEN "no" ELSE "lost" ELSE unowned
  BY DEF Writers!PowerLoss
<1>2. /\ synced' = Len(store') /\ acked' = acked /\ retried' = retried
      /\ pc' = [p \in Process |-> "idle"] /\ job' = [p \in Process |-> None]
  BY DEF Writers!PowerLoss
<1>3. /\ n \in Nat /\ n <= Len(store) /\ synced \in 0 .. n /\ DOMAIN store = 1 .. Len(store)
      /\ store \in Seq(Lines)
  BY DEF WritersInv, RemoteTypes
<1>4. /\ store' \in Seq(Lines) /\ Len(store') = n /\ DOMAIN store' = 1 .. n
      /\ \A i \in 1 .. n : i \in DOMAIN store /\ store'[i] = store[i]
  BY <1>1, <1>3
<1>5. RemoteTypes'
  <2>1. synced' \in 0 .. Len(store') /\ acked' \subseteq Lines /\ torn' \in BOOLEAN
    <3>1. torn' \in BOOLEAN
      BY <1>1 DEF WritersInv, RemoteTypes
    <3>2. n \in 0 .. n /\ synced' = n /\ Len(store') = n
      BY <1>2, <1>3, <1>4
    <3>3. acked' \subseteq Lines
      BY <1>2 DEF WritersInv, RemoteTypes
    <3> QED BY <3>1, <3>2, <3>3
  <2>2. /\ pc' \in [Process -> {"idle", "wait", "check", "write", "sync"}]
        /\ job' \in [Process -> Lines \cup {None}]
    BY <1>2
  <2>3. unowned' \in {"no", "left", "lost"}
    BY <1>1 DEF WritersInv, RemoteTypes
  <2> QED BY <1>4, <2>1, <2>2, <2>3 DEF RemoteTypes
<1>6. StoreInv'
  <2>1. ASSUME NEW i \in DOMAIN store', store'[i].kind = "retraction"
        PROVE  \E j \in 1 .. i : store'[j].id = store'[i].retracts /\ store'[j].kind # "retraction"
    <3>1. PICK j \in 1 .. i : Targets(store[i], j)
      BY <1>4, <2>1 DEF WritersInv, StoreInv
    <3>2. j \in 1 .. n
      BY <1>3, <1>4
    <3> QED BY <1>4, <3>1, <3>2 DEF Targets
  <2> QED BY <1>4, <2>1 DEF WritersInv, StoreInv, Targets
<1>7. LockInv'
  <2>1. \A p \in Process : pc'[p] = "idle"
    BY <1>2
  <2> QED BY <2>1 DEF LockInv
<1>8. ASSUME DurableInv PROVE DurableInv'
  <2>1. \A i \in 1 .. synced : i \in 1 .. n /\ store'[i] = store[i]
    BY <1>3, <1>4
  <2>2. \A r \in acked' : \E i \in 1 .. n : store'[i] = r
    BY <1>2, <1>8, <2>1 DEF DurableInv
  <2>3. unowned' # "lost" => \A r \in retried' : \E i \in 1 .. n : store'[i] = r
    <3>1. CASE unowned = "no"
      BY <1>2, <1>8, <2>1, <3>1 DEF DurableInv
    <3>2. CASE unowned = "left" /\ n = Len(store)
      BY <1>2, <1>3, <1>4, <1>8, <3>2 DEF DurableInv
    <3>3. CASE unowned = "lost"
      BY <1>1, <3>3
    <3>4. CASE unowned = "left" /\ n # Len(store)
      BY <1>1, <3>4
    <3> QED BY <3>1, <3>2, <3>3, <3>4 DEF WritersInv, RemoteTypes
  <2> QED BY <1>2, <1>3, <1>4, <2>2, <2>3 DEF DurableInv
<1> QED BY <1>5, <1>6, <1>7, <1>8 DEF WritersInv

\* Every step of the writers keeps the invariants.
LEMMA WritersNext ==
    ASSUME WritersInv, Writers!Next
    PROVE  WritersInv' /\ (DurableInv => DurableInv')
<1>1. CASE \E p \in Process : \E id \in Id, kind \in {"profile", "conversation"}, terms \in SUBSET Term \ {{}}, t \in {1} :
             Writers!AppendMemory(p, Writers!Memory(id, kind, terms, t))
  <2>1. PICK p \in Process, id \in Id, kind \in {"profile", "conversation"}, terms \in SUBSET Term :
             Writers!AppendMemory(p, Writers!Memory(id, kind, terms, 1))
    BY <1>1
  <2>2. Writers!Memory(id, kind, terms, 1).kind = kind /\ kind # "retraction"
    BY DEF Writers!Memory
  <2> QED BY <2>1, <2>2, MemoryLines, WritersAppend
<1>2. CASE \E p \in Process : \E target \in Id \cup {Writers!RetractionId(i) : i \in Id} : Writers!Retract(p, target)
  BY <1>2, WritersRetract
<1>3. ASSUME NEW p \in Process,
             \/ Writers!Lock(p) \/ Writers!CheckDuplicate(p) \/ Writers!WriteLine(p)
             \/ Writers!ShortWrite(p) \/ Writers!SyncAndAck(p) \/ Writers!Kill(p)
      PROVE  WritersInv' /\ (DurableInv => DurableInv')
  BY <1>3, WritersLock, WritersCheck, WritersWrite, WritersShort, WritersSync, WritersKill
<1>4. CASE Writers!PowerLoss
  BY <1>4, WritersPowerLoss
<1> QED BY <1>1, <1>2, <1>3, <1>4 DEF Writers!Next

\* A step of something else keeps them.
LEMMA WritersUnchanged ==
    ASSUME WritersInv, UNCHANGED <<pc, RemoteVars>>
    PROVE  WritersInv' /\ (DurableInv => DurableInv')
<1>1. UNCHANGED <<store, torn, synced, holder, pc, job, acked, retried, unowned>>
  BY DEF RemoteVars
<1>2. RemoteTypes' /\ StoreInv'
  BY <1>1 DEF WritersInv, RemoteTypes, StoreInv, Targets
<1>3. LockInv'
  BY <1>1 DEF WritersInv, LockInv, Targets
<1>4. DurableInv => DurableInv'
  BY <1>1 DEF DurableInv
<1> QED BY <1>2, <1>3, <1>4 DEF WritersInv

\* The invariant of the remote store: IDs are unique, retractions stand behind their
\* targets, and the lock covers what is between check and acknowledgement.
THEOREM WritersInvariant ==
    Spec => [](scenario = "writers" => WritersInv)
<1>1. Init => (scenario = "writers" => WritersInv)
  BY WritersStart DEF Init
<1>2. (scenario = "writers" => WritersInv) /\ [Next]_Vars => (scenario = "writers" => WritersInv)'
  <2>1. ASSUME WritersInv, UNCHANGED Vars PROVE WritersInv'
    BY <2>1, WritersUnchanged DEF Vars
  <2> QED BY <2>1, WritersNext DEF Next, Vars
<1> QED BY <1>1, <1>2, PTL DEF Spec

\* Such a store is one that active_records accepts.
LEMMA StoreInvAccepted == WritersInv => Writers!StoreAccepted
<1> SUFFICES ASSUME WritersInv PROVE Writers!StoreAccepted
  OBVIOUS
<1>1. /\ \A i \in DOMAIN store : WellFormed(store[i])
      /\ \A i, j \in DOMAIN store : store[i].id = store[j].id => i = j
      /\ \A i \in DOMAIN store : store[i].kind = "retraction" => \E j \in 1 .. i : Targets(store[i], j)
      /\ DOMAIN store = 1 .. Len(store) /\ Len(store) \in Nat
  BY DEF WritersInv, StoreInv, RemoteTypes
<1>2. ASSUME NEW i \in DOMAIN store, store[i].kind = "retraction"
      PROVE  /\ store[i].id = Writers!RetractionId(store[i].retracts)
             /\ \E j \in DOMAIN store : store[j].id = store[i].retracts /\ store[j].kind # "retraction"
             /\ \A j \in DOMAIN store : j # i => store[j].retracts # store[i].retracts
  <2>1. store[i].retracts \in Id /\ store[i].id = Writers!RetractionId(store[i].retracts)
    BY <1>1, <1>2 DEF WellFormed
  <2>2. \E j \in DOMAIN store : store[j].id = store[i].retracts /\ store[j].kind # "retraction"
    <3>1. PICK j \in 1 .. i : Targets(store[i], j)
      BY <1>1, <1>2
    <3>2. j \in DOMAIN store
      BY <1>1
    <3> QED BY <3>1, <3>2 DEF Targets
  <2>3. ASSUME NEW j \in DOMAIN store, j # i PROVE store[j].retracts # store[i].retracts
    <3>1. CASE store[j].kind = "retraction"
      <4>1. store[j].retracts \in Id /\ store[j].id = Writers!RetractionId(store[j].retracts)
        BY <1>1, <3>1 DEF WellFormed
      <4> QED BY <1>1, <2>1, <2>3, <4>1
    <3>2. CASE store[j].kind # "retraction"
      <4>1. store[j].retracts = None
        BY <1>1, <3>2 DEF WellFormed
      <4> QED BY <2>1, <4>1, IdAssumption, NoneAssumption
    <3> QED BY <3>1, <3>2
  <2> QED BY <2>1, <2>2, <2>3
<1> QED BY <1>1, <1>2 DEF Writers!StoreAccepted, Writers!RetractionsValid

\* However writers race, retry, die and lose power, any number of times, active_records accepts
\* the store: no ID twice, one target per retraction (append under the store lock).
THEOREM StoreIsAccepted == Spec => [](scenario = "writers" => Writers!StoreAccepted)
<1>1. (scenario = "writers" => WritersInv) => (scenario = "writers" => Writers!StoreAccepted)
  BY StoreInvAccepted
<1> QED BY <1>1, WritersInvariant, PTL

\* And it keeps every record whose own call returned, and every retraction a retry was given as
\* long as no power loss took lines behind the death of a writer (_append_record, which returns the
\* stored retraction without syncing it).
THEOREM RemoteMemoryIsSound == Spec => []RemoteMemorySound
<1> DEFINE Inv == scenario = "writers" => WritersInv /\ DurableInv
<1>1. Init => Inv
  BY WritersStart DEF Init
<1>2. Inv /\ [Next]_Vars => Inv'
  <2>1. ASSUME WritersInv, DurableInv, UNCHANGED Vars PROVE WritersInv' /\ DurableInv'
    BY <2>1, WritersUnchanged DEF Vars
  <2>2. ASSUME WritersInv, DurableInv, Writers!Next PROVE WritersInv' /\ DurableInv'
    BY <2>2, WritersNext
  <2> QED BY <2>1, <2>2 DEF Next, Vars
<1>3. WritersInv /\ DurableInv => Writers!AckedStays
  <2> SUFFICES ASSUME WritersInv, DurableInv, NEW r \in Writers!Promised
               PROVE  \E i \in DOMAIN store : store[i] = r
    BY DEF Writers!AckedStays, Writers!ToSet
  <2>1. CASE r \in acked
    BY <2>1 DEF DurableInv, WritersInv, RemoteTypes
  <2>2. CASE unowned # "lost" /\ r \in retried
    BY <2>2 DEF DurableInv
  <2> QED BY <2>1, <2>2 DEF Writers!Promised
<1>4. Inv => RemoteMemorySound
  BY <1>3, StoreInvAccepted DEF RemoteMemorySound
<1> QED BY <1>1, <1>2, <1>4, PTL DEF Spec

-----------------------------------------------------------------------------
(* Workspace memory: types, and what is true of the files of a domain *)

FactLine == [value : Statement, keyed : BOOLEAN, importance : Level, day : Nat]
RevisionOf == [value : Statement, evidence : SUBSET Nat, last : Nat]
Contender == [value : Statement, evidence : SUBSET Nat, last : Nat, incumbent : BOOLEAN]
ConflictCase ==
    [status : {"open", "superseded", "resolved"}, active : Nat, candidates : SUBSET Contender,
     observed : SUBSET Nat, selected : Statement \cup {None}, result : Nat,
     event : DecisionId \cup {None}]
DecisionLine == [event : DecisionId, revision : Nat, selected : Statement, result : Nat]
Transaction ==
    [before : Seq(RevisionOf), unkeyed : [Statement -> SUBSET Nat], casesBefore : Seq(ConflictCase),
     after : Seq(RevisionOf), casesAfter : Seq(ConflictCase), decision : DecisionLine]
PhaseNames == {"prepared", "curated_applied", "conflict_closed", "audit_appended", "committed"}
JournalLine == [event : DecisionId, phase : PhaseNames, intent : Transaction \cup {None}]
LogOf(S) == [lines : Seq(S), fragment : BOOLEAN, corrupt : BOOLEAN]

WorkspaceTypes ==
    /\ daily \in LogOf(FactLine)
    /\ today \in Nat /\ \A i \in DOMAIN daily.lines : daily.lines[i].day <= today
    /\ curated \in Seq(RevisionOf)
    /\ unkeyed \in [Statement -> SUBSET Nat]
    /\ cases \in Seq(ConflictCase)
    /\ decisions \in LogOf(DecisionLine) /\ ~ decisions.corrupt
    /\ journal \in LogOf(JournalLine) /\ ~ journal.corrupt

\* Every revision rests on facts that state its value, and no two on the same fact.
Backed(c, facts) ==
    /\ \A n \in DOMAIN c :
          /\ c[n].evidence # {}
          /\ \A i \in c[n].evidence : i \in DOMAIN facts /\ facts[i].value = c[n].value
    /\ \A m, n \in DOMAIN c : m # n => c[m].evidence \cap c[n].evidence = {}

\* What a case says of the revisions it was opened against.
Grounded(k, c, facts) ==
    /\ k.active <= Len(c)
    /\ \A x \in k.candidates :
         /\ x.incumbent => k.active # 0 /\ x.value = c[k.active].value
         /\ ~ x.incumbent =>
              /\ \A i \in x.evidence : i \in DOMAIN facts /\ facts[i].value = x.value
              /\ k.active # 0 => x.value # c[k.active].value
              /\ k.active = Len(c) => \A m \in DOMAIN c : c[m].evidence \cap x.evidence = {}
Consistent(cs, c, facts) ==
    /\ Backed(c, facts)
    /\ Conflicts!ConflictsReadable(cs)
    /\ \A n \in DOMAIN cs : Grounded(cs[n], c, facts)

\* What distillation and decisions do to the revisions.
Grows(c, d) ==
    /\ Len(d) \in {Len(c), Len(c) + 1}
    /\ \A n \in DOMAIN c :
         /\ d[n].value = c[n].value /\ c[n].evidence \subseteq d[n].evidence
         /\ n < Len(c) => d[n] = c[n]

\* What distillation does to the queue.
Reviewed(cs, ds) ==
    /\ Len(cs) <= Len(ds)
    /\ \A n \in DOMAIN cs :
         \/ ds[n] = cs[n]
         \/ cs[n].status = "open" /\ ds[n] = Conflicts!Superseded(cs[n])
    /\ \A n \in DOMAIN ds \ DOMAIN cs : ds[n].status = "open"

\* A decision is what its case and its revision say.
Stands(d, cs, c) ==
    /\ d.revision \in DOMAIN cs /\ d.result \in DOMAIN c
    /\ cs[d.revision].status = "resolved"
    /\ cs[d.revision].event = d.event
    /\ cs[d.revision].result = d.result
    /\ c[d.result].value = d.selected

\* What was prepared: one open case is closed, a revision added perhaps.
Prepared(e, t, facts) ==
    /\ t \in Transaction
    /\ t.decision.event = e
    /\ Consistent(t.casesAfter, t.after, facts)
    /\ Grows(t.before, t.after)
    /\ Stands(t.decision, t.casesAfter, t.after)
    /\ Len(t.casesBefore) = Len(t.casesAfter)
    /\ t.casesBefore[t.decision.revision].status = "open"
    /\ \A n \in DOMAIN t.casesBefore : n # t.decision.revision => t.casesAfter[n] = t.casesBefore[n]

Ruled(e) == \E i \in DOMAIN decisions.lines : decisions.lines[i].event = e

JournalOrdered ==
    /\ Conflicts!JournalReadable
    /\ \A e \in DecisionId :
         Conflicts!Recorded(e) \in {{}, {"prepared"}, {"prepared", "curated_applied"},
                          {"prepared", "curated_applied", "conflict_closed"},
                          PhaseNames \ {"committed"}, PhaseNames}

DecidedInv ==
    \A e \in DecisionId : "committed" \in Conflicts!Recorded(e) =>
        /\ Conflicts!Intent(e).decision.event = e
        /\ Stands(Conflicts!Intent(e).decision, cases, curated)
        /\ Ruled(e)

\* How far the files are, as the journal says of the decision that is not committed.
UnfinishedInv ==
    /\ \A e, f \in Conflicts!Unfinished : e = f
    /\ \A e \in Conflicts!Unfinished :
         LET t == Conflicts!Intent(e) IN
         /\ Prepared(e, t, daily.lines)
         /\ unkeyed = t.unkeyed
         /\ curated \in {t.before, t.after}
         /\ cases \in {t.casesBefore, t.casesAfter}
         /\ "curated_applied" \in Conflicts!Recorded(e) => curated = t.after
         /\ "curated_applied" \notin Conflicts!Recorded(e) => cases = t.casesBefore
         /\ "conflict_closed" \in Conflicts!Recorded(e) => cases = t.casesAfter
         /\ "audit_appended" \in Conflicts!Recorded(e) => Ruled(e)
         /\ \A i \in DOMAIN decisions.lines :
               decisions.lines[i].event = e => decisions.lines[i] = t.decision

Resting == {"idle", "save_curated", "render", "save_conflicts"}
\* The steps of a resolution, from the one named on.
Completing == {"apply", "project", "curated_applied", "close", "conflict_closed",
               "audit", "audit_appended", "committed"}
BeforeClose == {"apply", "project", "curated_applied"}
BeforeAudit == BeforeClose \cup {"close", "conflict_closed"}

\* A decision that was checked against the first facts and is not prepared yet.
Intends(n, c) ==
    /\ cases[n].status = "open" /\ cases[n].active = Len(curated)
    /\ work.intent = Conflicts!Resolution(n, c, work.event)
    /\ \A i \in 1 .. work.read : daily.lines[i].keyed => i \in cases[n].observed

WorkInv ==
    /\ pc \in Resting \cup Completing \cup {"down", "prepare"}
    /\ pc \in Resting \cup {"prepare"} => Conflicts!Unfinished = {}
    /\ pc = "prepare" =>
         /\ work.event \in DecisionId /\ ~ Ruled(work.event)
         /\ \E n \in DOMAIN cases : \E c \in cases[n].candidates : Intends(n, c)
         /\ work.read \in Nat /\ work.read <= Len(daily.lines)
         /\ \A n \in DOMAIN work.intent.after : work.intent.after[n].evidence \subseteq 1 .. work.read
    /\ pc \in Resting \ {"idle"} =>
         /\ work.curated \in Seq(RevisionOf) /\ work.cases \in Seq(ConflictCase)
         /\ work.unkeyed \in [Statement -> SUBSET Nat]
         /\ Grows(curated, work.curated)
         /\ \A v \in Statement : unkeyed[v] \subseteq work.unkeyed[v]
         /\ Reviewed(cases, work.cases)
         /\ Consistent(work.cases, work.curated, daily.lines)
         /\ pc # "save_curated" => work.curated = curated
    /\ pc \in Completing =>
         LET e == work.event
             t == Conflicts!Intent(e)
             seen(phase) == phase \in work.done <=> phase \in Conflicts!Recorded(e) IN
         /\ e \in Conflicts!Unfinished
         /\ "committed" \notin work.done
         /\ pc \in BeforeClose => seen("curated_applied")
         /\ pc \in BeforeAudit => seen("conflict_closed")
         /\ pc # "committed" => seen("audit_appended")
         /\ pc # "apply" => curated = t.after
         /\ pc \notin BeforeClose => "curated_applied" \in Conflicts!Recorded(e)
         /\ pc \notin BeforeClose \cup {"close"} => cases = t.casesAfter
         /\ pc \notin BeforeAudit => "conflict_closed" \in Conflicts!Recorded(e)
         /\ pc \in {"audit_appended", "committed"} => Ruled(e)
         /\ pc = "committed" => "audit_appended" \in Conflicts!Recorded(e)

ConflictsInv ==
    /\ WorkspaceTypes
    /\ Consistent(cases, curated, daily.lines)
    /\ Conflicts!DecisionsReadable
    /\ Conflicts!ViewNotAhead
    /\ JournalOrdered
    /\ DecidedInv
    /\ UnfinishedInv
    /\ WorkInv

-----------------------------------------------------------------------------
(* Workspace memory: what its operations do to cases, revisions and facts *)

\* The fields of a case that was closed undecided (_queue_conflict, distill).
LEMMA SupersededCase ==
  ASSUME NEW k \in ConflictCase
  PROVE  LET s == Conflicts!Superseded(k) IN
         /\ s \in ConflictCase /\ s.status = "superseded" /\ s.active = k.active
         /\ s.candidates = k.candidates /\ s.observed = k.observed
         /\ s.selected = k.selected /\ s.result = k.result /\ s.event = k.event
  BY DEF Conflicts!Superseded, ConflictCase

\* The fields of a case a human decided (resolve_conflict).
LEMMA ResolvedCase ==
  ASSUME NEW k \in ConflictCase, NEW x \in Contender, NEW r \in Nat, NEW e \in DecisionId
  PROVE  LET s == Conflicts!Resolved(k, x, r, e) IN
         /\ s \in ConflictCase /\ s.status = "resolved" /\ s.active = k.active
         /\ s.candidates = k.candidates /\ s.observed = k.observed
         /\ s.selected = x.value /\ s.result = r /\ s.event = e
  BY DEF Conflicts!Resolved, ConflictCase, Contender

\* One more line behind whole lines (_append_resolution_phase, _append_adjudication).
LEMMA AppendedLine ==
  ASSUME NEW S, NEW f \in LogOf(S), ~ f.corrupt, NEW line \in S
  PROVE  LET g == Conflicts!AppendTo(Conflicts!DiscardTail(f), line) IN
         /\ g \in LogOf(S) /\ ~ g.corrupt
         /\ g.lines = Append(f.lines, line)
<1> DEFINE d == Conflicts!DiscardTail(f)
           a == IF d.fragment THEN d.lines ELSE Append(d.lines, line)
           b == d.corrupt \/ d.fragment
<1>1. d \in LogOf(S) /\ d.lines = f.lines /\ ~ d.corrupt /\ d.fragment = FALSE
  BY DEF Conflicts!DiscardTail, LogOf
<1>2. f.lines \in Seq(S) /\ Append(f.lines, line) \in Seq(S)
  BY DEF LogOf
<1>3. a = Append(f.lines, line) /\ b \in BOOLEAN /\ ~ b
  BY <1>1
<1>4. Conflicts!AppendTo(d, line) = [lines |-> a, fragment |-> FALSE, corrupt |-> b]
  BY DEF Conflicts!AppendTo
<1> HIDE DEF a, b
<1> QED BY <1>2, <1>3, <1>4 DEF LogOf

\* A log that was added to holds what it held.
Longer(f, g) == Len(f) <= Len(g) /\ \A i \in DOMAIN f : g[i] = f[i]

\* What holds of revisions holds when more facts are known (append_daily_log).
LEMMA BackedLonger ==
  ASSUME NEW c, NEW f \in Seq(FactLine), NEW g \in Seq(FactLine), Backed(c, f), Longer(f, g)
  PROVE  Backed(c, g)
<1>1. \A i \in DOMAIN f : i \in DOMAIN g /\ g[i] = f[i]
  BY DEF Longer
<1> QED BY <1>1 DEF Backed

\* The same of cases.
LEMMA ConsistentLonger ==
  ASSUME NEW cs, NEW c, NEW f \in Seq(FactLine), NEW g \in Seq(FactLine),
         Consistent(cs, c, f), Longer(f, g)
  PROVE  Consistent(cs, c, g)
<1>1. \A i \in DOMAIN f : i \in DOMAIN g /\ g[i] = f[i]
  BY DEF Longer
<1>2. ASSUME NEW n \in DOMAIN cs PROVE Grounded(cs[n], c, g)
  BY <1>1 DEF Consistent, Grounded
<1> QED BY <1>2, BackedLonger DEF Consistent

\* A case stays grounded when revisions are updated or added: a new revision is not
\* the one it was opened against, and an update of that one takes other values' facts.
LEMMA GroundedGrows ==
  ASSUME NEW k \in ConflictCase, NEW c \in Seq(RevisionOf), NEW d \in Seq(RevisionOf), NEW f \in Seq(FactLine),
         Grounded(k, c, f), Grows(c, d), Backed(d, f)
  PROVE  Grounded(k, d, f)
<1>1. k.active \in Nat /\ k.active <= Len(c) /\ Len(c) \in Nat /\ Len(d) \in Nat /\ Len(c) <= Len(d)
      /\ DOMAIN c = 1 .. Len(c) /\ DOMAIN d = 1 .. Len(d)
  BY DEF ConflictCase, Grounded, Grows
<1>2. ASSUME k.active # 0 PROVE k.active \in DOMAIN c /\ d[k.active].value = c[k.active].value
  <2>1. k.active \in 1 .. Len(c)
    BY <1>1, <1>2
  <2> QED BY <2>1, <1>1 DEF Grows
<1>3. ASSUME NEW x \in k.candidates, ~ x.incumbent, k.active = Len(d), NEW m \in DOMAIN d
      PROVE  d[m].evidence \cap x.evidence = {}
  <2>0. k.active \in Nat /\ k.active <= Len(c) /\ Len(c) \in Nat /\ Len(d) \in Nat /\ Len(c) <= Len(d)
    BY <1>1
  <2>5. k.active = Len(d)
    BY <1>3
  <2>1. Len(d) = Len(c)
    BY <2>0, <2>5
  <2>4. k.active = Len(c) /\ m \in 1 .. Len(c)
    BY <1>1, <1>3, <2>1
  <2>2. CASE m < Len(c)
    <3>1. d[m] = c[m]
      BY <2>1, <2>4, <2>2, <1>1 DEF Grows
    <3>2. c[m].evidence \cap x.evidence = {}
      BY <2>1, <2>4, <1>1, <1>3 DEF Grounded
    <3> QED BY <3>1, <3>2
  <2>3. CASE m = Len(c)
    <3>1. k.active # 0 /\ m = k.active
      BY <2>1, <2>4, <2>3, <1>1
    <3>2. \A i \in d[m].evidence : f[i].value = d[m].value
      BY DEF Backed
    <3>3. \A i \in x.evidence : f[i].value = x.value
      BY <1>3 DEF Grounded
    <3>4. x.value # d[m].value
      BY <3>1, <1>2, <1>3 DEF Grounded
    <3> QED BY <3>2, <3>3, <3>4
  <2> QED BY <2>4, <2>2, <2>3, <1>1
<1> QED BY <1>1, <1>2, <1>3 DEF Grounded

\* The queue stays consistent when the revisions grow (_save_curated).
LEMMA ConsistentGrows ==
  ASSUME NEW cs \in Seq(ConflictCase), NEW c \in Seq(RevisionOf), NEW d \in Seq(RevisionOf), NEW f \in Seq(FactLine),
         Consistent(cs, c, f), Grows(c, d), Backed(d, f)
  PROVE  Consistent(cs, d, f)
<1>1. \A n \in DOMAIN cs : cs[n] \in ConflictCase
  OBVIOUS
<1> QED BY <1>1, GroundedGrows DEF Consistent

\* A decision stands when the revisions grow.
LEMMA StandsGrows ==
  ASSUME NEW t, NEW cs, NEW c \in Seq(RevisionOf), NEW d \in Seq(RevisionOf),
         Stands(t, cs, c), Grows(c, d)
  PROVE  Stands(t, cs, d)
  BY DEF Stands, Grows

\* A decision stands when the queue is reviewed: its case is not open.
LEMMA StandsReviewed ==
  ASSUME NEW t, NEW cs \in Seq(ConflictCase), NEW ds \in Seq(ConflictCase), NEW c,
         Stands(t, cs, c), Reviewed(cs, ds)
  PROVE  Stands(t, ds, c)
<1>1. t.revision \in DOMAIN ds /\ ds[t.revision] = cs[t.revision]
  BY DEF Stands, Reviewed
<1> QED BY <1>1 DEF Stands

\* A decision stands when another one closes another case.
LEMMA StandsDecided ==
  ASSUME NEW t, NEW cs \in Seq(ConflictCase), NEW ds \in Seq(ConflictCase), NEW c, NEW r,
         Stands(t, cs, c), Len(cs) = Len(ds), cs[r].status = "open",
         \A n \in DOMAIN cs : n # r => ds[n] = cs[n]
  PROVE  Stands(t, ds, c)
<1>1. t.revision \in DOMAIN ds /\ ds[t.revision] = cs[t.revision]
  BY DEF Stands
<1> QED BY <1>1 DEF Stands

-----------------------------------------------------------------------------
(* Workspace memory: what an append to the journal does *)

\* The order of the phases (_RESOLUTION_PHASE_ORDER).
LEMMA PhaseOrder ==
  /\ DOMAIN Conflicts!Phases = 1 .. 5
  /\ Conflicts!Phases[1] = "prepared" /\ Conflicts!Phases[2] = "curated_applied"
  /\ Conflicts!Phases[3] = "conflict_closed" /\ Conflicts!Phases[4] = "audit_appended"
  /\ Conflicts!Phases[5] = "committed"
  BY DEF Conflicts!Phases

\* What was recorded before each of the phases.
LEMMA PhasesBefore ==
  /\ {Conflicts!Phases[m] : m \in 1 .. 1 - 1} = {}
  /\ {Conflicts!Phases[m] : m \in 1 .. 2 - 1} = {"prepared"}
  /\ {Conflicts!Phases[m] : m \in 1 .. 3 - 1} = {"prepared", "curated_applied"}
  /\ {Conflicts!Phases[m] : m \in 1 .. 4 - 1} = {"prepared", "curated_applied", "conflict_closed"}
  /\ {Conflicts!Phases[m] : m \in 1 .. 5 - 1} = {"prepared", "curated_applied", "conflict_closed", "audit_appended"}
<1> DEFINE P == Conflicts!Phases
<1>1. P[1] = "prepared" /\ P[2] = "curated_applied" /\ P[3] = "conflict_closed" /\ P[4] = "audit_appended"
  BY PhaseOrder
<1> HIDE DEF P
<1>2. 1 .. 1 - 1 = {} /\ 1 .. 2 - 1 = {1} /\ 1 .. 3 - 1 = {1, 2} /\ 1 .. 4 - 1 = {1, 2, 3} /\ 1 .. 5 - 1 = {1, 2, 3, 4}
  OBVIOUS
<1>3. /\ {P[m] : m \in {}} = {} /\ {P[m] : m \in {1}} = {P[1]} /\ {P[m] : m \in {1, 2}} = {P[1], P[2]}
      /\ {P[m] : m \in {1, 2, 3}} = {P[1], P[2], P[3]} /\ {P[m] : m \in {1, 2, 3, 4}} = {P[1], P[2], P[3], P[4]}
  OBVIOUS
<1> QED BY <1>1, <1>2, <1>3 DEF P

\* What the lines before line i of a journal J say of a decision.
Before(J, i, e) == {J[j].phase : j \in {k \in DOMAIN J : k < i /\ J[k].event = e}}
Ordered(J) ==
    \A i \in DOMAIN J : \E k \in DOMAIN Conflicts!Phases :
        /\ J[i].phase = Conflicts!Phases[k]
        /\ Before(J, i, J[i].event) = {Conflicts!Phases[m] : m \in 1 .. k - 1}
IntentIn(J, e) ==
    (CHOOSE l \in {J[i] : i \in DOMAIN J} : l.event = e /\ l.phase = "prepared").intent

\* The journal on disk is one of those.
LEMMA JournalIn ==
  /\ \A i, e : Conflicts!RecordedBefore(i, e) = Before(journal.lines, i, e)
  /\ \A e : Conflicts!Recorded(e) = Before(journal.lines, Len(journal.lines) + 1, e)
  /\ \A e : Conflicts!Intent(e) = IntentIn(journal.lines, e)
  /\ Conflicts!JournalReadable <=> ~ journal.corrupt /\ Ordered(journal.lines)
  BY Zenon DEF Conflicts!RecordedBefore, Conflicts!Recorded, Conflicts!Intent, Conflicts!JournalReadable,
         Before, Ordered, IntentIn

\* So is the journal after a step.
LEMMA JournalInNext ==
  /\ \A i, e : Conflicts!RecordedBefore(i, e)' = Before(journal'.lines, i, e)
  /\ \A e : Conflicts!Recorded(e)' = Before(journal'.lines, Len(journal'.lines) + 1, e)
  /\ \A e : Conflicts!Intent(e)' = IntentIn(journal'.lines, e)
  /\ Conflicts!JournalReadable' <=> ~ journal'.corrupt /\ Ordered(journal'.lines)
  BY Zenon DEF Conflicts!RecordedBefore, Conflicts!Recorded, Conflicts!Intent, Conflicts!JournalReadable,
         Before, Ordered, IntentIn

\* The prepared line of a decision holds its intent.
LEMMA IntentOf ==
  ASSUME NEW J \in Seq(JournalLine), Ordered(J), NEW e, NEW i \in DOMAIN J,
         J[i].event = e, J[i].phase = "prepared"
  PROVE  IntentIn(J, e) = J[i].intent
<1> DEFINE L == {J[j] : j \in DOMAIN J}
<1>1. DOMAIN J = 1 .. Len(J) /\ Len(J) \in Nat
  OBVIOUS
<1>2. ASSUME NEW a \in DOMAIN J, NEW b \in DOMAIN J, a < b, J[a].event = J[b].event, J[b].phase = "prepared"
      PROVE  FALSE
  <2>1. PICK k \in DOMAIN Conflicts!Phases :
          /\ J[b].phase = Conflicts!Phases[k]
          /\ Before(J, b, J[b].event) = {Conflicts!Phases[m] : m \in 1 .. k - 1}
    BY DEF Ordered
  <2>2. k = 1
    <3>1. k = 1 \/ k = 2 \/ k = 3 \/ k = 4 \/ k = 5
      BY PhaseOrder
    <3>2. Conflicts!Phases[k] = "prepared"
      BY <2>1, <1>2
    <3> QED BY <3>1, <3>2, PhaseOrder
  <2>3. J[a].phase \in Before(J, b, J[b].event)
    BY <1>2 DEF Before
  <2> QED BY <2>1, <2>2, <2>3, PhasesBefore
<1>3. ASSUME NEW l \in L, l.event = e, l.phase = "prepared" PROVE l = J[i]
  <2>1. PICK j \in DOMAIN J : l = J[j]
    BY <1>3
  <2>2. j \in Int /\ i \in Int
    BY <1>1
  <2>3. j = i
    BY <2>1, <2>2, <1>2, <1>3
  <2> QED BY <2>1, <2>3
<1>4. J[i] \in L
  OBVIOUS
<1> HIDE DEF L
<1>5. (CHOOSE l \in L : l.event = e /\ l.phase = "prepared") = J[i]
  BY <1>3, <1>4
<1> QED BY <1>5 DEF L, IntentIn

\* A decision that is recorded at all has its prepared line.
LEMMA PreparedLine ==
  ASSUME WorkspaceTypes, JournalOrdered, NEW e \in DecisionId, Conflicts!Recorded(e) # {}
  PROVE  \E i \in DOMAIN journal.lines : journal.lines[i].event = e /\ journal.lines[i].phase = "prepared"
<1>1. "prepared" \in Conflicts!Recorded(e)
  BY DEF JournalOrdered, PhaseNames
<1> QED BY <1>1 DEF Conflicts!Recorded, Conflicts!RecordedBefore

\* A phase is recorded behind those before it, and nothing else changes
\* (_append_resolution_phase).
LEMMA JournalStep ==
  ASSUME WorkspaceTypes, JournalOrdered, NEW e \in DecisionId, NEW k \in 1 .. 5,
         NEW x \in Transaction \cup {None},
         journal' = Conflicts!JournalAppended(e, Conflicts!Phases[k], x),
         Conflicts!Recorded(e) = {Conflicts!Phases[m] : m \in 1 .. k - 1}
  PROVE  /\ journal' \in LogOf(JournalLine) /\ ~ journal'.corrupt
         /\ JournalOrdered'
         /\ Conflicts!Recorded(e)' = Conflicts!Recorded(e) \cup {Conflicts!Phases[k]}
         /\ \A f \in DecisionId : f # e => Conflicts!Recorded(f)' = Conflicts!Recorded(f)
         /\ \A f \in DecisionId : Conflicts!Recorded(f) # {} => Conflicts!Intent(f)' = Conflicts!Intent(f)
         /\ k = 1 => Conflicts!Intent(e)' = x
<1> DEFINE p == Conflicts!Phases[k]
           line == [event |-> e, phase |-> p, intent |-> x]
           J == journal.lines
           K == Append(J, line)
<1>1. p \in PhaseNames
  BY PhaseOrder DEF PhaseNames
<1> HIDE DEF p
<1>2. line \in JournalLine /\ line.event = e /\ line.phase = p /\ line.intent = x
  BY <1>1 DEF JournalLine
<1>3. journal' = Conflicts!AppendTo(Conflicts!DiscardTail(journal), line)
  BY DEF Conflicts!JournalAppended, p
<1> HIDE DEF line
<1>4. journal' \in LogOf(JournalLine) /\ ~ journal'.corrupt /\ journal'.lines = K
  BY <1>2, <1>3, AppendedLine DEF WorkspaceTypes
<1>5. J \in Seq(JournalLine) /\ Len(J) \in Nat /\ DOMAIN J = 1 .. Len(J)
  BY DEF WorkspaceTypes, LogOf
<1>6. /\ K \in Seq(JournalLine) /\ Len(K) = Len(J) + 1 /\ DOMAIN K = 1 .. Len(J) + 1
      /\ K[Len(J) + 1] = line /\ \A i \in 1 .. Len(J) : K[i] = J[i]
  BY <1>2, <1>5, AppendProperties
<1> HIDE DEF K
<1>7. ASSUME NEW i \in 1 .. Len(J) + 1, NEW f PROVE Before(K, i, f) = Before(J, i, f)
  <2>1. {j \in DOMAIN K : j < i /\ K[j].event = f} = {j \in DOMAIN J : j < i /\ J[j].event = f}
    BY <1>5, <1>6
  <2>2. \A j \in {j \in DOMAIN J : j < i /\ J[j].event = f} : K[j].phase = J[j].phase
    BY <1>5, <1>6
  <2> QED BY <2>1, <2>2 DEF Before
<1>8. ASSUME NEW f \in DecisionId
      PROVE  Conflicts!Recorded(f)' = IF f = e THEN Conflicts!Recorded(f) \cup {p} ELSE Conflicts!Recorded(f)
  <2> DEFINE n == Len(J) + 1
             A == {j \in DOMAIN K : j < n + 1 /\ K[j].event = f}
             B == {j \in DOMAIN J : j < n /\ J[j].event = f}
  <2>1. A = IF f = e THEN B \cup {n} ELSE B
    BY <1>2, <1>5, <1>6
  <2>2. \A j \in B : K[j].phase = J[j].phase
    BY <1>5, <1>6
  <2>3. K[n].phase = p
    BY <1>2, <1>6
  <2>4. Conflicts!Recorded(f) = {J[j].phase : j \in B}
    BY JournalIn DEF Before
  <2>5. Conflicts!Recorded(f)' = {K[j].phase : j \in A}
    BY <1>4, <1>6, JournalInNext DEF Before
  <2> HIDE DEF A, B, n
  <2> QED BY <2>1, <2>2, <2>3, <2>4, <2>5
<1>9. Ordered(K)
  <2> SUFFICES ASSUME NEW i \in DOMAIN K
               PROVE  \E m \in DOMAIN Conflicts!Phases :
                        /\ K[i].phase = Conflicts!Phases[m]
                        /\ Before(K, i, K[i].event) = {Conflicts!Phases[j] : j \in 1 .. m - 1}
    BY DEF Ordered
  <2>1. CASE i = Len(J) + 1
    <3>1. K[i].phase = Conflicts!Phases[k] /\ K[i].event = e
      BY <2>1, <1>2, <1>6 DEF p
    <3>2. Before(K, i, e) = Conflicts!Recorded(e)
      BY <2>1, <1>5, <1>7, JournalIn
    <3>3. k \in DOMAIN Conflicts!Phases
      BY PhaseOrder
    <3> QED BY <3>1, <3>2, <3>3
  <2>2. CASE i \in DOMAIN J
    <3>1. K[i] = J[i] /\ Before(K, i, J[i].event) = Before(J, i, J[i].event)
      BY <2>2, <1>5, <1>6, <1>7
    <3>2. \E m \in DOMAIN Conflicts!Phases :
            /\ J[i].phase = Conflicts!Phases[m]
            /\ Before(J, i, J[i].event) = {Conflicts!Phases[j] : j \in 1 .. m - 1}
      BY <2>2, JournalIn DEF JournalOrdered, Ordered
    <3> QED BY <3>1, <3>2
  <2> QED BY <2>1, <2>2, <1>5, <1>6
<1>10. Conflicts!Recorded(e) \cup {p} \in
          {{"prepared"}, {"prepared", "curated_applied"},
           {"prepared", "curated_applied", "conflict_closed"}, PhaseNames \ {"committed"}, PhaseNames}
  <2>1. k = 1 \/ k = 2 \/ k = 3 \/ k = 4 \/ k = 5
    OBVIOUS
  <2>2. PhaseNames = {"prepared", "curated_applied", "conflict_closed", "audit_appended", "committed"}
        /\ PhaseNames \ {"committed"} = {"prepared", "curated_applied", "conflict_closed", "audit_appended"}
    BY DEF PhaseNames
  <2>3. CASE k = 1 BY <2>3, PhaseOrder, PhasesBefore DEF p
  <2>4. CASE k = 2 BY <2>4, PhaseOrder, PhasesBefore DEF p
  <2>5. CASE k = 3 BY <2>5, PhaseOrder, PhasesBefore DEF p
  <2>6. CASE k = 4 BY <2>6, <2>2, PhaseOrder, PhasesBefore DEF p
  <2>7. CASE k = 5 BY <2>7, <2>2, PhaseOrder, PhasesBefore DEF p
  <2> QED BY <2>1, <2>3, <2>4, <2>5, <2>6, <2>7
<1>11. JournalOrdered'
  <2>1. Conflicts!JournalReadable'
    BY <1>4, <1>9, JournalInNext
  <2> QED BY <1>8, <1>10, <2>1 DEF JournalOrdered
<1>12. Ordered(J)
  BY JournalIn DEF JournalOrdered
<1>13. ASSUME NEW f \in DecisionId, Conflicts!Recorded(f) # {}
       PROVE  Conflicts!Intent(f)' = Conflicts!Intent(f)
  <2>1. PICK i \in DOMAIN J : J[i].event = f /\ J[i].phase = "prepared"
    BY <1>13, PreparedLine
  <2>2. IntentIn(J, f) = J[i].intent
    BY <2>1, <1>5, <1>12, IntentOf
  <2>3. i \in DOMAIN K /\ K[i] = J[i]
    BY <1>5, <1>6
  <2>4. IntentIn(K, f) = K[i].intent
    BY <2>1, <2>3, <1>6, <1>9, IntentOf
  <2> QED BY <2>2, <2>3, <2>4, <1>4, JournalIn, JournalInNext
<1>14. ASSUME k = 1 PROVE Conflicts!Intent(e)' = x
  <2> DEFINE n == Len(J) + 1
  <2>1. n \in DOMAIN K /\ K[n].event = e /\ K[n].phase = "prepared" /\ K[n].intent = x
    BY <1>2, <1>5, <1>6, <1>14, PhaseOrder DEF p
  <2> HIDE DEF n
  <2>2. IntentIn(K, e) = x
    BY <2>1, <1>6, <1>9, IntentOf
  <2> QED BY <2>2, <1>4, JournalInNext
<1> QED BY <1>4, <1>8, <1>11, <1>13, <1>14 DEF p

-----------------------------------------------------------------------------
(* Workspace memory: what distillation makes of facts, revisions and cases *)

\* Sets are counted as anywhere else.
LEMMA Counted == \A S : Conflicts!Cardinality(S) = Cardinality(S)
<1> SUFFICES ASSUME NEW S PROVE Conflicts!Cardinality(S) = Cardinality(S)
  OBVIOUS
<1> QED BY DEF Conflicts!Cardinality, Cardinality

\* A bounded set of days has a latest one: as many days as there are up to it.
LEMMA LatestExists ==
  ASSUME NEW D \in SUBSET Nat, NEW b \in Nat, \A d \in D : d <= b, D # {}
  PROVE  \E d \in D : \A x \in D : x <= d
<1> DEFINE I == {m \in 0 .. b : \E d \in D : m <= d}
           k == Cardinality(I)
<1>1. IsFiniteSet(0 .. b) /\ I \subseteq 0 .. b
  BY FS_Interval
<1>2. IsFiniteSet(I) /\ k \in Nat
  BY <1>1, FS_Subset, FS_CardinalityType
<1>3. D \subseteq I
  OBVIOUS
<1>4. \A m \in I : \A n \in 0 .. m : n \in I
  OBVIOUS
<1>9. \A m \in I : \E d \in D : m <= d
  OBVIOUS
<1>11. 0 .. b \subseteq Nat
  OBVIOUS
<1>5. I # {} /\ I \subseteq Nat
  <2> HIDE DEF I
  <2> QED BY <1>1, <1>3, <1>11
<1>6. k # 0
  BY <1>2, <1>5, FS_EmptySet
<1> HIDE DEF I
<1>7. ASSUME NEW m \in I PROVE m < k
  <2>1. 0 .. m \subseteq I /\ m \in Nat
    BY <1>4, <1>5
  <2> DEFINE c == Cardinality(0 .. m)
  <2>2. c = m + 1
    BY <2>1, FS_Interval
  <2>3. c <= k
    BY <2>1, <1>2, FS_Subset
  <2>4. m \in Nat /\ k \in Nat
    BY <2>1, <1>2
  <2> HIDE DEF k, c
  <2> QED BY <2>2, <2>3, <2>4
<1>8. k - 1 \in I
  <2> SUFFICES ASSUME k - 1 \notin I PROVE FALSE
    OBVIOUS
  <2>1. I \subseteq 0 .. k - 2
    <3> HIDE DEF k
    <3>2. k \in Nat
      BY <1>2
    <3> SUFFICES ASSUME NEW m \in I PROVE m \in 0 .. k - 2
      OBVIOUS
    <3>1. m \in Nat /\ m < k /\ m # k - 1
      BY <1>5, <1>7
    <3> QED BY <3>1, <3>2
  <2>2. IsFiniteSet(0 .. k - 2) /\ Cardinality(0 .. k - 2) = IF 0 > k - 2 THEN 0 ELSE k - 1
    BY <1>2, FS_Interval
  <2>3. k <= Cardinality(0 .. k - 2)
    BY <2>1, <2>2, FS_Subset
  <2> HIDE DEF k
  <2> QED BY <2>2, <2>3, <1>2, <1>6
<1> HIDE DEF k
<1>10. PICK d \in D : k - 1 <= d
  BY <1>8, <1>9
<1>12. \A x \in D : x \in Nat /\ x < k
  BY <1>3, <1>7
<1> QED BY <1>10, <1>12, <1>2

\* The latest day of some facts is a day.
LEMMA LatestDayType ==
  ASSUME WorkspaceTypes, NEW S \in SUBSET Conflicts!Ids, S # {}
  PROVE  Conflicts!LatestDay(S) \in Nat
<1> DEFINE D == {Conflicts!Fact(i).day : i \in S}
<1>1. ASSUME NEW i \in S PROVE Conflicts!Fact(i).day \in Nat /\ Conflicts!Fact(i).day <= today
  <2>1. i \in DOMAIN daily.lines /\ daily.lines \in Seq(FactLine)
    BY DEF WorkspaceTypes, LogOf, Conflicts!Ids
  <2>2. daily.lines[i] \in FactLine
    BY <2>1
  <2> QED BY <2>1, <2>2 DEF WorkspaceTypes, FactLine, Conflicts!Fact
<1>2. D \in SUBSET Nat /\ D # {} /\ \A d \in D : d <= today
  BY <1>1
<1>3. today \in Nat
  BY DEF WorkspaceTypes
<1> HIDE DEF D
<1>4. \E d \in D : \A x \in D : x <= d
  BY <1>2, <1>3, LatestExists
<1>5. \E d \in D : \A i \in S : Conflicts!Fact(i).day <= d
  BY <1>4 DEF D
<1> QED BY <1>2, <1>5 DEF D, Conflicts!LatestDay

\* The facts behind a value state it, and no revision cites them yet.
LEMMA BackingFacts ==
  ASSUME WorkspaceTypes, NEW v, NEW keyed
  PROVE  /\ Conflicts!Backing(v, keyed) \subseteq Conflicts!Ids
         /\ Conflicts!Backing(v, keyed) \in SUBSET Nat
         /\ \A i \in Conflicts!Backing(v, keyed) : daily.lines[i].value = v
         /\ \A n \in DOMAIN curated : curated[n].evidence \cap Conflicts!Backing(v, keyed) = {}
<1>1. Conflicts!Backing(v, keyed) \subseteq Conflicts!Ids
  BY DEF Conflicts!Backing, Conflicts!Candidates
<1>2. Conflicts!Ids \subseteq Nat
  BY DEF WorkspaceTypes, LogOf, Conflicts!Ids
<1>3. \A i \in Conflicts!Backing(v, keyed) : daily.lines[i].value = v
  BY DEF Conflicts!Backing, Conflicts!Fact
<1>4. ASSUME NEW n \in DOMAIN curated, NEW i \in curated[n].evidence PROVE i \notin Conflicts!Backing(v, keyed)
  BY DEF Conflicts!Backing, Conflicts!Candidates
<1> QED BY <1>1, <1>2, <1>3, <1>4

\* More evidence for the active revision (distill).
LEMMA ReinforcedRevisions ==
  ASSUME WorkspaceTypes, Backed(curated, daily.lines)
  PROVE  LET R == Conflicts!Reinforced
             c == Conflicts!Current IN
         /\ R \in Seq(RevisionOf) /\ Len(R) = Len(curated)
         /\ Grows(curated, R)
         /\ Backed(R, daily.lines)
         /\ \A n \in DOMAIN curated : n # c => R[n] = curated[n]
         /\ c # 0 => /\ c \in DOMAIN curated
                     /\ R[c].value = curated[c].value
                     /\ R[c].evidence = curated[c].evidence \cup Conflicts!Backing(curated[c].value, TRUE)
<1> DEFINE R == Conflicts!Reinforced
           c == Conflicts!Current
           new == Conflicts!Backing(curated[c].value, TRUE)
           last == Conflicts!LatestDay(new)
           final == IF last > curated[c].last THEN last ELSE curated[c].last
           r == Conflicts!Revision(curated[c].value, curated[c].evidence \cup new, final)
<1>1. curated \in Seq(RevisionOf) /\ Len(curated) \in Nat /\ DOMAIN curated = 1 .. Len(curated) /\ c = Len(curated)
  BY DEF WorkspaceTypes, Conflicts!Current
<1>2. /\ new \in SUBSET Nat /\ new \subseteq DOMAIN daily.lines
      /\ \A i \in new : daily.lines[i].value = curated[c].value
      /\ \A n \in DOMAIN curated : curated[n].evidence \cap new = {}
  BY BackingFacts DEF Conflicts!Ids
<1>3. CASE c = 0 \/ new = {}
  <2>1. R = curated
    BY <1>3 DEF Conflicts!Reinforced
  <2>2. Grows(curated, curated)
    BY <1>1 DEF Grows
  <2>3. c # 0 => c \in DOMAIN curated /\ new = {}
    <3> HIDE DEF new
    <3> QED BY <1>1, <1>3
  <2>4. c # 0 => curated[c].evidence = curated[c].evidence \cup Conflicts!Backing(curated[c].value, TRUE)
    BY <2>3
  <2> HIDE DEF R, c
  <2> QED BY <1>1, <2>1, <2>2, <2>3, <2>4 DEF R, c
<1>4. CASE ~ (c = 0 \/ new = {})
  <2>1. c \in DOMAIN curated /\ curated[c] \in RevisionOf
    <3> HIDE DEF new
    <3> QED BY <1>1, <1>4
  <2>2. last \in Nat
    BY <1>2, <1>4, LatestDayType DEF Conflicts!Ids
  <2>3. final \in Nat
    BY <2>1, <2>2 DEF RevisionOf
  <2>4. R = [curated EXCEPT ![c] = r]
    BY <1>4 DEF Conflicts!Reinforced
  <2> HIDE DEF final, new
  <2>5. r \in RevisionOf /\ r.value = curated[c].value /\ r.evidence = curated[c].evidence \cup new
    BY <1>2, <2>1, <2>3 DEF RevisionOf, Conflicts!Revision
  <2> HIDE DEF r, R
  <2>6. /\ R \in Seq(RevisionOf) /\ Len(R) = Len(curated)
        /\ \A n \in DOMAIN curated : R[n] = IF n = c THEN r ELSE curated[n]
    BY <1>1, <2>1, <2>4, <2>5, ExceptSeq
  <2>7. DOMAIN R = DOMAIN curated
    BY <1>1, <2>6
  <2>8. Grows(curated, R)
    <3> SUFFICES ASSUME NEW n \in DOMAIN curated
                 PROVE  R[n].value = curated[n].value /\ curated[n].evidence \subseteq R[n].evidence /\ (n < Len(curated) => R[n] = curated[n])
      BY <2>6 DEF Grows
    <3>1. CASE n = c
      BY <3>1, <2>5, <2>6, <1>1
    <3>2. CASE n # c
      BY <3>2, <2>6
    <3> QED BY <3>1, <3>2
  <2>9. Backed(R, daily.lines)
    <3>1. ASSUME NEW n \in DOMAIN R
          PROVE  R[n].evidence # {} /\ \A i \in R[n].evidence : i \in DOMAIN daily.lines /\ daily.lines[i].value = R[n].value
      <4>1. CASE n = c
        BY <4>1, <1>2, <2>1, <2>5, <2>6 DEF Backed
      <4>2. CASE n # c
        BY <4>2, <2>6, <2>7 DEF Backed
      <4> QED BY <4>1, <4>2
    <3>2. ASSUME NEW m \in DOMAIN R, NEW n \in DOMAIN R, m # n PROVE R[m].evidence \cap R[n].evidence = {}
      <4>1. curated[m].evidence \cap curated[n].evidence = {}
        BY <3>2, <2>7 DEF Backed
      <4>2. CASE n = c
        BY <4>1, <4>2, <3>2, <1>2, <2>5, <2>6, <2>7
      <4>3. CASE m = c
        BY <4>1, <4>3, <3>2, <1>2, <2>5, <2>6, <2>7
      <4>4. CASE n # c /\ m # c
        BY <4>1, <4>4, <2>6, <2>7
      <4> QED BY <4>2, <4>3, <4>4
    <3> QED BY <3>1, <3>2 DEF Backed
  <2> QED BY <2>1, <2>5, <2>6, <2>8, <2>9 DEF R, new
<1> QED BY <1>3, <1>4

\* What challenges the active revision rests on new facts of its own value.
LEMMA ChallengerFacts ==
  ASSUME WorkspaceTypes, Backed(curated, daily.lines), NEW v \in Conflicts!Challengers
  PROVE  LET p == Conflicts!Proposal(v)
             c == Conflicts!Current
             R == Conflicts!Reinforced IN
         /\ p \in RevisionOf /\ p.value = v /\ p.evidence # {}
         /\ \A i \in p.evidence : i \in DOMAIN daily.lines /\ daily.lines[i].value = v
         /\ c # 0 => v # curated[c].value
         /\ \A n \in DOMAIN R : R[n].evidence \cap p.evidence = {}
<1> DEFINE p == Conflicts!Proposal(v)
           c == Conflicts!Current
           R == Conflicts!Reinforced
           B == Conflicts!Backing(v, TRUE)
           last == Conflicts!LatestDay(B)
<1>1. v \in Statement /\ B # {} /\ (c # 0 => v # curated[c].value)
  BY DEF Conflicts!Challengers
<1>2. /\ B \in SUBSET Nat /\ B \subseteq DOMAIN daily.lines /\ \A i \in B : daily.lines[i].value = v
      /\ \A n \in DOMAIN curated : curated[n].evidence \cap B = {}
  BY BackingFacts DEF Conflicts!Ids
<1>3. last \in Nat
  BY <1>1, <1>2, LatestDayType DEF Conflicts!Ids
<1>4. p = [value |-> v, evidence |-> B, last |-> last]
  BY DEF Conflicts!Proposal, Conflicts!Revision
<1> HIDE DEF p, B, last
<1>5. p \in RevisionOf /\ p.value = v /\ p.evidence = B
  BY <1>1, <1>2, <1>3, <1>4 DEF RevisionOf
<1>6. /\ Len(R) = Len(curated) /\ R \in Seq(RevisionOf) /\ curated \in Seq(RevisionOf)
      /\ \A n \in DOMAIN curated : n # c => R[n] = curated[n]
      /\ c # 0 => R[c].value = curated[c].value
      /\ Backed(R, daily.lines)
  BY ReinforcedRevisions DEF WorkspaceTypes
<1>7. ASSUME NEW n \in DOMAIN R PROVE R[n].evidence \cap B = {}
  <2>1. n \in DOMAIN curated /\ n # 0
    BY <1>6
  <2>2. CASE n # c
    BY <2>1, <2>2, <1>2, <1>6
  <2>3. CASE n = c
    <3>1. \A i \in R[n].evidence : daily.lines[i].value = R[n].value
      BY <1>6 DEF Backed
    <3>2. R[n].value # v
      BY <2>1, <2>3, <1>1, <1>6
    <3> QED BY <3>1, <3>2, <1>2
  <2> QED BY <2>2, <2>3
<1> QED BY <1>1, <1>2, <1>5, <1>7 DEF p

\* What distillation makes of the revisions: none changes its value or loses evidence,
\* and no fact counts twice (distill).
LEMMA DistilledRevisions ==
  ASSUME WorkspaceTypes, Backed(curated, daily.lines)
  PROVE  /\ Conflicts!CuratedAfter \in Seq(RevisionOf)
         /\ Grows(curated, Conflicts!CuratedAfter)
         /\ Backed(Conflicts!CuratedAfter, daily.lines)
         /\ Cardinality(Conflicts!Winners) # 1 => Conflicts!CuratedAfter = Conflicts!Reinforced
<1> DEFINE R == Conflicts!Reinforced
           A == Conflicts!CuratedAfter
<1>1. /\ R \in Seq(RevisionOf) /\ Len(R) = Len(curated) /\ Grows(curated, R) /\ Backed(R, daily.lines)
      /\ curated \in Seq(RevisionOf)
  BY ReinforcedRevisions DEF WorkspaceTypes
<1>2. CASE Cardinality(Conflicts!Winners) # 1
  <2>1. A = R
    BY <1>2, Counted DEF Conflicts!CuratedAfter
  <2> HIDE DEF A, R
  <2> QED BY <1>1, <2>1 DEF A, R
<1>3. CASE Cardinality(Conflicts!Winners) = 1
  <2> DEFINE v == CHOOSE w \in Conflicts!Winners : TRUE
             p == Conflicts!Proposal(v)
  <2>1. Conflicts!Winners # {}
    BY <1>3, FS_EmptySet
  <2>2. v \in Conflicts!Winners
    BY <2>1
  <2> HIDE DEF v
  <2>3. v \in Conflicts!Challengers
    BY <2>2 DEF Conflicts!Winners
  <2>4. /\ p \in RevisionOf /\ p.value = v /\ p.evidence # {}
        /\ \A i \in p.evidence : i \in DOMAIN daily.lines /\ daily.lines[i].value = v
        /\ \A n \in DOMAIN R : R[n].evidence \cap p.evidence = {}
    BY <2>3, ChallengerFacts
  <2>5. A = Append(R, p)
    BY <1>3, Counted DEF Conflicts!CuratedAfter, v
  <2> HIDE DEF p, R, A
  <2>6. /\ A \in Seq(RevisionOf) /\ Len(A) = Len(R) + 1 /\ Len(R) \in Nat
        /\ \A n \in 1 .. Len(R) : A[n] = R[n]
        /\ A[Len(R) + 1] = p
    BY <1>1, <2>4, <2>5, AppendProperties
  <2>7. DOMAIN A = DOMAIN R \cup {Len(R) + 1} /\ DOMAIN R = 1 .. Len(R) /\ DOMAIN curated = 1 .. Len(R)
    BY <1>1, <2>6
  <2>8. Grows(curated, A)
    BY <1>1, <2>6, <2>7 DEF Grows
  <2>9. Backed(A, daily.lines)
    <3>1. ASSUME NEW n \in DOMAIN A
          PROVE  A[n].evidence # {} /\ \A i \in A[n].evidence : i \in DOMAIN daily.lines /\ daily.lines[i].value = A[n].value
      <4>1. CASE n \in DOMAIN R
        BY <4>1, <1>1, <2>6, <2>7 DEF Backed
      <4>2. CASE n = Len(R) + 1
        BY <4>2, <2>4, <2>6
      <4> QED BY <4>1, <4>2, <2>7
    <3>2. ASSUME NEW m \in DOMAIN A, NEW n \in DOMAIN A, m # n PROVE A[m].evidence \cap A[n].evidence = {}
      <4>1. CASE m \in DOMAIN R /\ n \in DOMAIN R
        BY <4>1, <3>2, <1>1, <2>6, <2>7 DEF Backed
      <4>2. CASE m = Len(R) + 1
        BY <4>2, <3>2, <2>4, <2>6, <2>7
      <4>3. CASE n = Len(R) + 1
        BY <4>3, <3>2, <2>4, <2>6, <2>7
      <4> QED BY <4>1, <4>2, <4>3, <2>7
    <3> QED BY <3>1, <3>2 DEF Backed
  <2> QED BY <1>3, <2>6, <2>8, <2>9 DEF A
<1> QED BY <1>2, <1>3

\* As many values are proposed as facts state, at most.
LEMMA FiniteWinners == ASSUME WorkspaceTypes PROVE IsFiniteSet(Conflicts!Winners)
<1> DEFINE J == daily.lines
           V == {J[i].value : i \in 1 .. Len(J)}
           f == [i \in 1 .. Len(J) |-> J[i].value]
<1>1. J \in Seq(FactLine) /\ Len(J) \in Nat /\ DOMAIN J = 1 .. Len(J)
  BY DEF WorkspaceTypes, LogOf
<1>2. f \in Surjection(1 .. Len(J), V)
  BY DEF Surjection
<1>3. IsFiniteSet(V)
  BY <1>1, <1>2, FS_Interval, FS_Surjection
<1>4. ASSUME NEW v \in Conflicts!Winners PROVE v \in V
  <2>1. Conflicts!Backing(v, TRUE) # {}
    BY DEF Conflicts!Winners, Conflicts!Challengers
  <2>2. PICK i \in Conflicts!Ids : Conflicts!Fact(i).value = v
    BY <2>1 DEF Conflicts!Backing, Conflicts!Candidates
  <2> QED BY <2>2, <1>1 DEF Conflicts!Ids, Conflicts!Fact
<1> HIDE DEF V
<1> QED BY <1>3, <1>4, FS_Subset

\* A set that has one element at least and not exactly one has two.
LEMMA TwoElements ==
  ASSUME NEW S, Cardinality(S) \in Nat, Cardinality(S) > 1
  PROVE  \E a, b \in S : a # b
<1>1. S # {}
  BY FS_EmptySet
<1>2. PICK a \in S : TRUE
  BY <1>1
<1>3. Cardinality({a}) = 1
  BY FS_Singleton
<1>4. S # {a}
  BY <1>3
<1> QED BY <1>2, <1>4

\* A finite set that has two distinct elements has two at least.
LEMMA AtLeastTwo ==
  ASSUME NEW S, IsFiniteSet(S), \E x, y \in S : x # y
  PROVE  Cardinality(S) >= 2
<1>1. PICK a \in S, b \in S : a # b
  OBVIOUS
<1>2. IsFiniteSet({a}) /\ Cardinality({a}) = 1
  BY FS_Singleton
<1>3. b \notin {a}
  BY <1>1
<1>4. Cardinality({a} \cup {b}) = Cardinality({a}) + 1
  BY <1>2, <1>3, FS_AddElement
<1> DEFINE m == Cardinality({a} \cup {b})
           n == Cardinality(S)
<1>5. {a} \cup {b} \in SUBSET S
  OBVIOUS
<1>6. m <= n /\ n \in Nat
  BY <1>5, FS_Subset, FS_CardinalityType
<1>7. m = 1 + 1
  BY <1>2, <1>4
<1> HIDE DEF m, n
<1>8. n >= 2
  BY <1>6, <1>7
<1> QED BY <1>8 DEF n

\* What a conflict is between (_queue_conflict): distinct values, two at least, the
\* active revision among them.
LEMMA ContendersFit ==
  ASSUME WorkspaceTypes, Backed(curated, daily.lines), Cardinality(Conflicts!Winners) > 1
  PROVE  LET C == Conflicts!Contenders
             c == Conflicts!Current
             R == Conflicts!Reinforced IN
         /\ C \in SUBSET Contender /\ IsFiniteSet(C)
         /\ \A x, y \in C : x.value = y.value => x = y
         /\ \E x, y \in C : x # y
         /\ \A x \in C :
              /\ x.evidence # {}
              /\ x.incumbent => c # 0 /\ x.value = R[c].value
              /\ ~ x.incumbent =>
                   /\ \A i \in x.evidence : i \in DOMAIN daily.lines /\ daily.lines[i].value = x.value
                   /\ c # 0 => x.value # R[c].value
                   /\ \A m \in DOMAIN R : R[m].evidence \cap x.evidence = {}
         /\ IF c = 0 THEN \A x \in C : ~ x.incumbent ELSE \E x \in C : x.incumbent
<1> DEFINE C == Conflicts!Contenders
           c == Conflicts!Current
           R == Conflicts!Reinforced
           W == Conflicts!Winners
           N(v) == Conflicts!Candidate(Conflicts!Proposal(v), FALSE)
           a == Conflicts!Candidate(R[c], TRUE)
           A == IF c = 0 THEN {} ELSE {a}
<1>1. C = {N(v) : v \in W} \cup A
  BY DEF Conflicts!Contenders
<1>2. /\ R \in Seq(RevisionOf) /\ DOMAIN R = DOMAIN curated /\ Backed(R, daily.lines)
      /\ c # 0 => c \in DOMAIN curated /\ R[c].value = curated[c].value
  <2>1. /\ R \in Seq(RevisionOf) /\ Len(R) = Len(curated) /\ Backed(R, daily.lines)
        /\ c # 0 => c \in DOMAIN curated /\ R[c].value = curated[c].value
        /\ curated \in Seq(RevisionOf)
    BY ReinforcedRevisions DEF WorkspaceTypes
  <2> HIDE DEF R, c
  <2> QED BY <2>1
<1> HIDE DEF C
<1>3. ASSUME NEW v \in W
      PROVE  /\ N(v) \in Contender /\ N(v).value = v /\ ~ N(v).incumbent
             /\ N(v).evidence # {}
             /\ \A i \in N(v).evidence : i \in DOMAIN daily.lines /\ daily.lines[i].value = v
             /\ c # 0 => v # R[c].value
             /\ \A n \in DOMAIN R : R[n].evidence \cap N(v).evidence = {}
  <2> DEFINE p == Conflicts!Proposal(v)
  <2>1. v \in Conflicts!Challengers
    BY DEF Conflicts!Winners
  <2>2. /\ p \in RevisionOf /\ p.value = v /\ p.evidence # {}
        /\ \A i \in p.evidence : i \in DOMAIN daily.lines /\ daily.lines[i].value = v
        /\ c # 0 => v # curated[c].value
        /\ \A n \in DOMAIN R : R[n].evidence \cap p.evidence = {}
    BY <2>1, ChallengerFacts
  <2>3. N(v) = [value |-> p.value, evidence |-> p.evidence, last |-> p.last, incumbent |-> FALSE]
    BY DEF Conflicts!Candidate
  <2> HIDE DEF p, N, R, c
  <2>4. N(v) \in Contender /\ N(v).value = v /\ N(v).evidence = p.evidence /\ ~ N(v).incumbent
    BY <2>2, <2>3 DEF Contender, RevisionOf
  <2> QED BY <2>2, <2>4, <1>2
<1>4. ASSUME c # 0
      PROVE  a \in Contender /\ a.value = R[c].value /\ a.incumbent /\ a.evidence # {}
  <2>1. R[c] \in RevisionOf /\ R[c].evidence # {}
    BY <1>2, <1>4 DEF Backed
  <2>2. a = [value |-> R[c].value, evidence |-> R[c].evidence, last |-> R[c].last, incumbent |-> TRUE]
    BY DEF Conflicts!Candidate
  <2> HIDE DEF a, R
  <2> QED BY <2>1, <2>2 DEF Contender, RevisionOf
<1> HIDE DEF N, a, R, c, W
<1>5. \A x \in C : (\E v \in W : x = N(v)) \/ (c # 0 /\ x = a)
  BY <1>1
<1>6. IsFiniteSet(C)
  <2> DEFINE I == {N(v) : v \in W}
             g == [v \in W |-> N(v)]
  <2>1. IsFiniteSet(W)
    BY FiniteWinners DEF W
  <2>2. g \in Surjection(W, I)
    BY DEF Surjection
  <2>3. IsFiniteSet(I)
    BY <2>1, <2>2, FS_Surjection
  <2>4. IsFiniteSet(A)
    BY FS_EmptySet, FS_Singleton
  <2> HIDE DEF I, A
  <2> QED BY <2>3, <2>4, <1>1, FS_Union DEF I
<1>7. \E x, y \in C : x # y
  <2>1. Cardinality(W) \in Nat
    BY FiniteWinners, FS_CardinalityType DEF W
  <2>2. PICK v, w \in W : v # w
    BY <2>1, TwoElements DEF W
  <2>3. N(v) \in C /\ N(w) \in C /\ N(v) # N(w)
    BY <2>2, <1>1, <1>3
  <2> QED BY <2>3
<1>8. \A x, y \in C : x.value = y.value => x = y
  BY <1>3, <1>4, <1>5
<1>9. C \in SUBSET Contender
  BY <1>3, <1>4, <1>5
<1>10. ASSUME NEW x \in C
       PROVE  /\ x.evidence # {}
              /\ x.incumbent => c # 0 /\ x.value = R[c].value
              /\ ~ x.incumbent =>
                   /\ \A i \in x.evidence : i \in DOMAIN daily.lines /\ daily.lines[i].value = x.value
                   /\ c # 0 => x.value # R[c].value
                   /\ \A m \in DOMAIN R : R[m].evidence \cap x.evidence = {}
  <2>1. CASE \E v \in W : x = N(v)
    BY <2>1, <1>3
  <2>2. CASE c # 0 /\ x = a
    BY <2>2, <1>4
  <2> QED BY <2>1, <2>2, <1>5
<1>11. IF c = 0 THEN \A x \in C : ~ x.incumbent ELSE \E x \in C : x.incumbent
  BY <1>1, <1>3, <1>4, <1>5
<1> QED BY <1>6, <1>7, <1>8, <1>9, <1>10, <1>11 DEF C, c, R

\* Such contenders are a conflict that can be read (_validate_conflict_candidate).
LEMMA ContendersReadable ==
  ASSUME NEW k \in ConflictCase, IsFiniteSet(k.candidates),
         \A x, y \in k.candidates : x.value = y.value => x = y,
         \E x, y \in k.candidates : x # y,
         \A x \in k.candidates : x.evidence # {} /\ x.evidence \subseteq k.observed,
         IF k.active = 0 THEN \A x \in k.candidates : ~ x.incumbent
                         ELSE \E x \in k.candidates : x.incumbent,
         \A x, y \in k.candidates : x.incumbent /\ y.incumbent => x = y
  PROVE  Conflicts!CandidatesReadable(k)
<1> DEFINE C == k.candidates
           V == {x.value : x \in C}
           f == [x \in C |-> x.value]
           I == {x \in C : x.incumbent}
<1>1. Cardinality(V) = Cardinality(C)
  <2>1. f \in [C -> V] /\ (\A x \in C : f[x] = x.value)
    OBVIOUS
  <2>3. f \in Injection(C, V)
    BY <2>1 DEF Injection, IsInjective
  <2>4. f \in Surjection(C, V)
    BY <2>1 DEF Surjection
  <2>5. f \in Bijection(C, V)
    BY <2>3, <2>4 DEF Bijection
  <2> HIDE DEF f, V, C
  <2>2. ExistsBijection(C, V)
    BY <2>5 DEF ExistsBijection
  <2> QED BY <2>2, FS_Bijection DEF C
<1>2. Cardinality(C) >= 2
  <2>1. IsFiniteSet(C) /\ \E x, y \in C : x # y
    OBVIOUS
  <2> HIDE DEF C
  <2> QED BY <2>1, AtLeastTwo
<1>3. Cardinality(I) = IF k.active = 0 THEN 0 ELSE 1
  <2>1. CASE k.active = 0
    <3>1. I = {}
      BY <2>1
    <3> QED BY <2>1, <3>1, FS_EmptySet
  <2>2. CASE k.active # 0
    <3>1. PICK x \in C : x.incumbent
      BY <2>2
    <3>2. I = {x}
      BY <3>1
    <3> QED BY <2>2, <3>2, FS_Singleton
  <2> QED BY <2>1, <2>2
<1> QED BY <1>1, <1>2, <1>3, Counted DEF Conflicts!CandidatesReadable

\* A case that was closed undecided reads like the open one, and grounds in the same.
LEMMA SupersededReadable ==
  ASSUME NEW k \in ConflictCase, k.status = "open", Conflicts!CaseReadable(k), NEW c, NEW f, Grounded(k, c, f)
  PROVE  LET s == Conflicts!Superseded(k) IN
         /\ Conflicts!CaseReadable(s) /\ Grounded(s, c, f)
         /\ Conflicts!Fingerprint(s) = Conflicts!Fingerprint(k)
<1> DEFINE s == Conflicts!Superseded(k)
<1>1. /\ s.status = "superseded" /\ s.active = k.active
      /\ s.candidates = k.candidates /\ s.observed = k.observed
      /\ s.selected = k.selected /\ s.result = k.result /\ s.event = k.event
  BY SupersededCase
<1> HIDE DEF s
<1>2. Conflicts!CandidatesReadable(s)
  BY <1>1 DEF Conflicts!CaseReadable, Conflicts!CandidatesReadable
<1>3. Conflicts!CaseReadable(s)
  BY <1>1, <1>2 DEF Conflicts!CaseReadable
<1>4. Grounded(s, c, f)
  BY <1>1 DEF Grounded
<1>5. Conflicts!Fingerprint(s) = Conflicts!Fingerprint(k)
  BY <1>1 DEF Conflicts!Fingerprint
<1> QED BY <1>3, <1>4, <1>5 DEF s

\* Closing the open case keeps the queue consistent, and leaves none open (_queue_conflict).
LEMMA ClosedCases ==
  ASSUME NEW cs \in Seq(ConflictCase), NEW c, NEW f, Consistent(cs, c, f)
  PROVE  LET ds == Conflicts!CloseOpen(cs) IN
         /\ ds \in Seq(ConflictCase) /\ Len(ds) = Len(cs)
         /\ Reviewed(cs, ds) /\ Consistent(ds, c, f)
         /\ \A n \in DOMAIN cs : Conflicts!Fingerprint(ds[n]) = Conflicts!Fingerprint(cs[n])
         /\ \A n \in DOMAIN ds : ds[n].status # "open"
<1> DEFINE S(k) == Conflicts!Superseded(k)
           ds == Conflicts!CloseOpen(cs)
<1>1. \A n \in DOMAIN cs : cs[n] \in ConflictCase /\ Conflicts!CaseReadable(cs[n]) /\ Grounded(cs[n], c, f)
  BY DEF Consistent, Conflicts!ConflictsReadable
<1>2. DOMAIN ds = DOMAIN cs /\ \A n \in DOMAIN cs : ds[n] = IF cs[n].status = "open" THEN S(cs[n]) ELSE cs[n]
  BY DEF Conflicts!CloseOpen
<1>3. ASSUME NEW n \in DOMAIN cs
      PROVE  /\ ds[n] \in ConflictCase /\ Conflicts!CaseReadable(ds[n]) /\ Grounded(ds[n], c, f)
             /\ Conflicts!Fingerprint(ds[n]) = Conflicts!Fingerprint(cs[n])
             /\ ds[n].status # "open"
             /\ (ds[n] = cs[n] \/ (cs[n].status = "open" /\ ds[n] = S(cs[n])))
  <2>1. CASE cs[n].status = "open"
    <3>1. ds[n] = S(cs[n])
      BY <1>2, <2>1
    <3>2. S(cs[n]) \in ConflictCase /\ S(cs[n]).status = "superseded"
      BY <1>1, SupersededCase
    <3>3. /\ Conflicts!CaseReadable(S(cs[n])) /\ Grounded(S(cs[n]), c, f)
          /\ Conflicts!Fingerprint(S(cs[n])) = Conflicts!Fingerprint(cs[n])
      BY <1>1, <2>1, SupersededReadable
    <3> HIDE DEF ds, S
    <3> QED BY <2>1, <3>1, <3>2, <3>3
  <2>2. CASE cs[n].status # "open"
    <3>1. ds[n] = cs[n]
      BY <1>2, <2>2
    <3>2. cs[n] \in ConflictCase /\ Conflicts!CaseReadable(cs[n]) /\ Grounded(cs[n], c, f)
      BY <1>1
    <3> HIDE DEF ds, S
    <3> QED BY Zenon, <2>2, <3>1, <3>2
  <2> QED BY <2>1, <2>2
<1> HIDE DEF S
<1>4. ds \in Seq(ConflictCase) /\ Len(ds) = Len(cs) /\ DOMAIN ds = DOMAIN cs
  <2>1. Len(cs) \in Nat /\ DOMAIN cs = 1 .. Len(cs)
    OBVIOUS
  <2>2. ds \in [1 .. Len(cs) -> ConflictCase]
    BY <1>2, <1>3, <2>1 DEF Conflicts!CloseOpen
  <2> HIDE DEF ds
  <2> QED BY <2>1, <2>2
<1> HIDE DEF ds
<1>5. Reviewed(cs, ds)
  BY <1>3, <1>4 DEF Reviewed, S
<1>6. Cardinality({n \in DOMAIN ds : ds[n].status = "open"}) <= 1
  <2> DEFINE I == {n \in DOMAIN ds : ds[n].status = "open"}
  <2>1. I = {}
    BY <1>3, <1>4
  <2>2. Cardinality(I) = 0
    <3> HIDE DEF I
    <3> QED BY <2>1, FS_EmptySet
  <2> HIDE DEF I
  <2>3. Cardinality(I) <= 1
    BY <2>2
  <2> QED BY <2>3 DEF I
<1>7. Conflicts!ConflictsReadable(ds)
  <2>1. \A m, n \in DOMAIN ds : m # n => Conflicts!Fingerprint(ds[m]) # Conflicts!Fingerprint(ds[n])
    BY <1>3, <1>4 DEF Consistent, Conflicts!ConflictsReadable
  <2> QED BY <2>1, <1>3, <1>4, <1>6, Counted DEF Conflicts!ConflictsReadable
<1>8. Consistent(ds, c, f)
  BY <1>3, <1>4, <1>7 DEF Consistent
<1> QED BY <1>3, <1>4, <1>5, <1>8 DEF ds

\* A case opened behind closed ones keeps the queue consistent (_queue_conflict).
LEMMA OpenedCase ==
  ASSUME NEW cs \in Seq(ConflictCase), NEW ds \in Seq(ConflictCase), NEW c, NEW f, NEW k \in ConflictCase,
         Reviewed(cs, ds), Consistent(ds, c, f), Len(ds) = Len(cs),
         \A n \in DOMAIN ds : ds[n].status # "open" /\ Conflicts!Fingerprint(ds[n]) # Conflicts!Fingerprint(k),
         Conflicts!CaseReadable(k), Grounded(k, c, f), k.status = "open"
  PROVE  LET es == Append(ds, k) IN
         es \in Seq(ConflictCase) /\ Reviewed(cs, es) /\ Consistent(es, c, f)
<1> DEFINE es == Append(ds, k)
           L == Len(ds)
<1>1. /\ es \in Seq(ConflictCase) /\ Len(es) = L + 1 /\ L \in Nat
      /\ \A n \in 1 .. L : es[n] = ds[n]
      /\ es[L + 1] = k
  BY AppendProperties
<1> HIDE DEF es
<1>2. DOMAIN ds = 1 .. L /\ DOMAIN cs = 1 .. L /\ DOMAIN es = 1 .. L + 1
  BY <1>1
<1>3. L + 1 \notin DOMAIN ds /\ DOMAIN es = DOMAIN ds \cup {L + 1} /\ Len(cs) <= Len(es)
  BY <1>1, <1>2
<1>4. Reviewed(cs, es)
  BY <1>1, <1>2, <1>3 DEF Reviewed
<1>5. Cardinality({n \in DOMAIN es : es[n].status = "open"}) <= 1
  <2> DEFINE I == {n \in DOMAIN es : es[n].status = "open"}
  <2>1. I = {L + 1}
    BY <1>1, <1>2, <1>3
  <2>2. Cardinality({L + 1}) = 1
    BY FS_Singleton
  <2> HIDE DEF I
  <2>3. Cardinality(I) <= 1
    BY <2>1, <2>2
  <2> QED BY <2>3 DEF I
<1>6. ASSUME NEW m \in DOMAIN es, NEW n \in DOMAIN es, m # n
      PROVE  Conflicts!Fingerprint(es[m]) # Conflicts!Fingerprint(es[n])
  <2>1. \A i \in DOMAIN ds : es[i] = ds[i] /\ Conflicts!Fingerprint(es[i]) # Conflicts!Fingerprint(es[L + 1])
    BY <1>1, <1>2
  <2>2. \A i, j \in DOMAIN ds : i # j => Conflicts!Fingerprint(ds[i]) # Conflicts!Fingerprint(ds[j])
    BY DEF Consistent, Conflicts!ConflictsReadable
  <2> QED BY <1>3, <1>6, <2>1, <2>2
<1>7. ASSUME NEW n \in DOMAIN es
      PROVE  Conflicts!CaseReadable(es[n]) /\ Grounded(es[n], c, f)
  BY <1>1, <1>2, <1>3 DEF Consistent, Conflicts!ConflictsReadable
<1>8. Conflicts!ConflictsReadable(es)
  BY <1>5, <1>6, <1>7, Counted DEF Conflicts!ConflictsReadable
<1> QED BY <1>1, <1>4, <1>7, <1>8 DEF Consistent, es

\* The conflict distillation finds (_queue_conflict).
LEMMA NewConflict ==
  ASSUME WorkspaceTypes, Backed(curated, daily.lines), Cardinality(Conflicts!Winners) > 1
  PROVE  LET k == Conflicts!Case(Conflicts!Contenders, Conflicts!Observed(Conflicts!Contenders)) IN
         /\ k \in ConflictCase /\ k.status = "open"
         /\ Conflicts!CaseReadable(k) /\ Grounded(k, Conflicts!Reinforced, daily.lines)
<1> DEFINE C == Conflicts!Contenders
           O == Conflicts!Observed(C)
           k == Conflicts!Case(C, O)
           c == Conflicts!Current
           R == Conflicts!Reinforced
<1>1. /\ C \in SUBSET Contender /\ IsFiniteSet(C)
      /\ \A x, y \in C : x.value = y.value => x = y
      /\ \E x, y \in C : x # y
      /\ \A x \in C :
              /\ x.evidence # {}
              /\ x.incumbent => c # 0 /\ x.value = R[c].value
              /\ ~ x.incumbent =>
                   /\ \A i \in x.evidence : i \in DOMAIN daily.lines /\ daily.lines[i].value = x.value
                   /\ c # 0 => x.value # R[c].value
                   /\ \A m \in DOMAIN R : R[m].evidence \cap x.evidence = {}
      /\ IF c = 0 THEN \A x \in C : ~ x.incumbent ELSE \E x \in C : x.incumbent
  BY ContendersFit
<1>2. c \in Nat /\ c = Len(R) /\ DOMAIN daily.lines \subseteq Nat
  <2>1. Len(R) = Len(curated)
    BY ReinforcedRevisions
  <2>2. curated \in Seq(RevisionOf) /\ daily.lines \in Seq(FactLine)
    BY DEF WorkspaceTypes, LogOf
  <2>3. c = Len(curated)
    BY DEF Conflicts!Current
  <2> HIDE DEF R, c
  <2> QED BY <2>1, <2>2, <2>3
<1>3. O \in SUBSET Nat /\ \A x \in C : x.evidence \subseteq O
  <2>1. O = {i \in Conflicts!Ids : Conflicts!Fact(i).keyed} \cup UNION {x.evidence : x \in C}
    BY DEF Conflicts!Observed
  <2> HIDE DEF C, O
  <2>2. UNION {x.evidence : x \in C} \subseteq Nat
    BY <1>1 DEF Contender
  <2> QED BY <2>1, <2>2, <1>2 DEF Conflicts!Ids
<1>4. k = [status |-> "open", active |-> c, candidates |-> C, observed |-> O,
           selected |-> None, result |-> 0, event |-> None]
  BY DEF Conflicts!Case
<1> HIDE DEF k, O, C, c, R
<1>5. /\ k \in ConflictCase /\ k.status = "open" /\ k.active = c /\ k.candidates = C /\ k.observed = O
      /\ k.selected = None /\ k.result = 0 /\ k.event = None
  BY <1>1, <1>2, <1>3, <1>4 DEF ConflictCase
<1>6. Conflicts!CandidatesReadable(k)
  <2>1. \A x, y \in C : x.incumbent /\ y.incumbent => x = y
    BY <1>1
  <2>2. /\ IsFiniteSet(k.candidates)
        /\ \A x, y \in k.candidates : x.value = y.value => x = y
        /\ \E x, y \in k.candidates : x # y
    BY <1>1, <1>5
  <2>3. /\ \A x \in k.candidates : x.evidence # {} /\ x.evidence \subseteq k.observed
        /\ IF k.active = 0 THEN \A x \in k.candidates : ~ x.incumbent
                           ELSE \E x \in k.candidates : x.incumbent
        /\ \A x, y \in k.candidates : x.incumbent /\ y.incumbent => x = y
    BY <1>1, <1>3, <1>5, <2>1
  <2> QED BY <2>2, <2>3, <1>5, ContendersReadable
<1>7. Conflicts!CaseReadable(k)
  BY <1>5, <1>6 DEF Conflicts!CaseReadable
<1>8. Grounded(k, R, daily.lines)
  BY <1>1, <1>2, <1>5 DEF Grounded
<1> QED BY <1>5, <1>7, <1>8 DEF k, O, C, R

\* What distillation makes of the queue fits what it makes of the revisions (distill).
LEMMA DistilledCases ==
  ASSUME WorkspaceTypes, Consistent(cases, curated, daily.lines)
  PROVE  /\ Conflicts!CasesAfter \in Seq(ConflictCase)
         /\ Reviewed(cases, Conflicts!CasesAfter)
         /\ Consistent(Conflicts!CasesAfter, Conflicts!CuratedAfter, daily.lines)
<1> DEFINE C == Conflicts!Contenders
           k == Conflicts!Case(C, Conflicts!Observed(C))
           ds == Conflicts!CloseOpen(cases)
           A == Conflicts!CasesAfter
           c == Conflicts!CuratedAfter
           W == Cardinality(Conflicts!Winners)
           Queued == \E n \in DOMAIN cases : Conflicts!Fingerprint(cases[n]) = Conflicts!Fingerprint(k)
<1>1. cases \in Seq(ConflictCase) /\ curated \in Seq(RevisionOf) /\ daily.lines \in Seq(FactLine)
  BY DEF WorkspaceTypes, LogOf
<1>2. c \in Seq(RevisionOf) /\ Grows(curated, c) /\ Backed(c, daily.lines)
      /\ (W # 1 => c = Conflicts!Reinforced)
  BY DistilledRevisions DEF Consistent
<1>3. Consistent(cases, c, daily.lines)
  <2>1. Grows(curated, c) /\ Backed(c, daily.lines) /\ c \in Seq(RevisionOf)
    BY <1>2
  <2> HIDE DEF c
  <2> QED BY <1>1, <2>1, ConsistentGrows
<1>4. /\ ds \in Seq(ConflictCase) /\ Len(ds) = Len(cases)
      /\ Reviewed(cases, ds) /\ Consistent(ds, c, daily.lines)
      /\ \A n \in DOMAIN cases : Conflicts!Fingerprint(ds[n]) = Conflicts!Fingerprint(cases[n])
      /\ \A n \in DOMAIN ds : ds[n].status # "open"
  <2> HIDE DEF c
  <2> QED BY <1>1, <1>3, ClosedCases
<1>5. A \in {cases, ds} \/ (W > 1 /\ ~ Queued /\ A = Append(ds, k))
  BY Counted DEF Conflicts!CasesAfter, Conflicts!QueueConflict
<1>6. Reviewed(cases, cases)
  BY DEF Reviewed
<1>7. CASE W > 1 /\ ~ Queued /\ A = Append(ds, k)
  <2>1. k \in ConflictCase /\ k.status = "open" /\ Conflicts!CaseReadable(k)
        /\ Grounded(k, Conflicts!Reinforced, daily.lines)
    BY <1>7, NewConflict DEF Consistent
  <2>2. Grounded(k, c, daily.lines)
    <3>1. W # 1
      <4>1. W \in Nat
        BY FiniteWinners, FS_CardinalityType
      <4> HIDE DEF W
      <4> QED BY <4>1, <1>7
    <3>2. c = Conflicts!Reinforced
      BY <3>1, <1>2
    <3> HIDE DEF k, c
    <3> QED BY <2>1, <3>2
  <2>3. \A n \in DOMAIN cases : Conflicts!Fingerprint(cases[n]) # Conflicts!Fingerprint(k)
    BY <1>7
  <2> HIDE DEF k, c, ds, A, W
  <2>4. \A n \in DOMAIN ds : Conflicts!Fingerprint(ds[n]) # Conflicts!Fingerprint(k)
    BY <1>1, <1>4, <2>3
  <2>5. LET es == Append(ds, k) IN
         es \in Seq(ConflictCase) /\ Reviewed(cases, es) /\ Consistent(es, c, daily.lines)
    BY <1>1, <1>4, <2>1, <2>2, <2>4, OpenedCase
  <2> QED BY <1>7, <2>5 DEF A, c
<1>8. CASE A \in {cases, ds}
  <2> HIDE DEF c, ds, A
  <2> QED BY <1>8, <1>1, <1>3, <1>4, <1>6 DEF A, c
<1> QED BY <1>5, <1>7, <1>8

\* Facts without a domain are only added to (distill).
LEMMA DistilledUnkeyed ==
  ASSUME WorkspaceTypes
  PROVE  /\ Conflicts!UnkeyedAfter \in [Statement -> SUBSET Nat]
         /\ \A v \in Statement : unkeyed[v] \subseteq Conflicts!UnkeyedAfter[v]
<1>1. unkeyed \in [Statement -> SUBSET Nat]
  BY DEF WorkspaceTypes
<1>2. \A v \in Statement : Conflicts!Backing(v, FALSE) \in SUBSET Nat
  BY BackingFacts
<1>3. \A v \in Statement :
        Conflicts!UnkeyedAfter[v] \in {unkeyed[v], unkeyed[v] \cup Conflicts!Backing(v, FALSE)}
  BY DEF Conflicts!UnkeyedAfter
<1>4. \A v \in Statement : Conflicts!UnkeyedAfter[v] \in SUBSET Nat
  BY <1>1, <1>2, <1>3
<1>5. Conflicts!UnkeyedAfter \in [Statement -> SUBSET Nat]
  BY <1>4 DEF Conflicts!UnkeyedAfter
<1> QED BY <1>3, <1>5

-----------------------------------------------------------------------------
(* Workspace memory: facts and distillation keep the invariant *)

\* What the journal says depends on its lines.
LEMMA JournalKept ==
  ASSUME journal'.lines = journal.lines, journal'.corrupt = journal.corrupt
  PROVE  /\ JournalOrdered => JournalOrdered'
         /\ \A e : Conflicts!Recorded(e)' = Conflicts!Recorded(e)
         /\ \A e : Conflicts!Intent(e)' = Conflicts!Intent(e)
         /\ Conflicts!Unfinished' = Conflicts!Unfinished
<1>1. \A e : Conflicts!Recorded(e)' = Conflicts!Recorded(e)
  BY JournalIn, JournalInNext
<1>2. \A e : Conflicts!Intent(e)' = Conflicts!Intent(e)
  BY JournalIn, JournalInNext
<1>3. Conflicts!Unfinished' = Conflicts!Unfinished
  BY <1>1 DEF Conflicts!Unfinished
<1>4. JournalOrdered => JournalOrdered'
  BY <1>1, JournalIn, JournalInNext DEF JournalOrdered
<1> QED BY <1>1, <1>2, <1>3, <1>4

\* What was decided stays so when no decision is undone.
LEMMA DecidedKept ==
  ASSUME DecidedInv,
         \A e \in DecisionId : Conflicts!Recorded(e)' = Conflicts!Recorded(e),
         \A e \in DecisionId : Conflicts!Intent(e)' = Conflicts!Intent(e),
         \A d : Stands(d, cases, curated) => Stands(d, cases', curated'),
         \A e \in DecisionId : Ruled(e) => Ruled(e)'
  PROVE  DecidedInv'
<1> SUFFICES ASSUME NEW e \in DecisionId, "committed" \in Conflicts!Recorded(e)'
             PROVE  /\ Conflicts!Intent(e)'.decision.event = e
                    /\ Stands(Conflicts!Intent(e)'.decision, cases', curated')
                    /\ Ruled(e)'
  BY DEF DecidedInv
<1>1. /\ Conflicts!Intent(e).decision.event = e
      /\ Stands(Conflicts!Intent(e).decision, cases, curated)
      /\ Ruled(e)
  BY DEF DecidedInv
<1>2. Conflicts!Intent(e)' = Conflicts!Intent(e)
  OBVIOUS
<1> QED BY <1>1, <1>2

\* What was prepared stays so when facts are added.
LEMMA PreparedLonger ==
  ASSUME NEW e, NEW t, NEW f \in Seq(FactLine), NEW g \in Seq(FactLine), Prepared(e, t, f), Longer(f, g)
  PROVE  Prepared(e, t, g)
<1>1. Consistent(t.casesAfter, t.after, g)
  BY ConsistentLonger DEF Prepared
<1> QED BY <1>1 DEF Prepared

\* What was checked stays so when facts are added.
LEMMA IntentStays ==
  ASSUME daily.lines \in Seq(FactLine), daily'.lines \in Seq(FactLine), Longer(daily.lines, daily'.lines),
         UNCHANGED <<curated, unkeyed, cases, work>>,
         work.read \in Nat, work.read <= Len(daily.lines),
         \E n \in DOMAIN cases : \E c \in cases[n].candidates : Intends(n, c)
  PROVE  /\ \E n \in DOMAIN cases : \E c \in cases[n].candidates : Intends(n, c)'
         /\ work.read <= Len(daily'.lines)
<1>1. PICK n \in DOMAIN cases : \E c \in cases[n].candidates : Intends(n, c)
  OBVIOUS
<1>2. PICK c \in cases[n].candidates : Intends(n, c)
  BY <1>1
<1>3. work.read <= Len(daily'.lines)
  BY DEF Longer
<1>4. \A i \in 1 .. work.read : daily'.lines[i] = daily.lines[i]
  BY DEF Longer
<1>5. Conflicts!Resolution(n, c, work.event)' = Conflicts!Resolution(n, c, work.event)
  BY DEF Conflicts!Resolution, Conflicts!Current
<1>6. Intends(n, c)'
  BY <1>2, <1>4, <1>5 DEF Intends
<1> QED BY <1>3, <1>6

\* Facts, other processes' ones too, disturb nothing (append_daily_log, confirm_fact).
LEMMA FactsAdded ==
  ASSUME ConflictsInv, daily' \in LogOf(FactLine), Longer(daily.lines, daily'.lines),
         today' \in Nat, \A i \in DOMAIN daily'.lines : daily'.lines[i].day <= today',
         UNCHANGED <<curated, unkeyed, view, cases, decisions, journal, pc, work>>
  PROVE  ConflictsInv'
<1> USE DEF ConflictsInv
<1>1. WorkspaceTypes'
  BY DEF WorkspaceTypes
<1>2. daily.lines \in Seq(FactLine) /\ daily'.lines \in Seq(FactLine)
  BY DEF WorkspaceTypes, LogOf
<1>3. Consistent(cases, curated, daily.lines)'
  <2>1. Consistent(cases, curated, daily'.lines)
    BY <1>2, ConsistentLonger
  <2> QED BY <2>1
<1>4. /\ JournalOrdered'
      /\ \A e : Conflicts!Recorded(e)' = Conflicts!Recorded(e)
      /\ \A e : Conflicts!Intent(e)' = Conflicts!Intent(e)
      /\ Conflicts!Unfinished' = Conflicts!Unfinished
  BY JournalKept
<1>5. \A e : Ruled(e)' <=> Ruled(e)
  BY DEF Ruled
<1>6. DecidedInv'
  BY <1>4, <1>5, DecidedKept
<1>7. UnfinishedInv'
  <2> SUFFICES ASSUME NEW e \in Conflicts!Unfinished
               PROVE  Prepared(e, Conflicts!Intent(e), daily'.lines)
    BY <1>4, <1>5 DEF UnfinishedInv
  <2> QED BY <1>2, PreparedLonger DEF UnfinishedInv
<1>8. WorkInv'
  <2>1. ASSUME pc \in Resting \ {"idle"} PROVE Consistent(work.cases, work.curated, daily'.lines)
    <3>1. Consistent(work.cases, work.curated, daily.lines)
      BY <2>1 DEF WorkInv
    <3> QED BY <1>2, <3>1, ConsistentLonger
  <2>2. ASSUME pc = "prepare"
        PROVE  /\ \E n \in DOMAIN cases : \E c \in cases[n].candidates : Intends(n, c)'
               /\ work.read \in Nat /\ work.read <= Len(daily'.lines)
    BY <1>2, <2>2, IntentStays DEF WorkInv
  <2> QED BY <2>1, <2>2, <1>4, <1>5 DEF WorkInv
<1>9. Conflicts!DecisionsReadable' /\ Conflicts!ViewNotAhead'
  BY DEF Conflicts!DecisionsReadable, Conflicts!ViewNotAhead
<1> QED BY <1>1, <1>3, <1>4, <1>6, <1>7, <1>8, <1>9

\* A fact is added behind whole lines, or completes a fragment nobody can read any more.
LEMMA FactLogged ==
  ASSUME ConflictsInv, NEW v \in Statement, NEW keyed \in BOOLEAN, NEW n \in Level,
         daily' = Conflicts!AppendTo(daily,
                    [value |-> v, keyed |-> keyed, importance |-> n, day |-> today]),
         UNCHANGED <<today, curated, unkeyed, view, cases, decisions, journal, pc, work>>
  PROVE  ConflictsInv'
<1> DEFINE line == [value |-> v, keyed |-> keyed, importance |-> n, day |-> today]
           a == IF daily.fragment THEN daily.lines ELSE Append(daily.lines, line)
           b == daily.corrupt \/ daily.fragment
           L == daily.lines
<1>1. /\ daily \in LogOf(FactLine) /\ today \in Nat
      /\ \A i \in DOMAIN L : L[i].day <= today
  BY DEF ConflictsInv, WorkspaceTypes
<1>2. line \in FactLine /\ line.day = today
  BY <1>1 DEF FactLine
<1>3. daily' = [lines |-> a, fragment |-> FALSE, corrupt |-> b]
  BY DEF Conflicts!AppendTo
<1>4. L \in Seq(FactLine) /\ b \in BOOLEAN
  BY <1>1 DEF LogOf
<1> HIDE DEF line, b, L
<1>5. /\ Append(L, line) \in Seq(FactLine) /\ Len(Append(L, line)) = Len(L) + 1 /\ Len(L) \in Nat
      /\ \A i \in 1 .. Len(L) : Append(L, line)[i] = L[i]
      /\ Append(L, line)[Len(L) + 1] = line
  BY <1>2, <1>4, AppendProperties
<1>6. DOMAIN L = 1 .. Len(L) /\ DOMAIN Append(L, line) = 1 .. Len(L) + 1
  BY <1>4, <1>5
<1>7. Longer(L, Append(L, line)) /\ \A i \in DOMAIN Append(L, line) : Append(L, line)[i].day <= today
  <2>1. \A i \in 1 .. Len(L) + 1 : i \in 1 .. Len(L) \/ i = Len(L) + 1
    BY <1>5
  <2>2. today <= today
    BY <1>1
  <2> QED BY <2>1, <2>2, <1>1, <1>2, <1>5, <1>6 DEF Longer
<1>8. Longer(L, L)
  BY <1>5 DEF Longer
<1>9. a \in {L, Append(L, line)}
  BY DEF L
<1> HIDE DEF a
<1>10. daily' \in LogOf(FactLine) /\ daily'.lines = a
  <2>1. a \in Seq(FactLine)
    BY <1>4, <1>5, <1>9
  <2>2. [lines |-> a, fragment |-> FALSE, corrupt |-> b] \in LogOf(FactLine)
    BY <2>1, <1>4 DEF LogOf
  <2>3. daily' \in LogOf(FactLine)
    BY <2>2, <1>3
  <2>4. daily'.lines = a
    BY <1>3
  <2> QED BY <2>3, <2>4
<1>11. Longer(daily.lines, daily'.lines)
  <2>1. Longer(L, a)
    BY <1>7, <1>8, <1>9
  <2> QED BY <2>1, <1>10 DEF L
<1>12. \A i \in DOMAIN daily'.lines : daily'.lines[i].day <= today'
  BY <1>1, <1>7, <1>9, <1>10
<1> QED BY <1>1, <1>10, <1>11, <1>12, FactsAdded

\* A day passes, or a process dies inside an append.
LEMMA FragmentChanged ==
  ASSUME ConflictsInv, NEW d \in Nat, today <= d, today' = d, NEW b \in BOOLEAN,
         daily' = [daily EXCEPT !.fragment = b],
         UNCHANGED <<curated, unkeyed, view, cases, decisions, journal, pc, work>>
  PROVE  ConflictsInv'
<1>1. daily \in LogOf(FactLine) /\ today \in Nat /\ \A i \in DOMAIN daily.lines : daily.lines[i].day <= today
  BY DEF ConflictsInv, WorkspaceTypes
<1>2. daily' \in LogOf(FactLine) /\ daily'.lines = daily.lines
  BY <1>1 DEF LogOf
<1>3. Longer(daily.lines, daily'.lines)
  BY <1>1, <1>2 DEF Longer, LogOf
<1>4. ASSUME NEW i \in DOMAIN daily.lines PROVE daily.lines[i].day <= d
  <2>1. daily.lines[i].day <= today /\ daily.lines[i] \in FactLine
    BY <1>1 DEF LogOf
  <2> QED BY <1>1, <2>1 DEF FactLine
<1> QED BY <1>1, <1>2, <1>3, <1>4, FactsAdded

-----------------------------------------------------------------------------
\* What stays when the journal does, and the files of a decision.
LEMMA JournalStays ==
  ASSUME ConflictsInv, UNCHANGED journal
  PROVE  /\ JournalOrdered'
         /\ \A e : Conflicts!Recorded(e)' = Conflicts!Recorded(e)
         /\ \A e : Conflicts!Intent(e)' = Conflicts!Intent(e)
         /\ Conflicts!Unfinished' = Conflicts!Unfinished
  BY JournalKept DEF ConflictsInv

\* A step that writes none of the three files.
LEMMA FilesStay ==
  ASSUME ConflictsInv, UNCHANGED <<daily, today, curated, unkeyed, cases, decisions, journal>>
  PROVE  /\ WorkspaceTypes' /\ Consistent(cases, curated, daily.lines)' /\ Conflicts!DecisionsReadable'
         /\ JournalOrdered' /\ DecidedInv' /\ UnfinishedInv'
         /\ (view' = view \/ view' = Conflicts!Rendered => Conflicts!ViewNotAhead')
<1> USE DEF ConflictsInv
<1>1. /\ JournalOrdered'
      /\ \A e : Conflicts!Recorded(e)' = Conflicts!Recorded(e)
      /\ \A e : Conflicts!Intent(e)' = Conflicts!Intent(e)
      /\ Conflicts!Unfinished' = Conflicts!Unfinished
  BY JournalStays
<1>2. \A e : Ruled(e)' <=> Ruled(e)
  BY DEF Ruled
<1>3. DecidedInv'
  BY <1>1, <1>2, DecidedKept
<1>4. UnfinishedInv'
  BY <1>1, <1>2 DEF UnfinishedInv
<1>5. WorkspaceTypes' /\ Consistent(cases, curated, daily.lines)' /\ Conflicts!DecisionsReadable'
  BY DEF WorkspaceTypes, Conflicts!DecisionsReadable
<1>6. view' = Conflicts!Rendered => Conflicts!ViewNotAhead'
  BY DEF Conflicts!Rendered, Conflicts!ViewNotAhead
<1>7. view' = view => Conflicts!ViewNotAhead'
  BY DEF Conflicts!ViewNotAhead
<1> QED BY <1>1, <1>3, <1>4, <1>5, <1>6, <1>7

\* Distillation plans what may be written (distill).
LEMMA DistillKeeps ==
  ASSUME ConflictsInv, Conflicts!Distill
  PROVE  ConflictsInv'
<1>1. UNCHANGED <<daily, today, curated, unkeyed, cases, decisions, journal, view>> /\ pc = "idle"
  BY DEF Conflicts!Distill, Conflicts!files
<1>2. pc' \in {"save_curated", "save_conflicts"}
  BY DEF Conflicts!Distill
<1>3. /\ work'.curated = Conflicts!CuratedAfter /\ work'.unkeyed = Conflicts!UnkeyedAfter
      /\ work'.cases = Conflicts!CasesAfter
      /\ pc' # "save_curated" => work'.curated = curated
  BY DEF Conflicts!Distill
<1>4. Conflicts!Unfinished' = Conflicts!Unfinished /\ Conflicts!Unfinished = {}
  BY <1>1, JournalStays DEF ConflictsInv, WorkInv, Resting
<1>5. /\ Conflicts!CuratedAfter \in Seq(RevisionOf)
      /\ Grows(curated, Conflicts!CuratedAfter)
  BY DistilledRevisions DEF ConflictsInv, Consistent
<1>6. /\ Conflicts!CasesAfter \in Seq(ConflictCase)
      /\ Reviewed(cases, Conflicts!CasesAfter)
      /\ Consistent(Conflicts!CasesAfter, Conflicts!CuratedAfter, daily.lines)
  BY DistilledCases DEF ConflictsInv
<1>7. /\ Conflicts!UnkeyedAfter \in [Statement -> SUBSET Nat]
      /\ \A v \in Statement : unkeyed[v] \subseteq Conflicts!UnkeyedAfter[v]
  BY DistilledUnkeyed DEF ConflictsInv
<1>8. WorkInv'
  <2>1. /\ work'.curated \in Seq(RevisionOf) /\ Grows(curated, work'.curated)
        /\ work'.cases \in Seq(ConflictCase) /\ Reviewed(cases, work'.cases)
        /\ Consistent(work'.cases, work'.curated, daily.lines)
        /\ work'.unkeyed \in [Statement -> SUBSET Nat]
        /\ \A v \in Statement : unkeyed[v] \subseteq work'.unkeyed[v]
    BY <1>3, <1>5, <1>6, <1>7
  <2>2. pc' \in Resting \ {"idle"} /\ pc' \notin Completing /\ pc' # "prepare"
    BY <1>2 DEF Resting, Completing
  <2> QED BY <2>1, <2>2, <1>1, <1>3, <1>4 DEF WorkInv
<1> QED BY <1>1, <1>8, FilesStay DEF ConflictsInv

\* What a distillation that was not written yet will write.
LEMMA Planned ==
  ASSUME ConflictsInv, pc \in Resting \ {"idle"}
  PROVE  /\ Conflicts!Unfinished = {}
         /\ work.curated \in Seq(RevisionOf) /\ work.cases \in Seq(ConflictCase)
         /\ work.unkeyed \in [Statement -> SUBSET Nat]
         /\ Grows(curated, work.curated)
         /\ \A v \in Statement : unkeyed[v] \subseteq work.unkeyed[v]
         /\ Reviewed(cases, work.cases)
         /\ Consistent(work.cases, work.curated, daily.lines)
         /\ pc # "save_curated" => work.curated = curated
  BY DEF ConflictsInv, WorkInv

\* The view shows what is there or less when the revisions grow.
LEMMA ViewBehind ==
  ASSUME Conflicts!ViewNotAhead, curated \in Seq(RevisionOf), curated' \in Seq(RevisionOf),
         Grows(curated, curated'), \A v \in Statement : unkeyed[v] \subseteq unkeyed'[v],
         view' \in {view, <<curated, unkeyed>>}
  PROVE  Conflicts!ViewNotAhead'
<1>1. \A n \in DOMAIN curated : n \in DOMAIN curated' /\ curated[n].evidence \subseteq curated'[n].evidence
  BY DEF Grows
<1>2. CASE view' = <<curated, unkeyed>>
  BY <1>1, <1>2 DEF Conflicts!ViewNotAhead
<1>3. CASE view' = view
  BY <1>1, <1>3 DEF Conflicts!ViewNotAhead
<1> QED BY <1>2, <1>3

\* curated.json is replaced by what distillation made of it (_save_curated).
LEMMA SaveCuratedKeeps ==
  ASSUME ConflictsInv, Conflicts!SaveCurated
  PROVE  ConflictsInv'
<1> USE DEF ConflictsInv
<1>1. /\ pc = "save_curated" /\ pc' = "render" /\ curated' = work.curated /\ unkeyed' = work.unkeyed
      /\ UNCHANGED <<daily, today, view, cases, decisions, journal, work>>
  BY DEF Conflicts!SaveCurated
<1>2. /\ Conflicts!Unfinished = {}
      /\ work.curated \in Seq(RevisionOf) /\ work.cases \in Seq(ConflictCase)
      /\ work.unkeyed \in [Statement -> SUBSET Nat]
      /\ Grows(curated, work.curated)
      /\ \A v \in Statement : unkeyed[v] \subseteq work.unkeyed[v]
      /\ Reviewed(cases, work.cases)
      /\ Consistent(work.cases, work.curated, daily.lines)
  BY <1>1, Planned DEF Resting
<1>3. curated \in Seq(RevisionOf) /\ cases \in Seq(ConflictCase) /\ daily.lines \in Seq(FactLine)
  BY DEF WorkspaceTypes, LogOf
<1>4. WorkspaceTypes'
  BY <1>1, <1>2 DEF WorkspaceTypes
<1>5. Consistent(cases, curated, daily.lines)'
  <2>1. Consistent(cases, work.curated, daily.lines)
    BY <1>2, <1>3, ConsistentGrows DEF Consistent
  <2> QED BY <2>1, <1>1
<1>6. /\ JournalOrdered'
      /\ \A e : Conflicts!Recorded(e)' = Conflicts!Recorded(e)
      /\ \A e : Conflicts!Intent(e)' = Conflicts!Intent(e)
      /\ Conflicts!Unfinished' = Conflicts!Unfinished
  BY <1>1, JournalStays
<1>7. DecidedInv'
  <2>1. \A d : Stands(d, cases, curated) => Stands(d, cases', curated')
    BY <1>1, <1>2, <1>3, StandsGrows
  <2>2. \A e : Ruled(e) => Ruled(e)'
    BY <1>1 DEF Ruled
  <2> QED BY <2>1, <2>2, <1>6, DecidedKept
<1>8. UnfinishedInv'
  BY <1>2, <1>6 DEF UnfinishedInv
<1>9. Conflicts!DecisionsReadable'
  BY <1>1 DEF Conflicts!DecisionsReadable
<1>10. Conflicts!ViewNotAhead'
  <2>1. curated' \in Seq(RevisionOf) /\ Grows(curated, curated') /\ \A v \in Statement : unkeyed[v] \subseteq unkeyed'[v]
    BY <1>1, <1>2
  <2> QED BY <2>1, <1>1, <1>3, ViewBehind
<1>11. WorkInv'
  <2>1. Grows(work.curated, work.curated)
    BY <1>2 DEF Grows
  <2>2. pc' \in Resting \ {"idle"} /\ pc' \notin Completing /\ pc' = "render"
    BY <1>1 DEF Resting, Completing
  <2> QED BY <2>1, <2>2, <1>1, <1>2, <1>6 DEF WorkInv
<1> QED BY <1>4, <1>5, <1>6, <1>7, <1>8, <1>9, <1>10, <1>11

\* MEMORY.md shows what is in curated.json (render_memory_md, read_memory_md).
LEMMA RenderKeeps ==
  ASSUME ConflictsInv, Conflicts!RenderMemory \/ Conflicts!ReadMemory
  PROVE  ConflictsInv'
<1>1. /\ pc \in {"render", "idle"} /\ view' = Conflicts!Rendered
      /\ pc' \in {"idle", "save_conflicts"} /\ (pc = "idle" => pc' = "idle")
      /\ UNCHANGED <<daily, today, curated, unkeyed, cases, decisions, journal, work>>
  BY DEF Conflicts!RenderMemory, Conflicts!ReadMemory
<1>2. Conflicts!Unfinished = {} /\ Conflicts!Unfinished' = Conflicts!Unfinished
  BY <1>1, JournalStays DEF ConflictsInv, WorkInv, Resting
<1>3. WorkInv'
  <2>1. pc' \in Resting /\ pc' \notin Completing
    BY <1>1 DEF Resting, Completing
  <2>2. CASE pc' = "idle"
    BY <2>1, <2>2, <1>2 DEF WorkInv
  <2>3. CASE pc' # "idle"
    <3>1. pc \in Resting \ {"idle"} /\ pc # "save_curated"
      BY <1>1, <2>3 DEF Resting
    <3> QED BY <3>1, <2>1, <2>3, <1>1, <1>2, Planned DEF WorkInv
  <2> QED BY <2>2, <2>3
<1> QED BY <1>1, <1>3, FilesStay DEF ConflictsInv

\* conflicts.json is replaced by what distillation made of it (_save_conflicts).
LEMMA SaveConflictsKeeps ==
  ASSUME ConflictsInv, Conflicts!SaveConflicts
  PROVE  ConflictsInv' /\ cases' = work.cases
<1> USE DEF ConflictsInv
<1>1. pc = "save_conflicts" /\ UNCHANGED <<daily, today, curated, unkeyed, view, decisions, journal, work>>
  BY DEF Conflicts!SaveConflicts
<1>2. /\ Conflicts!Unfinished = {}
      /\ work.cases \in Seq(ConflictCase)
      /\ Reviewed(cases, work.cases)
      /\ Consistent(work.cases, curated, daily.lines)
  BY <1>1, Planned DEF Resting
<1>3. cases' = work.cases /\ pc' = "idle"
  BY <1>2 DEF Conflicts!SaveConflicts, Consistent
<1>4. curated \in Seq(RevisionOf) /\ cases \in Seq(ConflictCase)
  BY DEF WorkspaceTypes
<1>5. WorkspaceTypes'
  BY <1>1, <1>2, <1>3 DEF WorkspaceTypes
<1>6. Consistent(cases, curated, daily.lines)'
  BY <1>1, <1>2, <1>3
<1>7. /\ JournalOrdered'
      /\ \A e : Conflicts!Recorded(e)' = Conflicts!Recorded(e)
      /\ \A e : Conflicts!Intent(e)' = Conflicts!Intent(e)
      /\ Conflicts!Unfinished' = Conflicts!Unfinished
  BY <1>1, JournalStays
<1>8. DecidedInv'
  <2>1. \A d : Stands(d, cases, curated) => Stands(d, cases', curated')
    BY <1>1, <1>2, <1>3, <1>4, StandsReviewed
  <2>2. \A e : Ruled(e) => Ruled(e)'
    BY <1>1 DEF Ruled
  <2> QED BY <2>1, <2>2, <1>7, DecidedKept
<1>9. UnfinishedInv'
  BY <1>2, <1>7 DEF UnfinishedInv
<1>10. Conflicts!DecisionsReadable' /\ Conflicts!ViewNotAhead'
  BY <1>1 DEF Conflicts!DecisionsReadable, Conflicts!ViewNotAhead
<1>11. WorkInv'
  BY <1>2, <1>3, <1>7 DEF WorkInv, Resting, Completing
<1> QED BY <1>3, <1>5, <1>6, <1>7, <1>8, <1>9, <1>10, <1>11

-----------------------------------------------------------------------------
(* Workspace memory: completing a resolution keeps the invariant *)

\* The decision that is being completed, and how far it is.
LEMMA Underway ==
  ASSUME ConflictsInv, pc \in Completing, NEW e, e = work.event, NEW t, t = Conflicts!Intent(e)
  PROVE  /\ e \in DecisionId /\ e \in Conflicts!Unfinished /\ Conflicts!Unfinished = {e}
         /\ Conflicts!Recorded(e) # {} /\ "committed" \notin Conflicts!Recorded(e)
         /\ Prepared(e, t, daily.lines)
         /\ t \in Transaction /\ t.after \in Seq(RevisionOf) /\ t.before \in Seq(RevisionOf)
         /\ t.casesBefore \in Seq(ConflictCase) /\ t.casesAfter \in Seq(ConflictCase)
         /\ t.decision \in DecisionLine
         /\ unkeyed = t.unkeyed /\ curated \in {t.before, t.after} /\ cases \in {t.casesBefore, t.casesAfter}
         /\ "curated_applied" \in Conflicts!Recorded(e) => curated = t.after
         /\ "curated_applied" \notin Conflicts!Recorded(e) => cases = t.casesBefore
         /\ "conflict_closed" \in Conflicts!Recorded(e) => cases = t.casesAfter
         /\ "audit_appended" \in Conflicts!Recorded(e) => Ruled(e)
         /\ \A i \in DOMAIN decisions.lines :
               decisions.lines[i].event = e => decisions.lines[i] = t.decision
<1>1. e \in Conflicts!Unfinished
  BY DEF ConflictsInv, WorkInv
<1>2. Conflicts!Unfinished = {e}
  BY <1>1 DEF ConflictsInv, UnfinishedInv
<1>3. e \in DecisionId /\ Conflicts!Recorded(e) # {} /\ "committed" \notin Conflicts!Recorded(e)
  BY <1>1 DEF Conflicts!Unfinished
<1>4. /\ Prepared(e, t, daily.lines)
      /\ unkeyed = t.unkeyed /\ curated \in {t.before, t.after} /\ cases \in {t.casesBefore, t.casesAfter}
      /\ "curated_applied" \in Conflicts!Recorded(e) => curated = t.after
      /\ "curated_applied" \notin Conflicts!Recorded(e) => cases = t.casesBefore
      /\ "conflict_closed" \in Conflicts!Recorded(e) => cases = t.casesAfter
      /\ "audit_appended" \in Conflicts!Recorded(e) => Ruled(e)
      /\ \A i \in DOMAIN decisions.lines :
               decisions.lines[i].event = e => decisions.lines[i] = t.decision
  BY <1>1 DEF ConflictsInv, UnfinishedInv
<1>5. t \in Transaction
  BY <1>4 DEF Prepared
<1>6. /\ t.after \in Seq(RevisionOf) /\ t.before \in Seq(RevisionOf)
      /\ t.casesBefore \in Seq(ConflictCase) /\ t.casesAfter \in Seq(ConflictCase)
      /\ t.decision \in DecisionLine
  BY <1>5 DEF Transaction
<1> QED BY <1>1, <1>2, <1>3, <1>4, <1>5, <1>6

\* curated.json is replaced if it was not yet (_ensure_curated_transaction_state).
LEMMA ApplyKeeps ==
  ASSUME ConflictsInv, Conflicts!ApplyCurated
  PROVE  ConflictsInv'
<1> USE DEF ConflictsInv
<1>e. PICK e : e = work.event
  OBVIOUS
<1>t. PICK t : t = Conflicts!Intent(e)
  OBVIOUS
<1>0. pc = "apply" /\ pc \in Completing /\ pc \notin Resting
  BY DEF Conflicts!ApplyCurated, Resting, Completing
<1>1. UNCHANGED <<daily, today, unkeyed, cases, decisions, journal, work>>
  BY DEF Conflicts!ApplyCurated
<1>2. /\ e \in DecisionId /\ Conflicts!Unfinished = {e}
      /\ Prepared(e, t, daily.lines) /\ t.after \in Seq(RevisionOf) /\ t.before \in Seq(RevisionOf)
      /\ unkeyed = t.unkeyed /\ curated \in {t.before, t.after} /\ cases \in {t.casesBefore, t.casesAfter}
      /\ "curated_applied" \in Conflicts!Recorded(e) => curated = t.after
      /\ "curated_applied" \notin Conflicts!Recorded(e) => cases = t.casesBefore
      /\ "conflict_closed" \in Conflicts!Recorded(e) => cases = t.casesAfter
      /\ "audit_appended" \in Conflicts!Recorded(e) => Ruled(e)
      /\ \A i \in DOMAIN decisions.lines :
               decisions.lines[i].event = e => decisions.lines[i] = t.decision
  BY <1>0, <1>e, <1>t, Underway
<1>3. /\ curated' = t.after /\ pc' \in {"curated_applied", "project"}
      /\ view' \in {view, <<curated, unkeyed>>}
  BY <1>2, <1>0, <1>e, <1>t DEF Conflicts!ApplyCurated, Conflicts!Rendered
<1>4. /\ JournalOrdered'
      /\ \A f : Conflicts!Recorded(f)' = Conflicts!Recorded(f)
      /\ \A f : Conflicts!Intent(f)' = Conflicts!Intent(f)
      /\ Conflicts!Unfinished' = Conflicts!Unfinished
  BY <1>1, JournalStays
<1>5. curated \in Seq(RevisionOf) /\ cases \in Seq(ConflictCase) /\ daily.lines \in Seq(FactLine)
  BY DEF WorkspaceTypes, LogOf
<1>6. WorkspaceTypes'
  BY <1>1, <1>2, <1>3 DEF WorkspaceTypes
<1>7. Grows(t.before, t.after) /\ Consistent(t.casesAfter, t.after, daily.lines)
  BY <1>2 DEF Prepared
<1>8. Grows(t.after, t.after)
  BY <1>2 DEF Grows
<1>9. Grows(curated, curated')
  BY <1>2, <1>3, <1>7, <1>8
<1>10. Consistent(cases, curated, daily.lines)'
  <2>1. Consistent(cases, t.after, daily.lines)
    BY <1>2, <1>3, <1>5, <1>7, <1>9, ConsistentGrows DEF Consistent
  <2> QED BY <2>1, <1>1, <1>3
<1>11. \A f : Ruled(f) <=> Ruled(f)'
  BY <1>1 DEF Ruled
<1>12. DecidedInv'
  <2>1. \A d : Stands(d, cases, curated) => Stands(d, cases', curated')
    BY <1>1, <1>2, <1>3, <1>5, <1>9, StandsGrows
  <2> QED BY <2>1, <1>4, <1>11, DecidedKept
<1>13. UnfinishedInv'
  <2>1. Conflicts!Intent(e)' = t /\ Conflicts!Recorded(e)' = Conflicts!Recorded(e) /\ Conflicts!Unfinished' = {e}
    BY <1>2, <1>4, <1>t
  <2> QED BY <2>1, <1>1, <1>2, <1>3, <1>4, <1>11 DEF UnfinishedInv
<1>14. Conflicts!DecisionsReadable'
  BY <1>1 DEF Conflicts!DecisionsReadable
<1>15. Conflicts!ViewNotAhead'
  <2>1. curated' \in Seq(RevisionOf) /\ \A v \in Statement : unkeyed[v] \subseteq unkeyed'[v]
    BY <1>1, <1>2, <1>3
  <2> QED BY <2>1, <1>3, <1>5, <1>9, ViewBehind
<1>16. WorkInv'
  <2>1. /\ e \in Conflicts!Unfinished /\ "committed" \notin work.done
        /\ "curated_applied" \in work.done <=> "curated_applied" \in Conflicts!Recorded(e)
        /\ "conflict_closed" \in work.done <=> "conflict_closed" \in Conflicts!Recorded(e)
        /\ "audit_appended" \in work.done <=> "audit_appended" \in Conflicts!Recorded(e)
    BY <1>0, <1>e DEF WorkInv, BeforeClose, BeforeAudit, Completing
  <2>2. pc' \in BeforeClose /\ pc' \in BeforeAudit /\ pc' \in Completing /\ pc' \notin Resting
        /\ pc' \notin {"committed", "audit_appended"}
    BY <1>3 DEF BeforeClose, BeforeAudit, Completing, Resting
  <2>3. work'.event = e /\ work'.done = work.done /\ Conflicts!Intent(e)' = t
        /\ Conflicts!Recorded(e)' = Conflicts!Recorded(e) /\ Conflicts!Unfinished' = Conflicts!Unfinished
    BY <1>1, <1>4, <1>e, <1>t
  <2> QED BY <2>1, <2>2, <2>3, <1>3 DEF WorkInv
<1> QED BY <1>4, <1>6, <1>10, <1>12, <1>13, <1>14, <1>15, <1>16

\* MEMORY.md follows (_ensure_curated_transaction_state).
LEMMA ProjectKeeps ==
  ASSUME ConflictsInv, Conflicts!ProjectMemory
  PROVE  ConflictsInv'
<1>1. /\ pc = "project" /\ pc' = "curated_applied" /\ view' = Conflicts!Rendered
      /\ UNCHANGED <<daily, today, curated, unkeyed, cases, decisions, journal, work>>
  BY DEF Conflicts!ProjectMemory
<1>2. /\ \A f : Conflicts!Recorded(f)' = Conflicts!Recorded(f)
      /\ \A f : Conflicts!Intent(f)' = Conflicts!Intent(f)
      /\ Conflicts!Unfinished' = Conflicts!Unfinished
  BY <1>1, JournalStays
<1>3. WorkInv'
  <2>1. WorkInv
    BY DEF ConflictsInv
  <2> QED BY <2>1, <1>1, <1>2 DEF WorkInv, BeforeClose, BeforeAudit, Completing, Resting
<1> QED BY <1>1, <1>3, FilesStay DEF ConflictsInv

\* conflicts.json is replaced if it was not yet (_ensure_conflict_transaction_state).
LEMMA CloseKeeps ==
  ASSUME ConflictsInv, Conflicts!CloseConflict
  PROVE  ConflictsInv'
<1> USE DEF ConflictsInv
<1>e. PICK e : e = work.event
  OBVIOUS
<1>t. PICK t : t = Conflicts!Intent(e)
  OBVIOUS
<1>0. pc = "close" /\ pc \in Completing /\ pc \notin Resting
  BY DEF Conflicts!CloseConflict, Resting, Completing
<1>1. UNCHANGED <<daily, today, curated, unkeyed, view, decisions, journal, work>>
  BY DEF Conflicts!CloseConflict
<1>2. /\ e \in DecisionId /\ Conflicts!Unfinished = {e}
      /\ Prepared(e, t, daily.lines)
      /\ t.casesBefore \in Seq(ConflictCase) /\ t.casesAfter \in Seq(ConflictCase)
      /\ unkeyed = t.unkeyed /\ cases \in {t.casesBefore, t.casesAfter}
      /\ "audit_appended" \in Conflicts!Recorded(e) => Ruled(e)
      /\ \A i \in DOMAIN decisions.lines :
               decisions.lines[i].event = e => decisions.lines[i] = t.decision
  BY <1>0, <1>e, <1>t, Underway
<1>3. "curated_applied" \in Conflicts!Recorded(e) /\ curated = t.after
  BY <1>0, <1>e, <1>t DEF WorkInv, BeforeClose, BeforeAudit, Completing
<1>4. Consistent(t.casesAfter, t.after, daily.lines)
  BY <1>2 DEF Prepared
<1>5. cases' = t.casesAfter /\ pc' = "conflict_closed"
  BY <1>2, <1>4, <1>e, <1>t DEF Conflicts!CloseConflict, Consistent
<1>6. /\ JournalOrdered'
      /\ \A f : Conflicts!Recorded(f)' = Conflicts!Recorded(f)
      /\ \A f : Conflicts!Intent(f)' = Conflicts!Intent(f)
      /\ Conflicts!Unfinished' = Conflicts!Unfinished
  BY <1>1, JournalStays
<1>7. WorkspaceTypes'
  BY <1>1, <1>2, <1>5 DEF WorkspaceTypes
<1>8. Consistent(cases, curated, daily.lines)'
  BY <1>1, <1>3, <1>4, <1>5
<1>9. \A f : Ruled(f) <=> Ruled(f)'
  BY <1>1 DEF Ruled
<1>10. DecidedInv'
  <2>1. ASSUME NEW d, Stands(d, cases, curated) PROVE Stands(d, cases', curated')
    <3>1. CASE cases = t.casesAfter
      BY <2>1, <3>1, <1>1, <1>5
    <3>2. CASE cases = t.casesBefore
      <4>1. /\ Len(cases) = Len(t.casesAfter) /\ cases[t.decision.revision].status = "open"
            /\ \A n \in DOMAIN cases : n # t.decision.revision => t.casesAfter[n] = cases[n]
        BY <3>2, <1>2 DEF Prepared
      <4>2. Stands(d, t.casesAfter, curated)
        BY <2>1, <3>2, <4>1, <1>2, StandsDecided
      <4> QED BY <4>2, <1>1, <1>5
    <3> QED BY <3>1, <3>2, <1>2
  <2> QED BY <2>1, <1>6, <1>9, DecidedKept
<1>11. UnfinishedInv'
  <2>1. Conflicts!Intent(e)' = t /\ Conflicts!Recorded(e)' = Conflicts!Recorded(e) /\ Conflicts!Unfinished' = {e}
    BY <1>2, <1>6, <1>t
  <2> QED BY <2>1, <1>1, <1>2, <1>3, <1>5, <1>9 DEF UnfinishedInv
<1>12. Conflicts!DecisionsReadable' /\ Conflicts!ViewNotAhead'
  BY <1>1 DEF Conflicts!DecisionsReadable, Conflicts!ViewNotAhead
<1>13. WorkInv'
  <2>1. /\ e \in Conflicts!Unfinished /\ "committed" \notin work.done
        /\ "conflict_closed" \in work.done <=> "conflict_closed" \in Conflicts!Recorded(e)
        /\ "audit_appended" \in work.done <=> "audit_appended" \in Conflicts!Recorded(e)
    BY <1>0, <1>e DEF WorkInv, BeforeClose, BeforeAudit, Completing
  <2>2. pc' \in BeforeAudit /\ pc' \notin BeforeClose /\ pc' \in Completing /\ pc' \notin Resting
        /\ pc' \notin {"committed", "audit_appended", "apply", "close"}
    BY <1>5 DEF BeforeClose, BeforeAudit, Completing, Resting
  <2>3. work'.event = e /\ work'.done = work.done /\ Conflicts!Intent(e)' = t
        /\ Conflicts!Recorded(e)' = Conflicts!Recorded(e) /\ Conflicts!Unfinished' = Conflicts!Unfinished
    BY <1>1, <1>6, <1>e, <1>t
  <2> QED BY <2>1, <2>2, <2>3, <1>1, <1>3, <1>5 DEF WorkInv
<1> QED BY <1>6, <1>7, <1>8, <1>10, <1>11, <1>12, <1>13

\* A phase that is due is recorded, unless it was before (_append_resolution_phase).
LEMMA PhaseMarked ==
  ASSUME ConflictsInv, NEW e, e = work.event, e \in DecisionId,
         NEW k \in 2 .. 5, NEW next, Conflicts!MarkPhase(Conflicts!Phases[k], next),
         Conflicts!Phases[k] \in work.done <=> Conflicts!Phases[k] \in Conflicts!Recorded(e),
         Conflicts!Phases[k] \notin Conflicts!Recorded(e) =>
             Conflicts!Recorded(e) = {Conflicts!Phases[m] : m \in 1 .. k - 1}
  PROVE  /\ WorkspaceTypes' /\ JournalOrdered'
         /\ Conflicts!Recorded(e)' = Conflicts!Recorded(e) \cup {Conflicts!Phases[k]}
         /\ \A f \in DecisionId : f # e => Conflicts!Recorded(f)' = Conflicts!Recorded(f)
         /\ \A f \in DecisionId : Conflicts!Recorded(f) # {} => Conflicts!Intent(f)' = Conflicts!Intent(f)
<1> DEFINE p == Conflicts!Phases[k]
<1>0. WorkspaceTypes /\ JournalOrdered
  BY DEF ConflictsInv
<1>1. UNCHANGED <<daily, today, curated, unkeyed, cases, decisions>>
  BY DEF Conflicts!MarkPhase
<1>2. CASE p \in work.done
  <2>1. UNCHANGED journal
    BY <1>2 DEF Conflicts!MarkPhase
  <2>2. /\ JournalOrdered'
        /\ \A f : Conflicts!Recorded(f)' = Conflicts!Recorded(f)
        /\ \A f : Conflicts!Intent(f)' = Conflicts!Intent(f)
    BY <2>1, JournalStays
  <2>3. WorkspaceTypes'
    BY <1>0, <1>1, <2>1 DEF WorkspaceTypes
  <2>4. p \in Conflicts!Recorded(e)
    BY <1>2
  <2> HIDE DEF p
  <2> QED BY <2>2, <2>3, <2>4 DEF p
<1>3. CASE p \notin work.done
  <2>1. journal' = Conflicts!JournalAppended(e, p, None)
    BY <1>3 DEF Conflicts!MarkPhase
  <2>2. Conflicts!Recorded(e) = {Conflicts!Phases[m] : m \in 1 .. k - 1}
    BY <1>3
  <2>3. k \in 1 .. 5 /\ None \in Transaction \cup {None}
    OBVIOUS
  <2>4. /\ journal' \in LogOf(JournalLine) /\ ~ journal'.corrupt
        /\ JournalOrdered'
        /\ Conflicts!Recorded(e)' = Conflicts!Recorded(e) \cup {p}
        /\ \A f \in DecisionId : f # e => Conflicts!Recorded(f)' = Conflicts!Recorded(f)
        /\ \A f \in DecisionId : Conflicts!Recorded(f) # {} => Conflicts!Intent(f)' = Conflicts!Intent(f)
    BY <1>0, <2>1, <2>2, <2>3, JournalStep
  <2>5. WorkspaceTypes'
    BY <1>0, <1>1, <2>4 DEF WorkspaceTypes
  <2> HIDE DEF p
  <2> QED BY <2>4, <2>5 DEF p
<1> QED BY <1>2, <1>3

\* Where the next phase belongs.
LEMMA PhaseDue ==
  ASSUME JournalOrdered, NEW e \in DecisionId, "committed" \notin Conflicts!Recorded(e), Conflicts!Recorded(e) # {}
  PROVE  /\ "curated_applied" \notin Conflicts!Recorded(e) =>
              Conflicts!Recorded(e) = {Conflicts!Phases[m] : m \in 1 .. 2 - 1}
         /\ "curated_applied" \in Conflicts!Recorded(e) /\ "conflict_closed" \notin Conflicts!Recorded(e) =>
              Conflicts!Recorded(e) = {Conflicts!Phases[m] : m \in 1 .. 3 - 1}
         /\ "conflict_closed" \in Conflicts!Recorded(e) /\ "audit_appended" \notin Conflicts!Recorded(e) =>
              Conflicts!Recorded(e) = {Conflicts!Phases[m] : m \in 1 .. 4 - 1}
         /\ "audit_appended" \in Conflicts!Recorded(e) =>
              Conflicts!Recorded(e) = {Conflicts!Phases[m] : m \in 1 .. 5 - 1}
<1>1. Conflicts!Recorded(e) \in {{}, {"prepared"}, {"prepared", "curated_applied"},
                          {"prepared", "curated_applied", "conflict_closed"},
                          PhaseNames \ {"committed"}, PhaseNames}
  BY DEF JournalOrdered
<1>2. PhaseNames \ {"committed"} = {"prepared", "curated_applied", "conflict_closed", "audit_appended"}
      /\ "committed" \in PhaseNames
  BY DEF PhaseNames
<1>3. Conflicts!Recorded(e) \in {{"prepared"}, {"prepared", "curated_applied"},
                          {"prepared", "curated_applied", "conflict_closed"},
                          {"prepared", "curated_applied", "conflict_closed", "audit_appended"}}
  BY <1>1, <1>2
<1> QED BY <1>3, PhasesBefore

\* What follows when a phase before the last is recorded.
LEMMA MarkKeeps ==
  ASSUME ConflictsInv, pc \in Completing, NEW e, e = work.event, NEW t, t = Conflicts!Intent(e),
         UNCHANGED <<daily, curated, unkeyed, view, cases, decisions, work>>,
         WorkspaceTypes', JournalOrdered', NEW p, p \notin {"committed", "prepared"},
         Conflicts!Recorded(e)' = Conflicts!Recorded(e) \cup {p},
         \A f \in DecisionId : f # e => Conflicts!Recorded(f)' = Conflicts!Recorded(f),
         \A f \in DecisionId : Conflicts!Recorded(f) # {} => Conflicts!Intent(f)' = Conflicts!Intent(f),
         p = "curated_applied" => curated = t.after,
         p = "conflict_closed" => cases = t.casesAfter,
         p = "audit_appended" => Ruled(e),
         WorkInv'
  PROVE  /\ ConflictsInv' /\ Conflicts!Unfinished = {e} /\ Conflicts!Unfinished' = {e}
         /\ \A f \in DecisionId : Conflicts!Recorded(f) # {} => Conflicts!Intent(f)' = Conflicts!Intent(f)
         /\ \A f \in DecisionId : Conflicts!Recorded(f) = {} => Conflicts!Recorded(f)' = {}
<1> USE DEF ConflictsInv
<1>1. /\ e \in DecisionId /\ e \in Conflicts!Unfinished /\ Conflicts!Unfinished = {e}
      /\ Conflicts!Recorded(e) # {} /\ "committed" \notin Conflicts!Recorded(e)
      /\ Prepared(e, t, daily.lines)
      /\ unkeyed = t.unkeyed /\ curated \in {t.before, t.after} /\ cases \in {t.casesBefore, t.casesAfter}
      /\ "curated_applied" \in Conflicts!Recorded(e) => curated = t.after
      /\ "curated_applied" \notin Conflicts!Recorded(e) => cases = t.casesBefore
      /\ "conflict_closed" \in Conflicts!Recorded(e) => cases = t.casesAfter
      /\ "audit_appended" \in Conflicts!Recorded(e) => Ruled(e)
      /\ \A i \in DOMAIN decisions.lines :
               decisions.lines[i].event = e => decisions.lines[i] = t.decision
  BY Underway
<1>2. \A f : Ruled(f) <=> Ruled(f)'
  BY DEF Ruled
<1>3. \A f \in DecisionId : "committed" \in Conflicts!Recorded(f)' <=> "committed" \in Conflicts!Recorded(f)
  BY <1>1
<1>4. Conflicts!Unfinished' = {e}
  <2>1. \A f \in DecisionId : f \in Conflicts!Unfinished' <=> f \in Conflicts!Unfinished
    BY <1>1, <1>3 DEF Conflicts!Unfinished
  <2>2. Conflicts!Unfinished' \subseteq DecisionId
    BY DEF Conflicts!Unfinished
  <2> QED BY <2>1, <2>2, <1>1
<1>5. DecidedInv'
  <2> SUFFICES ASSUME NEW f \in DecisionId, "committed" \in Conflicts!Recorded(f)'
               PROVE  /\ Conflicts!Intent(f)'.decision.event = f
                      /\ Stands(Conflicts!Intent(f)'.decision, cases', curated')
                      /\ Ruled(f)'
    BY DEF DecidedInv
  <2>1. "committed" \in Conflicts!Recorded(f)
    BY <1>3
  <2>2. Conflicts!Intent(f)' = Conflicts!Intent(f)
    BY <2>1
  <2>3. /\ Conflicts!Intent(f).decision.event = f
        /\ Stands(Conflicts!Intent(f).decision, cases, curated)
        /\ Ruled(f)
    BY <2>1 DEF DecidedInv
  <2> QED BY <2>2, <2>3, <1>2
<1>6. UnfinishedInv'
  <2>1. Conflicts!Intent(e)' = t
    BY <1>1
  <2> QED BY <2>1, <1>1, <1>2, <1>4 DEF UnfinishedInv
<1>7. Conflicts!DecisionsReadable' /\ Conflicts!ViewNotAhead' /\ Consistent(cases, curated, daily.lines)'
  BY DEF Conflicts!DecisionsReadable, Conflicts!ViewNotAhead
<1> QED BY <1>1, <1>4, <1>5, <1>6, <1>7

\* That curated.json and MEMORY.md are done is recorded.
LEMMA MarkAppliedKeeps ==
  ASSUME ConflictsInv, Conflicts!MarkPhase("curated_applied", "close")
  PROVE  /\ ConflictsInv' /\ Conflicts!Unfinished = {work.event} /\ Conflicts!Unfinished' = {work.event}
         /\ \A f \in DecisionId : Conflicts!Recorded(f) # {} => Conflicts!Intent(f)' = Conflicts!Intent(f)
         /\ \A f \in DecisionId : Conflicts!Recorded(f) = {} => Conflicts!Recorded(f)' = {}
<1> USE DEF ConflictsInv
<1>e. PICK e : e = work.event
  OBVIOUS
<1>t. PICK t : t = Conflicts!Intent(e)
  OBVIOUS
<1>1. /\ pc = "curated_applied" /\ pc' = "close"
      /\ UNCHANGED <<daily, curated, unkeyed, view, cases, decisions, work>>
  BY DEF Conflicts!MarkPhase
<1>2. pc \in Completing /\ pc \notin {"apply"} /\ pc \in BeforeClose /\ pc \in BeforeAudit /\ pc # "committed"
  BY <1>1 DEF Completing, BeforeClose, BeforeAudit
<1>3. /\ e \in DecisionId /\ Conflicts!Recorded(e) # {} /\ "committed" \notin Conflicts!Recorded(e)
  BY <1>2, <1>e, <1>t, Underway
<1>4. /\ "committed" \notin work.done
      /\ "curated_applied" \in work.done <=> "curated_applied" \in Conflicts!Recorded(e)
      /\ "conflict_closed" \in work.done <=> "conflict_closed" \in Conflicts!Recorded(e)
      /\ "audit_appended" \in work.done <=> "audit_appended" \in Conflicts!Recorded(e)
      /\ curated = t.after
  BY <1>2, <1>e, <1>t DEF WorkInv
<1>5. "curated_applied" \notin Conflicts!Recorded(e) => Conflicts!Recorded(e) = {Conflicts!Phases[m] : m \in 1 .. 2 - 1}
  BY <1>3, PhaseDue
<1>6. 2 \in 2 .. 5 /\ Conflicts!Phases[2] = "curated_applied"
  BY PhaseOrder
<1>7. /\ WorkspaceTypes' /\ JournalOrdered'
      /\ Conflicts!Recorded(e)' = Conflicts!Recorded(e) \cup {"curated_applied"}
      /\ \A f \in DecisionId : f # e => Conflicts!Recorded(f)' = Conflicts!Recorded(f)
      /\ \A f \in DecisionId : Conflicts!Recorded(f) # {} => Conflicts!Intent(f)' = Conflicts!Intent(f)
  <2>1. Conflicts!MarkPhase(Conflicts!Phases[2], "close")
    BY <1>6
  <2> QED BY <2>1, <1>e, <1>3, <1>4, <1>5, <1>6, PhaseMarked
<1>8. WorkInv'
  <2>1. pc' \in Completing /\ pc' \notin Resting /\ pc' \notin BeforeClose /\ pc' \in BeforeAudit
    BY <1>1 DEF Completing, Resting, BeforeClose, BeforeAudit
  <2>2. work'.event = e /\ work'.done = work.done /\ Conflicts!Intent(e)' = t
    BY <1>1, <1>3, <1>7, <1>e, <1>t
  <2>3. e \in Conflicts!Unfinished'
    BY <1>3, <1>7 DEF Conflicts!Unfinished
  <2>4. /\ "curated_applied" \in Conflicts!Recorded(e)'
        /\ "conflict_closed" \in work'.done <=> "conflict_closed" \in Conflicts!Recorded(e)'
        /\ "audit_appended" \in work'.done <=> "audit_appended" \in Conflicts!Recorded(e)'
        /\ curated' = t.after /\ "committed" \notin work'.done
    BY <2>2, <1>1, <1>4, <1>7
  <2> QED BY <2>1, <2>2, <2>3, <2>4, <1>1 DEF WorkInv
<1> QED BY <1>1, <1>2, <1>4, <1>7, <1>8, <1>e, <1>t, MarkKeeps

\* That conflicts.json is done is recorded.
LEMMA MarkClosedKeeps ==
  ASSUME ConflictsInv, Conflicts!MarkPhase("conflict_closed", "audit")
  PROVE  /\ ConflictsInv' /\ Conflicts!Unfinished = {work.event} /\ Conflicts!Unfinished' = {work.event}
         /\ \A f \in DecisionId : Conflicts!Recorded(f) # {} => Conflicts!Intent(f)' = Conflicts!Intent(f)
         /\ \A f \in DecisionId : Conflicts!Recorded(f) = {} => Conflicts!Recorded(f)' = {}
<1> USE DEF ConflictsInv
<1>e. PICK e : e = work.event
  OBVIOUS
<1>t. PICK t : t = Conflicts!Intent(e)
  OBVIOUS
<1>1. /\ pc = "conflict_closed" /\ pc' = "audit"
      /\ UNCHANGED <<daily, curated, unkeyed, view, cases, decisions, work>>
  BY DEF Conflicts!MarkPhase
<1>2. pc \in Completing /\ pc \notin {"apply", "close", "committed"} /\ pc \notin BeforeClose /\ pc \in BeforeAudit
  BY <1>1 DEF Completing, BeforeClose, BeforeAudit
<1>3. /\ e \in DecisionId /\ Conflicts!Recorded(e) # {} /\ "committed" \notin Conflicts!Recorded(e)
  BY <1>2, <1>e, <1>t, Underway
<1>4. /\ "committed" \notin work.done
      /\ "curated_applied" \in Conflicts!Recorded(e)
      /\ "conflict_closed" \in work.done <=> "conflict_closed" \in Conflicts!Recorded(e)
      /\ "audit_appended" \in work.done <=> "audit_appended" \in Conflicts!Recorded(e)
      /\ curated = t.after /\ cases = t.casesAfter
  BY <1>2, <1>e, <1>t DEF WorkInv
<1>5. "conflict_closed" \notin Conflicts!Recorded(e) => Conflicts!Recorded(e) = {Conflicts!Phases[m] : m \in 1 .. 3 - 1}
  BY <1>3, <1>4, PhaseDue
<1>6. 3 \in 2 .. 5 /\ Conflicts!Phases[3] = "conflict_closed"
  BY PhaseOrder
<1>7. /\ WorkspaceTypes' /\ JournalOrdered'
      /\ Conflicts!Recorded(e)' = Conflicts!Recorded(e) \cup {"conflict_closed"}
      /\ \A f \in DecisionId : f # e => Conflicts!Recorded(f)' = Conflicts!Recorded(f)
      /\ \A f \in DecisionId : Conflicts!Recorded(f) # {} => Conflicts!Intent(f)' = Conflicts!Intent(f)
  <2>1. Conflicts!MarkPhase(Conflicts!Phases[3], "audit")
    BY <1>6
  <2> QED BY <2>1, <1>e, <1>3, <1>4, <1>5, <1>6, PhaseMarked
<1>8. WorkInv'
  <2>1. pc' \in Completing /\ pc' \notin Resting /\ pc' \notin BeforeClose /\ pc' \notin BeforeAudit
    BY <1>1 DEF Completing, Resting, BeforeClose, BeforeAudit
  <2>2. work'.event = e /\ work'.done = work.done /\ Conflicts!Intent(e)' = t
    BY <1>1, <1>3, <1>7, <1>e, <1>t
  <2>3. e \in Conflicts!Unfinished'
    BY <1>3, <1>7 DEF Conflicts!Unfinished
  <2> QED BY <2>1, <2>2, <2>3, <1>1, <1>4, <1>7 DEF WorkInv
<1> QED BY <1>1, <1>2, <1>4, <1>7, <1>8, <1>e, <1>t, MarkKeeps

\* That the audit log is done is recorded.
LEMMA MarkAuditedKeeps ==
  ASSUME ConflictsInv, Conflicts!MarkPhase("audit_appended", "committed")
  PROVE  /\ ConflictsInv' /\ Conflicts!Unfinished = {work.event} /\ Conflicts!Unfinished' = {work.event}
         /\ \A f \in DecisionId : Conflicts!Recorded(f) # {} => Conflicts!Intent(f)' = Conflicts!Intent(f)
         /\ \A f \in DecisionId : Conflicts!Recorded(f) = {} => Conflicts!Recorded(f)' = {}
<1> USE DEF ConflictsInv
<1>e. PICK e : e = work.event
  OBVIOUS
<1>t. PICK t : t = Conflicts!Intent(e)
  OBVIOUS
<1>1. /\ pc = "audit_appended" /\ pc' = "committed"
      /\ UNCHANGED <<daily, curated, unkeyed, view, cases, decisions, work>>
  BY DEF Conflicts!MarkPhase
<1>2. pc \in Completing /\ pc \notin {"apply", "close", "committed"} /\ pc \notin BeforeClose /\ pc \notin BeforeAudit
  BY <1>1 DEF Completing, BeforeClose, BeforeAudit
<1>3. /\ e \in DecisionId /\ Conflicts!Recorded(e) # {} /\ "committed" \notin Conflicts!Recorded(e)
  BY <1>2, <1>e, <1>t, Underway
<1>4. /\ "committed" \notin work.done
      /\ "curated_applied" \in Conflicts!Recorded(e) /\ "conflict_closed" \in Conflicts!Recorded(e)
      /\ "audit_appended" \in work.done <=> "audit_appended" \in Conflicts!Recorded(e)
      /\ curated = t.after /\ cases = t.casesAfter /\ Ruled(e)
  BY <1>1, <1>2, <1>e, <1>t DEF WorkInv
<1>5. "audit_appended" \notin Conflicts!Recorded(e) => Conflicts!Recorded(e) = {Conflicts!Phases[m] : m \in 1 .. 4 - 1}
  BY <1>3, <1>4, PhaseDue
<1>6. 4 \in 2 .. 5 /\ Conflicts!Phases[4] = "audit_appended"
  BY PhaseOrder
<1>7. /\ WorkspaceTypes' /\ JournalOrdered'
      /\ Conflicts!Recorded(e)' = Conflicts!Recorded(e) \cup {"audit_appended"}
      /\ \A f \in DecisionId : f # e => Conflicts!Recorded(f)' = Conflicts!Recorded(f)
      /\ \A f \in DecisionId : Conflicts!Recorded(f) # {} => Conflicts!Intent(f)' = Conflicts!Intent(f)
  <2>1. Conflicts!MarkPhase(Conflicts!Phases[4], "committed")
    BY <1>6
  <2> QED BY <2>1, <1>e, <1>3, <1>4, <1>5, <1>6, PhaseMarked
<1>8. WorkInv'
  <2>1. pc' \in Completing /\ pc' \notin Resting /\ pc' \notin BeforeClose /\ pc' \notin BeforeAudit
    BY <1>1 DEF Completing, Resting, BeforeClose, BeforeAudit
  <2>2. work'.event = e /\ work'.done = work.done /\ Conflicts!Intent(e)' = t
    BY <1>1, <1>3, <1>7, <1>e, <1>t
  <2>3. e \in Conflicts!Unfinished'
    BY <1>3, <1>7 DEF Conflicts!Unfinished
  <2>4. Ruled(e)'
    BY <1>1, <1>4 DEF Ruled
  <2> QED BY <2>1, <2>2, <2>3, <2>4, <1>1, <1>4, <1>7 DEF WorkInv
<1> QED BY <1>1, <1>2, <1>4, <1>7, <1>8, <1>e, <1>t, MarkKeeps

\* The decision is committed (_complete_resolution_transaction).
LEMMA CommitKeeps ==
  ASSUME ConflictsInv, Conflicts!MarkPhase("committed", "idle")
  PROVE  ConflictsInv' /\ Conflicts!Unfinished = {work.event} /\ Conflicts!Unfinished' = {}
         /\ curated = Conflicts!Intent(work.event).after /\ cases = Conflicts!Intent(work.event).casesAfter
         /\ Ruled(work.event)
         /\ \A f \in DecisionId : Conflicts!Recorded(f) = {} => Conflicts!Recorded(f)' = {}
<1> USE DEF ConflictsInv
<1>e. PICK e : e = work.event
  OBVIOUS
<1>t. PICK t : t = Conflicts!Intent(e)
  OBVIOUS
<1>1. /\ pc = "committed" /\ pc' = "idle"
      /\ UNCHANGED <<daily, curated, unkeyed, view, cases, decisions, work>>
  BY DEF Conflicts!MarkPhase
<1>2. pc \in Completing /\ pc \notin {"apply", "close"} /\ pc \notin BeforeClose /\ pc \notin BeforeAudit
  BY <1>1 DEF Completing, BeforeClose, BeforeAudit
<1>3. /\ e \in DecisionId /\ Conflicts!Recorded(e) # {} /\ "committed" \notin Conflicts!Recorded(e)
      /\ Conflicts!Unfinished = {e} /\ Prepared(e, t, daily.lines)
  BY <1>2, <1>e, <1>t, Underway
<1>4. /\ "committed" \notin work.done /\ "audit_appended" \in Conflicts!Recorded(e)
      /\ curated = t.after /\ cases = t.casesAfter /\ Ruled(e)
  BY <1>1, <1>2, <1>e, <1>t DEF WorkInv
<1>5. Conflicts!Recorded(e) = {Conflicts!Phases[m] : m \in 1 .. 5 - 1}
  BY <1>3, <1>4, PhaseDue
<1>6. 5 \in 2 .. 5 /\ Conflicts!Phases[5] = "committed"
  BY PhaseOrder
<1>7. /\ WorkspaceTypes' /\ JournalOrdered'
      /\ Conflicts!Recorded(e)' = Conflicts!Recorded(e) \cup {"committed"}
      /\ \A f \in DecisionId : f # e => Conflicts!Recorded(f)' = Conflicts!Recorded(f)
      /\ \A f \in DecisionId : Conflicts!Recorded(f) # {} => Conflicts!Intent(f)' = Conflicts!Intent(f)
  <2>1. Conflicts!MarkPhase(Conflicts!Phases[5], "idle")
    BY <1>6
  <2> QED BY <2>1, <1>e, <1>3, <1>4, <1>5, <1>6, PhaseMarked
<1>8. Conflicts!Unfinished' = {}
  <2> SUFFICES ASSUME NEW f \in DecisionId, f \in Conflicts!Unfinished' PROVE FALSE
    BY DEF Conflicts!Unfinished
  <2>1. Conflicts!Recorded(f)' # {} /\ "committed" \notin Conflicts!Recorded(f)'
    BY DEF Conflicts!Unfinished
  <2>2. f # e
    BY <2>1, <1>7
  <2>3. f \in Conflicts!Unfinished
    BY <2>1, <2>2, <1>7 DEF Conflicts!Unfinished
  <2> QED BY <2>2, <2>3, <1>3
<1>9. WorkInv'
  BY <1>1, <1>8 DEF WorkInv, Resting, Completing
<1>10. UnfinishedInv'
  BY <1>8 DEF UnfinishedInv
<1>11. \A f : Ruled(f) <=> Ruled(f)'
  BY <1>1 DEF Ruled
<1>12. DecidedInv'
  <2> SUFFICES ASSUME NEW f \in DecisionId, "committed" \in Conflicts!Recorded(f)'
               PROVE  /\ Conflicts!Intent(f)'.decision.event = f
                      /\ Stands(Conflicts!Intent(f)'.decision, cases', curated')
                      /\ Ruled(f)'
    BY DEF DecidedInv
  <2>1. CASE f = e
    <3>1. Conflicts!Intent(f)' = t
      BY <2>1, <1>3, <1>7, <1>t
    <3>2. t.decision.event = e /\ Stands(t.decision, t.casesAfter, t.after)
      BY <1>3 DEF Prepared
    <3> QED BY <3>1, <3>2, <2>1, <1>1, <1>4, <1>11
  <2>2. CASE f # e
    <3>1. "committed" \in Conflicts!Recorded(f)
      BY <2>2, <1>7
    <3>2. Conflicts!Intent(f)' = Conflicts!Intent(f)
      BY <3>1, <1>7
    <3>3. /\ Conflicts!Intent(f).decision.event = f
          /\ Stands(Conflicts!Intent(f).decision, cases, curated)
          /\ Ruled(f)
      BY <3>1 DEF DecidedInv
    <3> QED BY <3>2, <3>3, <1>1, <1>11
  <2> QED BY <2>1, <2>2
<1>13. Conflicts!DecisionsReadable' /\ Conflicts!ViewNotAhead' /\ Consistent(cases, curated, daily.lines)'
  BY <1>1 DEF Conflicts!DecisionsReadable, Conflicts!ViewNotAhead
<1> QED BY <1>3, <1>4, <1>7, <1>8, <1>9, <1>10, <1>12, <1>13, <1>e, <1>t

\* The decision is added to the audit log, unless it is there (_ensure_adjudication).
LEMMA AppendKeeps ==
  ASSUME ConflictsInv, Conflicts!AppendDecision
  PROVE  /\ ConflictsInv' /\ Conflicts!Unfinished = {work.event}
         /\ {decisions'.lines[i].event : i \in DOMAIN decisions'.lines} \cup {work.event} =
              {decisions.lines[i].event : i \in DOMAIN decisions.lines} \cup {work.event}
<1> USE DEF ConflictsInv
<1>e. PICK e : e = work.event
  OBVIOUS
<1>t. PICK t : t = Conflicts!Intent(e)
  OBVIOUS
<1> DEFINE L == decisions.lines
           same == {i \in DOMAIN L : L[i].event = e}
           E(K) == {K[i].event : i \in DOMAIN K}
<1>1. pc = "audit" /\ UNCHANGED <<daily, today, curated, unkeyed, view, cases, journal, work>>
  BY DEF Conflicts!AppendDecision
<1>2. pc \in Completing /\ pc \notin {"apply", "close", "committed"} /\ pc \notin BeforeClose /\ pc \notin BeforeAudit
  BY <1>1 DEF Completing, BeforeClose, BeforeAudit
<1>3. /\ e \in DecisionId /\ Conflicts!Recorded(e) # {} /\ "committed" \notin Conflicts!Recorded(e)
      /\ Conflicts!Unfinished = {e} /\ Prepared(e, t, daily.lines) /\ t.decision \in DecisionLine
      /\ unkeyed = t.unkeyed /\ curated \in {t.before, t.after} /\ cases \in {t.casesBefore, t.casesAfter}
      /\ "audit_appended" \in Conflicts!Recorded(e) => Ruled(e)
      /\ \A i \in DOMAIN L : L[i].event = e => L[i] = t.decision
  BY <1>2, <1>e, <1>t, Underway
<1>4. /\ "committed" \notin work.done
      /\ "curated_applied" \in Conflicts!Recorded(e) /\ "conflict_closed" \in Conflicts!Recorded(e)
      /\ "audit_appended" \in work.done <=> "audit_appended" \in Conflicts!Recorded(e)
      /\ curated = t.after /\ cases = t.casesAfter
  BY <1>1, <1>2, <1>e, <1>t DEF WorkInv
<1>5. t.decision.event = e
  BY <1>3 DEF Prepared
<1>6. decisions \in LogOf(DecisionLine) /\ ~ decisions.corrupt /\ L \in Seq(DecisionLine)
  BY DEF WorkspaceTypes, LogOf
<1>7. /\ pc' = "audit_appended"
      /\ decisions' = IF same # {} THEN decisions
                      ELSE Conflicts!AppendTo(Conflicts!DiscardTail(decisions), t.decision)
  BY <1>3, <1>e, <1>t DEF Conflicts!AppendDecision
<1>8. /\ decisions' \in LogOf(DecisionLine) /\ ~ decisions'.corrupt
      /\ (same # {} /\ decisions'.lines = L) \/ (same = {} /\ decisions'.lines = Append(L, t.decision))
  <2>1. CASE same # {}
    BY <2>1, <1>6, <1>7
  <2>2. CASE same = {}
    BY <2>2, <1>3, <1>6, <1>7, AppendedLine
  <2> QED BY <2>1, <2>2
<1>9. PICK K : K = decisions'.lines
  OBVIOUS
<1>10. /\ \A i \in DOMAIN K : K[i].event = e => K[i] = t.decision
       /\ \A i, j \in DOMAIN K : i # j => K[i].event # K[j].event
       /\ \E i \in DOMAIN K : K[i].event = e
       /\ \A i \in DOMAIN L : i \in DOMAIN K /\ K[i] = L[i]
       /\ \A i \in DOMAIN K \ DOMAIN L : K[i].event = e
  <2>1. \A i, j \in DOMAIN L : i # j => L[i].event # L[j].event
    BY DEF Conflicts!DecisionsReadable
  <2>2. CASE same # {} /\ K = L
    BY <2>1, <2>2, <1>3
  <2>3. CASE same = {} /\ K = Append(L, t.decision)
    <3> DEFINE n == Len(L)
    <3>1. n \in Nat /\ Len(K) = n + 1 /\ (\A i \in 1 .. n : K[i] = L[i]) /\ K[n + 1] = t.decision
          /\ K \in Seq(DecisionLine)
      BY <2>3, <1>3, <1>6, AppendProperties
    <3>2. DOMAIN L = 1 .. n /\ DOMAIN K = 1 .. n + 1
      BY <1>6, <3>1
    <3> HIDE DEF n
    <3>3. DOMAIN K = DOMAIN L \cup {n + 1} /\ n + 1 \notin DOMAIN L
      BY <3>1, <3>2
    <3>4. (\A i \in DOMAIN L : K[i] = L[i] /\ L[i].event # e) /\ K[n + 1] = t.decision
      BY <2>3, <3>1, <3>2
    <3> HIDE DEF L
    <3> QED BY <2>1, <3>3, <3>4, <1>5
  <2> QED BY <2>2, <2>3, <1>8, <1>9
<1>11. WorkspaceTypes'
  BY <1>1, <1>8 DEF WorkspaceTypes
<1>12. Conflicts!DecisionsReadable'
  BY <1>8, <1>9, <1>10 DEF Conflicts!DecisionsReadable
<1>13. \A f : Ruled(f) => Ruled(f)'
  BY <1>9, <1>10 DEF Ruled
<1>14. Ruled(e)'
  BY <1>9, <1>10 DEF Ruled
<1>15. /\ JournalOrdered'
       /\ \A f : Conflicts!Recorded(f)' = Conflicts!Recorded(f)
       /\ \A f : Conflicts!Intent(f)' = Conflicts!Intent(f)
       /\ Conflicts!Unfinished' = Conflicts!Unfinished
  BY <1>1, JournalStays
<1>16. DecidedInv'
  BY <1>1, <1>13, <1>15, DecidedKept
<1>17. UnfinishedInv'
  <2>1. Conflicts!Intent(e)' = t /\ Conflicts!Recorded(e)' = Conflicts!Recorded(e) /\ Conflicts!Unfinished' = {e}
    BY <1>3, <1>15, <1>t
  <2> QED BY <2>1, <1>1, <1>3, <1>4, <1>9, <1>10, <1>14 DEF UnfinishedInv
<1>18. WorkInv'
  <2>1. pc' \in Completing /\ pc' \notin Resting /\ pc' \notin BeforeClose /\ pc' \notin BeforeAudit
    BY <1>7 DEF Completing, Resting, BeforeClose, BeforeAudit
  <2>2. work'.event = e /\ work'.done = work.done /\ Conflicts!Intent(e)' = t
        /\ Conflicts!Recorded(e)' = Conflicts!Recorded(e) /\ e \in Conflicts!Unfinished'
    BY <1>1, <1>3, <1>15, <1>e, <1>t
  <2> QED BY <2>1, <2>2, <1>1, <1>4, <1>7, <1>14 DEF WorkInv
<1>19. Conflicts!ViewNotAhead' /\ Consistent(cases, curated, daily.lines)'
  BY <1>1 DEF Conflicts!ViewNotAhead
<1>20. E(K) \cup {e} = E(L) \cup {e}
  <2>1. \A x \in E(L) : x \in E(K)
    BY <1>10
  <2>2. \A x \in E(K) : x \in E(L) \cup {e}
    BY <1>10
  <2> HIDE DEF E
  <2> QED BY <2>1, <2>2
<1> QED BY <1>3, <1>9, <1>11, <1>12, <1>15, <1>16, <1>17, <1>18, <1>19, <1>20, <1>e

-----------------------------------------------------------------------------
(* Workspace memory: so do crashes and restarts *)

\* The process dies; what it was appending is not a line (a torn write).
LEMMA CrashKeeps ==
  ASSUME ConflictsInv, Conflicts!Crash
  PROVE  /\ ConflictsInv'
         /\ UNCHANGED <<curated, cases>> /\ decisions'.lines = decisions.lines
         /\ journal'.lines = journal.lines /\ journal'.corrupt = journal.corrupt
<1> USE DEF ConflictsInv
<1>1. /\ UNCHANGED <<daily, today, curated, unkeyed, view, cases>> /\ pc' = "down"
      /\ journal' \in {journal, [journal EXCEPT !.fragment = TRUE]}
      /\ decisions' \in {decisions, [decisions EXCEPT !.fragment = TRUE]}
  BY DEF Conflicts!Crash
<1>2. journal \in LogOf(JournalLine) /\ decisions \in LogOf(DecisionLine)
  BY DEF WorkspaceTypes
<1>3. /\ journal' \in LogOf(JournalLine)
      /\ journal'.lines = journal.lines /\ journal'.corrupt = journal.corrupt
  BY <1>1, <1>2 DEF LogOf
<1>4. /\ decisions' \in LogOf(DecisionLine)
      /\ decisions'.lines = decisions.lines /\ decisions'.corrupt = decisions.corrupt
  BY <1>1, <1>2 DEF LogOf
<1>5. WorkspaceTypes'
  BY <1>1, <1>3, <1>4 DEF WorkspaceTypes
<1>6. /\ JournalOrdered'
      /\ \A f : Conflicts!Recorded(f)' = Conflicts!Recorded(f)
      /\ \A f : Conflicts!Intent(f)' = Conflicts!Intent(f)
      /\ Conflicts!Unfinished' = Conflicts!Unfinished
  BY <1>3, JournalKept
<1>7. \A f : Ruled(f) <=> Ruled(f)'
  BY <1>4 DEF Ruled
<1>8. DecidedInv'
  BY <1>1, <1>6, <1>7, DecidedKept
<1>9. UnfinishedInv'
  BY <1>1, <1>4, <1>6, <1>7 DEF UnfinishedInv
<1>10. WorkInv'
  BY <1>1 DEF WorkInv, Resting, Completing
<1>11. Conflicts!DecisionsReadable'
  BY <1>4 DEF Conflicts!DecisionsReadable
<1>12. Conflicts!ViewNotAhead' /\ Consistent(cases, curated, daily.lines)'
  BY <1>1 DEF Conflicts!ViewNotAhead
<1> QED BY <1>1, <1>3, <1>4, <1>5, <1>6, <1>8, <1>9, <1>10, <1>11, <1>12

\* A new process takes up what was prepared (_recover_resolution_transactions).
LEMMA StartKeeps ==
  ASSUME ConflictsInv, Conflicts!Start
  PROVE  ConflictsInv' /\ UNCHANGED <<curated, cases, decisions, journal>>
<1> USE DEF ConflictsInv
<1>1. UNCHANGED <<daily, today, curated, unkeyed, cases, decisions, journal, view>>
  BY DEF Conflicts!Start, Conflicts!files
<1>2. /\ \A f : Conflicts!Recorded(f)' = Conflicts!Recorded(f)
      /\ \A f : Conflicts!Intent(f)' = Conflicts!Intent(f)
      /\ Conflicts!Unfinished' = Conflicts!Unfinished
  BY <1>1, JournalStays
<1>3. Conflicts!JournalReadable
  BY DEF JournalOrdered
<1>4. WorkInv'
  <2>1. CASE Conflicts!Unfinished # {}
    <3>1. PICK e \in Conflicts!Unfinished : work' = [event |-> e, done |-> Conflicts!Recorded(e)]
      BY <2>1, <1>3 DEF Conflicts!Start
    <3>2. pc' = "apply"
      BY <2>1, <1>3 DEF Conflicts!Start
    <3>3. pc' \in Completing /\ pc' \notin Resting /\ pc' \in BeforeClose /\ pc' \in BeforeAudit
      BY <3>2 DEF Completing, Resting, BeforeClose, BeforeAudit
    <3>4. /\ e \in Conflicts!Unfinished' /\ work'.event = e
          /\ work'.done = Conflicts!Recorded(e) /\ Conflicts!Recorded(e)' = Conflicts!Recorded(e)
          /\ "committed" \notin Conflicts!Recorded(e)
      BY <3>1, <1>2 DEF Conflicts!Unfinished
    <3> QED BY <3>2, <3>3, <3>4 DEF WorkInv
  <2>2. CASE Conflicts!Unfinished = {}
    <3>1. pc' = "idle"
      BY <2>2, <1>3 DEF Conflicts!Start
    <3> QED BY <3>1, <2>2, <1>2 DEF WorkInv, Resting, Completing
  <2> QED BY <2>1, <2>2
<1> QED BY <1>1, <1>4, FilesStay

-----------------------------------------------------------------------------
(* Workspace memory: and so does a decision *)

\* A case that waits is about facts of its own values (_validate_conflict_candidate).
LEMMA OpenCase ==
  ASSUME WorkspaceTypes, Consistent(cases, curated, daily.lines),
         NEW n \in DOMAIN cases, NEW c \in cases[n].candidates, cases[n].active = Conflicts!Current
  PROVE  /\ cases[n] \in ConflictCase /\ c \in Contender /\ c.evidence # {} /\ c.value \in Statement
         /\ Conflicts!CaseReadable(cases[n]) /\ Grounded(cases[n], curated, daily.lines)
         /\ Conflicts!Current = Len(curated) /\ Len(curated) \in Nat
         /\ c.incumbent => Len(curated) # 0 /\ c.value = curated[Len(curated)].value
         /\ ~ c.incumbent => /\ \A i \in c.evidence : i \in DOMAIN daily.lines /\ daily.lines[i].value = c.value
                             /\ \A m \in DOMAIN curated : curated[m].evidence \cap c.evidence = {}
<1>1. cases \in Seq(ConflictCase) /\ curated \in Seq(RevisionOf)
  BY DEF WorkspaceTypes
<1>2. cases[n] \in ConflictCase
  BY <1>1
<1>3. c \in Contender
  BY <1>2 DEF ConflictCase
<1>4. Conflicts!CaseReadable(cases[n]) /\ Grounded(cases[n], curated, daily.lines)
  BY DEF Consistent, Conflicts!ConflictsReadable
<1>5. c.evidence # {}
  BY <1>4 DEF Conflicts!CaseReadable, Conflicts!CandidatesReadable
<1>6. Conflicts!Current = Len(curated) /\ Len(curated) \in Nat
  BY <1>1 DEF Conflicts!Current
<1>7. c.value \in Statement
  BY <1>3 DEF Contender
<1>8. /\ c.incumbent => Len(curated) # 0 /\ c.value = curated[Len(curated)].value
      /\ ~ c.incumbent => /\ \A i \in c.evidence : i \in DOMAIN daily.lines /\ daily.lines[i].value = c.value
                          /\ \A m \in DOMAIN curated : curated[m].evidence \cap c.evidence = {}
  BY <1>4, <1>6 DEF Grounded
<1> QED BY <1>2, <1>3, <1>4, <1>5, <1>6, <1>7, <1>8

\* The revisions a decision leaves (resolve_conflict).
LEMMA ResolvedRevisions ==
  ASSUME NEW c \in Contender, curated \in Seq(RevisionOf), Backed(curated, daily.lines),
         c.evidence # {},
         c.incumbent => Len(curated) # 0 /\ c.value = curated[Len(curated)].value,
         ~ c.incumbent => /\ \A i \in c.evidence : i \in DOMAIN daily.lines /\ daily.lines[i].value = c.value
                          /\ \A m \in DOMAIN curated : curated[m].evidence \cap c.evidence = {},
         NEW after, NEW result,
         after = IF c.incumbent THEN curated ELSE Append(curated, Conflicts!Revision(c.value, c.evidence, c.last)),
         result = IF c.incumbent THEN Len(curated) ELSE Len(curated) + 1
  PROVE  /\ after \in Seq(RevisionOf) /\ Grows(curated, after) /\ Backed(after, daily.lines)
         /\ result \in DOMAIN after /\ after[result].value = c.value /\ result = Len(after)
<1> DEFINE r == Conflicts!Revision(c.value, c.evidence, c.last)
           L == Len(curated)
<1>1. L \in Nat /\ DOMAIN curated = 1 .. L
  OBVIOUS
<1>2. CASE c.incumbent
  <2>1. after = curated /\ result = L /\ L # 0
    BY <1>2
  <2>2. Grows(curated, curated)
    BY DEF Grows
  <2>3. result \in DOMAIN curated
    BY <2>1, <1>1
  <2> QED BY <2>1, <2>2, <2>3, <1>2
<1>3. CASE ~ c.incumbent
  <2>1. r \in RevisionOf /\ r.value = c.value /\ r.evidence = c.evidence
    BY DEF Conflicts!Revision, RevisionOf, Contender
  <2>2. after = Append(curated, r) /\ result = L + 1
    BY <1>3
  <2> HIDE DEF r
  <2>3. /\ after \in Seq(RevisionOf) /\ Len(after) = L + 1
        /\ \A i \in 1 .. L : after[i] = curated[i]
        /\ after[L + 1] = r
    BY <2>1, <2>2, AppendProperties
  <2> HIDE DEF L
  <2>4. DOMAIN after = DOMAIN curated \cup {L + 1} /\ DOMAIN after = 1 .. L + 1
    BY <1>1, <2>3
  <2>5. Grows(curated, after)
    BY <1>1, <2>3 DEF Grows, L
  <2>6. Backed(after, daily.lines)
    <3>1. ASSUME NEW n \in DOMAIN after
          PROVE  after[n].evidence # {} /\ \A i \in after[n].evidence : i \in DOMAIN daily.lines /\ daily.lines[i].value = after[n].value
      <4>1. CASE n \in DOMAIN curated
        BY <4>1, <1>1, <2>3 DEF Backed
      <4>2. CASE n = L + 1
        BY <4>2, <1>3, <2>1, <2>3
      <4> QED BY <4>1, <4>2, <2>4
    <3>2. ASSUME NEW m \in DOMAIN after, NEW n \in DOMAIN after, m # n
          PROVE  after[m].evidence \cap after[n].evidence = {}
      <4>1. CASE m \in DOMAIN curated /\ n \in DOMAIN curated
        BY <4>1, <3>2, <1>1, <2>3 DEF Backed
      <4>2. CASE m = L + 1 /\ n \in DOMAIN curated
        BY <4>2, <1>1, <1>3, <2>1, <2>3
      <4>3. CASE n = L + 1 /\ m \in DOMAIN curated
        BY <4>3, <1>1, <1>3, <2>1, <2>3
      <4> QED BY <4>1, <4>2, <4>3, <3>2, <2>4
    <3> QED BY <3>1, <3>2 DEF Backed
  <2>7. result \in DOMAIN after /\ after[result].value = c.value
    BY <2>1, <2>2, <2>3, <2>4
  <2> QED BY <2>2, <2>3, <2>5, <2>6, <2>7
<1> QED BY <1>2, <1>3

Decided(cs, n, c, result, e) == [cs EXCEPT ![n] = Conflicts!Resolved(@, c, result, e)]

\* The queue a decision leaves is as readable and as well founded as it was (resolve_conflict).
LEMMA ResolvedCases ==
  ASSUME cases \in Seq(ConflictCase), NEW n \in DOMAIN cases, NEW c \in cases[n].candidates, c \in Contender,
         NEW e \in DecisionId, NEW result \in Nat, result # 0,
         cases[n].status = "open", NEW after, Consistent(cases, after, daily.lines),
         NEW casesAfter, casesAfter = Decided(cases, n, c, result, e)
  PROVE  /\ casesAfter \in Seq(ConflictCase) /\ Len(casesAfter) = Len(cases)
         /\ casesAfter[n] = Conflicts!Resolved(cases[n], c, result, e)
         /\ \A m \in DOMAIN cases : m # n => casesAfter[m] = cases[m]
         /\ Consistent(casesAfter, after, daily.lines)
<1> DEFINE k == Conflicts!Resolved(cases[n], c, result, e)
<1>1. cases[n] \in ConflictCase /\ Conflicts!CaseReadable(cases[n]) /\ Grounded(cases[n], after, daily.lines)
  BY DEF Consistent, Conflicts!ConflictsReadable
<1>2. /\ k \in ConflictCase /\ k.status = "resolved" /\ k.active = cases[n].active
      /\ k.candidates = cases[n].candidates /\ k.observed = cases[n].observed
      /\ k.selected = c.value /\ k.result = result /\ k.event = e
  BY <1>1, ResolvedCase
<1>3. casesAfter = [cases EXCEPT ![n] = k]
  BY DEF Decided
<1> HIDE DEF k
<1>4. /\ casesAfter \in Seq(ConflictCase) /\ Len(casesAfter) = Len(cases)
      /\ \A m \in DOMAIN cases : casesAfter[m] = IF m = n THEN k ELSE cases[m]
  BY <1>2, <1>3, ExceptSeq
<1>5. DOMAIN casesAfter = DOMAIN cases
  BY <1>4
<1>6. Conflicts!CaseReadable(k)
  <2>1. Conflicts!CandidatesReadable(k)
    BY <1>1, <1>2 DEF Conflicts!CaseReadable, Conflicts!CandidatesReadable
  <2>2. k.event # None /\ k.selected \in {x.value : x \in k.candidates}
    BY <1>2, ConflictsAssumption
  <2> QED BY <2>1, <2>2, <1>2 DEF Conflicts!CaseReadable
<1>7. Grounded(k, after, daily.lines)
  BY <1>1, <1>2 DEF Grounded
<1>8. Conflicts!Fingerprint(k) = Conflicts!Fingerprint(cases[n])
  BY <1>2 DEF Conflicts!Fingerprint
<1>9. ASSUME NEW m \in DOMAIN casesAfter
      PROVE  /\ Conflicts!CaseReadable(casesAfter[m]) /\ Grounded(casesAfter[m], after, daily.lines)
             /\ Conflicts!Fingerprint(casesAfter[m]) = Conflicts!Fingerprint(cases[m])
  <2>1. CASE m = n
    BY <2>1, <1>4, <1>6, <1>7, <1>8
  <2>2. CASE m # n
    <3>1. casesAfter[m] = cases[m]
      BY <2>2, <1>4, <1>5
    <3> QED BY <3>1, <1>5 DEF Consistent, Conflicts!ConflictsReadable
  <2> QED BY <2>1, <2>2
<1>10. Cardinality({m \in DOMAIN casesAfter : casesAfter[m].status = "open"}) <= 1
  <2> DEFINE I == {m \in DOMAIN casesAfter : casesAfter[m].status = "open"}
             J == {m \in DOMAIN cases : cases[m].status = "open"}
  <2>1. I \subseteq J
    BY <1>2, <1>4, <1>5
  <2>2. IsFiniteSet(J)
    <3>1. IsFiniteSet(1 .. Len(cases)) /\ DOMAIN cases = 1 .. Len(cases) /\ Len(cases) \in Nat
      BY FS_Interval
    <3> QED BY <3>1, FS_Subset
  <2>3. Cardinality(J) <= 1
    BY Counted DEF Consistent, Conflicts!ConflictsReadable
  <2> HIDE DEF I, J
  <2>4. Cardinality(I) <= Cardinality(J) /\ Cardinality(I) \in Nat /\ Cardinality(J) \in Nat
    BY <2>1, <2>2, FS_Subset, FS_CardinalityType
  <2>5. Cardinality(I) <= 1
    BY <2>3, <2>4
  <2> QED BY <2>5 DEF I
<1>11. ASSUME NEW l \in DOMAIN casesAfter, NEW m \in DOMAIN casesAfter, l # m
       PROVE  Conflicts!Fingerprint(casesAfter[l]) # Conflicts!Fingerprint(casesAfter[m])
  <2>1. Conflicts!Fingerprint(cases[l]) # Conflicts!Fingerprint(cases[m])
    BY <1>5, <1>11 DEF Consistent, Conflicts!ConflictsReadable
  <2> QED BY <2>1, <1>9
<1>12. Conflicts!ConflictsReadable(casesAfter)
  BY <1>9, <1>10, <1>11, Counted DEF Conflicts!ConflictsReadable
<1>13. Consistent(casesAfter, after, daily.lines)
  BY <1>9, <1>12 DEF Consistent
<1> QED BY <1>4, <1>13 DEF k

\* What a decision on an open case would change fits the files (resolve_conflict).
LEMMA IntentFits ==
  ASSUME ConflictsInv, NEW n \in DOMAIN cases, NEW e \in DecisionId, NEW c \in cases[n].candidates,
         cases[n].status = "open", cases[n].active = Len(curated),
         NEW t, t = Conflicts!Resolution(n, c, e)
  PROVE  /\ Prepared(e, t, daily.lines)
         /\ t.before = curated /\ t.unkeyed = unkeyed /\ t.casesBefore = cases
         /\ t.decision.event = e /\ t.decision.revision = n
         /\ \A m \in DOMAIN t.after : t.after[m].evidence \subseteq DOMAIN daily.lines
         /\ cases[n] \in ConflictCase
<1> USE DEF ConflictsInv
<1>1. cases \in Seq(ConflictCase) /\ curated \in Seq(RevisionOf) /\ unkeyed \in [Statement -> SUBSET Nat]
      /\ daily.lines \in Seq(FactLine)
  BY DEF WorkspaceTypes, LogOf
<1>2. cases[n].active = Conflicts!Current
  BY DEF Conflicts!Current
<1>3. /\ cases[n] \in ConflictCase /\ c \in Contender /\ c.evidence # {} /\ c.value \in Statement
      /\ Conflicts!Current = Len(curated) /\ Len(curated) \in Nat
      /\ c.incumbent => Len(curated) # 0 /\ c.value = curated[Len(curated)].value
      /\ ~ c.incumbent => /\ \A i \in c.evidence : i \in DOMAIN daily.lines /\ daily.lines[i].value = c.value
                          /\ \A m \in DOMAIN curated : curated[m].evidence \cap c.evidence = {}
  BY <1>2, OpenCase
<1>4. PICK result : result = IF c.incumbent THEN Len(curated) ELSE Len(curated) + 1
  OBVIOUS
<1>5. PICK after : after = IF c.incumbent THEN curated
                           ELSE Append(curated, Conflicts!Revision(c.value, c.evidence, c.last))
  OBVIOUS
<1>6. /\ after \in Seq(RevisionOf) /\ Grows(curated, after) /\ Backed(after, daily.lines)
      /\ result \in DOMAIN after /\ after[result].value = c.value
  <2>1. Backed(curated, daily.lines)
    BY DEF Consistent
  <2> QED BY <2>1, <1>1, <1>3, <1>4, <1>5, ResolvedRevisions, Zenon
<1>7. result \in Nat /\ result # 0
  BY <1>6
<1>8. Consistent(cases, after, daily.lines)
  BY <1>1, <1>6, ConsistentGrows
<1>9. PICK casesAfter : casesAfter = Decided(cases, n, c, result, e)
  OBVIOUS
<1>10. /\ casesAfter \in Seq(ConflictCase) /\ Len(casesAfter) = Len(cases)
       /\ casesAfter[n] = Conflicts!Resolved(cases[n], c, result, e)
       /\ \A m \in DOMAIN cases : m # n => casesAfter[m] = cases[m]
       /\ Consistent(casesAfter, after, daily.lines)
  <2>1. cases \in Seq(ConflictCase) /\ c \in Contender /\ cases[n].status = "open"
    BY <1>1, <1>3
  <2> QED BY <2>1, <1>7, <1>8, <1>9, ResolvedCases
<1>11. t = [before |-> curated, unkeyed |-> unkeyed, casesBefore |-> cases, after |-> after,
            casesAfter |-> casesAfter,
            decision |-> [event |-> e, revision |-> n, selected |-> c.value, result |-> result]]
  BY <1>3, <1>4, <1>5, <1>9 DEF Conflicts!Resolution, Decided
<1>12. n \in Nat /\ n \in DOMAIN casesAfter
  BY <1>1, <1>10
<1>13. /\ t.before = curated /\ t.unkeyed = unkeyed /\ t.casesBefore = cases /\ t.after = after
       /\ t.casesAfter = casesAfter /\ t.decision.event = e /\ t.decision.revision = n
       /\ t.decision.selected = c.value /\ t.decision.result = result
  BY <1>11
<1>14. t \in Transaction
  <2>1. [event |-> e, revision |-> n, selected |-> c.value, result |-> result] \in DecisionLine
    BY <1>3, <1>7, <1>12 DEF DecisionLine
  <2> QED BY <2>1, <1>1, <1>6, <1>10, <1>11 DEF Transaction
<1>15. Stands(t.decision, casesAfter, after)
  <2>1. /\ casesAfter[n].status = "resolved" /\ casesAfter[n].event = e /\ casesAfter[n].result = result
    BY <1>3, <1>7, <1>10, ResolvedCase
  <2> QED BY <2>1, <1>6, <1>12, <1>13 DEF Stands
<1>16. Prepared(e, t, daily.lines)
  <2>1. Grows(t.before, t.after) /\ Consistent(t.casesAfter, t.after, daily.lines) /\ Stands(t.decision, t.casesAfter, t.after)
    BY <1>6, <1>10, <1>13, <1>15
  <2>2. /\ Len(t.casesBefore) = Len(t.casesAfter)
        /\ t.casesBefore[t.decision.revision].status = "open"
        /\ \A m \in DOMAIN t.casesBefore : m # t.decision.revision => t.casesAfter[m] = t.casesBefore[m]
    BY <1>10, <1>13
  <2> QED BY <2>1, <2>2, <1>13, <1>14 DEF Prepared
<1>17. \A m \in DOMAIN t.after : t.after[m].evidence \subseteq DOMAIN daily.lines
  BY <1>6, <1>13 DEF Backed
<1> QED BY <1>3, <1>13, <1>16, <1>17

\* What a human decides is checked against what is there (resolve_conflict).
LEMMA ResolveKeeps ==
  ASSUME ConflictsInv, NEW n \in DOMAIN cases, NEW e \in DecisionId, NEW c \in cases[n].candidates,
         Conflicts!Resolve(n, c, e)
  PROVE  ConflictsInv' /\ UNCHANGED <<curated, cases, decisions, journal>>
<1> USE DEF ConflictsInv
<1>t. PICK t : t = Conflicts!Resolution(n, c, e)
  OBVIOUS
<1>1. /\ pc = "idle" /\ pc' = "prepare" /\ Conflicts!Fresh(cases[n]) /\ cases[n].status = "open"
      /\ \A i \in DOMAIN decisions.lines : decisions.lines[i].event # e
      /\ work' = [event |-> e, intent |-> t, read |-> Len(daily.lines)]
      /\ UNCHANGED <<daily, today, curated, unkeyed, view, cases, decisions, journal>>
  BY <1>t DEF Conflicts!Resolve, Conflicts!files
<1>2. cases[n].active = Len(curated) /\ \A i \in DOMAIN daily.lines : daily.lines[i].keyed => i \in cases[n].observed
  BY <1>1 DEF Conflicts!Fresh, Conflicts!Current, Conflicts!Ids, Conflicts!Fact
<1>3. \A m \in DOMAIN t.after : t.after[m].evidence \subseteq DOMAIN daily.lines
  BY <1>t, <1>1, <1>2, IntentFits
<1>4. Len(daily.lines) \in Nat /\ DOMAIN daily.lines = 1 .. Len(daily.lines)
  BY DEF WorkspaceTypes, LogOf
<1>5. work'.event = e /\ work'.intent = t /\ work'.read = Len(daily.lines)
  BY <1>1
<1>6. Conflicts!Resolution(n, c, e)' = t
  BY <1>t, <1>1 DEF Conflicts!Resolution, Conflicts!Current
<1>7. Intends(n, c)'
  BY <1>1, <1>2, <1>4, <1>5, <1>6 DEF Intends
<1>8. Conflicts!Unfinished' = {}
  BY <1>1, JournalStays DEF WorkInv, Resting
<1>9. WorkInv'
  <2>1. (work.event \in DecisionId /\ ~ Ruled(work.event))'
    BY <1>1, <1>5 DEF Ruled
  <2>2. \E m \in DOMAIN cases' : \E d \in cases'[m].candidates : Intends(m, d)'
    BY <1>1, <1>7
  <2>3. /\ work'.read \in Nat /\ work'.read <= Len(daily'.lines)
        /\ \A m \in DOMAIN work'.intent.after : work'.intent.after[m].evidence \subseteq 1 .. work'.read
    BY <1>1, <1>3, <1>4, <1>5
  <2>4. pc' = "prepare" /\ pc' \notin Resting /\ pc' \notin Completing
    BY <1>1 DEF Resting, Completing
  <2> QED BY <2>1, <2>2, <2>3, <2>4, <1>8 DEF WorkInv
<1> QED BY <1>1, <1>9, FilesStay

\* It is made when it is in the journal, whatever facts came since (_append_resolution_phase).
LEMMA PrepareKeeps ==
  ASSUME ConflictsInv, Conflicts!Prepare, NEW e, e = work.event
  PROVE  /\ ConflictsInv' /\ Conflicts!Unfinished = {} /\ Conflicts!Unfinished' = {e}
         /\ e \in DecisionId /\ Conflicts!Recorded(e) = {} /\ ~ Ruled(e)
         /\ \A f \in DecisionId : f # e => Conflicts!Recorded(f)' = Conflicts!Recorded(f)
         /\ Conflicts!Intent(e)' = work.intent
         /\ \E n \in DOMAIN cases : \E c \in cases[n].candidates : Intends(n, c)
         /\ UNCHANGED <<curated, cases, decisions>>
<1> USE DEF ConflictsInv
<1>t. PICK t : t = work.intent
  OBVIOUS
<1>1. /\ pc = "prepare" /\ pc' = "apply"
      /\ journal' = Conflicts!JournalAppended(e, "prepared", t)
      /\ work' = [event |-> e, done |-> {"prepared"}]
      /\ UNCHANGED <<daily, today, curated, unkeyed, view, cases, decisions>>
  BY <1>t DEF Conflicts!Prepare
<1>2. Conflicts!Unfinished = {} /\ e \in DecisionId /\ ~ Ruled(e)
      /\ \E n \in DOMAIN cases : \E c \in cases[n].candidates : Intends(n, c)
  BY <1>1 DEF WorkInv
<1>3. Conflicts!Recorded(e) = {}
  <2> SUFFICES ASSUME Conflicts!Recorded(e) # {} PROVE FALSE
    OBVIOUS
  <2>1. "committed" \in Conflicts!Recorded(e)
    BY <1>2 DEF Conflicts!Unfinished
  <2> QED BY <2>1, <1>2 DEF DecidedInv
<1>4. PICK n \in DOMAIN cases : \E c \in cases[n].candidates : Intends(n, c)
  BY <1>2
<1>5. PICK c \in cases[n].candidates : Intends(n, c)
  BY <1>4
<1>6. cases[n].status = "open" /\ cases[n].active = Len(curated) /\ t = Conflicts!Resolution(n, c, e)
  BY <1>t, <1>5 DEF Intends
<1>7. t.before = curated /\ t.unkeyed = unkeyed /\ t.casesBefore = cases /\ t.decision.event = e
  BY <1>2, <1>6, IntentFits
<1>8. Prepared(e, t, daily.lines)
  BY <1>2, <1>6, IntentFits
<1>9. t \in Transaction
  BY <1>8 DEF Prepared
<1>10. /\ journal' \in LogOf(JournalLine) /\ ~ journal'.corrupt /\ JournalOrdered'
       /\ Conflicts!Recorded(e)' = {"prepared"}
       /\ \A f \in DecisionId : f # e => Conflicts!Recorded(f)' = Conflicts!Recorded(f)
       /\ \A f \in DecisionId : Conflicts!Recorded(f) # {} => Conflicts!Intent(f)' = Conflicts!Intent(f)
       /\ Conflicts!Intent(e)' = t
  <2>1. 1 \in 1 .. 5 /\ Conflicts!Phases[1] = "prepared" /\ {Conflicts!Phases[m] : m \in 1 .. 1 - 1} = {}
    BY PhaseOrder, PhasesBefore
  <2>2. journal' = Conflicts!JournalAppended(e, Conflicts!Phases[1], t)
    BY <2>1, <1>1
  <2>3. Conflicts!Recorded(e) = {Conflicts!Phases[m] : m \in 1 .. 1 - 1}
    BY <2>1, <1>3
  <2>4. /\ journal' \in LogOf(JournalLine) /\ ~ journal'.corrupt /\ JournalOrdered'
        /\ Conflicts!Recorded(e)' = Conflicts!Recorded(e) \cup {Conflicts!Phases[1]}
        /\ \A f \in DecisionId : f # e => Conflicts!Recorded(f)' = Conflicts!Recorded(f)
        /\ \A f \in DecisionId : Conflicts!Recorded(f) # {} => Conflicts!Intent(f)' = Conflicts!Intent(f)
        /\ Conflicts!Intent(e)' = t
    BY <2>1, <2>2, <2>3, <1>2, <1>9, JournalStep
  <2> QED BY <2>1, <2>4, <1>3
<1>11. Conflicts!Unfinished' = {e}
  <2>1. \A f \in DecisionId : f # e => (f \in Conflicts!Unfinished' <=> f \in Conflicts!Unfinished)
    BY <1>10 DEF Conflicts!Unfinished
  <2>2. e \in Conflicts!Unfinished'
    BY <1>2, <1>10 DEF Conflicts!Unfinished
  <2>3. Conflicts!Unfinished' \subseteq DecisionId
    BY DEF Conflicts!Unfinished
  <2> QED BY <2>1, <2>2, <2>3, <1>2
<1>12. WorkspaceTypes'
  BY <1>1, <1>10 DEF WorkspaceTypes
<1>13. \A f : Ruled(f) <=> Ruled(f)'
  BY <1>1 DEF Ruled
<1>14. DecidedInv'
  <2> SUFFICES ASSUME NEW f \in DecisionId, "committed" \in Conflicts!Recorded(f)'
               PROVE  /\ Conflicts!Intent(f)'.decision.event = f
                      /\ Stands(Conflicts!Intent(f)'.decision, cases', curated')
                      /\ Ruled(f)'
    BY DEF DecidedInv
  <2>1. f # e
    BY <1>10
  <2>2. "committed" \in Conflicts!Recorded(f) /\ Conflicts!Intent(f)' = Conflicts!Intent(f)
    BY <2>1, <1>10
  <2>3. /\ Conflicts!Intent(f).decision.event = f
        /\ Stands(Conflicts!Intent(f).decision, cases, curated)
        /\ Ruled(f)
    BY <2>2 DEF DecidedInv
  <2> QED BY <2>2, <2>3, <1>1, <1>13
<1>15. UnfinishedInv'
  <2>1. /\ Prepared(e, t, daily'.lines) /\ unkeyed' = t.unkeyed
        /\ curated' = t.before /\ cases' = t.casesBefore
        /\ \A i \in DOMAIN decisions'.lines : decisions'.lines[i].event # e
    BY <1>1, <1>2, <1>7, <1>8 DEF Ruled
  <2> QED BY <2>1, <1>10, <1>11 DEF UnfinishedInv
<1>16. WorkInv'
  <2>1. pc' \in Completing /\ pc' \notin Resting /\ pc' \in BeforeClose /\ pc' \in BeforeAudit
    BY <1>1 DEF Completing, Resting, BeforeClose, BeforeAudit
  <2>2. work'.event = e /\ work'.done = {"prepared"}
    BY <1>1
  <2> QED BY <2>1, <2>2, <1>1, <1>10, <1>11 DEF WorkInv
<1>17. Conflicts!DecisionsReadable' /\ Conflicts!ViewNotAhead' /\ Consistent(cases, curated, daily.lines)'
  BY <1>1 DEF Conflicts!DecisionsReadable, Conflicts!ViewNotAhead
<1> QED BY <1>1, <1>2, <1>3, <1>10, <1>11, <1>12, <1>14, <1>15, <1>16, <1>17, <1>t

-----------------------------------------------------------------------------
(* Workspace memory: the invariant *)

\* An empty workspace.
LEMMA ConflictsInit ==
  ASSUME Conflicts!Init
  PROVE  ConflictsInv
<1> USE DEF Conflicts!Init, Conflicts!EmptyLog
<1>0. journal.lines = <<>> /\ Len(journal.lines) = 0 /\ DOMAIN journal.lines = {} /\ decisions.lines = <<>>
      /\ daily.lines = <<>> /\ DOMAIN decisions.lines = {} /\ ~ journal.corrupt
  OBVIOUS
<1>1. \A e : Conflicts!Recorded(e) = {}
  BY <1>0 DEF Conflicts!Recorded, Conflicts!RecordedBefore
<1>2. Conflicts!Unfinished = {}
  BY <1>1 DEF Conflicts!Unfinished
<1>3. WorkspaceTypes
  BY DEF WorkspaceTypes, LogOf
<1>4. Consistent(cases, curated, daily.lines)
  <2>1. {n \in DOMAIN cases : cases[n].status = "open"} = {}
    OBVIOUS
  <2>2. Cardinality({n \in DOMAIN cases : cases[n].status = "open"}) = 0
    BY <2>1, FS_EmptySet
  <2>3. Conflicts!ConflictsReadable(cases)
    <3> DEFINE I == Cardinality({n \in DOMAIN cases : cases[n].status = "open"})
    <3>1. I <= 1
      BY <2>2
    <3> HIDE DEF I
    <3> QED BY <3>1, Counted DEF Conflicts!ConflictsReadable, I
  <2> QED BY <2>3 DEF Consistent, Backed
<1>5. JournalOrdered
  <2>1. Conflicts!JournalReadable
    BY <1>0 DEF Conflicts!JournalReadable
  <2> QED BY <1>1, <2>1 DEF JournalOrdered
<1>6. DecidedInv /\ UnfinishedInv /\ WorkInv
  BY <1>1, <1>2 DEF DecidedInv, UnfinishedInv, WorkInv, Resting, Completing
<1>7. Conflicts!DecisionsReadable /\ Conflicts!ViewNotAhead
  BY DEF Conflicts!DecisionsReadable, Conflicts!ViewNotAhead
<1> QED BY <1>3, <1>4, <1>5, <1>6, <1>7 DEF ConflictsInv

\* Each step keeps the files consistent with the journal.
LEMMA ConflictsNext ==
  ASSUME ConflictsInv, Conflicts!Next
  PROVE  ConflictsInv'
<1>1. ASSUME NEW v \in Statement, NEW n \in Level, NEW k \in Keyed, Conflicts!AppendFact(v, k, n)
      PROVE  ConflictsInv'
  <2>1. k \in BOOLEAN
    BY ConflictsAssumption
  <2> QED BY <2>1, <1>1, FactLogged DEF Conflicts!AppendFact
<1>2. ASSUME NEW v \in Statement, NEW n \in Level, Conflicts!ConfirmFact(v, n)
      PROVE  ConflictsInv'
  <2>1. FALSE \in BOOLEAN
    OBVIOUS
  <2> QED BY <2>1, <1>2, FactLogged DEF Conflicts!ConfirmFact
<1>3. CASE Conflicts!Tick
  <2>1. today \in Nat
    BY DEF ConflictsInv, WorkspaceTypes
  <2>2. today + 1 \in Nat /\ today <= today + 1 /\ FALSE \in BOOLEAN
    BY <2>1
  <2> QED BY <2>2, <1>3, FragmentChanged DEF Conflicts!Tick
<1>4. CASE Conflicts!TearFact
  <2>1. today \in Nat /\ today <= today /\ TRUE \in BOOLEAN
    BY DEF ConflictsInv, WorkspaceTypes
  <2> QED BY <2>1, <1>4, FragmentChanged DEF Conflicts!TearFact
<1>5. CASE Conflicts!Distill \/ Conflicts!SaveCurated \/ Conflicts!RenderMemory \/ Conflicts!SaveConflicts
             \/ Conflicts!ReadMemory
  BY <1>5, DistillKeeps, SaveCuratedKeeps, RenderKeeps, SaveConflictsKeeps
<1>6. ASSUME NEW n \in DOMAIN cases, NEW e \in DecisionId, NEW c \in cases[n].candidates, Conflicts!Resolve(n, c, e)
      PROVE  ConflictsInv'
  BY <1>6, ResolveKeeps
<1>7. CASE Conflicts!Prepare \/ Conflicts!CompleteResolution
  BY <1>7, PrepareKeeps, ApplyKeeps, ProjectKeeps, MarkAppliedKeeps, CloseKeeps, MarkClosedKeeps, AppendKeeps,
     MarkAuditedKeeps, CommitKeeps DEF Conflicts!CompleteResolution
<1>8. CASE Conflicts!Crash \/ Conflicts!Start
  BY <1>8, CrashKeeps, StartKeeps
<1> QED BY <1>1, <1>2, <1>3, <1>4, <1>5, <1>6, <1>7, <1>8 DEF Conflicts!Next

\* The three files, the journal and the plan of the process agree, at every crash.
THEOREM ConflictsInvariant == Spec => [](scenario = "conflicts" => ConflictsInv)
<1>1. Init => (scenario = "conflicts" => ConflictsInv)
  BY ConflictsInit DEF Init
<1>2. (scenario = "conflicts" => ConflictsInv) /\ [Next]_Vars => (scenario = "conflicts" => ConflictsInv)'
  <2> SUFFICES ASSUME scenario = "conflicts" => ConflictsInv, [Next]_Vars, scenario' = "conflicts"
               PROVE  ConflictsInv'
    OBVIOUS
  <2>1. scenario = "conflicts"
    BY DEF Next, Vars
  <2>2. CASE Conflicts!Next
    BY <2>1, <2>2, ConflictsNext
  <2>3. CASE UNCHANGED Vars
    <3>1. /\ UNCHANGED <<curated, unkeyed, view, cases, decisions, journal, pc, work>>
          /\ daily' = daily /\ today' = today
      BY <2>3 DEF Vars, WorkspaceVars
    <3>2. /\ daily \in LogOf(FactLine) /\ today \in Nat
          /\ \A i \in DOMAIN daily.lines : daily.lines[i].day <= today
      BY <2>1 DEF ConflictsInv, WorkspaceTypes
    <3>3. Longer(daily.lines, daily.lines)
      BY <3>2 DEF Longer, LogOf
    <3> QED BY <2>1, <3>1, <3>2, <3>3, FactsAdded
  <2> QED BY <2>1, <2>2, <2>3 DEF Next
<1> QED BY <1>1, <1>2, PTL DEF Spec

\* Between resolutions every decision has taken effect, once.
LEMMA ConflictsComplete == ASSUME ConflictsInv PROVE Conflicts!DecisionsComplete
<1> DEFINE J == journal.lines
           L == decisions.lines
<1> SUFFICES ASSUME pc \in {"idle", "prepare", "save_curated", "render", "save_conflicts"},
                    NEW e \in {J[i].event : i \in DOMAIN J}
             PROVE  LET d == Conflicts!Intent(e).decision IN
                    /\ Conflicts!Cardinality({i \in DOMAIN L : L[i].event = e}) = 1
                    /\ cases[d.revision].status = "resolved" /\ cases[d.revision].event = e
                    /\ cases[d.revision].result = d.result
                    /\ curated[d.result].value = d.selected
  BY DEF Conflicts!DecisionsComplete
<1>j. PICK j \in DOMAIN J : e = J[j].event
  OBVIOUS
<1>d. PICK d : d = Conflicts!Intent(e).decision
  OBVIOUS
<1>1. J \in Seq(JournalLine)
  BY DEF ConflictsInv, WorkspaceTypes, LogOf
<1>2. e \in DecisionId
  <2>1. J[j] \in JournalLine
    BY <1>1
  <2> QED BY <2>1, <1>j DEF JournalLine
<1>3. Conflicts!Recorded(e) # {}
  <2>1. j < Len(J) + 1
    BY <1>1
  <2>2. J[j].phase \in Before(J, Len(J) + 1, e)
    BY <2>1, <1>j DEF Before
  <2> QED BY <2>2, JournalIn
<1>4. "committed" \in Conflicts!Recorded(e)
  <2>1. Conflicts!Unfinished = {}
    BY DEF ConflictsInv, WorkInv, Resting
  <2> QED BY <2>1, <1>2, <1>3 DEF Conflicts!Unfinished
<1>5. d.event = e /\ Stands(d, cases, curated) /\ Ruled(e)
  BY <1>d, <1>2, <1>4 DEF ConflictsInv, DecidedInv
<1>6. Cardinality({i \in DOMAIN L : L[i].event = e}) = 1
  <2>1. PICK i \in DOMAIN L : L[i].event = e
    BY <1>5 DEF Ruled
  <2>2. {k \in DOMAIN L : L[k].event = e} = {i}
    BY <2>1 DEF ConflictsInv, Conflicts!DecisionsReadable
  <2>3. Cardinality({i}) = 1
    BY FS_Singleton
  <2> QED BY <2>2, <2>3
<1> QED BY <1>d, <1>5, <1>6, Counted DEF Stands

\* What the invariant says of the files.
LEMMA ConflictsSound ==
  ASSUME ConflictsInv
  PROVE  /\ Conflicts!RecoveryAccepts /\ Conflicts!DecisionsComplete
         /\ Conflicts!EvidenceCountsOnce /\ Conflicts!FilesReadable /\ Conflicts!ViewNotAhead
<1>1. Conflicts!RecoveryAccepts
  BY DEF ConflictsInv, WorkInv, Resting, Completing, Conflicts!RecoveryAccepts
<1>2. Conflicts!EvidenceCountsOnce
  BY DEF ConflictsInv, Consistent, Backed, Conflicts!EvidenceCountsOnce
<1>3. Conflicts!FilesReadable
  BY DEF ConflictsInv, Consistent, Conflicts!FilesReadable
<1> QED BY <1>1, <1>2, <1>3, ConflictsComplete DEF ConflictsInv

-----------------------------------------------------------------------------
(* Workspace memory: facts without a domain *)

LooseLine == [value : Statement, keyed : {FALSE}, importance : LooseLevel, day : Nat]
FactsInv ==
    /\ daily \in LogOf(LooseLine) /\ today \in Nat
    /\ curated = <<>>
    /\ Facts!ViewNotAhead
    /\ pc \in {"idle", "save_curated", "render", "save_conflicts", "down", "refused"}
    /\ pc = "save_curated" =>
         work.curated = <<>> /\ \A v \in Statement : unkeyed[v] \subseteq work.unkeyed[v]

\* Facts without a domain are promoted without a revision (distill).
LEMMA LooseDistilled ==
  ASSUME FactsInv
  PROVE  /\ Facts!CuratedAfter = <<>>
         /\ \A v \in Statement : unkeyed[v] \subseteq Facts!UnkeyedAfter[v]
<1>1. Facts!Current = 0
  BY DEF FactsInv, Facts!Current
<1>2. \A v : Facts!Backing(v, TRUE) = {}
  <2>1. daily.lines \in Seq(LooseLine)
    BY DEF FactsInv, LogOf
  <2>2. \A i \in DOMAIN daily.lines : daily.lines[i].keyed = FALSE
    <3>1. \A l \in LooseLine : l.keyed = FALSE
      BY DEF LooseLine
    <3>2. \A i \in DOMAIN daily.lines : daily.lines[i] \in LooseLine
      BY <2>1
    <3> QED BY <3>1, <3>2
  <2> QED BY <2>2 DEF Facts!Backing, Facts!Candidates, Facts!Ids, Facts!Fact
<1>3. Facts!Winners = {}
  BY <1>2 DEF Facts!Winners, Facts!Challengers
<1>4. Facts!Cardinality({}) = 0
  <2>1. Cardinality({}) = 0
    BY FS_EmptySet
  <2>2. Facts!Cardinality({}) = Cardinality({})
    BY DEF Facts!Cardinality, Cardinality
  <2> QED BY <2>1, <2>2
<1>5. Facts!CuratedAfter = <<>>
  BY <1>1, <1>3, <1>4 DEF Facts!CuratedAfter, Facts!Reinforced, FactsInv
<1>6. \A v \in Statement : unkeyed[v] \subseteq Facts!UnkeyedAfter[v]
  BY DEF Facts!UnkeyedAfter
<1> QED BY <1>5, <1>6

\* The view is written behind the file it shows, also where facts have no domain.
LEMMA FactsNext ==
  ASSUME FactsInv, Facts!Next
  PROVE  FactsInv'
<1> USE DEF FactsInv
<1>1. ASSUME NEW v \in Statement, NEW n \in LooseLevel, NEW line,
             line = [value |-> v, keyed |-> FALSE, importance |-> n, day |-> today],
             daily' = Facts!AppendTo(daily, line),
             UNCHANGED <<today, curated, unkeyed, view, pc, work>>
      PROVE  FactsInv'
  <2> DEFINE a == IF daily.fragment THEN daily.lines ELSE Append(daily.lines, line)
             b == daily.corrupt \/ daily.fragment
  <2>1. line \in LooseLine
    BY <1>1 DEF LooseLine
  <2>2. daily.lines \in Seq(LooseLine) /\ b \in BOOLEAN
    BY DEF LogOf
  <2>3. a \in Seq(LooseLine)
    BY <2>1, <2>2
  <2>4. daily' = [lines |-> a, fragment |-> FALSE, corrupt |-> b]
    BY <1>1 DEF Facts!AppendTo
  <2> HIDE DEF a, b
  <2>5. [lines |-> a, fragment |-> FALSE, corrupt |-> b] \in LogOf(LooseLine)
    BY <2>2, <2>3 DEF LogOf
  <2>6. daily' \in LogOf(LooseLine)
    BY <2>4, <2>5
  <2> QED BY <2>6, <1>1 DEF Facts!ViewNotAhead
<1>2. ASSUME NEW v \in Statement, NEW n \in LooseLevel, NEW k \in {FALSE}, Facts!AppendFact(v, k, n)
      PROVE  FactsInv'
  BY <1>1, <1>2 DEF Facts!AppendFact
<1>3. ASSUME NEW v \in Statement, NEW n \in LooseLevel, Facts!ConfirmFact(v, n)
      PROVE  FactsInv'
  BY <1>1, <1>3 DEF Facts!ConfirmFact
<1>f. ASSUME NEW b \in BOOLEAN PROVE [daily EXCEPT !.fragment = b] \in LogOf(LooseLine)
  BY DEF LogOf
<1>4. CASE Facts!Tick
  <2>0. daily' = [daily EXCEPT !.fragment = FALSE] /\ today' = today + 1
    BY <1>4 DEF Facts!Tick
  <2>a. [daily EXCEPT !.fragment = FALSE] \in LogOf(LooseLine)
    BY <1>f
  <2>b. daily' \in LogOf(LooseLine)
    BY <2>a, <2>0
  <2>c. today' \in Nat
    BY <2>0
  <2>1. daily' \in LogOf(LooseLine) /\ today' \in Nat
    BY <2>b, <2>c
  <2>2. UNCHANGED <<curated, unkeyed, view, pc, work>>
    BY <1>4 DEF Facts!Tick
  <2> QED BY <2>1, <2>2 DEF Facts!ViewNotAhead
<1>5. CASE Facts!TearFact
  <2>0. daily' = [daily EXCEPT !.fragment = TRUE]
    BY <1>5 DEF Facts!TearFact
  <2>1. daily' \in LogOf(LooseLine)
    BY <2>0, <1>f
  <2>2. UNCHANGED <<today, curated, unkeyed, view, pc, work>>
    BY <1>5 DEF Facts!TearFact
  <2> QED BY <2>1, <2>2 DEF Facts!ViewNotAhead
<1>6. CASE Facts!Distill
  <2>1. /\ work'.curated = Facts!CuratedAfter /\ work'.unkeyed = Facts!UnkeyedAfter
        /\ pc' \in {"save_curated", "save_conflicts"}
        /\ UNCHANGED <<daily, today, curated, unkeyed, view>>
    BY <1>6 DEF Facts!Distill, Facts!files
  <2> QED BY <2>1, LooseDistilled DEF Facts!ViewNotAhead
<1>7. CASE Facts!SaveCurated
  <2>1. /\ pc' = "render" /\ curated' = <<>> /\ UNCHANGED <<daily, today, view, work>>
        /\ \A v \in Statement : unkeyed[v] \subseteq unkeyed'[v]
    BY <1>7 DEF Facts!SaveCurated
  <2> QED BY <2>1 DEF Facts!ViewNotAhead
<1>8. CASE Facts!RenderMemory \/ Facts!ReadMemory
  <2>1. /\ view' = <<curated, unkeyed>> /\ UNCHANGED <<daily, today, curated, unkeyed, work>>
        /\ pc' \in {"idle", "save_conflicts"}
    BY <1>8 DEF Facts!RenderMemory, Facts!ReadMemory, Facts!Rendered
  <2> QED BY <2>1 DEF Facts!ViewNotAhead
<1>9. CASE Facts!SaveConflicts
  <2>1. UNCHANGED <<daily, today, curated, unkeyed, view, work>> /\ pc' \in {"idle", "refused"}
    BY <1>9 DEF Facts!SaveConflicts
  <2> QED BY <2>1 DEF Facts!ViewNotAhead
<1>10. ~ Facts!Prepare /\ ~ Facts!CompleteResolution
  BY DEF Facts!Prepare, Facts!CompleteResolution, Facts!ApplyCurated, Facts!ProjectMemory, Facts!MarkPhase,
         Facts!CloseConflict, Facts!AppendDecision
<1>11. CASE Facts!Crash
  <2>1. UNCHANGED <<daily, today, curated, unkeyed, view>> /\ pc' = "down"
    BY <1>11 DEF Facts!Crash
  <2> QED BY <2>1 DEF Facts!ViewNotAhead
<1>12. CASE Facts!Start
  <2>1. Facts!Unfinished = {}
    BY DEF Facts!Unfinished
  <2>2. UNCHANGED <<daily, today, curated, unkeyed, view>> /\ pc' \in {"idle", "refused"}
    BY <2>1, <1>12 DEF Facts!Start, Facts!files
  <2> QED BY <2>2 DEF Facts!ViewNotAhead
<1> QED BY <1>2, <1>3, <1>4, <1>5, <1>6, <1>7, <1>8, <1>9, <1>10, <1>11, <1>12 DEF Facts!Next

\* Whatever point a process dies at, its files can be read and completed; decisions take
\* effect completely and no fact counts twice (_recover_resolution_transactions, distill,
\* _queue_conflict, _save_curated).
THEOREM WorkspaceIsSound == Spec => []WorkspaceSound
<1> DEFINE FI == scenario = "facts" => FactsInv
<1>1. Init => FI
  <2> SUFFICES ASSUME Facts!Init PROVE FactsInv
    BY DEF Init
  <2> QED BY DEF Facts!Init, FactsInv, Facts!EmptyLog, Facts!ViewNotAhead, LogOf
<1>2. FI /\ [Next]_Vars => FI'
  <2> SUFFICES ASSUME FI, [Next]_Vars, scenario' = "facts" PROVE FactsInv'
    OBVIOUS
  <2>1. scenario = "facts"
    BY DEF Next, Vars
  <2>2. CASE Facts!Next
    BY <2>1, <2>2, FactsNext
  <2>3. CASE UNCHANGED Vars
    <3>1. UNCHANGED <<daily, today, curated, unkeyed, view, pc, work>>
      BY <2>3 DEF Vars, WorkspaceVars
    <3> QED BY <2>1, <3>1 DEF FactsInv, Facts!ViewNotAhead
  <2> QED BY <2>1, <2>2, <2>3 DEF Next
<1>3. FI => (scenario = "facts" => Facts!ViewNotAhead)
  BY DEF FactsInv
<1>4. (scenario = "conflicts" => ConflictsInv) /\ FI => WorkspaceSound
  BY <1>3, ConflictsSound DEF WorkspaceSound
<1> QED BY <1>1, <1>2, <1>4, ConflictsInvariant, PTL DEF Spec

-----------------------------------------------------------------------------
(* Workspace memory: decisions rest on all the evidence *)

\* The journal gets a decision it did not have when one is prepared, and not otherwise.
LEMMA JournalBegins ==
  ASSUME ConflictsInv, Conflicts!Next, NEW e \in DecisionId,
         Conflicts!Recorded(e) = {}, Conflicts!Recorded(e)' # {}
  PROVE  Conflicts!Prepare /\ e = work.event
<1> DEFINE Kept == \A f \in DecisionId : Conflicts!Recorded(f) = {} => Conflicts!Recorded(f)' = {}
<1>1. ASSUME UNCHANGED journal PROVE Kept
  BY <1>1, JournalStays
<1>2. ASSUME NEW v \in Statement, NEW n \in Level, NEW k \in Keyed, Conflicts!AppendFact(v, k, n) PROVE Kept
  BY <1>1, <1>2 DEF Conflicts!AppendFact
<1>3. ASSUME NEW v \in Statement, NEW n \in Level, Conflicts!ConfirmFact(v, n) PROVE Kept
  BY <1>1, <1>3 DEF Conflicts!ConfirmFact
<1>4. CASE Conflicts!Tick \/ Conflicts!TearFact \/ Conflicts!Distill \/ Conflicts!SaveCurated
             \/ Conflicts!RenderMemory \/ Conflicts!SaveConflicts \/ Conflicts!ReadMemory
  <2>1. UNCHANGED journal
    BY <1>4 DEF Conflicts!Tick, Conflicts!TearFact, Conflicts!Distill, Conflicts!files, Conflicts!SaveCurated,
       Conflicts!RenderMemory, Conflicts!SaveConflicts, Conflicts!ReadMemory
  <2> QED BY <2>1, <1>1
<1>5. ASSUME NEW n \in DOMAIN cases, NEW f \in DecisionId, NEW c \in cases[n].candidates, Conflicts!Resolve(n, c, f)
      PROVE  Kept
  BY <1>1, <1>5, ResolveKeeps
<1>6. CASE Conflicts!CompleteResolution
  <2>1. CASE Conflicts!ApplyCurated \/ Conflicts!ProjectMemory \/ Conflicts!CloseConflict \/ Conflicts!AppendDecision
    <3>1. UNCHANGED journal
      BY <2>1 DEF Conflicts!ApplyCurated, Conflicts!ProjectMemory, Conflicts!CloseConflict, Conflicts!AppendDecision
    <3> QED BY <3>1, <1>1
  <2> QED BY <2>1, <1>6, MarkAppliedKeeps, MarkClosedKeeps, MarkAuditedKeeps, CommitKeeps
          DEF Conflicts!CompleteResolution
<1>7. CASE Conflicts!Crash
  <2>1. \A f : Conflicts!Recorded(f)' = Conflicts!Recorded(f)
    BY <1>7, CrashKeeps, JournalKept
  <2> QED BY <2>1
<1>8. CASE Conflicts!Start
  BY <1>1, <1>8, StartKeeps
<1>9. Kept \/ Conflicts!Prepare
  BY <1>2, <1>3, <1>4, <1>5, <1>6, <1>7, <1>8 DEF Conflicts!Next
<1>10. Conflicts!Prepare
  BY <1>9
<1>11. e = work.event
  BY <1>10, PrepareKeeps
<1> QED BY <1>10, <1>11

\* A decision is prepared on what its case observed (resolve_conflict).
LEMMA DecidesOnAll == ASSUME ConflictsInv, Conflicts!Next PROVE Conflicts!DecidesOnFullEvidence
<1> SUFFICES ASSUME NEW e \in DecisionId, Conflicts!Recorded(e) = {}, Conflicts!Recorded(e)' # {}
             PROVE  /\ \A i \in 1 .. work.read :
                         daily.lines[i].keyed => i \in cases[Conflicts!Intent(e)'.decision.revision].observed
                    /\ \A n \in DOMAIN Conflicts!Intent(e)'.after :
                         Conflicts!Intent(e)'.after[n].evidence \subseteq 1 .. work.read
  BY DEF Conflicts!DecidesOnFullEvidence, Conflicts!Fact
<1>1. Conflicts!Prepare /\ e = work.event
  BY JournalBegins
<1>2. pc = "prepare"
  BY <1>1 DEF Conflicts!Prepare
<1>3. /\ Conflicts!Intent(e)' = work.intent
      /\ \E n \in DOMAIN cases : \E c \in cases[n].candidates : Intends(n, c)
  BY <1>1, PrepareKeeps
<1>4. PICK n \in DOMAIN cases : \E c \in cases[n].candidates : Intends(n, c)
  BY <1>3
<1>5. PICK c \in cases[n].candidates : Intends(n, c)
  BY <1>4
<1>6. work.intent.decision.revision = n
  BY <1>5 DEF Intends, Conflicts!Resolution
<1>7. \A i \in 1 .. work.read : daily.lines[i].keyed => i \in cases[n].observed
  BY <1>5 DEF Intends
<1>8. \A m \in DOMAIN work.intent.after : work.intent.after[m].evidence \subseteq 1 .. work.read
  BY <1>2 DEF ConflictsInv, WorkInv
<1> QED BY <1>3, <1>6, <1>7, <1>8

-----------------------------------------------------------------------------
(* Workspace memory implements Adjudication *)

RuledEvents(L) == {L[i].event : i \in DOMAIN L}

\* What the abstract queue and revisions are, of files that agree with the journal.
LEMMA MappedFiles ==
  /\ Conflicts!Unfinished = {} =>
       Conflicts!Adjudicated!vars = <<curated, cases, RuledEvents(decisions.lines)>>
  /\ \A e : Conflicts!Unfinished = {e} =>
       Conflicts!Adjudicated!vars =
         <<Conflicts!Intent(e).after, Conflicts!Intent(e).casesAfter, RuledEvents(decisions.lines) \cup {e}>>
<1>1. ASSUME Conflicts!Unfinished = {}
      PROVE  Conflicts!Adjudicated!vars = <<curated, cases, RuledEvents(decisions.lines)>>
  BY <1>1 DEF Conflicts!Adjudicated!vars, RuledEvents
<1>2. ASSUME NEW e, Conflicts!Unfinished = {e}
      PROVE  Conflicts!Adjudicated!vars =
         <<Conflicts!Intent(e).after, Conflicts!Intent(e).casesAfter, RuledEvents(decisions.lines) \cup {e}>>
  <2>1. (CHOOSE f \in Conflicts!Unfinished : TRUE) = e
    BY <1>2
  <2> QED BY <2>1, <1>2 DEF Conflicts!Adjudicated!vars, RuledEvents
<1> QED BY <1>1, <1>2

\* The same after a step.
LEMMA MappedFilesNext ==
  /\ Conflicts!Unfinished' = {} =>
       Conflicts!Adjudicated!vars' = <<curated', cases', RuledEvents(decisions'.lines)>>
  /\ \A e : Conflicts!Unfinished' = {e} =>
       Conflicts!Adjudicated!vars' =
         <<Conflicts!Intent(e)'.after, Conflicts!Intent(e)'.casesAfter, RuledEvents(decisions'.lines) \cup {e}>>
<1>1. ASSUME Conflicts!Unfinished' = {}
      PROVE  Conflicts!Adjudicated!vars' = <<curated', cases', RuledEvents(decisions'.lines)>>
  BY <1>1 DEF Conflicts!Adjudicated!vars, RuledEvents
<1>2. ASSUME NEW e, Conflicts!Unfinished' = {e}
      PROVE  Conflicts!Adjudicated!vars' =
         <<Conflicts!Intent(e)'.after, Conflicts!Intent(e)'.casesAfter, RuledEvents(decisions'.lines) \cup {e}>>
  <2>1. (CHOOSE f \in Conflicts!Unfinished' : TRUE) = e
    BY <1>2
  <2> QED BY <2>1, <1>2 DEF Conflicts!Adjudicated!vars, RuledEvents
<1> QED BY <1>1, <1>2

\* One decision at most is under way.
LEMMA OneUnfinished ==
  ASSUME ConflictsInv PROVE Conflicts!Unfinished = {} \/ \E e \in DecisionId : Conflicts!Unfinished = {e}
<1> SUFFICES ASSUME NEW e \in Conflicts!Unfinished PROVE e \in DecisionId /\ Conflicts!Unfinished = {e}
  OBVIOUS
<1>1. e \in DecisionId
  BY DEF Conflicts!Unfinished
<1> QED BY <1>1 DEF ConflictsInv, UnfinishedInv

\* What changes neither the files nor the journal is no step of the abstract queue.
LEMMA FilesStutter ==
  ASSUME ConflictsInv, UNCHANGED <<curated, cases>>, decisions'.lines = decisions.lines,
         journal'.lines = journal.lines, journal'.corrupt = journal.corrupt
  PROVE  UNCHANGED Conflicts!Adjudicated!vars
<1>1. /\ \A e : Conflicts!Intent(e)' = Conflicts!Intent(e)
      /\ Conflicts!Unfinished' = Conflicts!Unfinished
  BY JournalKept
<1>2. CASE Conflicts!Unfinished = {}
  BY <1>1, <1>2, MappedFiles, MappedFilesNext
<1>3. ASSUME NEW e \in DecisionId, Conflicts!Unfinished = {e} PROVE UNCHANGED Conflicts!Adjudicated!vars
  <2>1. Conflicts!Adjudicated!vars =
         <<Conflicts!Intent(e).after, Conflicts!Intent(e).casesAfter, RuledEvents(decisions.lines) \cup {e}>>
    BY <1>3, MappedFiles
  <2>2. Conflicts!Adjudicated!vars' =
         <<Conflicts!Intent(e)'.after, Conflicts!Intent(e)'.casesAfter, RuledEvents(decisions'.lines) \cup {e}>>
    BY <1>1, <1>3, MappedFilesNext
  <2> QED BY <2>1, <2>2, <1>1
<1> QED BY <1>2, <1>3, OneUnfinished

\* A step of a resolution that was prepared is none either.
LEMMA CompletingStutters ==
  ASSUME ConflictsInv, NEW e, Conflicts!Unfinished = {e}, Conflicts!Unfinished' = {e},
         Conflicts!Intent(e)' = Conflicts!Intent(e),
         RuledEvents(decisions'.lines) \cup {e} = RuledEvents(decisions.lines) \cup {e}
  PROVE  UNCHANGED Conflicts!Adjudicated!vars
  BY MappedFiles, MappedFilesNext

\* A case is closed in both specifications alike (resolve_conflict, _queue_conflict).
LEMMA CasesAlike ==
  /\ \A k : Conflicts!Superseded(k) = Conflicts!Adjudicated!Superseded(k)
  /\ \A k, c, r, e : Conflicts!Resolved(k, c, r, e) = Conflicts!Adjudicated!Resolved(k, c, r, e)
  BY DEF Conflicts!Superseded, Conflicts!Adjudicated!Superseded,
         Conflicts!Resolved, Conflicts!Adjudicated!Resolved

\* Distillation that writes curated.json is one step (_save_curated).
LEMMA SaveCuratedCurates ==
  ASSUME ConflictsInv, Conflicts!SaveCurated PROVE Conflicts!Adjudicated!Curate
<1>1. /\ pc = "save_curated" /\ curated' = work.curated
      /\ UNCHANGED <<cases, decisions, journal>>
  BY DEF Conflicts!SaveCurated
<1>2. Conflicts!Unfinished = {} /\ Grows(curated, curated')
  BY <1>1, Planned DEF Resting
<1>3. Conflicts!Unfinished' = {}
  BY <1>1, <1>2, JournalStays
<1> QED BY <1>1, <1>2, <1>3 DEF Conflicts!Adjudicated!Curate, Grows

\* Distillation that writes conflicts.json is one step (_save_conflicts).
LEMMA SaveConflictsReviews ==
  ASSUME ConflictsInv, Conflicts!SaveConflicts PROVE Conflicts!Adjudicated!Review
<1>1. pc = "save_conflicts" /\ UNCHANGED <<curated, decisions, journal>>
  BY DEF Conflicts!SaveConflicts
<1>2. Conflicts!Unfinished = {} /\ Reviewed(cases, cases')
  BY <1>1, Planned, SaveConflictsKeeps DEF Resting
<1>3. Conflicts!Unfinished' = {}
  BY <1>1, <1>2, JournalStays
<1> QED BY <1>1, <1>2, <1>3, CasesAlike DEF Conflicts!Adjudicated!Review, Reviewed

\* A decision is made when it is prepared (resolve_conflict).
LEMMA PrepareDecides ==
  ASSUME ConflictsInv, Conflicts!Prepare, NEW e, e = work.event,
         NEW n \in DOMAIN cases, NEW c \in cases[n].candidates, Intends(n, c)
  PROVE  Conflicts!Adjudicated!Decide(n, c, e)
<1>t. PICK t : t = Conflicts!Resolution(n, c, e)
  OBVIOUS
<1>1. /\ Conflicts!Unfinished = {} /\ Conflicts!Unfinished' = {e}
      /\ Conflicts!Intent(e)' = t
      /\ cases[n].status = "open" /\ cases[n].active = Len(curated)
      /\ UNCHANGED <<curated, cases, decisions>>
  BY <1>t, PrepareKeeps DEF Intends
<1>2. e \notin RuledEvents(decisions.lines)
  BY PrepareKeeps DEF Ruled, RuledEvents
<1>3. Conflicts!Current = Len(curated) /\ Len(curated) \in Nat
  BY DEF Conflicts!Current, ConflictsInv, WorkspaceTypes
<1>4. /\ t.after = IF c.incumbent THEN curated
                   ELSE Append(curated, [value |-> c.value, evidence |-> c.evidence, last |-> c.last])
      /\ t.casesAfter = [cases EXCEPT ![n] = Conflicts!Resolved(@, c, IF c.incumbent THEN Len(curated) ELSE Len(curated) + 1, e)]
  BY <1>t, <1>3 DEF Conflicts!Resolution, Conflicts!Revision
<1>5. Len(t.after) = IF c.incumbent THEN Len(curated) ELSE Len(curated) + 1
  <2>1. curated \in Seq(RevisionOf)
    BY DEF ConflictsInv, WorkspaceTypes
  <2>2. cases[n] \in ConflictCase
    BY DEF ConflictsInv, WorkspaceTypes
  <2>3. [value |-> c.value, evidence |-> c.evidence, last |-> c.last] \in RevisionOf
    BY <2>2 DEF ConflictCase, Contender, RevisionOf
  <2>4. Len(Append(curated, [value |-> c.value, evidence |-> c.evidence, last |-> c.last])) = Len(curated) + 1
    BY <2>1, <2>3
  <2> QED BY <2>4, <1>4
<1>6. t.casesAfter = Conflicts!Adjudicated!Closed(cases, n, c, Len(t.after), e)
  BY <1>4, <1>5, CasesAlike DEF Conflicts!Adjudicated!Closed
<1>7. /\ Conflicts!Adjudicated!vars = <<curated, cases, RuledEvents(decisions.lines)>>
      /\ Conflicts!Adjudicated!vars' = <<t.after, t.casesAfter, RuledEvents(decisions.lines) \cup {e}>>
  BY <1>1, MappedFiles, MappedFilesNext
<1> QED BY <1>1, <1>2, <1>4, <1>6, <1>7 DEF Conflicts!Adjudicated!Decide, Conflicts!Adjudicated!vars

\* What a step of the workspace is to the abstract queue: one step, or none.
Adjudicates == Conflicts!Adjudicated!Next \/ UNCHANGED Conflicts!Adjudicated!vars

\* A decision that is prepared was an open case of the abstract queue.
LEMMA PrepareAdjudicates ==
  ASSUME ConflictsInv, Conflicts!Prepare
  PROVE  Adjudicates
<1>e. PICK e : e = work.event
  OBVIOUS
<1>1. /\ e \in DecisionId /\ Conflicts!Unfinished = {}
      /\ \E n \in DOMAIN cases : \E c \in cases[n].candidates : Intends(n, c)
  BY <1>e, PrepareKeeps
<1>2. PICK n \in DOMAIN cases : \E c \in cases[n].candidates : Intends(n, c)
  BY <1>1
<1>3. PICK c \in cases[n].candidates : Intends(n, c)
  BY <1>2
<1>4. Conflicts!Adjudicated!Decide(n, c, e)
  BY <1>e, <1>3, PrepareDecides
<1>5. (IF Conflicts!Unfinished = {} THEN cases
       ELSE Conflicts!Intent(CHOOSE f \in Conflicts!Unfinished : TRUE).casesAfter) = cases
  BY <1>1
<1> QED BY <1>1, <1>4, <1>5 DEF Adjudicates, Conflicts!Adjudicated!Next

\* The writes of a resolution, each after the decision was made.
LEMMA CompletingAdjudicates ==
  ASSUME ConflictsInv, Conflicts!CompleteResolution
  PROVE  Adjudicates
<1>e. PICK e : e = work.event
  OBVIOUS
<1>1. ASSUME pc \in Completing, UNCHANGED <<journal, decisions>> PROVE Adjudicates
  <2>1. e \in DecisionId /\ Conflicts!Unfinished = {e}
    BY <1>e, <1>1, Underway
  <2>2. Conflicts!Unfinished' = {e} /\ Conflicts!Intent(e)' = Conflicts!Intent(e)
    BY <1>1, <2>1, JournalStays
  <2>3. RuledEvents(decisions'.lines) = RuledEvents(decisions.lines)
    BY <1>1
  <2> QED BY <2>1, <2>2, <2>3, CompletingStutters DEF Adjudicates
<1>2. CASE Conflicts!ApplyCurated \/ Conflicts!ProjectMemory \/ Conflicts!CloseConflict
  <2>1. pc \in Completing /\ UNCHANGED <<journal, decisions>>
    BY <1>2 DEF Conflicts!ApplyCurated, Conflicts!ProjectMemory, Conflicts!CloseConflict, Completing
  <2> QED BY <2>1, <1>1
<1>3. ASSUME UNCHANGED decisions, Conflicts!Unfinished = {e}, Conflicts!Unfinished' = {e},
             \A f \in DecisionId : Conflicts!Recorded(f) # {} => Conflicts!Intent(f)' = Conflicts!Intent(f)
      PROVE  Adjudicates
  <2>1. e \in DecisionId /\ Conflicts!Recorded(e) # {}
    BY <1>3 DEF Conflicts!Unfinished
  <2>2. Conflicts!Intent(e)' = Conflicts!Intent(e)
    BY <2>1, <1>3
  <2>3. RuledEvents(decisions'.lines) = RuledEvents(decisions.lines)
    BY <1>3
  <2> QED BY <1>3, <2>2, <2>3, CompletingStutters DEF Adjudicates
<1>4. CASE \/ Conflicts!MarkPhase("curated_applied", "close") \/ Conflicts!MarkPhase("conflict_closed", "audit")
           \/ Conflicts!MarkPhase("audit_appended", "committed")
  <2>1. UNCHANGED decisions
    BY <1>4 DEF Conflicts!MarkPhase
  <2> QED BY <1>e, <2>1, <1>3, <1>4, MarkAppliedKeeps, MarkClosedKeeps, MarkAuditedKeeps
<1>5. CASE Conflicts!AppendDecision
  <2>1. UNCHANGED journal
    BY <1>5 DEF Conflicts!AppendDecision
  <2>2. Conflicts!Unfinished = {e}
    BY <1>e, <1>5, AppendKeeps
  <2>3. Conflicts!Unfinished' = {e} /\ Conflicts!Intent(e)' = Conflicts!Intent(e)
    BY <2>1, <2>2, JournalStays
  <2>4. RuledEvents(decisions'.lines) \cup {e} = RuledEvents(decisions.lines) \cup {e}
    BY <1>e, <1>5, AppendKeeps DEF RuledEvents
  <2> QED BY <2>2, <2>3, <2>4, CompletingStutters DEF Adjudicates
<1>6. CASE Conflicts!MarkPhase("committed", "idle")
  <2>1. /\ Conflicts!Unfinished = {e} /\ Conflicts!Unfinished' = {}
        /\ curated = Conflicts!Intent(e).after /\ cases = Conflicts!Intent(e).casesAfter
        /\ Ruled(e)
    BY <1>e, <1>6, CommitKeeps
  <2>2. UNCHANGED <<curated, cases, decisions>>
    BY <1>6 DEF Conflicts!MarkPhase
  <2>3. RuledEvents(decisions.lines) \cup {e} = RuledEvents(decisions.lines)
    BY <2>1 DEF Ruled, RuledEvents
  <2>4. Conflicts!Adjudicated!vars = <<curated, cases, RuledEvents(decisions.lines) \cup {e}>>
    BY <2>1, MappedFiles
  <2>5. Conflicts!Adjudicated!vars' = <<curated', cases', RuledEvents(decisions'.lines)>>
    BY <2>1, MappedFilesNext
  <2> QED BY <2>2, <2>3, <2>4, <2>5 DEF Adjudicates
<1> QED BY <1>2, <1>4, <1>5, <1>6 DEF Conflicts!CompleteResolution

\* Every step of the workspace is a step of the abstract queue, or leaves it as it is.
LEMMA AdjudicatedStep == ASSUME ConflictsInv, Conflicts!Next PROVE Adjudicates
<1>1. ASSUME UNCHANGED <<curated, cases, decisions, journal>> PROVE Adjudicates
  BY <1>1, FilesStutter DEF Adjudicates
<1>2. ASSUME NEW v \in Statement, NEW n \in Level, NEW k \in Keyed, Conflicts!AppendFact(v, k, n) PROVE Adjudicates
  BY <1>1, <1>2 DEF Conflicts!AppendFact
<1>3. ASSUME NEW v \in Statement, NEW n \in Level, Conflicts!ConfirmFact(v, n) PROVE Adjudicates
  BY <1>1, <1>3 DEF Conflicts!ConfirmFact
<1>4. CASE \/ Conflicts!Tick \/ Conflicts!TearFact \/ Conflicts!Distill
           \/ Conflicts!RenderMemory \/ Conflicts!ReadMemory
  <2>1. UNCHANGED <<curated, cases, decisions, journal>>
    BY <1>4 DEF Conflicts!Tick, Conflicts!TearFact, Conflicts!Distill, Conflicts!files,
       Conflicts!RenderMemory, Conflicts!ReadMemory
  <2> QED BY <2>1, <1>1
<1>5. CASE Conflicts!SaveCurated
  BY <1>5, SaveCuratedCurates DEF Adjudicates, Conflicts!Adjudicated!Next
<1>6. CASE Conflicts!SaveConflicts
  BY <1>6, SaveConflictsReviews DEF Adjudicates, Conflicts!Adjudicated!Next
<1>7. CASE Conflicts!Crash
  BY <1>7, CrashKeeps, FilesStutter DEF Adjudicates
<1>8. CASE Conflicts!Start
  BY <1>1, <1>8, StartKeeps
<1>9. ASSUME NEW n \in DOMAIN cases, NEW e \in DecisionId, NEW c \in cases[n].candidates, Conflicts!Resolve(n, c, e)
      PROVE  Adjudicates
  BY <1>1, <1>9, ResolveKeeps
<1> QED BY <1>2, <1>3, <1>4, <1>5, <1>6, <1>7, <1>8, <1>9, PrepareAdjudicates, CompletingAdjudicates DEF Conflicts!Next

\* Outside the scenario nothing is said of the queue; inside it a stuttering step is none.
LEMMA AdjudicationStep ==
  ASSUME scenario = "conflicts" => ConflictsInv, [Next]_Vars
  PROVE  [scenario = "conflicts" => Conflicts!Adjudicated!Next]_(Conflicts!Adjudicated!vars)
<1> SUFFICES ASSUME scenario = "conflicts" PROVE Adjudicates
  BY DEF Adjudicates
<1>1. CASE Next
  BY <1>1, AdjudicatedStep DEF Next
<1>2. CASE UNCHANGED Vars
  <2>1. UNCHANGED <<curated, cases, decisions, journal>>
    BY <1>2 DEF Vars, WorkspaceVars
  <2> QED BY <2>1, FilesStutter DEF Adjudicates
<1> QED BY <1>1, <1>2

\* Workspace memory with its journal, crashes and restarts implements the queue in which a
\* decision is one step (resolve_conflict, _recover_resolution_transactions).
THEOREM JournalImplementsAdjudication == Spec => AdjudicationSpec
<1>1. Init => (scenario = "conflicts" => Conflicts!Adjudicated!Init)
  <2> SUFFICES ASSUME Conflicts!Init PROVE Conflicts!Adjudicated!Init
    BY DEF Init
  <2>1. curated = <<>> /\ cases = <<>> /\ decisions = Conflicts!EmptyLog /\ journal = Conflicts!EmptyLog
    BY DEF Conflicts!Init
  <2>2. DOMAIN journal.lines = {} /\ DOMAIN decisions.lines = {}
    BY <2>1 DEF Conflicts!EmptyLog
  <2>3. Conflicts!Unfinished = {}
    BY <2>2 DEF Conflicts!Unfinished, Conflicts!Recorded, Conflicts!RecordedBefore
  <2> QED BY <2>1, <2>2, <2>3 DEF Conflicts!Adjudicated!Init
<1>2. (scenario = "conflicts" => ConflictsInv) /\ [Next]_Vars
        => [scenario = "conflicts" => Conflicts!Adjudicated!Next]_(Conflicts!Adjudicated!vars)
  BY AdjudicationStep
<1> QED BY <1>1, <1>2, ConflictsInvariant, PTL DEF Spec, AdjudicationSpec

-----------------------------------------------------------------------------
(* What is decided and what is promoted *)

\* No decision is prepared whose case misses a fact of the domain that was there when
\* resolve_conflict checked it, or that cites a fact that came since; and no version of a
\* reflection changes after it was promoted (resolve_conflict; ReflectionStore.promote).
THEOREM DecisionsAlwaysStand == Spec => DecisionsStand
<1>1. (scenario = "conflicts" => ConflictsInv) /\ [Next]_Vars
        => [scenario = "conflicts" => Conflicts!DecidesOnFullEvidence]_Vars
  BY DecidesOnAll DEF Next
<1> QED BY <1>1, ConflictsInvariant, ReflectionInvariant, PTL DEF Spec, DecisionsStand
=============================================================================
