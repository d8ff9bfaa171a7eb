------------------------ MODULE HarnessRuntimeProofs ------------------------
(***************************************************************************)
(* Proofs about HarnessRuntime for any sessions, handlers, subscribers and *)
(* bounds, and about the two scenarios MCHarnessScenarios runs it in.  The *)
(* invariant says, of the event every handler is at, what the transcript,  *)
(* the audit log and the queues already hold of it: MiniAgent.prompt()     *)
(* keeps these three stores in step without a lock that spans them.        *)
(***************************************************************************)
EXTENDS MCHarnessScenarios, FiniteSetTheorems, SequenceTheorems, TLAPS

\* The kinds of events, and what the transcript and the audit log hold.
ToolKinds == {"tool_call", "tool_result", "tool_error"}
Results == {"tool_result", "tool_error"}
Kinds == Messages \cup ToolKinds
Event == [type : Kinds, call : Nat]
Entry == [action : Kinds, session : Session, seq : Nat]

\* The places of a handler in prompt(): the event it is at, and what it does for it.
Place == [kind : Kinds \cup {"idle"},
          step : {"idle", "append", "audit", "publish", "put", "run"}]

\* Whether thread t is inside a prompt, and whether the event it is at is recorded.
Busy(t) == pc[t].kind # "idle"
Wrote(t) == Busy(t) /\ pc[t].step # "append"

\* The types, and that a queue is kept for every subscriber.
TypeInv ==
    /\ transcript \in [Session -> Seq(Event)]
    /\ subscribers \in Seq(Subscriber)
    /\ DOMAIN queue = Subscriber
    /\ joined \in [Subscriber -> [Session -> Nat] \cup {None}]
    /\ pc \in [Thread -> Place]
    /\ session \in [Thread -> Session \cup {None}]
    /\ seq \in [Thread -> Nat]
    /\ call \in [Thread -> Nat]
    /\ targets \in [Thread -> Seq(Subscriber)]
    /\ executed \subseteq Nat
    /\ lastCall \in Nat /\ prompts \in Nat /\ faults \in Nat

\* What the place of a handler says about the event and the call it has at hand.
PlaceInv == \A t \in Thread :
    /\ pc[t].kind = "idle" <=> pc[t].step = "idle"
    /\ pc[t].kind = "idle" => call[t] = 0 /\ seq[t] = 0
    /\ pc[t].step = "run" => pc[t].kind = "tool_call"
    /\ Busy(t) => session[t] \in Session
    /\ pc[t].kind = "message_user" => call[t] = 0
    /\ pc[t].kind \in ToolKinds => call[t] > 0
    /\ call[t] <= lastCall
    /\ pc[t].step # "put" => targets[t] = <<>>

\* Where the event is that t is at.
OwnInv ==
    /\ \A t \in Thread : Busy(t) =>
        /\ seq[t] \in 0..Len(transcript[session[t]])
        /\ Wrote(t) => /\ seq[t] > 0
                       /\ transcript[session[t]][seq[t]] =
                             [type |-> pc[t].kind,
                              call |-> IF pc[t].kind \in Messages THEN 0 ELSE call[t]]
    /\ \A t, r \in Thread : t # r =>
        /\ call[t] = call[r] => call[t] = 0
        /\ Busy(t) /\ Busy(r) /\ session[t] = session[r] /\ seq[t] = seq[r] => seq[t] = 0

\* What the transcripts say about calls.
CallOf(s, n) == transcript[s][n].call
KindOf(s, n) == transcript[s][n].type

\* t has recorded the call it makes, and no outcome yet.
Open(t) ==
    \/ pc[t].kind = "tool_call" /\ pc[t].step # "append"
    \/ pc[t].kind \in Results /\ pc[t].step = "append"

\* Call c has its event and, after it, an outcome.
Completed(c) ==
    \E s \in Session : \E m, n \in DOMAIN transcript[s] :
        /\ m < n
        /\ CallOf(s, m) = c /\ KindOf(s, m) = "tool_call"
        /\ CallOf(s, n) = c /\ KindOf(s, n) \in Results

\* A call belongs to one session, begins with its tool_call event and ends with at
\* most one outcome; the handler that makes it knows how far it got.
CallInv ==
    /\ \A s \in Session : \A n \in DOMAIN transcript[s] :
        /\ CallOf(s, n) <= lastCall
        /\ KindOf(s, n) \in Messages <=> CallOf(s, n) = 0
    /\ \A s, r \in Session : \A m \in DOMAIN transcript[s], n \in DOMAIN transcript[r] :
        CallOf(s, m) = CallOf(r, n) /\ CallOf(s, m) # 0 =>
            /\ s = r
            /\ KindOf(s, m) = "tool_call" /\ m # n => m < n
            /\ KindOf(s, m) \in Results /\ KindOf(r, n) \in Results => m = n
    /\ \A t \in Thread, s \in Session : \A n \in DOMAIN transcript[s] :
        /\ pc[t] = At("tool_call", "append") => CallOf(s, n) # call[t]
        /\ Open(t) /\ CallOf(s, n) = call[t] => s = session[t] /\ n = seq[t]
    /\ \A t \in Thread : Open(t) => seq[t] > 0 /\
            transcript[session[t]][seq[t]] = [type |-> "tool_call", call |-> call[t]]

\* t has recorded the outcome of its call.
Resolved(t) ==
    \/ pc[t].kind \in Results /\ pc[t].step # "append"
    \/ pc[t].kind = "message_assistant" /\ call[t] > 0

\* A handler goes past the outcome of its call only when the transcript has it, and
\* without faults a call is complete or still in the hands of a handler.
CompletedInv ==
    /\ \A t \in Thread :
        Resolved(t) => Completed(call[t])
    /\ faults = 0 => \A c \in 1..lastCall : Completed(c) \/ \E t \in Thread : call[t] = c

\* A tool runs after its call is recorded and audited, once, and what ran is recorded
\* as failed only when its output was lost.
ExecutedInv ==
    /\ \A t \in Thread : pc[t].step = "run" =>
            BagIn([action |-> "tool_call", session |-> session[t], seq |-> seq[t]], audit)
    /\ \A c \in executed :
        /\ c \in 1..lastCall
        /\ \E s \in Session : \E n \in DOMAIN transcript[s] :
              /\ CallOf(s, n) = c /\ KindOf(s, n) = "tool_call"
              /\ BagIn([action |-> "tool_call", session |-> s, seq |-> n], audit)
        /\ \A t \in Thread : call[t] = c =>
              /\ pc[t].kind \in Results \cup {"message_assistant"}
              /\ pc[t].kind = "tool_error" => "output_lost" \in Outcomes
        /\ "output_lost" \notin Outcomes =>
              \A s \in Session : \A n \in DOMAIN transcript[s] :
                  CallOf(s, n) = c => KindOf(s, n) # "tool_error"

\* The handler still owes the audit log the entry of its recorded event.
AuditPending(t) ==
    \/ pc[t].kind \in Messages /\ pc[t].step = "audit"
    \/ pc[t].kind \in ToolKinds /\ pc[t].step \in {"publish", "put", "audit"}

\* The audit entry of the event at sequence n of session s.
EntryOf(s, n) == [action |-> KindOf(s, n), session |-> s, seq |-> n]

\* The audit log has every entry once, each for a recorded event, and without faults
\* all those that no handler still owes.
AuditInv ==
    /\ audit \in [DOMAIN audit -> {1}]
    /\ \A a \in DOMAIN audit : a \in Entry /\ Recorded(a.session, a.seq, a.action)
    /\ \A t \in Thread : AuditPending(t) => EntryOf(session[t], seq[t]) \notin DOMAIN audit
    /\ faults = 0 => \A s \in Session : \A n \in DOMAIN transcript[s] :
          \/ EntryOf(s, n) \in DOMAIN audit
          \/ \E t \in Thread : AuditPending(t) /\ session[t] = s /\ seq[t] = n

\* The handler still owes its recorded event to all subscribers.
PublishPending(t) ==
    \/ pc[t].kind \in Messages /\ pc[t].step \in {"audit", "publish"}
    \/ pc[t].kind \in ToolKinds /\ pc[t].step = "publish"

\* The handler still owes its recorded event to u.
Pending(t, u) == PublishPending(t) \/ (pc[t].step = "put" /\ u \in ToSet(targets[t]))

\* A sequence without duplicates.
Once(s) == \A i, j \in DOMAIN s : s[i] = s[j] => i = j

\* A queue has every event once, each of a transcript, none before its turn, and
\* without faults every event since its subscriber joined that no handler still owes it.
DeliveryInv ==
    /\ Once(subscribers)
    /\ \A u \in ToSet(subscribers) : joined[u] # None
    /\ \A t \in Thread : Once(targets[t])
    /\ \A u \in Subscriber :
         /\ queue[u] \in [DOMAIN queue[u] -> {1}]
         /\ \A e \in DOMAIN queue[u] : e \in Session \X Nat /\ e[2] \in DOMAIN transcript[e[1]]
         /\ \A t \in Thread : Pending(t, u) => <<session[t], seq[t]>> \notin DOMAIN queue[u]
         /\ faults = 0 /\ joined[u] # None =>
              /\ u \in ToSet(subscribers)
              /\ \A s \in Session : \A n \in DOMAIN transcript[s] : n > joined[u][s] =>
                   \/ <<s, n>> \in DOMAIN queue[u]
                   \/ \E t \in Thread : Pending(t, u) /\ session[t] = s /\ seq[t] = n

Inv == TypeInv /\ PlaceInv /\ OwnInv /\ CallInv /\ CompletedInv /\ ExecutedInv /\ AuditInv /\ DeliveryInv

-----------------------------------------------------------------------------
(* Bags without duplicates, and sequences *)

\* Adding an element to a bag without duplicates.
LEMMA BagAdd ==
    ASSUME NEW B, B \in [DOMAIN B -> {1}], NEW e
    PROVE  /\ DOMAIN (B (+) SetToBag({e})) = DOMAIN B \cup {e}
           /\ e \notin DOMAIN B => B (+) SetToBag({e}) \in [DOMAIN B \cup {e} -> {1}]
  BY DEF (+), SetToBag

\* Membership in a bag.
LEMMA BagParts ==
    ASSUME NEW B, NEW e
    PROVE  /\ BagIn(e, B) <=> e \in DOMAIN B
           /\ BagToSet(B) = DOMAIN B
           /\ DOMAIN EmptyBag = {}
  BY DEF BagIn, BagToSet, EmptyBag, SetToBag

\* Taking the first of a sequence without duplicates.
LEMMA HeadTail ==
    ASSUME NEW S, NEW q \in Seq(S), q # <<>>, Once(q)
    PROVE  /\ Head(q) \in S /\ Tail(q) \in Seq(S)
           /\ Once(Tail(q))
           /\ ToSet(q) = ToSet(Tail(q)) \cup {Head(q)}
           /\ Head(q) \notin ToSet(Tail(q))
  <1>1. /\ Len(q) \in Nat \ {0} /\ DOMAIN q = 1..Len(q)
        /\ Head(q) = q[1] /\ Tail(q) \in Seq(S)
        /\ DOMAIN Tail(q) = 1..(Len(q) - 1)
        /\ \A i \in 1..(Len(q) - 1) : Tail(q)[i] = q[i + 1]
    <2>1. Len(q) \in Nat \ {0} /\ DOMAIN q = 1..Len(q)
      BY LenProperties, EmptySeq
    <2>2. /\ Tail(q) \in Seq(S) /\ Len(Tail(q)) = Len(q) - 1
          /\ \A i \in 1..Len(Tail(q)) : Tail(q)[i] = q[i + 1]
      BY HeadTailProperties
    <2>3. DOMAIN Tail(q) = 1..Len(Tail(q))
      BY <2>2, LenProperties
    <2>4. Head(q) = q[1]
      OBVIOUS
    <2> QED  BY <2>1, <2>2, <2>3, <2>4
  <1>2. Once(Tail(q))
    BY <1>1 DEF Once
  <1>3. \A i \in 1..Len(q) : i = 1 \/ (i - 1 \in 1..(Len(q) - 1) /\ q[i] = Tail(q)[i - 1])
    BY <1>1
  <1>q. Head(q) \in S
    BY HeadTailProperties
  <1>4. ToSet(q) = ToSet(Tail(q)) \cup {Head(q)}
    <2>1. ASSUME NEW i \in 1..Len(q) PROVE q[i] \in ToSet(Tail(q)) \cup {Head(q)}
      <3>1. CASE i = 1
        BY <1>1, <3>1
      <3>2. CASE i # 1
        <4>1. i - 1 \in DOMAIN Tail(q) /\ q[i] = Tail(q)[i - 1]
          BY <1>1, <1>3, <3>2
        <4> QED  BY <4>1 DEF ToSet
      <3> QED  BY <3>1, <3>2
    <2>2. ToSet(Tail(q)) \cup {Head(q)} \subseteq ToSet(q)
      BY <1>1 DEF ToSet
    <2> QED  BY <1>1, <2>1, <2>2 DEF ToSet
  <1>5. Head(q) \notin ToSet(Tail(q))
    BY <1>1 DEF ToSet, Once
  <1> QED
    BY <1>q, <1>1, <1>2, <1>4, <1>5

\* Adding a new element to a sequence without duplicates.
LEMMA AppendOnce ==
    ASSUME NEW S, NEW q \in Seq(S), NEW e \in S, Once(q), e \notin ToSet(q)
    PROVE  Append(q, e) \in Seq(S) /\ Once(Append(q, e)) /\ ToSet(Append(q, e)) = ToSet(q) \cup {e}
  <1> DEFINE n == Len(q) + 1
  <1>1. /\ Len(q) \in Nat /\ DOMAIN q = 1..Len(q)
        /\ Append(q, e) \in Seq(S) /\ DOMAIN Append(q, e) = 1..n
        /\ \A i \in 1..Len(q) : Append(q, e)[i] = q[i]
        /\ Append(q, e)[n] = e
    BY LenProperties, AppendProperties
  <1>2. \A i \in 1..n : i = n \/ i \in 1..Len(q)
    BY <1>1
  <1>3. \A i \in 1..Len(q) : q[i] # e
    BY <1>1 DEF ToSet
  <1>4. Once(Append(q, e))
    BY <1>1, <1>2, <1>3 DEF Once
  <1>5. ToSet(Append(q, e)) = ToSet(q) \cup {e}
    BY <1>1, <1>2 DEF ToSet
  <1> QED
    BY <1>1, <1>4, <1>5

\* list.remove() on a list without duplicates (the subscribers of EventBus).
LEMMA RemoveOnce ==
    ASSUME NEW S, NEW q \in Seq(S), NEW e \in ToSet(q), Once(q)
    PROVE  /\ RemoveFirst(q, e) \in Seq(S)
           /\ Once(RemoveFirst(q, e))
           /\ ToSet(RemoveFirst(q, e)) = ToSet(q) \ {e}
  <1>1. Len(q) \in Nat /\ DOMAIN q = 1..Len(q) /\ \A i \in 1..Len(q) : q[i] \in S
    BY LenProperties, ElementOfSeq
  <1>2. PICK k \in 1..Len(q) : q[k] = e
    BY <1>1 DEF ToSet
  <1> DEFINE before == SubSeq(q, 1, k - 1)
             after == SubSeq(q, k + 1, Len(q))
             n == Len(q) - 1
             r == before \o after
  <1>3. RemoveFirst(q, e) = r
    <2>1. {i \in 1..Len(q) : q[i] = e} = {k}
      BY <1>1, <1>2 DEF Once
    <2>2. Min({k}) = k
      BY <1>1 DEF Min
    <2>3. SelectInSeq(q, LAMBDA v : v = e) = k
      BY <2>1, <2>2 DEF SelectInSeq
    <2> QED  BY <1>2, <2>3 DEF RemoveFirst, RemoveAt
  <1>4. /\ before \in Seq(S) /\ Len(before) = k - 1
        /\ \A i \in 1..(k - 1) : before[i] = q[i]
    <2>1. \A i \in 1..(k - 1) : q[i] \in S
      BY <1>1
    <2>2. 1 \in Int /\ k - 1 \in Int /\ k - 1 - 1 + 1 = k - 1
      BY <1>1
    <2>3. /\ before \in Seq(S)
          /\ Len(before) = IF 1 <= k - 1 THEN k - 1 - 1 + 1 ELSE 0
          /\ \A i \in 1..(k - 1 - 1 + 1) : before[i] = q[1 + i - 1]
      BY <2>1, <2>2, SubSeqProperties
    <2> QED  BY <1>1, <2>3
  <1>5. /\ after \in Seq(S) /\ Len(after) = Len(q) - k
        /\ \A i \in 1..(Len(q) - k) : after[i] = q[k + i]
    <2>1. \A i \in (k + 1)..Len(q) : q[i] \in S
      BY <1>1
    <2>2. k + 1 \in Int /\ Len(q) \in Int
      BY <1>1
    <2>3. /\ after \in Seq(S)
          /\ Len(after) = IF k + 1 <= Len(q) THEN Len(q) - (k + 1) + 1 ELSE 0
          /\ \A i \in 1..(Len(q) - (k + 1) + 1) : after[i] = q[k + 1 + i - 1]
      BY <2>1, <2>2, SubSeqProperties
    <2> HIDE DEF after
    <2>4. Len(after) = Len(q) - k
      <3>1. CASE k = Len(q)
        BY <1>1, <2>3, <3>1
      <3>2. CASE k # Len(q)
        <4>0. k \in Nat /\ Len(q) \in Nat /\ k <= Len(q)
          BY <1>1
        <4>1. k + 1 <= Len(q) /\ Len(q) - (k + 1) + 1 = Len(q) - k
          BY <3>2, <4>0
        <4> QED  BY <2>3, <4>1
      <3> QED  BY <3>1, <3>2
    <2>5. ASSUME NEW i \in 1..(Len(q) - k) PROVE after[i] = q[k + i]
      <3>1. i \in 1..(Len(q) - (k + 1) + 1) /\ k + 1 + i - 1 = k + i
        BY <1>1
      <3> QED  BY <2>3, <3>1
    <2> QED  BY <2>3, <2>4, <2>5
  <1>6. /\ r \in Seq(S) /\ DOMAIN r = 1..n
        /\ \A i \in 1..n : r[i] = IF i < k THEN q[i] ELSE q[i + 1]
    <2>1. /\ r \in Seq(S) /\ Len(r) = Len(before) + Len(after)
          /\ \A i \in 1..Len(before) + Len(after) : r[i] =
                  IF i <= Len(before) THEN before[i] ELSE after[i - Len(before)]
      BY <1>4, <1>5, ConcatProperties
    <2> HIDE DEF r, before, after
    <2>2. Len(r) = n /\ DOMAIN r = 1..n
      <3>1. Len(r) = n
        BY <1>1, <1>4, <1>5, <2>1
      <3> QED  BY <2>1, <3>1, LenProperties
    <2>3. ASSUME NEW i \in 1..n PROVE r[i] = IF i < k THEN q[i] ELSE q[i + 1]
      <3>0. /\ i \in 1..Len(before) + Len(after)
            /\ r[i] = IF i <= k - 1 THEN before[i] ELSE after[i - (k - 1)]
        BY <1>1, <1>4, <1>5, <2>1
      <3>1. CASE i < k
        <4>1. i \in 1..(k - 1)
          BY <1>1, <3>1
        <4> QED  BY <1>4, <3>0, <3>1, <4>1
      <3>2. CASE ~(i < k)
        <4>1. i - (k - 1) \in 1..(Len(q) - k) /\ k + (i - (k - 1)) = i + 1 /\ ~(i <= k - 1)
          BY <1>1, <3>2
        <4>2. r[i] = after[i - (k - 1)]
          BY <3>0, <4>1
        <4> QED  BY <1>5, <3>2, <4>1, <4>2
      <3> QED  BY <3>1, <3>2
    <2> QED  BY <2>1, <2>2, <2>3
  <1> HIDE DEF r, before, after
  <1>7. Once(r)
    <2> SUFFICES ASSUME NEW i \in 1..n, NEW j \in 1..n, r[i] = r[j] PROVE i = j
      BY <1>6 DEF Once
    <2> DEFINE From(m) == IF m < k THEN m ELSE m + 1
    <2>1. /\ From(i) \in DOMAIN q /\ r[i] = q[From(i)]
          /\ From(j) \in DOMAIN q /\ r[j] = q[From(j)]
      BY <1>1, <1>6
    <2>2. From(i) = From(j)
      BY <2>1 DEF Once
    <2> QED  BY <1>1, <2>2
  <1>8. ToSet(r) \subseteq ToSet(q) \ {e}
    BY <1>1, <1>2, <1>6 DEF Once, ToSet
  <1>9. ASSUME NEW i \in 1..Len(q), q[i] # e PROVE q[i] \in ToSet(r)
    <2>1. CASE i < k
      BY <1>1, <1>6, <2>1 DEF ToSet
    <2>2. CASE i > k
      <3>1. i - 1 \in 1..n /\ ~(i - 1 < k) /\ (i - 1) + 1 = i
        BY <1>1, <2>2
      <3>2. r[i - 1] = q[i]
        BY <1>6, <3>1
      <3> QED  BY <1>6, <3>1, <3>2 DEF ToSet
    <2> QED  BY <1>1, <1>2, <1>9, <2>1, <2>2
  <1>10. ToSet(q) \ {e} \subseteq ToSet(r)
    BY <1>1, <1>9 DEF ToSet
  <1> QED
    BY <1>3, <1>6, <1>7, <1>8, <1>10

-----------------------------------------------------------------------------
(* Storage.append_event *)

\* append_event() records the event of a handler at the next sequence and keeps the
\* invariant (Storage.append_event).
LEMMA AppendEventStep ==
    ASSUME NEW t \in Thread, Inv, AppendEvent(t)
    PROVE  Inv'
  <1>0. PICK s, N : s = session[t] /\ N = Len(transcript[s]) + 1
    OBVIOUS
  <1> DEFINE kind == pc[t].kind
             ev == [type |-> kind, call |-> IF kind \in Messages THEN 0 ELSE call[t]]
             step == IF kind \in Messages THEN "audit" ELSE "publish"
  <1>1. /\ s \in Session /\ kind \in Messages \cup ToolKinds /\ kind # "idle"
        /\ pc[t].step = "append" /\ Busy(t)
        /\ transcript[s] \in Seq(Event) /\ call[t] \in Nat /\ ev \in Event
        /\ targets[t] = <<>>
    BY <1>0 DEF Inv, TypeInv, PlaceInv, AppendEvent, Busy, Place, Event, Kinds
  <1>2. /\ transcript' = [transcript EXCEPT ![s] = Append(@, ev)]
        /\ seq' = [seq EXCEPT ![t] = Len(transcript'[s])]
        /\ pc' = [pc EXCEPT ![t] = At(kind, step)]
        /\ audit' = audit /\ subscribers' = subscribers /\ queue' = queue /\ joined' = joined
        /\ session' = session /\ call' = call /\ targets' = targets /\ executed' = executed
        /\ lastCall' = lastCall /\ prompts' = prompts /\ faults' = faults
    BY <1>0 DEF AppendEvent, Goto, bus
  <1>3. /\ transcript' \in [Session -> Seq(Event)]
        /\ transcript'[s] = Append(transcript[s], ev)
        /\ \A r \in Session \ {s} : transcript'[r] = transcript[r]
    BY <1>1, <1>2 DEF Inv, TypeInv
  <1>4. /\ \A r \in Session : /\ Len(transcript[r]) \in Nat
                              /\ DOMAIN transcript[r] = 1..Len(transcript[r])
                              /\ DOMAIN transcript'[r] = 1..Len(transcript'[r])
                              /\ Len(transcript[r]) <= Len(transcript'[r])
        /\ N \in Nat /\ N > 0 /\ Len(transcript'[s]) = N /\ transcript'[s][N] = ev
        /\ \A r \in Session : \A n \in DOMAIN transcript[r] :
              /\ n \in DOMAIN transcript'[r] /\ transcript'[r][n] = transcript[r][n]
              /\ n \in Nat /\ n > 0 /\ (r = s => n < N)
        /\ \A r \in Session : \A n \in DOMAIN transcript'[r] :
              n \in DOMAIN transcript[r] \/ (r = s /\ n = N)
    <2>1. /\ Len(transcript[s]) \in Nat /\ DOMAIN transcript[s] = 1..Len(transcript[s])
          /\ DOMAIN transcript'[s] = 1..N /\ Len(transcript'[s]) = N
          /\ transcript'[s][N] = ev
          /\ \A n \in 1..Len(transcript[s]) : transcript'[s][n] = transcript[s][n]
      BY <1>0, <1>1, <1>3, LenProperties, AppendProperties
    <2>2. \A r \in Session : Len(transcript[r]) \in Nat /\ DOMAIN transcript[r] = 1..Len(transcript[r])
      BY LenProperties DEF Inv, TypeInv
    <2>3. ASSUME NEW r \in Session
          PROVE  /\ DOMAIN transcript'[r] = 1..Len(transcript'[r])
                 /\ Len(transcript[r]) <= Len(transcript'[r])
                 /\ \A n \in DOMAIN transcript[r] :
                       /\ n \in DOMAIN transcript'[r] /\ transcript'[r][n] = transcript[r][n]
                       /\ n \in Nat /\ n > 0 /\ (r = s => n < N)
                 /\ \A n \in DOMAIN transcript'[r] :
                       n \in DOMAIN transcript[r] \/ (r = s /\ n = N)
      <3>1. CASE r = s
        BY <1>0, <2>1, <3>1
      <3>2. CASE r # s
        BY <1>3, <2>2, <3>2
      <3> QED  BY <3>1, <3>2
    <2> QED  BY <1>0, <2>1, <2>2, <2>3
  <1>5. /\ seq' \in [Thread -> Nat] /\ seq'[t] = N
        /\ pc' \in [Thread -> Place] /\ pc'[t] = At(kind, step)
        /\ pc'[t].kind = kind /\ pc'[t].step = step
        /\ \A r \in Thread \ {t} : seq'[r] = seq[r] /\ pc'[r] = pc[r]
    BY <1>1, <1>2, <1>4 DEF Inv, TypeInv, Place, At, Kinds
  <1> HIDE DEF kind, ev, step
  <1>6. TypeInv'
    BY <1>2, <1>3, <1>5 DEF Inv, TypeInv
  <1>7. PlaceInv'
    BY <1>1, <1>2, <1>5 DEF Inv, TypeInv, PlaceInv, Busy, At, ToolKinds, Messages, step, kind, Place
  <1>8. /\ \A r \in Thread : Busy(r)' <=> Busy(r)
        /\ Wrote(t)' /\ ~Wrote(t)
        /\ \A r \in Thread \ {t} : Wrote(r)' <=> Wrote(r)
    BY <1>1, <1>5 DEF Busy, Wrote, step, kind
  <1>9. OwnInv'
    <2>1. ASSUME NEW r \in Thread, Busy(r)'
          PROVE  /\ seq'[r] \in 0..Len(transcript'[session'[r]])
                 /\ Wrote(r)' =>
                      /\ seq'[r] > 0
                      /\ transcript'[session'[r]][seq'[r]] =
                          [type |-> pc'[r].kind,
                           call |-> IF pc'[r].kind \in Messages THEN 0 ELSE call'[r]]
      <3>1. CASE r = t
        BY <1>0, <1>2, <1>4, <1>5, <3>1 DEF ev, kind
      <3>2. CASE r # t
        <4>1. /\ session[r] \in Session /\ seq[r] \in 0..Len(transcript[session[r]])
              /\ seq'[r] = seq[r] /\ pc'[r] = pc[r] /\ session'[r] = session[r] /\ call'[r] = call[r]
              /\ Wrote(r)' <=> Wrote(r)
          BY <1>2, <1>5, <1>8, <2>1, <3>2 DEF Inv, PlaceInv, OwnInv
        <4>2. Wrote(r) =>
                /\ seq[r] > 0
                /\ seq[r] \in DOMAIN transcript[session[r]]
                /\ transcript[session[r]][seq[r]] =
                        [type |-> pc[r].kind,
                         call |-> IF pc[r].kind \in Messages THEN 0 ELSE call[r]]
          BY <1>4, <1>8, <2>1, <4>1 DEF Inv, OwnInv
        <4>3. seq'[r] \in 0..Len(transcript'[session'[r]])
          BY <1>4, <4>1
        <4> QED  BY <1>4, <4>1, <4>2, <4>3
      <3> QED  BY <3>1, <3>2
    <2>2. ASSUME NEW r \in Thread \ {t}, Busy(r), session[r] = s PROVE seq[r] < N
      <3>1. seq[r] \in 0..Len(transcript[s]) /\ Len(transcript[s]) \in Nat
        BY <1>1, <1>4, <2>2 DEF Inv, OwnInv
      <3> QED  BY <1>0, <3>1
    <2>3. \A r, q \in Thread : r # q =>
            /\ call'[r] = call'[q] => call'[r] = 0
            /\ Busy(r)' /\ Busy(q)' /\ session'[r] = session'[q] /\ seq'[r] = seq'[q] => seq'[r] = 0
      <3>1. \A r \in Thread \ {t} : Busy(r) /\ session[r] = s => seq[r] # N /\ session[t] = s
        BY <1>0, <1>4, <2>2 DEF Inv, OwnInv
      <3>2. \A r, q \in Thread : r # q =>
              /\ call[r] = call[q] => call[r] = 0
              /\ Busy(r) /\ Busy(q) /\ session[r] = session[q] /\ seq[r] = seq[q] => seq[r] = 0
        BY DEF Inv, OwnInv
      <3> QED  BY <1>0, <1>2, <1>5, <1>8, <3>1, <3>2
    <2> QED  BY <2>1, <2>3 DEF OwnInv
  <1>10. /\ ev.call <= lastCall /\ ev.call \in Nat /\ ev.type = kind
         /\ kind \in Messages <=> ev.call = 0
         /\ ev.call # 0 => ev.call = call[t]
         /\ kind \in ToolKinds => call[t] > 0 /\ ev.call = call[t]
    BY <1>1 DEF Inv, TypeInv, PlaceInv, ev, kind, Messages, ToolKinds
  <1>11. ASSUME NEW r \in Session, NEW n \in DOMAIN transcript[r],
                CallOf(r, n) = ev.call, ev.call # 0
         PROVE  r = s /\ kind \in Results /\ KindOf(r, n) = "tool_call"
    <2>1. kind \in ToolKinds /\ CallOf(r, n) = call[t]
      BY <1>1, <1>10, <1>11
    <2>2. CASE kind = "tool_call"
      <3>1. pc[t] = At("tool_call", "append")
        BY <1>1, <2>2 DEF Inv, TypeInv, Place, At, kind
      <3> QED  BY <2>1, <3>1 DEF Inv, CallInv
    <2>3. CASE kind \in Results
      <3>1. Open(t)
        BY <1>1, <2>3 DEF Open, kind
      <3>2. r = session[t] /\ n = seq[t]
            /\ transcript[session[t]][seq[t]] = [type |-> "tool_call", call |-> call[t]]
        BY <2>1, <3>1 DEF Inv, CallInv
      <3> QED  BY <1>0, <2>3, <3>2 DEF KindOf
    <2> QED  BY <2>1, <2>2, <2>3 DEF ToolKinds, Results
  <1>12. /\ \A r \in Session : \A n \in DOMAIN transcript[r] :
               CallOf(r, n)' = CallOf(r, n) /\ KindOf(r, n)' = KindOf(r, n)
         /\ CallOf(s, N)' = ev.call /\ KindOf(s, N)' = kind
    <2>1. ASSUME NEW r \in Session, NEW n \in DOMAIN transcript[r]
          PROVE  CallOf(r, n)' = CallOf(r, n) /\ KindOf(r, n)' = KindOf(r, n)
      BY <1>4 DEF CallOf, KindOf
    <2>2. CallOf(s, N)' = ev.call /\ KindOf(s, N)' = kind
      BY <1>4, <1>10 DEF CallOf, KindOf
    <2> QED  BY <2>1, <2>2
  <1>13. CallInv'
    <2>1. \A r \in Session : \A n \in DOMAIN transcript'[r] :
            /\ CallOf(r, n)' <= lastCall'
            /\ KindOf(r, n)' \in Messages <=> CallOf(r, n)' = 0
      BY <1>2, <1>4, <1>10, <1>12 DEF Inv, CallInv
    <2>2. ASSUME NEW r \in Session, NEW q \in Session,
                 NEW m \in DOMAIN transcript'[r], NEW n \in DOMAIN transcript'[q],
                 CallOf(r, m)' = CallOf(q, n)', CallOf(r, m)' # 0
          PROVE  /\ r = q
                 /\ KindOf(r, m)' = "tool_call" /\ m # n => m < n
                 /\ KindOf(r, m)' \in Results /\ KindOf(q, n)' \in Results => m = n
      <3>1. CASE m \in DOMAIN transcript[r] /\ n \in DOMAIN transcript[q]
        BY <1>12, <2>2, <3>1 DEF Inv, CallInv
      <3>2. CASE m \in DOMAIN transcript[r] /\ q = s /\ n = N
        BY <1>4, <1>11, <1>12, <2>2, <3>2 DEF Results
      <3>3. CASE r = s /\ m = N /\ n \in DOMAIN transcript[q]
        BY <1>11, <1>12, <2>2, <3>3 DEF Results
      <3>4. CASE r = s /\ m = N /\ q = s /\ n = N
        BY <3>4
      <3> QED  BY <1>4, <3>1, <3>2, <3>3, <3>4
    <2>3. ASSUME NEW q \in Thread, NEW r \in Session, NEW n \in DOMAIN transcript'[r]
          PROVE  /\ pc'[q] = At("tool_call", "append") => CallOf(r, n)' # call'[q]
                 /\ Open(q)' /\ CallOf(r, n)' = call'[q] => r = session'[q] /\ n = seq'[q]
      <3>1. CASE q = t
        <4>1. /\ pc'[t] # At("tool_call", "append")
              /\ Open(t)' => kind = "tool_call" /\ ev.call # 0 /\ ev.call = call[t]
          BY <1>5, <1>10 DEF Open, At, step, Messages, Results, ToolKinds
        <4>2. CASE n \in DOMAIN transcript[r]
          BY <1>2, <1>11, <1>12, <3>1, <4>1, <4>2 DEF Results
        <4>3. CASE r = s /\ n = N
          BY <1>0, <1>2, <1>5, <3>1, <4>1, <4>3
        <4> QED  BY <1>4, <4>2, <4>3
      <3>2. CASE q # t
        <4>1. /\ pc'[q] = pc[q] /\ session'[q] = session[q] /\ seq'[q] = seq[q] /\ call'[q] = call[q]
              /\ Open(q)' <=> Open(q)
          BY <1>2, <1>5, <3>2 DEF Open
        <4>2. CASE n \in DOMAIN transcript[r]
          BY <1>12, <4>1, <4>2 DEF Inv, CallInv
        <4>3. CASE r = s /\ n = N
          <5>1. pc[q] = At("tool_call", "append") \/ Open(q) => call[q] > 0 /\ call[q] \in Nat
            BY DEF Inv, TypeInv, PlaceInv, Open, At, ToolKinds, Results
          <5>2. call[q] > 0 => call[q] # call[t]
            BY <3>2 DEF Inv, TypeInv, OwnInv
          <5> QED  BY <1>10, <1>12, <4>1, <4>3, <5>1, <5>2
        <4> QED  BY <1>4, <4>2, <4>3
      <3> QED  BY <3>1, <3>2
    <2>4. ASSUME NEW q \in Thread, Open(q)'
          PROVE  seq'[q] > 0 /\ transcript'[session'[q]][seq'[q]] =
                                  [type |-> "tool_call", call |-> call'[q]]
      <3>1. CASE q = t
        <4>1. kind = "tool_call"
          BY <1>5, <2>4, <3>1 DEF Open, step, Messages, Results
        <4> QED  BY <1>0, <1>2, <1>4, <1>5, <3>1, <4>1 DEF ev, Messages
      <3>2. CASE q # t
        <4>1. Open(q) /\ pc'[q] = pc[q] /\ session'[q] = session[q] /\ seq'[q] = seq[q] /\ call'[q] = call[q]
          BY <1>2, <1>5, <2>4, <3>2 DEF Open
        <4>2. /\ seq[q] > 0 /\ session[q] \in Session
              /\ transcript[session[q]][seq[q]] = [type |-> "tool_call", call |-> call[q]]
              /\ seq[q] \in 0..Len(transcript[session[q]])
          BY <4>1 DEF Inv, CallInv, PlaceInv, OwnInv, Open, Busy, Results
        <4> QED  BY <1>4, <4>1, <4>2
      <3> QED  BY <3>1, <3>2
    <2> QED  BY <2>1, <2>2, <2>3, <2>4 DEF CallInv
  <1>14. ASSUME NEW c, Completed(c) PROVE Completed(c)'
    <2>1. PICK r \in Session : \E m, n \in DOMAIN transcript[r] :
              /\ m < n
              /\ CallOf(r, m) = c /\ KindOf(r, m) = "tool_call"
              /\ CallOf(r, n) = c /\ KindOf(r, n) \in Results
      BY <1>14 DEF Completed
    <2>2. PICK m \in DOMAIN transcript[r], n \in DOMAIN transcript[r] :
              /\ m < n
              /\ CallOf(r, m) = c /\ KindOf(r, m) = "tool_call"
              /\ CallOf(r, n) = c /\ KindOf(r, n) \in Results
      BY <2>1
    <2>3. /\ m \in DOMAIN transcript'[r] /\ n \in DOMAIN transcript'[r] /\ m < n
          /\ CallOf(r, m)' = c /\ KindOf(r, m)' = "tool_call"
          /\ CallOf(r, n)' = c /\ KindOf(r, n)' \in Results
      BY <1>4, <1>12, <2>2
    <2> QED  BY <2>3 DEF Completed
  <1>15. \A q \in Thread : /\ pc'[q].kind = pc[q].kind /\ session'[q] = session[q] /\ call'[q] = call[q]
                           /\ q # t => pc'[q] = pc[q] /\ seq'[q] = seq[q]
    BY <1>2, <1>5 DEF kind
  <1>16. CompletedInv'
    <2>1. ASSUME NEW q \in Thread, Resolved(q)'
          PROVE  Completed(call[q])'
      <3>1. CASE Completed(call[q])
        <4> DEFINE c == call[q]
        <4>1. PICK d : d = call[q]
          OBVIOUS
        <4>2. Completed(d)'
          BY <1>14, <3>1, <4>1
        <4> QED  BY <1>15, <4>1, <4>2 DEF Completed
      <3>2. CASE ~Completed(call[q])
        <4>0. ~Resolved(q)
          BY <3>2 DEF Inv, CompletedInv
        <4>1. q = t /\ kind \in Results
          BY <1>15, <2>1, <4>0 DEF Resolved, kind
        <4>2. Open(t) /\ ev.call = call[t]
          BY <1>1, <1>10, <4>1 DEF Open, kind, Results, ToolKinds
        <4>6. /\ seq[t] > 0 /\ seq[t] \in 0..Len(transcript[s]) /\ Len(transcript[s]) \in Nat
              /\ transcript[s][seq[t]] = [type |-> "tool_call", call |-> call[t]]
          BY <1>0, <1>1, <1>4, <4>2 DEF Inv, CallInv, OwnInv
        <4>3. /\ seq[t] \in DOMAIN transcript[s] /\ seq[t] < N
              /\ CallOf(s, seq[t]) = call[t] /\ KindOf(s, seq[t]) = "tool_call"
          BY <1>0, <1>1, <1>4, <4>6 DEF CallOf, KindOf
        <4>4. PICK m : m = seq[t]
          OBVIOUS
        <4>5. /\ m \in DOMAIN transcript'[s] /\ N \in DOMAIN transcript'[s] /\ m < N
              /\ CallOf(s, m)' = call'[q] /\ KindOf(s, m)' = "tool_call"
              /\ CallOf(s, N)' = call'[q] /\ KindOf(s, N)' \in Results
          BY <1>1, <1>4, <1>12, <1>15, <4>1, <4>2, <4>3, <4>4
        <4> QED  BY <1>1, <4>5 DEF Completed
      <3> QED  BY <3>1, <3>2
    <2>2. faults' = 0 => \A c \in 1..lastCall' : Completed(c)' \/ \E q \in Thread : call'[q] = c
      BY <1>2, <1>14 DEF Inv, CompletedInv
    <2> QED  BY <2>1, <2>2 DEF CompletedInv
  <1>17. ExecutedInv'
    <2>1. ASSUME NEW q \in Thread, pc'[q].step = "run"
          PROVE  BagIn([action |-> "tool_call", session |-> session[q], seq |-> seq[q]], audit)'
      <3>1. q # t /\ pc[q].step = "run"
        BY <1>5, <1>15, <2>1 DEF step
      <3>2. session'[q] = session[q] /\ seq'[q] = seq[q] /\ audit' = audit
        BY <1>2, <1>15, <3>1
      <3>3. BagIn([action |-> "tool_call", session |-> session[q], seq |-> seq[q]], audit)
        BY <3>1 DEF Inv, ExecutedInv
      <3> QED  BY <3>2, <3>3, BagParts DEF BagIn
    <2>2. ASSUME NEW c \in executed'
          PROVE  /\ c \in 1..lastCall'
                 /\ \E r \in Session : \E n \in DOMAIN transcript'[r] :
                      /\ CallOf(r, n)' = c /\ KindOf(r, n)' = "tool_call"
                      /\ BagIn([action |-> "tool_call", session |-> r, seq |-> n], audit)'
                 /\ \A q \in Thread : call'[q] = c =>
                      /\ pc'[q].kind \in Results \cup {"message_assistant"}
                      /\ pc'[q].kind = "tool_error" => "output_lost" \in Outcomes
                 /\ "output_lost" \notin Outcomes =>
                      \A r \in Session : \A n \in DOMAIN transcript'[r] :
                          CallOf(r, n)' = c => KindOf(r, n)' # "tool_error"
      <3>1. c \in executed /\ c \in 1..lastCall'
        BY <1>2, <2>2 DEF Inv, ExecutedInv
      <3>2. PICK r \in Session : \E n \in DOMAIN transcript[r] :
              /\ CallOf(r, n) = c /\ KindOf(r, n) = "tool_call"
              /\ BagIn([action |-> "tool_call", session |-> r, seq |-> n], audit)
        BY <3>1 DEF Inv, ExecutedInv
      <3>6. PICK n \in DOMAIN transcript[r] :
              /\ CallOf(r, n) = c /\ KindOf(r, n) = "tool_call"
              /\ BagIn([action |-> "tool_call", session |-> r, seq |-> n], audit)
        BY <3>2
      <3>3. /\ n \in DOMAIN transcript'[r] /\ CallOf(r, n)' = c /\ KindOf(r, n)' = "tool_call"
            /\ BagIn([action |-> "tool_call", session |-> r, seq |-> n], audit)'
        BY <1>2, <1>4, <1>12, <3>6 DEF BagIn
      <3>4. \A q \in Thread : call'[q] = c =>
                      /\ pc'[q].kind \in Results \cup {"message_assistant"}
                      /\ pc'[q].kind = "tool_error" => "output_lost" \in Outcomes
        BY <1>15, <3>1 DEF Inv, ExecutedInv
      <3>5. ASSUME "output_lost" \notin Outcomes, NEW p \in Session, NEW m \in DOMAIN transcript'[p],
                   CallOf(p, m)' = c
            PROVE  KindOf(p, m)' # "tool_error"
        <4>1. CASE m \in DOMAIN transcript[p]
          BY <1>12, <3>1, <3>5, <4>1 DEF Inv, ExecutedInv
        <4>2. CASE p = s /\ m = N
          <5>1. c = ev.call /\ c # 0
            BY <1>12, <3>1, <3>5, <4>2
          <5>2. call'[t] = c
            BY <1>2, <1>10, <5>1
          <5> QED  BY <1>5, <1>12, <3>4, <3>5, <4>2, <5>2
        <4> QED  BY <1>4, <4>1, <4>2
      <3> QED  BY <3>1, <3>3, <3>4, <3>5
    <2> QED  BY <2>1, <2>2 DEF ExecutedInv
  <1>18. \A q \in Thread \ {t} :
           /\ AuditPending(q)' <=> AuditPending(q)
           /\ PublishPending(q)' <=> PublishPending(q)
           /\ AuditPending(q) \/ PublishPending(q) \/ pc[q].step = "put" =>
                /\ session[q] \in Session /\ seq[q] \in DOMAIN transcript[session[q]]
                /\ session'[q] = session[q] /\ seq'[q] = seq[q] /\ pc'[q] = pc[q]
    <2>1. ASSUME NEW q \in Thread \ {t} PROVE pc'[q] = pc[q]
      BY <1>15
    <2>2. ASSUME NEW q \in Thread \ {t}, AuditPending(q) \/ PublishPending(q) \/ pc[q].step = "put"
          PROVE  session[q] \in Session /\ seq[q] \in DOMAIN transcript[session[q]]
      <3>1. Wrote(q)
        BY <2>2 DEF AuditPending, PublishPending, Wrote, Busy, Inv, PlaceInv, Messages, ToolKinds
      <3>2. session[q] \in Session /\ seq[q] > 0 /\ seq[q] \in 0..Len(transcript[session[q]])
        BY <3>1 DEF Wrote, Inv, PlaceInv, OwnInv
      <3> QED  BY <1>4, <3>2
    <2> QED  BY <1>15, <2>1, <2>2 DEF AuditPending, PublishPending
  <1>19. AuditPending(t)' /\ ~AuditPending(t)
    BY <1>1, <1>5 DEF AuditPending, step, kind, Messages, ToolKinds
  <1>20. /\ \A r \in Session : \A n \in DOMAIN transcript[r] : EntryOf(r, n)' = EntryOf(r, n)
         /\ EntryOf(s, N)' = [action |-> kind, session |-> s, seq |-> N]
    BY <1>12 DEF EntryOf
  <1>21. AuditInv'
    <2>1. audit' \in [DOMAIN audit' -> {1}]
      BY <1>2 DEF Inv, AuditInv
    <2>2. ASSUME NEW a \in DOMAIN audit'
          PROVE  a \in Entry /\ Recorded(a.session, a.seq, a.action)'
      BY <1>2, <1>4 DEF Inv, AuditInv, Recorded, Entry
    <2>3. [action |-> kind, session |-> s, seq |-> N] \notin DOMAIN audit
      BY <1>0, <1>1, <1>4 DEF Inv, AuditInv, Recorded
    <2>4. ASSUME NEW q \in Thread, AuditPending(q)'
          PROVE  EntryOf(session[q], seq[q])' \notin DOMAIN audit'
      <3>1. CASE q = t
        <4>1. session'[q] = s /\ seq'[q] = N
          BY <1>0, <1>5, <1>15, <3>1
        <4>2. EntryOf(session[q], seq[q])' = EntryOf(s, N)'
          BY <4>1 DEF EntryOf, KindOf
        <4> QED  BY <1>2, <1>20, <2>3, <4>2
      <3>2. CASE q # t
        <4>1. /\ AuditPending(q) /\ session[q] \in Session /\ seq[q] \in DOMAIN transcript[session[q]]
              /\ session'[q] = session[q] /\ seq'[q] = seq[q]
          BY <1>18, <2>4, <3>2
        <4>2. PICK r, n : r \in Session /\ r = session[q] /\ n = seq[q] /\ n \in DOMAIN transcript[r]
          BY <4>1
        <4>3. EntryOf(r, n) \notin DOMAIN audit
          BY <4>1, <4>2 DEF Inv, AuditInv
        <4>4. EntryOf(session[q], seq[q])' = EntryOf(r, n)'
          BY <4>1, <4>2 DEF EntryOf, KindOf
        <4> QED  BY <1>2, <1>20, <4>2, <4>3, <4>4
      <3> QED  BY <3>1, <3>2
    <2>5. ASSUME faults' = 0, NEW r \in Session, NEW n \in DOMAIN transcript'[r]
          PROVE  \/ EntryOf(r, n)' \in DOMAIN audit'
                 \/ \E q \in Thread : AuditPending(q)' /\ session'[q] = r /\ seq'[q] = n
      <3>1. CASE r = s /\ n = N
        BY <1>0, <1>5, <1>15, <1>19, <3>1
      <3>2. CASE n \in DOMAIN transcript[r] /\ EntryOf(r, n) \in DOMAIN audit
        BY <1>2, <1>20, <3>2
      <3>3. CASE n \in DOMAIN transcript[r] /\ EntryOf(r, n) \notin DOMAIN audit
        <4>1. PICK q \in Thread : AuditPending(q) /\ session[q] = r /\ seq[q] = n
          BY <1>2, <2>5, <3>3 DEF Inv, AuditInv
        <4> QED  BY <1>18, <1>19, <4>1
      <3> QED  BY <1>4, <3>1, <3>2, <3>3
    <2> QED  BY <2>1, <2>2, <2>4, <2>5 DEF AuditInv
  <1>22. DeliveryInv'
    <2>1. /\ Once(subscribers') /\ \A u \in ToSet(subscribers') : joined'[u] # None
          /\ \A q \in Thread : Once(targets'[q])
      BY <1>2 DEF Inv, DeliveryInv
    <2>2. ASSUME NEW u \in Subscriber
          PROVE  /\ queue'[u] \in [DOMAIN queue'[u] -> {1}]
                 /\ \A e \in DOMAIN queue'[u] : e \in Session \X Nat /\ e[2] \in DOMAIN transcript'[e[1]]
      BY <1>2, <1>4 DEF Inv, DeliveryInv
    <2>3. \A q \in Thread \ {t}, u \in Subscriber : Pending(q, u)' <=> Pending(q, u)
      BY <1>2, <1>15, <1>18 DEF Pending
    <2>4. \A u \in Subscriber : Pending(t, u)' /\ ~Pending(t, u)
      BY <1>1, <1>5 DEF Pending, PublishPending, step, kind, Messages, ToolKinds
    <2>5. ASSUME NEW u \in Subscriber, NEW q \in Thread, Pending(q, u)'
          PROVE  <<session'[q], seq'[q]>> \notin DOMAIN queue'[u]
      <3>1. CASE q = t
        <4>1. ASSUME <<s, N>> \in DOMAIN queue[u] PROVE FALSE
          <5>1. N \in DOMAIN transcript[s]
            BY <4>1 DEF Inv, DeliveryInv
          <5> QED  BY <1>1, <1>4, <5>1
        <4> QED  BY <1>0, <1>2, <1>5, <1>15, <3>1, <4>1
      <3>2. CASE q # t
        <4>1. Pending(q, u) /\ session'[q] = session[q] /\ seq'[q] = seq[q]
          BY <1>15, <2>3, <2>5, <3>2
        <4> QED  BY <1>2, <4>1 DEF Inv, DeliveryInv
      <3> QED  BY <3>1, <3>2
    <2>6. ASSUME NEW u \in Subscriber, faults' = 0, joined'[u] # None
          PROVE  /\ u \in ToSet(subscribers')
                 /\ \A r \in Session : \A n \in DOMAIN transcript'[r] : n > joined'[u][r] =>
                       \/ <<r, n>> \in DOMAIN queue'[u]
                       \/ \E q \in Thread : Pending(q, u)' /\ session'[q] = r /\ seq'[q] = n
      <3>1. u \in ToSet(subscribers')
        BY <1>2, <2>6 DEF Inv, DeliveryInv
      <3>2. ASSUME NEW r \in Session, NEW n \in DOMAIN transcript'[r], n > joined'[u][r]
            PROVE  \/ <<r, n>> \in DOMAIN queue'[u]
                   \/ \E q \in Thread : Pending(q, u)' /\ session'[q] = r /\ seq'[q] = n
        <4>1. CASE r = s /\ n = N
          BY <1>0, <1>5, <1>15, <2>4, <4>1
        <4>2. CASE n \in DOMAIN transcript[r]
          <5>1. \/ <<r, n>> \in DOMAIN queue[u]
                \/ \E q \in Thread : Pending(q, u) /\ session[q] = r /\ seq[q] = n
            BY <1>2, <2>6, <3>2, <4>2 DEF Inv, DeliveryInv
          <5> QED  BY <1>2, <1>15, <2>3, <2>4, <5>1
        <4> QED  BY <1>4, <4>1, <4>2
      <3> QED  BY <3>1, <3>2
    <2> QED  BY <2>1, <2>2, <2>5, <2>6 DEF DeliveryInv
  <1> QED
    BY <1>6, <1>7, <1>9, <1>13, <1>16, <1>17, <1>21, <1>22 DEF Inv

-----------------------------------------------------------------------------
(* What does not change with the transcript *)

\* What is said of calls depends on the transcript only.
LEMMA SameTranscript ==
    ASSUME transcript' = transcript
    PROVE  /\ \A s, n : /\ CallOf(s, n)' = CallOf(s, n) /\ KindOf(s, n)' = KindOf(s, n)
                        /\ EntryOf(s, n)' = EntryOf(s, n)
           /\ \A c : Completed(c)' <=> Completed(c)
           /\ \A s, n, kind : Recorded(s, n, kind)' <=> Recorded(s, n, kind)
  BY DEF CallOf, KindOf, EntryOf, Completed, Recorded

\* The event a thread has recorded and its entry in the audit log.
LEMMA OwnEvent ==
    ASSUME Inv, NEW t \in Thread, Wrote(t)
    PROVE  /\ session[t] \in Session /\ seq[t] \in Nat /\ seq[t] > 0
           /\ seq[t] \in DOMAIN transcript[session[t]]
           /\ KindOf(session[t], seq[t]) = pc[t].kind
           /\ CallOf(session[t], seq[t]) = IF pc[t].kind \in Messages THEN 0 ELSE call[t]
           /\ EntryOf(session[t], seq[t]) =
                  [action |-> pc[t].kind, session |-> session[t], seq |-> seq[t]]
           /\ \A r \in Thread \ {t} :
                  Busy(r) => session[r] # session[t] \/ seq[r] # seq[t]
  <1>1. /\ Busy(t) /\ session[t] \in Session /\ transcript[session[t]] \in Seq(Event)
        /\ seq[t] \in 0..Len(transcript[session[t]]) /\ seq[t] > 0
        /\ transcript[session[t]][seq[t]] =
               [type |-> pc[t].kind, call |-> IF pc[t].kind \in Messages THEN 0 ELSE call[t]]
    BY DEF Inv, TypeInv, PlaceInv, OwnInv, Wrote
  <1>2. /\ Len(transcript[session[t]]) \in Nat
        /\ DOMAIN transcript[session[t]] = 1..Len(transcript[session[t]])
    BY <1>1, LenProperties
  <1>3. seq[t] \in Nat /\ seq[t] \in DOMAIN transcript[session[t]]
    BY <1>1, <1>2
  <1>4. \A r \in Thread \ {t} : Busy(r) => session[r] # session[t] \/ seq[r] # seq[t]
    BY <1>1 DEF Inv, OwnInv
  <1> QED
    BY <1>1, <1>3, <1>4 DEF KindOf, CallOf, EntryOf

-----------------------------------------------------------------------------
(* MiniAgent._audit *)

\* _audit() pays the entry of the event a handler is at (MiniAgent._audit).
LEMMA AuditEventStep ==
    ASSUME NEW t \in Thread, Inv, AuditEvent(t)
    PROVE  Inv'
  <1>0. PICK kind, entry : /\ kind = pc[t].kind
                           /\ entry = [action |-> kind, session |-> session[t], seq |-> seq[t]]
    OBVIOUS
  <1>1. /\ kind \in Messages \cup ToolKinds /\ pc[t].step = "audit"
        /\ Busy(t) /\ Wrote(t) /\ AuditPending(t)
    BY <1>0 DEF Inv, TypeInv, PlaceInv, AuditEvent, Busy, Wrote, AuditPending, Place, Kinds
  <1>2. /\ transcript' = transcript /\ subscribers' = subscribers /\ queue' = queue
        /\ joined' = joined /\ session' = session /\ seq' = seq /\ call' = call
        /\ targets' = targets /\ executed' = executed /\ lastCall' = lastCall
        /\ prompts' = prompts /\ faults' = faults
        /\ audit' = audit (+) SetToBag({entry})
        /\ pc' \in [Thread -> Place]
        /\ \A q \in Thread \ {t} : pc'[q] = pc[q]
        /\ \/ kind \in Messages /\ pc'[t] = At(kind, "publish")
           \/ kind = "tool_call" /\ pc'[t] = At("tool_call", "run")
           \/ kind \in Results /\ pc'[t] = At("message_assistant", "append")
    <2>1. /\ transcript' = transcript /\ subscribers' = subscribers /\ queue' = queue
          /\ joined' = joined /\ targets' = targets /\ executed' = executed
          /\ prompts' = prompts /\ faults' = faults
          /\ audit' = audit (+) SetToBag({entry})
      BY <1>0 DEF AuditEvent, bus
    <2>2. pc \in [Thread -> Place]
      BY DEF Inv, TypeInv
    <2>3. CASE kind \in Messages
      <3>1. pc' = [pc EXCEPT ![t] = At(kind, "publish")]
            /\ session' = session /\ seq' = seq /\ call' = call /\ lastCall' = lastCall
        BY <1>0, <2>3 DEF AuditEvent, Goto
      <3> QED  BY <2>1, <2>2, <2>3, <3>1 DEF Place, At, Kinds
    <2>4. CASE kind = "tool_call"
      <3>1. pc' = [pc EXCEPT ![t] = At("tool_call", "run")]
            /\ session' = session /\ seq' = seq /\ call' = call /\ lastCall' = lastCall
        BY <1>0, <2>4 DEF AuditEvent, EventDone, Goto, Messages
      <3> QED  BY <2>1, <2>2, <2>4, <3>1 DEF Place, At, Kinds, ToolKinds
    <2>5. CASE kind \in Results
      <3>1. pc' = [pc EXCEPT ![t] = At("message_assistant", "append")]
            /\ session' = session /\ seq' = seq /\ call' = call /\ lastCall' = lastCall
        BY <1>0, <2>5 DEF AuditEvent, EventDone, Goto, Messages, Results
      <3> QED  BY <2>1, <2>2, <2>5, <3>1 DEF Place, At, Kinds, Messages
    <2> QED  BY <1>1, <2>3, <2>4, <2>5 DEF ToolKinds, Results
  <1>3. /\ entry \notin DOMAIN audit /\ entry = EntryOf(session[t], seq[t])
        /\ audit' \in [DOMAIN audit' -> {1}] /\ DOMAIN audit' = DOMAIN audit \cup {entry}
        /\ \A e : BagIn(e, audit)' <=> e \in DOMAIN audit'
    <2>1. entry \notin DOMAIN audit /\ entry = EntryOf(session[t], seq[t])
      BY <1>0, <1>1, OwnEvent DEF Inv, AuditInv
    <2>2. audit \in [DOMAIN audit -> {1}]
      BY DEF Inv, AuditInv
    <2> QED  BY <1>2, <2>1, <2>2, BagAdd, BagParts
  <1>4. TypeInv'
    BY <1>2 DEF Inv, TypeInv
  <1>5. PlaceInv'
    <2>1. pc[t].kind = kind /\ session[t] \in Session /\ targets[t] = <<>> /\ call[t] <= lastCall
          /\ (kind \in ToolKinds => call[t] > 0) /\ (kind = "message_user" => call[t] = 0)
      BY <1>0, <1>1 DEF Inv, PlaceInv
    <2>2. /\ pc'[t].kind # "idle" /\ pc'[t].step # "idle" /\ pc'[t].step # "put"
          /\ pc'[t].step = "run" => pc'[t].kind = "tool_call"
          /\ pc'[t].kind = "message_user" => kind = "message_user"
          /\ pc'[t].kind \in ToolKinds => kind \in ToolKinds
      BY <1>2 DEF At, Messages, ToolKinds, Results
    <2> QED  BY <1>2, <2>1, <2>2 DEF Inv, PlaceInv, Busy
  <1>6. OwnInv'
    <2>1. /\ Busy(t)' /\ (Wrote(t)' => pc'[t].kind = pc[t].kind)
          /\ \A q \in Thread \ {t} : (Busy(q)' <=> Busy(q)) /\ (Wrote(q)' <=> Wrote(q))
      BY <1>0, <1>1, <1>2 DEF Busy, Wrote, At, Messages, Results
    <2> QED  BY <1>1, <1>2, <2>1 DEF Inv, OwnInv
  <1>7. \A q \in Thread : Open(q)' <=> Open(q)
    BY <1>0, <1>1, <1>2 DEF Open, At, Messages, ToolKinds, Results
  <1>8. CallInv'
    BY <1>2, <1>7, SameTranscript DEF Inv, CallInv, At, Messages
  <1>9. CompletedInv'
    BY <1>0, <1>1, <1>2, SameTranscript DEF Inv, CompletedInv, Resolved, At, Messages, Results
  <1>10. ExecutedInv'
    <2>1. ASSUME NEW q \in Thread, pc'[q].step = "run"
          PROVE  BagIn([action |-> "tool_call", session |-> session[q], seq |-> seq[q]], audit)'
      <3>1. [action |-> "tool_call", session |-> session[q], seq |-> seq[q]] \in DOMAIN audit'
        <4>1. CASE q = t
          BY <1>0, <1>2, <1>3, <2>1, <4>1 DEF At
        <4>2. CASE q # t
          BY <1>2, <1>3, <2>1, <4>2, BagParts DEF Inv, ExecutedInv
        <4> QED  BY <4>1, <4>2
      <3>2. session' = session /\ seq' = seq
        BY <1>2
      <3> QED  BY <1>3, <3>1, <3>2 DEF BagIn
    <2>2. ASSUME NEW c \in executed, NEW r \in Session, NEW n \in DOMAIN transcript[r],
                 BagIn([action |-> "tool_call", session |-> r, seq |-> n], audit)
          PROVE  BagIn([action |-> "tool_call", session |-> r, seq |-> n], audit')
      BY <1>3, <2>2, BagParts DEF BagIn
    <2>3. \A q \in Thread : call[q] \in executed =>
            /\ pc'[q].kind \in Results \cup {"message_assistant"}
            /\ pc'[q].kind = "tool_error" => "output_lost" \in Outcomes
      BY <1>0, <1>2 DEF Inv, ExecutedInv, At, Results, Messages
    <2> QED  BY <1>2, <2>1, <2>2, <2>3, SameTranscript DEF Inv, ExecutedInv
  <1>11. /\ ~AuditPending(t)' /\ (PublishPending(t)' => PublishPending(t))
         /\ pc'[t].step # "put" /\ (PublishPending(t) => PublishPending(t)')
         /\ \A q \in Thread \ {t} : /\ AuditPending(q)' <=> AuditPending(q)
                                    /\ PublishPending(q)' <=> PublishPending(q)
    BY <1>0, <1>1, <1>2 DEF AuditPending, PublishPending, At, Messages, ToolKinds, Results
  <1>12. AuditInv'
    <2>1. ASSUME NEW a \in DOMAIN audit'
          PROVE  a \in Entry /\ Recorded(a.session, a.seq, a.action)'
      <3>1. CASE a = entry
        <4>1. entry \in Entry /\ Recorded(session[t], seq[t], kind)
          BY <1>0, <1>1, OwnEvent DEF Entry, Recorded, KindOf, Kinds
        <4>2. /\ a.session = session[t] /\ a.seq = seq[t] /\ a.action = kind
          BY <1>0, <3>1
        <4> QED  BY <1>2, <3>1, <4>1, <4>2 DEF Recorded
      <3>2. CASE a # entry
        BY <1>2, <1>3, <3>2 DEF Inv, AuditInv, Recorded
      <3> QED  BY <3>1, <3>2
    <2>2. ASSUME NEW q \in Thread, AuditPending(q)'
          PROVE  EntryOf(session[q], seq[q])' \notin DOMAIN audit'
      <3>1. q # t /\ AuditPending(q)
        BY <1>11, <2>2
      <3>2. EntryOf(session[q], seq[q]) \notin DOMAIN audit
        BY <3>1 DEF Inv, AuditInv
      <3>3. Wrote(q) /\ Busy(q)
        BY <3>1 DEF AuditPending, Wrote, Busy, Messages, ToolKinds
      <3>4. EntryOf(session[q], seq[q]) # entry
        BY <1>0, <1>1, <3>1, <3>3, OwnEvent DEF EntryOf
      <3> QED  BY <1>2, <1>3, <3>2, <3>4 DEF EntryOf, KindOf
    <2>3. ASSUME faults = 0, NEW r \in Session, NEW n \in DOMAIN transcript[r]
          PROVE  \/ EntryOf(r, n) \in DOMAIN audit'
                 \/ \E q \in Thread : AuditPending(q)' /\ session[q] = r /\ seq[q] = n
      BY <1>3, <1>11, <2>3 DEF Inv, AuditInv
    <2>4. faults' = 0 => \A r \in Session : \A n \in DOMAIN transcript'[r] :
            \/ EntryOf(r, n)' \in DOMAIN audit'
            \/ \E q \in Thread : AuditPending(q)' /\ session'[q] = r /\ seq'[q] = n
      BY <1>2, <2>3, SameTranscript
    <2> QED  BY <1>3, <2>1, <2>2, <2>4 DEF AuditInv
  <1>13. \A q \in Thread, u \in Subscriber : Pending(q, u)' <=> Pending(q, u)
    BY <1>1, <1>2, <1>11 DEF Pending
  <1>14. DeliveryInv'
    BY <1>2, <1>13 DEF Inv, DeliveryInv
  <1> QED
    BY <1>4, <1>5, <1>6, <1>8, <1>9, <1>10, <1>12, <1>14 DEF Inv

-----------------------------------------------------------------------------
(* EventBus.publish *)

\* A thread that goes on with the event it has recorded.
LEMMA SameEvent ==
    ASSUME Inv, NEW t \in Thread,
           UNCHANGED <<transcript, audit, session, seq, call, executed, lastCall, faults>>,
           pc' \in [Thread -> Place], \A q \in Thread \ {t} : pc'[q] = pc[q],
           Wrote(t), pc'[t].kind = pc[t].kind, pc'[t].step \notin {"append", "run"}
    PROVE  OwnInv' /\ CallInv' /\ CompletedInv' /\ ExecutedInv'
  <1>1. \A q \in Thread : /\ (Busy(q)' <=> Busy(q)) /\ (Wrote(q)' <=> Wrote(q))
                          /\ (Open(q)' <=> Open(q)) /\ (Resolved(q)' <=> Resolved(q))
                          /\ pc'[q].kind = pc[q].kind
    BY DEF Busy, Wrote, Open, Resolved
  <1>2. OwnInv'
    BY <1>1 DEF Inv, OwnInv
  <1>3. CallInv'
    BY <1>1, SameTranscript DEF Inv, CallInv, At
  <1>4. CompletedInv'
    BY <1>1, SameTranscript DEF Inv, CompletedInv
  <1>5. ExecutedInv'
    BY <1>1, SameTranscript DEF Inv, ExecutedInv, BagIn
  <1> QED
    BY <1>2, <1>3, <1>4, <1>5

\* publish() begins with the subscribers of that moment (EventBus.publish).
LEMMA PublishEventStep ==
    ASSUME NEW t \in Thread, Inv, PublishEvent(t)
    PROVE  Inv'
  <1>1. /\ pc[t].step = "publish" /\ Busy(t) /\ Wrote(t) /\ pc[t].kind \in Messages \cup ToolKinds
    BY DEF Inv, TypeInv, PlaceInv, PublishEvent, Busy, Wrote, Place, Kinds
  <1>2. /\ UNCHANGED <<transcript, audit, session, seq, call, executed, lastCall, faults, prompts,
                       subscribers, queue, joined>>
        /\ pc' \in [Thread -> Place] /\ pc'[t] = At(pc[t].kind, "put")
        /\ pc'[t].kind = pc[t].kind /\ pc'[t].step = "put"
        /\ targets' \in [Thread -> Seq(Subscriber)] /\ targets'[t] = subscribers
        /\ \A q \in Thread \ {t} : pc'[q] = pc[q] /\ targets'[q] = targets[q]
    BY DEF Inv, TypeInv, PublishEvent, Goto, At, records, bus, Place
  <1>3. OwnInv' /\ CallInv' /\ CompletedInv' /\ ExecutedInv'
    BY <1>1, <1>2, SameEvent
  <1>4. TypeInv'
    BY <1>2 DEF Inv, TypeInv
  <1>5. PlaceInv'
    BY <1>1, <1>2 DEF Inv, PlaceInv, Busy
  <1>6. AuditInv'
    <2>1. \A q \in Thread : AuditPending(q)' <=> AuditPending(q)
      BY <1>1, <1>2 DEF AuditPending, Messages, ToolKinds
    <2> QED  BY <1>2, <2>1, SameTranscript DEF Inv, AuditInv
  <1>7. DeliveryInv'
    <2>1. \A u \in Subscriber : /\ Pending(t, u)
                                /\ u \in ToSet(subscribers) => Pending(t, u)'
      BY <1>1, <1>2 DEF Pending, PublishPending, Messages, ToolKinds
    <2>2. \A q \in Thread \ {t}, u \in Subscriber : Pending(q, u)' <=> Pending(q, u)
      BY <1>2 DEF Pending, PublishPending
    <2>3. /\ Once(subscribers') /\ \A u \in ToSet(subscribers') : joined'[u] # None
          /\ \A q \in Thread : Once(targets'[q])
      BY <1>2 DEF Inv, DeliveryInv
    <2>4. ASSUME NEW u \in Subscriber
          PROVE  /\ queue'[u] \in [DOMAIN queue'[u] -> {1}]
                 /\ \A e \in DOMAIN queue'[u] : e \in Session \X Nat /\ e[2] \in DOMAIN transcript'[e[1]]
                 /\ \A q \in Thread : Pending(q, u)' => <<session'[q], seq'[q]>> \notin DOMAIN queue'[u]
      BY <1>2, <2>1, <2>2 DEF Inv, DeliveryInv
    <2>5. ASSUME NEW u \in Subscriber, faults' = 0, joined'[u] # None
          PROVE  /\ u \in ToSet(subscribers')
                 /\ \A r \in Session : \A n \in DOMAIN transcript'[r] : n > joined'[u][r] =>
                       \/ <<r, n>> \in DOMAIN queue'[u]
                       \/ \E q \in Thread : Pending(q, u)' /\ session'[q] = r /\ seq'[q] = n
      <3>1. u \in ToSet(subscribers)
        BY <1>2, <2>5 DEF Inv, DeliveryInv
      <3>2. \A q \in Thread : Pending(q, u) => Pending(q, u)'
        BY <2>1, <2>2, <3>1
      <3>3. \A r \in Session : \A n \in DOMAIN transcript[r] : n > joined[u][r] =>
                       \/ <<r, n>> \in DOMAIN queue[u]
                       \/ \E q \in Thread : Pending(q, u) /\ session[q] = r /\ seq[q] = n
        BY <1>2, <2>5 DEF Inv, DeliveryInv
      <3> QED  BY <1>2, <3>1, <3>2, <3>3
    <2> QED  BY <2>3, <2>4, <2>5 DEF DeliveryInv
  <1> QED
    BY <1>3, <1>4, <1>5, <1>6, <1>7 DEF Inv

\* publish() puts the event into one queue after the other (EventBus.publish).
LEMMA PutEventStep ==
    ASSUME NEW t \in Thread, Inv, PutEvent(t)
    PROVE  Inv'
  <1>0. PICK u, e : u = Head(targets[t]) /\ e = <<session[t], seq[t]>>
    OBVIOUS
  <1>1. /\ pc[t].step = "put" /\ Busy(t) /\ Wrote(t) /\ pc[t].kind \in Messages \cup ToolKinds
        /\ targets[t] \in Seq(Subscriber) /\ targets[t] # <<>> /\ Once(targets[t])
    BY DEF Inv, TypeInv, PlaceInv, DeliveryInv, PutEvent, Busy, Wrote, Place, Kinds
  <1>2. /\ u \in Subscriber /\ Tail(targets[t]) \in Seq(Subscriber) /\ Once(Tail(targets[t]))
        /\ ToSet(targets[t]) = ToSet(Tail(targets[t])) \cup {u}
        /\ u \notin ToSet(Tail(targets[t]))
    BY <1>0, <1>1, HeadTail
  <1>3. /\ UNCHANGED <<transcript, audit, session, seq, call, executed, lastCall, faults, prompts,
                       subscribers, joined, pc>>
        /\ targets' \in [Thread -> Seq(Subscriber)] /\ targets'[t] = Tail(targets[t])
        /\ \A q \in Thread \ {t} : targets'[q] = targets[q]
        /\ queue' = [queue EXCEPT ![u] = @ (+) SetToBag({e})]
    BY <1>0, <1>2 DEF Inv, TypeInv, PutEvent, records
  <1>4. /\ e \notin DOMAIN queue[u] /\ DOMAIN queue' = Subscriber
        /\ queue'[u] \in [DOMAIN queue'[u] -> {1}] /\ DOMAIN queue'[u] = DOMAIN queue[u] \cup {e}
        /\ \A v \in Subscriber \ {u} : queue'[v] = queue[v]
    <2>1. e \notin DOMAIN queue[u] /\ queue[u] \in [DOMAIN queue[u] -> {1}]
      BY <1>0, <1>1, <1>2 DEF Inv, DeliveryInv, Pending
    <2>2. /\ DOMAIN (queue[u] (+) SetToBag({e})) = DOMAIN queue[u] \cup {e}
          /\ queue[u] (+) SetToBag({e}) \in [DOMAIN queue[u] \cup {e} -> {1}]
      BY <2>1, BagAdd
    <2>3. /\ DOMAIN queue' = Subscriber /\ queue'[u] = queue[u] (+) SetToBag({e})
          /\ \A v \in Subscriber \ {u} : queue'[v] = queue[v]
      BY <1>2, <1>3 DEF Inv, TypeInv
    <2> QED  BY <2>1, <2>2, <2>3
  <1>5. OwnInv' /\ CallInv' /\ CompletedInv' /\ ExecutedInv'
    BY <1>1, <1>3, SameEvent DEF Inv, TypeInv
  <1>6. TypeInv'
    BY <1>3, <1>4 DEF Inv, TypeInv
  <1>7. PlaceInv'
    BY <1>1, <1>3 DEF Inv, PlaceInv, Busy
  <1>8. AuditInv'
    BY <1>3, SameTranscript DEF Inv, AuditInv, AuditPending
  <1>9. DeliveryInv'
    <2>1. \A q \in Thread, v \in Subscriber :
            Pending(q, v)' <=> Pending(q, v) /\ ~(q = t /\ v = u)
      BY <1>1, <1>2, <1>3 DEF Pending, PublishPending, Messages, ToolKinds
    <2>2. /\ session[t] \in Session /\ seq[t] \in Nat /\ seq[t] \in DOMAIN transcript[session[t]]
          /\ \A q \in Thread \ {t} : Busy(q) => session[q] # session[t] \/ seq[q] # seq[t]
      BY <1>1, OwnEvent
    <2>3. \A q \in Thread, v \in Subscriber : Pending(q, v) => Busy(q)
      BY DEF Pending, PublishPending, Busy, Inv, PlaceInv, Messages, ToolKinds
    <2>4. ASSUME NEW v \in Subscriber
          PROVE  /\ queue'[v] \in [DOMAIN queue'[v] -> {1}]
                 /\ \A x \in DOMAIN queue'[v] : x \in Session \X Nat /\ x[2] \in DOMAIN transcript[x[1]]
                 /\ \A q \in Thread : Pending(q, v)' => <<session[q], seq[q]>> \notin DOMAIN queue'[v]
      <3>1. CASE v = u
        <4>1. e \in Session \X Nat /\ e[2] \in DOMAIN transcript[e[1]]
          BY <1>0, <2>2
        <4>2. \A x \in DOMAIN queue[u] : x \in Session \X Nat /\ x[2] \in DOMAIN transcript[x[1]]
          BY <1>2 DEF Inv, DeliveryInv
        <4>3. ASSUME NEW q \in Thread, Pending(q, u)' PROVE <<session[q], seq[q]>> \notin DOMAIN queue'[u]
          <5>1. q # t /\ Busy(q) /\ <<session[q], seq[q]>> \notin DOMAIN queue[u]
            BY <1>2, <2>1, <2>3, <4>3 DEF Inv, DeliveryInv
          <5> QED  BY <1>0, <1>4, <2>2, <5>1
        <4> QED  BY <1>4, <3>1, <4>1, <4>2, <4>3
      <3>2. CASE v # u
        BY <1>4, <2>1, <3>2 DEF Inv, DeliveryInv
      <3> QED  BY <3>1, <3>2
    <2>0. /\ faults' = faults /\ joined' = joined /\ session' = session /\ seq' = seq
          /\ transcript' = transcript /\ subscribers' = subscribers
      BY <1>3
    <2>5. ASSUME NEW v \in Subscriber, faults' = 0, joined'[v] # None
          PROVE  /\ v \in ToSet(subscribers')
                 /\ \A r \in Session : \A n \in DOMAIN transcript'[r] : n > joined'[v][r] =>
                       \/ <<r, n>> \in DOMAIN queue'[v]
                       \/ \E q \in Thread : Pending(q, v)' /\ session'[q] = r /\ seq'[q] = n
      <3>1. v \in ToSet(subscribers')
        BY <1>3, <2>5 DEF Inv, DeliveryInv
      <3>2. ASSUME NEW r \in Session, NEW n \in DOMAIN transcript[r], n > joined[v][r]
            PROVE  \/ <<r, n>> \in DOMAIN queue'[v]
                   \/ \E q \in Thread : Pending(q, v)' /\ session[q] = r /\ seq[q] = n
        <4>1. \/ <<r, n>> \in DOMAIN queue[v]
              \/ \E q \in Thread : Pending(q, v) /\ session[q] = r /\ seq[q] = n
          BY <2>0, <2>5, <3>2 DEF Inv, DeliveryInv
        <4> QED  BY <1>0, <1>4, <2>1, <4>1
      <3> QED  BY <2>0, <3>1, <3>2
    <2>6. \A q \in Thread : Once(targets'[q])
      BY <1>2, <1>3 DEF Inv, DeliveryInv
    <2>7. Once(subscribers) /\ \A v \in ToSet(subscribers) : joined[v] # None
      BY DEF Inv, DeliveryInv
    <2>9. \A v \in Subscriber :
                 /\ queue'[v] \in [DOMAIN queue'[v] -> {1}]
                 /\ \A x \in DOMAIN queue'[v] : x \in Session \X Nat /\ x[2] \in DOMAIN transcript'[x[1]]
                 /\ \A q \in Thread : Pending(q, v)' => <<session'[q], seq'[q]>> \notin DOMAIN queue'[v]
      BY <1>3, <2>4
    <2> QED  BY <1>3, <2>5, <2>6, <2>7, <2>9 DEF DeliveryInv
  <1> QED
    BY <1>5, <1>6, <1>7, <1>8, <1>9 DEF Inv

-----------------------------------------------------------------------------
(* The beginning and the end of MiniAgent.prompt *)

\* A step that records, audits and delivers nothing keeps what is pending.
LEMMA SamePending ==
    ASSUME Inv, transcript' = transcript, audit' = audit, subscribers' = subscribers,
           queue' = queue, joined' = joined, faults' = 0 => faults = 0,
           \A q \in Thread : AuditPending(q)' =>
               AuditPending(q) /\ session'[q] = session[q] /\ seq'[q] = seq[q],
           \A q \in Thread, u \in Subscriber : Pending(q, u)' =>
               Pending(q, u) /\ session'[q] = session[q] /\ seq'[q] = seq[q],
           faults' = 0 => \A q \in Thread : AuditPending(q) => AuditPending(q)',
           faults' = 0 => \A q \in Thread, u \in Subscriber : Pending(q, u) => Pending(q, u)',
           \A q \in Thread : Once(targets'[q])
    PROVE  AuditInv' /\ DeliveryInv'
  <1>1. AuditInv'
    <2>1. ASSUME NEW q \in Thread, AuditPending(q)'
          PROVE  EntryOf(session[q], seq[q])' \notin DOMAIN audit'
      <3>1. EntryOf(session[q], seq[q]) \notin DOMAIN audit /\ session'[q] = session[q] /\ seq'[q] = seq[q]
        BY <2>1 DEF Inv, AuditInv
      <3> QED  BY <3>1 DEF EntryOf, KindOf
    <2>2. ASSUME faults' = 0, NEW r \in Session, NEW n \in DOMAIN transcript[r]
          PROVE  \/ EntryOf(r, n) \in DOMAIN audit
                 \/ \E q \in Thread : AuditPending(q)' /\ session'[q] = r /\ seq'[q] = n
      BY <2>2 DEF Inv, AuditInv
    <2>3. faults' = 0 => \A r \in Session : \A n \in DOMAIN transcript'[r] :
              \/ EntryOf(r, n)' \in DOMAIN audit'
              \/ \E q \in Thread : AuditPending(q)' /\ session'[q] = r /\ seq'[q] = n
      BY <2>2, SameTranscript
    <2>4. /\ audit' \in [DOMAIN audit' -> {1}]
          /\ \A a \in DOMAIN audit' : a \in Entry /\ Recorded(a.session, a.seq, a.action)'
      BY SameTranscript DEF Inv, AuditInv, Recorded
    <2> QED  BY <2>1, <2>3, <2>4 DEF AuditInv
  <1>2. DeliveryInv'
    <2>1. Once(subscribers') /\ \A u \in ToSet(subscribers') : joined'[u] # None
      BY DEF Inv, DeliveryInv
    <2>2. ASSUME NEW u \in Subscriber
          PROVE  /\ queue'[u] \in [DOMAIN queue'[u] -> {1}]
                 /\ \A e \in DOMAIN queue'[u] : e \in Session \X Nat /\ e[2] \in DOMAIN transcript'[e[1]]
                 /\ \A q \in Thread : Pending(q, u)' => <<session'[q], seq'[q]>> \notin DOMAIN queue'[u]
      BY DEF Inv, DeliveryInv
    <2>3. ASSUME NEW u \in Subscriber, faults' = 0, joined'[u] # None
          PROVE  /\ u \in ToSet(subscribers')
                 /\ \A r \in Session : \A n \in DOMAIN transcript'[r] : n > joined'[u][r] =>
                       \/ <<r, n>> \in DOMAIN queue'[u]
                       \/ \E q \in Thread : Pending(q, u)' /\ session'[q] = r /\ seq'[q] = n
      <3>1. u \in ToSet(subscribers')
        BY <2>3 DEF Inv, DeliveryInv
      <3>2. ASSUME NEW r \in Session, NEW n \in DOMAIN transcript[r], n > joined[u][r]
            PROVE  \/ <<r, n>> \in DOMAIN queue[u]
                   \/ \E q \in Thread : Pending(q, u)' /\ session'[q] = r /\ seq'[q] = n
        <4>1. \/ <<r, n>> \in DOMAIN queue[u]
              \/ \E q \in Thread : Pending(q, u) /\ session[q] = r /\ seq[q] = n
          BY <2>3, <3>2 DEF Inv, DeliveryInv
        <4> QED  BY <2>3, <4>1
      <3> QED  BY <3>1, <3>2
    <2> QED  BY <2>1, <2>2, <2>3 DEF DeliveryInv
  <1> QED
    BY <1>1, <1>2

\* A thread that turns to an event it has not recorded yet, or to none.
LEMMA NextEvent ==
    ASSUME Inv, NEW t \in Thread, transcript' = transcript,
           lastCall' \in Nat, lastCall' >= lastCall, call' \in [Thread -> Nat],
           \A q \in Thread \ {t} : /\ pc'[q] = pc[q] /\ session'[q] = session[q]
                                  /\ seq'[q] = seq[q] /\ call'[q] = call[q],
           ~Wrote(t)',
           Busy(t)' => session'[t] \in Session,
           seq'[t] = 0 \/ (seq'[t] = seq[t] /\ session'[t] = session[t] /\ Busy(t)),
           call'[t] = 0 \/ call'[t] = call[t] \/ call'[t] > lastCall,
           Open(t)' => /\ Open(t) /\ seq'[t] = seq[t] /\ session'[t] = session[t]
                       /\ call'[t] = call[t],
           pc'[t] = At("tool_call", "append") => call'[t] > lastCall,
           Resolved(t)' => Resolved(t) /\ call'[t] = call[t],
           faults' = 0 => /\ faults = 0
                          /\ \A c \in 1..lastCall' : c > lastCall => call'[t] = c
                          /\ call[t] > 0 => Completed(call[t]) \/ call'[t] = call[t]
    PROVE  OwnInv' /\ CallInv' /\ CompletedInv'
  <1>1. \A q \in Thread \ {t} : /\ (Busy(q)' <=> Busy(q)) /\ (Wrote(q)' <=> Wrote(q))
                               /\ (Open(q)' <=> Open(q)) /\ (Resolved(q)' <=> Resolved(q))
    BY DEF Busy, Wrote, Open, Resolved
  <1>2. \A q \in Thread : call[q] <= lastCall /\ call[q] \in Nat /\ lastCall \in Nat
    BY DEF Inv, TypeInv, PlaceInv
  <1>3. OwnInv'
    <2>1. ASSUME NEW q \in Thread, Busy(q)'
          PROVE  /\ seq'[q] \in 0..Len(transcript'[session'[q]])
                 /\ Wrote(q)' =>
                      /\ seq'[q] > 0
                      /\ transcript'[session'[q]][seq'[q]] =
                          [type |-> pc'[q].kind,
                           call |-> IF pc'[q].kind \in Messages THEN 0 ELSE call'[q]]
      <3>1. CASE q = t
        <4>1. Len(transcript[session'[t]]) \in Nat
          BY <2>1, <3>1, LenProperties DEF Inv, TypeInv
        <4>2. Busy(t) => seq[t] \in 0..Len(transcript[session[t]])
          BY DEF Inv, OwnInv
        <4> QED  BY <3>1, <4>1, <4>2
      <3>2. CASE q # t
        BY <1>1, <2>1, <3>2 DEF Inv, OwnInv
      <3> QED  BY <3>1, <3>2
    <2>2. ASSUME NEW q \in Thread, NEW r \in Thread, q # r
          PROVE  /\ call'[q] = call'[r] => call'[q] = 0
                 /\ Busy(q)' /\ Busy(r)' /\ session'[q] = session'[r] /\ seq'[q] = seq'[r] =>
                        seq'[q] = 0
      <3>1. /\ call[q] = call[r] => call[q] = 0
            /\ Busy(q) /\ Busy(r) /\ session[q] = session[r] /\ seq[q] = seq[r] => seq[q] = 0
        BY <2>2 DEF Inv, OwnInv
      <3> QED  BY <1>1, <1>2, <2>2, <3>1
    <2> QED  BY <2>1, <2>2 DEF OwnInv
  <1>4. CallInv'
    <2>1. \A s \in Session : \A n \in DOMAIN transcript[s] :
            /\ CallOf(s, n) <= lastCall /\ CallOf(s, n) \in Nat
            /\ KindOf(s, n) \in Messages <=> CallOf(s, n) = 0
      <3>1. ASSUME NEW s \in Session, NEW n \in DOMAIN transcript[s] PROVE CallOf(s, n) \in Nat
        <4>1. transcript[s] \in Seq(Event) /\ n \in 1..Len(transcript[s])
          BY LenProperties DEF Inv, TypeInv
        <4>2. transcript[s][n] \in Event
          BY <4>1, ElementOfSeq
        <4> QED  BY <4>2 DEF CallOf, Event
      <3> QED  BY <3>1 DEF Inv, CallInv
    <2>2. \A s \in Session : \A n \in DOMAIN transcript'[s] :
            /\ CallOf(s, n)' <= lastCall'
            /\ KindOf(s, n)' \in Messages <=> CallOf(s, n)' = 0
      BY <1>2, <2>1, SameTranscript
    <2>3. ASSUME NEW q \in Thread, NEW s \in Session, NEW n \in DOMAIN transcript'[s]
          PROVE  /\ pc'[q] = At("tool_call", "append") => CallOf(s, n)' # call'[q]
                 /\ Open(q)' /\ CallOf(s, n)' = call'[q] => s = session'[q] /\ n = seq'[q]
      <3>1. CASE q = t
        BY <1>2, <2>1, <3>1, SameTranscript DEF Inv, CallInv
      <3>2. CASE q # t
        BY <1>1, <3>2, SameTranscript DEF Inv, CallInv
      <3> QED  BY <3>1, <3>2
    <2>4. ASSUME NEW q \in Thread, Open(q)'
          PROVE  seq'[q] > 0 /\ transcript'[session'[q]][seq'[q]] =
                                  [type |-> "tool_call", call |-> call'[q]]
      BY <1>1, <2>4 DEF Inv, CallInv
    <2>5. \A s, r \in Session : \A m \in DOMAIN transcript'[s], n \in DOMAIN transcript'[r] :
            CallOf(s, m)' = CallOf(r, n)' /\ CallOf(s, m)' # 0 =>
                /\ s = r
                /\ KindOf(s, m)' = "tool_call" /\ m # n => m < n
                /\ KindOf(s, m)' \in Results /\ KindOf(r, n)' \in Results => m = n
      BY SameTranscript DEF Inv, CallInv
    <2> QED  BY <2>2, <2>3, <2>4, <2>5 DEF CallInv
  <1>5. CompletedInv'
    <2>1. ASSUME NEW q \in Thread, Resolved(q)' PROVE Completed(call[q])'
      <3>1. Resolved(q) /\ call'[q] = call[q]
        BY <1>1, <2>1
      <3>2. Completed(call[q])
        BY <3>1 DEF Inv, CompletedInv
      <3> QED  BY <3>1, <3>2 DEF Completed, CallOf, KindOf
    <2>2. ASSUME faults' = 0, NEW c \in 1..lastCall'
          PROVE  Completed(c)' \/ \E q \in Thread : call'[q] = c
      <3>1. CASE c > lastCall
        BY <2>2, <3>1
      <3>2. CASE c <= lastCall
        <4>1. Completed(c) \/ \E q \in Thread : call[q] = c
          BY <1>2, <2>2, <3>2 DEF Inv, CompletedInv
        <4>2. ASSUME NEW q \in Thread, call[q] = c PROVE Completed(c) \/ call'[q] = c
          BY <2>2, <4>2
        <4> QED  BY <4>1, <4>2, SameTranscript
      <3> QED  BY <1>2, <2>2, <3>1, <3>2
    <2> QED  BY <2>1, <2>2 DEF CompletedInv
  <1> QED
    BY <1>3, <1>4, <1>5

\* A prompt begins in an idle handler (MiniAgent.prompt).
LEMMA PromptStep ==
    ASSUME NEW t \in Thread, NEW s \in Session, Inv, Prompt(t, s)
    PROVE  Inv'
  <1>1. /\ transcript' = transcript /\ audit' = audit /\ subscribers' = subscribers
        /\ queue' = queue /\ joined' = joined /\ seq' = seq /\ call' = call /\ targets' = targets
        /\ executed' = executed /\ lastCall' = lastCall /\ faults' = faults /\ prompts' \in Nat
        /\ pc[t] = Idle /\ seq[t] = 0 /\ call[t] = 0 /\ targets[t] = <<>>
        /\ pc' \in [Thread -> Place] /\ pc'[t] = At("message_user", "append")
        /\ session' \in [Thread -> Session \cup {None}] /\ session'[t] = s
        /\ \A q \in Thread \ {t} : pc'[q] = pc[q] /\ session'[q] = session[q]
    BY DEF Inv, TypeInv, PlaceInv, Prompt, Goto, records, bus, Place, Kinds, Messages, At, Idle
  <1>2. TypeInv'
    BY <1>1 DEF Inv, TypeInv
  <1>3. PlaceInv'
    BY <1>1 DEF Inv, PlaceInv, Busy, At, ToolKinds
  <1>4. OwnInv' /\ CallInv' /\ CompletedInv'
    <2>1. ~Wrote(t)' /\ ~Open(t)' /\ ~Resolved(t)' /\ pc'[t] # At("tool_call", "append")
      BY <1>1 DEF Wrote, Open, Resolved, At, Results
    <2>2. lastCall \in Nat /\ lastCall >= lastCall /\ call \in [Thread -> Nat]
      BY DEF Inv, TypeInv
    <2> QED  BY <1>1, <2>1, <2>2, NextEvent
  <1>5. ExecutedInv'
    <2>1. 0 \notin executed /\ pc'[t].step # "run"
      BY <1>1 DEF Inv, ExecutedInv, At
    <2> QED  BY <1>1, <2>1, SameTranscript DEF Inv, ExecutedInv, BagIn
  <1>6. AuditInv' /\ DeliveryInv'
    <2>1. \A q \in Thread : (AuditPending(q)' <=> AuditPending(q)) /\ (AuditPending(q) => q # t)
      BY <1>1 DEF AuditPending, At, Idle, Messages, ToolKinds
    <2>2. \A q \in Thread, u \in Subscriber :
            (Pending(q, u)' <=> Pending(q, u)) /\ (Pending(q, u) => q # t)
      BY <1>1 DEF Pending, PublishPending, At, Idle, Messages, ToolKinds
    <2>3. \A q \in Thread : Once(targets'[q])
      BY <1>1 DEF Inv, DeliveryInv
    <2> QED  BY <1>1, <2>1, <2>2, <2>3, SamePending
  <1> QED
    BY <1>2, <1>3, <1>4, <1>5, <1>6 DEF Inv

\* prompt() ends: when it has done everything its last event asks for, or with an
\* exception.
LEMMA LeaveStep ==
    ASSUME NEW t \in Thread, Inv, Leave(t), targets[t] = <<>>,
           transcript' = transcript, audit' = audit, subscribers' = subscribers,
           queue' = queue, joined' = joined, targets' = targets, executed' = executed,
           lastCall' = lastCall, prompts' = prompts, faults' \in Nat,
           faults' = 0 => /\ faults = 0
                          /\ ~AuditPending(t) /\ ~PublishPending(t)
                          /\ call[t] > 0 => Completed(call[t])
    PROVE  Inv'
  <1>1. /\ pc' \in [Thread -> Place] /\ pc'[t] = Idle
        /\ session' \in [Thread -> Session \cup {None}]
        /\ seq' \in [Thread -> Nat] /\ seq'[t] = 0
        /\ call' \in [Thread -> Nat] /\ call'[t] = 0
        /\ \A q \in Thread \ {t} : /\ pc'[q] = pc[q] /\ session'[q] = session[q]
                                   /\ seq'[q] = seq[q] /\ call'[q] = call[q]
    <2>1. Idle \in Place /\ None \in Session \cup {None} /\ 0 \in Nat
      BY DEF Place, At, Idle
    <2>2. /\ pc \in [Thread -> Place] /\ session \in [Thread -> Session \cup {None}]
          /\ seq \in [Thread -> Nat] /\ call \in [Thread -> Nat]
      BY DEF Inv, TypeInv
    <2>3. /\ pc' = [pc EXCEPT ![t] = Idle] /\ session' = [session EXCEPT ![t] = None]
          /\ seq' = [seq EXCEPT ![t] = 0] /\ call' = [call EXCEPT ![t] = 0]
      BY DEF Leave
    <2>4. pc' \in [Thread -> Place] /\ session' \in [Thread -> Session \cup {None}]
      BY <2>1, <2>2, <2>3
    <2>5. seq' \in [Thread -> Nat] /\ call' \in [Thread -> Nat]
      BY <2>2, <2>3
    <2> QED  BY <2>2, <2>3, <2>4, <2>5
  <1>2. TypeInv'
    BY <1>1 DEF Inv, TypeInv
  <1>3. PlaceInv'
    <2>1. /\ Idle.kind = "idle" /\ Idle.step = "idle" /\ "idle" \notin ToolKinds
          /\ lastCall \in Nat
      BY DEF Inv, TypeInv, At, Idle, ToolKinds
    <2> QED  BY <1>1, <2>1 DEF Inv, PlaceInv, Busy
  <1>4. OwnInv' /\ CallInv' /\ CompletedInv'
    <2>1. ~Busy(t)' /\ ~Wrote(t)' /\ ~Open(t)' /\ ~Resolved(t)' /\ pc'[t] # At("tool_call", "append")
      BY <1>1 DEF Busy, Wrote, Open, Resolved, At, Idle, Results
    <2>2. lastCall \in Nat /\ lastCall >= lastCall
          /\ \A c \in 1..lastCall' : ~(c > lastCall)
      BY DEF Inv, TypeInv
    <2> QED  BY <1>1, <2>1, <2>2, NextEvent
  <1>5. ExecutedInv'
    <2>1. 0 \notin executed /\ pc'[t].step # "run"
      BY <1>1 DEF Inv, ExecutedInv, At, Idle
    <2>2. \A q \in Thread : pc'[q].step = "run" =>
            BagIn([action |-> "tool_call", session |-> session'[q], seq |-> seq'[q]], audit)
      BY <1>1, <2>1 DEF Inv, ExecutedInv
    <2>3. \A q \in Thread : call'[q] \in executed =>
            /\ pc'[q].kind \in Results \cup {"message_assistant"}
            /\ pc'[q].kind = "tool_error" => "output_lost" \in Outcomes
      BY <1>1, <2>1 DEF Inv, ExecutedInv
    <2> QED  BY <2>2, <2>3, SameTranscript DEF Inv, ExecutedInv, BagIn
  <1>6. AuditInv' /\ DeliveryInv'
    <2>1. \A q \in Thread : AuditPending(q)' <=> AuditPending(q) /\ q # t
      BY <1>1 DEF AuditPending, At, Idle, Messages, ToolKinds
    <2>2. \A q \in Thread, u \in Subscriber : Pending(q, u)' <=> Pending(q, u) /\ q # t
      BY <1>1 DEF Pending, PublishPending, At, Idle, Messages, ToolKinds
    <2>3. \A u \in Subscriber : faults' = 0 => ~Pending(t, u)
      BY DEF Pending, ToSet
    <2>4. \A q \in Thread : Once(targets'[q])
      BY DEF Inv, DeliveryInv
    <2> QED  BY <1>1, <2>1, <2>2, <2>3, <2>4, SamePending
  <1> QED
    BY <1>2, <1>3, <1>4, <1>5, <1>6 DEF Inv

\* After the last subscriber the handler turns to the next event of its prompt, or
\* ends it (MiniAgent.prompt).
LEMMA PublishDoneStep ==
    ASSUME NEW t \in Thread, Inv, PublishDone(t)
    PROVE  Inv'
  <1>1. /\ pc[t].step = "put" /\ targets[t] = <<>> /\ Busy(t) /\ Wrote(t)
        /\ pc[t].kind \in Messages \cup ToolKinds
        /\ transcript' = transcript /\ audit' = audit /\ subscribers' = subscribers
        /\ queue' = queue /\ joined' = joined /\ targets' = targets /\ executed' = executed
        /\ prompts' = prompts /\ faults' = faults
    BY DEF Inv, TypeInv, PlaceInv, PublishDone, Busy, Wrote, Place, Kinds, records, bus
  <1>2. /\ pc \in [Thread -> Place] /\ session[t] \in Session /\ lastCall \in Nat /\ faults \in Nat
        /\ call \in [Thread -> Nat] /\ call[t] <= lastCall
        /\ lastCall >= lastCall /\ \A c \in 1..lastCall : ~(c > lastCall)
        /\ \A q \in Thread : Once(targets'[q])
        /\ \A u \in Subscriber : u \notin ToSet(targets[t])
    BY <1>1 DEF Inv, TypeInv, PlaceInv, DeliveryInv, ToSet
  <1>3. CASE pc[t].kind \in ToolKinds
    <2>1. /\ session' = session /\ seq' = seq /\ call' = call /\ lastCall' = lastCall
          /\ pc' \in [Thread -> Place] /\ pc'[t].kind = pc[t].kind /\ pc'[t].step = "audit"
          /\ \A q \in Thread \ {t} : pc'[q] = pc[q]
      BY <1>1, <1>2, <1>3 DEF PublishDone, Goto, At, Place, Messages, ToolKinds
    <2>2. OwnInv' /\ CallInv' /\ CompletedInv' /\ ExecutedInv'
      BY <1>1, <2>1, SameEvent
    <2>3. TypeInv' /\ PlaceInv'
      BY <1>1, <2>1 DEF Inv, TypeInv, PlaceInv, Busy
    <2>4. \A q \in Thread : AuditPending(q)' <=> AuditPending(q)
      BY <1>1, <1>3, <2>1 DEF AuditPending, Messages, ToolKinds
    <2>5. \A q \in Thread, u \in Subscriber : Pending(q, u)' <=> Pending(q, u)
      BY <1>1, <1>2, <1>3, <2>1 DEF Pending, PublishPending, Messages, ToolKinds
    <2>6. AuditInv' /\ DeliveryInv'
      BY <1>1, <1>2, <2>1, <2>4, <2>5, SamePending
    <2> QED  BY <2>2, <2>3, <2>6 DEF Inv
  <1>4. CASE pc[t].kind = "message_assistant"
    <2>1. Leave(t) /\ lastCall' = lastCall
      BY <1>4 DEF PublishDone, EventDone, Messages
    <2>2. ~AuditPending(t) /\ ~PublishPending(t)
      BY <1>1, <1>4 DEF AuditPending, PublishPending, Messages, ToolKinds
    <2>3. call[t] > 0 => Completed(call[t])
      BY <1>4 DEF Inv, CompletedInv, Resolved
    <2> QED  BY <1>1, <1>2, <2>1, <2>2, <2>3, LeaveStep
  <1>5. CASE pc[t].kind = "message_user"
    <2>1. call[t] = 0
      BY <1>5 DEF Inv, PlaceInv
    <2>2. /\ session' = session /\ seq' = seq /\ lastCall' \in Nat /\ lastCall' >= lastCall
          /\ pc' \in [Thread -> Place] /\ call' \in [Thread -> Nat]
          /\ \A q \in Thread \ {t} : pc'[q] = pc[q] /\ call'[q] = call[q]
          /\ \/ /\ pc'[t] = At("message_assistant", "append")
                /\ call'[t] = 0 /\ lastCall' = lastCall
             \/ /\ pc'[t] = At("tool_call", "append")
                /\ call'[t] = lastCall + 1 /\ lastCall' = lastCall + 1
      <3>1. CASE /\ pc' = [pc EXCEPT ![t] = At("message_assistant", "append")]
                 /\ session' = session /\ seq' = seq /\ call' = call /\ lastCall' = lastCall
        BY <1>2, <2>1, <3>1 DEF At, Place, Kinds, Messages
      <3>2. CASE /\ pc' = [pc EXCEPT ![t] = At("tool_call", "append")]
                 /\ lastCall' = lastCall + 1 /\ call' = [call EXCEPT ![t] = lastCall']
                 /\ session' = session /\ seq' = seq
        BY <1>2, <3>2 DEF At, Place, Kinds, ToolKinds
      <3> QED  BY <1>5, <3>1, <3>2 DEF PublishDone, EventDone, Goto, Messages
    <2>3. /\ ~Wrote(t)' /\ Busy(t)' /\ ~Open(t)' /\ (Resolved(t)' => FALSE)
          /\ pc'[t] = At("tool_call", "append") => call'[t] > lastCall
          /\ call'[t] = 0 \/ call'[t] > lastCall
          /\ \A c \in 1..lastCall' : c > lastCall => call'[t] = c
      BY <1>2, <2>2 DEF Wrote, Busy, Open, Resolved, At, Results
    <2>4. OwnInv' /\ CallInv' /\ CompletedInv'
      BY <1>1, <1>2, <2>1, <2>2, <2>3, NextEvent
    <2>5. TypeInv'
      BY <1>1, <2>2 DEF Inv, TypeInv
    <2>6. PlaceInv'
      <3>1. ASSUME NEW q \in Thread PROVE call'[q] <= lastCall'
        <4>1. call[q] \in Nat /\ call[q] <= lastCall
          BY <1>2 DEF Inv, PlaceInv
        <4> QED  BY <1>2, <2>2, <4>1
      <3>2. /\ pc'[t].kind \in {"message_assistant", "tool_call"} /\ pc'[t].step = "append"
            /\ pc'[t].kind \in ToolKinds => call'[t] > 0
        BY <1>2, <2>2 DEF At, ToolKinds
      <3> QED  BY <1>1, <1>2, <2>2, <3>1, <3>2 DEF Inv, PlaceInv, Busy
    <2>7. ExecutedInv'
      <3>1. pc'[t].step # "run" /\ call'[t] \notin executed
        BY <1>2, <2>2 DEF Inv, ExecutedInv, At
      <3>2. \A q \in Thread : pc'[q].step = "run" =>
              BagIn([action |-> "tool_call", session |-> session'[q], seq |-> seq'[q]], audit)
        BY <2>2, <3>1 DEF Inv, ExecutedInv
      <3>3. \A q \in Thread : call'[q] \in executed =>
              /\ pc'[q].kind \in Results \cup {"message_assistant"}
              /\ pc'[q].kind = "tool_error" => "output_lost" \in Outcomes
        BY <2>2, <3>1 DEF Inv, ExecutedInv
      <3>4. \A c \in executed : c \in 1..lastCall'
        BY <1>2, <2>2 DEF Inv, ExecutedInv
      <3> QED  BY <1>1, <3>2, <3>3, <3>4, SameTranscript DEF Inv, ExecutedInv, BagIn
    <2>8. \A q \in Thread : AuditPending(q)' <=> AuditPending(q)
      BY <1>1, <1>5, <2>2 DEF AuditPending, At, Messages, ToolKinds
    <2>9. \A q \in Thread, u \in Subscriber : Pending(q, u)' <=> Pending(q, u)
      BY <1>1, <1>2, <1>5, <2>2 DEF Pending, PublishPending, At, Messages, ToolKinds
    <2>10. AuditInv' /\ DeliveryInv'
      BY <1>1, <1>2, <2>2, <2>8, <2>9, SamePending
    <2> QED  BY <2>4, <2>5, <2>6, <2>7, <2>10 DEF Inv
  <1> QED
    BY <1>1, <1>3, <1>4, <1>5 DEF Messages

-----------------------------------------------------------------------------
(* ToolRegistry.run, and an append that raises *)

\* The tool runs, or the registry refuses it; its output may be lost (ToolRegistry.run).
LEMMA RunStep ==
    ASSUME NEW t \in Thread, Inv, Run(t)
    PROVE  Inv'
  <1>1. /\ pc[t].kind = "tool_call" /\ pc[t].step = "run" /\ Busy(t) /\ Wrote(t)
        /\ targets[t] = <<>> /\ faults \in Nat /\ lastCall \in Nat
        /\ call[t] \in 1..lastCall /\ session[t] \in Session
        /\ pc \in [Thread -> Place] /\ call \in [Thread -> Nat]
    BY DEF Inv, TypeInv, PlaceInv, Run, At, Busy, Wrote, ToolKinds
  <1>2. /\ transcript' = transcript /\ audit' = audit /\ subscribers' = subscribers
        /\ queue' = queue /\ joined' = joined /\ targets' = targets
        /\ lastCall' = lastCall /\ prompts' = prompts
    BY DEF Run, records, bus
  <1>3. PICK outcome \in Outcomes :
          /\ executed' = IF outcome \in {"ok", "output_lost"} THEN executed \cup {call[t]} ELSE executed
          /\ IF outcome = "unexpected"
               THEN faults < MaxFaults /\ Raise(t)
               ELSE /\ Goto(t, IF outcome = "ok" THEN "tool_result" ELSE "tool_error", "append")
                    /\ UNCHANGED <<session, seq, call, faults>>
    BY DEF Run
  <1>4. CASE outcome = "unexpected"
    <2>1. Leave(t) /\ faults' = faults + 1 /\ executed' = executed /\ faults' \in Nat /\ faults' # 0
      BY <1>1, <1>3, <1>4 DEF Raise
    <2> QED  BY <1>1, <1>2, <2>1, LeaveStep
  <1>5. CASE outcome # "unexpected"
    <2>1. /\ session' = session /\ seq' = seq /\ call' = call /\ faults' = faults
          /\ pc' \in [Thread -> Place]
          /\ \A q \in Thread \ {t} : pc'[q] = pc[q]
          /\ pc'[t].kind \in Results /\ pc'[t].step = "append"
          /\ pc'[t].kind = "tool_error" => outcome # "ok"
          /\ executed' = executed \/ executed' = executed \cup {call[t]}
          /\ executed' # executed => outcome \in {"ok", "output_lost"}
          /\ outcome \in Outcomes
      <3>1. /\ session' = session /\ seq' = seq /\ call' = call /\ faults' = faults
            /\ pc' = [pc EXCEPT ![t] = At(IF outcome = "ok" THEN "tool_result" ELSE "tool_error", "append")]
        BY <1>3, <1>5 DEF Goto
      <3>2. executed' = IF outcome \in {"ok", "output_lost"} THEN executed \cup {call[t]} ELSE executed
        BY <1>3
      <3> QED  BY <1>1, <3>1, <3>2 DEF At, Place, Kinds, ToolKinds, Results
    <2>2. /\ ~Wrote(t)' /\ Busy(t)' /\ Open(t)' /\ Open(t) /\ ~Resolved(t)'
          /\ pc'[t] # At("tool_call", "append")
      BY <1>1, <2>1 DEF Wrote, Busy, Open, Resolved, At, Results
    <2>3. lastCall >= lastCall /\ \A c \in 1..lastCall : ~(c > lastCall)
      BY <1>1
    <2>4. OwnInv' /\ CallInv' /\ CompletedInv'
      BY <1>1, <1>2, <2>1, <2>2, <2>3, NextEvent
    <2>5. TypeInv'
      BY <1>1, <1>2, <2>1 DEF Inv, TypeInv
    <2>6. PlaceInv'
      BY <1>1, <1>2, <2>1 DEF Inv, PlaceInv, Busy, Results, ToolKinds
    <2>7. ExecutedInv'
      <3>1. ASSUME NEW q \in Thread, pc'[q].step = "run"
            PROVE  BagIn([action |-> "tool_call", session |-> session[q], seq |-> seq[q]], audit)'
        <4>1. BagIn([action |-> "tool_call", session |-> session[q], seq |-> seq[q]], audit)
          BY <2>1, <3>1 DEF Inv, ExecutedInv
        <4> QED  BY <1>2, <2>1, <4>1 DEF BagIn
      <3>2. /\ CallOf(session[t], seq[t]) = call[t] /\ KindOf(session[t], seq[t]) = "tool_call"
            /\ seq[t] \in DOMAIN transcript[session[t]]
            /\ BagIn([action |-> "tool_call", session |-> session[t], seq |-> seq[t]], audit)
        BY <1>1, OwnEvent DEF Inv, ExecutedInv, Messages
      <3>3. ASSUME NEW c \in executed'
            PROVE  /\ c \in 1..lastCall
                   /\ \E s \in Session : \E n \in DOMAIN transcript[s] :
                        /\ CallOf(s, n) = c /\ KindOf(s, n) = "tool_call"
                        /\ BagIn([action |-> "tool_call", session |-> s, seq |-> n], audit)
        BY <1>1, <2>1, <3>2 DEF Inv, ExecutedInv
      <3>4. ASSUME NEW c \in executed', NEW q \in Thread, call[q] = c
            PROVE  /\ pc'[q].kind \in Results \cup {"message_assistant"}
                   /\ pc'[q].kind = "tool_error" => "output_lost" \in Outcomes
        <4>1. CASE q = t
          <5>1. call[t] \notin executed
            BY <1>1 DEF Inv, ExecutedInv, Results
          <5> QED  BY <2>1, <3>4, <4>1, <5>1
        <4>2. CASE q # t
          <5>1. call[q] # call[t]
            BY <1>1, <4>2 DEF Inv, OwnInv
          <5> QED  BY <2>1, <3>4, <4>2, <5>1 DEF Inv, ExecutedInv
        <4> QED  BY <4>1, <4>2
      <3>5. ASSUME "output_lost" \notin Outcomes, NEW c \in executed', NEW s \in Session,
                   NEW n \in DOMAIN transcript[s], CallOf(s, n) = c
            PROVE  KindOf(s, n) # "tool_error"
        <4>1. CASE c \in executed
          BY <3>5, <4>1 DEF Inv, ExecutedInv
        <4>2. CASE c = call[t]
          BY <2>2, <3>2, <3>5, <4>2 DEF Inv, CallInv
        <4> QED  BY <2>1, <4>1, <4>2
      <3> QED  BY <1>2, <2>1, <3>1, <3>3, <3>4, <3>5, SameTranscript DEF ExecutedInv, BagIn
    <2>8. \A q \in Thread : AuditPending(q)' <=> AuditPending(q)
      BY <1>1, <2>1 DEF AuditPending, Results, Messages, ToolKinds
    <2>9. \A q \in Thread, u \in Subscriber : Pending(q, u)' <=> Pending(q, u)
      BY <1>1, <1>2, <2>1 DEF Pending, PublishPending, Results, Messages, ToolKinds
    <2>10. \A q \in Thread : Once(targets'[q])
      BY <1>2 DEF Inv, DeliveryInv
    <2>11. AuditInv' /\ DeliveryInv'
      BY <1>1, <1>2, <2>1, <2>8, <2>9, <2>10, SamePending
    <2> QED  BY <2>4, <2>5, <2>6, <2>7, <2>11 DEF Inv
  <1> QED
    BY <1>4, <1>5

\* An append that raises ends the prompt (Storage.append_event, MiniAgent.prompt).
LEMMA RecordingFailsStep ==
    ASSUME NEW t \in Thread, Inv, RecordingFails(t)
    PROVE  Inv'
  <1>1. /\ Leave(t) /\ faults' = faults + 1 /\ faults \in Nat /\ targets[t] = <<>>
        /\ transcript' = transcript /\ audit' = audit /\ subscribers' = subscribers
        /\ queue' = queue /\ joined' = joined /\ targets' = targets /\ executed' = executed
        /\ lastCall' = lastCall /\ prompts' = prompts
    BY DEF RecordingFails, Raise, Inv, TypeInv, PlaceInv, records, bus
  <1>2. faults' \in Nat /\ faults' # 0
    BY <1>1
  <1> QED
    BY <1>1, <1>2, LeaveStep

-----------------------------------------------------------------------------
(* EventBus.subscribe, its end, and the end of the process *)

\* Subscribers come and go: what the handlers do stands still.
LEMMA SameHandlers ==
    ASSUME Inv, UNCHANGED <<transcript, audit, pc, session, seq, call, targets, executed, lastCall, faults>>
    PROVE  PlaceInv' /\ OwnInv' /\ CallInv' /\ CompletedInv' /\ ExecutedInv' /\ AuditInv'
  <1>1. /\ transcript' = transcript /\ audit' = audit /\ pc' = pc /\ session' = session /\ seq' = seq
        /\ call' = call /\ targets' = targets /\ executed' = executed /\ lastCall' = lastCall
        /\ faults' = faults
    OBVIOUS
  <1>2. PlaceInv' /\ OwnInv'
    BY <1>1 DEF Inv, PlaceInv, OwnInv, Busy, Wrote
  <1>3. CallInv' /\ CompletedInv'
    <2>1. CallInv'
      BY <1>1, SameTranscript DEF Inv, CallInv, Open, CallOf, KindOf
    <2>2. CompletedInv'
      BY <1>1, SameTranscript DEF Inv, CompletedInv, Resolved, Completed, CallOf, KindOf
    <2> QED  BY <2>1, <2>2
  <1>4. ExecutedInv'
    BY <1>1 DEF Inv, ExecutedInv, BagIn, CallOf, KindOf
  <1>5. AuditInv'
    BY <1>1, SameTranscript DEF Inv, AuditInv, AuditPending, EntryOf, KindOf, Recorded
  <1> QED
    BY <1>2, <1>3, <1>4, <1>5

\* A subscriber joins with an empty queue (EventBus.subscribe).
LEMMA SubscribeStep ==
    ASSUME NEW u \in Subscriber, Inv, Subscribe(u)
    PROVE  Inv'
  <1>0. PICK lengths : lengths = [s \in Session |-> Len(transcript[s])]
    OBVIOUS
  <1>1. /\ joined[u] = None /\ queue[u] = EmptyBag
        /\ transcript' = transcript /\ audit' = audit /\ queue' = queue /\ pc' = pc
        /\ session' = session /\ seq' = seq /\ call' = call /\ targets' = targets
        /\ executed' = executed /\ lastCall' = lastCall /\ prompts' = prompts /\ faults' = faults
        /\ subscribers' = Append(subscribers, u)
        /\ joined' = [joined EXCEPT ![u] = lengths]
    BY <1>0 DEF Subscribe, records, threads
  <1>2. lengths \in [Session -> Nat] /\ lengths # None
    BY <1>0, RuntimeAssumption, LenProperties DEF Inv, TypeInv
  <1>3. /\ subscribers' \in Seq(Subscriber) /\ Once(subscribers')
        /\ ToSet(subscribers') = ToSet(subscribers) \cup {u}
    <2>1. u \notin ToSet(subscribers) /\ subscribers \in Seq(Subscriber) /\ Once(subscribers)
      BY <1>1 DEF Inv, TypeInv, DeliveryInv
    <2> QED  BY <1>1, <2>1, AppendOnce
  <1>4. /\ joined' \in [Subscriber -> [Session -> Nat] \cup {None}] /\ joined'[u] = lengths
        /\ \A v \in Subscriber \ {u} : joined'[v] = joined[v]
    BY <1>1, <1>2 DEF Inv, TypeInv
  <1>5. TypeInv'
    BY <1>1, <1>3, <1>4 DEF Inv, TypeInv
  <1>6. PlaceInv' /\ OwnInv' /\ CallInv' /\ CompletedInv' /\ ExecutedInv' /\ AuditInv'
    BY <1>1, SameHandlers
  <1>7. \A q \in Thread, v \in Subscriber : Pending(q, v)' <=> Pending(q, v)
    BY <1>1 DEF Pending, PublishPending
  <1>8. DeliveryInv'
    <2>1. ASSUME NEW v \in ToSet(subscribers') PROVE joined'[v] # None
      <3>1. ToSet(subscribers) \subseteq Subscriber
        BY LenProperties, ElementOfSeq DEF Inv, TypeInv, ToSet
      <3> QED  BY <1>2, <1>3, <1>4, <2>1, <3>1 DEF Inv, DeliveryInv
    <2>2. ASSUME NEW v \in Subscriber
          PROVE  /\ queue'[v] \in [DOMAIN queue'[v] -> {1}]
                 /\ \A e \in DOMAIN queue'[v] : e \in Session \X Nat /\ e[2] \in DOMAIN transcript'[e[1]]
                 /\ \A q \in Thread : Pending(q, v)' => <<session'[q], seq'[q]>> \notin DOMAIN queue'[v]
      BY <1>1, <1>7 DEF Inv, DeliveryInv
    <2>3. ASSUME NEW v \in Subscriber, faults' = 0, joined'[v] # None
          PROVE  /\ v \in ToSet(subscribers')
                 /\ \A r \in Session : \A n \in DOMAIN transcript'[r] : n > joined'[v][r] =>
                       \/ <<r, n>> \in DOMAIN queue'[v]
                       \/ \E q \in Thread : Pending(q, v)' /\ session'[q] = r /\ seq'[q] = n
      <3>1. CASE v = u
        <4>1. \A r \in Session : \A n \in DOMAIN transcript[r] : ~(n > lengths[r])
          BY <1>0, LenProperties DEF Inv, TypeInv
        <4> QED  BY <1>1, <1>3, <1>4, <3>1, <4>1
      <3>2. CASE v # u
        <4>1. joined'[v] = joined[v] /\ faults = 0 /\ joined[v] # None
          BY <1>1, <1>4, <2>3, <3>2
        <4> QED  BY <1>1, <1>3, <1>7, <4>1 DEF Inv, DeliveryInv
      <3> QED  BY <3>1, <3>2
    <2>4. \A q \in Thread : Once(targets'[q])
      BY <1>1 DEF Inv, DeliveryInv
    <2> QED  BY <1>3, <2>1, <2>2, <2>3, <2>4 DEF DeliveryInv
  <1> QED
    BY <1>5, <1>6, <1>8 DEF Inv

\* A subscriber leaves; a publish() in progress may still reach it (EventBus.subscribe).
LEMMA UnsubscribeStep ==
    ASSUME NEW u \in Subscriber, Inv, Unsubscribe(u)
    PROVE  Inv'
  <1>1. /\ u \in ToSet(subscribers)
        /\ transcript' = transcript /\ audit' = audit /\ queue' = queue /\ pc' = pc
        /\ session' = session /\ seq' = seq /\ call' = call /\ targets' = targets
        /\ executed' = executed /\ lastCall' = lastCall /\ prompts' = prompts /\ faults' = faults
        /\ subscribers' = RemoveFirst(subscribers, u)
        /\ joined' = [joined EXCEPT ![u] = None]
    BY DEF Unsubscribe, records, threads
  <1>2. /\ subscribers' \in Seq(Subscriber) /\ Once(subscribers')
        /\ ToSet(subscribers') = ToSet(subscribers) \ {u}
    BY <1>1, RemoveOnce DEF Inv, TypeInv, DeliveryInv
  <1>3. /\ joined' \in [Subscriber -> [Session -> Nat] \cup {None}] /\ joined'[u] = None
        /\ \A v \in Subscriber \ {u} : joined'[v] = joined[v]
    BY <1>1 DEF Inv, TypeInv
  <1>4. TypeInv'
    BY <1>1, <1>2, <1>3 DEF Inv, TypeInv
  <1>5. PlaceInv' /\ OwnInv' /\ CallInv' /\ CompletedInv' /\ ExecutedInv' /\ AuditInv'
    BY <1>1, SameHandlers
  <1>6. \A q \in Thread, v \in Subscriber : Pending(q, v)' <=> Pending(q, v)
    BY <1>1 DEF Pending, PublishPending
  <1>7. DeliveryInv'
    <2>1. ASSUME NEW v \in ToSet(subscribers') PROVE joined'[v] # None
      <3>1. ToSet(subscribers) \subseteq Subscriber
        BY LenProperties, ElementOfSeq DEF Inv, TypeInv, ToSet
      <3> QED  BY <1>2, <1>3, <2>1, <3>1 DEF Inv, DeliveryInv
    <2>2. ASSUME NEW v \in Subscriber
          PROVE  /\ queue'[v] \in [DOMAIN queue'[v] -> {1}]
                 /\ \A e \in DOMAIN queue'[v] : e \in Session \X Nat /\ e[2] \in DOMAIN transcript'[e[1]]
                 /\ \A q \in Thread : Pending(q, v)' => <<session'[q], seq'[q]>> \notin DOMAIN queue'[v]
      BY <1>1, <1>6 DEF Inv, DeliveryInv
    <2>3. ASSUME NEW v \in Subscriber, faults' = 0, joined'[v] # None
          PROVE  /\ v \in ToSet(subscribers')
                 /\ \A r \in Session : \A n \in DOMAIN transcript'[r] : n > joined'[v][r] =>
                       \/ <<r, n>> \in DOMAIN queue'[v]
                       \/ \E q \in Thread : Pending(q, v)' /\ session'[q] = r /\ seq'[q] = n
      <3>1. v # u /\ joined'[v] = joined[v] /\ faults = 0 /\ joined[v] # None
        BY <1>1, <1>3, <2>3
      <3> QED  BY <1>1, <1>2, <1>6, <3>1 DEF Inv, DeliveryInv
    <2>4. \A q \in Thread : Once(targets'[q])
      BY <1>1 DEF Inv, DeliveryInv
    <2> QED  BY <1>2, <2>1, <2>2, <2>3, <2>4 DEF DeliveryInv
  <1> QED
    BY <1>4, <1>5, <1>7 DEF Inv

\* The process ends: all handlers and subscribers are gone, the files stay.
LEMMA CrashStep ==
    ASSUME Inv, Crash
    PROVE  Inv'
  <1>1. /\ transcript' = transcript /\ audit' = audit /\ queue' = queue /\ joined' = joined
        /\ executed' = executed /\ lastCall' = lastCall /\ prompts' = prompts
        /\ faults' \in Nat /\ faults' # 0 /\ subscribers' = <<>>
        /\ pc' \in [Thread -> Place] /\ \A t \in Thread : pc'[t] = Idle
        /\ session' \in [Thread -> Session \cup {None}]
        /\ seq' \in [Thread -> Nat] /\ \A t \in Thread : seq'[t] = 0
        /\ call' \in [Thread -> Nat] /\ \A t \in Thread : call'[t] = 0
        /\ targets' \in [Thread -> Seq(Subscriber)] /\ \A t \in Thread : targets'[t] = <<>>
    BY DEF Inv, TypeInv, Crash, records, Place, At, Idle
  <1>2. TypeInv'
    BY <1>1 DEF Inv, TypeInv
  <1>3. \A t \in Thread : /\ ~Busy(t)' /\ ~Wrote(t)' /\ ~Open(t)' /\ ~Resolved(t)'
                          /\ ~AuditPending(t)' /\ pc'[t].step = "idle" /\ pc'[t].kind = "idle"
                          /\ pc'[t] # At("tool_call", "append")
    BY <1>1 DEF Busy, Wrote, Open, Resolved, AuditPending, At, Idle, Messages, ToolKinds, Results
  <1>4. PlaceInv' /\ OwnInv'
    BY <1>1, <1>3 DEF Inv, TypeInv, PlaceInv, OwnInv, ToolKinds
  <1>5. CallInv' /\ CompletedInv'
    BY <1>1, <1>3, SameTranscript DEF Inv, CallInv, CompletedInv
  <1>6. ExecutedInv'
    <2>1. 0 \notin executed
      BY DEF Inv, TypeInv, ExecutedInv
    <2> QED  BY <1>1, <1>3, <2>1, SameTranscript DEF Inv, ExecutedInv, BagIn
  <1>7. AuditInv' /\ DeliveryInv'
    <2>1. \A t \in Thread, u \in Subscriber : ~Pending(t, u)'
      BY <1>3 DEF Pending, PublishPending
    <2>2. \A t \in Thread : Once(targets'[t])
      BY <1>1 DEF Once
    <2>3. Once(subscribers') /\ ToSet(subscribers') = {}
      BY <1>1 DEF Once, ToSet
    <2>4. AuditInv'
      BY <1>1, <1>3, SameTranscript DEF Inv, AuditInv
    <2>5. DeliveryInv'
      BY <1>1, <2>1, <2>2, <2>3 DEF Inv, DeliveryInv
    <2> QED  BY <2>4, <2>5
  <1> QED
    BY <1>2, <1>4, <1>5, <1>6, <1>7 DEF Inv

\* A step of something else keeps the invariant.
LEMMA StutterStep ==
    ASSUME Inv, UNCHANGED vars
    PROVE  Inv'
  <1>1. UNCHANGED <<transcript, audit, subscribers, queue, joined, pc, session, seq, call, targets,
                    executed, lastCall, prompts, faults>>
    BY DEF vars, records, bus, threads
  <1>2. TypeInv'
    BY <1>1 DEF Inv, TypeInv
  <1>3. PlaceInv' /\ OwnInv' /\ CallInv' /\ CompletedInv' /\ ExecutedInv' /\ AuditInv'
    BY <1>1, SameHandlers
  <1>4. DeliveryInv'
    BY <1>1 DEF Inv, DeliveryInv, Pending, PublishPending
  <1> QED
    BY <1>2, <1>3, <1>4 DEF Inv

\* The invariant holds of a runtime that has just started (MiniAgent.__init__).
LEMMA InitInv ==
    ASSUME Init
    PROVE  Inv
  <1>1. /\ transcript = [s \in Session |-> <<>>] /\ audit = EmptyBag /\ subscribers = <<>>
        /\ queue = [u \in Subscriber |-> EmptyBag] /\ joined = [u \in Subscriber |-> None]
        /\ pc = [t \in Thread |-> Idle] /\ session = [t \in Thread |-> None]
        /\ seq = [t \in Thread |-> 0] /\ call = [t \in Thread |-> 0]
        /\ targets = [t \in Thread |-> <<>>]
        /\ executed = {} /\ lastCall = 0 /\ prompts = 0 /\ faults = 0
    BY DEF Init
  <1>2. \A s \in Session : DOMAIN transcript[s] = {}
    BY <1>1
  <1>3. \A t \in Thread : /\ ~Busy(t) /\ ~Wrote(t) /\ ~Open(t) /\ ~Resolved(t) /\ ~AuditPending(t)
                          /\ ~PublishPending(t) /\ pc[t].step = "idle" /\ pc[t].kind = "idle"
                          /\ pc[t] # At("tool_call", "append")
    BY <1>1 DEF Busy, Wrote, Open, Resolved, AuditPending, PublishPending, At, Idle, Messages,
                ToolKinds, Results
  <1>4. TypeInv
    BY <1>1 DEF TypeInv, Place, At, Idle
  <1>5. PlaceInv /\ OwnInv
    BY <1>1, <1>3 DEF PlaceInv, OwnInv, ToolKinds
  <1>6. CallInv /\ CompletedInv /\ ExecutedInv
    BY <1>1, <1>2, <1>3 DEF CallInv, CompletedInv, ExecutedInv
  <1>7. AuditInv
    BY <1>1, <1>2, <1>3 DEF AuditInv, EmptyBag, SetToBag
  <1>8. DeliveryInv
    <2>1. \A u \in Subscriber : queue[u] = [e \in {} |-> 1] /\ joined[u] = None
      BY <1>1 DEF EmptyBag, SetToBag
    <2>2. Once(subscribers) /\ ToSet(subscribers) = {} /\ \A t \in Thread : Once(targets[t])
      BY <1>1 DEF Once, ToSet
    <2>3. \A t \in Thread, u \in Subscriber : ~Pending(t, u)
      BY <1>3 DEF Pending
    <2> QED  BY <2>1, <2>2, <2>3 DEF DeliveryInv
  <1> QED
    BY <1>4, <1>5, <1>6, <1>7, <1>8 DEF Inv

\* Every step of every handler keeps the invariant.
LEMMA NextInv ==
    ASSUME Inv, [Next]_vars
    PROVE  Inv'
  <1>1. ASSUME NEW t \in Thread, Step(t) PROVE Inv'
    BY <1>1, AppendEventStep, AuditEventStep, PublishEventStep, PutEventStep, PublishDoneStep,
       RunStep DEF Step
  <1>2. ASSUME NEW t \in Thread, RecordingFails(t) PROVE Inv'
    BY <1>2, RecordingFailsStep
  <1>3. ASSUME NEW t \in Thread, NEW s \in Session, Prompt(t, s) PROVE Inv'
    BY <1>3, PromptStep
  <1>4. ASSUME NEW u \in Subscriber, Subscribe(u) \/ Unsubscribe(u) PROVE Inv'
    BY <1>4, SubscribeStep, UnsubscribeStep
  <1>5. CASE Crash
    BY <1>5, CrashStep
  <1>6. CASE UNCHANGED vars
    BY <1>6, StutterStep
  <1> QED
    BY <1>1, <1>2, <1>3, <1>4, <1>5, <1>6 DEF Next

-----------------------------------------------------------------------------
(* What the invariant says about the evidence *)

\* The events of a call are those of the transcripts that carry its id.
LEMMA InEventsOf ==
    ASSUME NEW c, NEW e
    PROVE  e \in EventsOf(c) <=>
             \E s \in Session : \E n \in DOMAIN transcript[s] :
                e = <<s, n>> /\ CallOf(s, n) = c
  BY DEF EventsOf, CallOf

\* What is audited or sent is recorded.
LEMMA EvidenceFirstInv ==
    ASSUME Inv
    PROVE  EvidenceFirst
  BY BagParts DEF Inv, AuditInv, DeliveryInv, EvidenceFirst

\* What ran was recorded and audited as a call before.
LEMMA RunAfterRecordInv ==
    ASSUME Inv
    PROVE  RunAfterRecord
  <1> SUFFICES ASSUME NEW c \in executed
               PROVE  \E e \in EventsOf(c) :
                        /\ TypeOf(e) = "tool_call"
                        /\ BagIn([action |-> "tool_call", session |-> e[1], seq |-> e[2]], audit)
    BY DEF RunAfterRecord
  <1>1. PICK s \in Session : \E n \in DOMAIN transcript[s] :
            /\ CallOf(s, n) = c /\ KindOf(s, n) = "tool_call"
            /\ BagIn([action |-> "tool_call", session |-> s, seq |-> n], audit)
    BY DEF Inv, ExecutedInv
  <1>2. PICK n \in DOMAIN transcript[s] :
            /\ CallOf(s, n) = c /\ KindOf(s, n) = "tool_call"
            /\ BagIn([action |-> "tool_call", session |-> s, seq |-> n], audit)
    BY <1>1
  <1>3. <<s, n>> \in EventsOf(c) /\ TypeOf(<<s, n>>) = "tool_call"
    BY <1>2, InEventsOf DEF TypeOf, KindOf
  <1> QED
    BY <1>2, <1>3

\* A call has one outcome, after it and in its session.
LEMMA OneOutcomeInv ==
    ASSUME Inv
    PROVE  OneOutcome
  <1> SUFFICES ASSUME NEW c \in 1..MaxPrompts, NEW e1 \in EventsOf(c), NEW e2 \in EventsOf(c)
               PROVE  /\ e1[1] = e2[1]
                      /\ TypeOf(e1) = "tool_call" /\ e1 # e2 => e1[2] < e2[2]
                      /\ {TypeOf(e1), TypeOf(e2)} \subseteq Results => e1 = e2
    BY DEF OneOutcome, Results
  <1>0. c # 0
    OBVIOUS
  <1>1. PICK s \in Session : \E n \in DOMAIN transcript[s] : e1 = <<s, n>> /\ CallOf(s, n) = c
    BY InEventsOf
  <1>2. PICK m \in DOMAIN transcript[s] : e1 = <<s, m>> /\ CallOf(s, m) = c
    BY <1>1
  <1>3. PICK r \in Session : \E n \in DOMAIN transcript[r] : e2 = <<r, n>> /\ CallOf(r, n) = c
    BY InEventsOf
  <1>4. PICK n \in DOMAIN transcript[r] : e2 = <<r, n>> /\ CallOf(r, n) = c
    BY <1>3
  <1>5. TypeOf(e1) = KindOf(s, m) /\ TypeOf(e2) = KindOf(r, n)
    BY <1>2, <1>4 DEF TypeOf, KindOf
  <1>6. /\ s = r
        /\ KindOf(s, m) = "tool_call" /\ m # n => m < n
        /\ KindOf(s, m) \in Results /\ KindOf(r, n) \in Results => m = n
    BY <1>0, <1>2, <1>4 DEF Inv, CallInv
  <1> QED
    BY <1>2, <1>4, <1>5, <1>6

\* Unless outputs are lost, a call that ran is not recorded as failed.
LEMMA NoInventedErrorInv ==
    ASSUME Inv, "output_lost" \notin Outcomes
    PROVE  NoInventedError
  <1> SUFFICES ASSUME NEW c \in executed, NEW e \in EventsOf(c) PROVE TypeOf(e) # "tool_error"
    BY DEF NoInventedError
  <1>1. PICK s \in Session : \E n \in DOMAIN transcript[s] : e = <<s, n>> /\ CallOf(s, n) = c
    BY InEventsOf
  <1>2. PICK n \in DOMAIN transcript[s] : e = <<s, n>> /\ CallOf(s, n) = c
    BY <1>1
  <1>3. KindOf(s, n) # "tool_error"
    BY <1>2 DEF Inv, ExecutedInv
  <1> QED
    BY <1>2, <1>3 DEF TypeOf, KindOf

\* A call and its outcome are all the events of a completed call.
LEMMA CompletedTwo ==
    ASSUME Inv, NEW c \in Nat, c # 0, Completed(c)
    PROVE  Cardinality(EventsOf(c)) = 2
  <1>1. PICK s \in Session : \E m, n \in DOMAIN transcript[s] :
          /\ m < n
          /\ CallOf(s, m) = c /\ KindOf(s, m) = "tool_call"
          /\ CallOf(s, n) = c /\ KindOf(s, n) \in Results
    BY DEF Completed
  <1>2. PICK m \in DOMAIN transcript[s], n \in DOMAIN transcript[s] :
          /\ m < n
          /\ CallOf(s, m) = c /\ KindOf(s, m) = "tool_call"
          /\ CallOf(s, n) = c /\ KindOf(s, n) \in Results
    BY <1>1
  <1>3. ASSUME NEW e \in EventsOf(c) PROVE e \in {<<s, m>>, <<s, n>>}
    <2>1. PICK r \in Session : \E k \in DOMAIN transcript[r] : e = <<r, k>> /\ CallOf(r, k) = c
      BY InEventsOf
    <2>2. PICK k \in DOMAIN transcript[r] : e = <<r, k>> /\ CallOf(r, k) = c
      BY <2>1
    <2>3. KindOf(r, k) \in ToolKinds
      <3>1. transcript[r] \in Seq(Event) /\ k \in 1..Len(transcript[r])
        BY LenProperties DEF Inv, TypeInv
      <3>2. transcript[r][k] \in Event
        BY <3>1, ElementOfSeq
      <3>3. KindOf(r, k) \in Kinds
        BY <3>2 DEF KindOf, Event
      <3> QED  BY <2>2, <3>3 DEF Inv, CallInv, Kinds
    <2>4. /\ r = s
          /\ KindOf(r, k) = "tool_call" /\ k # m => k < m
          /\ KindOf(s, m) = "tool_call" /\ m # k => m < k
          /\ KindOf(r, k) \in Results => k = n
      BY <1>2, <2>2 DEF Inv, CallInv
    <2>5. k \in Nat /\ m \in Nat
      BY LenProperties DEF Inv, TypeInv
    <2>6. k = m \/ k = n
      BY <1>2, <2>3, <2>4, <2>5 DEF ToolKinds, Results
    <2> QED  BY <2>2, <2>4, <2>6
  <1>4. <<s, m>> \in EventsOf(c) /\ <<s, n>> \in EventsOf(c)
    BY <1>2, InEventsOf
  <1>5. m # n
    BY <1>2 DEF Results
  <1>6. EventsOf(c) = {<<s, m>>, <<s, n>>}
    BY <1>3, <1>4
  <1>7. IsFiniteSet({<<s, m>>}) /\ Cardinality({<<s, m>>}) = 1
    BY FS_Singleton
  <1>8. EventsOf(c) = {<<s, m>>} \cup {<<s, n>>} /\ <<s, n>> \notin {<<s, m>>}
    BY <1>5, <1>6
  <1>9. Cardinality(EventsOf(c)) = Cardinality({<<s, m>>}) + 1
    BY <1>7, <1>8, FS_AddElement
  <1> QED
    BY <1>7, <1>9

\* Without faults, idle handlers leave all evidence.
LEMMA CompleteEvidenceInv ==
    ASSUME Inv
    PROVE  CompleteEvidence
  <1> SUFFICES ASSUME faults = 0, \A t \in Thread : pc[t] = Idle
               PROVE  /\ \A s \in Session : \A n \in DOMAIN transcript[s] : AuditedOnce(EntryOf(s, n))
                      /\ \A c \in 1..lastCall : Cardinality(EventsOf(c)) = 2
    BY DEF CompleteEvidence, EntryOf, KindOf
  <1>1. \A t \in Thread : ~AuditPending(t) /\ call[t] = 0
    BY DEF AuditPending, Inv, PlaceInv, Idle, At, Messages, ToolKinds
  <1>2. ASSUME NEW s \in Session, NEW n \in DOMAIN transcript[s] PROVE AuditedOnce(EntryOf(s, n))
    <2>1. EntryOf(s, n) \in DOMAIN audit
      BY <1>1 DEF Inv, AuditInv
    <2>2. audit[EntryOf(s, n)] = 1
      BY <2>1 DEF Inv, AuditInv
    <2> QED  BY <2>1, <2>2, BagParts DEF AuditedOnce
  <1>3. ASSUME NEW c \in 1..lastCall PROVE Cardinality(EventsOf(c)) = 2
    <2>1. c \in Nat /\ c # 0
      BY DEF Inv, TypeInv
    <2>2. Completed(c)
      BY <1>1, <2>1 DEF Inv, CompletedInv
    <2> QED  BY <2>1, <2>2, CompletedTwo
  <1> QED
    BY <1>2, <1>3

\* A queue holds no event twice, and without faults all since its subscriber joined.
LEMMA ExactlyOnceDeliveryInv ==
    ASSUME Inv
    PROVE  ExactlyOnceDelivery
  <1>1. ASSUME NEW u \in Subscriber, NEW e \in BagToSet(queue[u]) PROVE queue[u][e] = 1
    BY BagParts DEF Inv, DeliveryInv
  <1>2. ASSUME NEW u \in Subscriber, joined[u] # None, faults = 0, \A t \in Thread : pc[t] = Idle,
               NEW s \in Session, NEW n \in DOMAIN transcript[s], n > joined[u][s]
        PROVE  BagIn(<<s, n>>, queue[u])
    <2>1. \A t \in Thread : ~Pending(t, u)
      BY <1>2 DEF Pending, PublishPending, Idle, At, Messages, ToolKinds
    <2>2. <<s, n>> \in DOMAIN queue[u]
      BY <1>2, <2>1 DEF Inv, DeliveryInv
    <2> QED  BY <2>2, BagParts
  <1> QED
    BY <1>1, <1>2 DEF ExactlyOnceDelivery

-----------------------------------------------------------------------------
(* Every behaviour of the runtime *)

\* The invariant holds of every prompt, whatever the tools do and whoever listens.
THEOREM Invariant == Spec => []Inv
  <1>1. Init => Inv
    BY InitInv
  <1>2. Inv /\ [Next]_vars => Inv'
    BY NextInv
  <1> QED
    BY <1>1, <1>2, PTL DEF Spec

\* Nothing is audited, sent to a subscriber or run before the transcript has it
\* (MiniAgent.prompt).
THEOREM EvidenceStays == Spec => [](EvidenceFirst /\ RunAfterRecord)
  <1>1. Inv => EvidenceFirst /\ RunAfterRecord
    BY EvidenceFirstInv, RunAfterRecordInv
  <1> QED
    BY <1>1, Invariant, PTL

\* A call has one outcome, and idle handlers that met no fault leave complete
\* evidence of what they did (MiniAgent.prompt).
THEOREM OutcomesComplete == Spec => [](OneOutcome /\ CompleteEvidence)
  <1>1. Inv => OneOutcome /\ CompleteEvidence
    BY OneOutcomeInv, CompleteEvidenceInv
  <1> QED
    BY <1>1, Invariant, PTL

-----------------------------------------------------------------------------
(* The scenarios *)

\* The invariant, in the scenarios of the runtime.
HarnessInv == InHarness => Inv

\* Both scenarios start as the runtime does.
LEMMA HarnessInit == ScenarioInit => HarnessInv
  BY InitInv DEF ScenarioInit, HarnessInv, InHarness

\* Every step of a scenario of the runtime is one of the runtime.
LEMMA HarnessNext ==
    ASSUME HarnessInv, [ScenarioNext]_Vars
    PROVE  HarnessInv'
  <1> SUFFICES ASSUME InHarness' PROVE Inv'
    BY DEF HarnessInv
  <1>1. Inv /\ InHarness
    BY DEF HarnessInv, InHarness, ScenarioNext, Vars
  <1>2. CASE UNCHANGED Vars
    BY <1>1, <1>2, StutterStep DEF Vars
  <1>3. CASE Prompts
    <2>1. Next
      BY <1>3 DEF Prompts, Next
    <2> QED  BY <1>1, <2>1, NextInv
  <1>4. CASE Delivery
    <2>1. Next
      BY <1>4, ScenarioAssumption DEF Delivery, Next
    <2> QED  BY <1>1, <2>1, NextInv
  <1> QED
    BY <1>1, <1>2, <1>3, <1>4 DEF ScenarioNext, InHarness

\* The invariant holds of both scenarios of the runtime.
THEOREM HarnessInvariant == ScenarioSpec => []HarnessInv
  <1>1. ScenarioInit => HarnessInv
    BY HarnessInit
  <1>2. HarnessInv /\ [ScenarioNext]_Vars => HarnessInv'
    BY HarnessNext
  <1> QED
    BY <1>1, <1>2, PTL DEF ScenarioSpec

\* Audit entries, live events and tool runs follow the durable transcript event they
\* are about, for any number of handlers and faults (MiniAgent.prompt, _audit, _publish).
THEOREM EvidenceBeforeEffectHolds == ScenarioSpec => []EvidenceBeforeEffect
  <1>1. HarnessInv => EvidenceBeforeEffect
    BY EvidenceFirstInv, RunAfterRecordInv DEF HarnessInv, EvidenceBeforeEffect
  <1> QED
    BY <1>1, HarnessInvariant, PTL

\* A call has at most one outcome, and one that ran is never recorded as failed, if
\* no tool loses its output after its effect (MiniAgent.prompt; the run
\* harness_lost_output shows what happens when one does).
THEOREM TruthfulOutcomesHold ==
    ASSUME "output_lost" \notin Outcomes
    PROVE  ScenarioSpec => []TruthfulOutcomes
  <1>1. HarnessInv => TruthfulOutcomes
    BY OneOutcomeInv, NoInventedErrorInv DEF HarnessInv, TruthfulOutcomes
  <1> QED
    BY <1>1, HarnessInvariant, PTL

\* If no prompt raised, idle handlers leave an audit entry for every event and an
\* outcome for every call (MiniAgent.prompt).
THEOREM EvidenceIsComplete == ScenarioSpec => []EvidenceComplete
  <1>1. HarnessInv => EvidenceComplete
    BY CompleteEvidenceInv DEF HarnessInv, EvidenceComplete
  <1> QED
    BY <1>1, HarnessInvariant, PTL

\* A subscriber that stays gets every event once, whoever else comes and goes
\* during publish() (EventBus).
THEOREM DeliveredOnceHolds == ScenarioSpec => []DeliveredOnce
  <1>1. HarnessInv => DeliveredOnce
    BY ExactlyOnceDeliveryInv DEF HarnessInv, DeliveredOnce
  <1> QED
    BY <1>1, HarnessInvariant, PTL

-----------------------------------------------------------------------------
(* The transcript *)

\* The proofs about Transcript, for the file of the third scenario.
FP == INSTANCE TranscriptProofs WITH
    pc <- at, LegacyLines <- {0, 1}, Faults <- {"oserror", "tear", "kill", "power"},
    MaxCalls <- 5, MaxFaults <- 2, MaxNewFaults <- 1

\* What TranscriptProofs asks of the constants.
LEMMA FileConstants == FP!Constants
  BY ScenarioAssumption DEF FP!Constants, FP!LineType

\* The invariant of TranscriptProofs, in the scenario of the transcript.
FileInv == scenario = "transcript" => FP!Inv /\ FP!LinkInv

\* Both instances of Transcript start alike.
LEMMA SameFileInit == ScenarioInit /\ scenario = "transcript" => FP!Init
  BY DEF ScenarioInit, File!Init, FP!Init, File!Line, FP!Line, File!Lines, FP!Lines,
         File!LegacyEvent, FP!LegacyEvent

\* A file that is there at first satisfies the invariant, and one that is not.
LEMMA FileInit == ScenarioInit => FileInv
  BY SameFileInit, FileConstants, FP!InitInv DEF FileInv

\* Both instances have the same steps.
LEMMA SameFileNext ==
    /\ File!Next => FP!Next
    /\ File!vars = FP!vars
  <1>1. ASSUME NEW t \in Thread, File!Step(t) PROVE FP!Step(t)
    <2>1. File!AcquireLock(t) => FP!AcquireLock(t)
      BY DEF File!AcquireLock, FP!AcquireLock, File!Goto, FP!Goto, File!disk, FP!disk
    <2>2. File!ReadTranscript(t) => FP!ReadTranscript(t)
      BY DEF File!ReadTranscript, FP!ReadTranscript, File!Goto, FP!Goto, File!Finish, FP!Finish,
             File!disk, FP!disk, File!Valid, FP!Valid, File!Committed, FP!Committed,
             File!Torn, FP!Torn, File!Lines, FP!Lines
    <2>3. File!TruncatePartialTail(t) => FP!TruncatePartialTail(t)
      BY DEF File!TruncatePartialTail, FP!TruncatePartialTail, File!Goto, FP!Goto,
             File!Committed, FP!Committed, File!Torn, FP!Torn
    <2>4. File!OpenTranscript(t) => FP!OpenTranscript(t)
      BY DEF File!OpenTranscript, FP!OpenTranscript, File!Goto, FP!Goto, File!Lines, FP!Lines
    <2>5. File!WriteEvent(t) => FP!WriteEvent(t)
      BY DEF File!WriteEvent, FP!WriteEvent, File!Goto, FP!Goto, File!AppendBytes, FP!AppendBytes,
             File!Torn, FP!Torn, File!Line, FP!Line
    <2>6. File!FsyncEvent(t) => FP!FsyncEvent(t)
      BY DEF File!FsyncEvent, FP!FsyncEvent, File!Goto, FP!Goto, File!Finish, FP!Finish,
             File!disk, FP!disk
    <2>7. File!FsyncDirectory(t) => FP!FsyncDirectory(t)
      BY DEF File!FsyncDirectory, FP!FsyncDirectory, File!Finish, FP!Finish, File!Goto, FP!Goto
    <2>8. File!Return(t) => FP!Return(t)
      BY DEF File!Return, FP!Return, File!Goto, FP!Goto, File!disk, FP!disk
    <2> QED
      BY <1>1, <2>1, <2>2, <2>3, <2>4, <2>5, <2>6, <2>7, <2>8 DEF File!Step, FP!Step
  <1>2. ASSUME NEW t \in Thread PROVE File!RaiseOSError(t) => FP!RaiseOSError(t)
    BY DEF File!RaiseOSError, FP!RaiseOSError, File!Suffer, FP!Suffer, File!Finish, FP!Finish,
           File!Goto, FP!Goto, File!disk, FP!disk
  <1>3. ASSUME NEW t \in Thread PROVE File!TearWrite(t) => FP!TearWrite(t)
    BY DEF File!TearWrite, FP!TearWrite, File!Suffer, FP!Suffer, File!Finish, FP!Finish,
           File!Goto, FP!Goto, File!AppendBytes, FP!AppendBytes, File!Torn, FP!Torn, File!Line, FP!Line
  <1>4. ASSUME NEW t \in Thread, NEW o PROVE File!Call(t, o) => FP!Call(t, o)
    BY DEF File!Call, FP!Call, File!Goto, FP!Goto, File!disk, FP!disk
  <1>5. File!KillProcess => FP!KillProcess
    BY DEF File!KillProcess, FP!KillProcess, File!Suffer, FP!Suffer, File!Abandon, FP!Abandon,
           File!AppendBytes, FP!AppendBytes, File!Torn, FP!Torn, File!Line, FP!Line
  <1>6. File!PowerLoss => FP!PowerLoss
    BY DEF File!PowerLoss, FP!PowerLoss, File!Suffer, FP!Suffer, File!Abandon, FP!Abandon
  <1>7. File!vars = FP!vars
    BY DEF File!vars, FP!vars, File!disk, FP!disk, File!threads, FP!threads
  <1> QED
    BY <1>1, <1>2, <1>3, <1>4, <1>5, <1>6, <1>7 DEF File!Next, FP!Next

\* A step of the third scenario is one of the file.
LEMMA FileStep ==
    ASSUME [ScenarioNext]_Vars
    PROVE  /\ scenario' = scenario
           /\ scenario = "transcript" => [FP!Next]_(FP!vars)
  <1>1. UNCHANGED transcriptVars => UNCHANGED FP!vars
    BY DEF transcriptVars, FP!vars, FP!disk, FP!threads
  <1> QED
    BY <1>1, SameFileNext DEF ScenarioNext, Vars

\* Every step of the third scenario keeps the invariant of the file.
LEMMA FileNext ==
    ASSUME FileInv, [ScenarioNext]_Vars
    PROVE  FileInv'
  BY FileStep, FileConstants, FP!NextInv DEF FileInv

\* The invariant holds of the third scenario.
THEOREM FileInvariant == ScenarioSpec => []FileInv
  <1>1. ScenarioInit => FileInv
    BY FileInit
  <1>2. FileInv /\ [ScenarioNext]_Vars => FileInv'
    BY FileNext
  <1> QED
    BY <1>1, <1>2, PTL DEF ScenarioSpec

\* What append_event() returned stays at its sequence, whole and durable, and no order
\* of handlers and crashes makes the file unreadable (Storage.append_event).
THEOREM TranscriptKeptHolds == ScenarioSpec => []TranscriptKept
  <1>1. FileInv => TranscriptKept
    BY DEF FileInv, TranscriptKept, FP!Inv, FP!FileInv, FP!ReturnedDurable, File!ReturnedDurable,
           FP!NeverCorrupt, File!NeverCorrupt, FP!Line, File!Line
  <1> QED
    BY <1>1, FileInvariant, PTL

\* Both instances have the same list of events.
LEMMA SameEvents ==
    /\ FP!Events!Init => File!Events!Init
    /\ [FP!Events!Next]_(FP!Events!vars) => [File!Events!Next]_(File!Events!vars)
  <1>1. FP!Lines = File!Lines
    BY DEF FP!Lines, File!Lines
  <1>2. FP!Committed(FP!Lines) = File!Committed(File!Lines)
    BY <1>1 DEF FP!Committed, File!Committed, FP!Torn, File!Torn
  <1>3. FP!Lines' = File!Lines'
    BY DEF FP!Lines, File!Lines
  <1>4. FP!Committed(FP!Lines)' = File!Committed(File!Lines)'
    BY <1>3 DEF FP!Committed, File!Committed, FP!Torn, File!Torn
  <1>5. FP!Events!Init => File!Events!Init
    BY <1>2 DEF FP!Events!Init, File!Events!Init
  <1>6. FP!Events!vars = File!Events!vars /\ FP!Events!vars' = File!Events!vars'
    BY <1>2, <1>4 DEF FP!Events!vars, File!Events!vars
  <1>7. FP!Events!Next => File!Events!Next
    BY <1>2, <1>4 DEF FP!Events!Next, File!Events!Next, FP!Events!Commit, File!Events!Commit,
           FP!Events!Return, File!Events!Return, FP!Events!Lose, File!Events!Lose
  <1> QED
    BY <1>5, <1>6, <1>7

\* The file implements a list of events that only grows, a power loss apart, which takes
\* back nothing append_event() returned (EventLog).
THEOREM TranscriptImplementsLogHolds == ScenarioSpec => TranscriptImplementsLog
  <1>1. ScenarioInit => (scenario = "transcript" => File!Events!Init)
    BY FileConstants, FP!EventsInit, SameEvents, SameFileInit
  <1>2. FileInv /\ [ScenarioNext]_Vars =>
           [scenario = "transcript" => File!Events!Next]_(File!Events!vars)
    BY FileStep, FileConstants, FP!EventsStep, SameEvents DEF FileInv
  <1> QED
    BY <1>1, <1>2, FileInvariant, PTL DEF ScenarioSpec, TranscriptImplementsLog
=============================================================================
