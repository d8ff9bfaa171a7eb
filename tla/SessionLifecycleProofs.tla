----------------------- MODULE SessionLifecycleProofs -----------------------
(***************************************************************************)
(* Proofs about SessionLifecycle for any threads, modes and bounds, as     *)
(* long as None stands for nothing else and there is a first generation.   *)
(***************************************************************************)
EXTENDS SessionLifecycle, TLAPS, SequenceTheorems

\* The values of RuntimeStatus.
Status == {"creating", "idle", "running", "closing", "closed", "error"}
\* What the store keeps of a session, what a runtime keeps, and where a thread is.
Record == [status : Status, gen : Generation, messages : Seq(Nat), mode : Mode]
Runtime == [status : Status, messages : Seq(Nat), mode : Mode,
            abort : BOOLEAN, locked : BOOLEAN]
Turn == [pc : {"idle", "check", "clear", "begin", "loop", "call", "commit", "failed", "end",
               "to_idle", "to_error", "release"},
         gen : Generation \cup {None}, n : Nat, calls : Nat, late : Nat]

\* The hypothesis of the theorems.
Constants == MaxGeneration \in Nat \ {0} /\ None \notin Generation \cup Record \cup Runtime

-----------------------------------------------------------------------------
(* The inductive invariant *)

\* The runtime that the manager has registered, or is starting or closing.
Serving(g) == live = g \/ (manager.pc # "ready" /\ manager.gen = g)

\* A thread that is inside run_agent_loop of a runtime.
Inside(t, g) == turn[t].pc # "idle" /\ turn[t].gen = g

\* The types.
TypeInv ==
    /\ record \in Record \cup {None}
    /\ runtime \in [Generation -> Runtime \cup {None}]
    /\ live \in Generation \cup {None}
    /\ manager \in [pc : {"ready", "starting", "closing", "stopping"}, gen : Generation \cup {None}]
    /\ turn \in [Client -> Turn]
    /\ turns \in Nat
    /\ committed \subseteq Nat

\* What the manager is at, and that what is neither settled nor served is gone.
ManagerInv ==
    /\ manager.pc = "ready" => manager = Ready
    /\ manager.pc # "ready" => live = None /\ manager.gen \in Generation
    /\ manager.pc = "starting" => runtime[manager.gen].status = "creating"
    /\ \A g \in Generation : runtime[g] # None /\ runtime[g].status \notin Settled => Serving(g)

\* What the store holds of the runtime that serves.
ServingStored ==
    \A g \in Generation : Serving(g) =>
        /\ runtime[g] # None /\ runtime[g].status # "closed"
        /\ record # None
        /\ record.gen = g
        /\ record.status = runtime[g].status
        /\ record.messages = runtime[g].messages
        /\ record.mode = runtime[g].mode

\* What the store holds of a runtime that is gone, and that generations grow.
StoreInv ==
    /\ runtime[1] = None =>
         record = None /\ committed = {} /\ \A g \in Generation : runtime[g] = None
    /\ record # None =>
         /\ runtime[record.gen] # None
         /\ \A g \in Generation : g > record.gen => runtime[g] = None
         /\ record.status \notin Settled =>
              /\ runtime[record.gen].status \in {record.status, "closed"}
              /\ runtime[record.gen].messages = record.messages
              /\ runtime[record.gen].mode = record.mode

\* The turn lock keeps the threads of a runtime apart.
LockInv ==
    /\ \A t \in Client : turn[t].pc # "idle" =>
         /\ turn[t].gen \in Generation
         /\ runtime[turn[t].gen] # None
         /\ runtime[turn[t].gen].locked
         /\ turn[t].pc # "check" => runtime[turn[t].gen].status # "creating"
    /\ \A t, u \in Client : turn[t].pc # "idle" /\ turn[u].pc # "idle" /\ turn[t].gen = turn[u].gen
         => t = u
    /\ \A g \in Generation : runtime[g] # None /\ runtime[g].locked =>
         \/ \E t \in Client : Inside(t, g)
         \/ runtime[g].status \in {"closing", "closed", "error"}

\* An answer that came after the request to stop is the last one of its turn.
StopInv ==
    \A t \in Client :
        /\ turn[t].late <= 1
        /\ turn[t].pc \in {"idle", "check", "clear", "begin", "call"} => turn[t].late = 0
        /\ turn[t].pc = "loop" /\ turn[t].late = 1 => runtime[turn[t].gen].abort

\* The turn that can still be committed is later than all that were.
CommitInv ==
    /\ \A n \in committed : n <= turns
    /\ \A t \in Client : turn[t].n <= turns
    /\ \A t \in Client : turn[t].pc \in {"loop", "call", "commit"}
                            /\ runtime[turn[t].gen].status = "running" =>
         \A n \in committed : n < turn[t].n
    /\ CommittedKept

IInv == TypeInv /\ ManagerInv /\ ServingStored /\ StoreInv /\ LockInv /\ StopInv /\ CommitInv

-----------------------------------------------------------------------------
(* Lemmas *)

\* Where the table of allowed transitions lets a turn and its end happen.
LEMMA MayRun ==
    ASSUME NEW g, runtime[g].status \in Status
    PROVE  /\ May(g, "running") <=> runtime[g].status \in {"idle", "running"}
           /\ May(g, "idle") <=> runtime[g].status \in {"creating", "idle", "running"}
           /\ May(g, "error") <=> runtime[g].status # "closed"
  BY DEF May, Allowed, Status

\* There is a first generation.
LEMMA FirstGeneration == Constants => 1 \in Generation
  BY DEF Constants, Generation

\* A committed turn keeps the history in the order in which turns began.
LEMMA AppendTurn ==
    ASSUME NEW s \in Seq(Nat), NEW n \in Nat,
           \A i, j \in DOMAIN s : i < j => s[i] < s[j],
           \A m \in Range(s) : m < n
    PROVE  /\ Append(s, n) \in Seq(Nat)
           /\ Range(Append(s, n)) = Range(s) \cup {n}
           /\ \A i, j \in DOMAIN Append(s, n) : i < j => Append(s, n)[i] < Append(s, n)[j]
<1> DEFINE r == Append(s, n)
<1>1. /\ r \in Seq(Nat) /\ Len(r) = Len(s) + 1 /\ Len(s) \in Nat
      /\ DOMAIN r = 1..(Len(s) + 1) /\ DOMAIN s = 1..Len(s)
      /\ r[Len(s) + 1] = n
      /\ \A i \in 1..Len(s) : r[i] = s[i]
  BY AppendProperties, LenProperties
<1>2. Range(r) = Range(s) \cup {n}
  <2>1. Range(r) \subseteq Range(s) \cup {n}
    BY <1>1 DEF Range
  <2>2. Range(s) \subseteq Range(r)
    BY <1>1 DEF Range
  <2>3. n \in Range(r)
    BY <1>1 DEF Range
  <2> QED BY <2>1, <2>2, <2>3
<1>3. ASSUME NEW i \in DOMAIN r, NEW j \in DOMAIN r, i < j PROVE r[i] < r[j]
  <2>1. i \in 1..Len(s) /\ r[i] = s[i]
    BY <1>1, <1>3
  <2>2. CASE j \in 1..Len(s)
    BY <1>1, <2>1, <2>2, <1>3
  <2>3. CASE j = Len(s) + 1
    BY <1>1, <2>1, <2>3 DEF Range
  <2> QED BY <1>1, <2>2, <2>3
<1> QED BY <1>1, <1>2, <1>3

\* What an assignment to one attribute of a SessionProcess leaves alone.
Others(g) == /\ runtime' \in [Generation -> Runtime \cup {None}]
             /\ runtime'[g] # None
             /\ \A h \in Generation : h # g => runtime'[h] = runtime[h]

\* A step that leaves these attributes of a runtime as they are.
Keeps(g, attributes) ==
    /\ "status" \in attributes => runtime'[g].status = runtime[g].status
    /\ "messages" \in attributes => runtime'[g].messages = runtime[g].messages
    /\ "mode" \in attributes => runtime'[g].mode = runtime[g].mode
    /\ "abort" \in attributes => runtime'[g].abort = runtime[g].abort
    /\ "locked" \in attributes => runtime'[g].locked = runtime[g].locked

\* What assigning one attribute of one runtime does to the others.
LEMMA Assignment ==
    ASSUME Constants, TypeInv, NEW g \in Generation, runtime[g] # None
    PROVE  /\ \A s \in Status : runtime' = [runtime EXCEPT ![g].status = s] =>
                Others(g) /\ Keeps(g, {"messages", "mode", "abort", "locked"})
                  /\ runtime'[g].status = s
           /\ \A b \in BOOLEAN : runtime' = [runtime EXCEPT ![g].abort = b] =>
                Others(g) /\ Keeps(g, {"status", "messages", "mode", "locked"})
                  /\ runtime'[g].abort = b
           /\ \A b \in BOOLEAN : runtime' = [runtime EXCEPT ![g].locked = b] =>
                Others(g) /\ Keeps(g, {"status", "messages", "mode", "abort"})
                  /\ runtime'[g].locked = b
           /\ \A m \in Mode : runtime' = [runtime EXCEPT ![g].mode = m] =>
                Others(g) /\ Keeps(g, {"status", "messages", "abort", "locked"})
                  /\ runtime'[g].mode = m
<1>1. runtime[g] \in Runtime
  BY DEF TypeInv
<1>2. \A r \in Runtime : runtime' = [runtime EXCEPT ![g] = r] => Others(g) /\ runtime'[g] = r
  BY DEF TypeInv, Others, Constants
<1>3. ASSUME NEW s \in Status, runtime' = [runtime EXCEPT ![g].status = s]
      PROVE  Others(g) /\ Keeps(g, {"messages", "mode", "abort", "locked"}) /\ runtime'[g].status = s
  <2>1. [runtime[g] EXCEPT !.status = s] \in Runtime
    BY <1>1 DEF Runtime
  <2> QED BY <1>1, <1>2, <1>3, <2>1 DEF Keeps, Runtime
<1>4. ASSUME NEW b \in BOOLEAN, runtime' = [runtime EXCEPT ![g].abort = b]
      PROVE  Others(g) /\ Keeps(g, {"status", "messages", "mode", "locked"}) /\ runtime'[g].abort = b
  <2>1. [runtime[g] EXCEPT !.abort = b] \in Runtime
    BY <1>1 DEF Runtime
  <2> QED BY <1>1, <1>2, <1>4, <2>1 DEF Keeps, Runtime
<1>5. ASSUME NEW b \in BOOLEAN, runtime' = [runtime EXCEPT ![g].locked = b]
      PROVE  Others(g) /\ Keeps(g, {"status", "messages", "mode", "abort"}) /\ runtime'[g].locked = b
  <2>1. [runtime[g] EXCEPT !.locked = b] \in Runtime
    BY <1>1 DEF Runtime
  <2> QED BY <1>1, <1>2, <1>5, <2>1 DEF Keeps, Runtime
<1>6. ASSUME NEW m \in Mode, runtime' = [runtime EXCEPT ![g].mode = m]
      PROVE  Others(g) /\ Keeps(g, {"status", "messages", "abort", "locked"}) /\ runtime'[g].mode = m
  <2>1. [runtime[g] EXCEPT !.mode = m] \in Runtime
    BY <1>1 DEF Runtime
  <2> QED BY <1>1, <1>2, <1>6, <2>1 DEF Keeps, Runtime
<1> QED BY <1>3, <1>4, <1>5, <1>6

\* A transition of the runtime that serves reaches the store as well.
LEMMA ServingTransition ==
    ASSUME Constants, TypeInv, ServingStored, NEW g \in Generation, Serving(g),
           NEW next \in Status, Transition(g, next)
    PROVE  /\ Others(g) /\ Keeps(g, {"messages", "mode", "abort", "locked"})
           /\ runtime'[g].status = next
           /\ record' \in Record /\ record' # None
           /\ record'.gen = g /\ record'.status = next
           /\ record'.messages = runtime[g].messages /\ record'.mode = runtime[g].mode
<1>1. /\ runtime[g] # None /\ record # None /\ record.gen = g
      /\ record.status = runtime[g].status
      /\ record.messages = runtime[g].messages /\ record.mode = runtime[g].mode
  BY DEF ServingStored
<1>2. Others(g) /\ Keeps(g, {"messages", "mode", "abort", "locked"}) /\ runtime'[g].status = next
  BY <1>1, Assignment DEF Transition
<1>3. runtime[g] \in Runtime /\ runtime'[g] \in Runtime /\ record \in Record
  BY <1>1, <1>2 DEF TypeInv, Others
<1>4. CASE next = runtime[g].status
  BY <1>1, <1>2, <1>3, <1>4 DEF Transition, Constants
<1>5. CASE next # runtime[g].status
  <2>1. record' = [status |-> runtime'[g].status, gen |-> g,
                   messages |-> runtime'[g].messages, mode |-> runtime'[g].mode]
    BY <1>1, <1>5 DEF Transition, Published
  <2>2. record' \in Record
    BY <1>3, <2>1 DEF Record, Runtime
  <2> QED BY <1>1, <1>2, <2>1, <2>2 DEF Constants, Keeps
<1> QED BY <1>2, <1>4, <1>5

\* A transition by the manager leaves the turns and the transcript as they were.
LEMMA TurnsKept ==
    ASSUME Constants, IInv, NEW g \in Generation, Serving(g),
           NEW next \in {"idle", "closing", "closed", "error"}, Transition(g, next),
           runtime[g].status \in {"closing", "closed", "error"} => next # "idle",
           UNCHANGED <<turn, turns, committed>>
    PROVE  LockInv' /\ StopInv' /\ CommitInv'
<1> USE DEF IInv
<1>1. /\ Others(g) /\ Keeps(g, {"messages", "mode", "abort", "locked"})
      /\ runtime'[g].status = next
      /\ record' # None
      /\ record'.messages = runtime[g].messages
  BY ServingTransition DEF Status
<1>2. record # None /\ record.messages = runtime[g].messages /\ runtime[g] # None
  BY DEF ServingStored
<1>3. LockInv'
  BY <1>1, <1>2 DEF LockInv, Others, Keeps, Inside
<1>4. StopInv'
  <2>1. ASSUME NEW t \in Client, turn[t].pc = "loop"
        PROVE  runtime'[turn[t].gen].abort = runtime[turn[t].gen].abort
    BY <1>1, <2>1 DEF LockInv, Others, Keeps
  <2> QED BY <2>1 DEF StopInv
<1>5. CommitInv'
  <2>1. ASSUME NEW t \in Client, turn[t].pc \in {"loop", "call", "commit"},
               runtime'[turn[t].gen].status = "running"
        PROVE  runtime[turn[t].gen].status = "running"
    BY <1>1, <2>1 DEF LockInv, Others
  <2>2. CommittedKept'
    BY <1>1, <1>2 DEF CommitInv, CommittedKept
  <2> QED BY <2>1, <2>2 DEF CommitInv
<1> QED BY <1>3, <1>4, <1>5

\* The manager moves the runtime that serves, and keeps or drops it.
LEMMA ManagerTransition ==
    ASSUME Constants, IInv, NEW g \in Generation, Serving(g),
           NEW next \in {"idle", "closing", "closed", "error"}, Transition(g, next),
           runtime[g].status \in {"closing", "closed", "error"} => next # "idle",
           UNCHANGED <<turn, turns, committed>>,
           \/ live' = g /\ manager' = Ready /\ next # "closed"
           \/ live' = None /\ manager' = [pc |-> "closing", gen |-> g] /\ next # "closed"
           \/ live' = None /\ manager' = Ready /\ next \in Settled
    PROVE  IInv'
<1> USE DEF IInv
<1>1. LockInv' /\ StopInv' /\ CommitInv'
  BY TurnsKept
<1>2. /\ Others(g) /\ Keeps(g, {"messages", "mode", "abort", "locked"})
      /\ runtime'[g].status = next
      /\ record' \in Record /\ record' # None
      /\ record'.gen = g /\ record'.status = next
      /\ record'.messages = runtime[g].messages /\ record'.mode = runtime[g].mode
  BY ServingTransition DEF Status
<1>3. runtime[g] # None /\ record # None /\ record.gen = g
  BY DEF ServingStored
<1>4. \A h \in Generation : Serving(h) => h = g
  BY DEF Serving, ManagerInv, Ready, Constants
<1>5. \A h \in Generation : Serving(h)' => h = g /\ next # "closed"
  BY DEF Serving, Ready, Constants
<1>6. TypeInv'
  BY <1>2 DEF TypeInv, Others, Ready
<1>7. ManagerInv'
  <2>1. ASSUME NEW h \in Generation, runtime'[h] # None, runtime'[h].status \notin Settled
        PROVE  Serving(h)'
    BY <1>2, <1>4, <2>1 DEF ManagerInv, Others, Serving, Settled
  <2> QED BY <1>2, <2>1 DEF ManagerInv, Ready
<1>8. ServingStored'
  BY <1>2, <1>3, <1>5 DEF ServingStored, Others, Keeps
<1>9. StoreInv'
  <2>1. runtime'[1] # None
    BY <1>2, <1>3, FirstGeneration DEF StoreInv, Others
  <2>2. \A h \in Generation : h > g => runtime'[h] = None
    BY <1>2, <1>3 DEF StoreInv, Others, Generation
  <2> QED BY <1>2, <2>1, <2>2 DEF StoreInv, Keeps, Others
<1> QED BY <1>1, <1>6, <1>7, <1>8, <1>9

\* Starting, failing to start and closing keep the invariant.
LEMMA ManagerTransitions ==
    Constants /\ IInv /\ (StartSucceeds \/ StartFails \/ CloseSession \/ StopListener) => IInv'
<1> SUFFICES ASSUME Constants, IInv PROVE
        StartSucceeds \/ StartFails \/ CloseSession \/ StopListener => IInv'
  OBVIOUS
<1>1. ManagerInv /\ TypeInv
  BY DEF IInv
<1>2. ASSUME manager.pc # "ready"
      PROVE  manager.gen \in Generation /\ Serving(manager.gen) /\ live = None
  BY <1>1, <1>2 DEF ManagerInv, Serving
<1>3. ASSUME StartSucceeds PROVE IInv'
  BY <1>1, <1>2, <1>3, ManagerTransition DEF StartSucceeds, ManagerInv
<1>4. ASSUME StartFails PROVE IInv'
  BY <1>1, <1>2, <1>4, ManagerTransition DEF StartFails, Settled
<1>5. ASSUME CloseSession PROVE IInv'
  BY <1>1, <1>5, ManagerTransition DEF CloseSession, TypeInv, Serving
<1>6. ASSUME StopListener PROVE IInv'
  BY <1>1, <1>2, <1>6, ManagerTransition DEF StopListener, Settled
<1> QED BY <1>3, <1>4, <1>5, <1>6

-----------------------------------------------------------------------------
(* Steps that touch only the lock or the flag of a runtime, or none *)

\* No runtime appears, or changes what the store holds of it.
Alike ==
    /\ runtime' \in [Generation -> Runtime \cup {None}]
    /\ \A h \in Generation :
         /\ runtime'[h] = None <=> runtime[h] = None
         /\ runtime[h] # None => Keeps(h, {"status", "messages", "mode"})

\* Steps that change nothing the store holds keep what it says of the runtimes.
LEMMA StoreFrame ==
    ASSUME Constants, IInv, Alike, UNCHANGED <<record, live, committed>>,
           \/ UNCHANGED manager
           \/ manager.pc = "closing" /\ manager' = [manager EXCEPT !.pc = "stopping"]
    PROVE  ManagerInv' /\ ServingStored' /\ StoreInv' /\ CommittedKept'
<1> USE DEF IInv
<1>1. \A h \in Generation : Serving(h)' <=> Serving(h)
  BY DEF Serving, TypeInv
<1>2. ManagerInv'
  <2>1. ASSUME NEW h \in Generation, runtime'[h] # None, runtime'[h].status \notin Settled
        PROVE  Serving(h)'
    BY <1>1, <2>1 DEF ManagerInv, Alike, Keeps
  <2>2. ASSUME manager'.pc = "starting" PROVE runtime'[manager'.gen].status = "creating"
    <3>1. UNCHANGED manager /\ manager.gen \in Generation /\ runtime[manager.gen] # None
      BY <2>2 DEF TypeInv, ManagerInv, ServingStored, Serving
    <3> QED BY <2>2, <3>1 DEF ManagerInv, Alike, Keeps
  <2> QED BY <2>1, <2>2 DEF ManagerInv, TypeInv
<1>3. ServingStored'
  BY <1>1 DEF ServingStored, Alike, Keeps
<1>4. StoreInv'
  <2>1. record # None => record.gen \in Generation
    BY DEF TypeInv, Record
  <2> QED BY <2>1, FirstGeneration DEF StoreInv, Alike, Keeps
<1> QED BY <1>2, <1>3, <1>4 DEF CommitInv, CommittedKept

\* With that, what a step owes is what it does to the threads.
LEMMA AlikeRunning ==
    ASSUME Constants, IInv, Alike, NEW t \in Client, turn[t].pc # "idle"
    PROVE  runtime'[turn[t].gen] # None /\ runtime'[turn[t].gen].status = runtime[turn[t].gen].status
  BY DEF IInv, LockInv, Alike, Keeps

\* A step of one runtime's lock or flag changes nothing the store holds.
LEMMA OneAlike ==
    ASSUME NEW g \in Generation, runtime[g] # None, Others(g),
           Keeps(g, {"status", "messages", "mode"})
    PROVE  Alike
  BY DEF Others, Alike, Keeps

\* A step of neither threads nor locks keeps the discipline of the turn lock.
LEMMA LockFrame ==
    ASSUME IInv, NEW g \in Generation, runtime[g] # None, Others(g),
           Keeps(g, {"status", "locked"}), UNCHANGED turn
    PROVE  LockInv'
<1>1. \A h \in Generation : runtime[h] # None =>
         /\ runtime'[h] # None
         /\ runtime'[h].locked = runtime[h].locked
         /\ runtime'[h].status = runtime[h].status
  BY DEF Others, Keeps
<1>2. \A h \in Generation : runtime'[h] # None /\ h # g => runtime[h] # None
  BY DEF Others
<1> QED BY <1>1, <1>2 DEF IInv, LockInv, Inside

\* Setting the flag of a runtime keeps the invariant.
LEMMA AbortSet ==
    ASSUME Constants, IInv, NEW g \in Generation, runtime[g] # None,
           runtime' = [runtime EXCEPT ![g].abort = TRUE],
           UNCHANGED <<turn, turns, record, live, committed>>,
           \/ UNCHANGED manager
           \/ manager.pc = "closing" /\ manager' = [manager EXCEPT !.pc = "stopping"]
    PROVE  IInv'
<1> USE DEF IInv
<1>1. Others(g) /\ Keeps(g, {"status", "messages", "mode", "locked"}) /\ runtime'[g].abort = TRUE
  BY Assignment
<1>2. Alike
  BY <1>1, OneAlike DEF Keeps
<1>3. ManagerInv' /\ ServingStored' /\ StoreInv' /\ CommittedKept'
  BY <1>2, StoreFrame
<1>4. TypeInv'
  BY <1>1 DEF TypeInv, Others
<1>5. LockInv'
  BY <1>1, LockFrame DEF Keeps
<1>6. StopInv'
  <2>1. ASSUME NEW t \in Client, turn[t].pc = "loop", runtime[turn[t].gen].abort
        PROVE  runtime'[turn[t].gen].abort
    BY <1>1, <2>1 DEF LockInv, Others
  <2> QED BY <2>1 DEF StopInv
<1>7. CommitInv'
  BY <1>2, <1>3, AlikeRunning DEF CommitInv
<1> QED BY <1>3, <1>4, <1>5, <1>6, <1>7

\* Both ways to ask a runtime to stop keep the invariant.
LEMMA AbortKeeps ==
    Constants /\ IInv /\ (RequestAbort \/ \E g \in Generation : Abort(g)) => IInv'
<1>1. Constants /\ IInv /\ RequestAbort => IInv'
  <2> SUFFICES ASSUME Constants, IInv, RequestAbort PROVE IInv'
    OBVIOUS
  <2>1. manager.gen \in Generation /\ runtime[manager.gen] # None
    BY DEF IInv, RequestAbort, ManagerInv, ServingStored, Serving
  <2> QED BY <2>1, AbortSet DEF RequestAbort
<1>2. ASSUME Constants, IInv, NEW g \in Generation, Abort(g) PROVE IInv'
  BY <1>2, AbortSet DEF Abort
<1> QED BY <1>1, <1>2

-----------------------------------------------------------------------------
(* The other steps of the manager *)

LEMMA StartRuntimeKeeps ==
    ASSUME Constants, IInv, manager = Ready, live = None,
           NEW saved \in Record, saved.status = "creating",
           \A h \in Generation : h >= saved.gen => runtime[h] = None,
           saved.gen # 1 => runtime[1] # None,
           committed = Range(saved.messages),
           \A i, j \in DOMAIN saved.messages :
               i < j => saved.messages[i] < saved.messages[j],
           StartRuntime(saved)
    PROVE  IInv'
<1> USE DEF IInv
<1> DEFINE g == saved.gen
           new == [status |-> "creating", messages |-> saved.messages, mode |-> saved.mode,
                   abort |-> FALSE, locked |-> FALSE]
<1>1. g \in Generation /\ g \in Nat /\ runtime[g] = None
  BY DEF Record, Generation
<1>2. new \in Runtime
  BY DEF Record, Runtime, Status
<1>3. /\ record' = saved
      /\ runtime' = [runtime EXCEPT ![g] = new]
      /\ manager' = [pc |-> "starting", gen |-> g]
      /\ UNCHANGED <<live, turn, turns, committed>>
  BY DEF StartRuntime
<1>4. /\ Others(g) /\ runtime'[g] = new
      /\ record' # None
  BY <1>1, <1>2, <1>3 DEF Others, TypeInv, Constants
<1>5. /\ new.status = "creating" /\ new.messages = saved.messages /\ new.mode = saved.mode
      /\ new.locked = FALSE
  OBVIOUS
<1> HIDE DEF new, g
<1>6. \A h \in Generation : ~ Serving(h)
  BY DEF Serving, Ready, Constants
<1>7. \A h \in Generation : Serving(h)' <=> h = g
  BY <1>3 DEF Serving, Constants
<1>8. TypeInv'
  BY <1>1, <1>3, <1>4 DEF TypeInv, Others
<1>9. ManagerInv'
  <2>1. ASSUME NEW h \in Generation, runtime'[h] # None, runtime'[h].status \notin Settled
        PROVE  Serving(h)'
    BY <1>4, <1>6, <1>7, <2>1 DEF ManagerInv, Others
  <2> QED BY <1>1, <1>3, <1>4, <1>5, <2>1 DEF ManagerInv
<1>10. ServingStored'
  BY <1>3, <1>4, <1>5, <1>7 DEF ServingStored, Others, g
<1>11. StoreInv'
  <2>1. runtime'[1] # None
    BY <1>4, FirstGeneration DEF Others, g
  <2>2. \A h \in Generation : h > g => runtime'[h] = None
    BY <1>1, <1>4 DEF Others, Generation, g
  <2> QED BY <1>3, <1>4, <1>5, <2>1, <2>2 DEF StoreInv, Others, g
<1>12. \A t \in Client : turn[t].pc # "idle" => turn[t].gen # g
  BY <1>1 DEF LockInv
<1>13. LockInv'
  BY <1>3, <1>4, <1>5, <1>12 DEF LockInv, Others, Inside
<1>14. StopInv'
  BY <1>3, <1>4, <1>12 DEF StopInv, Others, LockInv
<1>15. CommitInv'
  <2>1. CommittedKept'
    BY <1>3 DEF CommittedKept
  <2> QED BY <1>3, <1>4, <1>12, <2>1 DEF CommitInv, Others, LockInv
<1> QED BY <1>8, <1>9, <1>10, <1>11, <1>13, <1>14, <1>15

\* create_session keeps the invariant.
LEMMA CreateKeeps == Constants /\ IInv /\ CreateSession => IInv'
<1> SUFFICES ASSUME Constants, IInv, CreateSession PROVE IInv'
  OBVIOUS
<1>1. PICK mode \in Mode :
        StartRuntime([status |-> "creating", gen |-> 1, messages |-> <<>>, mode |-> mode])
  BY DEF CreateSession
<1> DEFINE saved == [status |-> "creating", gen |-> 1, messages |-> <<>>, mode |-> mode]
<1>2. saved \in Record /\ saved.status = "creating" /\ saved.gen = 1 /\ saved.messages = <<>>
  BY FirstGeneration DEF Record, Status
<1>3. committed = {} /\ \A h \in Generation : runtime[h] = None
  BY DEF IInv, StoreInv, CreateSession
<1>4. live = None /\ manager = Ready
  BY DEF IInv, TypeInv, ServingStored, Serving, CreateSession
<1>5. DOMAIN saved.messages = {} /\ Range(saved.messages) = {}
  BY <1>2 DEF Range
<1>6. StartRuntime(saved)
  BY <1>1
<1> HIDE DEF saved
<1> QED BY <1>2, <1>3, <1>4, <1>5, <1>6, StartRuntimeKeeps

\* resume_session keeps the invariant.
LEMMA ResumeKeeps == Constants /\ IInv /\ ResumeSession => IInv'
<1> SUFFICES ASSUME Constants, IInv, ResumeSession PROVE IInv'
  OBVIOUS
<1> DEFINE saved == Successor
<1>1. record \in Record /\ record # None /\ record.gen < MaxGeneration
  BY DEF IInv, TypeInv, ResumeSession
<1>2. /\ saved \in Record /\ saved.status = "creating" /\ saved.gen = record.gen + 1
      /\ saved.messages = record.messages
  BY <1>1 DEF Successor, Record, Status, Generation, Constants
<1>3. record.gen \in Nat /\ record.gen # 0
  BY <1>1 DEF Record, Generation
<1>4. \A h \in Generation : h >= saved.gen => runtime[h] = None
  BY <1>1, <1>2, <1>3 DEF IInv, StoreInv, Generation
<1>5. runtime[1] # None
  BY <1>1 DEF IInv, StoreInv
<1>6. StartRuntime(saved) /\ live = None /\ manager = Ready
  BY DEF ResumeSession
<1>7. /\ committed = Range(saved.messages)
      /\ \A i, j \in DOMAIN saved.messages : i < j => saved.messages[i] < saved.messages[j]
  BY <1>1, <1>2 DEF IInv, CommitInv, CommittedKept
<1> HIDE DEF saved
<1> QED BY <1>2, <1>4, <1>5, <1>6, <1>7, StartRuntimeKeeps

\* Closing a session without a runtime, and forgetting one, keep the invariant.
LEMMA RecordKeeps == Constants /\ IInv /\ (CloseWithoutRuntime \/ ForgetSession) => IInv'
<1> SUFFICES ASSUME Constants, IInv, CloseWithoutRuntime \/ ForgetSession PROVE IInv'
  OBVIOUS
<1> USE DEF IInv
<1>1. /\ manager = Ready /\ live = None /\ record \in Record
      /\ UNCHANGED <<runtime, live, manager, turn, turns, committed>>
  BY DEF CloseWithoutRuntime, ForgetSession, TypeInv
<1>2. \/ record' = None
      \/ /\ record' \in Record /\ record'.status = "closed" /\ record'.gen = record.gen
         /\ record'.messages = record.messages /\ record # None
  BY <1>1 DEF CloseWithoutRuntime, ForgetSession, Record, Status
<1>3. \A h \in Generation : ~ Serving(h) /\ ~ Serving(h)'
  BY <1>1 DEF Serving, Ready, Constants
<1>4. TypeInv'
  BY <1>1, <1>2 DEF TypeInv
<1>5. ManagerInv' /\ ServingStored'
  BY <1>1, <1>3 DEF ManagerInv, ServingStored
<1>6. StoreInv'
  BY <1>1, <1>2 DEF StoreInv, Settled, CloseWithoutRuntime, ForgetSession
<1>7. LockInv' /\ StopInv'
  BY <1>1 DEF LockInv, StopInv, Inside
<1>8. CommitInv'
  BY <1>1, <1>2 DEF CommitInv, CommittedKept
<1> QED BY <1>4, <1>5, <1>6, <1>7, <1>8

\* set_mode keeps the invariant.
LEMMA SetModeKeeps == Constants /\ IInv /\ (\E mode \in Mode : SetMode(mode)) => IInv'
<1> SUFFICES ASSUME Constants, IInv, NEW mode \in Mode, SetMode(mode) PROVE IInv'
  OBVIOUS
<1> USE DEF IInv
<1> DEFINE g == live
<1>1. /\ manager = Ready /\ g \in Generation /\ Serving(g) /\ runtime[g].status = "idle"
      /\ runtime' = [runtime EXCEPT ![g].mode = mode]
      /\ record' = Published(g)
      /\ UNCHANGED <<live, manager, turn, turns, committed>>
  BY DEF SetMode, Serving, TypeInv
<1> HIDE DEF g
<1>2. /\ runtime[g] # None /\ record # None /\ record \in Record /\ record.gen = g
      /\ record.messages = runtime[g].messages
  BY <1>1 DEF ServingStored, TypeInv
<1>3. Others(g) /\ Keeps(g, {"status", "messages", "abort", "locked"}) /\ runtime'[g].mode = mode
  BY <1>1, <1>2, Assignment
<1>4. /\ record' \in Record /\ record' # None
      /\ record'.gen = g /\ record'.status = "idle" /\ record'.mode = mode
      /\ record'.messages = runtime[g].messages
  <2>1. record' = [status |-> runtime'[g].status, gen |-> g,
                   messages |-> runtime'[g].messages, mode |-> runtime'[g].mode]
    BY <1>1, <1>2 DEF Published
  <2>2. runtime'[g] \in Runtime
    BY <1>1, <1>3 DEF Others
  <2>3. record' \in Record
    BY <1>1, <2>1, <2>2 DEF Record, Runtime
  <2> QED BY <1>1, <1>3, <2>1, <2>3 DEF Keeps, Constants
<1>5. \A h \in Generation : (Serving(h) <=> h = g) /\ (Serving(h)' <=> h = g)
  BY <1>1 DEF Serving, Ready, g
<1>6. TypeInv'
  BY <1>1, <1>3, <1>4 DEF TypeInv, Others
<1>7. ManagerInv'
  BY <1>1, <1>3, <1>5 DEF ManagerInv, Others, Ready
<1>8. ServingStored'
  BY <1>1, <1>3, <1>4, <1>5 DEF ServingStored, Others, Keeps
<1>9. StoreInv'
  <2>1. runtime'[1] # None
    BY <1>2, <1>3, FirstGeneration DEF StoreInv, Others
  <2>2. \A h \in Generation : h > g => runtime'[h] = None
    BY <1>1, <1>2, <1>3 DEF StoreInv, Others, Generation
  <2> QED BY <1>1, <1>3, <1>4, <2>1, <2>2 DEF StoreInv, Keeps, Others
<1>10. LockInv'
  BY <1>1, <1>2, <1>3, LockFrame DEF Keeps
<1>11. StopInv'
  <2>1. ASSUME NEW t \in Client, turn[t].pc = "loop"
        PROVE  runtime'[turn[t].gen].abort = runtime[turn[t].gen].abort
    BY <1>3, <2>1 DEF LockInv, Others, Keeps
  <2> QED BY <1>1, <2>1 DEF StopInv
<1>12. CommitInv'
  <2>1. ASSUME NEW t \in Client, turn[t].pc # "idle"
        PROVE  runtime'[turn[t].gen].status = runtime[turn[t].gen].status
    BY <1>3, <2>1 DEF LockInv, Others, Keeps
  <2> QED BY <1>1, <1>2, <1>4, <2>1 DEF CommitInv, CommittedKept
<1> QED BY <1>6, <1>7, <1>8, <1>9, <1>10, <1>11, <1>12

\* The end of the process keeps the invariant.
LEMMA RestartKeeps == Constants /\ IInv /\ Restart => IInv'
<1> SUFFICES ASSUME Constants, IInv, Restart PROVE IInv'
  OBVIOUS
<1> USE DEF IInv
<1>1. /\ live' = None /\ manager' = Ready /\ turn' = [t \in Client |-> Idle]
      /\ UNCHANGED <<record, turns, committed>>
      /\ runtime' = [g \in Generation |->
             IF runtime[g] = None THEN None
             ELSE [runtime[g] EXCEPT !.status = "closed", !.locked = FALSE]]
  BY DEF Restart
<1>2. ASSUME NEW g \in Generation, runtime[g] = None PROVE runtime'[g] = None
  BY <1>1, <1>2
<1>3. ASSUME NEW g \in Generation, runtime[g] # None
      PROVE  /\ runtime'[g] \in Runtime /\ runtime'[g] # None
             /\ runtime'[g].status = "closed" /\ ~ runtime'[g].locked
             /\ runtime'[g].messages = runtime[g].messages /\ runtime'[g].mode = runtime[g].mode
  <2>1. runtime[g] \in Runtime
    BY <1>3 DEF TypeInv
  <2>2. runtime'[g] = [runtime[g] EXCEPT !.status = "closed", !.locked = FALSE]
    BY <1>1, <1>3
  <2> QED BY <2>1, <2>2 DEF Runtime, Status, Constants
<1>4. \A g \in Generation : ~ Serving(g)'
  BY <1>1 DEF Serving, Ready, Constants
<1>5. Idle \in Turn /\ Idle.pc = "idle" /\ Idle.late = 0 /\ Idle.n = 0
  BY DEF Idle, Turn
<1>6. TypeInv'
  BY <1>1, <1>2, <1>3, <1>5 DEF TypeInv, Ready
<1>7. ManagerInv' /\ ServingStored'
  BY <1>1, <1>2, <1>3, <1>4 DEF ManagerInv, ServingStored, Ready, Settled
<1>8. StoreInv'
  <2>1. record # None => record.gen \in Generation
    BY DEF TypeInv, Record
  <2> QED BY <1>1, <1>2, <1>3, <2>1, FirstGeneration DEF StoreInv
<1>9. \A t \in Client : turn'[t] = Idle
  BY <1>1
<1>10. LockInv' /\ StopInv'
  BY <1>2, <1>3, <1>5, <1>9 DEF LockInv, StopInv
<1>11. CommitInv'
  <2>1. CommittedKept'
    BY <1>1 DEF CommitInv, CommittedKept
  <2>2. \A n \in committed' : n <= turns'
    BY <1>1 DEF CommitInv
  <2>3. turns' \in Nat
    BY <1>1 DEF TypeInv
  <2> QED BY <1>5, <1>9, <2>1, <2>2, <2>3 DEF CommitInv
<1> QED BY <1>6, <1>7, <1>8, <1>10, <1>11

-----------------------------------------------------------------------------
(* The steps of a thread: what they do to turn, and to the invariant's parts *)

OtherTurns(t) == /\ turn' \in [Client -> Turn]
                 /\ \A u \in Client : u # t => turn'[u] = turn[u]

\* What moving one thread does to the others.
LEMMA Moves ==
    ASSUME TypeInv, NEW t \in Client
    PROVE  /\ \A pc \in {"check", "clear", "begin", "loop", "call", "commit", "failed", "end",
                         "to_idle", "to_error", "release"} :
                Goto(t, pc) => /\ OtherTurns(t)
                               /\ turn'[t].pc = pc /\ turn'[t].gen = turn[t].gen
                               /\ turn'[t].n = turn[t].n /\ turn'[t].late = turn[t].late
           /\ Leave(t) => /\ OtherTurns(t)
                          /\ turn'[t].pc = "idle" /\ turn'[t].n = 0 /\ turn'[t].late = 0
<1>1. turn[t] \in Turn
  BY DEF TypeInv
<1>2. \A e \in Turn : turn' = [turn EXCEPT ![t] = e] => OtherTurns(t) /\ turn'[t] = e
  BY DEF TypeInv, OtherTurns
<1>3. ASSUME NEW pc \in {"check", "clear", "begin", "loop", "call", "commit", "failed", "end",
                         "to_idle", "to_error", "release"}, Goto(t, pc)
      PROVE  /\ OtherTurns(t)
             /\ turn'[t].pc = pc /\ turn'[t].gen = turn[t].gen
             /\ turn'[t].n = turn[t].n /\ turn'[t].late = turn[t].late
  <2>1. [turn[t] EXCEPT !.pc = pc] \in Turn
    BY <1>1 DEF Turn
  <2> QED BY <1>1, <1>2, <1>3, <2>1 DEF Goto, Turn
<1>4. Idle \in Turn /\ Idle.pc = "idle" /\ Idle.n = 0 /\ Idle.late = 0
  BY DEF Idle, Turn
<1>5. Leave(t) => OtherTurns(t) /\ turn'[t] = Idle
  BY <1>2, <1>4 DEF Leave
<1> QED BY <1>3, <1>4, <1>5

\* A thread goes on in the turn it is in.
LEMMA StayInside ==
    ASSUME Constants, IInv, NEW t \in Client, turn[t].pc # "idle", OtherTurns(t),
           turn'[t].gen = turn[t].gen, turn'[t].pc \notin {"idle", "check"},
           runtime'[turn[t].gen].status # "creating",
           \A h \in Generation :
               /\ runtime'[h] = None <=> runtime[h] = None
               /\ runtime[h] # None => runtime'[h].locked = runtime[h].locked
               /\ runtime[h] # None /\ h # turn[t].gen => runtime'[h].status = runtime[h].status
    PROVE  LockInv'
<1> USE DEF IInv
<1> DEFINE g == turn[t].gen
<1>1. \A u \in Client : turn'[u].gen = turn[u].gen /\ (turn'[u].pc = "idle" <=> turn[u].pc = "idle")
  BY DEF OtherTurns
<1>2. g \in Generation /\ runtime[g] # None
  BY DEF LockInv
<1>3. ASSUME NEW u \in Client, turn'[u].pc # "idle"
      PROVE  /\ turn'[u].gen \in Generation
             /\ runtime'[turn'[u].gen] # None
             /\ runtime'[turn'[u].gen].locked
             /\ turn'[u].pc # "check" => runtime'[turn'[u].gen].status # "creating"
  <2>1. CASE u = t
    BY <1>1, <1>2, <2>1 DEF LockInv
  <2>2. CASE u # t
    <3>1. turn'[u] = turn[u] /\ turn[u].gen # g
      BY <1>3, <2>2 DEF OtherTurns, LockInv
    <3> QED BY <1>3, <3>1 DEF LockInv
  <2> QED BY <2>1, <2>2
<1>4. \A u, v \in Client : turn'[u].pc # "idle" /\ turn'[v].pc # "idle" /\ turn'[u].gen = turn'[v].gen
         => u = v
  BY <1>1 DEF LockInv
<1>5. ASSUME NEW h \in Generation, runtime'[h] # None, runtime'[h].locked
      PROVE  (\E u \in Client : Inside(u, h)') \/ runtime'[h].status \in {"closing", "closed", "error"}
  <2>1. CASE h = g
    BY <1>1, <2>1 DEF Inside
  <2>2. CASE h # g
    <3>1. (\E u \in Client : Inside(u, h)) \/ runtime[h].status \in {"closing", "closed", "error"}
      BY <1>5 DEF LockInv
    <3> QED BY <1>1, <1>5, <2>2, <3>1 DEF Inside
  <2> QED BY <2>1, <2>2
<1> QED BY <1>3, <1>4, <1>5 DEF LockInv

\* The runtime that serves takes a new state, and the store with it.
LEMMA PublishedKept ==
    ASSUME Constants, IInv, NEW g \in Generation, Serving(g), Others(g),
           record' \in Record, record'.gen = g,
           record'.status = runtime'[g].status, record'.messages = runtime'[g].messages,
           record'.mode = runtime'[g].mode,
           runtime[g].status # "creating", runtime'[g].status \notin {"creating", "closed"},
           UNCHANGED <<live, manager>>
    PROVE  ManagerInv' /\ ServingStored' /\ StoreInv'
<1> USE DEF IInv
<1>1. /\ runtime[g] # None /\ record # None /\ record.gen = g
      /\ record' # None
  BY DEF ServingStored, Constants
<1>2. \A h \in Generation : (Serving(h) <=> h = g) /\ (Serving(h)' <=> h = g)
  BY DEF Serving, Ready, ManagerInv, Constants
<1>3. ManagerInv'
  BY <1>1, <1>2 DEF ManagerInv, Others, Serving
<1>4. ServingStored'
  BY <1>1, <1>2 DEF ServingStored, Others
<1>5. StoreInv'
  <2>1. runtime'[1] # None
    BY <1>1, FirstGeneration DEF StoreInv, Others
  <2>2. \A h \in Generation : h > g => runtime'[h] = None
    BY <1>1 DEF StoreInv, Others, Generation
  <2> QED BY <1>1, <2>1, <2>2 DEF StoreInv, Others
<1> QED BY <1>3, <1>4, <1>5

\* A step of a thread that leaves every runtime as it is.
LEMMA Quiet ==
    ASSUME Constants, IInv, NEW t \in Client, turn[t].pc # "idle", OtherTurns(t),
           turn'[t].gen = turn[t].gen, turn'[t].pc \notin {"idle", "check"},
           runtime[turn[t].gen].status # "creating",
           turn'[t].n = turn[t].n,
           turn'[t].pc \in {"loop", "call", "commit"} => turn[t].pc \in {"loop", "call", "commit"},
           turn'[t].late <= 1,
           turn'[t].pc \in {"clear", "begin", "call"} => turn'[t].late = 0,
           turn'[t].pc = "loop" /\ turn'[t].late = 1 => runtime[turn[t].gen].abort,
           UNCHANGED <<record, runtime, live, manager, turns, committed>>
    PROVE  IInv'
<1> USE DEF IInv
<1>1. Alike
  BY DEF Alike, Keeps, TypeInv
<1>2. ManagerInv' /\ ServingStored' /\ StoreInv' /\ CommittedKept'
  BY <1>1, StoreFrame
<1>3. TypeInv'
  BY DEF TypeInv, OtherTurns
<1>4. LockInv'
  BY StayInside
<1>5. StopInv'
  <2>1. ASSUME NEW u \in Client PROVE
          /\ turn'[u].late <= 1
          /\ turn'[u].pc \in {"idle", "check", "clear", "begin", "call"} => turn'[u].late = 0
          /\ turn'[u].pc = "loop" /\ turn'[u].late = 1 => runtime'[turn'[u].gen].abort
    BY <2>1 DEF StopInv, OtherTurns
  <2> QED BY <2>1 DEF StopInv
<1>6. CommitInv'
  <2>1. ASSUME NEW u \in Client PROVE
          /\ turn'[u].n = turn[u].n
          /\ turn'[u].gen = turn[u].gen
          /\ turn'[u].pc \in {"loop", "call", "commit"} => turn[u].pc \in {"loop", "call", "commit"}
    BY <2>1 DEF OtherTurns
  <2> QED BY <1>2, <2>1 DEF CommitInv
<1> QED BY <1>2, <1>3, <1>4, <1>5, <1>6

\* The steps of a thread that touch nothing but itself keep the invariant.
LEMMA QuietSteps ==
    ASSUME Constants, IInv, NEW t \in Client,
           CheckAbort(t) \/ CallProvider(t) \/ CheckRunning(t)
    PROVE  IInv'
<1> USE DEF IInv
<1>1. /\ turn[t].pc # "idle" => turn[t].gen \in Generation
      /\ turn[t].pc \notin {"idle", "check"} => runtime[turn[t].gen].status # "creating"
      /\ turn[t].late <= 1
      /\ turn[t].pc = "call" => turn[t].late = 0
      /\ turn[t].pc = "loop" /\ turn[t].late = 1 => runtime[turn[t].gen].abort
      /\ turn[t] \in Turn
  BY DEF LockInv, StopInv, TypeInv
<1>2. turn[t].late \in Nat
  BY <1>1 DEF Turn
<1>3. ASSUME CheckAbort(t) PROVE IInv'
  <2>1. /\ OtherTurns(t) /\ turn'[t].gen = turn[t].gen /\ turn'[t].n = turn[t].n
        /\ turn'[t].late = turn[t].late /\ turn[t].pc = "loop"
        /\ turn'[t].pc = IF runtime[turn[t].gen].abort THEN "commit" ELSE "call"
    BY <1>3, Moves DEF CheckAbort, At
  <2>2. turn'[t].pc = "call" => turn'[t].late = 0
    BY <1>1, <1>2, <2>1
  <2> QED BY <1>1, <1>3, <2>1, <2>2, Quiet DEF CheckAbort
<1>4. ASSUME CallProvider(t) PROVE IInv'
  <2>1. PICK next \in {"loop", "commit", "failed"} :
          turn' = [turn EXCEPT ![t].pc = next, ![t].calls = @ + 1,
                      ![t].late = IF runtime[turn[t].gen].abort THEN @ + 1 ELSE @]
    BY <1>4 DEF CallProvider
  <2>2. /\ OtherTurns(t) /\ turn'[t].gen = turn[t].gen /\ turn'[t].n = turn[t].n
        /\ turn'[t].late = (IF runtime[turn[t].gen].abort THEN turn[t].late + 1 ELSE turn[t].late)
        /\ turn'[t].pc = next
    BY <1>1, <2>1 DEF OtherTurns, TypeInv, Turn
  <2>3. turn[t].pc = "call" /\ UNCHANGED <<record, runtime, live, manager, turns, committed>>
    BY <1>4 DEF CallProvider, At
  <2> QED BY <1>1, <2>2, <2>3, Quiet
<1>5. ASSUME CheckRunning(t) PROVE IInv'
  <2>1. PICK pc \in {"to_idle", "release", "to_error"} : Goto(t, pc)
    BY <1>5 DEF CheckRunning
  <2>2. /\ OtherTurns(t) /\ turn'[t].gen = turn[t].gen /\ turn'[t].n = turn[t].n
        /\ turn'[t].late = turn[t].late
        /\ turn'[t].pc = pc
    BY <2>1, Moves
  <2>3. /\ turn[t].pc \in {"end", "failed"}
        /\ UNCHANGED <<record, runtime, live, manager, turns, committed>>
    BY <1>5 DEF CheckRunning, At
  <2> QED BY <1>1, <2>2, <2>3, Quiet
<1> QED BY <1>3, <1>4, <1>5

\* Taking the turn lock keeps the invariant.
LEMMA AcquireKeeps ==
    ASSUME Constants, IInv, NEW t \in Client, NEW g \in Generation, Acquire(t, g)
    PROVE  IInv'
<1> USE DEF IInv
<1>1. /\ turn[t].pc = "idle" /\ runtime[g] # None /\ ~ runtime[g].locked
      /\ runtime' = [runtime EXCEPT ![g].locked = TRUE]
      /\ turn' = [turn EXCEPT ![t] = [Idle EXCEPT !.pc = "check", !.gen = g]]
      /\ UNCHANGED <<record, live, manager, turns, committed>>
  BY DEF Acquire, At
<1>2. Others(g) /\ Keeps(g, {"status", "messages", "mode", "abort"}) /\ runtime'[g].locked = TRUE
  BY <1>1, Assignment
<1>3. /\ OtherTurns(t)
      /\ turn'[t].pc = "check" /\ turn'[t].gen = g /\ turn'[t].n = 0 /\ turn'[t].late = 0
  <2> DEFINE e == [Idle EXCEPT !.pc = "check", !.gen = g]
  <2>1. e \in Turn /\ e.pc = "check" /\ e.gen = g /\ e.n = 0 /\ e.late = 0
    BY DEF Idle, Turn
  <2>2. turn' = [turn EXCEPT ![t] = e]
    BY <1>1
  <2> HIDE DEF e
  <2> QED BY <2>1, <2>2 DEF OtherTurns, TypeInv
<1>4. ManagerInv' /\ ServingStored' /\ StoreInv' /\ CommittedKept'
  BY <1>1, <1>2, OneAlike, StoreFrame DEF Keeps
<1>5. TypeInv'
  BY <1>1, <1>2, <1>3 DEF TypeInv, Others, OtherTurns
<1>6. \A u \in Client : turn[u].pc # "idle" => u # t /\ turn'[u] = turn[u] /\ turn[u].gen # g
  BY <1>1, <1>3 DEF LockInv, OtherTurns
<1>7. \A u \in Client : u # t => turn'[u] = turn[u]
  BY <1>3 DEF OtherTurns
<1>8. LockInv'
  <2>1. ASSUME NEW u \in Client, turn'[u].pc # "idle"
        PROVE  /\ turn'[u].gen \in Generation
               /\ runtime'[turn'[u].gen] # None
               /\ runtime'[turn'[u].gen].locked
               /\ turn'[u].pc # "check" => runtime'[turn'[u].gen].status # "creating"
               /\ \A v \in Client : turn'[v].pc # "idle" /\ turn'[u].gen = turn'[v].gen => u = v
    BY <1>2, <1>3, <1>6, <1>7, <2>1 DEF LockInv, Others
  <2>2. ASSUME NEW h \in Generation, runtime'[h] # None, runtime'[h].locked
        PROVE  (\E u \in Client : Inside(u, h)') \/ runtime'[h].status \in {"closing", "closed", "error"}
    <3>1. CASE h = g
      BY <1>3, <3>1 DEF Inside
    <3>2. CASE h # g
      BY <1>2, <1>6, <2>2, <3>2 DEF LockInv, Inside, Others
    <3> QED BY <3>1, <3>2
  <2> QED BY <2>1, <2>2 DEF LockInv
<1>9. StopInv'
  BY <1>2, <1>3, <1>6, <1>7 DEF StopInv, LockInv, Others
<1>10. CommitInv'
  <2>1. turns \in Nat
    BY DEF TypeInv
  <2>2. ASSUME NEW u \in Client, turn'[u].pc \in {"loop", "call", "commit"}
        PROVE  turn'[u] = turn[u] /\ runtime'[turn[u].gen] = runtime[turn[u].gen]
    BY <1>2, <1>3, <1>6, <1>7, <2>2 DEF LockInv, Others
  <2> QED BY <1>1, <1>3, <1>4, <1>7, <2>1, <2>2 DEF CommitInv
<1> QED BY <1>4, <1>5, <1>8, <1>9, <1>10

\* A turn ends: the thread leaves, and the lock is free unless the runtime ended too.
LEMMA LeaveKeeps ==
    ASSUME Constants, IInv, NEW t \in Client, turn[t].pc # "idle", Leave(t),
           \/ Release(turn[t].gen)
           \/ UNCHANGED runtime /\ runtime[turn[t].gen].status \in {"closing", "closed", "error"},
           UNCHANGED <<record, live, manager, turns, committed>>
    PROVE  IInv'
<1> USE DEF IInv
<1> DEFINE g == turn[t].gen
<1>1. g \in Generation /\ runtime[g] # None
  BY DEF LockInv
<1>2. OtherTurns(t) /\ turn'[t].pc = "idle" /\ turn'[t].n = 0 /\ turn'[t].late = 0
  BY Moves
<1>3. /\ Others(g) /\ Keeps(g, {"status", "messages", "mode", "abort"})
      /\ ~ runtime'[g].locked \/ runtime'[g].status \in {"closing", "closed", "error"}
  <2>1. CASE Release(g)
    BY <1>1, <2>1, Assignment DEF Release
  <2>2. CASE UNCHANGED runtime
    BY <1>1, <2>1, <2>2 DEF Others, Keeps, TypeInv
  <2> QED BY <2>1, <2>2
<1>4. ManagerInv' /\ ServingStored' /\ StoreInv' /\ CommittedKept'
  BY <1>1, <1>3, OneAlike, StoreFrame DEF Keeps
<1>5. TypeInv'
  BY <1>2, <1>3 DEF TypeInv, Others, OtherTurns
<1>6. ASSUME NEW u \in Client, turn'[u].pc # "idle"
      PROVE  /\ turn'[u] = turn[u] /\ turn[u].gen \in Generation \ {g}
             /\ runtime'[turn[u].gen] = runtime[turn[u].gen]
  BY <1>2, <1>3, <1>6 DEF LockInv, OtherTurns, Others
<1>7. LockInv'
  <2>1. ASSUME NEW h \in Generation, runtime'[h] # None, runtime'[h].locked
        PROVE  (\E u \in Client : Inside(u, h)') \/ runtime'[h].status \in {"closing", "closed", "error"}
    <3>1. CASE h = g
      BY <1>3, <2>1, <3>1
    <3>2. CASE h # g
      BY <1>2, <1>3, <2>1, <3>2 DEF LockInv, Inside, Others, OtherTurns
    <3> QED BY <3>1, <3>2
  <2> QED BY <1>6, <2>1 DEF LockInv
<1>8. StopInv'
  BY <1>2, <1>6 DEF StopInv, OtherTurns
<1>9. CommitInv'
  <2>1. turns \in Nat
    BY DEF TypeInv
  <2>2. \A u \in Client : turn'[u].n <= turns
    BY <1>2, <2>1 DEF CommitInv, OtherTurns
  <2> QED BY <1>4, <1>6, <2>2 DEF CommitInv
<1> QED BY <1>4, <1>5, <1>7, <1>8, <1>9

\* Releasing the turn lock keeps the invariant.
LEMMA ReleaseKeeps ==
    ASSUME Constants, IInv, NEW t \in Client, CheckIdle(t) \/ ReleaseTurn(t)
    PROVE  IInv'
<1>1. ASSUME CheckIdle(t), runtime[turn[t].gen].status = "idle" PROVE IInv'
  <2>1. Goto(t, "clear") /\ turn[t].pc = "check"
        /\ UNCHANGED <<record, runtime, live, manager, turns, committed>>
    BY <1>1 DEF CheckIdle, At
  <2>2. /\ OtherTurns(t) /\ turn'[t].pc = "clear" /\ turn'[t].gen = turn[t].gen
        /\ turn'[t].n = turn[t].n /\ turn'[t].late = turn[t].late
    BY <2>1, Moves DEF IInv
  <2>3. turn[t].late = 0
    BY <2>1 DEF IInv, StopInv
  <2> QED BY <1>1, <2>1, <2>2, <2>3, Quiet
<1>2. ASSUME CheckIdle(t), runtime[turn[t].gen].status # "idle" PROVE IInv'
  BY <1>2, LeaveKeeps DEF CheckIdle, At
<1>3. ASSUME ReleaseTurn(t) PROVE IInv'
  BY <1>3, LeaveKeeps DEF ReleaseTurn, At
<1> QED BY <1>1, <1>2, <1>3

\* Clearing the flag keeps the invariant: the thread that does it has called no provider yet.
LEMMA ClearAbortKeeps == ASSUME Constants, IInv, NEW t \in Client, ClearAbort(t) PROVE IInv'
<1> USE DEF IInv
<1> DEFINE g == turn[t].gen
<1>1. /\ turn[t].pc = "clear" /\ g \in Generation /\ runtime[g] # None
      /\ runtime[g].status # "creating"
      /\ runtime' = [runtime EXCEPT ![g].abort = FALSE]
      /\ Goto(t, "begin")
      /\ UNCHANGED <<record, live, manager, turns, committed>>
  BY DEF ClearAbort, At, LockInv
<1>2. Others(g) /\ Keeps(g, {"status", "messages", "mode", "locked"})
  BY <1>1, Assignment
<1>3. /\ OtherTurns(t) /\ turn'[t].pc = "begin" /\ turn'[t].gen = g
      /\ turn'[t].n = turn[t].n /\ turn'[t].late = turn[t].late
  BY <1>1, Moves
<1>4. ManagerInv' /\ ServingStored' /\ StoreInv' /\ CommittedKept'
  BY <1>1, <1>2, OneAlike, StoreFrame DEF Keeps
<1>5. TypeInv'
  BY <1>1, <1>2, <1>3 DEF TypeInv, Others, OtherTurns
<1>6. LockInv'
  BY <1>1, <1>2, <1>3, StayInside DEF Others, Keeps
<1>7. ASSUME NEW u \in Client, u # t, turn[u].pc # "idle"
      PROVE  /\ turn'[u] = turn[u] /\ runtime'[turn[u].gen] = runtime[turn[u].gen]
  BY <1>1, <1>2, <1>3, <1>7 DEF LockInv, OtherTurns, Others
<1>8. \A u \in Client : u # t => turn'[u] = turn[u]
  BY <1>3 DEF OtherTurns
<1>9. StopInv'
  BY <1>1, <1>3, <1>7, <1>8 DEF StopInv
<1>10. CommitInv'
  BY <1>1, <1>3, <1>4, <1>7, <1>8 DEF CommitInv
<1> QED BY <1>4, <1>5, <1>6, <1>9, <1>10

\* Beginning a turn keeps the invariant: the turn is later than all that are committed.
LEMMA BeginTurnKeeps == ASSUME Constants, IInv, NEW t \in Client, BeginTurn(t) PROVE IInv'
<1> USE DEF IInv
<1> DEFINE g == turn[t].gen
<1>1. /\ turn[t].pc = "begin" /\ g \in Generation /\ runtime[g] # None
      /\ runtime[g].status \in Status \ {"creating"} /\ turn[t].late = 0
      /\ UNCHANGED <<live, manager, committed>>
      /\ turn[t] \in Turn /\ turns \in Nat
  BY DEF BeginTurn, At, LockInv, StopInv, TypeInv, Runtime
<1>2. CASE ~ May(g, "running")
  <2>1. runtime[g].status \in {"closing", "closed", "error"}
    BY <1>1, <1>2, MayRun DEF Status
  <2> QED BY <1>1, <1>2, <2>1, LeaveKeeps DEF BeginTurn
<1>3. CASE May(g, "running")
  <2>1. Serving(g) /\ runtime[g].status \in {"idle", "running"}
    BY <1>1, <1>3, MayRun DEF ManagerInv, Settled
  <2>2. /\ Transition(g, "running") /\ turns' = turns + 1
        /\ turn' = [turn EXCEPT ![t].pc = "loop", ![t].n = turns + 1]
    BY <1>3 DEF BeginTurn
  <2>3. /\ Others(g) /\ Keeps(g, {"messages", "mode", "abort", "locked"})
        /\ runtime'[g].status = "running"
        /\ record' \in Record /\ record' # None
        /\ record'.gen = g /\ record'.status = "running"
        /\ record'.messages = runtime[g].messages /\ record'.mode = runtime[g].mode
    BY <1>1, <2>1, <2>2, ServingTransition DEF Status
  <2>4. /\ OtherTurns(t) /\ turn'[t].gen = g /\ turn'[t].n = turns + 1
        /\ turn'[t].late = 0 /\ turn'[t].pc = "loop"
    <3> PICK next \in Nat : next = turns + 1
      BY <1>1
    <3> DEFINE e == [turn[t] EXCEPT !.pc = "loop", !.n = next]
    <3>1. e \in Turn /\ e.gen = g /\ e.n = next /\ e.late = turn[t].late /\ e.pc = "loop"
      BY <1>1 DEF Turn
    <3>2. turn' = [turn EXCEPT ![t] = e]
      BY <2>2
    <3> HIDE DEF e, g
    <3> QED BY <1>1, <3>1, <3>2 DEF OtherTurns, TypeInv
  <2>5. ManagerInv' /\ ServingStored' /\ StoreInv'
    BY <1>1, <2>1, <2>3, PublishedKept DEF Keeps
  <2>6. TypeInv'
    BY <1>1, <2>2, <2>3, <2>4 DEF TypeInv, Others, OtherTurns
  <2>7. LockInv'
    BY <1>1, <2>3, <2>4, StayInside DEF Others, Keeps
  <2>8. ASSUME NEW u \in Client, u # t, turn[u].pc # "idle"
        PROVE  /\ turn'[u] = turn[u] /\ runtime'[turn[u].gen] = runtime[turn[u].gen]
    BY <1>1, <2>3, <2>4, <2>8 DEF LockInv, OtherTurns, Others
  <2>9. \A u \in Client : u # t => turn'[u] = turn[u]
    BY <2>4 DEF OtherTurns
  <2>10. StopInv'
    BY <2>4, <2>8, <2>9 DEF StopInv
  <2>11. CommitInv'
    <3>1. CommittedKept'
      BY <1>1, <2>1, <2>3 DEF CommitInv, CommittedKept, ServingStored
    <3>2. \A n \in committed : n \in Nat /\ n <= turns
      BY DEF CommitInv, TypeInv
    <3>3. \A u \in Client : turn[u].n \in Nat /\ turn[u].n <= turns
      BY DEF CommitInv, TypeInv, Turn
    <3>4. turns' = turns + 1 /\ turns \in Nat /\ UNCHANGED committed
      BY <1>1, <2>2
    <3>5. \A n \in committed' : n <= turns' /\ n < turn'[t].n
      BY <2>4, <3>2, <3>4
    <3>6. ASSUME NEW u \in Client PROVE turn'[u].n <= turns'
      BY <2>4, <2>9, <3>3, <3>4
    <3>7. ASSUME NEW u \in Client, turn'[u].pc \in {"loop", "call", "commit"},
                 runtime'[turn'[u].gen].status = "running", NEW n \in committed'
          PROVE  n < turn'[u].n
      BY <2>8, <2>9, <3>4, <3>5, <3>7 DEF CommitInv
    <3> QED BY <3>1, <3>5, <3>6, <3>7 DEF CommitInv
  <2> QED BY <2>5, <2>6, <2>7, <2>10, <2>11
<1> QED BY <1>2, <1>3

\* What a thread does to the runtime that serves, beside moving on.
LEMMA TurnServed ==
    ASSUME Constants, IInv, NEW t \in Client, turn[t].pc \in {"commit", "to_idle", "to_error"},
           OtherTurns(t), turn'[t].gen = turn[t].gen, turn'[t].n = turn[t].n,
           turn'[t].late = turn[t].late, turn'[t].pc \in {"end", "release"},
           Others(turn[t].gen), Keeps(turn[t].gen, {"locked", "mode"}),
           Serving(turn[t].gen),
           record' \in Record, record'.gen = turn[t].gen,
           record'.status = runtime'[turn[t].gen].status,
           record'.messages = runtime'[turn[t].gen].messages,
           record'.mode = runtime'[turn[t].gen].mode,
           runtime'[turn[t].gen].status \notin {"creating", "closed"},
           committed' \subseteq Nat, \A n \in committed' : n <= turns,
           CommittedKept',
           UNCHANGED <<live, manager, turns>>
    PROVE  IInv'
<1> USE DEF IInv
<1> DEFINE g == turn[t].gen
<1>1. g \in Generation /\ runtime[g] # None /\ runtime[g].status # "creating"
  BY DEF LockInv
<1>2. ManagerInv' /\ ServingStored' /\ StoreInv'
  BY <1>1, PublishedKept
<1>3. TypeInv'
  BY DEF TypeInv, Others, OtherTurns
<1>4. LockInv'
  BY <1>1, StayInside DEF Others, Keeps
<1>5. ASSUME NEW u \in Client, u # t, turn[u].pc # "idle"
      PROVE  turn'[u] = turn[u] /\ turn[u].gen # g /\ runtime'[turn[u].gen] = runtime[turn[u].gen]
  BY <1>1, <1>5 DEF LockInv, OtherTurns, Others
<1>6. \A u \in Client : u # t => turn'[u] = turn[u]
  BY DEF OtherTurns
<1>7. StopInv'
  BY <1>5, <1>6 DEF StopInv
\* Only the runtime that serves can be running, and t is its only thread.
<1>8. CommitInv'
  <2>1. ASSUME NEW u \in Client, turn'[u].pc \in {"loop", "call", "commit"},
               runtime'[turn'[u].gen].status = "running"
        PROVE  FALSE
    <3>1. u # t /\ turn[u].pc # "idle" /\ turn'[u] = turn[u]
      BY <1>6, <2>1
    <3>2. turn[u].gen \in Generation /\ turn[u].gen # g /\ runtime[turn[u].gen] # None
          /\ runtime[turn[u].gen].status = "running"
      BY <1>5, <2>1, <3>1 DEF LockInv
    <3>3. Serving(turn[u].gen)
      BY <3>2 DEF ManagerInv, Settled
    <3> QED BY <1>1, <3>2, <3>3 DEF ServingStored
  <2>2. \A u \in Client : turn'[u].n <= turns'
    BY <1>6 DEF CommitInv
  <2> QED BY <2>1, <2>2 DEF CommitInv
<1> QED BY <1>2, <1>3, <1>4, <1>7, <1>8

\* Committing a turn keeps the invariant: its runtime still serves.
LEMMA CommitKeeps == ASSUME Constants, IInv, NEW t \in Client, Commit(t) PROVE IInv'
<1> USE DEF IInv
<1> DEFINE g == turn[t].gen
           n == turn[t].n
<1>1. /\ turn[t].pc = "commit" /\ g \in Generation /\ runtime[g] # None
      /\ runtime[g].status # "creating" /\ runtime[g] \in Runtime
      /\ n \in Nat /\ n <= turns
  BY DEF Commit, At, LockInv, TypeInv, Turn, CommitInv
<1>2. /\ OtherTurns(t) /\ turn'[t].pc = "end" /\ turn'[t].gen = g
      /\ turn'[t].n = n /\ turn'[t].late = turn[t].late
  BY Moves DEF Commit
<1>3. CASE runtime[g].status # "running"
  <2>1. UNCHANGED <<record, runtime, live, manager, turns, committed>>
    BY <1>3 DEF Commit
  <2> QED BY <1>1, <1>2, <2>1, Quiet DEF StopInv
<1>4. CASE runtime[g].status = "running"
  <2>1. /\ runtime' = [runtime EXCEPT ![g].messages = Append(@, n)]
        /\ record' = Published(g)
        /\ committed' = committed \cup {n}
        /\ UNCHANGED <<live, manager, turns>>
    BY <1>4 DEF Commit
  <2>2. Serving(g)
    BY <1>1, <1>4 DEF ManagerInv, Settled
  <2>3. /\ record # None /\ record \in Record /\ record.messages = runtime[g].messages
        /\ runtime[g].messages \in Seq(Nat)
    BY <1>1, <2>2 DEF ServingStored, TypeInv, Runtime
  <2>4. \A m \in committed : m \in Nat /\ m < n
    BY <1>1, <1>4 DEF CommitInv, TypeInv
  <2> DEFINE sent == Append(runtime[g].messages, n)
  <2>5. /\ sent \in Seq(Nat) /\ committed' = Range(sent)
        /\ \A i, j \in DOMAIN sent : i < j => sent[i] < sent[j]
    <3>1. /\ committed = Range(runtime[g].messages)
          /\ \A i, j \in DOMAIN runtime[g].messages :
                 i < j => runtime[g].messages[i] < runtime[g].messages[j]
      BY <2>3 DEF CommitInv, CommittedKept
    <3> QED BY <1>1, <2>1, <2>3, <2>4, <3>1, AppendTurn
  <2>6. /\ Others(g) /\ Keeps(g, {"status", "mode", "abort", "locked"})
        /\ runtime'[g].messages = sent /\ runtime'[g] \in Runtime
    <3> DEFINE r == [runtime[g] EXCEPT !.messages = sent]
    <3> HIDE DEF sent
    <3>1. /\ r \in Runtime /\ r.messages = sent /\ r.status = runtime[g].status
          /\ r.mode = runtime[g].mode /\ r.abort = runtime[g].abort /\ r.locked = runtime[g].locked
      BY <1>1, <2>5 DEF Runtime
    <3>2. runtime' = [runtime EXCEPT ![g] = r]
      BY <2>1 DEF sent
    <3> HIDE DEF r
    <3> QED BY <1>1, <3>1, <3>2 DEF Others, Keeps, TypeInv, Constants
  <2> HIDE DEF sent
  <2>7. /\ record' \in Record /\ record'.gen = g /\ record'.status = runtime'[g].status
        /\ record'.messages = runtime'[g].messages /\ record'.mode = runtime'[g].mode
    <3>1. record' = [status |-> runtime'[g].status, gen |-> g,
                     messages |-> runtime'[g].messages, mode |-> runtime'[g].mode]
      BY <2>1, <2>3 DEF Published
    <3> QED BY <1>1, <2>6, <3>1 DEF Record, Runtime
  <2>8. CommittedKept'
    BY <2>5, <2>6, <2>7 DEF CommittedKept
  <2>9. committed' \subseteq Nat /\ \A m \in committed' : m <= turns
    BY <1>1, <2>1, <2>4 DEF CommitInv
  <2>10. runtime'[g].status = "running"
    BY <1>4, <2>6 DEF Keeps
  <2>11. Keeps(g, {"locked", "mode"})
    BY <2>6 DEF Keeps
  <2> QED BY <1>1, <1>2, <2>1, <2>2, <2>6, <2>7, <2>8, <2>9, <2>10, <2>11, TurnServed
<1> QED BY <1>3, <1>4

\* Ending a turn, well or badly, keeps the invariant.
LEMMA FinishTurnKeeps == ASSUME Constants, IInv, NEW t \in Client, FinishTurn(t) PROVE IInv'
<1> USE DEF IInv
<1> DEFINE g == turn[t].gen
           next == IF At(t, "to_idle") THEN "idle" ELSE "error"
<1>1. /\ turn[t].pc \in {"to_idle", "to_error"} /\ g \in Generation /\ runtime[g] # None
      /\ runtime[g].status # "creating" /\ runtime[g] \in Runtime
      /\ runtime[g].status \in Status
      /\ UNCHANGED <<live, manager, turns, committed>>
  BY DEF FinishTurn, At, LockInv, TypeInv, Runtime
<1>2. /\ OtherTurns(t) /\ turn'[t].pc = "release" /\ turn'[t].gen = g
      /\ turn'[t].n = turn[t].n /\ turn'[t].late = turn[t].late
  BY Moves DEF FinishTurn
<1>3. next \in {"idle", "error"}
  OBVIOUS
<1>4. /\ May(g, next) => Transition(g, next)
      /\ ~ May(g, next) => UNCHANGED <<record, runtime>>
  BY DEF FinishTurn
<1> HIDE DEF next
<1>5. CASE UNCHANGED <<record, runtime>>
  BY <1>1, <1>2, <1>5, Quiet DEF StopInv
<1>6. CASE May(g, next) /\ runtime[g].status = "error"
  <2>1. next = "error"
    BY <1>1, <1>3, <1>6, MayRun
  <2>2. runtime' = [runtime EXCEPT ![g].status = "error"] /\ UNCHANGED record
    BY <1>4, <1>6, <2>1 DEF Transition
  <2>3. UNCHANGED runtime
    <3>1. [runtime[g] EXCEPT !.status = "error"] = runtime[g]
      BY <1>1, <1>6 DEF TypeInv, Runtime
    <3> QED BY <1>1, <2>2, <3>1 DEF TypeInv
  <2> QED BY <1>5, <2>2, <2>3
<1>7. CASE May(g, next) /\ runtime[g].status # "error"
  <2>1. runtime[g].status # "closed"
    BY <1>1, <1>3, <1>7, MayRun
  <2>2. Serving(g)
    BY <1>1, <1>7, <2>1 DEF ManagerInv, Settled
  <2>3. /\ Others(g) /\ Keeps(g, {"messages", "mode", "abort", "locked"})
        /\ runtime'[g].status = next
        /\ record' \in Record /\ record'.gen = g /\ record'.status = next
        /\ record'.messages = runtime[g].messages /\ record'.mode = runtime[g].mode
    BY <1>1, <1>3, <1>4, <1>7, <2>2, ServingTransition DEF Status
  <2>4. CommittedKept'
    BY <1>1, <2>2, <2>3 DEF CommitInv, CommittedKept, ServingStored, Constants
  <2>5. committed' \subseteq Nat /\ \A m \in committed' : m <= turns
    BY <1>1 DEF CommitInv, TypeInv
  <2>6. Keeps(g, {"locked", "mode"}) /\ runtime'[g].mode = runtime[g].mode
        /\ runtime'[g].messages = runtime[g].messages
    BY <2>3 DEF Keeps
  <2> QED BY <1>1, <1>2, <1>3, <2>2, <2>3, <2>4, <2>5, <2>6, TurnServed
<1> QED BY <1>4, <1>5, <1>6, <1>7

-----------------------------------------------------------------------------
(* The theorems *)

LEMMA InitInv == Constants /\ Init => IInv
<1> SUFFICES ASSUME Constants, Init PROVE IInv
  OBVIOUS
<1>1. Idle \in Turn /\ Idle.pc = "idle" /\ Idle.n = 0 /\ Idle.late = 0
  BY DEF Idle, Turn
<1>2. \A t \in Client : turn[t] = Idle
  BY DEF Init
<1>3. TypeInv
  BY <1>1 DEF Init, TypeInv, Ready
<1>4. ManagerInv /\ ServingStored /\ StoreInv
  BY DEF Init, ManagerInv, ServingStored, StoreInv, Serving, Ready, Constants
<1>5. LockInv /\ StopInv
  BY <1>1, <1>2 DEF Init, LockInv, StopInv
<1>6. CommitInv
  BY <1>1, <1>2 DEF Init, CommitInv, CommittedKept
<1> QED BY <1>3, <1>4, <1>5, <1>6 DEF IInv

\* Every step keeps the invariant.
LEMMA NextInv == Constants /\ IInv /\ [Next]_vars => IInv'
<1> SUFFICES ASSUME Constants, IInv, [Next]_vars PROVE IInv'
  OBVIOUS
<1>1. CASE CreateSession \/ ResumeSession
  BY <1>1, CreateKeeps, ResumeKeeps
<1>2. CASE StartSucceeds \/ StartFails \/ CloseSession \/ StopListener
  BY <1>2, ManagerTransitions
<1>3. CASE RequestAbort \/ \E g \in Generation : Abort(g)
  BY <1>3, AbortKeeps
<1>4. CASE CloseWithoutRuntime \/ ForgetSession
  BY <1>4, RecordKeeps
<1>5. CASE Restart \/ \E mode \in Mode : SetMode(mode)
  BY <1>5, RestartKeeps, SetModeKeeps
<1>6. ASSUME NEW t \in Client, TurnStep(t) PROVE IInv'
  BY <1>6, ReleaseKeeps, ClearAbortKeeps, BeginTurnKeeps, QuietSteps, CommitKeeps, FinishTurnKeeps
     DEF TurnStep
<1>7. ASSUME NEW t \in Client, NEW g \in Generation, Acquire(t, g) PROVE IInv'
  BY <1>7, AcquireKeeps
<1>8. CASE UNCHANGED vars
  BY <1>8 DEF vars, IInv, TypeInv, ManagerInv, ServingStored, StoreInv, LockInv, StopInv,
              CommitInv, CommittedKept, Serving, Inside
<1> QED BY <1>1, <1>2, <1>3, <1>4, <1>5, <1>6, <1>7, <1>8 DEF Next

\* The inductive invariant.
LEMMA Invariant == ASSUME Constants PROVE Spec => []IInv
  BY InitInv, NextInv, PTL DEF Spec

\* Whatever the manager, the threads and the deaths of the process do, one runtime
\* at a time accepts input, and the store holds what that runtime holds
\* (SessionManager.resume_session, SessionProcess._publish).
THEOREM OneRuntimeServes == ASSUME Constants PROVE Spec => []OneRuntime
<1>1. ASSUME IInv PROVE OneRuntime
  <2>1. ASSUME NEW g \in Generation, NEW h \in Generation, Serving(g), Serving(h) PROVE g = h
    BY <1>1, <2>1 DEF IInv, ServingStored
  <2> QED BY <1>1, <2>1 DEF IInv, ManagerInv, StoreInv, OneRuntime
<1> QED BY <1>1, Invariant, PTL

\* No committed turn is lost, doubled or out of order, in any number of
\* generations (_commit_transcript_if_running).
THEOREM CommittedTurnsStay == ASSUME Constants PROVE Spec => []CommittedKept
<1>1. IInv => CommittedKept
  BY DEF IInv, CommitInv
<1> QED BY <1>1, Invariant, PTL

\* A turn that is asked to stop makes at most the one provider call it was about
\* to make, and no turn keeps the lock of a session that is idle (run_agent_loop).
THEOREM TurnsStopAndRelease == ASSUME Constants PROVE Spec => [](AbortStops /\ LockFreed)
<1>1. IInv => AbortStops /\ LockFreed
  BY DEF IInv, StopInv, LockInv, AbortStops, LockFreed, Inside
<1> QED BY <1>1, Invariant, PTL

\* A late answer never rewrites a session that is closed: only resume and forget
\* change it.
THEOREM ClosedStays == ASSUME Constants PROVE Spec => ClosedFinal
<1>1. IInv /\ [Next]_vars => [KeepsClosed]_vars
  <2> SUFFICES ASSUME IInv, Next, record # None, record.status = "closed"
               PROVE  record' \in {record, None} \/ manager'.pc = "starting"
    BY DEF KeepsClosed
  <2> USE DEF IInv
  <2>1. \A g \in Generation : ~ Serving(g)
    BY DEF ServingStored
  <2>2. live \notin Generation /\ manager.pc = "ready"
    BY <2>1 DEF Serving, ManagerInv
  <2>3. \A g \in Generation : runtime[g] # None => runtime[g].status \in Settled
    BY <2>1 DEF ManagerInv
  <2>4. CASE CreateSession \/ ResumeSession
    BY <2>4 DEF CreateSession, ResumeSession, StartRuntime
  <2>5. CASE StartSucceeds \/ StartFails \/ RequestAbort \/ StopListener
    BY <2>2, <2>5 DEF StartSucceeds, StartFails, RequestAbort, StopListener
  <2>6. CASE CloseSession \/ \E mode \in Mode : SetMode(mode)
    BY <2>2, <2>6 DEF CloseSession, SetMode, TypeInv
  <2>7. CASE CloseWithoutRuntime
    BY <2>7 DEF CloseWithoutRuntime, TypeInv, Record
  <2>8. CASE ForgetSession \/ Restart \/ \E g \in Generation : Abort(g)
    BY <2>8 DEF ForgetSession, Restart, Abort
  <2>9. ASSUME NEW t \in Client, NEW g \in Generation, Acquire(t, g) PROVE record' = record
    BY <2>9 DEF Acquire
  <2>10. ASSUME NEW t \in Client, TurnStep(t) PROVE record' = record
    <3> DEFINE g == turn[t].gen
    <3>1. turn[t].pc # "idle" => runtime[g].status \in {"closed", "error"}
      BY <2>3 DEF LockInv, Settled
    <3>2. runtime[g].status \in {"closed", "error"} =>
            ~ May(g, "running") /\ ~ May(g, "idle")
              /\ (May(g, "error") => runtime[g].status = "error")
      BY MayRun DEF Status
    <3>3. CASE BeginTurn(t)
      BY <3>1, <3>2, <3>3 DEF BeginTurn, At
    <3>4. CASE Commit(t)
      BY <3>1, <3>4 DEF Commit, At
    <3>5. CASE FinishTurn(t)
      <4>1. turn[t].pc = "to_idle" \/ turn[t].pc = "to_error"
        BY <3>5 DEF FinishTurn, At
      <4>2. ASSUME turn[t].pc = "to_idle" PROVE record' = record
        BY <3>1, <3>2, <3>5, <4>2 DEF FinishTurn, At
      <4>3. ASSUME turn[t].pc = "to_error" PROVE record' = record
        BY <3>1, <3>2, <3>5, <4>3 DEF FinishTurn, At, Transition
      <4> QED BY <4>1, <4>2, <4>3
    <3>6. CASE CheckIdle(t) \/ ClearAbort(t) \/ CheckAbort(t) \/ CallProvider(t)
                 \/ CheckRunning(t) \/ ReleaseTurn(t)
      BY <3>6 DEF CheckIdle, ClearAbort, CheckAbort, CallProvider, CheckRunning, ReleaseTurn
    <3> QED BY <2>10, <3>3, <3>4, <3>5, <3>6 DEF TurnStep
  <2> QED BY <2>4, <2>5, <2>6, <2>7, <2>8, <2>9, <2>10 DEF Next
<1> QED BY <1>1, Invariant, PTL DEF Spec, ClosedFinal

=============================================================================
