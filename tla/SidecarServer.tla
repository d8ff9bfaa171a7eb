--------------------------- MODULE SidecarServer ---------------------------
(***************************************************************************)
(* s06_sidecar_server/code.py: newline-framed requests on sockets that     *)
(* deliver any pieces, one handler thread per connection, sessions shared  *)
(* by all, and the ring buffer that keeps the last bytes of the log.       *)
(*                                                                         *)
(* A request is three symbols on the wire: its call, its argument, newline.*)
(* A log line is one symbol per byte.  A turn of the agent is its number.  *)
(***************************************************************************)
EXTENDS Naturals, Sequences, FiniteSets, Functions

CONSTANTS
    Conn,           \* connections, each with its thread
    BufferSize,     \* RingBuffer.size
    MaxCalls, MaxChunk,     \* bounds: calls of a connection, bytes of a recv
    None

VARIABLES
    wire,           \* bytes sent and not received, by connection
    received,       \* _recv_buffer
    handler,        \* what a connection's thread is doing
    caller,         \* what the client of a connection waits for, and got
    messages,       \* messages of the session, None once destroyed
    ring,           \* bytearray, write_pos, total_written
    logged,         \* every byte written to the ring so far
    overlaps        \* turns that ran at the same time as another of the session

vars == <<wire, received, handler, caller, messages, ring, logged, overlaps>>

\* A symbol is what it is part of, and its value.
Newline == <<"end", 0>>
Waiting == [pc |-> "recv", id |-> 0, method |-> None, local |-> <<>>]

-----------------------------------------------------------------------------
(* RingBuffer *)

Empty == [buffer |-> [i \in 0..(BufferSize - 1) |-> None], pos |-> 0, total |-> 0]

\* One symbol; the lock makes a write one step.
Written(r, byte) ==
    [buffer |-> [r.buffer EXCEPT ![r.pos] = byte], pos |-> (r.pos + 1) % BufferSize, total |-> r.total + 1]

From(r, first, last) == [i \in 1..(last - first) |-> r.buffer[first + i - 1]]

\* Faulty variant: a buffer that has just become full counts as not full.
ReadAllLate(r) ==
    IF r.total <= BufferSize THEN From(r, 0, r.pos)
    ELSE From(r, r.pos, BufferSize) \o From(r, 0, r.pos)

ReadAll(r) ==
    IF r.total < BufferSize THEN From(r, 0, r.pos)
    ELSE From(r, r.pos, BufferSize) \o From(r, 0, r.pos)

Log(byte) == ring' = Written(ring, byte) /\ logged' = Append(logged, byte)

-----------------------------------------------------------------------------
(* MainProcessClient *)

Init ==
    /\ wire = [c \in Conn |-> <<>>]
    /\ received = [c \in Conn |-> <<>>]
    /\ handler = [c \in Conn |-> Waiting]
    /\ caller = [c \in Conn |-> [id |-> 0, waits |-> FALSE, answer |-> None]]
    /\ messages = <<>>
    /\ ring = Empty /\ logged = <<>>
    /\ overlaps = {}

Turn(c, id) == <<c, id>>

\* call: one at a time, with the next ID.
Send(c, method) ==
    /\ ~ caller[c].waits /\ caller[c].id < MaxCalls
    /\ caller' = [caller EXCEPT ![c] = [id |-> @.id + 1, waits |-> TRUE, answer |-> None]]
    /\ wire' = [wire EXCEPT ![c] = @ \o <<<<"id", caller[c].id + 1>>, <<"method", method>>, Newline>>]
    /\ UNCHANGED <<received, handler, messages, ring, logged, overlaps>>

-----------------------------------------------------------------------------
(* handle_connection *)

\* sock.recv delivers some of what was sent.
Recv(c) ==
    /\ handler[c].pc = "recv" /\ Newline \notin Range(received[c])
    /\ \E n \in 1..MaxChunk :
         /\ n <= Len(wire[c])
         /\ received' = [received EXCEPT ![c] = @ \o SubSeq(wire[c], 1, n)]
         /\ wire' = [wire EXCEPT ![c] = SubSeq(@, n + 1, Len(@))]
    /\ UNCHANGED <<handler, caller, messages, ring, logged, overlaps>>

LineEnd(bytes) == CHOOSE i \in DOMAIN bytes : bytes[i] = Newline /\ \A j \in 1..(i - 1) : bytes[j] # Newline

\* Faulty variant: the line is what arrived last, without what came before.
LineOfChunk(bytes) ==
    LET end == LineEnd(bytes)
    IN  SubSeq(bytes, IF end > MaxChunk THEN end - MaxChunk + 1 ELSE 1, end - 1)

Line(bytes) == SubSeq(bytes, 1, LineEnd(bytes) - 1)

\* A line that does not parse ends the connection's loop; every request is logged.
Dispatch(c) ==
    /\ handler[c].pc = "recv" /\ Newline \in Range(received[c])
    /\ LET line == Line(received[c]) IN
       IF Len(line) # 2
         THEN handler' = [handler EXCEPT ![c].pc = "closed"] /\ UNCHANGED <<ring, logged>>
         ELSE /\ handler' = [handler EXCEPT ![c] =
                    [pc |-> "handle", id |-> line[1][2], method |-> line[2][2], local |-> <<>>]]
              /\ Log(line[2][2])
    /\ received' = [received EXCEPT ![c] = SubSeq(@, LineEnd(@) + 1, Len(@))]
    /\ UNCHANGED <<wire, caller, messages, overlaps>>

Others(c) == {d \in Conn \ {c} : handler[d].pc = "turn"}

\* agent/send reads the session's messages, the others answer at once.
Handle(c) ==
    /\ handler[c].pc = "handle"
    /\ \/ /\ handler[c].method = "agent/send" /\ messages # None
          /\ handler' = [handler EXCEPT ![c].pc = "turn", ![c].local = messages]
          /\ overlaps' = IF Others(c) = {} THEN overlaps
                         ELSE overlaps \cup {Turn(c, handler[c].id)}
                                       \cup {Turn(d, handler[d].id) : d \in Others(c)}
          /\ UNCHANGED messages
       \/ /\ handler[c].method = "session/destroy" /\ messages' = None
          /\ handler' = [handler EXCEPT ![c].pc = "answer"]
          /\ UNCHANGED overlaps
       \/ /\ handler[c].method # "session/destroy" /\ (handler[c].method = "agent/send" => messages = None)
          /\ handler' = [handler EXCEPT ![c].pc = "answer"]
          /\ UNCHANGED <<messages, overlaps>>
    /\ UNCHANGED <<wire, received, caller, ring, logged>>

\* Faulty variant: the new turn is saved in place of the conversation.
SaveTurnOnly(c) ==
    /\ handler[c].pc = "turn"
    /\ handler' = [handler EXCEPT ![c].pc = "answer"]
    /\ messages' = IF messages = None THEN None ELSE <<Turn(c, handler[c].id)>>
    /\ UNCHANGED <<wire, received, caller, ring, logged, overlaps>>

\* The provider answered: what was read before, and this turn, is saved.  A
\* session destroyed meanwhile is out of reach.
SaveTurn(c) ==
    /\ handler[c].pc = "turn"
    /\ handler' = [handler EXCEPT ![c].pc = "answer"]
    /\ messages' = IF messages = None THEN None ELSE Append(handler[c].local, Turn(c, handler[c].id))
    /\ UNCHANGED <<wire, received, caller, ring, logged, overlaps>>

\* The provider or a tool raises: an error is the answer, nothing is saved.
TurnFails(c) ==
    /\ handler[c].pc = "turn"
    /\ handler' = [handler EXCEPT ![c].pc = "error"]
    /\ Log("error")
    /\ UNCHANGED <<wire, received, caller, messages, overlaps>>

\* The client reads one response and takes it for its own.
Answer(c) ==
    /\ handler[c].pc \in {"answer", "error"}
    /\ caller' = [caller EXCEPT ![c] = [id |-> @.id, waits |-> FALSE,
                      answer |-> [id |-> handler[c].id, method |-> handler[c].method,
                                  ok |-> handler[c].pc = "answer" /\ messages # None]]]
    /\ handler' = [handler EXCEPT ![c] = Waiting]
    /\ UNCHANGED <<wire, received, messages, ring, logged, overlaps>>

Next ==
    \E c \in Conn :
        \/ \E method \in {"agent/send", "session/destroy", "sidecar/ping"} : Send(c, method)
        \/ Recv(c) \/ Dispatch(c) \/ Handle(c) \/ SaveTurn(c) \/ TurnFails(c) \/ Answer(c)

Spec == Init /\ [][Next]_vars

-----------------------------------------------------------------------------
(* Properties *)

\* The buffer gives the last bytes that were logged, all that fit, oldest first,
\* at every fill (read_all: "in order: oldest to newest").
RingKeepsLatest ==
    LET kept == IF Len(logged) < BufferSize THEN Len(logged) ELSE BufferSize IN
    ReadAll(ring) = SubSeq(logged, Len(logged) - kept + 1, Len(logged))

\* A client gets the answer to its own call, however the request was cut into
\* pieces, and no connection is given up (recv_message).
AnswersOwnCall ==
    \A c \in Conn :
        /\ handler[c].pc # "closed"
        /\ caller[c].answer # None => caller[c].answer.id = caller[c].id

\* A turn that was answered is in the session's messages unless another of the
\* same session ran meanwhile (_run_agent_loop reads them first and saves last).
TurnsKept ==
    messages # None =>
        \A c \in Conn :
            LET got == caller[c].answer IN
            got # None /\ got.method = "agent/send" /\ got.ok /\ Turn(c, got.id) \notin overlaps =>
                Turn(c, got.id) \in Range(messages)
=============================================================================
