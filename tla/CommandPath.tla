----------------------------- MODULE CommandPath -----------------------------
(***************************************************************************)
(* A command of the server on its way through the gateway: the socket, the *)
(* flag recv_pending, CMD_REQUEST_Q and cmdTask (module/tcp/tcp.c,         *)
(* sdk_walnut_socket_poll.c, module/command/command_manager.c, and the     *)
(* queue without a file of common/queue_manager.c).                        *)
(*                                                                         *)
(* Three tasks take part.  TCPMON finds a readable socket and sets the     *)
(* flag; TCPCLI, once per iteration, reads if the flag is set and clears   *)
(* it when there was nothing to read; cmdTask takes one message at a time  *)
(* and answers it.  The flag has no lock.  The ring has one, and what push *)
(* and pop do under it is two steps here: the copy, and the write of count *)
(* from the value read before it.                                          *)
(*                                                                         *)
(* A piece is what the server sends that no recv divides.  A recv returns  *)
(* one piece or several, and what it returns is one message, of which the  *)
(* first piece decides.  One run of the firmware; a definition named D_x   *)
(* is D with a slip and no part of the model.                              *)
(***************************************************************************)
EXTENDS Naturals, Sequences

CONSTANTS
  Capacity,       \* capacity of CMD_REQUEST_Q
  MaxPieces,      \* bound: pieces the server sends, numbered from 1
  MaxSessions,    \* bound: connections
  ShortPieces,    \* the pieces of less than five bytes
  StmPieces,      \* the pieces that begin with STM:
  SendQueueFails  \* whether a push to TCP_SEND_Q may fail

ASSUME SizeAssumption ==
  Capacity \in Nat \ {0} /\ MaxPieces \in Nat /\ MaxSessions \in Nat
ASSUME KindAssumption ==
  ShortPieces \subseteq 1..MaxPieces /\ StmPieces \subseteq 1..MaxPieces
ASSUME FaultAssumption == SendQueueFails \in BOOLEAN

VARIABLES
  stream,     \* pieces received by lwIP and not read
  open,       \* tcp_fd holds a socket
  pending,    \* connect_pending of its slot
  flag,       \* recv_pending
  mon,        \* where TCPMON is in its pass
  cli, msg,   \* where TCPCLI is, and g_tcp_cmd_msg
  cmd, text,  \* where cmdTask is, and the request it has popped
  buf, head, tail, count,  \* the ring
  lock, seen, \* its mutex; the count read by the task that holds it
  sent, sessions,
  accepted, processed,     \* messages pushed, messages executed
  fate        \* what has become of each piece

socket == <<stream, open, pending, sessions, sent>>
ring == <<buf, head, tail, count, lock, seen>>
client == <<cli, msg>>
manager == <<cmd, text>>
ghosts == <<accepted, processed, fate>>
vars == <<socket, flag, mon, client, manager, ring, ghosts>>

Pieces == 1..MaxPieces
Fates == {"none", "unread", "short", "refused", "answered", "dropped", "silent"}
PiecesOf(s) == {s[i] : i \in DOMAIN s}
Settle(s, f) == fate' = [p \in Pieces |-> IF p \in PiecesOf(s) THEN f ELSE fate[p]]

-----------------------------------------------------------------------------
(* The server and the connection *)

Arrive ==
  /\ open /\ sent < MaxPieces
  /\ sent' = sent + 1 /\ stream' = Append(stream, sent + 1)
  /\ UNCHANGED <<open, pending, sessions, flag, mon, client, manager, ring, ghosts>>

\* SOCKET_CREATING and the mark of a connect under way.
Connect ==
  /\ cli = "top" /\ ~open /\ sessions < MaxSessions
  /\ open' = TRUE /\ pending' = TRUE /\ sessions' = sessions + 1
  /\ UNCHANGED <<stream, sent, flag, mon, client, manager, ring, ghosts>>

\* tcp_state_handle_closed, for any of its reasons.
Close ==
  /\ cli = "top" /\ open
  /\ open' = FALSE /\ pending' = FALSE /\ flag' = FALSE
  /\ stream' = <<>> /\ Settle(stream, "unread")
  /\ UNCHANGED <<sessions, sent, mon, client, manager, ring, accepted, processed>>

-----------------------------------------------------------------------------
(* TCPMON: socket_poll_service_slot and the callback *)

\* By the first writable pass with a peer, or by the login that is sent.
MonConnected ==
  /\ mon = "select" /\ open /\ pending /\ pending' = FALSE
  /\ UNCHANGED <<stream, open, sessions, sent, flag, mon, client, manager, ring, ghosts>>

\* A readable socket, in every pass as long as it is readable.
MonReadable ==
  /\ mon = "select" /\ open /\ ~pending /\ stream # <<>>
  /\ mon' = "call"
  /\ UNCHANGED <<socket, flag, client, manager, ring, ghosts>>

\* tcp_socket_event_callback: the checks of the socket, ...
MonCall ==
  /\ mon = "call" /\ mon' = IF open THEN "set" ELSE "select"
  /\ UNCHANGED <<socket, flag, client, manager, ring, ghosts>>

\* ... and RCVPLUS; the socket may be gone or another one by now.
MonSet ==
  /\ mon = "set" /\ mon' = "select" /\ flag' = TRUE
  /\ UNCHANGED <<socket, client, manager, ring, ghosts>>

Monitor == MonConnected \/ MonReadable \/ MonCall \/ MonSet

-----------------------------------------------------------------------------
(* The mutex of the queue *)

queue_lock_NotThreadSafe(t) == UNCHANGED lock
queue_lock(t) == lock = "free" /\ lock' = t
Unlock == lock' = "free"

-----------------------------------------------------------------------------
(* TCPCLI: tcp_try_recv_once_and_dispatch *)

\* Nothing to read (without a socket there is nothing), or a message in
\* g_tcp_cmd_msg.  Less than five bytes are skipped, in one short piece or
\* several.
CliRecv ==
  /\ cli = "top" /\ flag
  /\ \/ /\ stream = <<>> /\ cli' = "empty"
        /\ UNCHANGED <<stream, msg, fate>>
     \/ \E n \in 1..Len(stream) :
          /\ stream' = SubSeq(stream, n + 1, Len(stream))
          /\ \/ /\ n > 1 \/ stream[1] \notin ShortPieces
                /\ cli' = "got" /\ msg' = SubSeq(stream, 1, n)
                /\ UNCHANGED fate
             \/ /\ PiecesOf(SubSeq(stream, 1, n)) \subseteq ShortPieces
                /\ Settle(SubSeq(stream, 1, n), "short")
                /\ UNCHANGED <<cli, msg>>
  /\ UNCHANGED <<open, pending, sessions, sent, flag, mon, manager, ring, accepted, processed>>

\* The caller clears the flag after the recv that found nothing.
CliClear ==
  /\ cli = "empty" /\ cli' = "top" /\ flag' = FALSE
  /\ UNCHANGED <<socket, mon, msg, manager, ring, ghosts>>

\* command_manager_accept_request, queue_push
PushLock ==
  /\ cli = "got" /\ queue_lock("TCPCLI") /\ cli' = "push"
  /\ UNCHANGED <<socket, flag, mon, msg, manager, buf, head, tail, count, seen, ghosts>>

\* RESULT_BUSY is logged.
PushFull ==
  /\ cli = "push" /\ count >= Capacity
  /\ cli' = "top" /\ Unlock /\ Settle(msg, "refused")
  /\ UNCHANGED <<socket, flag, mon, msg, manager, buf, head, tail, count, seen,
                 accepted, processed>>

PushCopy_OneMore ==
  /\ cli = "push" /\ count <= Capacity
  /\ buf' = [buf EXCEPT ![tail] = msg] /\ tail' = (tail + 1) % Capacity
  /\ seen' = [seen EXCEPT !["TCPCLI"] = count] /\ cli' = "pushed"
  /\ UNCHANGED <<socket, flag, mon, msg, manager, head, count, lock, ghosts>>

PushCopy ==
  /\ cli = "push" /\ count < Capacity
  /\ buf' = [buf EXCEPT ![tail] = msg] /\ tail' = (tail + 1) % Capacity
  /\ seen' = [seen EXCEPT !["TCPCLI"] = count] /\ cli' = "pushed"
  /\ UNCHANGED <<socket, flag, mon, msg, manager, head, count, lock, ghosts>>

PushCount ==
  /\ cli = "pushed" /\ cli' = "top"
  /\ count' = seen["TCPCLI"] + 1 /\ Unlock
  /\ accepted' = Append(accepted, msg)
  /\ UNCHANGED <<socket, flag, mon, msg, manager, buf, head, tail, seen, processed, fate>>

Client == CliRecv \/ CliClear \/ PushFull \/ PushCopy \/ PushCount

-----------------------------------------------------------------------------
(* cmdTask: cmd_task_entry, queue_pop *)

RingEmpty_OneLeft == count <= 1
RingEmpty == count = 0

PopLock ==
  /\ cmd = "idle" /\ queue_lock("cmdTask") /\ cmd' = "pop"
  /\ UNCHANGED <<socket, flag, mon, client, text, buf, head, tail, count, seen, ghosts>>

PopEmpty ==
  /\ cmd = "pop" /\ RingEmpty
  /\ cmd' = "idle" /\ Unlock
  /\ UNCHANGED <<socket, flag, mon, client, text, buf, head, tail, count, seen, ghosts>>

PopCopy ==
  /\ cmd = "pop" /\ ~RingEmpty
  /\ text' = buf[head] /\ head' = (head + 1) % Capacity
  /\ seen' = [seen EXCEPT !["cmdTask"] = count] /\ cmd' = "popped"
  /\ UNCHANGED <<socket, flag, mon, client, buf, tail, count, lock, ghosts>>

PopCount ==
  /\ cmd = "popped" /\ cmd' = "run"
  /\ count' = seen["cmdTask"] - 1 /\ Unlock
  /\ UNCHANGED <<socket, flag, mon, client, text, buf, head, tail, seen, ghosts>>

\* cmd_process_command and utils_route_response_to_module.  A command for the
\* STM finds the UART module disabled and leaves the response empty, and an
\* empty response is not routed; every other command fills it.
Process ==
  /\ cmd = "run" /\ cmd' = "idle"
  /\ processed' = Append(processed, text)
  /\ \/ text[1] \in StmPieces /\ Settle(text, "silent")
     \/ text[1] \notin StmPieces /\ Settle(text, "answered")
     \/ text[1] \notin StmPieces /\ SendQueueFails /\ Settle(text, "dropped")
  /\ UNCHANGED <<socket, flag, mon, client, text, ring, accepted>>

Manager == PopLock \/ PopEmpty \/ PopCopy \/ PopCount \/ Process

-----------------------------------------------------------------------------
Init ==
  /\ stream = <<>> /\ open = FALSE /\ pending = FALSE /\ flag = FALSE
  /\ mon = "select" /\ cli = "top" /\ msg = <<>> /\ cmd = "idle" /\ text = <<>>
  /\ buf = [i \in 0..Capacity - 1 |-> <<>>] /\ head = 0 /\ tail = 0 /\ count = 0
  /\ lock = "free" /\ seen = [t \in {"TCPCLI", "cmdTask"} |-> 0]
  /\ sent = 0 /\ sessions = 0 /\ accepted = <<>> /\ processed = <<>>
  /\ fate = [p \in Pieces |-> "none"]

Next ==
  \/ Arrive \/ Connect \/ Close
  \/ Monitor \/ PushLock \/ Client \/ Manager

Spec == Init /\ [][Next]_vars

\* The three tasks keep running, and a task that waits for the mutex gets it:
\* the other one sleeps after each round in which it held it.
Fairness ==
  /\ WF_vars(Monitor) /\ WF_vars(Client) /\ WF_vars(Manager)
  /\ SF_vars(PushLock)
FairSpec == Spec /\ Fairness

-----------------------------------------------------------------------------
(* Properties *)

\* A sequence of pieces the server may have sent.
Text == UNION {[1..n -> Pieces] : n \in 0..MaxPieces}

\* Every variable keeps its type.
TypeOK ==
  /\ stream \in Text /\ open \in BOOLEAN /\ pending \in BOOLEAN /\ flag \in BOOLEAN
  /\ mon \in {"select", "call", "set"}
  /\ cli \in {"top", "empty", "got", "push", "pushed"} /\ msg \in Text
  /\ cmd \in {"idle", "pop", "popped", "run"} /\ text \in Text
  /\ buf \in [0..Capacity - 1 -> Text]
  /\ head \in 0..Capacity - 1 /\ tail \in 0..Capacity - 1 /\ count \in 0..Capacity
  /\ lock \in {"free", "TCPCLI", "cmdTask"} /\ seen \in [{"TCPCLI", "cmdTask"} -> 0..Capacity]
  /\ sent \in 0..MaxPieces /\ sessions \in 0..MaxSessions
  /\ accepted \in Seq(Text) /\ processed \in Seq(Text) /\ fate \in [Pieces -> Fates]

Queued == [i \in 1..count |-> buf[(head + i - 1) % Capacity]]
InHand == IF cmd = "run" THEN <<text>> ELSE <<>>

\* CMD_REQUEST_Q is filled by one task and drained by another: every message
\* that was accepted is executed once and in the order of arrival
\* (module_config.c:127-134 tells what an unlocked ring did).
AcceptedInOrder == lock = "free" => processed \o InHand \o Queued = accepted

\* What the server sent is read, unless its connection closes first, and every
\* message that was read is refused, skipped or executed: no RCVPLUS that
\* TCPCLI overwrites leaves data in the socket, and no full queue stops a task.
EveryPieceSettled == \A p \in Pieces : p <= sent ~> fate[p] # "none"
=============================================================================
