------------------------------ MODULE TcpClient ------------------------------
(***************************************************************************)
(* The TCP client (module/tcp/tcp.c, tcp_ops.c) and the socket monitor it  *)
(* runs on (sdk_walnut_socket_poll.c, sdk_walnut_tcp.c).                   *)
(*                                                                         *)
(* Two tasks share g_tcp_client without a lock.  TCPCLI runs one iteration *)
(* of the state machine every 200 ms: it restarts or applies the timeouts, *)
(* dispatches on the state, runs the handler of that state and, in         *)
(* HANDLE_STATE, writes the state the handler's result selects.  TCPMON    *)
(* polls the socket and calls tcp_socket_event_callback, which writes the  *)
(* state too.  A step of the model is the code of one task between two     *)
(* points where the other task can matter: a call into lwIP, a log line,   *)
(* or the next access to a shared variable.                                *)
(*                                                                         *)
(* Bytes are counted in units; a frame has FrameBytes of them.  A row is   *)
(* known only by its position in its batch; TcpSendQueue models the queue. *)
(* Received data (recv_pending) changes no state and is left out, as is    *)
(* weware_tcp_reset_connection, which nothing calls.                       *)
(*                                                                         *)
(* D_x is definition D with a slip in it; the model does not use it.       *)
(***************************************************************************)
EXTENDS Integers

CONSTANTS
  SndBuf,          \* units of lwIP's send buffer (sndbuf_capacity)
  FrameBytes,      \* units of a login or data frame
  MaxBatch,        \* MAX_MESSAGES: rows peeked for one frame
  FrameRows,       \* rows that fit MAX_COMBINED_SIZE
  SOCKET_POLL_MAX, \* slots of the monitor
  MaxLag           \* TCPCLI iterations that may begin while TCPMON is inside
                   \* one callback: the tasks' relative speed

ASSUME ConstantsAssumption ==
  /\ SndBuf \in Nat \ {0} /\ FrameBytes \in 1..SndBuf
  /\ MaxBatch \in Nat \ {0} /\ FrameRows \in Nat \ {0}
  /\ SOCKET_POLL_MAX \in Nat \ {0} /\ MaxLag \in Nat

VARIABLES
  (* g_tcp_client *)
  state, tcp_fd,             \* tcp_fd: whether it holds a socket
  last_connected_state, session_up,
  bytesSent, bytesAcked,     \* tcp_bytes_sent (0 stands for -1), tcp_bytes_acked
  batchCount,                \* tcp_send_queue_batch_count
  lastState, expired,        \* last_state; the timeout of the state is over
  down,                      \* what is known of session_down_since: see HandleInit
  (* TCPCLI *)
  pc, next,                  \* where it is; the state HANDLE_STATE will write
  job,                       \* the frame being handed to lwip_send
  (* TCPMON *)
  slot,                      \* the SocketPollSlot of tcp_fd
  mon,                       \* where TCPMON is and the event it carries
  lag,                       \* iterations begun since it left "select"
  (* lwIP and the peer *)
  conn, inflight,            \* the connection; units sent and not acknowledged
  (* history *)
  leaked,                    \* sockets open that nothing refers to
  inFrame                    \* rows lwIP accepted whole of the frame in flight

track   == <<bytesSent, bytesAcked, batchCount, inFrame>>
session == <<last_connected_state, session_up>>
clocks  == <<lastState, expired, down>>
socket  == <<tcp_fd, slot, conn, inflight, leaked>>
monitor == <<mon, lag>>
vars == <<state, track, session, clocks, pc, next, job, socket, monitor>>

TcpState == {"INIT", "WAIT_NETWORK", "SOCKET_CREATING", "SOCKET_CREATED",
             "CONNECTING", "CONNECTED", "SENDING_LOGIN", "WAIT_ACK_LOGIN",
             "ACK_RECEIVED", "SENDING_DATA", "WAIT_ACK_DATA", "CLOSED",
             "RECONNECT_DELAY", "ERROR"}

Timed_NoAckData == {"WAIT_NETWORK", "SOCKET_CREATING", "SOCKET_CREATED",
  "CONNECTING", "SENDING_LOGIN", "WAIT_ACK_LOGIN", "SENDING_DATA", "RECONNECT_DELAY"}

\* The states with an entry above 0 in g_tcp_state_timeouts.
Timed == {"WAIT_NETWORK", "SOCKET_CREATING", "SOCKET_CREATED", "CONNECTING",
          "SENDING_LOGIN", "WAIT_ACK_LOGIN", "SENDING_DATA", "WAIT_ACK_DATA",
          "RECONNECT_DELAY"}

\* The states that re-anchor the overall timeout.
Desired == {"CONNECTED", "ACK_RECEIVED"}

SendStates == {"SENDING_LOGIN", "WAIT_ACK_LOGIN", "SENDING_DATA", "WAIT_ACK_DATA"}
WaitAck == {"WAIT_ACK_LOGIN", "WAIT_ACK_DATA"}

Smaller(a, b) == IF a < b THEN a ELSE b

NoJob == [len |-> 0, rows |-> 0, whole |-> 0]
Jobs == [len : 0..FrameBytes, rows : 0..MaxBatch, whole : 0..MaxBatch]

NoSlot == [open |-> FALSE, pending |-> FALSE, err |-> FALSE, sndbuf |-> FALSE,
           last |-> 0, unacked |-> 0, synth |-> 0]
NewSlot(supported) ==
  [open |-> TRUE, pending |-> FALSE, err |-> FALSE, sndbuf |-> supported,
   last |-> IF supported THEN SndBuf ELSE -1, unacked |-> 0, synth |-> 0]
Slots == [open : BOOLEAN, pending : BOOLEAN, err : BOOLEAN, sndbuf : BOOLEAN,
          last : -1..SndBuf, unacked : Nat, synth : Nat]

\* The places of TCPMON: outside a callback, before a blocking socket call,
\* before slot->cb, and before each of the callback's writes of the state.
AtSelect == [at |-> "select", evt |-> "none", len |-> 0, seen |-> "INIT"]
Monitors == [at : {"select", "probe", "call", "connected", "close", "acked"},
             evt : {"none", "except", "connect", "sndbuf",
                    "CONNECTED", "CLOSE", "SENDACKED"},
             len : Nat, seen : TcpState]

\* Every variable keeps its type.
TypeOK ==
  /\ state \in TcpState /\ lastState \in TcpState /\ next \in TcpState
  /\ tcp_fd \in BOOLEAN /\ last_connected_state \in BOOLEAN /\ session_up \in BOOLEAN
  /\ bytesSent \in 0..FrameBytes /\ bytesAcked \in Nat
  /\ batchCount \in 0..MaxBatch /\ inFrame \in 0..MaxBatch
  /\ expired \in BOOLEAN /\ down \in {"anchored", "running", "over"}
  /\ pc \in {"begin", "expire", "overall", "switch", "mark",
             "note", "sent", "acked", "batch", "write"}
  /\ job \in Jobs /\ slot \in Slots /\ mon \in Monitors /\ lag \in 0..MaxLag
  /\ conn \in {"none", "idle", "syn", "established", "dead"}
  /\ inflight \in 0..SndBuf /\ leaked \in 0..SOCKET_POLL_MAX

Init ==
  /\ state = "INIT" /\ lastState = "INIT" /\ next = "INIT"
  /\ tcp_fd = FALSE /\ last_connected_state = FALSE /\ session_up = FALSE
  /\ bytesSent = 0 /\ bytesAcked = 0 /\ batchCount = 0 /\ inFrame = 0
  /\ expired = FALSE /\ down = "anchored"
  /\ pc = "begin" /\ job = NoJob
  /\ slot = NoSlot /\ mon = AtSelect /\ lag = 0
  /\ conn = "none" /\ inflight = 0 /\ leaked = 0

-----------------------------------------------------------------------------
(* TCPCLI: the head of an iteration *)

ResetSendTracking ==
  bytesSent' = 0 /\ bytesAcked' = 0 /\ batchCount' = 0 /\ inFrame' = 0

\* Restart the clock of a state just entered, then look up its timeout.
CliBegin ==
  /\ pc = "begin"
  /\ mon.at = "select" \/ lag < MaxLag
  /\ lag' = IF mon.at = "select" THEN 0 ELSE lag + 1
  /\ lastState' = state
  /\ LET over == expired /\ state = lastState IN
     /\ expired' = over
     /\ pc' = IF over /\ state \in Timed THEN "expire" ELSE "overall"
  /\ UNCHANGED <<state, track, session, down, next, job, socket, mon>>

\* The state the timeout leads to is chosen from the state as it is now, after
\* the log line: TCPMON may have changed it since CliBegin looked the timeout up.
TimeoutTarget(s) == IF s \in {"CLOSED", "RECONNECT_DELAY"} THEN "INIT" ELSE "CLOSED"

CliExpire ==
  /\ pc = "expire"
  /\ ResetSendTracking
  /\ state' = TimeoutTarget(state)
  /\ expired' = FALSE
  /\ pc' = "overall"
  /\ UNCHANGED <<session, lastState, down, next, job, socket, monitor>>

CliOverall ==
  /\ pc = "overall"
  /\ pc' = "switch"
  /\ down' = IF state \in Desired \/ down = "over" THEN "anchored" ELSE down
  /\ IF down = "over" /\ state \notin Desired
     THEN ResetSendTracking /\ state' = "CLOSED"
     ELSE UNCHANGED <<state, track>>
  /\ UNCHANGED <<session, lastState, expired, next, job, socket, monitor>>

-----------------------------------------------------------------------------
(* TCPCLI: the handlers.  Turn(s) ends one; CliWrite then stores s. *)

Turn(s) == pc' = "write" /\ next' = s

At(s) == pc = "switch" /\ state = s /\ UNCHANGED <<state, clocks, monitor>>

\* lwip_getsockerrno may report one of the errors the handlers test for.
SocketFails == ~tcp_fd \/ conn = "dead"

CloseSocket ==
  tcp_fd' = FALSE /\ slot' = NoSlot /\ conn' = "none" /\ inflight' = 0

\* The overall timeout is 5 minutes.  From the moment it is anchored the states
\* up to INIT take 150 s at most (100 + 30 + 20), so it is over only later.
HandleInit ==
  /\ pc = "switch" /\ state = "INIT"
  /\ down' = IF down = "anchored" THEN "running" ELSE down
  /\ Turn("WAIT_NETWORK")
  /\ UNCHANGED <<state, track, session, lastState, expired, job, socket, monitor>>

HandleWaitNetwork ==
  /\ At("WAIT_NETWORK")
  /\ Turn("SOCKET_CREATING") \/ Turn("WAIT_NETWORK")
  /\ UNCHANGED <<track, session, job, socket>>

HandleSocketCreating_NoLimit ==
  /\ pc = "switch" /\ state = "SOCKET_CREATING"
  /\ leaked' = leaked + (IF tcp_fd THEN 1 ELSE 0)
  /\ inflight' = 0 /\ tcp_fd' = TRUE /\ conn' = "idle"
  /\ \E supported \in BOOLEAN : slot' = NewSlot(supported)
  /\ Turn("SOCKET_CREATED")
  /\ UNCHANGED <<state, track, session, clocks, job, monitor>>

\* tcp_fd is overwritten whatever it held.  The callback ignores what TCPMON
\* finds out from here on about a socket that was left open.
HandleSocketCreating ==
  /\ pc = "switch" /\ state = "SOCKET_CREATING"
  /\ IF tcp_fd /\ mon.at \in {"probe", "call"}
     THEN mon' = AtSelect /\ lag' = 0
     ELSE UNCHANGED monitor
  /\ leaked' = leaked + (IF tcp_fd THEN 1 ELSE 0)
  /\ inflight' = 0
  /\ \/ /\ tcp_fd' = FALSE /\ slot' = NoSlot /\ conn' = "none"
        /\ Turn("ERROR")
     \/ /\ leaked' < SOCKET_POLL_MAX
        /\ tcp_fd' = TRUE /\ conn' = "idle"
        /\ \E supported \in BOOLEAN : slot' = NewSlot(supported)
        /\ Turn("SOCKET_CREATED")
  /\ UNCHANGED <<state, track, session, clocks, job>>

\* Without configuration or address the socket is not connected.  Otherwise
\* connect_impl calls lwip_connect and then, in a second step, arms CONNECTED.
HandleSocketCreated ==
  /\ At("SOCKET_CREATED")
  /\ UNCHANGED <<track, session, job, tcp_fd, slot, inflight, leaked>>
  /\ \/ Turn("ERROR") /\ UNCHANGED conn
     \/ /\ conn = "idle" /\ pc' = "mark"
        /\ \/ conn' \in {"syn", "established"} /\ next' = "CONNECTING"
           \/ conn' = "dead" /\ next' \in {"CONNECTING", "ERROR"}

CliMarkConnecting ==
  /\ pc = "mark" /\ pc' = "write"
  /\ slot' = IF slot.open THEN [slot EXCEPT !.err = FALSE, !.pending = TRUE] ELSE slot
  /\ UNCHANGED <<state, track, session, clocks, next, job,
                 tcp_fd, conn, inflight, leaked, monitor>>

HandleConnecting ==
  /\ At("CONNECTING")
  /\ \/ SocketFails /\ Turn("ERROR")
     \/ tcp_fd /\ Turn("CONNECTING")
  /\ UNCHANGED <<track, session, job, socket>>

HandleConnected ==
  /\ At("CONNECTED")
  /\ last_connected_state' = TRUE
  /\ Turn("SENDING_LOGIN")
  /\ UNCHANGED <<track, session_up, job, socket>>

\* tcp_send_data: lwIP accepts some units of the frame, none, or fails.  The
\* rows beyond FrameRows were not combined; those of the rest may be cut off.
TrySend(rows, waiting) ==
  \/ /\ conn = "established"
     /\ \E n \in 1..Smaller(FrameBytes, SndBuf - inflight),
           whole \in 0..Smaller(rows, FrameRows) :
          /\ n = FrameBytes => whole = Smaller(rows, FrameRows)
          /\ job' = [len |-> n, rows |-> rows, whole |-> whole]
          /\ inflight' = inflight + n
     /\ pc' = "note" /\ next' = waiting
     /\ UNCHANGED <<track, tcp_fd, slot, conn, leaked>>
  \/ Turn(state) /\ UNCHANGED <<track, job, socket>>
  \/ ResetSendTracking /\ Turn("ERROR") /\ UNCHANGED <<job, socket>>

\* BUSY also when the login packet cannot be built yet.
HandleSendingLogin ==
  /\ At("SENDING_LOGIN")
  /\ UNCHANGED session
  /\ \/ SocketFails /\ Turn("ERROR") /\ UNCHANGED <<track, job, socket>>
     \/ tcp_fd /\ TrySend(0, "WAIT_ACK_LOGIN")

\* BUSY also when there is no queue, no row or no valid row.
HandleSendingData ==
  /\ At("SENDING_DATA")
  /\ UNCHANGED session
  /\ \/ Turn("SENDING_DATA") /\ UNCHANGED <<track, job, socket>>
     \/ SocketFails /\ Turn("ERROR") /\ UNCHANGED <<track, job, socket>>
     \/ tcp_fd /\ \E rows \in 1..MaxBatch : TrySend(rows, "WAIT_ACK_DATA")

\* The rest of tcp_send_data and of the handler that called it.
CliNoteSent ==
  /\ pc = "note" /\ pc' = "sent"
  /\ slot' = IF ~slot.open THEN slot
             ELSE IF slot.sndbuf
             THEN [slot EXCEPT !.pending = FALSE, !.unacked = @ + job.len,
                     !.last = IF inflight < SndBuf THEN SndBuf - inflight
                                                   ELSE SndBuf - job.len]
             ELSE [slot EXCEPT !.pending = FALSE, !.synth = @ + job.len]
  /\ UNCHANGED <<state, track, session, clocks, next, job,
                 tcp_fd, conn, inflight, leaked, monitor>>

CliRecordSent ==
  /\ pc = "sent" /\ pc' = "acked"
  /\ bytesSent' = job.len
  /\ UNCHANGED <<state, bytesAcked, batchCount, inFrame, session, clocks,
                 next, job, socket, monitor>>

CliZeroAcked ==
  /\ pc = "acked" /\ pc' = IF job.rows > 0 THEN "batch" ELSE "write"
  /\ bytesAcked' = 0
  /\ UNCHANGED <<state, bytesSent, batchCount, inFrame, session, clocks,
                 next, job, socket, monitor>>

CliRecordBatch ==
  /\ pc = "batch" /\ pc' = "write"
  /\ batchCount' = job.rows /\ inFrame' = job.whole
  /\ UNCHANGED <<state, bytesSent, bytesAcked, session, clocks,
                 next, job, socket, monitor>>

AckComplete_Partial == bytesSent > 0 /\ bytesAcked > 0

AckComplete == bytesSent > 0 /\ bytesAcked >= bytesSent

HandleWaitAck(waiting) ==
  /\ At(waiting)
  /\ \/ AckComplete /\ Turn("ACK_RECEIVED") /\ UNCHANGED track
     \/ /\ ~AckComplete /\ (SocketFails \/ bytesSent = 0)
        /\ ResetSendTracking /\ Turn("ERROR")
     \/ ~AckComplete /\ tcp_fd /\ bytesSent > 0 /\ Turn(waiting) /\ UNCHANGED track
  /\ UNCHANGED <<session, job, socket>>

\* Pops batchCount rows of the queue.
HandleAckReceived ==
  /\ At("ACK_RECEIVED")
  /\ ResetSendTracking
  /\ session_up' = TRUE
  /\ Turn("SENDING_DATA")
  /\ UNCHANGED <<last_connected_state, job, socket>>

HandleClosed_SessionStaysUp ==
  /\ At("CLOSED")
  /\ ResetSendTracking
  /\ last_connected_state' = FALSE
  /\ CloseSocket
  /\ Turn("RECONNECT_DELAY")
  /\ UNCHANGED <<session_up, job, leaked>>

HandleClosed ==
  /\ At("CLOSED")
  /\ ResetSendTracking
  /\ last_connected_state' = FALSE /\ session_up' = FALSE
  /\ CloseSocket
  /\ Turn("RECONNECT_DELAY")
  /\ UNCHANGED <<job, leaked>>

HandleError ==
  /\ At("ERROR")
  /\ CloseSocket
  /\ ResetSendTracking
  /\ Turn("CLOSED")
  /\ UNCHANGED <<session, job, leaked>>

HandleReconnectDelay ==
  /\ At("RECONNECT_DELAY")
  /\ Turn("INIT") \/ Turn("RECONNECT_DELAY")
  /\ UNCHANGED <<track, session, job, socket>>

\* HANDLE_STATE stores its target over whatever the callback has stored.
CliWrite ==
  /\ pc = "write" /\ pc' = "begin"
  /\ state' = next
  /\ next' = "INIT" /\ job' = NoJob
  /\ UNCHANGED <<track, session, clocks, socket, monitor>>

Handler ==
  \/ HandleInit \/ HandleWaitNetwork \/ HandleSocketCreating \/ HandleSocketCreated
  \/ HandleConnecting \/ HandleConnected \/ HandleSendingLogin \/ HandleSendingData
  \/ \E w \in WaitAck : HandleWaitAck(w)
  \/ HandleAckReceived \/ HandleClosed \/ HandleError \/ HandleReconnectDelay

TCPCLI ==
  \/ CliBegin \/ CliExpire \/ CliOverall \/ Handler
  \/ CliMarkConnecting \/ CliNoteSent \/ CliRecordSent \/ CliZeroAcked \/ CliRecordBatch
  \/ CliWrite

-----------------------------------------------------------------------------
(* TCPMON *)

ClientUnchanged ==
  UNCHANGED <<session, clocks, pc, next, job, tcp_fd, conn, inflight, leaked>>

Carry(at, evt, len) == [AtSelect EXCEPT !.at = at, !.evt = evt, !.len = len]

\* mon goes to m; the lag is counted only inside a callback.
Proceed(m) == mon' = m /\ lag' = IF m.at = "select" THEN 0 ELSE lag

\* An acknowledgement synthesized for a socket without SO_SNDBUF.
MonSynthAck ==
  /\ mon.at = "select" /\ slot.open /\ slot.synth > 0
  /\ slot' = [slot EXCEPT !.synth = 0]
  /\ Proceed(Carry("call", "SENDACKED", slot.synth))
  /\ UNCHANGED <<state, track>> /\ ClientUnchanged

\* socket_poll_service_slot up to its first call into lwIP.
MonService ==
  /\ mon.at = "select" /\ slot.open
  /\ \E what \in {"except", "connect", "sndbuf"} :
       /\ what = "except" => ~slot.err
       /\ what = "connect" => slot.pending
       /\ what = "sndbuf" => ~slot.pending /\ slot.sndbuf /\ slot.unacked > 0
       /\ Proceed(Carry("probe", what, 0))
  /\ UNCHANGED <<state, track, slot>> /\ ClientUnchanged

\* An exception counts only with a SO_ERROR; either way it is looked at once.
MonExcept ==
  /\ mon.at = "probe" /\ mon.evt = "except"
  /\ slot' = [slot EXCEPT !.err = slot.open]
  /\ \/ conn = "dead" /\ Proceed(Carry("call", "CLOSE", 0))
     \/ Proceed(AtSelect)
  /\ UNCHANGED <<state, track>> /\ ClientUnchanged

MonConnect_LevelTriggered ==
  /\ mon.at = "probe" /\ mon.evt = "connect"
  /\ Proceed(IF conn = "established" THEN Carry("call", "CONNECTED", 0) ELSE AtSelect)
  /\ UNCHANGED <<state, track, slot>> /\ ClientUnchanged

\* SO_ERROR, then getpeername, which succeeds only on a completed handshake.
MonConnect ==
  /\ mon.at = "probe" /\ mon.evt = "connect"
  /\ \/ /\ conn = "dead" /\ slot' = [slot EXCEPT !.pending = FALSE]
        /\ Proceed(Carry("call", "CLOSE", 0))
     \/ /\ conn = "established" /\ slot' = [slot EXCEPT !.pending = FALSE]
        /\ Proceed(Carry("call", "CONNECTED", 0))
     \/ /\ conn # "established" /\ UNCHANGED slot
        /\ Proceed(AtSelect)
  /\ UNCHANGED <<state, track>> /\ ClientUnchanged

\* sndbuf_avail: -1 when the call fails, and when nothing is free.
Available == IF conn = "none" \/ inflight = SndBuf THEN -1 ELSE SndBuf - inflight

\* What the drain of the send buffer acknowledges: its growth, or, when it is
\* empty and has not grown, everything still counted as unacknowledged.
DrainAcks ==
  IF Available > slot.last THEN Smaller(Available - slot.last, slot.unacked)
  ELSE IF Available = SndBuf THEN slot.unacked ELSE 0

MonSndbuf_KeepsLast ==
  /\ mon.at = "probe" /\ mon.evt = "sndbuf"
  /\ IF slot.open /\ (Available > slot.last \/ Available = SndBuf)
     THEN /\ slot' = [slot EXCEPT !.unacked = @ - DrainAcks]
          /\ Proceed(Carry("call", "SENDACKED", DrainAcks))
     ELSE UNCHANGED slot /\ Proceed(AtSelect)
  /\ UNCHANGED <<state, track>> /\ ClientUnchanged

MonSndbuf ==
  /\ mon.at = "probe" /\ mon.evt = "sndbuf"
  /\ IF slot.open /\ (Available > slot.last \/ Available = SndBuf)
     THEN /\ slot' = [slot EXCEPT !.last = Available, !.unacked = @ - DrainAcks]
          /\ Proceed(Carry("call", "SENDACKED", DrainAcks))
     ELSE UNCHANGED slot /\ Proceed(AtSelect)
  /\ UNCHANGED <<state, track>> /\ ClientUnchanged

\* slot->cb(...): the callback ignores a socket that is not tcp_fd and the
\* state CLOSED.  The callback of a released slot is a null pointer.
CallbackIgnores(s) == ~tcp_fd \/ s = "CLOSED"

MonCallConnected ==
  /\ mon.at = "call" /\ mon.evt = "CONNECTED" /\ slot.open
  /\ IF CallbackIgnores(state) \/ state = "CONNECTED"
     THEN Proceed(AtSelect)
     ELSE Proceed([AtSelect EXCEPT !.at = "connected"])
  /\ UNCHANGED <<state, track, slot>> /\ ClientUnchanged

MonCallClose ==
  /\ mon.at = "call" /\ mon.evt = "CLOSE" /\ slot.open
  /\ IF CallbackIgnores(state)
     THEN Proceed(AtSelect)
     ELSE Proceed([AtSelect EXCEPT !.at = "close", !.seen = state])
  /\ UNCHANGED <<state, track, slot>> /\ ClientUnchanged

MonCallSendAcked ==
  /\ mon.at = "call" /\ mon.evt = "SENDACKED" /\ slot.open
  /\ IF CallbackIgnores(state) \/ bytesSent = 0
     THEN UNCHANGED bytesAcked /\ Proceed(AtSelect)
     ELSE /\ bytesAcked' = bytesAcked + mon.len
          /\ IF bytesAcked' >= bytesSent /\ state \in WaitAck
             THEN Proceed([AtSelect EXCEPT !.at = "acked"])
             ELSE Proceed(AtSelect)
  /\ UNCHANGED <<state, bytesSent, batchCount, inFrame, slot>> /\ ClientUnchanged

\* The callback's SET_STATE, a log line after the state was read.
MonSetConnected ==
  /\ mon.at = "connected"
  /\ state' = "CONNECTED"
  /\ Proceed(AtSelect)
  /\ UNCHANGED <<track, slot>> /\ ClientUnchanged

MonSetClosed ==
  /\ mon.at = "close"
  /\ IF mon.seen \in SendStates THEN ResetSendTracking ELSE UNCHANGED track
  /\ state' = "CLOSED"
  /\ Proceed(AtSelect)
  /\ UNCHANGED slot /\ ClientUnchanged

MonSetAckReceived ==
  /\ mon.at = "acked"
  /\ state' = "ACK_RECEIVED"
  /\ Proceed(AtSelect)
  /\ UNCHANGED <<track, slot>> /\ ClientUnchanged

\* The null callback is called: the device faults and its watchdog restarts it.
NullCallback == mon.at = "call" /\ ~slot.open

Restart ==
  /\ NullCallback
  /\ state' = "INIT" /\ lastState' = "INIT" /\ next' = "INIT"
  /\ last_connected_state' = FALSE /\ session_up' = FALSE
  /\ ResetSendTracking /\ CloseSocket /\ leaked' = 0
  /\ expired' = FALSE /\ down' = "anchored"
  /\ pc' = "begin" /\ job' = NoJob
  /\ mon' = AtSelect /\ lag' = 0

TCPMON ==
  \/ MonSynthAck \/ MonService \/ MonExcept \/ MonConnect \/ MonSndbuf
  \/ MonCallConnected \/ MonCallClose \/ MonCallSendAcked
  \/ MonSetConnected \/ MonSetClosed \/ MonSetAckReceived

-----------------------------------------------------------------------------
(* Time, lwIP and the peer *)

OthersUnchanged == UNCHANGED <<state, track, session, lastState, pc, next, job,
                               tcp_fd, slot, leaked, monitor>>

StateTimePasses ==
  /\ ~expired /\ expired' = TRUE
  /\ UNCHANGED <<down, conn, inflight>> /\ OthersUnchanged

DownTimePasses ==
  /\ down = "running" /\ down' = "over"
  /\ UNCHANGED <<expired, conn, inflight>> /\ OthersUnchanged

Handshake ==
  /\ conn = "syn" /\ conn' = "established"
  /\ UNCHANGED <<expired, down, inflight>> /\ OthersUnchanged

PeerAcks ==
  /\ conn = "established" /\ inflight > 0
  /\ inflight' = inflight - 1
  /\ UNCHANGED <<expired, down, conn>> /\ OthersUnchanged

ConnectionDies ==
  /\ conn \in {"syn", "established"} /\ conn' = "dead"
  /\ UNCHANGED <<expired, down, inflight>> /\ OthersUnchanged

Environment ==
  StateTimePasses \/ DownTimePasses \/ Handshake \/ PeerAcks \/ ConnectionDies

Next ==
  \/ ~NullCallback /\ (TCPCLI \/ TCPMON \/ Environment)
  \/ Restart

Spec == Init /\ [][Next]_vars

\* Both tasks run and time passes; nothing is asked of the network or the peer.
Fairness ==
  /\ WF_vars(~NullCallback /\ TCPCLI)
  /\ WF_vars((~NullCallback /\ TCPMON) \/ Restart)
  /\ WF_vars(StateTimePasses)

FairSpec == Spec /\ Fairness
-----------------------------------------------------------------------------
(* Properties *)

\* The rows of a batch are popped only when the peer has acknowledged every
\* byte of it lwIP accepted, on the socket it was sent on (tcp_ops.c:507).
PopOnlyAcked ==
  (pc = "switch" /\ state = "ACK_RECEIVED" /\ batchCount > 0) =>
    tcp_fd /\ (slot.sndbuf => inflight = 0)

\* A frame is handed to lwIP only when no byte of an earlier one is in flight:
\* one tcp_bytes_sent can then account for every acknowledgement.
OneFrameInFlight ==
  (pc = "switch" /\ tcp_fd /\ state \in {"SENDING_LOGIN", "SENDING_DATA"}) =>
    (slot.sndbuf => inflight = 0) /\ slot.synth = 0

\* The monitor never reports a byte the peer has not acknowledged, although it
\* only compares readings of the free send buffer (socket_poll.c:230-252).
DrainIsAcknowledged ==
  (slot.sndbuf /\ pc # "note") => inflight <= slot.unacked

\* While a socket is open, the modules that follow EVENT_TCP_CONNECTED have been
\* told so before the session is up or a frame is sent (tcp_ops.c:393, 638).
AnnouncedWhileOpen ==
  (tcp_fd /\ (session_up \/ state \in SendStates)) => last_connected_state

\* Whatever the network, the peer and the other task do, the client keeps
\* delivering or starting over: no state holds it for ever (tcp.c:352).  It does
\* not say that no socket is lost: then a restart of the device is the start over.
KeepsTrying == []<>(state \in {"WAIT_NETWORK", "ACK_RECEIVED"})

\* Every row of a popped batch was in the frame (tcp_ops.c:506-507).
PoppedRowsDelivered ==
  (pc = "switch" /\ state = "ACK_RECEIVED") => inFrame = batchCount
=============================================================================
