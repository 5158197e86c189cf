--------------------------- MODULE TcpClientProofs ---------------------------
(***************************************************************************)
(* Proofs about TcpClient, for every size of the send buffer, of a frame   *)
(* and of a batch and every number of slots.  The first part holds for     *)
(* every relative speed of the two tasks, the second for MaxLag <= 1.      *)
(***************************************************************************)
EXTENDS TcpClient, TLAPS

\* The slots of the monitor are enough for the sockets that are open.
SocketsCounted == leaked + (IF tcp_fd THEN 1 ELSE 0) <= SOCKET_POLL_MAX

\* What the monitor counts as unacknowledged covers what is in flight, and so
\* does what it has counted together with its last reading of the free buffer.
\* Between lwip_send and note_sent the frame is not counted yet.
Uncounted == IF pc = "note" THEN job.len ELSE 0

DrainCovered ==
  slot.sndbuf =>
    /\ slot.open
    /\ inflight <= slot.unacked + Uncounted
    /\ SndBuf <= slot.unacked + slot.last

ClientInv == TypeOK /\ SocketsCounted /\ DrainCovered

-----------------------------------------------------------------------------
(* Parts of several actions *)

LEMMA Sizes == /\ SndBuf \in Nat /\ SndBuf > 0 /\ FrameBytes \in Nat /\ FrameBytes > 0
               /\ FrameBytes <= SndBuf /\ MaxBatch \in Nat /\ MaxBatch > 0
               /\ FrameRows \in Nat /\ SOCKET_POLL_MAX \in Nat /\ SOCKET_POLL_MAX > 0
               /\ MaxLag \in Nat
  BY ConstantsAssumption

\* A slot is released or taken whole (socket_poll.c:390-396, 412).
LEMMA SlotTypes ==
  /\ NoSlot \in Slots /\ ~NoSlot.sndbuf
  /\ \A supported \in BOOLEAN :
       /\ NewSlot(supported) \in Slots
       /\ NewSlot(supported).sndbuf =>
            /\ NewSlot(supported).open /\ NewSlot(supported).unacked = 0
            /\ NewSlot(supported).last = SndBuf
<1>1. NoSlot \in Slots /\ ~NoSlot.sndbuf
  BY Sizes DEF NoSlot, Slots
<1>2. ASSUME NEW supported \in BOOLEAN
      PROVE  /\ NewSlot(supported) \in Slots
             /\ NewSlot(supported).sndbuf =>
                  /\ NewSlot(supported).open /\ NewSlot(supported).unacked = 0
                  /\ NewSlot(supported).last = SndBuf
  BY Sizes DEF NewSlot, Slots
<1> QED
  BY <1>1, <1>2

LEMMA MonitorTypes ==
  /\ AtSelect \in Monitors
  /\ \A at \in {"probe", "call"}, n \in Nat,
        evt \in {"except", "connect", "sndbuf", "CONNECTED", "CLOSE", "SENDACKED"} :
       Carry(at, evt, n) \in Monitors
  /\ \A at \in {"connected", "acked"} : [AtSelect EXCEPT !.at = at] \in Monitors
  /\ \A s \in TcpState : [AtSelect EXCEPT !.at = "close", !.seen = s] \in Monitors
  BY DEF AtSelect, Carry, Monitors, TcpState

\* A step after which TCPCLI is not between lwip_send and note_sent, with the
\* slot and lwIP's buffer as they were, keeps DrainCovered.
LEMMA DrainUntouched ==
  ASSUME DrainCovered, UNCHANGED <<slot, inflight>>,
         pc # "note" \/ UNCHANGED <<pc, job>>, pc # "note" => pc' # "note"
  PROVE  DrainCovered'
  BY DEF DrainCovered, Uncounted

-----------------------------------------------------------------------------
(* Types *)

LEMMA HandlerTypes ==
  ASSUME TypeOK, SocketsCounted, Handler
  PROVE  TypeOK'
<1> USE Sizes DEF TypeOK, At, Turn, TcpState, track, session, clocks, socket, monitor
<1>1. CASE HandleInit
  BY <1>1 DEF HandleInit
<1>2. CASE HandleWaitNetwork
  BY <1>2 DEF HandleWaitNetwork
<1>3. CASE HandleSocketCreating
  <2>1. leaked' \in 0..SOCKET_POLL_MAX
    BY <1>3 DEF HandleSocketCreating, SocketsCounted
  <2>2. mon' \in Monitors /\ lag' \in 0..MaxLag
    BY <1>3, MonitorTypes DEF HandleSocketCreating
  <2>3. slot' \in Slots
    BY <1>3, SlotTypes DEF HandleSocketCreating
  <2>4. tcp_fd' \in BOOLEAN
    BY <1>3 DEF HandleSocketCreating
  <2> QED
    BY <1>3, <2>1, <2>2, <2>3, <2>4 DEF HandleSocketCreating
<1>4. CASE HandleSocketCreated
  BY <1>4 DEF HandleSocketCreated
<1>5. CASE HandleConnecting
  BY <1>5 DEF HandleConnecting
<1>6. CASE HandleConnected
  BY <1>6 DEF HandleConnected
<1>7. ASSUME NEW rows \in 0..MaxBatch, NEW waiting \in WaitAck, At(state),
             UNCHANGED session, TrySend(rows, waiting)
      PROVE  TypeOK'
  <2>1. CASE ResetSendTracking /\ Turn("ERROR") /\ UNCHANGED <<job, socket>>
    BY <1>7, <2>1 DEF ResetSendTracking
  <2>2. CASE Turn(state) /\ UNCHANGED <<track, job, socket>>
    BY <1>7, <2>2
  <2>3. ASSUME NEW n \in 1..Smaller(FrameBytes, SndBuf - inflight),
               NEW whole \in 0..Smaller(rows, FrameRows),
               job' = [len |-> n, rows |-> rows, whole |-> whole],
               inflight' = inflight + n,
               pc' = "note", next' = waiting,
               UNCHANGED <<track, tcp_fd, slot, conn, leaked>>
        PROVE  TypeOK'
    <3>1. n \in 0..FrameBytes /\ whole \in 0..MaxBatch /\ inflight + n \in 0..SndBuf
      BY DEF Smaller
    <3>2. job' \in Jobs
      BY <2>3, <3>1 DEF Jobs
    <3> QED
      BY <1>7, <2>3, <3>1, <3>2 DEF WaitAck
  <2> QED
    BY <1>7, <2>1, <2>2, <2>3 DEF TrySend
<1>8. CASE HandleSendingLogin
  BY <1>7, <1>8 DEF HandleSendingLogin, WaitAck
<1>9. CASE HandleSendingData
  BY <1>7, <1>9 DEF HandleSendingData, WaitAck
<1>10. ASSUME NEW w \in WaitAck, HandleWaitAck(w)
       PROVE  TypeOK'
  BY <1>10 DEF HandleWaitAck, WaitAck, ResetSendTracking
<1>11. CASE HandleAckReceived
  BY <1>11 DEF HandleAckReceived, ResetSendTracking
<1>12. CASE HandleClosed
  <2>1. slot' \in Slots
    BY <1>12, SlotTypes DEF HandleClosed, CloseSocket
  <2>2. tcp_fd' \in BOOLEAN /\ session_up' \in BOOLEAN /\ last_connected_state' \in BOOLEAN
    BY <1>12 DEF HandleClosed, CloseSocket
  <2> QED
    BY <1>12, <2>1, <2>2 DEF HandleClosed, ResetSendTracking, CloseSocket
<1>13. CASE HandleError
  <2>1. slot' \in Slots
    BY <1>13, SlotTypes DEF HandleError, CloseSocket
  <2>2. tcp_fd' \in BOOLEAN
    BY <1>13 DEF HandleError, CloseSocket
  <2> QED
    BY <1>13, <2>1, <2>2 DEF HandleError, ResetSendTracking, CloseSocket
<1>14. CASE HandleReconnectDelay
  BY <1>14 DEF HandleReconnectDelay
<1> QED
  BY <1>1, <1>2, <1>3, <1>4, <1>5, <1>6, <1>8, <1>9, <1>10, <1>11, <1>12, <1>13,
     <1>14 DEF Handler

LEMMA ClientTypes ==
  ASSUME TypeOK, SocketsCounted, TCPCLI
  PROVE  TypeOK'
<1> USE Sizes DEF TypeOK, track, session, clocks, socket, monitor
<1>1. CASE CliBegin
  BY <1>1 DEF CliBegin
<1>2. CASE CliExpire
  <2>1. expired' \in BOOLEAN
    BY <1>2 DEF CliExpire
  <2> QED
    BY <1>2, <2>1 DEF CliExpire, ResetSendTracking, TimeoutTarget, TcpState
<1>3. CASE CliOverall
  BY <1>3 DEF CliOverall, ResetSendTracking, TcpState
<1>4. CASE Handler
  BY <1>4, HandlerTypes
<1>5. CASE CliMarkConnecting
  <2>1. slot' \in Slots
    BY <1>5 DEF CliMarkConnecting, Slots
  <2> QED
    BY <1>5, <2>1 DEF CliMarkConnecting
<1>6. CASE CliNoteSent
  <2>1. job.len \in 0..FrameBytes
    BY DEF Jobs
  <2>2. slot' \in Slots
    <3> DEFINE last == IF inflight < SndBuf THEN SndBuf - inflight ELSE SndBuf - job.len
    <3>1. last \in -1..SndBuf /\ slot.unacked + job.len \in Nat /\ slot.synth + job.len \in Nat
      BY <2>1 DEF Slots
    <3>2. CASE slot.open /\ slot.sndbuf
      <4>1. slot' = [slot EXCEPT !.pending = FALSE, !.unacked = slot.unacked + job.len,
                                 !.last = last]
        BY <1>6, <3>2 DEF CliNoteSent
      <4> HIDE DEF last
      <4> QED
        BY <3>1, <4>1 DEF Slots
    <3>3. CASE slot.open /\ ~slot.sndbuf
      <4>1. slot' = [slot EXCEPT !.pending = FALSE, !.synth = slot.synth + job.len]
        BY <1>6, <3>3 DEF CliNoteSent
      <4> QED
        BY <3>1, <4>1 DEF Slots
    <3>4. CASE ~slot.open
      BY <1>6, <3>4 DEF CliNoteSent
    <3> QED
      BY <3>2, <3>3, <3>4
  <2> QED
    BY <1>6, <2>2 DEF CliNoteSent
<1>7. CASE CliRecordSent
  BY <1>7 DEF CliRecordSent, Jobs
<1>8. CASE CliZeroAcked
  BY <1>8 DEF CliZeroAcked
<1>9. CASE CliRecordBatch
  BY <1>9 DEF CliRecordBatch, Jobs
<1>10. CASE CliWrite
  <2>1. NoJob \in Jobs
    BY DEF NoJob, Jobs
  <2> QED
    BY <1>10, <2>1 DEF CliWrite, TcpState
<1> QED
  BY <1>1, <1>2, <1>3, <1>4, <1>5, <1>6, <1>7, <1>8, <1>9, <1>10 DEF TCPCLI

LEMMA MonitorStepTypes ==
  ASSUME TypeOK, TCPMON
  PROVE  TypeOK'
<1> USE Sizes DEF TypeOK, ClientUnchanged, track, session, clocks
<1>a. ASSUME NEW m \in Monitors, Proceed(m)
      PROVE  mon' \in Monitors /\ lag' \in 0..MaxLag
  BY <1>a DEF Proceed
<1>1. CASE MonSynthAck
  <2>1. slot' \in Slots /\ slot.synth \in Nat
    BY <1>1 DEF MonSynthAck, Slots
  <2>2. mon' \in Monitors /\ lag' \in 0..MaxLag
    BY <1>1, <1>a, <2>1, MonitorTypes DEF MonSynthAck
  <2> QED
    BY <1>1, <2>1, <2>2 DEF MonSynthAck
<1>2. CASE MonService
  <2>1. mon' \in Monitors /\ lag' \in 0..MaxLag
    BY <1>2, <1>a, MonitorTypes DEF MonService
  <2> QED
    BY <1>2, <2>1 DEF MonService
<1>3. CASE MonExcept
  <2>1. slot' \in Slots
    BY <1>3 DEF MonExcept, Slots
  <2>2. mon' \in Monitors /\ lag' \in 0..MaxLag
    BY <1>3, <1>a, MonitorTypes DEF MonExcept
  <2> QED
    BY <1>3, <2>1, <2>2 DEF MonExcept
<1>4. CASE MonConnect
  <2>1. slot' \in Slots
    BY <1>4 DEF MonConnect, Slots
  <2>2. mon' \in Monitors /\ lag' \in 0..MaxLag
    BY <1>4, <1>a, MonitorTypes DEF MonConnect
  <2> QED
    BY <1>4, <2>1, <2>2 DEF MonConnect
<1>5. CASE MonSndbuf
  <2>1. /\ Available \in -1..SndBuf
        /\ DrainAcks \in Nat /\ slot.unacked - DrainAcks \in Nat
    BY DEF Available, DrainAcks, Smaller, Slots
  <2>2. slot' \in Slots
    <3>1. slot' \in {slot, [slot EXCEPT !.last = Available,
                                        !.unacked = slot.unacked - DrainAcks]}
      BY <1>5 DEF MonSndbuf
    <3> QED
      BY <2>1, <3>1 DEF Slots
  <2>3. mon' \in Monitors /\ lag' \in 0..MaxLag
    BY <1>5, <1>a, <2>1, MonitorTypes DEF MonSndbuf
  <2> QED
    BY <1>5, <2>2, <2>3 DEF MonSndbuf
<1>6. CASE MonCallConnected
  <2>1. mon' \in Monitors /\ lag' \in 0..MaxLag
    BY <1>6, <1>a, MonitorTypes DEF MonCallConnected
  <2> QED
    BY <1>6, <2>1 DEF MonCallConnected
<1>7. CASE MonCallClose
  <2>1. mon' \in Monitors /\ lag' \in 0..MaxLag
    BY <1>7, <1>a, MonitorTypes DEF MonCallClose
  <2> QED
    BY <1>7, <2>1 DEF MonCallClose
<1>8. CASE MonCallSendAcked
  <2>1. mon' \in Monitors /\ lag' \in 0..MaxLag
    BY <1>8, <1>a, MonitorTypes DEF MonCallSendAcked
  <2>2. bytesAcked' \in Nat
    BY <1>8 DEF MonCallSendAcked, Monitors
  <2> QED
    BY <1>8, <2>1, <2>2 DEF MonCallSendAcked
<1>9. CASE MonSetConnected \/ MonSetAckReceived
  <2>1. mon' \in Monitors /\ lag' \in 0..MaxLag
    BY <1>9, <1>a, MonitorTypes DEF MonSetConnected, MonSetAckReceived
  <2> QED
    BY <1>9, <2>1 DEF MonSetConnected, MonSetAckReceived, TcpState
<1>10. CASE MonSetClosed
  <2>1. mon' \in Monitors /\ lag' \in 0..MaxLag
    BY <1>10, <1>a, MonitorTypes DEF MonSetClosed
  <2> QED
    BY <1>10, <2>1 DEF MonSetClosed, ResetSendTracking, TcpState
<1> QED
  BY <1>1, <1>2, <1>3, <1>4, <1>5, <1>6, <1>7, <1>8, <1>9, <1>10 DEF TCPMON

LEMMA InitTypes == Init => TypeOK
<1> SUFFICES ASSUME Init PROVE TypeOK
  OBVIOUS
<1>1. /\ tcp_fd \in BOOLEAN /\ last_connected_state \in BOOLEAN
      /\ session_up \in BOOLEAN /\ expired \in BOOLEAN
  BY DEF Init
<1>2. NoJob \in Jobs
  BY Sizes DEF NoJob, Jobs
<1>3. slot \in Slots /\ mon \in Monitors
  BY SlotTypes, MonitorTypes DEF Init
<1> QED
  BY <1>1, <1>2, <1>3, Sizes DEF Init, TypeOK, TcpState

LEMMA TypeStep ==
  ASSUME TypeOK, SocketsCounted, [Next]_vars
  PROVE  TypeOK'
<1>1. CASE TCPCLI
  BY <1>1, ClientTypes
<1>2. CASE TCPMON
  BY <1>2, MonitorStepTypes
<1>3. CASE Environment
  <2> USE DEF OthersUnchanged, TypeOK, track, session, monitor
  <2>1. CASE StateTimePasses
    <3>1. expired' \in BOOLEAN
      BY <2>1 DEF StateTimePasses
    <3> QED
      BY <2>1, <3>1 DEF StateTimePasses
  <2>2. CASE DownTimePasses
    BY <2>2 DEF DownTimePasses
  <2>3. CASE Handshake \/ ConnectionDies
    BY <2>3 DEF Handshake, ConnectionDies
  <2>4. CASE PeerAcks
    BY <2>4, Sizes DEF PeerAcks
  <2> QED
    BY <1>3, <2>1, <2>2, <2>3, <2>4 DEF Environment
<1>4. CASE Restart
  <2>1. /\ tcp_fd' \in BOOLEAN /\ last_connected_state' \in BOOLEAN
        /\ session_up' \in BOOLEAN /\ expired' \in BOOLEAN
    BY <1>4 DEF Restart, CloseSocket
  <2>2. NoJob \in Jobs
    BY Sizes DEF NoJob, Jobs
  <2>3. slot' \in Slots /\ mon' \in Monitors
    BY <1>4, SlotTypes, MonitorTypes DEF Restart, CloseSocket
  <2> QED
    BY <1>4, <2>1, <2>2, <2>3, Sizes DEF Restart, ResetSendTracking, CloseSocket, TypeOK, TcpState
<1>5. CASE UNCHANGED vars
  BY <1>5 DEF vars, track, session, clocks, socket, monitor, TypeOK
<1> QED
  BY <1>1, <1>2, <1>3, <1>4, <1>5 DEF Next

-----------------------------------------------------------------------------
(* Sockets and slots *)

LEMMA SocketsStep ==
  ASSUME TypeOK, SocketsCounted, [Next]_vars
  PROVE  SocketsCounted'
<1> USE Sizes DEF SocketsCounted, TypeOK
<1>1. CASE UNCHANGED <<tcp_fd, leaked>>
  BY <1>1
<1>2. CASE HandleSocketCreating
  BY <1>2 DEF HandleSocketCreating
<1>3. CASE HandleClosed \/ HandleError
  BY <1>3 DEF HandleClosed, HandleError, CloseSocket
<1>4. CASE Restart
  BY <1>4 DEF Restart, CloseSocket
<1>5. ASSUME TCPCLI, ~HandleSocketCreating, ~HandleClosed, ~HandleError
      PROVE  UNCHANGED <<tcp_fd, leaked>>
  BY <1>5 DEF TCPCLI, Handler, CliBegin, CliExpire, CliOverall, HandleInit, HandleWaitNetwork,
     HandleSocketCreated, HandleConnecting, HandleConnected, HandleSendingLogin,
     HandleSendingData, TrySend, HandleWaitAck, HandleAckReceived, HandleReconnectDelay,
     CliMarkConnecting, CliNoteSent, CliRecordSent, CliZeroAcked, CliRecordBatch, CliWrite,
     socket
<1>6. ASSUME TCPMON PROVE UNCHANGED <<tcp_fd, leaked>>
  BY <1>6 DEF TCPMON, MonSynthAck, MonService, MonExcept, MonConnect, MonSndbuf,
     MonCallConnected, MonCallClose, MonCallSendAcked, MonSetConnected, MonSetClosed,
     MonSetAckReceived, ClientUnchanged
<1>7. ASSUME Environment PROVE UNCHANGED <<tcp_fd, leaked>>
  BY <1>7 DEF Environment, StateTimePasses, DownTimePasses, Handshake, PeerAcks,
     ConnectionDies, OthersUnchanged
<1> QED
  BY <1>1, <1>2, <1>3, <1>4, <1>5, <1>6, <1>7 DEF Next, vars, socket

-----------------------------------------------------------------------------
(* The accounting of acknowledgements *)

LEMMA DrainStep ==
  ASSUME TypeOK, DrainCovered, [Next]_vars
  PROVE  DrainCovered'
<1> USE Sizes
<1>0. /\ slot.unacked \in Nat /\ slot.last \in -1..SndBuf /\ job.len \in 0..FrameBytes
      /\ inflight \in 0..SndBuf
  BY DEF TypeOK, Slots, Jobs
<1>1. CASE HandleSocketCreating
  <2>1. slot' = NoSlot \/ \E supported \in BOOLEAN : slot' = NewSlot(supported)
    BY <1>1 DEF HandleSocketCreating
  <2>2. inflight' = 0 /\ pc' = "write"
    BY <1>1 DEF HandleSocketCreating, Turn
  <2> QED
    BY <2>1, <2>2, SlotTypes DEF DrainCovered, Uncounted
<1>2. CASE HandleClosed \/ HandleError \/ Restart
  BY <1>2, SlotTypes DEF HandleClosed, HandleError, Restart, CloseSocket, DrainCovered
<1>3. ASSUME NEW rows, NEW waiting, pc = "switch", TrySend(rows, waiting)
      PROVE  DrainCovered'
  <2>1. CASE UNCHANGED socket /\ pc' = "write"
    BY <1>3, <2>1, DrainUntouched DEF socket
  <2>2. ASSUME NEW n \in 1..Smaller(FrameBytes, SndBuf - inflight), NEW whole,
               job' = [len |-> n, rows |-> rows, whole |-> whole],
               inflight' = inflight + n, pc' = "note", UNCHANGED slot
        PROVE  DrainCovered'
    <3>1. job'.len = n /\ n \in Nat
      BY <1>0, <2>2 DEF Smaller
    <3> QED
      BY <1>0, <1>3, <2>2, <3>1 DEF DrainCovered, Uncounted
  <2> QED
    BY <1>3, <2>1, <2>2 DEF TrySend, Turn
<1>4. CASE HandleSendingLogin \/ HandleSendingData
  <2>1. ASSUME pc' = "write", UNCHANGED socket, pc = "switch"
        PROVE  DrainCovered'
    BY <2>1, DrainUntouched DEF socket
  <2> QED
    BY <1>3, <1>4, <2>1 DEF HandleSendingLogin, HandleSendingData, At, Turn
<1>5. CASE CliNoteSent
  <2>1. CASE slot.open /\ slot.sndbuf
    <3>1. /\ slot'.sndbuf = slot.sndbuf /\ slot'.open = slot.open
          /\ slot'.unacked = slot.unacked + job.len
          /\ slot'.last = IF inflight < SndBuf THEN SndBuf - inflight ELSE SndBuf - job.len
      BY <1>5, <2>1 DEF CliNoteSent, TypeOK, Slots
    <3>2. pc = "note" /\ pc' = "sent" /\ UNCHANGED inflight
      BY <1>5 DEF CliNoteSent
    <3> QED
      BY <1>0, <2>1, <3>1, <3>2 DEF DrainCovered, Uncounted
  <2>2. CASE ~(slot.open /\ slot.sndbuf)
    <3>1. ~slot.sndbuf
      BY <2>2 DEF DrainCovered
    <3>2. ~slot'.sndbuf
      BY <1>5, <3>1 DEF CliNoteSent, TypeOK, Slots
    <3> QED
      BY <3>2 DEF DrainCovered
  <2> QED
    BY <2>1, <2>2
<1>6. CASE CliMarkConnecting \/ MonSynthAck \/ MonExcept \/ MonConnect
  <2>1. /\ slot'.sndbuf = slot.sndbuf /\ slot'.open = slot.open
        /\ slot'.unacked = slot.unacked /\ slot'.last = slot.last
    BY <1>6 DEF CliMarkConnecting, MonSynthAck, MonExcept, MonConnect, TypeOK, Slots
  <2>2. UNCHANGED <<inflight, job>> /\ (UNCHANGED pc \/ (pc = "mark" /\ pc' = "write"))
    BY <1>6 DEF CliMarkConnecting, MonSynthAck, MonExcept, MonConnect, ClientUnchanged
  <2> QED
    BY <2>1, <2>2 DEF DrainCovered, Uncounted
<1>7. CASE MonSndbuf
  <2>1. UNCHANGED <<pc, job, inflight>>
    BY <1>7 DEF MonSndbuf, ClientUnchanged
  <2>2. CASE slot.sndbuf /\ (Available > slot.last \/ Available = SndBuf)
    <3>1. /\ slot'.sndbuf /\ slot'.open = slot.open
          /\ slot'.unacked = slot.unacked - DrainAcks /\ slot'.last = Available
      BY <1>7, <2>2 DEF MonSndbuf, TypeOK, Slots, DrainCovered
    <3>2. Available = SndBuf - inflight
      BY <1>0, <2>2 DEF Available, DrainCovered
    <3>3. IF Available > slot.last THEN DrainAcks = Available - slot.last
                                   ELSE DrainAcks = slot.unacked /\ inflight = 0
      BY <1>0, <2>2, <3>2 DEF DrainAcks, Smaller, DrainCovered
    <3> QED
      BY <1>0, <2>1, <2>2, <3>1, <3>2, <3>3 DEF DrainCovered, Uncounted
  <2>3. CASE ~slot.sndbuf
    <3>1. ~slot'.sndbuf
      BY <1>7, <2>3 DEF MonSndbuf, TypeOK, Slots
    <3> QED
      BY <3>1 DEF DrainCovered
  <2>4. CASE ~(Available > slot.last \/ Available = SndBuf)
    BY <1>7, <2>1, <2>4, DrainUntouched DEF MonSndbuf
  <2> QED
    BY <2>2, <2>3, <2>4
<1>8. CASE PeerAcks
  BY <1>0, <1>8 DEF PeerAcks, OthersUnchanged, DrainCovered, Uncounted
<1>9. ASSUME TCPCLI, ~HandleSocketCreating, ~HandleClosed, ~HandleError,
             ~HandleSendingLogin, ~HandleSendingData, ~CliNoteSent, ~CliMarkConnecting
      PROVE  UNCHANGED <<slot, inflight>> /\ pc # "note" /\ pc' # "note"
  BY <1>9 DEF TCPCLI, Handler, At, Turn, CliBegin, CliExpire, CliOverall, HandleInit,
     HandleWaitNetwork, HandleSocketCreated, HandleConnecting, HandleConnected,
     HandleWaitAck, HandleAckReceived, HandleReconnectDelay,
     CliRecordSent, CliZeroAcked, CliRecordBatch, CliWrite, socket
<1>10. ASSUME TCPMON, ~MonSynthAck, ~MonExcept, ~MonConnect, ~MonSndbuf
       PROVE  UNCHANGED <<slot, inflight, pc, job>>
  BY <1>10 DEF TCPMON, MonService, MonCallConnected, MonCallClose, MonCallSendAcked,
     MonSetConnected, MonSetClosed, MonSetAckReceived, ClientUnchanged
<1>11. ASSUME Environment, ~PeerAcks PROVE UNCHANGED <<slot, inflight, pc, job>>
  BY <1>11 DEF Environment, StateTimePasses, DownTimePasses, Handshake,
     ConnectionDies, OthersUnchanged
<1>12. ASSUME UNCHANGED vars PROVE UNCHANGED <<slot, inflight, pc, job>>
  BY <1>12 DEF vars, socket
<1>13. CASE UNCHANGED <<slot, inflight>> /\ pc # "note" /\ pc' # "note"
  BY <1>13, DrainUntouched
<1>14. CASE UNCHANGED <<slot, inflight, pc, job>>
  BY <1>14, DrainUntouched
<1> QED
  BY <1>1, <1>2, <1>4, <1>5, <1>6, <1>7, <1>8, <1>9, <1>10, <1>11, <1>12, <1>13, <1>14
     DEF Next

-----------------------------------------------------------------------------
(* Theorems *)

\* The inductive invariant.
THEOREM ClientCorrect == Spec => []ClientInv
<1>1. Init => ClientInv
  BY InitTypes, SlotTypes, Sizes DEF Init, ClientInv, SocketsCounted, DrainCovered
<1>2. ClientInv /\ [Next]_vars => ClientInv'
  BY TypeStep, SocketsStep, DrainStep DEF ClientInv
<1> QED
  BY <1>1, <1>2, PTL DEF Spec

\* Every variable keeps its type; the number of sockets, also of those that leak,
\* never exceeds the slots of the monitor (socket_poll.c:374).
THEOREM ClientTypeCorrect == Spec => []TypeOK
<1>1. ClientInv => TypeOK
  BY DEF ClientInv
<1> QED
  BY ClientCorrect, <1>1, PTL

\* The monitor never reports a byte the peer has not acknowledged, whatever the
\* sizes and however the two tasks interleave (socket_poll.c:230-252, 440).
THEOREM DrainNeverOverReports == Spec => []DrainIsAcknowledged
<1>1. ClientInv => DrainIsAcknowledged
  BY DEF ClientInv, TypeOK, Slots, DrainCovered, Uncounted, DrainIsAcknowledged
<1> QED
  BY ClientCorrect, <1>1, PTL

-----------------------------------------------------------------------------
(* What the two tasks know of each other.  The rest of this module assumes  *)
(* MaxLag <= 1: at most one iteration of TCPCLI begins inside a callback.   *)

\* Where an iteration stands: the state it works from, or will write.
Top == pc \in {"begin", "expire", "overall", "switch"}
Current == IF Top THEN state ELSE next
Sending == {"note", "sent", "acked", "batch"}
Ready == {"CONNECTED", "SENDING_LOGIN", "ACK_RECEIVED", "SENDING_DATA"}
Early == {"INIT", "WAIT_NETWORK", "SOCKET_CREATING"}

\* What TCPMON is about to tell, and the units it has yet to acknowledge.
Carries(evt) == mon.at = "call" /\ mon.evt = evt
TellsConnected == Carries("CONNECTED") \/ mon.at = "connected"
Connecting == TellsConnected \/ (mon.at = "probe" /\ mon.evt = "connect")
Owed == slot.unacked + slot.synth + (IF Carries("SENDACKED") THEN mon.len ELSE 0)

\* The places of TCPCLI and what it holds there.
PlaceInv ==
  /\ slot.open = tcp_fd
  /\ (conn = "none") = ~tcp_fd
  /\ mon.at = "select" => lag = 0
  /\ pc \in Sending \cup {"mark"} => tcp_fd /\ conn # "idle" /\ state \notin WaitAck
  /\ pc \in Sending => next \in WaitAck
  /\ pc = "mark" => next \in {"CONNECTING", "ERROR"}
  /\ pc = "write" /\ state \in WaitAck =>
       /\ next \in WaitAck \cup {"ACK_RECEIVED", "ERROR"}
       /\ next = "ERROR" => bytesSent = 0
  /\ pc = "expire" => state \in Timed \cup {"CLOSED", "CONNECTED", "ACK_RECEIVED"}
  /\ pc = "expire" /\ state \notin {"CLOSED", "CONNECTED", "ACK_RECEIVED"} => state = lastState
  /\ pc \in {"expire", "overall", "switch"} /\ state = "SOCKET_CREATING" =>
       lastState = "SOCKET_CREATING"
  /\ Current = "RECONNECT_DELAY" => ~tcp_fd

\* A callback that outlives its socket ends before another one is created.
LateInv ==
  (mon.at # "select" /\ ~tcp_fd) =>
     \/ pc \in {"write", "begin"} /\ Current \in {"RECONNECT_DELAY", "CLOSED", "ERROR"}
     \/ lag = 1 /\ pc \in {"write", "begin"} /\ Current \in {"INIT", "WAIT_NETWORK"}
     \/ lag = 1 /\ Top /\ pc # "begin" /\ Current \in {"RECONNECT_DELAY", "CLOSED", "ERROR", "INIT"}

\* Without a socket nothing is tracked; a socket that a new one will leak is dead.
IdleInv ==
  /\ ~tcp_fd => bytesSent = 0 /\ batchCount = 0
  /\ ~tcp_fd /\ Current \in Early \cup {"RECONNECT_DELAY"} => ~session_up
  /\ tcp_fd /\ Current \in Early =>
       /\ conn = "dead" /\ bytesSent = 0 /\ batchCount = 0
       /\ ~TellsConnected /\ mon.at # "acked"
  /\ pc = "expire" /\ state = "CLOSED" =>
       /\ tcp_fd => conn = "dead" /\ ~TellsConnected /\ mon.at # "acked"
       /\ ~tcp_fd => ~session_up

\* A CLOSE is about a dead connection, or the socket it was about was replaced.
CloseInv ==
  /\ tcp_fd /\ Carries("CLOSE") => conn = "dead"
  /\ tcp_fd /\ mon.at = "close" /\ conn # "dead" =>
       \/ pc \in {"write", "begin"} /\ Current = "SOCKET_CREATED" /\ lastState = "SOCKET_CREATING"
       \/ lag = 1 /\ pc \in {"overall", "switch"} /\ Current \in {"SOCKET_CREATED", "CLOSED"}
       \/ lag = 1 /\ pc = "mark"
       \/ lag = 1 /\ pc \in {"write", "begin"} /\ Current \in {"CONNECTING", "ERROR"}

\* Until CONNECTED is told nothing has been sent, and it is told once.
ConnectInv ==
  tcp_fd =>
    /\ slot.pending \/ Connecting =>
         Owed = 0 /\ Current \in Early \cup {"CONNECTING", "ERROR", "CLOSED"}
    /\ TellsConnected => ~slot.pending
    /\ conn = "idle" \/ pc = "mark" => Owed = 0 /\ ~slot.pending /\ ~Connecting

\* Nothing is owed when a frame may be sent; while one is in flight, what was
\* told and what is still owed do not exceed it.
OwedInv ==
  tcp_fd =>
    /\ Current \in Ready \/ pc = "note" => Owed = 0
    /\ pc \in {"sent", "acked"} => Owed <= job.len
    /\ pc = "acked" => bytesSent \in {0, job.len}
    /\ (pc \in {"batch", "write"} \/ Top) /\ (Current \in WaitAck \/ state \in WaitAck) =>
         bytesSent = 0 \/ Owed + bytesAcked <= bytesSent

\* The callback that completes a frame finds no other one sent since.
LateAckInv ==
  (mon.at = "acked" /\ tcp_fd) =>
    /\ Owed = 0 /\ ~slot.pending /\ last_connected_state
    /\ pc \notin Sending \cup {"mark"}
    /\ \/ Current \in WaitAck \cup {"ACK_RECEIVED", "ERROR", "CLOSED"}
       \/ lag = 1 /\ pc \in {"write", "begin"} /\ Current = "SENDING_DATA"
    /\ lag = 0 /\ Top /\ pc # "begin" => state # "ACK_RECEIVED"

\* AnnouncedWhileOpen, and the same for the state about to be written.
AnnounceInv ==
  tcp_fd /\ ( \/ session_up
              \/ state \in SendStates
              \/ Current \in SendStates \cup {"ACK_RECEIVED"} ) => last_connected_state

LockstepInv ==
  /\ PlaceInv /\ LateInv /\ IdleInv /\ CloseInv
  /\ ConnectInv /\ OwedInv /\ LateAckInv /\ AnnounceInv

\* After Init and after a restart nothing is open and nothing under way.
Fresh ==
  /\ state = "INIT" /\ next = "INIT" /\ lastState = "INIT" /\ pc = "begin"
  /\ tcp_fd = FALSE /\ conn = "none" /\ slot = NoSlot /\ mon = AtSelect /\ lag = 0
  /\ session_up = FALSE /\ bytesSent = 0 /\ batchCount = 0

FieldTypes ==
  /\ slot.unacked \in Nat /\ slot.synth \in Nat /\ mon.len \in Nat /\ job.len \in Nat
  /\ bytesSent \in Nat /\ bytesAcked \in Nat /\ lag \in {0, 1}
  /\ tcp_fd \in BOOLEAN /\ slot.open \in BOOLEAN /\ slot.pending \in BOOLEAN

LEMMA FieldsTyped == MaxLag <= 1 /\ TypeOK => FieldTypes
  BY Sizes DEF TypeOK, Slots, Monitors, Jobs, FieldTypes

LEMMA MonitorFields ==
  /\ AtSelect.at = "select"
  /\ \A at, evt, n : /\ Carry(at, evt, n).at = at /\ Carry(at, evt, n).evt = evt
                     /\ Carry(at, evt, n).len = n
  /\ \A at : [AtSelect EXCEPT !.at = at].at = at
  /\ \A at, s : [AtSelect EXCEPT !.at = at, !.seen = s].at = at
  BY DEF AtSelect, Carry

LEMMA SlotFields ==
  /\ NoSlot.open = FALSE /\ NoSlot.pending = FALSE /\ NoSlot.unacked = 0 /\ NoSlot.synth = 0
  /\ \A supported : /\ NewSlot(supported).open = TRUE /\ NewSlot(supported).pending = FALSE
                    /\ NewSlot(supported).unacked = 0 /\ NewSlot(supported).synth = 0
  BY DEF NoSlot, NewSlot

\* One step of a handler.
LEMMA HandlerLockstep ==
  ASSUME TypeOK, FieldTypes, FieldTypes', LockstepInv, MaxLag <= 1, Handler
  PROVE  LockstepInv'
<1> USE DEF LockstepInv, PlaceInv, LateInv, IdleInv, CloseInv, ConnectInv, OwedInv, LateAckInv,
        AnnounceInv, FieldTypes, Top, Current, Sending, Ready, Early, Carries, TellsConnected,
        Connecting, Owed, WaitAck, SendStates
<1> USE DEF At, Turn, track, session, clocks, socket, monitor
<1>1. CASE HandleInit
  BY <1>1 DEF HandleInit
<1>2. CASE HandleWaitNetwork \/ HandleReconnectDelay
  <2>1. PlaceInv' /\ LateInv'
    BY <1>2 DEF HandleWaitNetwork, HandleReconnectDelay
  <2>2. IdleInv' /\ CloseInv'
    BY <1>2 DEF HandleWaitNetwork, HandleReconnectDelay
  <2>3. ConnectInv' /\ OwedInv'
    BY <1>2 DEF HandleWaitNetwork, HandleReconnectDelay
  <2>4. LateAckInv' /\ AnnounceInv'
    BY <1>2 DEF HandleWaitNetwork, HandleReconnectDelay
  <2> QED
    BY <2>1, <2>2, <2>3, <2>4
<1>3. CASE HandleSocketCreating
  <2>1. PlaceInv' /\ LateInv'
    BY <1>3, SlotFields, MonitorFields DEF HandleSocketCreating
  <2>2. mon'.at # "select" => ~tcp_fd' \/ (mon.at = "close" /\ mon' = mon)
    <3>1. mon.at \in {"select", "probe", "call", "connected", "close", "acked"}
      BY DEF TypeOK, Monitors
    <3> QED
      BY <3>1, <1>3, SlotFields, MonitorFields DEF HandleSocketCreating
  <2>3. IdleInv'
    BY <1>3, SlotFields, MonitorFields DEF HandleSocketCreating
  <2>4. CloseInv'
    BY <1>3, <2>2 DEF HandleSocketCreating
  <2>5. ConnectInv' /\ OwedInv' /\ LateAckInv' /\ AnnounceInv'
    BY <1>3, SlotFields, MonitorFields DEF HandleSocketCreating
  <2> QED
    BY <2>1, <2>3, <2>4, <2>5
<1>4. CASE HandleSocketCreated
  BY <1>4 DEF HandleSocketCreated
<1>5. CASE HandleConnecting
  BY <1>5 DEF HandleConnecting, SocketFails
<1>6. CASE HandleConnected
  BY <1>6 DEF HandleConnected
<1>7. CASE HandleSendingLogin
  BY <1>7 DEF HandleSendingLogin, TrySend, SocketFails, ResetSendTracking
<1>8. CASE HandleSendingData
  BY <1>8 DEF HandleSendingData, TrySend, SocketFails, ResetSendTracking
<1>9. ASSUME NEW w \in WaitAck, HandleWaitAck(w)
      PROVE  LockstepInv'
  <2>1. PlaceInv' /\ LateInv' /\ IdleInv' /\ CloseInv'
    BY <1>9 DEF HandleWaitAck, SocketFails, ResetSendTracking
  <2>2. ConnectInv'
    BY <1>9 DEF HandleWaitAck, ResetSendTracking
  <2>3. OwedInv'
    BY <1>9 DEF HandleWaitAck, AckComplete, ResetSendTracking
  <2>4. LateAckInv' /\ AnnounceInv'
    BY <1>9 DEF HandleWaitAck, ResetSendTracking
  <2> QED
    BY <2>1, <2>2, <2>3, <2>4
<1>10. CASE HandleAckReceived
  <2>1. PlaceInv' /\ LateInv' /\ IdleInv' /\ CloseInv'
    BY <1>10 DEF HandleAckReceived, ResetSendTracking
  <2>2. ConnectInv' /\ OwedInv'
    BY <1>10 DEF HandleAckReceived, ResetSendTracking
  <2>3. LateAckInv' /\ AnnounceInv'
    BY <1>10 DEF HandleAckReceived, ResetSendTracking
  <2> QED
    BY <2>1, <2>2, <2>3
<1>11. CASE HandleClosed
  BY <1>11, SlotFields DEF HandleClosed, ResetSendTracking, CloseSocket
<1>12. CASE HandleError
  BY <1>12, SlotFields DEF HandleError, ResetSendTracking, CloseSocket
<1> QED
  BY <1>1, <1>2, <1>3, <1>4, <1>5, <1>6, <1>7, <1>8, <1>9, <1>10, <1>11, <1>12 DEF Handler

\* One step of TCPCLI.
LEMMA ClientLockstep ==
  ASSUME TypeOK, FieldTypes, FieldTypes', LockstepInv, MaxLag <= 1, TCPCLI
  PROVE  LockstepInv'
<1> USE DEF LockstepInv, PlaceInv, LateInv, IdleInv, CloseInv, ConnectInv, OwedInv, LateAckInv,
        AnnounceInv, FieldTypes, Top, Current, Sending, Ready, Early, Carries, TellsConnected,
        Connecting, Owed, WaitAck, SendStates
<1> USE DEF track, session, clocks, socket, monitor
<1>1. CASE CliBegin
  <2>1. PlaceInv' /\ LateInv'
    BY <1>1, Sizes DEF CliBegin, Timed
  <2>2. IdleInv' /\ CloseInv'
    BY <1>1, Sizes DEF CliBegin, Timed
  <2>3. ConnectInv' /\ OwedInv'
    BY <1>1, Sizes DEF CliBegin, Timed
  <2>4. LateAckInv' /\ AnnounceInv'
    BY <1>1, Sizes DEF CliBegin, Timed
  <2> QED
    BY <2>1, <2>2, <2>3, <2>4
<1>2. CASE CliExpire
  BY <1>2 DEF CliExpire, TimeoutTarget, ResetSendTracking, Timed
<1>3. CASE CliOverall
  BY <1>3 DEF CliOverall, ResetSendTracking, Desired
<1>4. CASE Handler
  BY <1>4, HandlerLockstep
<1>5. CASE CliMarkConnecting
  <2>1. /\ slot'.open = slot.open /\ slot'.pending
        /\ slot'.unacked = slot.unacked /\ slot'.synth = slot.synth
    BY <1>5 DEF CliMarkConnecting, TypeOK, Slots
  <2>2. /\ pc = "mark" /\ pc' = "write"
        /\ UNCHANGED <<state, next, tcp_fd, conn, mon, lag, bytesSent, bytesAcked, batchCount,
                       lastState, last_connected_state, session_up, job>>
    BY <1>5 DEF CliMarkConnecting
  <2> QED
    BY <2>1, <2>2
<1>6. CASE CliNoteSent
  <2>1. /\ slot'.open = slot.open /\ ~slot'.pending
        /\ slot'.unacked + slot'.synth = slot.unacked + slot.synth + job.len
    <3>1. pc = "note" /\ slot.open
      BY <1>6 DEF CliNoteSent
    <3>2. CASE slot.sndbuf
      <4>1. /\ slot'.open = slot.open /\ ~slot'.pending
            /\ slot'.unacked = slot.unacked + job.len /\ slot'.synth = slot.synth
        BY <1>6, <3>1, <3>2 DEF CliNoteSent, TypeOK, Slots
      <4> QED
        BY <4>1
    <3>3. CASE ~slot.sndbuf
      <4>1. /\ slot'.open = slot.open /\ ~slot'.pending
            /\ slot'.unacked = slot.unacked /\ slot'.synth = slot.synth + job.len
        BY <1>6, <3>1, <3>3 DEF CliNoteSent, TypeOK, Slots
      <4> QED
        BY <4>1
    <3> QED
      BY <3>2, <3>3
  <2>2. /\ pc = "note" /\ pc' = "sent"
        /\ UNCHANGED <<state, next, tcp_fd, conn, mon, lag, bytesSent, bytesAcked, batchCount,
                       lastState, last_connected_state, session_up, job>>
    BY <1>6 DEF CliNoteSent
  <2> QED
    BY <2>1, <2>2
<1>7. CASE CliRecordSent
  <2>1. PlaceInv' /\ LateInv' /\ IdleInv' /\ CloseInv'
    BY <1>7 DEF CliRecordSent
  <2>2. ConnectInv' /\ OwedInv' /\ LateAckInv' /\ AnnounceInv'
    BY <1>7 DEF CliRecordSent
  <2> QED
    BY <2>1, <2>2
<1>8. CASE CliZeroAcked
  <2>1. PlaceInv' /\ LateInv' /\ IdleInv' /\ CloseInv'
    BY <1>8 DEF CliZeroAcked
  <2>2. ConnectInv' /\ OwedInv' /\ LateAckInv' /\ AnnounceInv'
    BY <1>8 DEF CliZeroAcked
  <2> QED
    BY <2>1, <2>2
<1>9. CASE CliRecordBatch
  <2>1. PlaceInv' /\ LateInv' /\ IdleInv' /\ CloseInv'
    BY <1>9 DEF CliRecordBatch
  <2>2. ConnectInv' /\ OwedInv' /\ LateAckInv' /\ AnnounceInv'
    BY <1>9 DEF CliRecordBatch
  <2> QED
    BY <2>1, <2>2
<1>10. CASE CliWrite
  <2>1. PlaceInv' /\ LateInv' /\ IdleInv' /\ CloseInv'
    BY <1>10 DEF CliWrite
  <2>2. ConnectInv' /\ OwedInv' /\ LateAckInv' /\ AnnounceInv'
    BY <1>10 DEF CliWrite
  <2> QED
    BY <2>1, <2>2
<1> QED
  BY <1>1, <1>2, <1>3, <1>4, <1>5, <1>6, <1>7, <1>8, <1>9, <1>10 DEF TCPCLI

\* One step of TCPMON.
LEMMA MonitorLockstep ==
  ASSUME TypeOK, FieldTypes, FieldTypes', LockstepInv, MaxLag <= 1, TCPMON
  PROVE  LockstepInv'
<1> DEFINE Same == UNCHANGED <<pc, next, tcp_fd, conn, bytesSent, batchCount,
                               lastState, last_connected_state, session_up, job>>
<1> USE DEF LockstepInv, PlaceInv, LateInv, IdleInv, CloseInv, ConnectInv, OwedInv, LateAckInv,
        AnnounceInv, FieldTypes, Top, Current, Sending, Ready, Early, Carries, TellsConnected,
        Connecting, Owed, WaitAck, SendStates
<1>s. ASSUME ClientUnchanged, UNCHANGED <<bytesSent, batchCount>>
      PROVE  Same
  BY <1>s DEF ClientUnchanged, session, clocks
<1>1. CASE MonSynthAck
  <2>1. /\ slot'.open = slot.open /\ slot'.pending = slot.pending
        /\ slot'.unacked = slot.unacked /\ slot'.synth = 0
    BY <1>1 DEF MonSynthAck, TypeOK, Slots
  <2>2. /\ mon.at = "select" /\ slot.open
        /\ mon'.at = "call" /\ mon'.evt = "SENDACKED" /\ mon'.len = slot.synth /\ lag' = lag
    BY <1>1, MonitorFields DEF MonSynthAck, Proceed
  <2>3. Same /\ UNCHANGED <<state, bytesAcked>>
    BY <1>1, <1>s DEF MonSynthAck, track
  <2>4. PlaceInv' /\ LateInv'
    BY <2>1, <2>2, <2>3
  <2>5. IdleInv' /\ CloseInv'
    BY <2>1, <2>2, <2>3
  <2>6. ConnectInv' /\ OwedInv'
    BY <2>1, <2>2, <2>3
  <2>7. LateAckInv' /\ AnnounceInv'
    BY <2>1, <2>2, <2>3
  <2> QED
    BY <2>4, <2>5, <2>6, <2>7
<1>2. CASE MonService
  <2>1. /\ mon.at = "select" /\ slot.open /\ mon'.at = "probe" /\ lag' = lag
        /\ mon'.evt = "connect" => slot.pending
    BY <1>2, MonitorFields DEF MonService, Proceed
  <2>2. Same /\ UNCHANGED <<state, bytesAcked, slot>>
    BY <1>2, <1>s DEF MonService, track
  <2>3. PlaceInv' /\ LateInv'
    BY <2>1, <2>2
  <2>4. IdleInv' /\ CloseInv'
    BY <2>1, <2>2
  <2>5. ConnectInv' /\ OwedInv' /\ LateAckInv' /\ AnnounceInv'
    BY <2>1, <2>2
  <2> QED
    BY <2>3, <2>4, <2>5
<1>3. CASE MonExcept
  <2>1. /\ slot'.open = slot.open /\ slot'.pending = slot.pending
        /\ slot'.unacked = slot.unacked /\ slot'.synth = slot.synth
    BY <1>3 DEF MonExcept, TypeOK, Slots
  <2>2. /\ mon.at = "probe"
        /\ \/ mon'.at = "call" /\ mon'.evt = "CLOSE" /\ conn = "dead" /\ lag' = lag
           \/ mon'.at = "select" /\ lag' = 0
    BY <1>3, MonitorFields DEF MonExcept, Proceed
  <2>3. Same /\ UNCHANGED <<state, bytesAcked>>
    BY <1>3, <1>s DEF MonExcept, track
  <2>4. PlaceInv' /\ LateInv'
    BY <2>1, <2>2, <2>3
  <2>5. IdleInv' /\ CloseInv'
    BY <2>1, <2>2, <2>3
  <2>6. ConnectInv' /\ OwedInv' /\ LateAckInv' /\ AnnounceInv'
    BY <2>1, <2>2, <2>3
  <2> QED
    BY <2>4, <2>5, <2>6
<1>4. CASE MonConnect
  <2>1. /\ slot'.open = slot.open /\ slot'.pending \in {slot.pending, FALSE}
        /\ slot'.unacked = slot.unacked /\ slot'.synth = slot.synth
    BY <1>4 DEF MonConnect, TypeOK, Slots
  <2>2. /\ mon.at = "probe" /\ mon.evt = "connect"
        /\ \/ mon'.at = "call" /\ mon'.evt = "CLOSE" /\ conn = "dead" /\ lag' = lag
           \/ /\ mon'.at = "call" /\ mon'.evt = "CONNECTED" /\ lag' = lag
              /\ conn = "established" /\ ~slot'.pending
           \/ mon'.at = "select" /\ lag' = 0
    BY <1>4, MonitorFields DEF MonConnect, Proceed, TypeOK, Slots
  <2>3. Same /\ UNCHANGED <<state, bytesAcked>>
    BY <1>4, <1>s DEF MonConnect, track
  <2>4. PlaceInv' /\ LateInv'
    BY <2>1, <2>2, <2>3
  <2>5. IdleInv' /\ CloseInv'
    BY <2>1, <2>2, <2>3
  <2>6. ConnectInv' /\ OwedInv' /\ LateAckInv' /\ AnnounceInv'
    BY <2>1, <2>2, <2>3
  <2> QED
    BY <2>4, <2>5, <2>6
<1>5. CASE MonSndbuf
  <2>1. DrainAcks \in Nat /\ slot.unacked - DrainAcks \in Nat
    BY Sizes DEF Available, DrainAcks, Smaller, TypeOK, Slots
  <2>2. /\ slot'.open = slot.open /\ slot'.pending = slot.pending /\ slot'.synth = slot.synth
        /\ mon.at = "probe" /\ mon.evt = "sndbuf"
        /\ \/ /\ mon'.at = "call" /\ mon'.evt = "SENDACKED" /\ lag' = lag
              /\ slot'.unacked + mon'.len = slot.unacked
           \/ mon'.at = "select" /\ lag' = 0 /\ slot'.unacked = slot.unacked
    <3>1. CASE slot.open /\ (Available > slot.last \/ Available = SndBuf)
      <4>1. /\ slot' = [slot EXCEPT !.last = Available, !.unacked = slot.unacked - DrainAcks]
            /\ mon' = Carry("call", "SENDACKED", DrainAcks)
            /\ mon.at = "probe" /\ mon.evt = "sndbuf"
            /\ lag' = IF mon'.at = "select" THEN 0 ELSE lag
        BY <1>5, <3>1 DEF MonSndbuf, Proceed
      <4> HIDE DEF FieldTypes
      <4> QED
        BY <2>1, <4>1, MonitorFields DEF TypeOK, Slots
    <3>2. CASE ~(slot.open /\ (Available > slot.last \/ Available = SndBuf))
      BY <1>5, <3>2, MonitorFields DEF MonSndbuf, Proceed
    <3> QED
      BY <3>1, <3>2
  <2>3. Same /\ UNCHANGED <<state, bytesAcked>>
    BY <1>5, <1>s DEF MonSndbuf, track
  <2>4. PlaceInv' /\ LateInv'
    BY <2>2, <2>3
  <2>5. IdleInv' /\ CloseInv'
    BY <2>2, <2>3
  <2>6. ConnectInv' /\ OwedInv' /\ LateAckInv' /\ AnnounceInv'
    BY <2>2, <2>3
  <2> QED
    BY <2>4, <2>5, <2>6
<1>6. CASE MonCallConnected
  <2>1. /\ mon.at = "call" /\ mon.evt = "CONNECTED" /\ slot.open
        /\ \/ mon'.at = "select" /\ lag' = 0
           \/ mon'.at = "connected" /\ lag' = lag /\ tcp_fd /\ state # "CLOSED"
    BY <1>6 DEF MonCallConnected, Proceed, CallbackIgnores, AtSelect
  <2>2. Same /\ UNCHANGED <<state, bytesAcked, slot>>
    BY <1>6, <1>s DEF MonCallConnected, track
  <2>3. PlaceInv'
    <3> HIDE DEF LateInv, IdleInv, CloseInv, ConnectInv, OwedInv, LateAckInv, AnnounceInv
    <3> QED
      BY <2>1, <2>2
  <2>4. LateInv'
    BY <2>1, <2>2
  <2>5. IdleInv' /\ CloseInv'
    BY <2>1, <2>2
  <2>6. ConnectInv' /\ OwedInv' /\ LateAckInv' /\ AnnounceInv'
    BY <2>1, <2>2
  <2> QED
    BY <2>3, <2>4, <2>5, <2>6
<1>7. CASE MonCallClose
  <2>1. /\ mon.at = "call" /\ mon.evt = "CLOSE" /\ slot.open
        /\ \/ mon'.at = "select" /\ lag' = 0
           \/ mon'.at = "close" /\ lag' = lag /\ tcp_fd /\ state # "CLOSED"
    BY <1>7 DEF MonCallClose, Proceed, CallbackIgnores, AtSelect
  <2>2. Same /\ UNCHANGED <<state, bytesAcked, slot>>
    BY <1>7, <1>s DEF MonCallClose, track
  <2>3. PlaceInv'
    <3> HIDE DEF LateInv, IdleInv, CloseInv, ConnectInv, OwedInv, LateAckInv, AnnounceInv
    <3> QED
      BY <2>1, <2>2
  <2>4. LateInv'
    BY <2>1, <2>2
  <2>5. IdleInv' /\ CloseInv'
    BY <2>1, <2>2
  <2>6. ConnectInv' /\ OwedInv' /\ LateAckInv' /\ AnnounceInv'
    BY <2>1, <2>2
  <2> QED
    BY <2>3, <2>4, <2>5, <2>6
<1>8. CASE MonCallSendAcked
  <2>1. /\ mon.at = "call" /\ mon.evt = "SENDACKED" /\ slot.open
        /\ \/ /\ mon'.at = "select" /\ lag' = 0
              /\ bytesAcked' = bytesAcked \/ bytesAcked' = bytesAcked + mon.len
           \/ /\ mon'.at = "acked" /\ lag' = lag /\ tcp_fd /\ bytesSent # 0
              /\ bytesAcked' = bytesAcked + mon.len
              /\ bytesAcked' >= bytesSent /\ state \in WaitAck
    BY <1>8 DEF MonCallSendAcked, Proceed, CallbackIgnores, AtSelect
  <2>2. Same /\ UNCHANGED <<state, slot>>
    BY <1>8, <1>s DEF MonCallSendAcked
  <2>3. PlaceInv' /\ LateInv'
    BY <2>1, <2>2
  <2>4. IdleInv' /\ CloseInv'
    BY <2>1, <2>2
  <2>5. CASE mon'.at = "select"
    <3>1. ConnectInv' /\ LateAckInv' /\ AnnounceInv'
      BY <2>1, <2>2, <2>5
    <3>2. OwedInv'
      BY <2>1, <2>2, <2>5
    <3> QED
      BY <2>3, <2>4, <3>1, <3>2
  <2>6. CASE mon'.at = "acked"
    <3>1. pc \in Sending \cup {"mark", "write"} \/ Top
      BY DEF TypeOK
    <3>2. pc \notin Sending \cup {"mark"} /\ Current \in WaitAck \cup {"ACK_RECEIVED"}
      BY <2>1, <2>6, <3>1
    <3>3. Owed' = 0 /\ tcp_fd' /\ bytesAcked' <= bytesSent
      <4>1. Owed + bytesAcked <= bytesSent
        BY <2>1, <2>6, <3>1, <3>2
      <4>2. Owed = slot.unacked + slot.synth + mon.len /\ Owed' = slot.unacked + slot.synth
        BY <2>1, <2>2, <2>6
      <4>3. Owed' = 0 /\ bytesAcked' <= bytesSent
        <5> HIDE DEF Owed, LockstepInv
        <5> QED
          BY <2>1, <2>6, <4>1, <4>2 DEF FieldTypes
      <4> QED
        BY <2>1, <2>2, <2>6, <4>3
    <3>4. ConnectInv' /\ OwedInv'
      BY <2>1, <2>2, <2>6, <3>2, <3>3
    <3>5. LateAckInv' /\ AnnounceInv'
      BY <2>1, <2>2, <2>6, <3>1, <3>2, <3>3
    <3> QED
      BY <2>3, <2>4, <3>4, <3>5
  <2> QED
    BY <2>1, <2>5, <2>6
<1>9. CASE MonSetConnected
  <2>1. /\ mon.at = "connected" /\ mon'.at = "select" /\ lag' = 0 /\ state' = "CONNECTED"
        /\ Same /\ UNCHANGED <<bytesAcked, slot>>
    BY <1>9, <1>s, MonitorFields DEF MonSetConnected, Proceed, track
  <2>2. PlaceInv' /\ LateInv'
    BY <2>1
  <2>3. IdleInv' /\ CloseInv'
    BY <2>1
  <2>4. ConnectInv' /\ OwedInv' /\ LateAckInv' /\ AnnounceInv'
    BY <2>1
  <2> QED
    BY <2>2, <2>3, <2>4
<1>10. CASE MonSetClosed
  <2>1. /\ mon.at = "close" /\ mon'.at = "select" /\ lag' = 0 /\ state' = "CLOSED"
        /\ \/ bytesSent' = 0 /\ bytesAcked' = 0 /\ batchCount' = 0
           \/ UNCHANGED <<bytesSent, bytesAcked, batchCount>>
        /\ UNCHANGED <<slot, pc, next, tcp_fd, conn, lastState, last_connected_state,
                       session_up, job>>
    BY <1>10, MonitorFields DEF MonSetClosed, Proceed, ResetSendTracking, ClientUnchanged,
       track, session, clocks
  <2>2. PlaceInv' /\ LateInv'
    BY <2>1
  <2>3. IdleInv' /\ CloseInv'
    BY <2>1 DEF Timed
  <2>4. ConnectInv' /\ OwedInv' /\ LateAckInv' /\ AnnounceInv'
    BY <2>1
  <2> QED
    BY <2>2, <2>3, <2>4
<1>11. CASE MonSetAckReceived
  <2>1. /\ mon.at = "acked" /\ mon'.at = "select" /\ lag' = 0 /\ state' = "ACK_RECEIVED"
        /\ Same /\ UNCHANGED <<bytesAcked, slot>>
    BY <1>11, <1>s, MonitorFields DEF MonSetAckReceived, Proceed, track
  <2>2. PlaceInv' /\ LateInv'
    BY <2>1
  <2>3. IdleInv' /\ CloseInv'
    BY <2>1
  <2>4. ConnectInv' /\ OwedInv' /\ LateAckInv' /\ AnnounceInv'
    BY <2>1
  <2> QED
    BY <2>2, <2>3, <2>4
<1> QED
  BY <1>1, <1>2, <1>3, <1>4, <1>5, <1>6, <1>7, <1>8, <1>9, <1>10, <1>11 DEF TCPMON

LEMMA EnvironmentLockstep ==
  ASSUME FieldTypes, FieldTypes', LockstepInv, Environment
  PROVE  LockstepInv'
<1> USE DEF LockstepInv, PlaceInv, LateInv, IdleInv, CloseInv, ConnectInv, OwedInv, LateAckInv,
        AnnounceInv, FieldTypes, Top, Current, Sending, Ready, Early, Carries, TellsConnected,
        Connecting, Owed, WaitAck, SendStates
<1>1. /\ UNCHANGED <<state, pc, next, job, tcp_fd, slot, mon, lag, bytesSent, bytesAcked,
                     batchCount, lastState, last_connected_state, session_up>>
      /\ conn' = conn \/ (conn = "syn" /\ conn' = "established")
                      \/ (conn \in {"syn", "established"} /\ conn' = "dead")
  BY DEF Environment, StateTimePasses, DownTimePasses, Handshake, PeerAcks, ConnectionDies,
     OthersUnchanged, track, session, monitor
<1> QED
  BY <1>1

LEMMA FreshLockstep == Fresh => LockstepInv
  BY SlotFields, MonitorFields DEF Fresh, LockstepInv, PlaceInv, LateInv, IdleInv, CloseInv,
     ConnectInv, OwedInv, LateAckInv, AnnounceInv, Top, Current, Sending, Ready, Early, Carries,
     TellsConnected, Connecting, Owed, WaitAck, SendStates

LEMMA LockstepStep ==
  ASSUME ClientInv, LockstepInv, MaxLag <= 1, [Next]_vars
  PROVE  LockstepInv'
<1>1. FieldTypes /\ FieldTypes'
  <2>1. TypeOK /\ TypeOK'
    BY TypeStep DEF ClientInv
  <2>2. TypeOK' => FieldTypes'
    BY FieldsTyped, PTL
  <2> QED
    BY <2>1, <2>2, FieldsTyped
<1>2. CASE TCPCLI
  BY <1>1, <1>2, ClientLockstep DEF ClientInv
<1>3. CASE TCPMON
  BY <1>1, <1>3, MonitorLockstep DEF ClientInv
<1>4. CASE Environment
  BY <1>1, <1>4, EnvironmentLockstep
<1>5. CASE Restart
  <2>1. Fresh'
    BY <1>5 DEF Restart, CloseSocket, ResetSendTracking, Fresh
  <2>2. Fresh' => LockstepInv'
    BY FreshLockstep, PTL
  <2> QED
    BY <2>1, <2>2
<1>6. CASE UNCHANGED vars
  BY <1>6 DEF vars, track, session, clocks, socket, monitor, LockstepInv, PlaceInv, LateInv,
     IdleInv, CloseInv, ConnectInv, OwedInv, LateAckInv, AnnounceInv, Top, Current, Sending,
     Ready, Early, Carries, TellsConnected, Connecting, Owed, WaitAck, SendStates
<1> QED
  BY <1>2, <1>3, <1>4, <1>5, <1>6 DEF Next

-----------------------------------------------------------------------------
(* Theorems about two tasks of comparable speed *)

\* The inductive invariant, on top of ClientInv.
THEOREM LockstepCorrect ==
  ASSUME MaxLag <= 1
  PROVE  Spec => []LockstepInv
<1>1. Init => LockstepInv
  BY FreshLockstep DEF Init, Fresh
<1>2. ClientInv /\ LockstepInv /\ [Next]_vars => LockstepInv'
  BY LockstepStep
<1> QED
  BY <1>1, <1>2, ClientCorrect, PTL DEF Spec

\* Rows are popped only when the peer has acknowledged every byte of their frame
\* that lwIP accepted: the ACK_RECEIVED that pops them is about them and about no
\* earlier frame, on whichever socket (tcp_ops.c:503-507, 605-621).
THEOREM PopsOnlyAcknowledged ==
  ASSUME MaxLag <= 1
  PROVE  Spec => []PopOnlyAcked
<1>1. ClientInv /\ LockstepInv => PopOnlyAcked
  BY DEF ClientInv, TypeOK, Slots, Monitors, DrainCovered, Uncounted, LockstepInv, IdleInv, OwedInv,
     Top, Current, Ready, Owed, PopOnlyAcked
<1> QED
  BY <1>1, ClientCorrect, LockstepCorrect, PTL

\* A frame is handed to lwIP only when nothing of an earlier one is in flight, so
\* that tcp_bytes_sent and tcp_bytes_acked are about one frame (tcp.c:299-310).
THEOREM OneFrameAtATime ==
  ASSUME MaxLag <= 1
  PROVE  Spec => []OneFrameInFlight
<1>1. ClientInv /\ LockstepInv => OneFrameInFlight
  BY DEF ClientInv, TypeOK, Slots, Monitors, DrainCovered, Uncounted, LockstepInv, OwedInv,
     Top, Current, Ready, Owed, OneFrameInFlight
<1> QED
  BY <1>1, ClientCorrect, LockstepCorrect, PTL

\* While a socket is open, EVENT_TCP_CONNECTED went out before the session was up
\* and before a frame was sent (tcp_ops.c:393, 638).
THEOREM AnnouncedFirst ==
  ASSUME MaxLag <= 1
  PROVE  Spec => []AnnouncedWhileOpen
<1>1. LockstepInv => AnnouncedWhileOpen
  BY DEF LockstepInv, AnnounceInv, AnnouncedWhileOpen
<1> QED
  BY <1>1, LockstepCorrect, PTL
=============================================================================
