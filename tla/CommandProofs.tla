----------------------------- MODULE CommandProofs -----------------------------
(***************************************************************************)
(* Proofs about the two modules of cmdTask: CommandPath, for every size of *)
(* CMD_REQUEST_Q and every number of messages, and ConfigStore, what the   *)
(* commands set, for every number of modules, every set of failing calls   *)
(* and every number of restarts.                                           *)
(***************************************************************************)
EXTENDS CommandPath, ConfigStore, SequenceTheorems, FiniteSetTheorems, TLAPS

-----------------------------------------------------------------------------
(* The path of a command *)

Slots == 0..Capacity - 1

LEMMA Sizes == Capacity \in Nat /\ Capacity > 0 /\ MaxPieces \in Nat /\ MaxSessions \in Nat
  BY SizeAssumption

\* Arithmetic of the positions of the ring.
LEMMA ModSlot == \A a \in Nat : a % Capacity \in Slots
  BY Sizes DEF Slots

LEMMA ModSmall == \A a \in Slots : a % Capacity = a
  BY Sizes DEF Slots

LEMMA ModWrap == \A a \in Nat : Capacity <= a /\ a < 2 * Capacity => a % Capacity = a - Capacity
  BY Sizes

\* A distance from the position after h.
LEMMA ModShift ==
  ASSUME NEW h \in Slots, NEW a \in Nat, a < Capacity
  PROVE  (((h + 1) % Capacity) + a) % Capacity = (h + 1 + a) % Capacity
<1>1. h \in Nat /\ h < Capacity
  BY Sizes DEF Slots
<1>2. CASE h + 1 < Capacity
  <2>1. (h + 1) % Capacity = h + 1
    BY <1>1, <1>2, ModSmall, Sizes DEF Slots
  <2> QED
    BY <1>1, <2>1
<1>3. CASE h + 1 >= Capacity
  <2>1. (h + 1) % Capacity = 0 /\ h + 1 + a = Capacity + a
    BY <1>1, <1>3, ModWrap, Sizes
  <2>2. (Capacity + a) % Capacity = a /\ a % Capacity = a
    BY ModWrap, ModSmall, Sizes DEF Slots
  <2> QED
    BY <2>1, <2>2
<1> QED
  BY <1>1, <1>2, <1>3, Sizes

\* Positions less than a round apart are different.
LEMMA SlotsDiffer ==
  ASSUME NEW h \in Slots, NEW a \in Nat, NEW b \in Nat, a < b, b < Capacity
  PROVE  (h + a) % Capacity # (h + b) % Capacity
<1>1. h \in Nat /\ h < Capacity
  BY Sizes DEF Slots
<1>2. CASE h + b < Capacity
  BY <1>1, <1>2, ModSmall, Sizes DEF Slots
<1>3. CASE h + b >= Capacity
  <2>1. (h + b) % Capacity = h + b - Capacity
    BY <1>1, <1>3, ModWrap, Sizes
  <2>2. CASE h + a < Capacity
    <3>1. (h + a) % Capacity = h + a
      BY <1>1, <2>2, ModSmall, Sizes DEF Slots
    <3> QED
      BY <1>1, <2>1, <3>1, Sizes
  <2>3. CASE h + a >= Capacity
    <3>1. (h + a) % Capacity = h + a - Capacity
      BY <1>1, <2>3, ModWrap, Sizes
    <3> QED
      BY <1>1, <2>1, <3>1, Sizes
  <2> QED
    BY <1>1, <2>2, <2>3, Sizes
<1> QED
  BY <1>1, <1>2, <1>3, Sizes

-----------------------------------------------------------------------------
(* The invariant *)

\* A task is inside the ring exactly when it has the mutex.
LockHeld ==
  /\ cli \in {"push", "pushed"} <=> lock = "TCPCLI"
  /\ cmd \in {"pop", "popped"} <=> lock = "cmdTask"

\* Messages that left the ring and are not executed, messages in the ring, and
\* the message copied into it that is not counted.
Taken == IF cmd \in {"popped", "run"} THEN 1 ELSE 0
Waiting == IF cmd = "popped" THEN count - 1 ELSE count
Extra == IF cli = "pushed" THEN 1 ELSE 0

\* Inside the mutex nobody else changes count: what was read before is current.
CountSeen ==
  /\ cli = "pushed" => seen["TCPCLI"] = count /\ count < Capacity
  /\ cmd = "popped" => seen["cmdTask"] = count /\ count > 0
  /\ tail = (head + Waiting + Extra) % Capacity

\* Where each accepted message is.
Places ==
  /\ Len(accepted) = Len(processed) + Taken + Waiting
  /\ \A i \in 1..Len(processed) : accepted[i] = processed[i]
  /\ Taken = 1 => accepted[Len(processed) + 1] = text
  /\ \A i \in 0..Waiting - 1 :
       accepted[Len(processed) + Taken + i + 1] = buf[(head + i) % Capacity]
  /\ Extra = 1 => buf[(head + Waiting) % Capacity] = msg

\* The socket holds no more than was sent.
StreamSent == Len(stream) <= sent

\* The inductive invariant.
CommandInv == TypeOK /\ StreamSent /\ LockHeld /\ CountSeen /\ Places

-----------------------------------------------------------------------------
(* Types *)

\* A text is a short sequence of pieces.
LEMMA TextIs == Text = {s \in Seq(Pieces) : Len(s) <= MaxPieces}
<1>1. ASSUME NEW s \in Text PROVE s \in Seq(Pieces) /\ Len(s) <= MaxPieces
  <2>1. PICK n \in 0..MaxPieces : s \in [1..n -> Pieces]
    BY DEF Text
  <2> QED
    BY <2>1, Sizes
<1>2. ASSUME NEW s \in Seq(Pieces), Len(s) <= MaxPieces PROVE s \in Text
  <2>1. s \in [1..Len(s) -> Pieces] /\ Len(s) \in 0..MaxPieces
    BY <1>2, LenProperties, Sizes
  <2> QED
    BY <2>1 DEF Text
<1> QED
  BY <1>1, <1>2

LEMMA SettleType ==
  ASSUME NEW s, NEW f \in Fates, fate \in [Pieces -> Fates], Settle(s, f)
  PROVE  fate' \in [Pieces -> Fates]
  BY DEF Settle

LEMMA InitInv == Init => CommandInv
<1> SUFFICES ASSUME Init PROVE CommandInv
  OBVIOUS
<1>1. <<>> \in Text /\ <<>> \in Seq(Text)
  BY TextIs, Sizes
<1>2. TypeOK
  BY <1>1, Sizes DEF Init, TypeOK, Fates
<1>3. StreamSent /\ LockHeld
  BY DEF Init, StreamSent, LockHeld
<1>4. CountSeen
  BY ModSmall, Sizes DEF Init, CountSeen, Waiting, Extra, Slots
<1>5. Places
  BY DEF Init, Places, Waiting, Taken, Extra
<1> QED
  BY <1>2, <1>3, <1>4, <1>5 DEF CommandInv

\* A message is a part of the stream, and the stream no longer than what was sent.
LEMMA TypeStep ==
  ASSUME CommandInv, [Next]_vars
  PROVE  TypeOK' /\ StreamSent'
<1> USE Sizes DEF CommandInv, TypeOK, socket, ring, client, manager, ghosts
<1>0. stream \in Seq(Pieces) /\ Len(stream) \in Nat /\ Len(stream) <= MaxPieces
  BY TextIs
<1>1. CASE Arrive
  <2>1. stream' \in Seq(Pieces) /\ Len(stream') = Len(stream) + 1
    BY <1>0, <1>1 DEF Arrive, Pieces
  <2>2. stream' \in Text /\ StreamSent'
    BY <1>0, <1>1, <2>1, TextIs DEF Arrive, StreamSent
  <2> QED
    BY <1>1, <2>2 DEF Arrive
<1>2. CASE Connect
  BY <1>2 DEF Connect, StreamSent
<1>3. CASE Close
  <2>1. stream' \in Text /\ StreamSent'
    BY <1>3, TextIs DEF Close, StreamSent
  <2>2. fate' \in [Pieces -> Fates]
    BY <1>3, SettleType DEF Close, Fates
  <2> QED
    BY <1>3, <2>1, <2>2 DEF Close
<1>4. CASE Monitor
  <2>1. /\ UNCHANGED <<stream, open, sessions, sent, client, manager, ring, ghosts>>
        /\ mon' \in {mon, "select", "call", "set"}
    BY <1>4 DEF Monitor, MonConnected, MonReadable, MonCall, MonSet
  <2>2. pending' \in BOOLEAN /\ flag' \in BOOLEAN
    BY <1>4, Zenon DEF Monitor, MonConnected, MonReadable, MonCall, MonSet
  <2> QED
    BY <2>1, <2>2 DEF StreamSent
<1>5. CASE PushLock
  BY <1>5 DEF PushLock, queue_lock, StreamSent
<1>6. CASE CliRecv
  <2>1. CASE stream = <<>> /\ cli' = "empty" /\ UNCHANGED <<stream, msg, fate>>
    BY <1>6, <2>1 DEF CliRecv, StreamSent
  <2>2. ASSUME NEW n \in 1..Len(stream),
               stream' = SubSeq(stream, n + 1, Len(stream)),
               \/ cli' = "got" /\ msg' = SubSeq(stream, 1, n) /\ UNCHANGED fate
               \/ Settle(SubSeq(stream, 1, n), "short") /\ UNCHANGED <<cli, msg>>
        PROVE  TypeOK' /\ StreamSent'
    <3>1. stream' \in Text /\ StreamSent'
      <4>1. stream' \in Seq(Pieces) /\ Len(stream') = Len(stream) - n
        BY <1>0, <2>2
      <4> QED
        <5>1. Len(stream') <= Len(stream) /\ Len(stream') \in Nat /\ n \in Nat
          BY <1>0, <2>2, <4>1
        <5>2. sent' = sent /\ sent \in Nat
          BY <1>6 DEF CliRecv
        <5>3. Len(stream') <= MaxPieces /\ Len(stream') <= sent
          BY <1>0, <5>1, <5>2 DEF StreamSent
        <5>4. stream' \in Text
          BY <4>1, <5>3, TextIs
        <5> QED
          BY <5>2, <5>3, <5>4 DEF StreamSent
    <3>2. SubSeq(stream, 1, n) \in Text
      <4>1. SubSeq(stream, 1, n) \in Seq(Pieces) /\ Len(SubSeq(stream, 1, n)) = n
        BY <1>0, <2>2
      <4> QED
        BY <1>0, <4>1, TextIs
    <3>3. fate' \in [Pieces -> Fates] /\ msg' \in Text
      BY <2>2, <3>2, SettleType DEF Fates
    <3>4. cli' \in {"top", "empty", "got", "push", "pushed"}
      BY <2>2
    <3> QED
      BY <1>6, <3>1, <3>3, <3>4 DEF CliRecv
  <2> QED
    BY <1>6, <2>1, <2>2 DEF CliRecv
<1>7. CASE CliClear
  BY <1>7 DEF CliClear, StreamSent
<1>8. CASE PushFull
  <2>1. fate' \in [Pieces -> Fates]
    BY <1>8, SettleType DEF PushFull, Fates
  <2> QED
    BY <1>8, <2>1 DEF PushFull, Unlock, StreamSent
<1>9. CASE PushCopy
  <2>1. tail' \in 0..Capacity - 1
    BY <1>9, ModSlot DEF PushCopy, Slots
  <2> QED
    BY <1>9, <2>1 DEF PushCopy, StreamSent
<1>10. CASE PushCount
  <2>1. count' \in 0..Capacity
    BY <1>10 DEF PushCount, CountSeen
  <2> QED
    BY <1>10, <2>1 DEF PushCount, Unlock, StreamSent
<1>11. CASE PopLock \/ PopEmpty
  BY <1>11 DEF PopLock, PopEmpty, queue_lock, Unlock, StreamSent
<1>12. CASE PopCopy
  <2>1. head' \in 0..Capacity - 1
    BY <1>12, ModSlot DEF PopCopy, Slots
  <2> QED
    BY <1>12, <2>1 DEF PopCopy, StreamSent
<1>13. CASE PopCount
  <2>1. count' \in 0..Capacity
    BY <1>13 DEF PopCount, CountSeen
  <2> QED
    BY <1>13, <2>1 DEF PopCount, Unlock, StreamSent
<1>14. CASE Process
  <2>1. fate' \in [Pieces -> Fates]
    BY <1>14, SettleType DEF Process, Fates
  <2> QED
    BY <1>14, <2>1 DEF Process, StreamSent
<1>15. CASE UNCHANGED vars
  BY <1>15 DEF vars, StreamSent
<1> QED
  BY <1>1, <1>2, <1>3, <1>4, <1>5, <1>6, <1>7, <1>8, <1>9, <1>10, <1>11, <1>12, <1>13, <1>14, <1>15
     DEF Next, Client, Manager

-----------------------------------------------------------------------------
(* The ring *)

\* Only the holder of the mutex is at a place where it is held.
LEMMA LockStep ==
  ASSUME CommandInv, [Next]_vars
  PROVE  LockHeld'
<1> USE DEF CommandInv, LockHeld, TypeOK
<1>1. CASE Arrive \/ Connect \/ Close \/ Monitor \/ UNCHANGED vars
  BY <1>1 DEF Arrive, Connect, Close, Monitor, MonConnected, MonReadable, MonCall, MonSet,
     vars, ring, client, manager
<1>2. CASE PushLock \/ Client
  BY <1>2 DEF PushLock, Client, CliRecv, CliClear, PushFull, PushCopy, PushCount, queue_lock,
     Unlock, manager, ring
<1>3. CASE Manager
  BY <1>3 DEF Manager, PopLock, PopEmpty, PopCopy, PopCount, Process, queue_lock, Unlock,
     client, ring
<1> QED
  BY <1>1, <1>2, <1>3 DEF Next

\* Steps that touch neither the ring nor the place of a message.
LEMMA PlacesKept ==
  ASSUME CountSeen, Places,
         UNCHANGED <<accepted, processed, buf, head, tail, count, seen, text>>,
         UNCHANGED <<Taken, Waiting, Extra>>,
         cli' = "pushed" => cli = "pushed" /\ msg' = msg,
         cmd' = "popped" => cmd = "popped"
  PROVE  CountSeen' /\ Places'
<1>1. CountSeen'
  BY DEF CountSeen, Extra
<1>2. Places'
  BY DEF Places, Extra
<1> QED
  BY <1>1, <1>2

\* Each of the two steps of a push and of a pop moves one message one place on.
LEMMA PlacesStep ==
  ASSUME CommandInv, [Next]_vars
  PROVE  CountSeen' /\ Places'
<1>0. /\ head \in Slots /\ head \in Nat /\ count \in Nat /\ count <= Capacity
      /\ accepted \in Seq(Text) /\ processed \in Seq(Text)
      /\ Len(accepted) \in Nat /\ Len(processed) \in Nat
      /\ buf \in [Slots -> Text] /\ msg \in Text /\ text \in Text
      /\ seen \in [{"TCPCLI", "cmdTask"} -> 0..Capacity]
  BY Sizes DEF CommandInv, TypeOK, Slots
<1>1. CASE Arrive \/ Connect \/ Close \/ Monitor \/ UNCHANGED vars
  BY <1>1, PlacesKept DEF Arrive, Connect, Close, Monitor, MonConnected, MonReadable, MonCall,
     MonSet, vars, ring, client, manager, ghosts, CommandInv, Taken, Waiting, Extra
<1>2. CASE PushLock \/ CliRecv \/ CliClear \/ PushFull
  <2>1. /\ UNCHANGED <<accepted, processed, buf, head, tail, count, seen, text, cmd>>
        /\ cli # "pushed" /\ cli' # "pushed"
    BY <1>2 DEF PushLock, CliRecv, CliClear, PushFull, manager, ring, ghosts
  <2> QED
    BY <2>1, PlacesKept DEF CommandInv, Taken, Waiting, Extra
<1>3. CASE PopLock \/ PopEmpty
  <2>1. /\ UNCHANGED <<accepted, processed, buf, head, tail, count, seen, text, cli, msg>>
        /\ cmd \notin {"popped", "run"} /\ cmd' \notin {"popped", "run"}
    BY <1>3 DEF PopLock, PopEmpty, client, ghosts
  <2> QED
    BY <2>1, PlacesKept DEF CommandInv, Taken, Waiting, Extra
<1>4. CASE PushCopy
  <2>1. /\ cli = "push" /\ cli' = "pushed" /\ cmd # "popped" /\ count < Capacity
        /\ UNCHANGED <<accepted, processed, head, count, cmd, text, msg>>
        /\ buf' = [buf EXCEPT ![tail] = msg] /\ tail' = (tail + 1) % Capacity
        /\ seen' = [seen EXCEPT !["TCPCLI"] = count]
    BY <1>4 DEF PushCopy, manager, ghosts, CommandInv, LockHeld
  <2>2. /\ Waiting = count /\ Waiting' = count /\ UNCHANGED Taken /\ Extra = 0 /\ Extra' = 1
        /\ Taken \in Nat
    BY <2>1 DEF Waiting, Taken, Extra
  <2>3. tail = (head + count) % Capacity /\ tail \in Slots
    BY <1>0, <2>2, ModSlot DEF CommandInv, CountSeen
  <2>4. tail' = (head + count + 1) % Capacity
    <3>1. CASE head + count < Capacity
      <4>1. tail = head + count
        BY <1>0, <2>3, <3>1, ModSmall, Sizes DEF Slots
      <4> QED
        BY <2>1, <4>1
    <3>2. CASE head + count >= Capacity
      <4>1. tail = head + count - Capacity /\ tail + 1 < Capacity
        BY <1>0, <2>1, <2>3, <3>2, ModWrap, Sizes DEF Slots
      <4>2. (tail + 1) % Capacity = tail + 1
        BY <1>0, <2>3, <4>1, ModSmall, Sizes DEF Slots
      <4>3. (head + count + 1) % Capacity = head + count + 1 - Capacity
        BY <1>0, <2>1, <3>2, ModWrap, Sizes DEF Slots
      <4> QED
        BY <1>0, <2>1, <4>1, <4>2, <4>3, Sizes
    <3> QED
      BY <1>0, <3>1, <3>2, Sizes
  <2>5. CountSeen'
    BY <1>0, <2>1, <2>2, <2>4 DEF CountSeen, CommandInv, LockHeld
  <2>6. ASSUME NEW i \in 0..count - 1
        PROVE  buf'[(head + i) % Capacity] = buf[(head + i) % Capacity]
    <3>1. (head + i) % Capacity # tail
      <4>1. i \in Nat /\ i < count /\ count < Capacity
        BY <1>0, <2>1
      <4> QED
        BY <1>0, <2>3, <4>1, SlotsDiffer
    <3>2. (head + i) % Capacity \in Slots
      BY <1>0, ModSlot
    <3> QED
      BY <1>0, <2>1, <3>1, <3>2
  <2>7. buf'[(head + count) % Capacity] = msg
    BY <1>0, <2>1, <2>3
  <2>8. Places'
    BY <1>0, <2>1, <2>2, <2>6, <2>7 DEF Places, CommandInv
  <2> QED
    BY <2>5, <2>8
<1>5. CASE PushCount
  <2>1. /\ cli = "pushed" /\ cli' = "top" /\ cmd # "popped" /\ count' = count + 1
        /\ accepted' = Append(accepted, msg)
        /\ UNCHANGED <<processed, buf, head, tail, seen, cmd, text>>
    BY <1>5 DEF PushCount, manager, CommandInv, LockHeld, CountSeen
  <2>2. /\ Waiting = count /\ Waiting' = count + 1 /\ UNCHANGED Taken
        /\ Extra = 1 /\ Extra' = 0 /\ Taken \in {0, 1}
    BY <2>1 DEF Waiting, Taken, Extra
  <2>3. /\ Len(accepted') = Len(accepted) + 1 /\ accepted'[Len(accepted) + 1] = msg
        /\ \A i \in 1..Len(accepted) : accepted'[i] = accepted[i]
    BY <1>0, <2>1
  <2>4. CountSeen'
    <3>1. tail' = (head' + Waiting' + Extra') % Capacity
      BY <1>0, <2>1, <2>2 DEF CommandInv, CountSeen
    <3> QED
      BY <2>1, <3>1 DEF CountSeen
  <2>5. Len(accepted) = Len(processed) + Taken + count
    BY <2>2 DEF CommandInv, Places
  <2>6. ASSUME NEW i \in 0..count
        PROVE  accepted'[Len(processed) + Taken + i + 1] = buf[(head + i) % Capacity]
    <3>1. CASE i = count
      BY <1>0, <2>2, <2>3, <2>5, <3>1 DEF CommandInv, Places
    <3>2. CASE i < count
      <4>1. Len(processed) + Taken + i + 1 \in 1..Len(accepted)
        BY <1>0, <2>2, <2>5, <3>2
      <4>2. accepted[Len(processed) + Taken + i + 1] = buf[(head + i) % Capacity]
        <5>1. i \in 0..count - 1
          BY <1>0, <3>2
        <5> QED
          BY <2>2, <5>1 DEF CommandInv, Places
      <4> QED
        BY <2>3, <4>1, <4>2
    <3> QED
      BY <1>0, <3>1, <3>2
  <2>7. Places'
    <3>1. Len(accepted') = Len(processed') + Taken' + Waiting'
      BY <1>0, <2>1, <2>2, <2>3, <2>5
    <3>2. \A i \in 1..Len(processed') : accepted'[i] = processed'[i]
      <4>1. \A i \in 1..Len(processed) : i \in 1..Len(accepted)
        BY <1>0, <2>2, <2>5
      <4> QED
        BY <2>1, <2>3, <4>1 DEF CommandInv, Places
    <3>3. Taken' = 1 => accepted'[Len(processed') + 1] = text'
      <4>1. Taken = 1 => Len(processed) + 1 \in 1..Len(accepted)
        BY <1>0, <2>5
      <4> QED
        BY <2>1, <2>2, <2>3, <4>1 DEF CommandInv, Places
    <3>4. \A i \in 0..Waiting' - 1 :
            accepted'[Len(processed') + Taken' + i + 1] = buf'[(head' + i) % Capacity]
      <4>1. Waiting' - 1 = count
        BY <1>0, <2>2
      <4> QED
        BY <2>1, <2>2, <2>6, <4>1
    <3> QED
      BY <2>2, <3>1, <3>2, <3>3, <3>4 DEF Places
  <2> QED
    BY <2>4, <2>7
<1>6. CASE PopCopy
  <2>1. /\ cmd = "pop" /\ cmd' = "popped" /\ cli # "pushed" /\ count > 0
        /\ UNCHANGED <<accepted, processed, buf, tail, count, cli, msg>>
        /\ text' = buf[head] /\ head' = (head + 1) % Capacity
        /\ seen' = [seen EXCEPT !["cmdTask"] = count]
    BY <1>0, <1>6 DEF PopCopy, RingEmpty, client, ghosts, CommandInv, LockHeld
  <2>2. /\ Waiting = count /\ Waiting' = count - 1 /\ Taken = 0 /\ Taken' = 1
        /\ Extra = 0 /\ Extra' = 0
    BY <2>1 DEF Waiting, Taken, Extra
  <2>3. ASSUME NEW i \in 0..count - 1
        PROVE  (head' + i) % Capacity = (head + 1 + i) % Capacity
    BY <1>0, <2>1, ModShift, Sizes
  <2>4. CountSeen'
    <3>1. tail = (head + 1 + (count - 1)) % Capacity
      BY <1>0, <2>2 DEF CommandInv, CountSeen
    <3>2. tail' = (head' + Waiting' + Extra') % Capacity
      BY <1>0, <2>1, <2>2, <2>3, <3>1, ModSlot DEF Slots
    <3> QED
      BY <1>0, <2>1, <3>2 DEF CountSeen
  <2>5. \A i \in 0..count - 1 : accepted[Len(processed) + i + 1] = buf[(head + i) % Capacity]
    <3>1. \A i \in 0..count - 1 : accepted[Len(processed) + 0 + i + 1] = buf[(head + i) % Capacity]
      BY <2>2 DEF CommandInv, Places
    <3>2. Len(processed) + 0 = Len(processed)
      BY <1>0
    <3> QED
      BY <3>1, <3>2
  <2>6. text' = accepted[Len(processed) + 1]
    <3>1. (head + 0) % Capacity = head
      BY <1>0, ModSmall
    <3>2. 0 \in 0..count - 1 /\ Len(processed) + 0 + 1 = Len(processed) + 1
      BY <1>0, <2>1
    <3> QED
      BY <2>1, <2>5, <3>1, <3>2
  <2>7. ASSUME NEW i \in 0..count - 2
        PROVE  accepted[Len(processed) + 1 + i + 1] = buf[(head' + i) % Capacity]
    <3>1. i + 1 \in 0..count - 1 /\ i \in 0..count - 1
      BY <1>0
    <3>2. /\ Len(processed) + (i + 1) + 1 = Len(processed) + 1 + i + 1
          /\ head + (i + 1) = head + 1 + i
      BY <1>0
    <3> QED
      BY <2>3, <2>5, <3>1, <3>2
  <2>8. Places'
    <3>1. Len(accepted') = Len(processed') + Taken' + Waiting'
      BY <1>0, <2>1, <2>2 DEF CommandInv, Places
    <3>2. \A i \in 1..Len(processed') : accepted'[i] = processed'[i]
      BY <2>1 DEF CommandInv, Places
    <3>3. accepted'[Len(processed') + 1] = text'
      BY <2>1, <2>6
    <3>4. \A i \in 0..Waiting' - 1 :
            accepted'[Len(processed') + Taken' + i + 1] = buf'[(head' + i) % Capacity]
      <4>1. Waiting' - 1 = count - 2
        BY <1>0, <2>2
      <4> QED
        BY <2>1, <2>2, <2>7, <4>1
    <3> QED
      BY <2>2, <3>1, <3>2, <3>3, <3>4 DEF Places
  <2> QED
    BY <2>4, <2>8
<1>7. CASE PopCount
  <2>1. /\ cmd = "popped" /\ cmd' = "run" /\ cli # "pushed" /\ count' = count - 1
        /\ UNCHANGED <<accepted, processed, buf, head, tail, seen, cli, msg, text>>
    BY <1>7 DEF PopCount, client, ghosts, CommandInv, LockHeld, CountSeen
  <2>2. UNCHANGED <<Waiting, Taken, Extra>>
    BY <2>1 DEF Waiting, Taken, Extra
  <2> QED
    BY <2>1, <2>2, PlacesKept DEF CommandInv, CountSeen, Places, Extra
<1>8. CASE Process
  <2>1. /\ cmd = "run" /\ cmd' = "idle" /\ processed' = Append(processed, text)
        /\ UNCHANGED <<accepted, buf, head, tail, count, seen, cli, msg, text>>
    BY <1>8 DEF Process, client, ring
  <2>2. UNCHANGED <<Waiting, Extra>> /\ Taken = 1 /\ Taken' = 0
    BY <2>1 DEF Waiting, Taken, Extra
  <2>3. CountSeen'
    BY <2>1, <2>2 DEF CommandInv, CountSeen, Extra
  <2>4. /\ Len(processed') = Len(processed) + 1 /\ processed'[Len(processed) + 1] = text
        /\ \A i \in 1..Len(processed) : processed'[i] = processed[i]
    BY <1>0, <2>1
  <2>5. Waiting \in Nat
    BY <1>0, <2>1 DEF Waiting
  <2>6. Places'
    BY <1>0, <2>1, <2>2, <2>4, <2>5 DEF CommandInv, Places
  <2> QED
    BY <2>3, <2>6
<1> QED
  BY <1>1, <1>2, <1>3, <1>4, <1>5, <1>6, <1>7, <1>8 DEF Next, Client, Manager

-----------------------------------------------------------------------------
(* Theorems *)

(* The invariant of the command path, for every capacity of the queue. *)
THEOREM CommandCorrect == Spec => []CommandInv
<1>1. CommandInv /\ [Next]_vars => CommandInv'
  BY TypeStep, LockStep, PlacesStep DEF CommandInv
<1> QED
  BY <1>1, InitInv, PTL DEF Spec

(* TypeOK: no index leaves the ring and the count stays within its capacity. *)
THEOREM CommandTypeCorrect == Spec => []TypeOK
<1>1. CommandInv => TypeOK
  BY DEF CommandInv
<1> QED
  BY <1>1, CommandCorrect, PTL

(* AcceptedInOrder: whenever the mutex is free, what was executed, what is in    *)
(* hand and what is queued are together what was accepted, in that order, for    *)
(* every capacity of the queue and every number of messages                      *)
(* (queue_manager.c:770-905, module_config.c:127-134).                           *)
THEOREM CommandsInOrder == Spec => []AcceptedInOrder
<1>1. ASSUME CommandInv, lock = "free"
      PROVE  processed \o InHand \o Queued = accepted
  <2>1. /\ head \in Slots /\ head \in Nat /\ count \in Nat /\ count <= Capacity
        /\ accepted \in Seq(Text) /\ processed \in Seq(Text)
        /\ Len(accepted) \in Nat /\ Len(processed) \in Nat
        /\ buf \in [Slots -> Text] /\ text \in Text
    BY <1>1, Sizes DEF CommandInv, TypeOK, Slots
  <2>2. cmd # "popped" /\ Waiting = count
    BY <1>1 DEF CommandInv, LockHeld, Waiting
  <2>3. /\ Queued \in Seq(Text) /\ Len(Queued) = count
        /\ \A i \in 1..count : Queued[i] = buf[(head + (i - 1)) % Capacity]
    <3>1. ASSUME NEW i \in 1..count
          PROVE  /\ (head + i - 1) % Capacity = (head + (i - 1)) % Capacity
                 /\ buf[(head + i - 1) % Capacity] \in Text
      <4>1. head + i - 1 = head + (i - 1) /\ head + i - 1 \in Nat
        BY <2>1
      <4> QED
        BY <2>1, <4>1, ModSlot
    <3> QED
      BY <2>1, <3>1 DEF Queued
  <2>4. InHand \in Seq(Text) /\ Len(InHand) = Taken /\ (Taken = 1 => InHand[1] = text)
        /\ Taken \in {0, 1}
    BY <2>1, <2>2 DEF InHand, Taken
  <2> DEFINE all == processed \o InHand \o Queued
  <2>5. /\ all \in Seq(Text) /\ Len(all) = Len(processed) + Taken + count
        /\ \A i \in 1..Len(processed) : all[i] = processed[i]
        /\ Taken = 1 => all[Len(processed) + 1] = text
        /\ \A i \in 1..count : all[Len(processed) + Taken + i] = Queued[i]
    <3> DEFINE some == processed \o InHand
    <3>1. /\ some \in Seq(Text) /\ Len(some) = Len(processed) + Taken
          /\ \A i \in 1..Len(processed) : some[i] = processed[i]
          /\ Taken = 1 => some[Len(processed) + 1] = text
      <4>1. /\ some \in Seq(Text) /\ Len(some) = Len(processed) + Len(InHand)
            /\ \A i \in 1..Len(processed) + Len(InHand) :
                 some[i] = IF i <= Len(processed) THEN processed[i] ELSE InHand[i - Len(processed)]
        BY <2>1, <2>4, ConcatProperties
      <4>2. (Len(processed) + 1) - Len(processed) = 1 /\ ~(Len(processed) + 1 <= Len(processed))
        BY <2>1
      <4> HIDE DEF some
      <4> QED
        BY <2>1, <2>4, <4>1, <4>2
    <3> HIDE DEF some
    <3>2. /\ some \o Queued \in Seq(Text) /\ Len(some \o Queued) = Len(some) + count
          /\ \A i \in 1..Len(some) + count :
               (some \o Queued)[i] = IF i <= Len(some) THEN some[i] ELSE Queued[i - Len(some)]
      BY <2>3, <3>1, ConcatProperties
    <3>3. all = some \o Queued
      BY DEF some
    <3> HIDE DEF all
    <3>4. \A i \in 1..count : all[Len(processed) + Taken + i] = Queued[i]
      <4>1. ASSUME NEW i \in 1..count
            PROVE  /\ Len(some) + i \in 1..Len(some) + count /\ ~(Len(some) + i <= Len(some))
                   /\ (Len(some) + i) - Len(some) = i
        <5>1. Len(some) \in Nat /\ count \in Nat
          BY <2>1, <3>1, LenProperties
        <5> QED
          BY <5>1
      <4> QED
        BY <3>1, <3>2, <3>3, <4>1
    <3>5. \A i \in 1..Len(some) : all[i] = some[i]
      BY <2>1, <2>4, <3>1, <3>2, <3>3
    <3>6. Taken = 1 => all[Len(processed) + 1] = text
      BY <2>1, <3>1, <3>5
    <3>7. \A i \in 1..Len(processed) : all[i] = processed[i]
      BY <2>1, <2>4, <3>1, <3>5
    <3>8. all \in Seq(Text) /\ Len(all) = Len(processed) + Taken + count
      BY <3>1, <3>2, <3>3
    <3> QED
      BY <3>4, <3>6, <3>7, <3>8
  <2>6. Len(all) = Len(accepted)
    BY <1>1, <2>2, <2>5 DEF CommandInv, Places
  <2>7. ASSUME NEW i \in 1..Len(accepted) PROVE all[i] = accepted[i]
    <3> HIDE DEF all
    <3>1. CASE i <= Len(processed)
      BY <1>1, <2>1, <2>5, <3>1 DEF CommandInv, Places
    <3>2. CASE i = Len(processed) + 1 /\ Taken = 1
      BY <1>1, <2>1, <2>5, <3>2 DEF CommandInv, Places
    <3>3. CASE i > Len(processed) + Taken
      <4>1. PICK k \in 0..count - 1 : i = Len(processed) + Taken + k + 1
        <5>1. i - Len(processed) - Taken - 1 \in 0..count - 1
          BY <2>1, <2>4, <2>5, <2>6, <3>3
        <5>2. i = Len(processed) + Taken + (i - Len(processed) - Taken - 1) + 1
          BY <2>1, <2>4
        <5> QED
          BY <5>1, <5>2
      <4>2. accepted[i] = buf[(head + k) % Capacity]
        BY <1>1, <2>2, <4>1 DEF CommandInv, Places
      <4>3. k + 1 \in 1..count /\ (k + 1) - 1 = k /\ i = Len(processed) + Taken + (k + 1)
        BY <2>1, <2>4, <4>1
      <4> QED
        BY <2>3, <2>5, <4>2, <4>3
    <3> QED
      BY <2>1, <2>4, <3>1, <3>2, <3>3
  <2> HIDE DEF all
  <2>8. all = accepted
    BY <2>1, <2>5, <2>6, <2>7, SeqEqual
  <2> QED
    BY <2>8 DEF all
<1>2. CommandInv => AcceptedInOrder
  BY <1>1 DEF AcceptedInOrder
<1> QED
  BY <1>2, CommandCorrect, PTL

-----------------------------------------------------------------------------
(* The stored configuration *)

\* The file has at most one entry for a module, in order, and not more of them
\* than its header announces; a torn entry comes after the whole ones.
FileInOrder ==
  /\ file.kind # "ok" => file.entries = <<>> /\ file.tail = 0 /\ file.count = 0
  /\ Len(file.entries) <= file.count
  /\ \A i, j \in DOMAIN file.entries : i < j => file.entries[i].module < file.entries[j].module
  /\ file.tail # 0 => \A i \in DOMAIN file.entries : file.entries[i].module < file.tail

\* v is what the entries before position k hold for module m.
Holds(m, k, v) ==
  /\ \A i \in DOMAIN file.entries :
       i < k /\ file.entries[i].module = m => v = file.entries[i].value
  /\ (\A i \in DOMAIN file.entries : i < k => file.entries[i].module # m) => v = Default

Loading == pc \in {"open", "header", "entry", "payload"}
Writing == pc \in {"open_w", "head_w", "name_w", "data_w"}
Before(k) == {m \in Valid : m < k}

\* The load: without a fault the configurations in force are those of the
\* entries read, but for a torn one, which is the last.
LoadInv ==
  /\ Loading => fresh
  /\ pc \in {"open", "header"} => ram = Defaults /\ ~lost
  /\ pc = "open" => ~stale
  /\ pc \in {"entry", "payload"} => file.kind = "ok"
  /\ pc = "payload" => /\ idx <= file.count /\ (Whole \/ Torn) /\ Module # 0 
  /\ pc \in {"header", "entry", "payload"} /\ calm /\ file.kind = "ok" => ~stale
  /\ pc \in {"entry", "payload"} /\ calm =>
       /\ idx <= Len(file.entries) + 2
       /\ lost => file.tail # 0 /\ idx = Len(file.entries) + 2
       /\ idx = Len(file.entries) + 2 => file.tail # 0
       /\ \A m \in Modules : (lost => m # file.tail) => Holds(m, idx, ram[m])

\* The save: the entries written are those of the valid modules before idx.
SaveInv ==
  /\ pc \in {"head_w", "name_w", "data_w"} => ~promise.valid
  /\ pc = "head_w" => file.kind = "short"
  /\ pc = "open_w" /\ fresh => ~promise.valid
  /\ pc = "name_w" => idx <= NumModules + 1 /\ file.tail = 0
  /\ pc = "data_w" => idx \in Valid /\ file.tail = idx
  /\ pc \in {"name_w", "data_w"} =>
       /\ file.kind = "ok" /\ file.count = Cardinality(Valid)
       /\ Len(file.entries) = Cardinality(Before(idx))
       /\ \A i \in DOMAIN file.entries :
            /\ file.entries[i].module \in Before(idx)
            /\ file.entries[i].value = ram[file.entries[i].module]
       /\ \A m \in Before(idx) : \E i \in DOMAIN file.entries : file.entries[i].module = m

\* What is promised is in the file, whole, and a load without a fault under way.
PromiseInv ==
  promise.valid =>
    /\ file.kind = "ok" /\ file.tail = 0 /\ file.count = Len(file.entries)
    /\ \A m \in Modules : Holds(m, file.count + 1, promise.value[m])
    /\ Loading => calm
    /\ pc = "up" /\ fresh => \A m \in Modules : ram[m] # Broken => ram[m] = promise.value[m]

\* StableBoots, by what the file holds.
StableInv ==
  pc = "up" /\ fresh /\ calm =>
    \A m \in Modules : m # file.tail /\ ram[m] # Broken => Holds(m, file.count + 1, ram[m])

\* The inductive invariant.
ConfigInv == ConfigTypeOK /\ FileInOrder /\ LoadInv /\ SaveInv /\ PromiseInv /\ StableInv

-----------------------------------------------------------------------------
(* Sets of modules and files *)

LEMMA ModuleSizes ==
  /\ NumModules \in Nat /\ NumModules > 0 /\ RamOnly \subseteq Modules
  /\ Retries \in Nat /\ Retries > 0 /\ MaxSets \in Nat /\ MaxBoots \in Nat
  /\ Broken = MaxSets + 2 /\ Mixed = MaxSets + 1 /\ Default = 0 /\ Config = 0..MaxSets + 2
  /\ Modules = 1..NumModules
  BY ModuleAssumption, RetryAssumption, BoundAssumption DEF Broken, Mixed, Default, Config, Modules

\* A save counts what it is going to write.
LEMMA ValidCounted ==
  /\ IsFiniteSet(Valid) /\ Cardinality(Valid) \in 0..NumModules
  /\ \A k \in Nat : IsFiniteSet(Before(k)) /\ Cardinality(Before(k)) \in Nat
<1>1. IsFiniteSet(Modules) /\ Cardinality(Modules) = NumModules
  BY ModuleSizes, FS_Interval
<1>2. IsFiniteSet(Valid) /\ Cardinality(Valid) <= NumModules
  BY <1>1, FS_Subset DEF Valid
<1>3. Cardinality(Valid) \in Nat
  BY <1>2, FS_CardinalityType
<1>4. ASSUME NEW k \in Nat PROVE IsFiniteSet(Before(k)) /\ Cardinality(Before(k)) \in Nat
  <2>1. Before(k) \subseteq Valid
    BY DEF Before
  <2> QED
    BY <1>2, <2>1, FS_Subset, FS_CardinalityType
<1> QED
  BY <1>2, <1>3, <1>4, ModuleSizes

LEMMA BeforeFirst == Before(1) = {} /\ Cardinality(Before(1)) = 0
<1>1. Before(1) = {}
  BY ModuleSizes DEF Before, Valid
<1> QED
  BY <1>1, FS_EmptySet

LEMMA BeforeLast == Before(NumModules + 1) = Valid
  BY ModuleSizes DEF Before, Valid

\* One more module of the loop.
LEMMA BeforeNext ==
  ASSUME NEW k \in Modules
  PROVE  /\ k \notin Valid => Before(k + 1) = Before(k)
         /\ k \in Valid => /\ Before(k + 1) = Before(k) \cup {k}
                           /\ Cardinality(Before(k + 1)) = Cardinality(Before(k)) + 1
                           /\ Cardinality(Before(k)) + 1 <= Cardinality(Valid)
<1>1. k \notin Valid => Before(k + 1) = Before(k)
  BY ModuleSizes DEF Before, Valid
<1>2. ASSUME k \in Valid
      PROVE  /\ Before(k + 1) = Before(k) \cup {k}
             /\ Cardinality(Before(k + 1)) = Cardinality(Before(k)) + 1
             /\ Cardinality(Before(k)) + 1 <= Cardinality(Valid)
  <2>1. Before(k + 1) = Before(k) \cup {k} /\ k \notin Before(k)
    BY <1>2, ModuleSizes DEF Before, Valid
  <2>2. Cardinality(Before(k + 1)) = Cardinality(Before(k)) + 1
    <3>1. k \in Nat
      BY ModuleSizes
    <3> QED
      BY <2>1, <3>1, ValidCounted, FS_AddElement
  <2>3. Before(k + 1) \subseteq Valid
    BY DEF Before
  <2>4. Cardinality(Before(k + 1)) <= Cardinality(Valid)
    BY <2>3, ValidCounted, FS_Subset
  <2> QED
    BY <2>1, <2>2, <2>4
<1> QED
  BY <1>1, <1>2

Records == [module : 0..NumModules, value : 0..Mixed]

LEMMA FileFields ==
  ASSUME NEW kind, NEW announced, NEW entries, NEW torn
  PROVE  /\ File(kind, announced, entries, torn).kind = kind
         /\ File(kind, announced, entries, torn).count = announced
         /\ File(kind, announced, entries, torn).entries = entries
         /\ File(kind, announced, entries, torn).tail = torn
  BY DEF File

\* The files of earlier firmware are in order.
LEMMA FirstFilesOk ==
  ASSUME NEW f \in FirstFiles
  PROVE  /\ f \in [kind : {"none", "short", "alien", "old", "ok"}, count : 0..(NumModules + 1),
                   entries : Seq(Records), tail : 0..NumModules]
         /\ f.kind # "ok" => f.entries = <<>> /\ f.tail = 0 /\ f.count = 0
         /\ Len(f.entries) <= f.count /\ f.tail = 0
         /\ \A i, j \in DOMAIN f.entries : i < j => f.entries[i].module < f.entries[j].module
<1>1. <<>> \in Seq(Records) /\ Len(<<>>) = 0 /\ DOMAIN <<>> = {}
  OBVIOUS
<1>2. CASE f \in {NoFile, File("alien", 0, <<>>, 0), File("old", 0, <<>>, 0)}
  <2>1. PICK kind \in {"none", "alien", "old"} : f = File(kind, 0, <<>>, 0)
    BY <1>2 DEF NoFile
  <2>2. f.kind = kind /\ f.count = 0 /\ f.entries = <<>> /\ f.tail = 0
    BY <2>1, FileFields
  <2>3. f \in [kind : {"none", "short", "alien", "old", "ok"}, count : 0..(NumModules + 1),
               entries : Seq(Records), tail : 0..NumModules]
    BY <1>1, <2>1, ModuleSizes DEF File
  <2> QED
    BY <1>1, <2>2, <2>3
<1>3. ASSUME NEW first \in {<<>>, <<Entry(0, Default)>>},
             f = File("ok", Len(AllDefault(first)), AllDefault(first), 0)
      PROVE  /\ f \in [kind : {"none", "short", "alien", "old", "ok"}, count : 0..(NumModules + 1),
                       entries : Seq(Records), tail : 0..NumModules]
             /\ f.kind = "ok" /\ f.tail = 0 /\ f.count = Len(f.entries)
             /\ \A i, j \in DOMAIN f.entries : i < j => f.entries[i].module < f.entries[j].module
  <2> DEFINE rest == [m \in Modules |-> Entry(m, Default)]
  <2>1. rest \in Seq(Records) /\ Len(rest) = NumModules /\ \A m \in Modules : rest[m].module = m
    BY ModuleSizes DEF Entry, Records
  <2>2. first \in Seq(Records) /\ Len(first) \in {0, 1} /\ (Len(first) = 1 => first[1].module = 0)
    <3>1. Entry(0, Default) \in Records /\ Entry(0, Default).module = 0
      BY ModuleSizes DEF Entry, Records
    <3>2. CASE first = <<>>
      BY <3>2
    <3>3. CASE first = <<Entry(0, Default)>>
      BY <3>1, <3>3
    <3> QED
      BY <1>3, <3>2, <3>3
  <2>3. AllDefault(first) = first \o rest
    BY DEF AllDefault
  <2> HIDE DEF rest
  <2>4. /\ AllDefault(first) \in Seq(Records)
        /\ Len(AllDefault(first)) = Len(first) + NumModules
        /\ \A i \in 1..Len(first) + NumModules :
             AllDefault(first)[i] = IF i <= Len(first) THEN first[i] ELSE rest[i - Len(first)]
    BY <2>1, <2>2, <2>3, ConcatProperties
  <2>5. ASSUME NEW i \in 1..Len(first) + NumModules
        PROVE  AllDefault(first)[i].module = i - Len(first)
    <3>1. CASE i <= Len(first)
      BY <2>2, <2>4, <3>1
    <3>2. CASE i > Len(first)
      <4>1. i - Len(first) \in Modules
        BY <2>2, <3>2, ModuleSizes
      <4> QED
        BY <2>1, <2>2, <2>4, <3>2, <4>1
    <3> QED
      BY <2>2, <3>1, <3>2
  <2>6. DOMAIN AllDefault(first) = 1..Len(first) + NumModules
    BY <2>4, LenProperties
  <2>7. f.kind = "ok" /\ f.tail = 0 /\ f.count = Len(f.entries) /\ f.entries = AllDefault(first)
    BY <1>3, FileFields
  <2>8. Len(AllDefault(first)) \in 0..(NumModules + 1)
    <3>1. Len(AllDefault(first)) \in {NumModules, 1 + NumModules} /\ NumModules \in Nat
      <4>1. Len(AllDefault(first)) = Len(first) + NumModules /\ NumModules \in Nat
        BY <2>4, ModuleSizes
      <4>2. CASE Len(first) = 0
        BY <4>1, <4>2
      <4>3. CASE Len(first) = 1
        BY <4>1, <4>3
      <4> QED
        BY <2>2, <4>2, <4>3
    <3> QED
      BY <3>1
  <2>9. f \in [kind : {"none", "short", "alien", "old", "ok"}, count : 0..(NumModules + 1),
               entries : Seq(Records), tail : 0..NumModules]
    BY <1>3, <2>4, <2>8, ModuleSizes DEF File
  <2>10. \A i, j \in DOMAIN f.entries : i < j => f.entries[i].module < f.entries[j].module
    <3>1. \A i, j \in 1..Len(first) + NumModules : i < j => i - Len(first) < j - Len(first)
      BY <2>2, ModuleSizes
    <3> QED
      BY <2>5, <2>6, <2>7, <3>1
  <2> QED
    BY <2>7, <2>9, <2>10
<1>4. \/ f \in {NoFile, File("alien", 0, <<>>, 0), File("old", 0, <<>>, 0)}
      \/ \E first \in {<<>>, <<Entry(0, Default)>>} :
           f = File("ok", Len(AllDefault(first)), AllDefault(first), 0)
  BY DEF FirstFiles
<1>5. \A n \in Nat : n <= n
  OBVIOUS
<1>6. f.entries \in Seq(Records) => Len(f.entries) \in Nat
  BY LenProperties
<1>7. CASE f \notin {NoFile, File("alien", 0, <<>>, 0), File("old", 0, <<>>, 0)}
  BY <1>3, <1>4, <1>5, <1>6, <1>7
<1> QED
  BY <1>2, <1>7

-----------------------------------------------------------------------------
(* Types *)

PcTypes ==
  pc \in {"open", "header", "entry", "payload", "up", "open_w", "head_w", "name_w", "data_w"}

FileTypes ==
  file \in [kind : {"none", "short", "alien", "old", "ok"}, count : 0..(NumModules + 1),
            entries : Seq(Records), tail : 0..NumModules]

NumberTypes ==
  /\ ram \in [Modules -> Config] /\ idx \in 1..(NumModules + 2) /\ tries \in 1..Retries
  /\ sets \in 0..MaxSets /\ boots \in 0..MaxBoots

FlagTypes == stale \in BOOLEAN /\ lost \in BOOLEAN /\ fresh \in BOOLEAN /\ calm \in BOOLEAN

PromiseTypes == promise \in [valid : BOOLEAN, value : [Modules -> 0..Mixed]]

LEMMA TypesSplit ==
  ConfigTypeOK <=> PcTypes /\ FileTypes /\ NumberTypes /\ FlagTypes /\ PromiseTypes
  BY DEF ConfigTypeOK, PcTypes, FileTypes, NumberTypes, FlagTypes, PromiseTypes, Records

LEMMA FileFacts ==
  ConfigTypeOK =>
    /\ file.count \in Nat /\ file.count <= NumModules + 1
    /\ file.entries \in Seq(Records) /\ Len(file.entries) \in Nat
    /\ DOMAIN file.entries = 1..Len(file.entries)
    /\ \A i \in 1..Len(file.entries) : file.entries[i] \in Records
    /\ file.tail \in 0..NumModules
<1> SUFFICES ASSUME FileTypes
             PROVE  /\ file.count \in Nat /\ file.count <= NumModules + 1
                    /\ file.entries \in Seq(Records) /\ file.tail \in 0..NumModules
  BY TypesSplit, LenProperties
<1> QED
  BY ModuleSizes DEF FileTypes

LEMMA PcStep ==
  ASSUME PcTypes, [ConfigNext]_configVars
  PROVE  PcTypes'
  BY DEF PcTypes, ConfigNext, configVars, Load, Save, OpenFile, ReadHeader, HeaderFails,
     ReopenFails, ReadEntry, SkipFails, EntryFails, LoadEnds, LoadModule, LoadModuleFails, OpenForWrite,
     WriteHeader, WriteName, WriteData, SaveDone, CloseFails, SetConfig, FactoryReset, Restart,
     SaveFails, BeginSave

LEMMA FlagStep ==
  ASSUME FlagTypes, [ConfigNext]_configVars
  PROVE  FlagTypes'
<1> USE DEF FlagTypes, loadVars, ghostVars, NoFault, Fault, SaveFails
<1>1. CASE OpenFile BY <1>1, Zenon DEF OpenFile
<1>2. CASE ReadHeader BY <1>2, Zenon DEF ReadHeader
<1>3. CASE HeaderFails BY <1>3, Zenon DEF HeaderFails
<1>4. CASE ReopenFails BY <1>4, Zenon DEF ReopenFails
<1>5. CASE ReadEntry BY <1>5, Zenon DEF ReadEntry
<1>6. CASE EntryFails BY <1>6, Zenon DEF EntryFails
<1>7. CASE LoadEnds BY <1>7, Zenon DEF LoadEnds
<1>8. CASE LoadModule BY <1>8, Zenon DEF LoadModule
<1>9. CASE LoadModuleFails BY <1>9, Zenon DEF LoadModuleFails
<1>10. CASE OpenForWrite BY <1>10, Zenon DEF OpenForWrite
<1>11. CASE WriteHeader BY <1>11, Zenon DEF WriteHeader
<1>12. CASE WriteName BY <1>12, Zenon DEF WriteName
<1>13. CASE WriteData BY <1>13, Zenon DEF WriteData
<1>14. CASE SaveDone BY <1>14, Zenon DEF SaveDone
<1>15. ASSUME NEW m \in Modules, SetConfig(m) PROVE FlagTypes' BY <1>15, Zenon DEF SetConfig
<1>16. CASE FactoryReset BY <1>16, Zenon DEF FactoryReset
<1>17. CASE Restart BY <1>17, Zenon DEF Restart
<1>18. CASE UNCHANGED configVars BY <1>18, Zenon DEF configVars
<1>19. CASE SkipFails BY <1>19, Zenon DEF SkipFails
<1>20. CASE CloseFails BY <1>20, Zenon DEF CloseFails
<1> QED
  BY <1>1, <1>2, <1>3, <1>4, <1>5, <1>6, <1>7, <1>8, <1>9, <1>10, <1>11, <1>12, <1>13, <1>14,
     <1>15, <1>16, <1>17, <1>18, <1>19, <1>20 DEF ConfigNext, Load, Save

LEMMA PromiseStepTypes ==
  ASSUME PromiseTypes, NumberTypes, [ConfigNext]_configVars
  PROVE  PromiseTypes'
<1>1. CASE promise' = promise
  BY <1>1 DEF PromiseTypes
<1>2. CASE promise' = [promise EXCEPT !.valid = FALSE]
  BY <1>2 DEF PromiseTypes
<1>3. CASE SaveDone
  <2>1. \A m \in Valid : ram[m] \in 0..Mixed
    BY ModuleSizes DEF NumberTypes, Valid
  <2>2. [m \in Modules |-> IF m \in Valid THEN ram[m] ELSE Default] \in [Modules -> 0..Mixed]
    BY <2>1, ModuleSizes
  <2> QED
    BY <1>3, <2>2 DEF SaveDone, PromiseTypes
<1> QED
  BY <1>1, <1>2, <1>3
     DEF ConfigNext, configVars, ghostVars, Load, Save, OpenFile, ReadHeader, HeaderFails,
     ReopenFails, ReadEntry, SkipFails, EntryFails, LoadEnds, LoadModule, LoadModuleFails,
     OpenForWrite, WriteHeader, WriteName, WriteData, CloseFails, SetConfig, FactoryReset, Restart,
     SaveFails, Fault, NoFault

LEMMA PayloadPlace ==
  LoadInv /\ pc = "payload" => idx <= file.count /\ (Whole \/ Torn) /\ Module # 0
  BY DEF LoadInv

\* The loops stay within the modules and the entries.
LEMMA NumberStep ==
  ASSUME ConfigTypeOK, LoadInv, SaveInv, [ConfigNext]_configVars
  PROVE  NumberTypes'
<1> NumberTypes
  BY TypesSplit
<1> USE ModuleSizes DEF NumberTypes, loadVars, ghostVars
<1>0. /\ file.count \in Nat /\ file.count <= NumModules + 1
      /\ file.tail \in 0..NumModules /\ Len(file.entries) \in Nat
      /\ \A i \in 1..Len(file.entries) : file.entries[i] \in Records
  BY FileFacts
<1>1. CASE OpenFile \/ ReadHeader \/ ReopenFails
  BY <1>1 DEF OpenFile, ReadHeader, ReopenFails
<1>2. CASE HeaderFails
  BY <1>2 DEF HeaderFails
<1>3. CASE ReadEntry \/ SkipFails
  <2>1. idx' \in {idx, idx + 1} /\ idx <= file.count /\ UNCHANGED <<ram, tries, sets, boots>>
    BY <1>3 DEF ReadEntry, SkipFails, Announced
  <2>2. idx' \in 1..(NumModules + 2)
    BY <1>0, <2>1
  <2> QED
    BY <2>1, <2>2
<1>4. CASE EntryFails \/ LoadEnds
  BY <1>4 DEF EntryFails, LoadEnds
<1>5. CASE LoadModule
  <2>1. idx \in 1..Len(file.entries)
    BY <1>0, <1>5 DEF LoadModule, Whole
  <2>2. file.entries[idx].value \in Config
    <3>1. file.entries[idx].value \in 0..Mixed
      BY <1>0, <2>1 DEF Records
    <3> QED
      BY <3>1
  <2>3. ram' \in [Modules -> Config]
    BY <1>5, <2>2 DEF LoadModule
  <2>4. idx' \in 1..(NumModules + 2)
    <3>1. idx <= file.count /\ idx' = idx + 1
      BY <1>5, PayloadPlace DEF LoadModule
    <3>2. idx \in Nat /\ idx >= 1 /\ file.count \in Nat /\ file.count <= NumModules + 1
      BY <1>0 DEF NumberTypes
    <3>3. idx + 1 >= 1 /\ idx + 1 <= NumModules + 2 /\ idx + 1 \in Nat
      BY <3>1, <3>2
    <3> QED
      BY <3>1, <3>3
  <2> QED
    BY <1>5, <2>3, <2>4 DEF LoadModule
<1>6. CASE LoadModuleFails
  <2>1. PICK v \in {Default, Mixed, Broken} : ram' = [ram EXCEPT ![Module] = v]
    BY <1>6 DEF LoadModuleFails
  <2>2. v \in Config
    OBVIOUS
  <2>3. ram' \in [Modules -> Config]
    BY <2>1, <2>2
  <2>4. idx' \in 1..(NumModules + 2)
    <3>1. idx <= file.count /\ idx' = idx + 1
      BY <1>6, PayloadPlace DEF LoadModuleFails
    <3>2. idx \in Nat /\ idx >= 1 /\ file.count \in Nat /\ file.count <= NumModules + 1
      BY <1>0 DEF NumberTypes
    <3>3. idx + 1 >= 1 /\ idx + 1 <= NumModules + 2 /\ idx + 1 \in Nat
      BY <3>1, <3>2
    <3> QED
      BY <3>1, <3>3
  <2> QED
    BY <1>6, <2>3, <2>4 DEF LoadModuleFails
<1>7. CASE OpenForWrite \/ WriteHeader
  BY <1>7 DEF OpenForWrite, WriteHeader
<1>8. CASE WriteName
  BY <1>8 DEF WriteName
<1>9. CASE WriteData
  <2>1. idx' \in {idx, idx + 1} /\ UNCHANGED <<ram, tries, sets, boots>>
    BY <1>9 DEF WriteData
  <2>2. idx \in Modules
    BY <1>9 DEF WriteData, SaveInv, Valid
  <2>3. idx' \in 1..(NumModules + 2)
    BY <2>1, <2>2
  <2> QED
    BY <2>1, <2>3
<1>10. CASE SaveDone \/ CloseFails
  BY <1>10 DEF SaveDone, CloseFails
<1>11. ASSUME NEW m \in Modules, SetConfig(m) PROVE NumberTypes'
  <2>1. sets' = sets + 1 /\ sets < MaxSets /\ ram' = [ram EXCEPT ![m] = sets + 1]
        /\ UNCHANGED <<idx, tries, boots>>
    BY <1>11 DEF SetConfig
  <2>2. sets + 1 \in Config /\ sets' \in 0..MaxSets
    <3>1. sets \in Nat /\ sets + 1 <= MaxSets
      BY <2>1
    <3>2. sets + 1 \in 0..MaxSets /\ sets + 1 \in 0..MaxSets + 2
      BY <3>1
    <3> QED
      BY <2>1, <3>2
  <2>3. ram' \in [Modules -> Config]
    BY <2>1, <2>2
  <2> QED
    BY <2>1, <2>2, <2>3
<1>12. CASE FactoryReset
  BY <1>12 DEF FactoryReset
<1>13. CASE Restart
  BY <1>13 DEF Restart, Defaults
<1>14. CASE UNCHANGED configVars
  BY <1>14 DEF configVars
<1> QED
  BY <1>1, <1>2, <1>3, <1>4, <1>5, <1>6, <1>7, <1>8, <1>9, <1>10, <1>11, <1>12, <1>13, <1>14
     DEF ConfigNext, Load, Save

\* What each step writes into the file.
LEMMA FileStep ==
  ASSUME ConfigTypeOK, SaveInv, FileInOrder, [ConfigNext]_configVars
  PROVE  FileTypes' /\ FileInOrder'
<1> FileTypes /\ NumberTypes
  BY TypesSplit
<1> USE ModuleSizes DEF FileInOrder
<1>0. /\ file.count \in Nat /\ file.count <= NumModules + 1 /\ file.entries \in Seq(Records)
      /\ file.tail \in 0..NumModules /\ Len(file.entries) \in Nat
      /\ DOMAIN file.entries = 1..Len(file.entries)
      /\ \A i \in 1..Len(file.entries) : file.entries[i] \in Records
  BY FileFacts
<1>1. CASE UNCHANGED file
  BY <1>1 DEF FileTypes
<1>2. ASSUME NEW kind \in {"none", "short"}, file' = File(kind, 0, <<>>, 0)
      PROVE  FileTypes' /\ FileInOrder'
  <2>1. <<>> \in Seq(Records) /\ Len(<<>>) = 0 /\ DOMAIN <<>> = {}
    OBVIOUS
  <2>2. FileTypes'
    BY <1>2, <2>1 DEF FileTypes, File
  <2> QED
    BY <1>2, <2>1, <2>2, FileFields
<1>3. ASSUME file' = File("ok", Cardinality(Valid), <<>>, 0)
      PROVE  FileTypes' /\ FileInOrder'
  <2>1. <<>> \in Seq(Records) /\ Len(<<>>) = 0 /\ DOMAIN <<>> = {}
    OBVIOUS
  <2>2. FileTypes'
    BY <1>3, <2>1, ValidCounted DEF FileTypes, File
  <2>3. /\ file'.kind = "ok" /\ file'.count = Cardinality(Valid)
        /\ file'.entries = <<>> /\ file'.tail = 0
    BY <1>3, FileFields
  <2>4. Len(file'.entries) <= file'.count
    BY <2>1, <2>3, ValidCounted
  <2> QED
    BY <2>1, <2>2, <2>3, <2>4
<1>4. CASE WriteName /\ file' = [file EXCEPT !.tail = idx]
  <2>1. idx \in Modules /\ pc = "name_w" /\ file.kind = "ok"
    BY <1>4 DEF WriteName, SaveInv
  <2>2. file'.tail = idx /\ file'.kind = file.kind /\ file'.count = file.count
        /\ file'.entries = file.entries /\ FileTypes'
    <3> HIDE DEF FileInOrder
    <3>1. /\ file'.tail = idx /\ file'.kind = file.kind /\ file'.count = file.count
          /\ file'.entries = file.entries
      BY <1>4 DEF FileTypes
    <3>2. idx \in 0..NumModules
      BY <2>1
    <3>3. FileTypes'
      BY <1>4, <3>2 DEF FileTypes
    <3> QED
      BY <3>1, <3>3
  <2>3. \A i \in DOMAIN file.entries : file.entries[i].module < idx
    BY <2>1 DEF SaveInv, Before
  <2> HIDE DEF FileTypes
  <2> QED
    BY <2>1, <2>2, <2>3, Zenon
<1>5. CASE /\ WriteData
           /\ file' = [file EXCEPT !.entries = Append(@, Entry(idx, ram[idx])), !.tail = 0]
  <2>1. /\ idx \in Modules /\ idx \in Valid /\ pc = "data_w" /\ file.kind = "ok"
        /\ file.count = Cardinality(Valid) /\ Len(file.entries) = Cardinality(Before(idx))
    BY <1>5 DEF WriteData, SaveInv, Valid
  <2>2. Entry(idx, ram[idx]) \in Records /\ Entry(idx, ram[idx]).module = idx
    BY <2>1 DEF Entry, Records, Valid, NumberTypes
  <2>3. /\ Append(file.entries, Entry(idx, ram[idx])) \in Seq(Records)
        /\ Len(Append(file.entries, Entry(idx, ram[idx]))) = Len(file.entries) + 1
        /\ DOMAIN Append(file.entries, Entry(idx, ram[idx])) = 1..Len(file.entries) + 1
        /\ \A i \in 1..Len(file.entries) :
             Append(file.entries, Entry(idx, ram[idx]))[i] = file.entries[i]
        /\ Append(file.entries, Entry(idx, ram[idx]))[Len(file.entries) + 1] = Entry(idx, ram[idx])
    BY <1>0, <2>2, AppendProperties
  <2>4. /\ file'.entries = Append(file.entries, Entry(idx, ram[idx])) /\ file'.tail = 0
        /\ file'.kind = file.kind /\ file'.count = file.count /\ FileTypes'
    <3> DEFINE longer == Append(file.entries, Entry(idx, ram[idx]))
    <3>1. file' = [file EXCEPT !.entries = longer, !.tail = 0] /\ longer \in Seq(Records)
      BY <1>5, <2>3
    <3> HIDE DEF longer
    <3> HIDE DEF FileInOrder
    <3>2. FileTypes
      OBVIOUS
    <3>3. /\ file'.entries = longer /\ file'.tail = 0
          /\ file'.kind = file.kind /\ file'.count = file.count
      BY <3>1, <3>2 DEF FileTypes
    <3>4. FileTypes'
      <4>1. file' = [kind |-> file.kind, count |-> file.count, entries |-> longer, tail |-> 0]
        BY <3>1, <3>2 DEF FileTypes
      <4>2. /\ file.kind \in {"none", "short", "alien", "old", "ok"}
            /\ file.count \in 0..NumModules + 1 /\ 0 \in 0..NumModules
        BY <3>2 DEF FileTypes
      <4> QED
        BY <3>1, <4>1, <4>2 DEF FileTypes
    <3> QED
      BY <3>3, <3>4 DEF longer
  <2>5. Len(file.entries) + 1 <= file.count
    BY <2>1, BeforeNext
  <2>6. \A i \in 1..Len(file.entries) : file.entries[i].module < idx
    BY <1>0, <2>1 DEF SaveInv, Before
  <2>7. ASSUME NEW i \in 1..Len(file.entries) + 1, NEW j \in 1..Len(file.entries) + 1, i < j
        PROVE  file'.entries[i].module < file'.entries[j].module
    <3>1. i \in 1..Len(file.entries)
      BY <1>0, <2>7
    <3>2. CASE j = Len(file.entries) + 1
      BY <2>2, <2>3, <2>4, <2>6, <3>1, <3>2
    <3>3. CASE j \in 1..Len(file.entries)
      BY <1>0, <2>3, <2>4, <2>7, <3>1, <3>3
    <3> QED
      BY <1>0, <3>2, <3>3
  <2> QED
    BY <2>1, <2>3, <2>4, <2>5, <2>7
<1>6. ASSUME file.kind = "ok",
             NEW k \in 0..Len(file.entries), NEW torn \in 0..NumModules,
             torn = 0 \/ (k < Len(file.entries) /\ torn = file.entries[k + 1].module),
             file' = File("ok", file.count, SubSeq(file.entries, 1, k), torn)
      PROVE  FileTypes' /\ FileInOrder'
  <2> DEFINE first == SubSeq(file.entries, 1, k)
  <2>1. /\ first \in Seq(Records) /\ Len(first) = k /\ DOMAIN first = 1..k
        /\ \A i \in 1..k : first[i] = file.entries[i]
    <3>1. \A i \in 1..k : file.entries[i] \in Records
      BY <1>0, <1>6
    <3> QED
      BY <1>0, <1>6, <3>1, SubSeqProperties, LenProperties
  <2>2. file' = File("ok", file.count, first, torn)
    BY <1>6
  <2> HIDE DEF first
  <2>3. /\ file'.kind = "ok" /\ file'.count = file.count
        /\ file'.entries = first /\ file'.tail = torn
    <3> HIDE DEF FileInOrder
    <3> QED
      BY <2>2 DEF File
  <2>4. FileTypes'
    <3> HIDE DEF FileInOrder
    <3>1. file' = [kind |-> "ok", count |-> file.count, entries |-> first, tail |-> torn]
      BY <2>2 DEF File
    <3>2. file.count \in 0..NumModules + 1
      BY <1>0
    <3> QED
      BY <2>1, <3>1, <3>2 DEF FileTypes
  <2>5. Len(first) <= file.count
    BY <1>0, <1>6, <2>1
  <2>6. ASSUME NEW i \in 1..k, NEW j \in 1..k, i < j
        PROVE  first[i].module < first[j].module
    <3>1. i \in DOMAIN file.entries /\ j \in DOMAIN file.entries
      BY <1>0, <1>6
    <3>2. file.entries[i].module < file.entries[j].module
      BY <2>6, <3>1
    <3> QED
      BY <2>1, <3>2
  <2>7. ASSUME torn # 0, NEW i \in 1..k
        PROVE  first[i].module < torn
    <3>1. /\ i \in DOMAIN file.entries /\ k + 1 \in DOMAIN file.entries /\ i < k + 1
          /\ torn = file.entries[k + 1].module
      BY <1>0, <1>6, <2>7
    <3>2. file.entries[i].module < file.entries[k + 1].module
      BY <3>1
    <3> QED
      BY <2>1, <3>1, <3>2
  <2>8. \A i, j \in DOMAIN file'.entries : i < j => file'.entries[i].module < file'.entries[j].module
    BY <2>1, <2>3, <2>6
  <2>9. file'.tail # 0 => \A i \in DOMAIN file'.entries : file'.entries[i].module < file'.tail
    BY <2>1, <2>3, <2>7
  <2> QED
    BY <2>3, <2>4, <2>5, <2>8, <2>9
<1>7. CASE CloseFails
  <2>1. file.kind = "ok"
    BY <1>7 DEF CloseFails, SaveInv
  <2> QED
    BY <1>2, <1>6, <1>7, <2>1 DEF CloseFails
<1> QED
  BY <1>1, <1>2, <1>3, <1>4, <1>5, <1>7
     DEF ConfigNext, configVars, Load, Save, OpenFile, ReadHeader, HeaderFails, ReopenFails,
     ReadEntry, SkipFails, EntryFails, LoadEnds, LoadModule, LoadModuleFails, OpenForWrite,
     WriteHeader, WriteName, WriteData, SaveDone, SetConfig, FactoryReset, Restart, NoFile

-----------------------------------------------------------------------------
(* The save *)

LEMMA PromiseFields ==
  ConfigTypeOK => /\ promise.valid \in BOOLEAN /\ promise.value \in [Modules -> 0..Mixed]
                  /\ [promise EXCEPT !.valid = FALSE].valid = FALSE
  BY TypesSplit DEF PromiseTypes

\* A load that ends before the file does takes back what was promised, or
\* nothing was.
LEMMA LoadGivesUp ==
  ASSUME ConfigTypeOK, FileInOrder, LoadInv, PromiseInv,
         OpenFile \/ ReadHeader \/ HeaderFails \/ ReopenFails \/ EntryFails,
         pc' \notin {"header", "entry"}
  PROVE  ~promise'.valid
<1> USE PromiseFields, FileFacts
<1>1. \A f : Fault(f) => ~promise'.valid
  BY DEF Fault
<1>2. NoFault => promise' = promise
  BY DEF NoFault
<1>3. CASE OpenFile
  BY <1>1, <1>2, <1>3 DEF OpenFile, PromiseInv
<1>4. CASE ReadHeader
  BY <1>1, <1>2, <1>4 DEF ReadHeader, PromiseInv
<1>5. CASE HeaderFails
  BY <1>1, <1>2, <1>5 DEF HeaderFails, PromiseInv
<1>6. CASE ReopenFails
  BY <1>1, <1>6 DEF ReopenFails
<1>7. CASE EntryFails
  <2>1. pc = "entry" /\ idx <= file.count
    BY <1>7 DEF EntryFails, Announced
  <2>2. ASSUME promise.valid PROVE Whole /\ ~lost /\ ~stale
    <3>1. calm /\ file.tail = 0 /\ file.count = Len(file.entries) /\ file.kind = "ok"
      BY <2>1, <2>2 DEF PromiseInv, Loading
    <3> QED
      BY <2>1, <3>1 DEF LoadInv, Whole
  <2>3. IF ~(Whole \/ Torn) \/ lost \/ stale THEN NoFault ELSE Fault("read")
    BY <1>7 DEF EntryFails
  <2> QED
    BY <1>1, <1>2, <2>2, <2>3
<1> QED
  BY <1>3, <1>4, <1>5, <1>6, <1>7

\* The entries written keep step with the loop over the modules.
LEMMA SaveStep ==
  ASSUME ConfigInv, [ConfigNext]_configVars
  PROVE  SaveInv'
<1> USE DEF ConfigInv
<1>0. UNCHANGED ram => Valid' = Valid /\ \A k : Before(k)' = Before(k)
  BY DEF Valid, Before
<1>1. CASE pc' \notin {"open_w", "head_w", "name_w", "data_w"}
  BY <1>1 DEF SaveInv
<1>2. CASE pc' = "open_w" /\ ~promise'.valid
  BY <1>2 DEF SaveInv
<1>3. CASE OpenFile \/ ReadHeader \/ HeaderFails \/ ReopenFails \/ EntryFails
  <2>1. pc' \in {"header", "entry", "up", "open_w"}
    BY <1>3 DEF OpenFile, ReadHeader, HeaderFails, ReopenFails, EntryFails, BeginSave
  <2> QED
    BY <1>1, <1>2, <1>3, <2>1, LoadGivesUp
<1>4. CASE ReadEntry \/ SkipFails \/ LoadEnds \/ LoadModule \/ LoadModuleFails
  BY <1>1, <1>4 DEF ReadEntry, SkipFails, LoadEnds, LoadModule, LoadModuleFails
<1>5. CASE OpenForWrite
  <2>1. CASE SaveFails("open")
    BY <1>1, <2>1 DEF SaveFails
  <2>2. CASE ~SaveFails("open")
    <3>1. /\ pc' = "head_w" /\ file' = File("short", 0, <<>>, 0)
          /\ promise' = [promise EXCEPT !.valid = FALSE]
      BY <1>5, <2>2 DEF OpenForWrite
    <3>2. file'.kind = "short" /\ ~promise'.valid
      BY <3>1, FileFields, PromiseFields
    <3> QED
      BY <3>1, <3>2 DEF SaveInv
  <2> QED
    BY <2>1, <2>2
<1>6. CASE WriteHeader
  <2>1. CASE SaveFails("write")
    BY <1>1, <2>1 DEF SaveFails
  <2>2. CASE ~SaveFails("write")
    <3>1. /\ pc = "head_w" /\ pc' = "name_w" /\ UNCHANGED <<ram, promise>> /\ idx' = 1
          /\ file' = File("ok", Cardinality(Valid), <<>>, 0)
      BY <1>6, <2>2 DEF WriteHeader, NoFault
    <3>2. ~promise'.valid
      BY <3>1 DEF SaveInv
    <3>3. /\ file'.kind = "ok" /\ file'.count = Cardinality(Valid)
          /\ file'.entries = <<>> /\ file'.tail = 0
      BY <3>1, FileFields
    <3>4. Valid' = Valid /\ Before(idx') = {} /\ Cardinality(Before(idx')) = 0
      BY <1>0, <3>1, BeforeFirst
    <3>5. DOMAIN <<>> = {} /\ Len(<<>>) = 0 /\ 1 <= NumModules + 1
      BY ModuleSizes
    <3>6. Before(idx)' = {} /\ Len(file'.entries) = 0 /\ DOMAIN file'.entries = {}
      BY <1>0, <3>1, <3>3, <3>4, <3>5
    <3> QED
      BY <3>1, <3>2, <3>3, <3>4, <3>5, <3>6 DEF SaveInv
  <2> QED
    BY <2>1, <2>2
<1>7. CASE WriteName
  <2>1. CASE SaveFails("write")
    BY <1>1, <2>1 DEF SaveFails
  <2>2. CASE ram[idx] # Broken /\ ~SaveFails("write")
    <3>1. /\ pc = "name_w" /\ pc' = "data_w" /\ UNCHANGED <<ram, promise, idx>>
          /\ idx \in Modules /\ file' = [file EXCEPT !.tail = idx]
      BY <1>7, <2>2 DEF WriteName, NoFault
    <3>2. idx \in Valid
      BY <2>2, <3>1 DEF Valid
    <3>3. /\ file'.tail = idx /\ file'.kind = file.kind /\ file'.count = file.count
          /\ file'.entries = file.entries
      BY <3>1, TypesSplit DEF FileTypes
    <3> QED
      BY <1>0, <3>1, <3>2, <3>3 DEF SaveInv
  <2>3. CASE ram[idx] = Broken /\ ~SaveFails("write")
    <3>1. /\ pc = "name_w" /\ pc' = "name_w" /\ UNCHANGED <<ram, promise, file>>
          /\ idx \in Modules /\ idx' = idx + 1
      BY <1>7, <2>3 DEF WriteName, NoFault
    <3>2. idx \notin Valid
      BY <2>3 DEF Valid
    <3>3. Before(idx') = Before(idx) /\ idx' <= NumModules + 1
      BY <3>1, <3>2, BeforeNext, ModuleSizes
    <3> QED
      BY <1>0, <3>1, <3>3 DEF SaveInv
  <2> QED
    BY <1>7, <2>1, <2>2, <2>3 DEF WriteName
<1>8. CASE WriteData
  <2>1. CASE SaveFails("write")
    BY <1>1, <2>1 DEF SaveFails
  <2>2. CASE ~SaveFails("write")
    <3> DEFINE longer == Append(file.entries, Entry(idx, ram[idx]))
    <3>1. /\ pc = "data_w" /\ pc' = "name_w" /\ UNCHANGED <<ram, promise>> /\ idx' = idx + 1
          /\ file' = [file EXCEPT !.entries = longer, !.tail = 0]
      BY <1>8, <2>2 DEF WriteData, NoFault
    <3>2. idx \in Valid /\ idx \in Modules
      BY <3>1 DEF SaveInv, Valid
    <3>3. Entry(idx, ram[idx]).module = idx /\ Entry(idx, ram[idx]).value = ram[idx]
      BY DEF Entry
    <3>4. Entry(idx, ram[idx]) \in Records
      BY <3>2, ModuleSizes, TypesSplit DEF Entry, Records, Valid, NumberTypes
    <3>5. /\ Len(longer) = Len(file.entries) + 1 /\ DOMAIN longer = 1..Len(file.entries) + 1
          /\ \A i \in 1..Len(file.entries) : longer[i] = file.entries[i]
          /\ longer[Len(file.entries) + 1] = Entry(idx, ram[idx])
      BY <3>4, FileFacts, AppendProperties
    <3> HIDE DEF longer
    <3>6. /\ file'.kind = "ok" /\ file'.count = Cardinality(Valid) /\ file'.entries = longer
          /\ file'.tail = 0
      BY <3>1, TypesSplit DEF FileTypes, SaveInv
    <3>7. /\ Before(idx') = Before(idx) \cup {idx}
          /\ Cardinality(Before(idx')) = Len(longer)
          /\ idx' <= NumModules + 1
      <4>1. Cardinality(Before(idx)) = Len(file.entries)
        BY <3>1 DEF SaveInv
      <4>2. /\ Before(idx + 1) = Before(idx) \cup {idx}
            /\ Cardinality(Before(idx + 1)) = Len(file.entries) + 1
        BY <3>2, <4>1, BeforeNext
      <4>3. idx + 1 <= NumModules + 1
        BY <3>2, ModuleSizes
      <4> QED
        BY <3>1, <3>5, <4>2, <4>3
    <3>8. ASSUME NEW i \in DOMAIN longer
          PROVE  longer[i].module \in Before(idx') /\ longer[i].value = ram[longer[i].module]
      <4>1. CASE i = Len(file.entries) + 1
        BY <3>3, <3>5, <3>7, <4>1
      <4>2. CASE i \in 1..Len(file.entries)
        BY <3>1, <3>5, <3>7, <4>2, FileFacts DEF SaveInv
      <4> QED
        BY <3>5, <4>1, <4>2, FileFacts
    <3>9. ASSUME NEW m \in Before(idx')
          PROVE  \E i \in DOMAIN longer : longer[i].module = m
      <4>1. CASE m = idx
        BY <3>3, <3>5, <4>1, FileFacts
      <4>2. CASE m \in Before(idx)
        <5>1. PICK i \in 1..Len(file.entries) : file.entries[i].module = m
          BY <3>1, <4>2, FileFacts DEF SaveInv
        <5>2. i \in DOMAIN longer /\ longer[i].module = m
          BY <3>5, <5>1, FileFacts
        <5> QED
          BY <5>2
      <4> QED
        BY <3>7, <4>1, <4>2
    <3>10. ~promise'.valid
      BY <3>1 DEF SaveInv
    <3> QED
      BY <1>0, <3>1, <3>6, <3>7, <3>8, <3>9, <3>10 DEF SaveInv
  <2> QED
    BY <2>1, <2>2
<1>9. CASE SaveDone \/ CloseFails \/ Restart
  BY <1>1, <1>9 DEF SaveDone, CloseFails, Restart
<1>10. ASSUME NEW m \in Modules, SetConfig(m) PROVE SaveInv'
  BY <1>10 DEF SetConfig, SaveInv
<1>11. CASE FactoryReset
  BY <1>1, <1>11 DEF FactoryReset
<1>12. CASE UNCHANGED configVars
  BY <1>0, <1>12 DEF SaveInv, configVars, loadVars, ghostVars
<1> QED
  BY <1>3, <1>4, <1>5, <1>6, <1>7, <1>8, <1>9, <1>10, <1>11, <1>12 DEF ConfigNext, Load, Save

-----------------------------------------------------------------------------
(* The load *)

\* Each entry read puts one more configuration in force.
LEMMA LoadStep ==
  ASSUME ConfigInv, [ConfigNext]_configVars
  PROVE  LoadInv'
<1> USE DEF ConfigInv, loadVars, ghostVars
<1>0. /\ file.count \in Nat /\ Len(file.entries) \in Nat /\ idx \in Nat /\ idx >= 1
      /\ DOMAIN file.entries = 1..Len(file.entries)
      /\ \A f : Fault(f) => ~calm'
      /\ NoFault => calm' = calm
  BY FileFacts, TypesSplit DEF NumberTypes, Fault, NoFault
<1>1. CASE ~Loading'
  BY <1>1 DEF LoadInv, Loading
<1>2. CASE OpenFile
  <2>1. CASE pc' = "header"
    BY <1>2, <2>1 DEF OpenFile, LoadInv, Loading
  <2> QED
    BY <1>1, <1>2, <2>1 DEF OpenFile, BeginSave, Loading
<1>3. CASE ReadHeader
  <2>1. CASE pc' = "entry"
    <3>1. /\ pc = "header" /\ file.kind = "ok" /\ idx' = 1
          /\ UNCHANGED <<file, ram, stale, lost, fresh, calm>>
      BY <1>3, <2>1 DEF ReadHeader, BeginSave, NoFault
    <3>2. ram = Defaults /\ ~lost /\ fresh /\ (calm => ~stale)
      BY <3>1 DEF LoadInv, Loading
    <3>3. \A m \in Modules : Holds(m, 1, ram[m])'
      BY <1>0, <3>1, <3>2 DEF Holds, Defaults
    <3> QED
      BY <1>0, <2>1, <3>1, <3>2, <3>3 DEF LoadInv, Loading
  <2> QED
    BY <1>1, <1>3, <2>1 DEF ReadHeader, BeginSave, Loading
<1>4. CASE HeaderFails
  <2>1. CASE pc' = "header"
    <3>1. pc = "header" /\ UNCHANGED <<ram, file, lost, fresh>> /\ (file.kind = "ok" => ~calm')
      BY <1>0, <1>4 DEF HeaderFails
    <3> QED
      BY <2>1, <3>1 DEF LoadInv, Loading
  <2> QED
    BY <1>1, <1>4, <2>1 DEF HeaderFails, Loading
<1>5. CASE ReopenFails \/ EntryFails \/ LoadEnds
  BY <1>1, <1>5 DEF ReopenFails, EntryFails, LoadEnds, BeginSave, Loading
<1>6. CASE ReadEntry
  <2>1. /\ pc = "entry" /\ (Whole \/ Torn) /\ idx <= file.count /\ fresh /\ file.kind = "ok"
        /\ UNCHANGED <<ram, file, stale, lost, fresh, calm>>
    BY <1>6 DEF ReadEntry, LoadInv, Loading, Announced
  <2>2. CASE lost \/ Module = 0
    <3>1. pc' = "entry" /\ idx' = idx + 1
      BY <1>6, <2>2 DEF ReadEntry
    <3>2. ASSUME calm
          PROVE  ~lost /\ Whole /\ file.entries[idx].module = 0
      BY <1>0, <2>1, <2>2, <3>2 DEF LoadInv, Whole, Torn, Module
    <3>3. ASSUME calm, NEW m \in Modules
          PROVE  Holds(m, idx + 1, ram[m])
      <4>1. m # 0 /\ Holds(m, idx, ram[m])
        BY <2>1, <3>2, <3>3, ModuleSizes DEF LoadInv
      <4>2. \A i \in DOMAIN file.entries : i < idx + 1 => i < idx \/ i = idx
        BY <1>0
      <4>3. \A i \in DOMAIN file.entries : i < idx => i < idx + 1
        BY <1>0
      <4> QED
        BY <3>2, <3>3, <4>1, <4>2, <4>3 DEF Holds
    <3>4. \A m \in Modules : calm => Holds(m, idx, ram[m])'
      BY <2>1, <3>1, <3>3 DEF Holds
    <3>5. calm => idx' <= Len(file.entries) + 1
      BY <1>0, <3>1, <3>2 DEF Whole
    <3> QED
      BY <1>0, <2>1, <3>1, <3>2, <3>4, <3>5 DEF LoadInv, Loading
  <2>3. CASE ~lost /\ Module # 0
    <3>1. pc' = "payload" /\ idx' = idx
      BY <1>6, <2>3 DEF ReadEntry
    <3>2. Whole' = Whole /\ Torn' = Torn /\ Module' = Module
      BY <2>1, <3>1 DEF Whole, Torn, Module
    <3>3. \A m \in Modules : Holds(m, idx, ram[m]) => Holds(m, idx, ram[m])'
      BY <2>1, <3>1 DEF Holds
    <3> QED
      BY <2>1, <2>3, <3>1, <3>2, <3>3 DEF LoadInv, Loading
  <2> QED
    BY <2>2, <2>3
<1>7. CASE LoadModule
  <2>1. /\ pc = "payload" /\ Whole /\ pc' = "entry" /\ idx' = idx + 1
        /\ ram' = [ram EXCEPT ![Module] = file.entries[idx].value]
        /\ UNCHANGED <<file, stale, lost, fresh, calm>>
    BY <1>7 DEF LoadModule
  <2>2. fresh /\ file.kind = "ok" /\ Module = file.entries[idx].module
    BY <2>1 DEF LoadInv, Loading, Module
  <2>3. idx \in 1..Len(file.entries)
    BY <1>0, <2>1 DEF Whole
  <2>4. ASSUME calm
        PROVE  ~lost /\ ~stale /\ idx' <= Len(file.entries) + 1
    BY <1>0, <2>1, <2>3, <2>4 DEF LoadInv
  <2>5. ASSUME calm, NEW m \in Modules
        PROVE  Holds(m, idx + 1, ram'[m])
    <3>1. Holds(m, idx, ram[m])
      BY <2>1, <2>4, <2>5 DEF LoadInv
    <3>2. \A i \in DOMAIN file.entries : i < idx + 1 <=> i < idx \/ i = idx
      BY <1>0
    <3>3. CASE m = Module
      <4>1. ram'[m] = file.entries[idx].value
        BY <2>1, <2>5, <3>3, TypesSplit DEF NumberTypes
      <4>2. \A i \in DOMAIN file.entries : i < idx => file.entries[i].module # m
        <5>1. ASSUME NEW i \in DOMAIN file.entries, i < idx
              PROVE  file.entries[i].module # m
          <6>1. file.entries[i].module < file.entries[idx].module
            BY <1>0, <2>3, <5>1 DEF FileInOrder
          <6>2. m \in Nat
            BY ModuleSizes
          <6> QED
            BY <2>2, <3>3, <6>1, <6>2
        <5> QED
          BY <5>1
      <4> QED
        BY <1>0, <2>2, <2>3, <3>2, <3>3, <4>1, <4>2 DEF Holds
    <3>4. CASE m # Module
      <4>1. ram'[m] = ram[m]
        BY <2>1, <2>5, <3>4, TypesSplit DEF NumberTypes
      <4> QED
        BY <2>2, <3>1, <3>2, <3>4, <4>1 DEF Holds
    <3> QED
      BY <3>3, <3>4
  <2>6. \A m \in Modules : calm => Holds(m, idx, ram[m])'
    BY <2>1, <2>5 DEF Holds
  <2> QED
    BY <1>0, <2>1, <2>2, <2>4, <2>6 DEF LoadInv, Loading
<1>8. CASE LoadModuleFails
  <2>1. /\ pc = "payload" /\ pc' = "entry" /\ idx' = idx + 1 /\ lost'
        /\ UNCHANGED <<file, stale, fresh>>
        /\ calm' => Torn \/ stale
        /\ calm' => calm' = calm
    BY <1>0, <1>8 DEF LoadModuleFails
  <2>2. fresh /\ file.kind = "ok"
    BY <2>1 DEF LoadInv, Loading
  <2>3. ASSUME calm'
        PROVE  /\ calm /\ ~stale /\ ~lost /\ Torn /\ Module = file.tail /\ file.tail # 0
               /\ idx = Len(file.entries) + 1
    <3>1. calm /\ ~stale
      BY <2>1, <2>2, <2>3 DEF LoadInv
    <3>2. Torn
      BY <2>1, <2>3, <3>1
    <3>3. file.tail # 0 /\ idx = Len(file.entries) + 1
      BY <3>2 DEF Torn
    <3>4. ~lost
      BY <1>0, <2>1, <3>1, <3>3 DEF LoadInv
    <3>5. Module = file.tail
      BY <1>0, <3>3 DEF Module, Whole
    <3> QED
      BY <3>1, <3>2, <3>3, <3>4, <3>5
  <2>4. ASSUME calm', NEW m \in Modules, m # file.tail
        PROVE  Holds(m, idx + 1, ram'[m])
    <3>1. Holds(m, idx, ram[m])
      BY <2>1, <2>3, <2>4 DEF LoadInv
    <3>2. ram'[m] = ram[m]
      BY <1>8, <2>3, <2>4, TypesSplit DEF LoadModuleFails, NumberTypes
    <3>3. \A i \in DOMAIN file.entries : i < idx + 1 <=> i < idx
      BY <1>0, <2>3, <2>4
    <3> QED
      BY <3>1, <3>2, <3>3 DEF Holds
  <2>5. \A m \in Modules : calm' /\ m # file.tail => Holds(m, idx, ram[m])'
    BY <2>1, <2>4 DEF Holds
  <2> QED
    BY <1>0, <2>1, <2>2, <2>3, <2>5 DEF LoadInv, Loading
<1>9. CASE Save
  BY <1>1, <1>9 DEF Save, OpenForWrite, WriteHeader, WriteName, WriteData, SaveDone, CloseFails,
     SaveFails, Loading
<1>10. ASSUME NEW m \in Modules, SetConfig(m) PROVE LoadInv'
  BY <1>1, <1>10 DEF SetConfig, Loading
<1>11. CASE FactoryReset
  BY <1>1, <1>11 DEF FactoryReset, Loading
<1>12. CASE Restart
  BY <1>12 DEF Restart, LoadInv, Loading, Defaults
<1>13. CASE UNCHANGED configVars
  BY <1>13 DEF configVars, LoadInv, Loading, Holds, Whole, Torn, Module
<1>14. CASE SkipFails
  <2>1. /\ pc = "entry" /\ pc' = "entry" /\ ~calm' /\ idx' >= 1
        /\ UNCHANGED <<file, fresh>>
    BY <1>0, <1>14 DEF SkipFails
  <2> QED
    BY <2>1 DEF LoadInv, Loading
<1> QED
  BY <1>2, <1>3, <1>4, <1>5, <1>6, <1>7, <1>8, <1>9, <1>10, <1>11, <1>12, <1>13, <1>14
     DEF ConfigNext, Load

-----------------------------------------------------------------------------
(* What is promised, and what a boot leaves *)

\* A step that leaves file and promise alone and stays in a load or in a run.
LEMMA PromiseSame ==
  ASSUME PromiseInv, UNCHANGED <<file, promise>>,
         Loading' => Loading /\ calm' = calm,
         pc' = "up" /\ fresh' => ~promise.valid \/ (pc = "up" /\ fresh /\ ram' = ram)
  PROVE  PromiseInv'
  BY DEF PromiseInv, Holds

\* A load keeps the promise or takes it back.
LEMMA PromiseLoads ==
  ASSUME ConfigInv, Load
  PROVE  PromiseInv' /\ StableInv'
<1> USE DEF ConfigInv
<1>0. /\ file.count \in Nat /\ Len(file.entries) \in Nat /\ Len(file.entries) <= file.count
      /\ DOMAIN file.entries = 1..Len(file.entries)
      /\ \A f : Fault(f) => ~calm' /\ ~promise'.valid
      /\ NoFault => calm' = calm /\ promise' = promise
  BY FileFacts, PromiseFields DEF Fault, NoFault, FileInOrder
<1>1. ASSUME ~promise'.valid PROVE PromiseInv'
  BY <1>1 DEF PromiseInv
<1>2. ASSUME pc' # "up" PROVE StableInv'
  BY <1>2 DEF StableInv
<1>3. ASSUME BeginSave, UNCHANGED ram PROVE StableInv'
  <2>1. CASE Valid = {}
    <3>1. \A m \in Modules : ram'[m] = Broken
      BY <1>3, <2>1 DEF Valid
    <3> QED
      BY <3>1 DEF StableInv
  <2>2. CASE Valid # {}
    BY <1>2, <1>3, <2>2 DEF BeginSave
  <2> QED
    BY <2>1, <2>2
<1>4. ASSUME UNCHANGED <<file, ram>>, ram = Defaults, file.kind # "ok" PROVE StableInv'
  <2>1. DOMAIN <<>> = {}
    OBVIOUS
  <2> QED
    BY <1>4, <2>1 DEF StableInv, Holds, Defaults, FileInOrder
<1>5. CASE OpenFile
  <2>1. CASE pc' = "header" /\ NoFault
    <3>1. pc = "open" /\ UNCHANGED <<file, ram>>
      BY <1>5 DEF OpenFile
    <3>2. PromiseInv'
      BY <1>0, <2>1, <3>1, PromiseSame DEF Loading
    <3> QED
      BY <1>2, <2>1, <3>2
  <2>2. CASE BeginSave
    <3>1. pc' \notin {"header", "entry"} /\ UNCHANGED ram
      BY <1>5, <2>2 DEF OpenFile, BeginSave
    <3> QED
      BY <1>1, <1>3, <1>5, <2>2, <3>1, LoadGivesUp
  <2> QED
    BY <1>5, <2>1, <2>2 DEF OpenFile
<1>6. CASE ReadHeader
  <2>1. pc = "header" /\ UNCHANGED ram
    BY <1>6 DEF ReadHeader
  <2>2. CASE pc' = "entry"
    <3>1. UNCHANGED file /\ NoFault
      BY <1>6, <2>2 DEF ReadHeader, BeginSave
    <3>2. PromiseInv'
      BY <1>0, <2>1, <2>2, <3>1, PromiseSame DEF Loading
    <3> QED
      BY <1>2, <2>2, <3>2
  <2>3. CASE BeginSave
    <3>1. pc' \notin {"header", "entry"}
      BY <2>3 DEF BeginSave
    <3> QED
      BY <1>1, <1>3, <1>6, <2>1, <2>3, <3>1, LoadGivesUp
  <2>4. CASE file.kind = "alien" /\ pc' = "up" /\ UNCHANGED file
    <3>1. ram = Defaults
      BY <2>1 DEF LoadInv
    <3> QED
      BY <1>1, <1>4, <1>6, <2>1, <2>4, <3>1, LoadGivesUp
  <2> QED
    BY <1>6, <2>2, <2>3, <2>4 DEF ReadHeader
<1>7. CASE HeaderFails
  <2>1. pc = "header" /\ UNCHANGED <<file, ram>> /\ pc' \in {"header", "up"}
        /\ ((file.kind = "short" /\ NoFault) \/ Fault("read"))
    BY <1>7 DEF HeaderFails
  <2>2. CASE pc' = "header"
    <3>1. PromiseInv'
      BY <1>0, <1>1, <2>1, <2>2, PromiseSame DEF Loading
    <3> QED
      BY <1>2, <2>2, <3>1
  <2>3. CASE pc' = "up"
    <3>1. PromiseInv'
      BY <1>1, <1>7, <2>3, LoadGivesUp
    <3>2. ram = Defaults
      BY <2>1 DEF LoadInv
    <3>3. CASE Fault("read")
      BY <1>0, <3>1, <3>3 DEF StableInv
    <3>4. CASE file.kind = "short"
      BY <1>4, <2>1, <3>1, <3>2, <3>4
    <3> QED
      BY <2>1, <3>3, <3>4
  <2> QED
    BY <2>1, <2>2, <2>3
<1>8. CASE ReopenFails
  <2>1. pc' = "up" /\ Fault("open")
    BY <1>8 DEF ReopenFails
  <2> QED
    BY <1>0, <1>1, <2>1 DEF StableInv
<1>9. CASE ReadEntry \/ LoadModule
  <2>1. /\ UNCHANGED <<file, promise, calm>> /\ pc \in {"entry", "payload"}
        /\ pc' \in {"entry", "payload"}
    BY <1>9 DEF ReadEntry, LoadModule, ghostVars
  <2>2. PromiseInv'
    BY <2>1, PromiseSame DEF Loading
  <2> QED
    BY <1>2, <2>1, <2>2
<1>10. CASE LoadModuleFails
  <2>1. /\ UNCHANGED file /\ pc = "payload" /\ pc' = "entry" /\ (NoFault \/ Fault("read"))
    BY <1>10 DEF LoadModuleFails
  <2>2. CASE NoFault
    <3>1. PromiseInv'
      BY <1>0, <2>1, <2>2, PromiseSame DEF Loading
    <3> QED
      BY <1>2, <2>1, <3>1
  <2>3. CASE Fault("read")
    BY <1>0, <1>1, <1>2, <2>1, <2>3
  <2> QED
    BY <2>1, <2>2, <2>3
<1>11. CASE EntryFails
  <2>1. BeginSave /\ UNCHANGED ram /\ pc' \notin {"header", "entry"}
    BY <1>11 DEF EntryFails, BeginSave
  <2> QED
    BY <1>1, <1>3, <1>11, <2>1, LoadGivesUp
<1>12. CASE LoadEnds
  <2>1. /\ pc = "entry" /\ pc' = "up" /\ ~(idx <= file.count)
        /\ UNCHANGED <<ram, file, idx, lost, fresh, calm, promise>>
    BY <1>12 DEF LoadEnds, Announced, loadVars, ghostVars
  <2>2. idx \in Nat /\ fresh /\ file.kind = "ok"
    BY <2>1, TypesSplit DEF NumberTypes, LoadInv, Loading
  <2>3. \A i \in DOMAIN file.entries : i < idx /\ i < file.count + 1
    BY <1>0, <2>1, <2>2
  <2>4. ASSUME calm, NEW m \in Modules, lost => m # file.tail
        PROVE  Holds(m, file.count + 1, ram[m])
    <3>1. Holds(m, idx, ram[m])
      BY <2>1, <2>4 DEF LoadInv
    <3> QED
      BY <2>3, <3>1 DEF Holds
  <2>5. StableInv'
    BY <2>1, <2>4 DEF StableInv, Holds
  <2>6. ASSUME promise.valid, NEW m \in Modules
        PROVE  ram[m] = promise.value[m]
    <3>1. calm /\ file.tail = 0 /\ Holds(m, file.count + 1, promise.value[m])
      BY <2>1, <2>6 DEF PromiseInv, Loading
    <3>2. Holds(m, file.count + 1, ram[m])
      BY <2>1, <2>4, <3>1, ModuleSizes
    <3> QED
      BY <2>3, <3>1, <3>2 DEF Holds
  <2>7. PromiseInv'
    BY <2>1, <2>6 DEF PromiseInv, Holds, Loading
  <2> QED
    BY <2>5, <2>7
<1>13. CASE SkipFails
  <2>1. pc' = "entry" /\ Fault("seek")
    BY <1>13 DEF SkipFails
  <2> QED
    BY <1>0, <1>1, <1>2, <2>1
<1> QED
  BY <1>5, <1>6, <1>7, <1>8, <1>9, <1>10, <1>11, <1>12, <1>13 DEF Load

\* A save that is under way promises nothing; one that is done, what is in force.
LEMMA PromiseSaves ==
  ASSUME ConfigInv, Save
  PROVE  PromiseInv' /\ StableInv'
<1> USE DEF ConfigInv
<1>1. ASSUME ~promise'.valid, pc' # "up" PROVE PromiseInv' /\ StableInv'
  BY <1>1 DEF PromiseInv, StableInv
<1>2. ASSUME NEW f, SaveFails(f), UNCHANGED <<file, fresh>>, Writing
      PROVE  PromiseInv' /\ StableInv'
  <2>1. pc' = "up" /\ ~calm' /\ UNCHANGED promise
    BY <1>2 DEF SaveFails
  <2>2. fresh => ~promise.valid
    BY <1>2 DEF SaveInv, Writing
  <2>3. PromiseInv'
    BY <1>2, <2>1, <2>2, PromiseSame DEF Loading
  <2> QED
    BY <2>1, <2>3 DEF StableInv
<1>3. CASE OpenForWrite
  <2>1. CASE SaveFails("open") /\ UNCHANGED file
    BY <1>2, <1>3, <2>1 DEF OpenForWrite, Writing
  <2>2. CASE pc' = "head_w" /\ promise' = [promise EXCEPT !.valid = FALSE]
    BY <1>1, <2>2, PromiseFields
  <2> QED
    BY <1>3, <2>1, <2>2 DEF OpenForWrite
<1>4. CASE WriteHeader \/ WriteName \/ WriteData
  <2>1. pc \in {"head_w", "name_w", "data_w"} /\ UNCHANGED fresh
    BY <1>4 DEF WriteHeader, WriteName, WriteData
  <2>2. CASE SaveFails("write") /\ UNCHANGED file
    BY <1>2, <2>1, <2>2 DEF Writing
  <2>3. CASE pc' \in {"name_w", "data_w"} /\ promise' = promise
    <3>1. ~promise'.valid
      BY <2>1, <2>3 DEF SaveInv
    <3> QED
      BY <1>1, <2>3, <3>1
  <2> QED
    BY <1>4, <2>1, <2>2, <2>3 DEF WriteHeader, WriteName, WriteData, NoFault
<1>5. CASE SaveDone
  <2>1. /\ pc = "name_w" /\ idx > NumModules /\ pc' = "up"
        /\ promise' = [valid |-> TRUE,
                       value |-> [m \in Modules |-> IF m \in Valid THEN ram[m] ELSE Default]]
        /\ UNCHANGED <<ram, file, fresh, calm>>
    BY <1>5 DEF SaveDone
  <2>2. idx = NumModules + 1
    BY <2>1, ModuleSizes, TypesSplit DEF SaveInv, NumberTypes
  <2>3. /\ file.kind = "ok" /\ file.tail = 0 /\ file.count = Cardinality(Valid)
        /\ Len(file.entries) = Cardinality(Valid)
        /\ \A i \in DOMAIN file.entries : /\ file.entries[i].module \in Valid
                                          /\ file.entries[i].value = ram[file.entries[i].module]
        /\ \A m \in Valid : \E i \in DOMAIN file.entries : file.entries[i].module = m
    BY <2>1, <2>2, BeforeLast DEF SaveInv
  <2>4. \A i \in DOMAIN file.entries : i < file.count + 1
    BY <2>3, FileFacts
  <2>5. ASSUME NEW m \in Modules
        PROVE  Holds(m, file.count + 1, IF m \in Valid THEN ram[m] ELSE Default)
    <3>1. CASE m \in Valid
      BY <2>3, <2>4, <3>1 DEF Holds
    <3>2. CASE m \notin Valid
      BY <2>3, <2>4, <3>2 DEF Holds
    <3> QED
      BY <3>1, <3>2
  <2>6. \A m \in Modules : ram[m] # Broken => m \in Valid
    BY DEF Valid
  <2>7. \A m \in Modules : promise'.value[m] = IF m \in Valid THEN ram[m] ELSE Default
    BY <2>1
  <2>8. PromiseInv'
    BY <2>1, <2>3, <2>5, <2>6, <2>7 DEF PromiseInv, Holds, Loading
  <2>9. StableInv'
    BY <2>1, <2>5, <2>6 DEF StableInv, Holds
  <2> QED
    BY <2>8, <2>9
<1>6. CASE CloseFails
  <2>1. ~calm' /\ ~promise'.valid
    BY <1>6, PromiseFields DEF CloseFails, Fault
  <2> QED
    BY <2>1 DEF PromiseInv, StableInv
<1> QED
  BY <1>3, <1>4, <1>5, <1>6 DEF Save

LEMMA PromiseStep ==
  ASSUME ConfigInv, [ConfigNext]_configVars
  PROVE  PromiseInv' /\ StableInv'
<1> USE DEF ConfigInv
<1>1. ASSUME NEW m \in Modules, SetConfig(m) PROVE PromiseInv' /\ StableInv'
  <2>1. UNCHANGED <<file, promise>> /\ ~fresh' /\ pc' \in {"up", "open_w"}
    BY <1>1 DEF SetConfig
  <2> QED
    BY <2>1, PromiseSame DEF Loading, StableInv
<1>2. CASE FactoryReset
  BY <1>2, PromiseFields DEF FactoryReset, PromiseInv, StableInv
<1>3. CASE Restart
  <2>1. UNCHANGED <<file, promise>> /\ pc' = "open" /\ calm'
    BY <1>3 DEF Restart
  <2> QED
    BY <2>1 DEF PromiseInv, StableInv, Holds, Loading
<1>4. CASE UNCHANGED configVars
  BY <1>4, PromiseSame DEF configVars, loadVars, ghostVars, Loading, StableInv, Holds
<1> QED
  BY <1>1, <1>2, <1>3, <1>4, PromiseLoads, PromiseSaves DEF ConfigNext

-----------------------------------------------------------------------------
(* Theorems *)

(* The invariant of the stored configuration, through every restart. *)
THEOREM ConfigCorrect == ConfigSpec => []ConfigInv
<1>1. ConfigInit => ConfigInv
  <2> SUFFICES ASSUME ConfigInit PROVE ConfigInv
    OBVIOUS
  <2>1. /\ ram = Defaults /\ pc = "open" /\ file \in FirstFiles
        /\ idx = 1 /\ tries = 1 /\ ~stale /\ ~lost /\ fresh /\ calm /\ sets = 0 /\ boots = 0
        /\ promise = [valid |-> FALSE, value |-> Defaults]
    BY DEF ConfigInit
  <2>2. PcTypes /\ FileTypes /\ NumberTypes
    BY <2>1, FirstFilesOk, ModuleSizes DEF PcTypes, FileTypes, NumberTypes, Defaults
  <2>3. FlagTypes
    BY Zenon DEF ConfigInit, FlagTypes
  <2>4. PromiseTypes
    BY <2>1, ModuleSizes DEF PromiseTypes, Defaults
  <2>5. FileInOrder
    BY <2>1, FirstFilesOk DEF FileInOrder
  <2>6. LoadInv /\ SaveInv /\ StableInv /\ PromiseInv
    BY <2>1 DEF LoadInv, SaveInv, StableInv, PromiseInv, Loading
  <2> QED
    BY <2>2, <2>3, <2>4, <2>5, <2>6, TypesSplit DEF ConfigInv
<1>2. ConfigInv /\ [ConfigNext]_configVars => ConfigInv'
  <2> SUFFICES ASSUME ConfigInv, [ConfigNext]_configVars PROVE ConfigInv'
    OBVIOUS
  <2>1. PcTypes' /\ FlagTypes' /\ PromiseTypes' /\ NumberTypes' /\ FileTypes' /\ FileInOrder'
    BY TypesSplit, PcStep, FlagStep, PromiseStepTypes, NumberStep, FileStep DEF ConfigInv
  <2>2. ConfigTypeOK'
    BY <2>1 DEF ConfigTypeOK, PcTypes, FileTypes, NumberTypes, FlagTypes, PromiseTypes, Records
  <2> QED
    BY <2>1, <2>2, LoadStep, SaveStep, PromiseStep DEF ConfigInv
<1> QED
  BY <1>1, <1>2, PTL DEF ConfigSpec

(* ConfigTypeOK: whatever file is found and whichever of Faults happen, the load  *)
(* and the save stay within the modules and the entries of the file.              *)
THEOREM ConfigTypeCorrect == ConfigSpec => []ConfigTypeOK
<1>1. ConfigInv => ConfigTypeOK
  BY DEF ConfigInv
<1> QED
  BY <1>1, ConfigCorrect, PTL

(* ReportedIsKept: what a save that succeeded has stored is in force after any    *)
(* number of boots, until a later save begins, the file is wiped, or a call that  *)
(* reads it or closes it after that save fails, for every number of modules       *)
(* (config.c:571-635).                                                            *)
THEOREM SavesAreKept == ConfigSpec => []ReportedIsKept
<1>1. ConfigInv => ReportedIsKept
  BY DEF ConfigInv, PromiseInv, ReportedIsKept
<1> QED
  BY <1>1, ConfigCorrect, PTL

(* StableBoots: a boot without a failing call leaves in the file what it left in  *)
(* force, wherever an earlier save was cut (config.c:510-568).                    *)
THEOREM BootsAreStable == ConfigSpec => []StableBoots
<1>1. ConfigInv => StableBoots
  <2> SUFFICES ASSUME ConfigInv, pc = "up", fresh, calm,
                      NEW m \in Modules, m # file.tail, ram[m] # Broken
               PROVE  ram[m] = Stored(m)
    BY DEF StableBoots
  <2> DEFINE own == {i \in DOMAIN file.entries : file.entries[i].module = m}
  <2>1. Holds(m, file.count + 1, ram[m])
    BY DEF ConfigInv, StableInv
  <2>2. \A i \in DOMAIN file.entries : i < file.count + 1
    BY FileFacts DEF ConfigInv, FileInOrder
  <2>3. CASE own = {}
    BY <2>1, <2>3 DEF Holds, Stored
  <2>4. CASE own # {}
    <3>1. (CHOOSE i \in own : TRUE) \in own
      BY <2>4
    <3>2. file.kind = "ok"
      BY <2>4 DEF ConfigInv, FileInOrder
    <3>3. Stored(m) = file.entries[CHOOSE i \in own : TRUE].value
      BY <2>4, <3>2 DEF Stored
    <3> QED
      BY <2>1, <2>2, <3>1, <3>3 DEF Holds
  <2> QED
    BY <2>3, <2>4
<1> QED
  BY <1>1, ConfigCorrect, PTL
================================================================================
