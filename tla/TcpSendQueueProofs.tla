------------------------- MODULE TcpSendQueueProofs -------------------------
(***************************************************************************)
(* Proofs about TcpSendQueue, for every capacity, file size, batch size,   *)
(* row type and set of IOFaults.                                           *)
(***************************************************************************)
EXTENDS TcpSendQueue, SequenceTheorems, TLAPS

-----------------------------------------------------------------------------
(* Indices modulo the capacity *)

\* The slots are the numbers below the capacity, and there is one.
LEMMA SlotDef == /\ Capacity \in Nat /\ Capacity > 0 /\ MaxFile \in Nat /\ MaxFile > 0
                 /\ \A i : i \in Slots <=> i \in Nat /\ i < Capacity
  BY SizesAssumption DEF Slots

\* (idx + n) % cfg->capacity is a slot, and adding two offsets in turn is
\* adding their sum: the arithmetic of every index of the ring.
LEMMA SlotMod == \A a \in Nat : a % Capacity \in Slots
  BY SizesAssumption DEF Slots

LEMMA ModSmall == \A a \in Slots : a % Capacity = a
  BY SizesAssumption DEF Slots

LEMMA ModWrap ==
  \A a \in Nat : Capacity <= a /\ a < 2 * Capacity => a % Capacity = a - Capacity
  BY SizesAssumption

LEMMA ModFull == \A h \in Slots : (h + Capacity) % Capacity = h
  BY SizesAssumption DEF Slots

LEMMA ModShift ==
  ASSUME NEW h \in Slots, NEW a \in Nat, NEW b \in Nat, a + b <= Capacity
  PROVE  (((h + a) % Capacity) + b) % Capacity = (h + (a + b)) % Capacity
<1>1. h \in Nat /\ h < Capacity /\ Capacity \in Nat
  BY SlotDef
<1>2. CASE h + a < Capacity
  <2>1. (h + a) % Capacity = h + a
    BY <1>1, <1>2, ModSmall, SlotDef
  <2> QED
    BY <1>1, <2>1
<1>3. CASE h + a >= Capacity
  <2>1. (h + a) % Capacity = h + a - Capacity
    BY <1>1, <1>3, ModWrap
  <2>2. (h + (a + b)) % Capacity = h + (a + b) - Capacity
    BY <1>1, <1>3, ModWrap
  <2>3. (h + a - Capacity + b) % Capacity = h + a - Capacity + b
    BY <1>1, <1>3, ModSmall, SlotDef
  <2>4. h + a - Capacity + b = h + (a + b) - Capacity
    BY <1>1
  <2> QED
    BY <2>1, <2>2, <2>3, <2>4
<1> QED
  BY <1>1, <1>2, <1>3

-----------------------------------------------------------------------------
(* Sequences *)

\* AtMost returns a sequence of the same rows.
LEMMA AtMostType ==
  ASSUME NEW s \in Seq(Nat), NEW n \in Nat
  PROVE  AtMost(n, s) \in Seq(Nat)
  BY SubSeqProperties DEF AtMost

LEMMA ElementsType ==
  ASSUME NEW s \in Seq(Nat)
  PROVE  Elements(s) \subseteq Nat
  BY DEF Elements

\* The rows of the ring, of the file and of the queue are sequences of rows.
LEMMA ContentsType ==
  ASSUME QueueTypeOK, file \in Seq(Nat), readOffset <= Len(file)
  PROVE  /\ RingRows \in Seq(Nat) /\ Len(RingRows) = count
         /\ Unread \in Seq(Nat) /\ Len(Unread) = Len(file) - readOffset
         /\ Contents \in Seq(Nat)
         /\ Len(Contents) = Len(file) - readOffset + count
<1>1. head \in Slots /\ count \in Nat /\ ring \in [Slots -> Nat]
      /\ readOffset \in 0..Len(file)
  BY LenProperties DEF QueueTypeOK
<1>2. RingRows \in [1..count -> Nat]
  <2>1. \A i \in 1..count : head + i - 1 \in Nat
    BY <1>1, SlotDef
  <2>2. \A i \in 1..count : (head + i - 1) % Capacity \in Slots
    BY <2>1, SlotMod
  <2> QED
    BY <2>2, <1>1 DEF RingRows
<1>3. RingRows \in Seq(Nat) /\ Len(RingRows) = count
  BY <1>1, <1>2, SeqDef
<1>4. Unread \in Seq(Nat) /\ Len(Unread) = Len(file) - readOffset
  BY <1>1, SubSeqProperties, LenProperties DEF Unread
<1> QED
  BY <1>3, <1>4, ConcatProperties DEF Contents

-----------------------------------------------------------------------------
(* Type correctness and the indices *)

\* IndexInv of the model is inductive.
LEMMA IndexInit == Init => IndexInv
<1> SUFFICES ASSUME Init PROVE IndexInv
  OBVIOUS
<1>1. QueueTypeOK
  BY SlotDef DEF Init, QueueTypeOK, EmptyRing, NoRow
<1>2. FlashTypeOK
  BY SlotDef, EmptySeq DEF Init, FlashTypeOK, NoDat
<1>3. TaskTypeOK
  BY EmptySeq DEF Init, TaskTypeOK, NoRow
<1>4. HistoryTypeOK
  BY DEF Init, HistoryTypeOK
<1>5. RingConsistent
  BY ModSmall, SlotDef DEF Init, RingConsistent, NoDat
<1>6. OverflowInBounds
  BY SlotDef DEF Init, OverflowInBounds
<1> QED
  BY <1>1, <1>2, <1>3, <1>4, <1>5, <1>6 DEF IndexInv, TypeOK

\* The snapshot alone: the part of the invariant queue_persist_save
\* establishes for queue_persist_load.
SnapshotType == [state : {"none", "bad", "good"}, head : Slots, tail : Slots,
                 rows : Seq(Nat)]
SnapshotConsistent(d) == /\ Len(d.rows) <= Capacity
                         /\ d.tail = (d.head + Len(d.rows)) % Capacity

\* No snapshot, and one that cannot be read, count as empty ones.
LEMMA NoDatConsistent ==
  /\ NoDat \in SnapshotType /\ SnapshotConsistent(NoDat)
  /\ BadDat \in SnapshotType /\ SnapshotConsistent(BadDat)
  /\ Len(NoDat.rows) <= Capacity /\ NoDat.tail = (NoDat.head + Len(NoDat.rows)) % Capacity
<1>1. 0 \in Slots /\ (0 + 0) % Capacity = 0 /\ 0 <= Capacity
  BY SlotDef, ModSmall
<1>2. <<>> \in Seq(Nat) /\ Len(<<>>) = 0
  BY EmptySeq
<1>3. NoDat \in SnapshotType /\ BadDat \in SnapshotType
  BY <1>1, <1>2 DEF NoDat, BadDat, SnapshotType
<1>4. /\ NoDat.head = 0 /\ NoDat.tail = 0 /\ NoDat.rows = <<>>
      /\ BadDat.head = 0 /\ BadDat.tail = 0 /\ BadDat.rows = <<>>
  BY DEF NoDat, BadDat
<1> QED
  BY <1>1, <1>2, <1>3, <1>4 DEF SnapshotConsistent

\* What queue_push does to the ring and to the file, whoever calls it.
LEMMA PushIndices ==
  ASSUME IndexInv, phase = "run", UNCHANGED <<dat, savedOffset, phase>>,
         NEW r \in Nat, PushToRing(r) \/ PushEvicting(r) \/ PushRefused
  PROVE  /\ QueueTypeOK' /\ file' \in Seq(Nat)
         /\ dropped' \subseteq Nat /\ cleared' \in BOOLEAN
         /\ RingConsistent' /\ OverflowInBounds'
<1>1. /\ ring \in [Slots -> Nat] /\ head \in Slots /\ tail \in Slots
      /\ count \in Nat /\ readOffset \in Nat /\ file \in Seq(Nat)
      /\ dropped \subseteq Nat /\ cleared \in BOOLEAN
  BY DEF IndexInv, TypeOK, QueueTypeOK, FlashTypeOK, HistoryTypeOK
<1>2. RingConsistent /\ OverflowInBounds
  BY DEF IndexInv
<1>3. Len(file) \in Nat /\ Elements(Unread) \subseteq Nat /\ ring[head] \in Nat
  BY <1>1, <1>2, LenProperties, ContentsType, ElementsType DEF OverflowInBounds, IndexInv, TypeOK
<1>4. CASE PushToRing(r)
  <2>1. ring' \in [Slots -> Nat] /\ tail' \in Slots
    BY <1>1, <1>4, SlotMod, SlotDef DEF PushToRing, Enqueue
  <2>2. head' = head /\ count' = count + 1 /\ count + 1 <= Capacity
        /\ tail' = (tail + 1) % Capacity
    BY <1>1, <1>4, SlotDef DEF PushToRing, Enqueue
  <2>3. (((head + count) % Capacity) + 1) % Capacity = (head + (count + 1)) % Capacity
    BY <1>1, <2>2, ModShift
  <2>4. tail' = (head' + count') % Capacity
    BY <1>2, <2>2, <2>3 DEF RingConsistent
  <2>5. file' = file /\ readOffset' = readOffset /\ dropped' = dropped /\ cleared' = cleared
    BY <1>4 DEF PushToRing
  <2>6. QueueTypeOK'
    BY <1>1, <2>1, <2>2, <2>5 DEF QueueTypeOK
  <2>7. RingConsistent'
    BY <1>1, <1>2, <2>2, <2>4 DEF RingConsistent
  <2> QED
    BY <1>1, <1>2, <2>5, <2>6, <2>7 DEF OverflowInBounds
<1>5. CASE PushEvicting(r)
  <2>1. ring' \in [Slots -> Nat] /\ tail' \in Slots /\ head' \in Slots
    BY <1>1, <1>5, SlotMod, SlotDef DEF PushEvicting, Enqueue
  <2>2. count = Capacity /\ count' = count /\ head' = (head + 1) % Capacity
        /\ tail' = (tail + 1) % Capacity
    BY <1>5 DEF PushEvicting, Enqueue
  <2>3. (head + Capacity) % Capacity = head /\ (head' + Capacity) % Capacity = head'
    BY <1>1, <2>1, ModFull
  <2>4. tail' = (head' + count') % Capacity
    BY <1>2, <2>2, <2>3 DEF RingConsistent
  <2>5. file' \in Seq(Nat) /\ Len(file') <= MaxFile /\ readOffset' < Len(file')
        /\ readOffset' \in Nat
    <3>1. CASE FileFull
      <4>1. file' = <<ring[head]>> /\ readOffset' = 0
        BY <1>5, <3>1 DEF PushEvicting, ClearOverflow
      <4>2. <<ring[head]>> \in Seq(Nat) /\ Len(<<ring[head]>>) = 1
        BY <1>3
      <4> QED
        BY <4>1, <4>2, SlotDef
    <3>2. CASE ~FileFull
      <4>1. file' = Append(file, ring[head]) /\ readOffset' = readOffset
        BY <1>5, <3>2 DEF PushEvicting
      <4>2. file' \in Seq(Nat) /\ Len(file') = Len(file) + 1
        BY <1>1, <1>3, <4>1
      <4> QED
        BY <1>1, <1>2, <1>3, <3>2, <4>1, <4>2, SlotDef DEF FileFull, OverflowInBounds
    <3> QED
      BY <3>1, <3>2
  <2>6. dropped' \subseteq Nat /\ cleared' \in BOOLEAN
    BY <1>1, <1>3, <1>5 DEF PushEvicting, ClearOverflow
  <2>7. QueueTypeOK' /\ RingConsistent'
    BY <1>1, <1>2, <2>1, <2>2, <2>4, <2>5 DEF RingConsistent, QueueTypeOK
  <2> QED
    BY <1>2, <2>5, <2>6, <2>7 DEF OverflowInBounds
<1>6. CASE PushRefused
  <2>1. dropped' \subseteq Nat /\ cleared' \in BOOLEAN
    BY <1>1, <1>3, <1>6 DEF PushRefused, ClearOverflow
  <2>2. \/ file' = <<>> /\ readOffset' = 0
        \/ file' = file /\ readOffset' = readOffset
    BY <1>6 DEF PushRefused, ClearOverflow
  <2>3. file' \in Seq(Nat) /\ readOffset' \in Nat /\ OverflowInBounds'
    <3>1. CASE file' = <<>> /\ readOffset' = 0
      BY <1>2, <3>1, EmptySeq, SlotDef DEF OverflowInBounds
    <3>2. CASE file' = file /\ readOffset' = readOffset
      BY <1>1, <1>2, <3>2 DEF OverflowInBounds
    <3> QED
      BY <2>2, <3>1, <3>2
  <2>4. QueueTypeOK' /\ RingConsistent'
    BY <1>1, <1>2, <1>6, <2>3 DEF PushRefused, RingConsistent, QueueTypeOK
  <2> QED
    BY <2>1, <2>3, <2>4
<1> QED
  BY <1>4, <1>5, <1>6

\* Every step preserves the types and the indices.
LEMMA IndexNext == IndexInv /\ [Next]_vars => IndexInv'
<1> SUFFICES ASSUME IndexInv, [Next]_vars PROVE IndexInv'
  OBVIOUS
<1> USE DEF queueVars, flashVars, consumerVars, historyVars
<1>1. QueueTypeOK /\ FlashTypeOK /\ TaskTypeOK /\ HistoryTypeOK
      /\ RingConsistent /\ OverflowInBounds
  BY DEF IndexInv, TypeOK
<1>3. /\ file \in Seq(Nat) /\ Len(file) \in Nat /\ readOffset \in Nat /\ count \in Nat
      /\ RingRows \in Seq(Nat) /\ Len(RingRows) = count
      /\ Unread \in Seq(Nat) /\ Len(Unread) = Len(file) - readOffset
      /\ Contents \in Seq(Nat) /\ readOffset <= Len(file)
  BY <1>1, ContentsType, LenProperties DEF FlashTypeOK, QueueTypeOK, OverflowInBounds
<1>4. CASE Push
  <2>1. nextRow \in Nat
    BY <1>1 DEF TaskTypeOK
  <2>2. phase = "run" /\ UNCHANGED <<dat, savedOffset, phase>>
    BY <1>4 DEF Push, PushUnchanged
  <2>3. PushToRing(nextRow) \/ PushEvicting(nextRow) \/ PushRefused
    BY <1>4 DEF Push
  <2>4. /\ QueueTypeOK' /\ file' \in Seq(Nat) /\ dropped' \subseteq Nat
        /\ cleared' \in BOOLEAN /\ RingConsistent' /\ OverflowInBounds'
    BY <2>1, <2>2, <2>3, PushIndices
  <2>5. TaskTypeOK'
    <3>0. nextRow' = nextRow + 1 \/ nextRow' = nextRow
      BY <1>4 DEF Push
    <3>1. nextRow' \in Nat \ {0}
      <4>1. nextRow \in Nat /\ nextRow # 0
        BY <1>1 DEF TaskTypeOK
      <4> QED
        BY <3>0, <4>1
    <3>2. UNCHANGED <<phase, wemain, cpc, batch, live, clearWhat, boots>>
      BY <1>4 DEF Push, PushUnchanged
    <3> QED
      BY <1>1, <3>1, <3>2 DEF TaskTypeOK
  <2>6. FlashTypeOK' /\ HistoryTypeOK'
    BY <1>1, <1>4, <2>4 DEF Push, PushUnchanged, FlashTypeOK, HistoryTypeOK
  <2> QED
    BY <2>4, <2>5, <2>6 DEF IndexInv, TypeOK
<1>5. CASE RestoreTail
  <2>1. live \in Nat
    BY <1>1 DEF TaskTypeOK
  <2>2. phase = "run" /\ UNCHANGED <<dat, savedOffset, phase>>
    BY <1>5 DEF RestoreTail, PushUnchanged
  <2>3. PushToRing(live) \/ PushEvicting(live) \/ PushRefused
    BY <1>5 DEF RestoreTail
  <2>4. /\ QueueTypeOK' /\ file' \in Seq(Nat) /\ dropped' \subseteq Nat
        /\ cleared' \in BOOLEAN /\ RingConsistent' /\ OverflowInBounds'
    BY <2>1, <2>2, <2>3, PushIndices
  <2>5. TaskTypeOK'
    BY <1>1, <1>5 DEF RestoreTail, PushUnchanged, TaskTypeOK, NoRow
  <2>6. FlashTypeOK' /\ HistoryTypeOK'
    BY <1>1, <1>5, <2>4 DEF RestoreTail, PushUnchanged, FlashTypeOK, HistoryTypeOK
  <2> QED
    BY <2>4, <2>5, <2>6 DEF IndexInv, TypeOK
<1>6. CASE PeekBatch
  <2>1. batch' \in Seq(Nat)
    <3>1. MaxBatch \in Nat
      BY SizesAssumption
    <3>2. \A n \in 0..(Len(Unread) - 1) : SubSeq(Unread, 1, n) \in Seq(Nat)
      <4> TAKE n \in 0..(Len(Unread) - 1)
      <4>1. Len(Unread) \in Nat
        BY <1>3, LenProperties
      <4>2. n \in Int /\ \A i \in 1..n : i \in 1..Len(Unread)
        BY <4>1
      <4>3. Unread \in Seq(Nat)
        BY <1>3
      <4>4. \A i \in 1..Len(Unread) : Unread[i] \in Nat
        BY <4>3, ElementOfSeq
      <4>5. \A i \in 1..n : Unread[i] \in Nat
        BY <4>2, <4>4
      <4> QED
        BY <4>2, <4>5, SubSeqProperties
    <3>3. \A n \in 0..(Len(Unread) - 1) : SubSeq(Unread, 1, n) \o RingRows \in Seq(Nat)
      BY <1>3, <3>2, ConcatProperties
    <3>4. \A s \in Seq(Nat) : AtMost(MaxBatch, s) \in Seq(Nat)
      BY <3>1, AtMostType
    <3> QED
      BY <1>3, <1>6, <3>2, <3>3, <3>4 DEF PeekBatch, PeekResults
  <2>2. TaskTypeOK' /\ HistoryTypeOK'
    BY <1>1, <1>6, <2>1 DEF PeekBatch, TaskTypeOK, HistoryTypeOK
  <2>3. QueueTypeOK' /\ FlashTypeOK' /\ RingConsistent' /\ OverflowInBounds'
    BY <1>1, <1>6 DEF PeekBatch, QueueTypeOK, FlashTypeOK, RingConsistent, OverflowInBounds
  <2> QED
    BY <2>2, <2>3 DEF IndexInv, TypeOK
<1>7. CASE PopTail
  <2>1. tail \in Slots /\ head \in Slots /\ ring \in [Slots -> Nat] /\ Capacity \in Nat
        /\ Capacity > 0 /\ tail \in Nat
    BY <1>1, SlotDef DEF QueueTypeOK
  <2>2. tail' \in Slots /\ count' = count - 1 /\ count' \in Nat /\ count = Capacity
    <3>1. tail + Capacity - 1 \in Nat
      BY <2>1
    <3> QED
      BY <1>7, <2>1, <3>1, SlotMod DEF PopTail
  <2>3. live' \in Nat
    BY <1>7, <2>1, <2>2 DEF PopTail
  <2>4. tail' = (head' + count') % Capacity
    <3>1. tail = head
      BY <1>1, <2>1, <2>2, ModFull DEF RingConsistent
    <3>2. head + (Capacity - 1) = tail + Capacity - 1
      BY <2>1, <3>1, SlotDef
    <3> QED
      BY <1>7, <2>2, <3>2 DEF PopTail
  <2>5. QueueTypeOK' /\ RingConsistent'
    BY <1>1, <1>7, <2>1, <2>2, <2>4 DEF PopTail, QueueTypeOK, RingConsistent
  <2>6. TaskTypeOK'
    BY <1>1, <1>7, <2>3 DEF PopTail, TaskTypeOK
  <2>7. FlashTypeOK' /\ HistoryTypeOK' /\ OverflowInBounds'
    BY <1>1, <1>7 DEF PopTail, FlashTypeOK, HistoryTypeOK, OverflowInBounds
  <2> QED
    BY <2>5, <2>6, <2>7 DEF IndexInv, TypeOK
<1>8. CASE AbandonBatch
  <2>1. TaskTypeOK'
    BY <1>1, <1>8, EmptySeq DEF AbandonBatch, TaskTypeOK, NoRow
  <2>2. QueueTypeOK' /\ FlashTypeOK' /\ HistoryTypeOK' /\ RingConsistent' /\ OverflowInBounds'
    BY <1>1, <1>8 DEF AbandonBatch, QueueTypeOK, FlashTypeOK, HistoryTypeOK,
                      RingConsistent, OverflowInBounds
  <2> QED
    BY <2>1, <2>2 DEF IndexInv, TypeOK
<1>10. CASE CommitLogin
  <2>1. TaskTypeOK'
    BY <1>1, <1>10 DEF CommitLogin, TaskTypeOK
  <2>2. QueueTypeOK' /\ FlashTypeOK' /\ HistoryTypeOK' /\ RingConsistent' /\ OverflowInBounds'
    BY <1>1, <1>10 DEF CommitLogin, QueueTypeOK, FlashTypeOK, HistoryTypeOK,
                       RingConsistent, OverflowInBounds
  <2> QED
    BY <2>1, <2>2 DEF IndexInv, TypeOK
<1>11. CASE ClearCheck
  <2>1. TaskTypeOK'
    BY <1>1, <1>11 DEF ClearCheck, TaskTypeOK
  <2>2. QueueTypeOK' /\ FlashTypeOK' /\ HistoryTypeOK' /\ RingConsistent' /\ OverflowInBounds'
    BY <1>1, <1>11 DEF ClearCheck, QueueTypeOK, FlashTypeOK, HistoryTypeOK,
                       RingConsistent, OverflowInBounds
  <2> QED
    BY <2>1, <2>2 DEF IndexInv, TypeOK
<1>9. CASE CommitBatch
  <2>1. PICK n \in 0..Len(batch) : Pop(n)
    BY <1>9 DEF CommitBatch
  <2>2. n \in Nat /\ live \in Nat
    <3>1. batch \in Seq(Nat) /\ live \in Nat
      BY <1>1 DEF TaskTypeOK
    <3>2. Len(batch) \in Nat
      BY <3>1, LenProperties
    <3> QED
      BY <3>1, <3>2
  <2> DEFINE f == IF n < Len(Unread) THEN n ELSE Len(Unread)
             r == IF n - f < count THEN n - f ELSE count
  <2>3. f \in Nat /\ r \in Nat /\ r <= count /\ f <= Len(Unread)
    BY <1>3, <2>2
  <2>4. /\ head' = (head + r) % Capacity /\ count' = count - r
        /\ \/ file' = <<>> /\ readOffset' = 0
           \/ file' = file /\ readOffset' = readOffset + f /\ (f < Len(Unread) \/ f = 0)
    BY <2>1, <2>3 DEF Pop
  <2> HIDE DEF f, r
  <2>5. head \in Slots /\ head \in Nat /\ tail \in Slots
    BY <1>1, SlotDef DEF QueueTypeOK
  <2>6. head' \in Slots /\ count' \in Nat /\ count' <= count
    BY <1>3, <2>3, <2>4, <2>5, SlotMod
  <2>7. tail' = (head' + count') % Capacity
    <3>1. r + (count - r) = count /\ count - r \in Nat /\ count <= Capacity
      BY <1>1, <1>3, <2>3 DEF RingConsistent
    <3>2. (((head + r) % Capacity) + (count - r)) % Capacity = (head + (r + (count - r))) % Capacity
      BY <2>3, <2>5, <3>1, ModShift
    <3> QED
      BY <1>1, <1>9, <2>4, <3>1, <3>2 DEF CommitBatch, RingConsistent
  <2>8. file' \in Seq(Nat) /\ readOffset' \in Nat /\ OverflowInBounds'
    <3>1. CASE file' = <<>> /\ readOffset' = 0
      BY <1>1, <1>9, <3>1, EmptySeq, SlotDef DEF CommitBatch, OverflowInBounds
    <3>2. CASE file' = file /\ readOffset' = readOffset + f /\ (f < Len(Unread) \/ f = 0)
      BY <1>1, <1>3, <1>9, <2>3, <3>2 DEF CommitBatch, OverflowInBounds
    <3> QED
      BY <2>4, <3>1, <3>2
  <2>9. QueueTypeOK' /\ FlashTypeOK' /\ RingConsistent'
    <3>1. UNCHANGED <<ring, tail, dat, savedOffset>>
      BY <1>9 DEF CommitBatch
    <3>2. QueueTypeOK'
      BY <1>1, <2>6, <2>8, <3>1 DEF QueueTypeOK
    <3>3. FlashTypeOK'
      BY <1>1, <2>8, <3>1 DEF FlashTypeOK
    <3>4. count \in Nat /\ count <= Capacity /\ Capacity \in Nat
      BY <1>1, SlotDef DEF RingConsistent, QueueTypeOK
    <3>5. count' <= Capacity
      BY <2>6, <3>4
    <3>6. RingConsistent'
      BY <1>1, <2>7, <3>1, <3>5 DEF RingConsistent
    <3> QED
      BY <3>2, <3>3, <3>6
  <2>10. TaskTypeOK'
    BY <1>1, <1>9, EmptySeq DEF CommitBatch, TaskTypeOK, NoRow
  <2>11. HistoryTypeOK'
    <3>1. Elements(AtMost(n, Contents)) \subseteq Nat
      BY <1>3, <2>2, AtMostType, ElementsType
    <3>2. consumed' \subseteq Nat
      BY <1>1, <2>1, <2>2, <3>1 DEF Pop, HistoryTypeOK
    <3> QED
      BY <1>1, <1>9, <3>2 DEF CommitBatch, HistoryTypeOK
  <2> QED
    BY <2>8, <2>9, <2>10, <2>11 DEF IndexInv, TypeOK
<1>12. CASE ClearSnapshot
  <2>1. dat' \in {NoDat, dat} /\ savedOffset' \in {0, savedOffset} /\ file' = file
    BY <1>12 DEF ClearSnapshot, Written
  <2>2. Elements(dat.rows) \subseteq Nat
    BY <1>1, ElementsType DEF FlashTypeOK
  <2>3. HistoryTypeOK' /\ TaskTypeOK'
    BY <1>1, <1>12, <2>2 DEF ClearSnapshot, HistoryTypeOK, TaskTypeOK
  <2>4. FlashTypeOK'
    <3>1. dat' \in SnapshotType
      BY <1>1, <2>1, NoDatConsistent DEF FlashTypeOK, SnapshotType
    <3>2. file' \in Seq(Nat) /\ savedOffset' \in Nat
      BY <1>1, <2>1 DEF FlashTypeOK
    <3> QED
      BY <3>1, <3>2 DEF FlashTypeOK, SnapshotType
  <2>5. UNCHANGED <<ring, head, tail, count, readOffset, phase>>
    BY <1>12 DEF ClearSnapshot
  <2>6. QueueTypeOK' /\ OverflowInBounds' /\ RingConsistent'
    <3>1. savedOffset' <= MaxFile
      BY <1>1, <2>1, SlotDef DEF OverflowInBounds
    <3>2. QueueTypeOK'
      BY <1>1, <2>5 DEF QueueTypeOK
    <3>3. OverflowInBounds'
      BY <1>1, <2>1, <2>5, <3>1 DEF OverflowInBounds
    <3>4. RingConsistent'
      BY <1>1, <2>1, <2>5, NoDatConsistent DEF RingConsistent
    <3> QED
      BY <3>2, <3>3, <3>4
  <2> QED
    BY <2>3, <2>4, <2>6 DEF IndexInv, TypeOK
<1>13. CASE SaveSnapshot
  <2>1. \/ dat' = [state |-> "good", head |-> head, tail |-> tail, rows |-> RingRows]
        \/ dat' = dat \/ dat' = BadDat
    BY <1>13 DEF SaveSnapshot
  <2>2. dat' \in SnapshotType /\ SnapshotConsistent(dat')
    <3>1. CASE dat' = [state |-> "good", head |-> head, tail |-> tail, rows |-> RingRows]
      <4>1. head \in Slots /\ tail \in Slots
        BY <1>1 DEF QueueTypeOK
      <4>2. dat' \in SnapshotType
        BY <1>3, <3>1, <4>1 DEF SnapshotType
      <4>3. dat'.head = head /\ dat'.tail = tail /\ dat'.rows = RingRows
        BY <3>1
      <4> QED
        BY <1>1, <1>3, <4>2, <4>3 DEF SnapshotConsistent, RingConsistent
    <3>2. CASE dat' = dat
      BY <1>1, <3>2 DEF FlashTypeOK, SnapshotType, SnapshotConsistent, RingConsistent
    <3>3. CASE dat' = BadDat
      BY <3>3, NoDatConsistent
    <3> QED
      BY <2>1, <3>1, <3>2, <3>3
  <2>3. UNCHANGED <<ring, head, tail, count, readOffset, file, savedOffset>>
    BY <1>13 DEF SaveSnapshot
  <2>6. FlashTypeOK' /\ RingConsistent'
    BY <1>1, <2>2, <2>3 DEF FlashTypeOK, SnapshotType, SnapshotConsistent, RingConsistent
  <2>4. HistoryTypeOK'
    BY <1>1, <1>3, <1>13, ElementsType DEF SaveSnapshot, HistoryTypeOK
  <2>5. QueueTypeOK' /\ TaskTypeOK' /\ OverflowInBounds'
    BY <1>1, <1>13 DEF SaveSnapshot, QueueTypeOK, TaskTypeOK, OverflowInBounds
  <2> QED
    BY <2>4, <2>5, <2>6 DEF IndexInv, TypeOK
<1>14. CASE SaveOffset
  <2>1. savedOffset' \in Nat /\ savedOffset' <= MaxFile
    <3>1. savedOffset' \in {0, readOffset, savedOffset}
      BY <1>14 DEF SaveOffset
    <3>2. savedOffset \in Nat /\ savedOffset <= MaxFile /\ Len(file) <= MaxFile
      BY <1>1 DEF FlashTypeOK, OverflowInBounds
    <3> QED
      BY <1>3, <3>1, <3>2, SlotDef
  <2>2. FlashTypeOK' /\ OverflowInBounds'
    BY <1>1, <1>14, <2>1 DEF SaveOffset, FlashTypeOK, OverflowInBounds
  <2>3. QueueTypeOK' /\ TaskTypeOK' /\ HistoryTypeOK' /\ RingConsistent'
    BY <1>1, <1>14 DEF SaveOffset, QueueTypeOK, TaskTypeOK, HistoryTypeOK, RingConsistent
  <2> QED
    BY <2>2, <2>3 DEF IndexInv, TypeOK
<1>15. CASE ResetReturns
  <2>1. TaskTypeOK' /\ HistoryTypeOK'
    BY <1>1, <1>15 DEF ResetReturns, TaskTypeOK, HistoryTypeOK
  <2>2. QueueTypeOK' /\ FlashTypeOK' /\ RingConsistent' /\ OverflowInBounds'
    BY <1>1, <1>15 DEF ResetReturns, QueueTypeOK, FlashTypeOK, RingConsistent, OverflowInBounds
  <2> QED
    BY <2>1, <2>2 DEF IndexInv, TypeOK
<1>16. CASE SocReset \/ PowerLoss
  <2>1. LoseRAM /\ promised' \in {{}, promised}
    BY <1>16 DEF SocReset, PowerLoss
  <2>2. QueueTypeOK'
    BY <2>1, SlotDef DEF LoseRAM, QueueTypeOK, EmptyRing, NoRow
  <2>3. TaskTypeOK' /\ HistoryTypeOK'
    <3>1. /\ cpc' = "idle" /\ batch' = <<>> /\ live' = 0 /\ clearWhat' = "nothing"
          /\ wemain' = "idle" /\ phase' = "load" /\ boots' = boots + 1
          /\ nextRow' = nextRow
      BY <2>1 DEF LoseRAM, NoRow
    <3>2. boots \in Nat /\ nextRow \in Nat \ {0} /\ <<>> \in Seq(Nat)
      BY <1>1, EmptySeq DEF TaskTypeOK
    <3>3. TaskTypeOK'
      BY <3>1, <3>2 DEF TaskTypeOK
    <3>4. UNCHANGED <<consumed, dropped, cleared, forgotten>>
      BY <2>1 DEF LoseRAM
    <3>5. HistoryTypeOK'
      BY <1>1, <2>1, <3>4 DEF HistoryTypeOK
    <3> QED
      BY <3>3, <3>5
  <2>4. FlashTypeOK' /\ OverflowInBounds'
    BY <1>1, <1>3, <2>1 DEF LoseRAM, FlashTypeOK, OverflowInBounds
  <2>5. RingConsistent'
    BY <1>1, <2>1, SlotDef, ModSmall DEF LoseRAM, RingConsistent
  <2> QED
    BY <2>2, <2>3, <2>4, <2>5 DEF IndexInv, TypeOK
<1>17. CASE LoadSnapshot
  <2>1. dat.head \in Slots /\ dat.tail \in Slots /\ dat.rows \in Seq(Nat)
        /\ Len(dat.rows) \in Nat
    BY <1>1, LenProperties DEF FlashTypeOK
  <2>2. QueueTypeOK' /\ (count' <= Capacity /\ tail' = (head' + count') % Capacity)
    <3>1. CASE dat.state = "good"
      <4>1. \A k \in Nat \ {0} : (IF k <= Len(dat.rows) THEN dat.rows[k] ELSE NoRow) \in Nat
        BY <2>1 DEF NoRow
      <4>2. \A i \in Slots : 1 + ((i + Capacity - dat.head) % Capacity) \in Nat \ {0}
        <5> TAKE i \in Slots
        <5>1. i + Capacity - dat.head \in Nat
          BY <2>1, SlotDef
        <5>2. (i + Capacity - dat.head) % Capacity \in Slots
          BY <5>1, SlotMod
        <5> QED
          BY <5>2, SlotDef
      <4>3. ring' \in [Slots -> Nat]
        BY <1>17, <3>1, <4>1, <4>2 DEF LoadSnapshot
      <4>4. head' = dat.head /\ tail' = dat.tail /\ count' = Len(dat.rows)
            /\ readOffset' = readOffset
        BY <1>17, <3>1 DEF LoadSnapshot
      <4> QED
        BY <1>1, <1>3, <2>1, <4>3, <4>4 DEF QueueTypeOK, RingConsistent
    <3>2. CASE dat.state # "good"
      BY <1>1, <1>17, <3>2 DEF LoadSnapshot, QueueTypeOK, RingConsistent
    <3> QED
      BY <3>1, <3>2
  <2>3. dat' \in {NoDat, dat}
    BY <1>17 DEF LoadSnapshot, Written
  <2>4. FlashTypeOK'
    <3>1. dat' \in SnapshotType
      BY <1>1, <2>3, NoDatConsistent DEF FlashTypeOK, SnapshotType
    <3>2. file' = file /\ savedOffset' = savedOffset
      BY <1>17 DEF LoadSnapshot
    <3> QED
      BY <1>1, <3>1, <3>2 DEF FlashTypeOK, SnapshotType
  <2>5. RingConsistent'
    BY <1>1, <2>2, <2>3, SlotDef, ModSmall DEF RingConsistent, NoDat
  <2>6. TaskTypeOK' /\ HistoryTypeOK' /\ OverflowInBounds'
    BY <1>1, <1>17 DEF LoadSnapshot, TaskTypeOK, HistoryTypeOK, OverflowInBounds
  <2> QED
    BY <2>2, <2>4, <2>5, <2>6 DEF IndexInv, TypeOK
<1>18. CASE RestoreOverflow
  <2>1. savedOffset \in Nat /\ savedOffset <= MaxFile /\ Len(file) <= MaxFile
        /\ phase = "restore" /\ phase' = "run" /\ readOffset = 0
    BY <1>1, <1>18 DEF FlashTypeOK, OverflowInBounds, RestoreOverflow
  <2>2. /\ file' \in Seq(Nat) /\ readOffset' \in Nat /\ savedOffset' \in Nat
        /\ OverflowInBounds'
    <3>1. CASE file = <<>>
      <4>1. UNCHANGED <<file, readOffset, savedOffset>>
        BY <1>18, <3>1 DEF RestoreOverflow
      <4> QED
        BY <1>1, <1>3, <2>1, <3>1, <4>1 DEF OverflowInBounds
    <3>2. CASE file # <<>> /\ savedOffset = Len(file)
      <4>1. savedOffset' \in {0, savedOffset} /\ file' = <<>> /\ readOffset' = 0
        BY <1>3, <1>18, <2>1, <3>2 DEF RestoreOverflow, Written
      <4>2. Len(<<>>) = 0 /\ <<>> \in Seq(Nat)
        BY EmptySeq
      <4> QED
        BY <2>1, <4>1, <4>2, SlotDef DEF OverflowInBounds
    <3>3. CASE file # <<>> /\ savedOffset # Len(file)
      <4>1. Len(file) > 0
        BY <1>3, <3>3, EmptySeq
      <4>2. /\ savedOffset' \in {0, savedOffset} /\ file' = file
            /\ readOffset' = IF savedOffset < Len(file) THEN savedOffset ELSE 0
        BY <1>18, <3>3 DEF RestoreOverflow, Written
      <4>3. readOffset' \in Nat /\ readOffset' < Len(file)
        BY <1>3, <2>1, <4>1, <4>2
      <4> QED
        BY <1>3, <2>1, <4>2, <4>3, SlotDef DEF OverflowInBounds
    <3> QED
      BY <3>1, <3>2, <3>3
  <2>3. QueueTypeOK' /\ FlashTypeOK' /\ RingConsistent'
    BY <1>1, <1>18, <2>2 DEF RestoreOverflow, QueueTypeOK, FlashTypeOK, RingConsistent
  <2>4. TaskTypeOK' /\ HistoryTypeOK'
    BY <1>1, <1>18 DEF RestoreOverflow, TaskTypeOK, HistoryTypeOK
  <2> QED
    BY <2>2, <2>3, <2>4 DEF IndexInv, TypeOK
<1>19. CASE UNCHANGED vars
  <2>1. QueueTypeOK' /\ FlashTypeOK' /\ RingConsistent' /\ OverflowInBounds'
    BY <1>1, <1>19 DEF vars, QueueTypeOK, FlashTypeOK, RingConsistent, OverflowInBounds
  <2>2. TaskTypeOK' /\ HistoryTypeOK'
    BY <1>1, <1>19 DEF vars, TaskTypeOK, HistoryTypeOK
  <2> QED
    BY <2>1, <2>2 DEF IndexInv, TypeOK
<1> QED
  BY <1>4, <1>5, <1>6, <1>7, <1>8, <1>9, <1>10, <1>11, <1>12, <1>13, <1>14,
     <1>15, <1>16, <1>17, <1>18, <1>19 DEF Next

\* The types, the indices of the ring and the bounds of the overflow file
\* hold in every reachable state, through restarts and failing file
\* operations.
THEOREM IndicesCorrect == Spec => []IndexInv
<1>1. IndexInv /\ [Next]_vars => IndexInv'
  BY IndexNext
<1> QED
  BY IndexInit, <1>1, PTL DEF Spec

\* queue_push, queue_pop and queue_persist_load keep head, tail and count in
\* agreement.
THEOREM RingStaysConsistent == Spec => []RingConsistent
<1>1. IndexInv => RingConsistent
  BY DEF IndexInv
<1> QED
  BY IndicesCorrect, <1>1, PTL

\* The overflow file stays within max_file_size and the read offset within
\* the file.
THEOREM OverflowStaysInBounds == Spec => []OverflowInBounds
<1>1. IndexInv => OverflowInBounds
  BY DEF IndexInv
<1> QED
  BY IndicesCorrect, <1>1, PTL

\* Every variable keeps its type.
THEOREM TypeCorrect == Spec => []TypeOK
<1>1. IndexInv => TypeOK
  BY DEF IndexInv
<1> QED
  BY IndicesCorrect, <1>1, PTL

-----------------------------------------------------------------------------
(* The rows of the queue as one sequence *)

\* Contents as an operator of the variables it depends on, so that one lemma
\* serves for the state before and after a step.
RowSlot(h, i) == (h + i - 1) % Capacity    \* of row i of the ring
RowAt(rg, h, i) == rg[RowSlot(h, i)]
QueueRows(rg, h, c, f, o) ==
  SubSeq(f, o + 1, Len(f)) \o [i \in 1..c |-> RowAt(rg, h, i)]

LEMMA ContentsRows ==
  /\ Contents = QueueRows(ring, head, count, file, readOffset)
  /\ Contents' = QueueRows(ring', head', count', file', readOffset')
  BY DEF Contents, Unread, RingRows, QueueRows, RowAt, RowSlot

\* Which record or slot a row of the queue is in.
RowsAre(q, rg, h, c, f, o) ==
  /\ q \in Seq(Nat) /\ Len(q) = Len(f) - o + c
  /\ \A i \in 1..(Len(f) - o) : q[i] = f[o + i]
  /\ \A i \in (Len(f) - o + 1)..(Len(f) - o + c) : q[i] = RowAt(rg, h, i - (Len(f) - o))

LEMMA RowsAt ==
  ASSUME NEW rg \in [Slots -> Nat], NEW h \in Slots, NEW c \in Nat,
         NEW f \in Seq(Nat), NEW o \in Nat, o <= Len(f)
  PROVE  RowsAre(QueueRows(rg, h, c, f, o), rg, h, c, f, o)
<1> DEFINE u == SubSeq(f, o + 1, Len(f))
           q == [i \in 1..c |-> RowAt(rg, h, i)]
<1>1. Len(f) \in Nat /\ h \in Nat /\ \A i \in 1..Len(f) : f[i] \in Nat
  BY LenProperties, ElementOfSeq, SlotDef
<1>2. /\ u \in Seq(Nat) /\ Len(u) = Len(f) - o
      /\ \A i \in 1..(Len(f) - o) : u[i] = f[o + i]
  <2>1. o + 1 \in Int /\ Len(f) \in Int /\ \A i \in (o + 1)..Len(f) : f[i] \in Nat
    BY <1>1
  <2>2. /\ u \in Seq(Nat)
        /\ Len(u) = IF o + 1 <= Len(f) THEN Len(f) - (o + 1) + 1 ELSE 0
        /\ \A i \in 1..(Len(f) - (o + 1) + 1) : u[i] = f[o + 1 + i - 1]
    BY <2>1, SubSeqProperties
  <2> HIDE DEF u
  <2> QED
    BY <1>1, <2>2
<1>3. q \in Seq(Nat) /\ Len(q) = c /\ \A i \in 1..c : q[i] = RowAt(rg, h, i)
  <2>1. \A i \in 1..c : h + i - 1 \in Nat
    BY <1>1
  <2>2. \A i \in 1..c : RowAt(rg, h, i) \in Nat
    BY <2>1, SlotMod DEF RowSlot, RowAt
  <2>3. q \in [1..c -> Nat]
    BY <2>2
  <2> QED
    BY <2>3, SeqDef
<1>4. QueueRows(rg, h, c, f, o) = u \o q
  BY DEF QueueRows
<1> HIDE DEF u, q
<1>5. /\ u \o q \in Seq(Nat) /\ Len(u \o q) = Len(u) + Len(q)
      /\ \A i \in 1..(Len(u) + Len(q)) : (u \o q)[i] = IF i <= Len(u) THEN u[i] ELSE q[i - Len(u)]
  BY <1>2, <1>3, ConcatProperties
<1>6. \A i \in 1..(Len(f) - o) : (u \o q)[i] = f[o + i]
  BY <1>1, <1>2, <1>3, <1>5
<1>7. \A i \in (Len(f) - o + 1)..(Len(f) - o + c) :
        (u \o q)[i] = RowAt(rg, h, i - (Len(f) - o))
  <2> TAKE i \in (Len(f) - o + 1)..(Len(f) - o + c)
  <2>1. /\ i \in 1..(Len(u) + Len(q)) /\ ~(i <= Len(u))
        /\ i - (Len(f) - o) = i - Len(u) /\ i - Len(u) \in 1..c
    BY <1>1, <1>2, <1>3
  <2> QED
    BY <1>3, <1>5, <2>1
<1>9. u \o q \in Seq(Nat) /\ Len(u \o q) = Len(f) - o + c
  BY <1>2, <1>3, <1>5
<1> QED
  BY <1>4, <1>6, <1>7, <1>9 DEF RowsAre

\* Different rows of the ring are in different slots.
LEMMA SlotsDiffer ==
  ASSUME NEW h \in Slots, NEW a \in 0..(Capacity - 1), NEW b \in 0..(Capacity - 1),
         (h + a) % Capacity = (h + b) % Capacity
  PROVE  a = b
<1>1. h \in Nat /\ h < Capacity /\ Capacity \in Nat
  BY SlotDef
<1>2. \A x \in 0..(Capacity - 1) : (h + x) % Capacity = IF h + x < Capacity THEN h + x ELSE h + x - Capacity
  <2> TAKE x \in 0..(Capacity - 1)
  <2>1. CASE h + x < Capacity
    BY <1>1, <2>1, ModSmall, SlotDef
  <2>2. CASE h + x >= Capacity
    BY <1>1, <2>2, ModWrap
  <2> QED
    BY <1>1, <2>1, <2>2
<1> QED
  BY <1>1, <1>2

\* What the invariant says of the rows before a step, and after it.
LEMMA RowsBefore ==
  ASSUME IndexInv
  PROVE  /\ ring \in [Slots -> Nat] /\ head \in Slots /\ tail \in Slots
         /\ count \in Nat /\ count <= Capacity /\ tail = (head + count) % Capacity
         /\ file \in Seq(Nat) /\ Len(file) \in Nat
         /\ readOffset \in Nat /\ readOffset <= Len(file)
         /\ Unread \in Seq(Nat) /\ Len(Unread) = Len(file) - readOffset
         /\ RingRows \in Seq(Nat) /\ Len(RingRows) = count
         /\ Contents \in Seq(Nat) /\ Len(Contents) = Len(file) - readOffset + count
         /\ \A i \in 1..(Len(file) - readOffset) : Contents[i] = file[readOffset + i]
         /\ \A i \in (Len(file) - readOffset + 1)..(Len(file) - readOffset + count) :
              Contents[i] = RowAt(ring, head, i - (Len(file) - readOffset))
<1>1. /\ ring \in [Slots -> Nat] /\ head \in Slots /\ tail \in Slots /\ count \in Nat
      /\ count <= Capacity /\ tail = (head + count) % Capacity /\ file \in Seq(Nat)
      /\ readOffset \in Nat /\ readOffset <= Len(file) /\ QueueTypeOK
  BY DEF IndexInv, TypeOK, QueueTypeOK, FlashTypeOK, RingConsistent, OverflowInBounds
<1>2. Len(file) \in Nat
  BY <1>1, LenProperties
<1>3. /\ Unread \in Seq(Nat) /\ Len(Unread) = Len(file) - readOffset
      /\ RingRows \in Seq(Nat) /\ Len(RingRows) = count
  BY <1>1, ContentsType
<1>4. RowsAre(Contents, ring, head, count, file, readOffset)
  BY <1>1, RowsAt, ContentsRows
<1> QED
  BY <1>1, <1>2, <1>3, <1>4 DEF RowsAre

LEMMA RowsAfter ==
  ASSUME IndexInv'
  PROVE  /\ ring' \in [Slots -> Nat] /\ head' \in Slots /\ tail' \in Slots
         /\ count' \in Nat /\ count' <= Capacity
         /\ file' \in Seq(Nat) /\ Len(file') \in Nat
         /\ readOffset' \in Nat /\ readOffset' <= Len(file')
         /\ Contents' \in Seq(Nat) /\ Len(Contents') = Len(file') - readOffset' + count'
         /\ \A i \in 1..(Len(file') - readOffset') : Contents'[i] = file'[readOffset' + i]
         /\ \A i \in (Len(file') - readOffset' + 1)..(Len(file') - readOffset' + count') :
              Contents'[i] = RowAt(ring', head', i - (Len(file') - readOffset'))
<1>1. /\ ring' \in [Slots -> Nat] /\ head' \in Slots /\ tail' \in Slots /\ count' \in Nat
      /\ count' <= Capacity /\ file' \in Seq(Nat)
      /\ readOffset' \in Nat /\ readOffset' <= Len(file')
  BY DEF IndexInv, TypeOK, QueueTypeOK, FlashTypeOK, RingConsistent, OverflowInBounds
<1>2. Len(file') \in Nat
  BY <1>1, LenProperties
<1>3. RowsAre(Contents', ring', head', count', file', readOffset')
  BY <1>1, RowsAt, ContentsRows
<1> QED
  BY <1>1, <1>2, <1>3 DEF RowsAre

\* A sequence that is another with one row more at its end.
LEMMA AppendsTo ==
  ASSUME NEW s \in Seq(Nat), NEW t \in Seq(Nat), NEW r \in Nat,
         Len(t) = Len(s) + 1, \A j \in 1..Len(s) : t[j] = s[j], t[Len(s) + 1] = r
  PROVE  t = Append(s, r)
<1>1. Len(s) \in Nat
  BY LenProperties
<1>2. Append(s, r) \in Seq(Nat) /\ Len(Append(s, r)) = Len(s) + 1
  OBVIOUS
<1>3. \A j \in 1..Len(s) : Append(s, r)[j] = s[j]
  OBVIOUS
<1>4. Append(s, r)[Len(s) + 1] = r
  OBVIOUS
<1>5. \A j \in 1..Len(t) : t[j] = Append(s, r)[j]
  BY <1>1, <1>3, <1>4
<1> QED
  BY <1>2, <1>5, SeqEqual

\* queue_push on a ring with room: the row follows those of the ring.
LEMMA RingGrows ==
  ASSUME IndexInv, IndexInv', NEW r \in Nat, PushToRing(r)
  PROVE  Contents' = Append(Contents, r)
<1>0. /\ ring \in [Slots -> Nat] /\ head \in Slots /\ head \in Nat /\ tail \in Slots
      /\ count \in Nat /\ Capacity \in Nat /\ tail = (head + count) % Capacity
      /\ Len(file) \in Nat /\ readOffset \in Nat /\ readOffset <= Len(file)
  BY RowsBefore, SlotDef
<1>1. /\ count < Capacity /\ count' = count + 1 /\ head' = head /\ file' = file
      /\ readOffset' = readOffset /\ ring' = [ring EXCEPT ![tail] = r]
  BY DEF PushToRing, Enqueue
<1>2. \A i \in 1..count : RowAt(ring', head, i) = RowAt(ring, head, i)
  <2> TAKE i \in 1..count
  <2>1. /\ i - 1 \in 0..(Capacity - 1) /\ count \in 0..(Capacity - 1) /\ i - 1 # count
        /\ head + i - 1 = head + (i - 1) /\ head + i - 1 \in Nat
    BY <1>0, <1>1
  <2>2. (head + (i - 1)) % Capacity # (head + count) % Capacity
    BY <1>0, <2>1, SlotsDiffer
  <2>3. RowSlot(head, i) \in Slots /\ RowSlot(head, i) # tail
    BY <1>0, <2>1, <2>2, SlotMod DEF RowSlot
  <2> QED
    BY <1>0, <1>1, <2>3 DEF RowAt
<1>3. RowAt(ring', head, count + 1) = r
  <2>1. head + (count + 1) - 1 = head + count
    BY <1>0
  <2>2. RowSlot(head, count + 1) = tail
    BY <1>0, <2>1 DEF RowSlot
  <2> QED
    BY <1>0, <1>1, <2>2 DEF RowAt
<1> DEFINE U == Len(file) - readOffset
<1>4. U \in Nat /\ Len(Contents) = U + count /\ Len(Contents') = U + (count + 1)
  <2>1. Len(Contents) = Len(file) - readOffset + count
        /\ Len(Contents') = Len(file') - readOffset' + count'
    BY RowsBefore, RowsAfter
  <2> QED
    BY <1>0, <1>1, <2>1
<1>5. /\ \A i \in 1..(U + count) : Contents'[i] = Contents[i]
      /\ Contents'[U + count + 1] = r
  <2>1. /\ \A i \in 1..U : Contents[i] = file[readOffset + i]
        /\ \A i \in (U + 1)..(U + count) : Contents[i] = RowAt(ring, head, i - U)
    BY RowsBefore
  <2>2. /\ \A i \in 1..U : Contents'[i] = file[readOffset + i]
        /\ \A i \in (U + 1)..(U + (count + 1)) : Contents'[i] = RowAt(ring', head, i - U)
    BY <1>1, RowsAfter
  <2> HIDE DEF U
  <2>3. \A i \in (U + 1)..(U + count) : i \in (U + 1)..(U + (count + 1)) /\ i - U \in 1..count
    BY <1>0, <1>4
  <2>4. \A i \in (U + 1)..(U + count) : Contents'[i] = Contents[i]
    BY <1>2, <2>1, <2>2, <2>3
  <2>5. \A i \in 1..U : Contents'[i] = Contents[i]
    BY <2>1, <2>2
  <2>6. U + count + 1 \in (U + 1)..(U + (count + 1)) /\ U + count + 1 - U = count + 1
    BY <1>0, <1>4
  <2> QED
    BY <1>0, <1>3, <1>4, <2>2, <2>4, <2>5, <2>6
<1> HIDE DEF U
<1>6. /\ Contents \in Seq(Nat) /\ Contents' \in Seq(Nat)
      /\ Len(Contents') = Len(Contents) + 1 /\ Len(Contents) = U + count
  BY <1>0, <1>4, RowsBefore, RowsAfter
<1> QED
  BY <1>5, <1>6, AppendsTo

\* A full ring after the eviction: what was row i + 1 is row i, and the new
\* row is the last one.
LEMMA RingTurns ==
  ASSUME IndexInv, count = Capacity, NEW r \in Nat,
         head' = (head + 1) % Capacity, Enqueue(r)
  PROVE  /\ \A i \in 1..(Capacity - 1) : RowAt(ring', head', i) = RowAt(ring, head, i + 1)
         /\ RowAt(ring', head', Capacity) = r
         /\ RowAt(ring, head, 1) = ring[head]
<1>1. /\ ring \in [Slots -> Nat] /\ head \in Slots /\ head \in Nat /\ tail \in Slots
      /\ Capacity \in Nat /\ Capacity > 0 /\ tail = (head + Capacity) % Capacity
  BY RowsBefore, SlotDef
<1>2. tail = head /\ ring' = [ring EXCEPT ![head] = r]
  BY <1>1, ModFull DEF Enqueue
<1>3. \A i \in 1..Capacity : RowSlot(head', i) = (head + i) % Capacity
  <2> TAKE i \in 1..Capacity
  <2>1. head' \in Slots /\ head' \in Nat
    BY <1>1, SlotMod, SlotDef
  <2>2. head' + i - 1 = head' + (i - 1) /\ i - 1 \in Nat /\ 1 + (i - 1) = i
    BY <1>1, <2>1
  <2>3. \A k \in 0..(Capacity - 1) :
           (((head + 1) % Capacity) + k) % Capacity = (head + (1 + k)) % Capacity
    <3> TAKE k \in 0..(Capacity - 1)
    <3>1. k \in Nat /\ 1 \in Nat /\ 1 + k <= Capacity
      BY <1>1
    <3> QED
      BY <1>1, <3>1, ModShift
  <2>4. i - 1 \in 0..(Capacity - 1)
    BY <1>1
  <2>5. (head' + (i - 1)) % Capacity = (head + (1 + (i - 1))) % Capacity
    BY <2>3, <2>4
  <2> QED
    BY <2>2, <2>5 DEF RowSlot
<1>4. \A i \in 1..(Capacity - 1) : (head + i) % Capacity \in Slots /\ (head + i) % Capacity # head
  <2> TAKE i \in 1..(Capacity - 1)
  <2>1. i \in 0..(Capacity - 1) /\ 0 \in 0..(Capacity - 1) /\ i # 0 /\ head + i \in Nat
    BY <1>1
  <2>2. (head + 0) % Capacity = head
    BY <1>1, ModSmall
  <2> QED
    BY <1>1, <2>1, <2>2, SlotsDiffer, SlotMod
<1>5. ASSUME NEW i \in 1..(Capacity - 1)
      PROVE  RowAt(ring', head', i) = RowAt(ring, head, i + 1)
  <2>1. i \in 1..Capacity /\ head + (i + 1) - 1 = head + i
    BY <1>1
  <2>2. RowSlot(head', i) = (head + i) % Capacity /\ RowSlot(head, i + 1) = (head + i) % Capacity
    BY <1>3, <2>1 DEF RowSlot
  <2> QED
    BY <1>1, <1>2, <1>4, <2>2 DEF RowAt
<1>6. RowAt(ring', head', Capacity) = r
  <2>1. RowSlot(head', Capacity) = head
    BY <1>1, <1>2, <1>3
  <2> QED
    BY <1>1, <1>2, <2>1 DEF RowAt
<1>7. RowAt(ring, head, 1) = ring[head]
  <2>1. head + 1 - 1 = head
    BY <1>1
  <2> QED
    BY <1>1, <2>1, ModSmall DEF RowAt, RowSlot
<1> QED
  BY <1>5, <1>6, <1>7

\* The newest n rows.
Newest(n, s) == SubSeq(s, Len(s) - n + 1, Len(s))

LEMMA NewestAt ==
  ASSUME NEW s \in Seq(Nat), NEW n \in Nat, n <= Len(s)
  PROVE  /\ Newest(n, s) \in Seq(Nat) /\ Len(Newest(n, s)) = n
         /\ \A i \in 1..n : Newest(n, s)[i] = s[Len(s) - n + i]
<1>1. Len(s) \in Nat /\ \A i \in 1..Len(s) : s[i] \in Nat
  BY LenProperties, ElementOfSeq
<1>2. /\ Len(s) - n + 1 \in Int /\ Len(s) \in Int
      /\ \A i \in (Len(s) - n + 1)..Len(s) : s[i] \in Nat
  BY <1>1
<1>3. /\ Newest(n, s) \in Seq(Nat)
      /\ Len(Newest(n, s)) = IF Len(s) - n + 1 <= Len(s) THEN Len(s) - (Len(s) - n + 1) + 1 ELSE 0
      /\ \A i \in 1..(Len(s) - (Len(s) - n + 1) + 1) :
           Newest(n, s)[i] = s[Len(s) - n + 1 + i - 1]
  BY <1>2, SubSeqProperties DEF Newest
<1> QED
  BY <1>1, <1>3

\* queue_push on a full ring: the queue has one row more at its end, after a
\* full file has taken its unread rows with it.
LEMMA RingSpills ==
  ASSUME IndexInv, IndexInv', phase = "run", NEW r \in Nat, PushEvicting(r)
  PROVE  \/ Contents' = Append(Contents, r) /\ UNCHANGED <<dropped, cleared>>
         \/ /\ Contents' = Append(Newest(Capacity, Contents), r)
            /\ Len(Contents) > Capacity
            /\ dropped' = dropped \cup Elements(Unread) /\ cleared' = TRUE
<1> DEFINE U == Len(file) - readOffset
<1>1. /\ count = Capacity /\ count' = Capacity /\ head' = (head + 1) % Capacity /\ Enqueue(r)
  BY DEF PushEvicting
<1>2. /\ \A i \in 1..(Capacity - 1) : RowAt(ring', head', i) = RowAt(ring, head, i + 1)
      /\ RowAt(ring', head', Capacity) = r
      /\ RowAt(ring, head, 1) = ring[head]
  BY <1>1, RingTurns
<1>3. /\ Len(file) \in Nat /\ readOffset \in Nat /\ readOffset <= Len(file) /\ U \in Nat
      /\ Capacity \in Nat /\ Capacity > 0 /\ Contents \in Seq(Nat) /\ Contents' \in Seq(Nat)
      /\ Len(Contents) = U + Capacity /\ file \in Seq(Nat) /\ ring[head] \in Nat
  BY <1>1, RowsBefore, RowsAfter, SlotDef
<1>4. /\ \A i \in 1..U : Contents[i] = file[readOffset + i]
      /\ \A i \in (U + 1)..(U + Capacity) : Contents[i] = RowAt(ring, head, i - U)
  BY <1>1, RowsBefore
<1>0. U = Len(file) - readOffset
  OBVIOUS
<1> HIDE DEF U
<1>5. CASE ~FileFull
  <2>1. /\ file' = Append(file, ring[head]) /\ readOffset' = readOffset
        /\ UNCHANGED <<dropped, cleared>>
    BY <1>5 DEF PushEvicting
  <2>2. /\ Len(file') = Len(file) + 1 /\ file'[Len(file) + 1] = ring[head]
        /\ \A i \in 1..Len(file) : file'[i] = file[i]
    BY <1>3, <2>1
  <2>3. Len(file') - readOffset' = U + 1 /\ Len(Contents') = U + 1 + Capacity
    BY <1>0, <1>1, <1>3, <2>1, <2>2, RowsAfter
  <2>4. /\ \A i \in 1..(U + 1) : Contents'[i] = file'[readOffset + i]
        /\ \A i \in (U + 2)..(U + 1 + Capacity) : Contents'[i] = RowAt(ring', head', i - (U + 1))
    <3>1. /\ \A i \in 1..(Len(file') - readOffset') : Contents'[i] = file'[readOffset' + i]
          /\ \A i \in (Len(file') - readOffset' + 1)..(Len(file') - readOffset' + count') :
               Contents'[i] = RowAt(ring', head', i - (Len(file') - readOffset'))
      BY RowsAfter
    <3>2. /\ \A i \in 1..(U + 1) : Contents'[i] = file'[readOffset' + i]
          /\ \A i \in (U + 1 + 1)..(U + 1 + Capacity) : Contents'[i] = RowAt(ring', head', i - (U + 1))
      BY <1>1, <2>3, <3>1
    <3>3. U + 1 + 1 = U + 2
      BY <1>3
    <3> QED
      BY <2>1, <3>2, <3>3
  <2>5. \A i \in 1..U : Contents'[i] = Contents[i]
    <3> TAKE i \in 1..U
    <3>1. i \in 1..(U + 1) /\ readOffset + i \in 1..Len(file)
      BY <1>0, <1>3
    <3> QED
      BY <1>4, <2>2, <2>4, <3>1
  <2>6. Contents'[U + 1] = Contents[U + 1]
    <3>1. /\ U + 1 \in 1..(U + 1) /\ readOffset + (U + 1) = Len(file) + 1
          /\ U + 1 \in (U + 1)..(U + Capacity) /\ U + 1 - U = 1
      BY <1>0, <1>3
    <3>2. Contents'[U + 1] = ring[head]
      BY <2>2, <2>4, <3>1
    <3>3. Contents[U + 1] = RowAt(ring, head, 1)
      BY <1>3, <1>4, <3>1
    <3> QED
      BY <1>2, <3>2, <3>3
  <2>7. \A i \in (U + 2)..(U + Capacity) : Contents'[i] = Contents[i]
    <3> TAKE i \in (U + 2)..(U + Capacity)
    <3>1. /\ i \in (U + 2)..(U + 1 + Capacity) /\ i \in (U + 1)..(U + Capacity)
          /\ i - (U + 1) \in 1..(Capacity - 1) /\ i - (U + 1) + 1 = i - U
      BY <1>3
    <3> QED
      BY <1>2, <1>4, <2>4, <3>1
  <2>8. Contents'[U + Capacity + 1] = r
    <3>1. U + Capacity + 1 \in (U + 2)..(U + 1 + Capacity) /\ U + Capacity + 1 - (U + 1) = Capacity
      BY <1>3
    <3> QED
      BY <1>2, <1>3, <2>4, <3>1
  <2>9. \A i \in 1..(U + Capacity) : Contents'[i] = Contents[i]
    <3> TAKE i \in 1..(U + Capacity)
    <3>1. i \in 1..U \/ i = U + 1 \/ i \in (U + 2)..(U + Capacity)
      BY <1>3
    <3> QED
      BY <2>5, <2>6, <2>7, <3>1
  <2>10. Len(Contents') = Len(Contents) + 1
    BY <1>3, <2>3
  <2>11. Contents' = Append(Contents, r)
    <3>1. \A i \in 1..Len(Contents) : Contents'[i] = Contents[i]
      BY <1>3, <2>9
    <3>2. Contents'[Len(Contents) + 1] = r
      BY <1>3, <2>8
    <3> QED
      BY <1>3, <2>10, <3>1, <3>2, AppendsTo
  <2> QED
    BY <2>1, <2>11
<1>6. CASE FileFull
  <2>1. /\ file' = <<ring[head]>> /\ readOffset' = 0
        /\ dropped' = dropped \cup Elements(Unread) /\ cleared' = TRUE
    BY <1>6 DEF PushEvicting, ClearOverflow
  <2>2. Len(file') = 1 /\ file'[1] = ring[head]
    BY <1>3, <2>1
  <2>3. U > 0
    <3>1. Len(file) + 1 > MaxFile /\ MaxFile \in Nat /\ MaxFile > 0
      BY <1>6, SlotDef DEF FileFull
    <3>2. Len(file) > 0
      BY <1>3, <3>1
    <3>3. file # <<>>
      BY <3>2, EmptySeq
    <3>4. readOffset < Len(file)
      BY <3>3 DEF IndexInv, OverflowInBounds
    <3> QED
      BY <1>0, <1>3, <3>4
  <2>4. Len(file') - readOffset' = 1 /\ Len(Contents') = 1 + Capacity
    BY <1>1, <1>3, <2>1, <2>2, RowsAfter
  <2>5. /\ Contents'[1] = ring[head]
        /\ \A i \in 2..(1 + Capacity) : Contents'[i] = RowAt(ring', head', i - 1)
    <3>1. /\ \A i \in 1..(Len(file') - readOffset') : Contents'[i] = file'[readOffset' + i]
          /\ \A i \in (Len(file') - readOffset' + 1)..(Len(file') - readOffset' + count') :
               Contents'[i] = RowAt(ring', head', i - (Len(file') - readOffset'))
      BY RowsAfter
    <3>2. /\ \A i \in 1..1 : Contents'[i] = file'[0 + i]
          /\ \A i \in (1 + 1)..(1 + Capacity) : Contents'[i] = RowAt(ring', head', i - 1)
      BY <1>1, <2>1, <2>4, <3>1
    <3> QED
      BY <1>3, <2>2, <3>2
  <2> DEFINE N == Newest(Capacity, Contents)
  <2>6. /\ N \in Seq(Nat) /\ Len(N) = Capacity
        /\ \A i \in 1..Capacity : N[i] = Contents[U + i]
    <3>1. Capacity <= Len(Contents) /\ Len(Contents) - Capacity = U
      BY <1>3
    <3> QED
      BY <1>3, <3>1, NewestAt
  <2> HIDE DEF N
  <2>7. \A i \in 1..Capacity : N[i] = RowAt(ring, head, i)
    <3> TAKE i \in 1..Capacity
    <3> DEFINE x == U + i
    <3>1. x \in (U + 1)..(U + Capacity) /\ x - U = i
      BY <1>3
    <3>2. N[i] = Contents[x]
      BY <2>6
    <3> HIDE DEF x
    <3> QED
      BY <1>4, <3>1, <3>2
  <2>8. \A i \in 1..Capacity : Contents'[i] = N[i]
    <3> TAKE i \in 1..Capacity
    <3>1. CASE i = 1
      BY <1>2, <2>5, <2>7, <3>1
    <3>2. CASE i # 1
      <4>1. i \in 2..(1 + Capacity) /\ i - 1 \in 1..(Capacity - 1) /\ i - 1 + 1 = i
        BY <1>3, <3>2
      <4> QED
        BY <1>2, <2>5, <2>7, <4>1
    <3> QED
      BY <3>1, <3>2
  <2>9. Contents'[Capacity + 1] = r
    <3>1. Capacity + 1 \in 2..(1 + Capacity) /\ Capacity + 1 - 1 = Capacity
      BY <1>3
    <3> QED
      BY <1>2, <1>3, <2>5, <3>1
  <2>10. Contents' = Append(N, r)
    <3>1. Len(Contents') = Len(N) + 1
      BY <1>3, <2>4, <2>6
    <3> QED
      BY <1>3, <2>6, <2>8, <2>9, <3>1, AppendsTo
  <2>11. Len(Contents) > Capacity
    BY <1>3, <2>3
  <2> QED
    BY <2>1, <2>10, <2>11 DEF N
<1> QED
  BY <1>5, <1>6

\* A full file has unread rows: queue_file_read deletes it with the last one.
LEMMA FullFileUnread ==
  ASSUME IndexInv, phase = "run", FileFull
  PROVE  Len(file) - readOffset > 0
<1>1. Len(file) \in Nat /\ readOffset \in Nat
  BY RowsBefore
<1>2. Len(file) + 1 > MaxFile /\ MaxFile \in Nat /\ MaxFile > 0
  BY SlotDef DEF FileFull
<1>3. Len(file) > 0
  BY <1>1, <1>2
<1>4. file # <<>>
  BY <1>3, EmptySeq
<1>5. readOffset < Len(file)
  BY <1>4 DEF IndexInv, OverflowInBounds
<1> QED
  BY <1>1, <1>5

\* A sequence without its first d rows.
Rest(d, s) == SubSeq(s, d + 1, Len(s))

LEMMA RestAt ==
  ASSUME NEW s \in Seq(Nat), NEW d \in Nat, d <= Len(s)
  PROVE  /\ Rest(d, s) \in Seq(Nat) /\ Len(Rest(d, s)) = Len(s) - d
         /\ \A i \in 1..(Len(s) - d) : Rest(d, s)[i] = s[d + i]
<1>1. Len(s) \in Nat /\ \A i \in 1..Len(s) : s[i] \in Nat
  BY LenProperties, ElementOfSeq
<1>2. d + 1 \in Int /\ Len(s) \in Int /\ \A i \in (d + 1)..Len(s) : s[i] \in Nat
  BY <1>1
<1>3. /\ Rest(d, s) \in Seq(Nat)
      /\ Len(Rest(d, s)) = IF d + 1 <= Len(s) THEN Len(s) - (d + 1) + 1 ELSE 0
      /\ \A i \in 1..(Len(s) - (d + 1) + 1) : Rest(d, s)[i] = s[d + 1 + i - 1]
  BY <1>2, SubSeqProperties DEF Rest
<1> QED
  BY <1>1, <1>3

LEMMA NewestIsRest ==
  ASSUME NEW s \in Seq(Nat), NEW n \in Nat, n <= Len(s)
  PROVE  Newest(n, s) = Rest(Len(s) - n, s)
  BY DEF Newest, Rest

\* A push that is refused may all the same have cleared a full file.
LEMMA RingRefuses ==
  ASSUME IndexInv, IndexInv', phase = "run", PushRefused
  PROVE  \/ Contents' = Contents /\ UNCHANGED <<dropped, cleared>>
         \/ /\ Contents' = Newest(Capacity, Contents) /\ Len(Contents) > Capacity
            /\ dropped' = dropped \cup Elements(Unread) /\ cleared' = TRUE
<1>1. UNCHANGED <<ring, head, count>> /\ count = Capacity
  BY DEF PushRefused
<1>2. CASE ~FileFull
  BY <1>1, <1>2, ContentsRows DEF PushRefused
<1>3. CASE FileFull
  <2> DEFINE U == Len(file) - readOffset
             N == Newest(Capacity, Contents)
  <2>1. /\ file' = <<>> /\ readOffset' = 0
        /\ dropped' = dropped \cup Elements(Unread) /\ cleared' = TRUE
    BY <1>3 DEF PushRefused, ClearOverflow
  <2>2. /\ U \in Nat /\ U > 0 /\ Capacity \in Nat /\ Contents \in Seq(Nat)
        /\ Contents' \in Seq(Nat) /\ Len(Contents) = U + Capacity
    BY <1>1, <1>3, RowsBefore, RowsAfter, FullFileUnread, SlotDef
  <2>3. \A i \in (U + 1)..(U + Capacity) : Contents[i] = RowAt(ring, head, i - U)
    BY <1>1, RowsBefore
  <2> HIDE DEF U
  <2>4. Len(file') - readOffset' = 0
    BY <2>1, EmptySeq
  <2>5. /\ Len(Contents') = Capacity
        /\ \A i \in 1..Capacity : Contents'[i] = RowAt(ring, head, i)
    <3>1. /\ Len(Contents') = Len(file') - readOffset' + count'
          /\ \A i \in (Len(file') - readOffset' + 1)..(Len(file') - readOffset' + count') :
               Contents'[i] = RowAt(ring', head', i - (Len(file') - readOffset'))
      BY RowsAfter
    <3>2. /\ Len(Contents') = 0 + Capacity
          /\ \A i \in (0 + 1)..(0 + Capacity) : Contents'[i] = RowAt(ring, head, i - 0)
      BY <1>1, <2>4, <3>1
    <3>3. 0 + 1 = 1 /\ 0 + Capacity = Capacity /\ \A i \in 1..Capacity : i - 0 = i
      BY <2>2
    <3> QED
      BY <3>2, <3>3
  <2>6. /\ N \in Seq(Nat) /\ Len(N) = Capacity
        /\ \A i \in 1..Capacity : N[i] = Contents[U + i]
    <3>1. Capacity <= Len(Contents) /\ Len(Contents) - Capacity = U
      BY <2>2
    <3> QED
      BY <2>2, <3>1, NewestAt
  <2> HIDE DEF N
  <2>7. \A i \in 1..Capacity : Contents'[i] = N[i]
    <3> TAKE i \in 1..Capacity
    <3> DEFINE x == U + i
    <3>1. x \in (U + 1)..(U + Capacity) /\ x - U = i
      BY <2>2
    <3>2. N[i] = Contents[x]
      BY <2>6
    <3> HIDE DEF x
    <3> QED
      BY <2>3, <2>5, <3>1, <3>2
  <2>8. Contents' = N
    BY <2>2, <2>5, <2>6, <2>7, SeqEqual
  <2>9. Len(Contents) > Capacity
    BY <2>2
  <2> QED
    BY <2>1, <2>8, <2>9 DEF N
<1> QED
  BY <1>2, <1>3

\* queue_pop removes the oldest rows, and the ones it removes are the ones
\* it was to deliver.
LEMMA PopTakesOldest ==
  ASSUME IndexInv, IndexInv', NEW n \in Nat, Pop(n), ring' = ring
  PROVE  \E d \in 0..Len(Contents) :
           /\ Contents' = Rest(d, Contents)
           /\ \A i \in 1..d : Contents[i] \in consumed'
<1> DEFINE U == Len(file) - readOffset
           f == IF n < U THEN n ELSE U
           r == IF n - f < count THEN n - f ELSE count
           d == f + r
<1>1. /\ ring \in [Slots -> Nat] /\ head \in Slots /\ head \in Nat /\ count \in Nat
      /\ count <= Capacity /\ Capacity \in Nat /\ Len(file) \in Nat /\ readOffset \in Nat
      /\ U \in Nat /\ Len(Unread) = U /\ Contents \in Seq(Nat) /\ Contents' \in Seq(Nat)
      /\ Len(Contents) = U + count /\ file \in Seq(Nat)
  BY RowsBefore, RowsAfter, SlotDef
<1>2. /\ \A i \in 1..U : Contents[i] = file[readOffset + i]
      /\ \A i \in (U + 1)..(U + count) : Contents[i] = RowAt(ring, head, i - U)
  BY RowsBefore
<1>3. U = Len(file) - readOffset
  OBVIOUS
<1>4. /\ head' = (head + r) % Capacity /\ count' = count - r
      /\ IF f > 0 /\ f = U THEN file' = <<>> /\ readOffset' = 0
                           ELSE readOffset' = readOffset + f /\ file' = file
      /\ consumed' = consumed \cup Elements(AtMost(n, Contents)) \cup ({live} \ {NoRow})
  BY <1>1 DEF Pop
<1> HIDE DEF U
<1>5. /\ f \in Nat /\ r \in Nat /\ r <= count /\ f <= U /\ (r = 0 \/ f = U) /\ d \in Nat
      /\ d = f + r /\ d = (IF n < U + count THEN n ELSE U + count)
  BY <1>1
<1> HIDE DEF f, r, d
<1>6. Len(file') - readOffset' = U - f
      /\ (f < U => file' = file /\ readOffset' = readOffset + f)
  <2>1. CASE f > 0 /\ f = U
    BY <1>1, <1>4, <1>5, <2>1, EmptySeq
  <2>2. CASE ~(f > 0 /\ f = U)
    BY <1>1, <1>3, <1>4, <1>5, <2>2
  <2> QED
    BY <2>1, <2>2
<1>7. \A i \in 1..(count - r) : RowAt(ring', head', i) = RowAt(ring, head, r + i)
  <2> TAKE i \in 1..(count - r)
  <2>1. /\ i - 1 \in Nat /\ r + (i - 1) <= Capacity /\ head' \in Nat
        /\ head' + i - 1 = head' + (i - 1) /\ head + (r + i) - 1 = head + (r + (i - 1))
    BY <1>1, <1>4, <1>5, RowsAfter, SlotDef
  <2>2. \A k \in Nat : r + k <= Capacity =>
           (((head + r) % Capacity) + k) % Capacity = (head + (r + k)) % Capacity
    BY <1>1, <1>5, ModShift
  <2>3. (head' + (i - 1)) % Capacity = (head + (r + (i - 1))) % Capacity
    BY <1>4, <2>1, <2>2
  <2>4. RowSlot(head', i) = RowSlot(head, r + i)
    BY <2>1, <2>3 DEF RowSlot
  <2> QED
    BY <2>4 DEF RowAt
<1>8. /\ Len(Contents') = U - f + (count - r)
      /\ \A i \in 1..(U - f) : Contents'[i] = file'[readOffset' + i]
      /\ \A i \in (U - f + 1)..(U - f + (count - r)) : Contents'[i] = RowAt(ring', head', i - (U - f))
  BY <1>4, <1>6, RowsAfter
<1>9. /\ Rest(d, Contents) \in Seq(Nat) /\ Len(Rest(d, Contents)) = U + count - d
      /\ \A i \in 1..(U + count - d) : Rest(d, Contents)[i] = Contents[d + i]
  <2>1. d <= Len(Contents)
    BY <1>1, <1>5
  <2>2. /\ Rest(d, Contents) \in Seq(Nat) /\ Len(Rest(d, Contents)) = Len(Contents) - d
        /\ \A i \in 1..(Len(Contents) - d) : Rest(d, Contents)[i] = Contents[d + i]
    BY <1>1, <1>5, <2>1, RestAt
  <2> DEFINE R == Rest(d, Contents)
  <2> HIDE DEF R
  <2>3. /\ R \in Seq(Nat) /\ Len(R) = Len(Contents) - d
        /\ \A i \in 1..(Len(Contents) - d) : R[i] = Contents[d + i]
    BY <2>2 DEF R
  <2>4. Len(Contents) - d = U + count - d
    BY <1>1, <1>5
  <2>5. /\ R \in Seq(Nat) /\ Len(R) = U + count - d
        /\ \A i \in 1..(U + count - d) : R[i] = Contents[d + i]
    BY <2>3, <2>4
  <2> QED
    BY <2>5 DEF R
<1>10. ASSUME NEW i \in 1..(U + count - d)
       PROVE  Contents'[i] = Contents[d + i]
  <2>1. CASE i <= U - f
    <3>1. f < U /\ r = 0 /\ d = f
      BY <1>1, <1>5, <2>1
    <3>2. i \in 1..(U - f) /\ d + i \in 1..U /\ readOffset + f + i = readOffset + (d + i)
      BY <1>1, <1>5, <2>1, <3>1
    <3>3. Contents'[i] = file[readOffset + f + i]
      BY <1>6, <1>8, <3>1, <3>2
    <3> DEFINE x == d + i
    <3>4. x \in 1..U /\ Contents'[i] = file[readOffset + x]
      BY <3>2, <3>3
    <3>5. Contents'[i] = Contents[x]
      BY <1>2, <3>4
    <3> QED
      BY <3>5
  <2>2. CASE i > U - f
    <3> DEFINE x == d + i
               y == i - (U - f)
    <3>1. /\ i \in (U - f + 1)..(U - f + (count - r)) /\ y \in 1..(count - r)
          /\ x \in (U + 1)..(U + count) /\ x - U = r + y
      BY <1>1, <1>5, <2>2
    <3>2. Contents'[i] = RowAt(ring', head', y)
      BY <1>8, <3>1
    <3> HIDE DEF x, y
    <3>3. Contents[x] = RowAt(ring, head, r + y)
      BY <1>2, <3>1
    <3>4. Contents'[i] = Contents[x]
      BY <1>7, <3>1, <3>2, <3>3
    <3> QED
      BY <3>4 DEF x
  <2> QED
    BY <1>1, <1>5, <2>1, <2>2
<1>11. Contents' = Rest(d, Contents)
  <2>1. Len(Contents') = U + count - d
    BY <1>1, <1>5, <1>8
  <2>2. \A i \in 1..Len(Contents') : Contents'[i] = Rest(d, Contents)[i]
    BY <1>9, <1>10, <2>1
  <2> QED
    BY <1>1, <1>9, <2>1, <2>2, SeqEqual
<1>12. ASSUME NEW i \in 1..d
       PROVE  Contents[i] \in consumed'
  <2>1. AtMost(n, Contents) = SubSeq(Contents, 1, d)
    BY <1>1, <1>5 DEF AtMost
  <2>2. /\ 1 \in Int /\ d \in Int /\ \A j \in 1..d : Contents[j] \in Nat
        /\ d - 1 + 1 = d /\ (1 <= d => d - 1 + 1 = d) /\ i \in 1..d
    <3>1. \A j \in 1..Len(Contents) : Contents[j] \in Nat
      BY <1>1, ElementOfSeq
    <3> QED
      BY <1>1, <1>5, <3>1
  <2>3. /\ SubSeq(Contents, 1, d) \in Seq(Nat)
        /\ Len(SubSeq(Contents, 1, d)) = d
        /\ SubSeq(Contents, 1, d)[i] = Contents[i]
    <3>1. /\ SubSeq(Contents, 1, d) \in Seq(Nat)
          /\ Len(SubSeq(Contents, 1, d)) = IF 1 <= d THEN d - 1 + 1 ELSE 0
          /\ \A j \in 1..(d - 1 + 1) : SubSeq(Contents, 1, d)[j] = Contents[1 + j - 1]
      BY <2>2, SubSeqProperties
    <3>2. 1 + i - 1 = i /\ i \in 1..(d - 1 + 1) /\ 1 <= d
      BY <1>5
    <3> QED
      BY <2>2, <3>1, <3>2
  <2>4. i \in DOMAIN SubSeq(Contents, 1, d)
    BY <2>3, LenProperties
  <2>5. Contents[i] \in Elements(AtMost(n, Contents))
    BY <2>1, <2>3, <2>4 DEF Elements
  <2> QED
    BY <1>4, <2>5
<1>13. d \in 0..Len(Contents)
  BY <1>1, <1>5
<1> QED
  BY <1>11, <1>12, <1>13

\* queue_pop_tail removes the newest row.
LEMMA PopTailTakesNewest ==
  ASSUME IndexInv, IndexInv', PopTail
  PROVE  /\ Len(Contents) >= Capacity /\ Contents # <<>>
         /\ live' = Contents[Len(Contents)]
         /\ Contents' = SubSeq(Contents, 1, Len(Contents) - 1)
<1> DEFINE U == Len(file) - readOffset
<1>1. /\ ring \in [Slots -> Nat] /\ head \in Slots /\ head \in Nat /\ count = Capacity
      /\ Capacity \in Nat /\ Capacity > 0 /\ U \in Nat /\ tail = (head + count) % Capacity
      /\ Contents \in Seq(Nat) /\ Contents' \in Seq(Nat) /\ Len(Contents) = U + Capacity
  BY RowsBefore, RowsAfter, SlotDef DEF PopTail
<1>2. /\ \A i \in 1..U : Contents[i] = file[readOffset + i]
      /\ \A i \in (U + 1)..(U + Capacity) : Contents[i] = RowAt(ring, head, i - U)
  BY <1>1, RowsBefore
<1>3. /\ UNCHANGED <<ring, head, file, readOffset>> /\ count' = Capacity - 1
      /\ tail' = (tail + Capacity - 1) % Capacity /\ live' = ring[tail']
  BY <1>1 DEF PopTail, flashVars
<1>4. /\ Len(Contents') = U + (Capacity - 1)
      /\ \A i \in 1..U : Contents'[i] = file[readOffset + i]
      /\ \A i \in (U + 1)..(U + (Capacity - 1)) : Contents'[i] = RowAt(ring, head, i - U)
  BY <1>3, RowsAfter
<1> HIDE DEF U
<1>5. live' = Contents[Len(Contents)]
  <2>1. tail = head
    BY <1>1, ModFull
  <2>2. live' = RowAt(ring, head, Capacity)
    BY <1>3, <2>1 DEF RowAt, RowSlot
  <2> DEFINE x == U + Capacity
  <2>3. x \in (U + 1)..(U + Capacity) /\ x - U = Capacity /\ Len(Contents) = x
    BY <1>1
  <2> HIDE DEF x
  <2> QED
    BY <1>2, <2>2, <2>3
<1>6. \A i \in 1..(U + (Capacity - 1)) : Contents'[i] = Contents[i]
  <2> TAKE i \in 1..(U + (Capacity - 1))
  <2>1. i \in 1..U \/ (i \in (U + 1)..(U + (Capacity - 1)) /\ i \in (U + 1)..(U + Capacity))
    BY <1>1
  <2> QED
    BY <1>2, <1>4, <2>1
<1> DEFINE s == SubSeq(Contents, 1, Len(Contents) - 1)
<1>7. /\ s \in Seq(Nat) /\ Len(s) = U + (Capacity - 1)
      /\ \A i \in 1..(U + (Capacity - 1)) : s[i] = Contents[i]
  <2>1. /\ 1 \in Int /\ Len(Contents) - 1 \in Int
        /\ \A i \in 1..(Len(Contents) - 1) : Contents[i] \in Nat
    <3>1. \A i \in 1..Len(Contents) : Contents[i] \in Nat
      BY <1>1, ElementOfSeq
    <3> QED
      BY <1>1, <3>1
  <2>2. /\ s \in Seq(Nat)
        /\ Len(s) = IF 1 <= Len(Contents) - 1 THEN Len(Contents) - 1 - 1 + 1 ELSE 0
        /\ \A i \in 1..(Len(Contents) - 1 - 1 + 1) : s[i] = Contents[1 + i - 1]
    BY <2>1, SubSeqProperties
  <2> HIDE DEF s
  <2> QED
    BY <1>1, <2>2
<1> HIDE DEF s
<1>8. \A i \in 1..Len(Contents') : Contents'[i] = s[i]
  BY <1>4, <1>6, <1>7
<1>9. Contents' = s
  BY <1>1, <1>4, <1>7, <1>8, SeqEqual
<1>10. Len(Contents) >= Capacity /\ Contents # <<>>
  BY <1>1, EmptySeq
<1> QED
  BY <1>5, <1>9, <1>10 DEF s

\* Steps that leave the ring, the file and the offset alone.
LEMMA RowsUntouched ==
  ASSUME UNCHANGED <<ring, head, count, file, readOffset>>
  PROVE  Contents' = Contents
  BY DEF Contents, Unread, RingRows

-----------------------------------------------------------------------------
(* Order and completeness *)

\* The rows of s are the newest of those numbered below n, oldest first, and
\* the others are in gone.
Ordered(s, n, gone) ==
  /\ \A i \in 1..Len(s) : s[i] = (n - 1) - Len(s) + i
  /\ \A r \in 1..((n - 1) - Len(s)) : r \in gone

\* A new row at the end keeps the order.
LEMMA OrderedAppend ==
  ASSUME NEW s \in Seq(Nat), NEW n \in Nat, NEW gone, Ordered(s, n, gone)
  PROVE  Ordered(Append(s, n), n + 1, gone)
<1> DEFINE t == Append(s, n)
<1>1. /\ Len(s) \in Nat /\ Len(t) = Len(s) + 1 /\ t[Len(s) + 1] = n
      /\ \A i \in 1..Len(s) : t[i] = s[i]
  BY LenProperties
<1> HIDE DEF t
<1>2. ASSUME NEW i \in 1..Len(t)
      PROVE  t[i] = (n + 1 - 1) - Len(t) + i
  <2>1. CASE i \in 1..Len(s)
    BY <1>1, <2>1 DEF Ordered
  <2>2. CASE i = Len(s) + 1
    BY <1>1, <2>2
  <2> QED
    BY <1>1, <2>1, <2>2
<1>3. (n + 1 - 1) - Len(t) = (n - 1) - Len(s)
  BY <1>1
<1>4. \A r \in 1..((n + 1 - 1) - Len(t)) : r \in gone
  BY <1>3 DEF Ordered
<1> QED
  BY <1>2, <1>4 DEF Ordered, t

\* So does taking rows from the front, if it is recorded that they are gone.
LEMMA OrderedRest ==
  ASSUME NEW s \in Seq(Nat), NEW n \in Nat, NEW gone, NEW more, Ordered(s, n, gone),
         NEW d \in 0..Len(s), gone \subseteq more, \A i \in 1..d : s[i] \in more
  PROVE  Ordered(Rest(d, s), n, more)
<1> DEFINE t == Rest(d, s)
<1>1. /\ Len(s) \in Nat /\ d \in Nat /\ d <= Len(s)
  BY LenProperties
<1>2. Len(t) = Len(s) - d /\ \A i \in 1..(Len(s) - d) : t[i] = s[d + i]
  BY <1>1, RestAt
<1> HIDE DEF t
<1>3. ASSUME NEW i \in 1..Len(t)
      PROVE  t[i] = (n - 1) - Len(t) + i
  <2> DEFINE x == d + i
  <2>1. x \in 1..Len(s) /\ t[i] = s[x] /\ (n - 1) - Len(s) + x = (n - 1) - Len(t) + i
    BY <1>1, <1>2
  <2> HIDE DEF x
  <2> QED
    BY <2>1 DEF Ordered
<1>4. ASSUME NEW r \in 1..((n - 1) - Len(t))
      PROVE  r \in more
  <2>1. CASE r <= (n - 1) - Len(s)
    <3>1. r \in 1..((n - 1) - Len(s))
      BY <1>1, <1>2, <2>1
    <3> QED
      BY <3>1 DEF Ordered
  <2>2. CASE r > (n - 1) - Len(s)
    <3> DEFINE i == r - ((n - 1) - Len(s))
    <3>1. i \in 1..d /\ i \in 1..Len(s) /\ (n - 1) - Len(s) + i = r
      BY <1>1, <1>2, <2>2
    <3> HIDE DEF i
    <3>2. s[i] = r
      BY <3>1 DEF Ordered
    <3> QED
      BY <3>1, <3>2
  <2> QED
    BY <1>1, <1>2, <2>1, <2>2
<1> QED
  BY <1>3, <1>4 DEF Ordered, t

\* The rows of the file come before those of the ring: a cleared file takes
\* all but the newest Capacity of a full queue.
LEMMA ClearedRows ==
  ASSUME IndexInv, count = Capacity, dropped' = dropped \cup Elements(Unread)
  PROVE  /\ Len(Contents) - Capacity \in 0..Len(Contents)
         /\ Newest(Capacity, Contents) = Rest(Len(Contents) - Capacity, Contents)
         /\ \A i \in 1..(Len(Contents) - Capacity) : Contents[i] \in dropped'
<1>1. /\ Unread \in Seq(Nat) /\ RingRows \in Seq(Nat) /\ Contents \in Seq(Nat)
      /\ Len(Unread) \in Nat /\ Len(Contents) = Len(Unread) + Capacity /\ Capacity \in Nat
  BY RowsBefore, LenProperties, SlotDef
<1>2. ASSUME NEW i \in 1..(Len(Contents) - Capacity)
      PROVE  Contents[i] \in dropped'
  <2>1. i \in 1..Len(Unread) /\ i \in 1..(Len(Unread) + Len(RingRows))
    BY <1>1, LenProperties
  <2>2. Contents[i] = Unread[i]
    BY <1>1, <2>1, ConcatProperties DEF Contents
  <2>3. i \in DOMAIN Unread
    BY <1>1, <2>1, LenProperties
  <2> QED
    BY <2>2, <2>3 DEF Elements
<1>3. Len(Contents) - Capacity \in 0..Len(Contents) /\ Capacity <= Len(Contents)
  BY <1>1
<1>4. Newest(Capacity, Contents) = Rest(Len(Contents) - Capacity, Contents)
  BY <1>1, <1>3, NewestIsRest
<1> QED
  BY <1>2, <1>3, <1>4

\* What is true until the first restart, without the live-first option: the
\* rows are in order and accounted for, and before the queue is in service
\* there is nothing that could be restored.
FirstBoot ==
  boots = 0 =>
    /\ live = NoRow
    /\ phase # "run" => file = <<>> /\ count = 0 /\ dat.state # "good"
    /\ Ordered(Contents, nextRow, consumed \cup dropped)

LEMMA FirstBootInit == Init => FirstBoot
<1> SUFFICES ASSUME Init PROVE FirstBoot
  OBVIOUS
<1>1. IndexInv
  BY IndexInit
<1>2. live = NoRow /\ file = <<>> /\ count = 0 /\ readOffset = 0 /\ nextRow = 1 /\ dat.state = "none"
  BY DEF Init, NoDat
<1>3. Len(Contents) = 0
  BY <1>1, <1>2, RowsBefore, EmptySeq
<1>4. Ordered(Contents, nextRow, consumed \cup dropped)
  BY <1>2, <1>3 DEF Ordered
<1> QED
  BY <1>2, <1>4 DEF FirstBoot

LEMMA FirstBootNext ==
  ASSUME ~LiveFirst, IndexInv, IndexInv', FirstBoot, [Next]_vars
  PROVE  FirstBoot'
<1> SUFFICES ASSUME boots' = 0 PROVE FirstBoot'
  BY DEF FirstBoot
<1> USE DEF queueVars, flashVars, consumerVars, historyVars
<1>1. boots \in Nat /\ nextRow \in Nat /\ Contents \in Seq(Nat) /\ Contents' \in Seq(Nat)
  BY RowsBefore, RowsAfter DEF IndexInv, TypeOK, TaskTypeOK
<1> DEFINE gone == consumed \cup dropped
           Up == /\ boots = 0 /\ live = NoRow /\ Ordered(Contents, nextRow, gone)
                 /\ phase # "run" => file = <<>> /\ count = 0 /\ dat.state # "good"
<1>2. boots = 0 => Up
  BY DEF FirstBoot
<1> HIDE DEF Up
<1>3. CASE Push
  <2>1. boots = 0 /\ phase = "run" /\ UNCHANGED <<phase, live, consumed>>
    BY <1>3 DEF Push, PushUnchanged
  <2>2. Ordered(Contents, nextRow, gone)
    BY <1>2, <2>1 DEF Up
  <2>3. CASE (PushToRing(nextRow) \/ PushEvicting(nextRow)) /\ nextRow' = nextRow + 1
    <3>1. CASE Contents' = Append(Contents, nextRow) /\ dropped' = dropped
      <4>1. Ordered(Append(Contents, nextRow), nextRow + 1, gone)
        BY <1>1, <2>2, OrderedAppend
      <4>2. Ordered(Contents', nextRow', gone')
        BY <2>1, <2>3, <3>1, <4>1
      <4> QED
        BY <1>2, <2>1, <4>2 DEF FirstBoot, Up
    <3>2. CASE /\ Contents' = Append(Newest(Capacity, Contents), nextRow)
               /\ count = Capacity /\ dropped' = dropped \cup Elements(Unread)
      <4>1. /\ Len(Contents) - Capacity \in 0..Len(Contents)
            /\ Newest(Capacity, Contents) = Rest(Len(Contents) - Capacity, Contents)
            /\ \A i \in 1..(Len(Contents) - Capacity) : Contents[i] \in gone'
        BY <3>2, ClearedRows
      <4>2. gone \subseteq gone'
        BY <2>1, <3>2
      <4>3. Ordered(Newest(Capacity, Contents), nextRow, gone')
        BY <1>1, <2>2, <4>1, <4>2, OrderedRest
      <4>4. Newest(Capacity, Contents) \in Seq(Nat)
        BY <1>1, <4>1, RestAt
      <4>5. Ordered(Append(Newest(Capacity, Contents), nextRow), nextRow + 1, gone')
        BY <1>1, <4>3, <4>4, OrderedAppend
      <4>6. Ordered(Contents', nextRow', gone')
        BY <2>3, <3>2, <4>5
      <4> QED
        BY <1>2, <2>1, <4>6 DEF FirstBoot, Up
    <3>3. CASE PushToRing(nextRow)
      <4>1. Contents' = Append(Contents, nextRow) /\ dropped' = dropped
        BY <1>1, <3>3, RingGrows DEF PushToRing
      <4> QED
        BY <3>1, <4>1
    <3>4. CASE PushEvicting(nextRow)
      <4>1. \/ Contents' = Append(Contents, nextRow) /\ dropped' = dropped
            \/ /\ Contents' = Append(Newest(Capacity, Contents), nextRow)
               /\ dropped' = dropped \cup Elements(Unread)
        BY <1>1, <2>1, <3>4, RingSpills
      <4>2. count = Capacity
        BY <3>4 DEF PushEvicting
      <4> QED
        BY <3>1, <3>2, <4>1, <4>2
    <3> QED
      BY <2>3, <3>3, <3>4
  <2>4. CASE PushRefused /\ nextRow' = nextRow
    <3>1. CASE Contents' = Contents /\ dropped' = dropped
      BY <1>2, <2>1, <2>2, <2>4, <3>1 DEF FirstBoot, Up
    <3>2. CASE /\ Contents' = Newest(Capacity, Contents)
               /\ dropped' = dropped \cup Elements(Unread)
      <4>0. count = Capacity
        BY <2>4 DEF PushRefused
      <4>1. /\ Len(Contents) - Capacity \in 0..Len(Contents)
            /\ Newest(Capacity, Contents) = Rest(Len(Contents) - Capacity, Contents)
            /\ \A i \in 1..(Len(Contents) - Capacity) : Contents[i] \in gone'
        BY <3>2, <4>0, ClearedRows
      <4>2. gone \subseteq gone'
        BY <2>1, <3>2
      <4>3. Ordered(Newest(Capacity, Contents), nextRow, gone')
        BY <1>1, <2>2, <4>1, <4>2, OrderedRest
      <4>4. Ordered(Contents', nextRow', gone')
        BY <2>4, <3>2, <4>3
      <4> QED
        BY <1>2, <2>1, <4>4 DEF FirstBoot, Up
    <3> QED
      BY <2>1, <2>4, <3>1, <3>2, RingRefuses
  <2> QED
    BY <1>3, <2>3, <2>4 DEF Push
<1>4. CASE CommitBatch
  <2>1. boots = 0 /\ phase = "run" /\ UNCHANGED <<ring, phase, nextRow, dropped>> /\ live' = NoRow
    BY <1>4 DEF CommitBatch
  <2>2. Ordered(Contents, nextRow, gone)
    BY <1>2, <2>1 DEF Up
  <2>3. PICK n \in 0..Len(batch) : Pop(n)
    BY <1>4 DEF CommitBatch
  <2>4. n \in Nat
    <3>1. batch \in Seq(Nat)
      BY DEF IndexInv, TypeOK, TaskTypeOK
    <3>2. Len(batch) \in Nat
      BY <3>1, LenProperties
    <3> QED
      BY <3>2
  <2>5. PICK d \in 0..Len(Contents) :
           /\ Contents' = Rest(d, Contents)
           /\ \A i \in 1..d : Contents[i] \in consumed'
    BY <2>1, <2>3, <2>4, PopTakesOldest
  <2>6. gone \subseteq gone'
    BY <2>1, <2>3 DEF Pop
  <2>7. Ordered(Rest(d, Contents), nextRow, gone')
    <3>1. \A i \in 1..d : Contents[i] \in gone'
      BY <2>5
    <3> QED
      BY <1>1, <2>2, <2>5, <2>6, <3>1, OrderedRest
  <2>8. Ordered(Contents', nextRow', gone')
    BY <2>1, <2>5, <2>7
  <2> QED
    BY <2>1, <2>8 DEF FirstBoot
<1>5. CASE LoadSnapshot
  <2>1. boots = 0 /\ phase = "load" /\ UNCHANGED <<readOffset, file, live, nextRow, consumed, dropped>>
    BY <1>5 DEF LoadSnapshot
  <2>2. Up
    BY <1>2, <2>1
  <2>3. dat.state # "good" /\ UNCHANGED <<ring, head, count>>
    BY <1>5, <2>1, <2>2 DEF LoadSnapshot, Up
  <2>4. dat' \in {NoDat, dat} /\ NoDat.state = "none"
    BY <1>5 DEF LoadSnapshot, Written, NoDat
  <2>5. Contents' = Contents
    BY <2>1, <2>3, RowsUntouched
  <2>6. /\ live' = NoRow /\ file' = <<>> /\ count' = 0 /\ dat'.state # "good"
    BY <2>1, <2>2, <2>3, <2>4 DEF Up
  <2> QED
    BY <2>1, <2>2, <2>5, <2>6 DEF FirstBoot, Up
<1>6. CASE RestoreOverflow
  <2>1. boots = 0 /\ phase = "restore" /\ phase' = "run"
        /\ UNCHANGED <<ring, head, count, live, nextRow, consumed, dropped>>
    BY <1>6 DEF RestoreOverflow
  <2>2. Up
    BY <1>2, <2>1
  <2>3. UNCHANGED <<file, readOffset>>
    BY <1>6, <2>1, <2>2 DEF RestoreOverflow, Up
  <2>4. Contents' = Contents
    BY <2>1, <2>3, RowsUntouched
  <2> QED
    BY <2>1, <2>2, <2>4 DEF FirstBoot, Up
<1>7. CASE SocReset \/ PowerLoss
  BY <1>1, <1>7 DEF SocReset, PowerLoss, LoseRAM
<1>8. CASE PopTail
  BY <1>8 DEF PopTail
<1>9. CASE RestoreTail
  BY <1>2, <1>9 DEF RestoreTail, PushUnchanged, Up
<1>10. CASE \/ PeekBatch \/ AbandonBatch \/ CommitLogin \/ ClearCheck \/ ClearSnapshot
            \/ SaveSnapshot \/ SaveOffset \/ ResetReturns
  <2>1. /\ phase = "run" /\ live' \in {live, NoRow}
        /\ UNCHANGED <<ring, head, count, readOffset, file, phase, nextRow, boots, consumed, dropped>>
    BY <1>10 DEF PeekBatch, AbandonBatch, CommitLogin, ClearCheck, ClearSnapshot,
                 SaveSnapshot, SaveOffset, ResetReturns
  <2>2. Contents' = Contents
    BY <2>1, RowsUntouched
  <2> QED
    BY <1>2, <2>1, <2>2 DEF FirstBoot, Up
<1>11. CASE UNCHANGED vars
  <2>1. UNCHANGED <<ring, head, count, readOffset, file, phase, nextRow, boots, consumed, dropped, live, dat>>
    BY <1>11 DEF vars
  <2>2. Contents' = Contents
    BY <2>1, RowsUntouched
  <2> QED
    BY <1>2, <2>1, <2>2 DEF FirstBoot, Up
<1> QED
  BY <1>3, <1>4, <1>5, <1>6, <1>7, <1>8, <1>9, <1>10, <1>11 DEF Next

\* Until a restart and without the live-first option rows leave the queue in
\* the order they were accepted, none twice and none skipped, through
\* evictions, cleared files and failing file operations.
THEOREM OrderIsKept == ASSUME ~LiveFirst PROVE Spec => []HoldsTheNewest
<1>1. FirstBoot => HoldsTheNewest
  BY DEF FirstBoot, Ordered, HoldsTheNewest
<1>2. IndexInv /\ IndexInv' /\ FirstBoot /\ [Next]_vars => FirstBoot'
  BY FirstBootNext
<1> QED
  BY IndicesCorrect, FirstBootInit, <1>1, <1>2, PTL DEF Spec

\* ... and a row that is not in the queue was popped after an ACK or was in a file
\* that was cleared.
THEOREM EveryRowAccounted == ASSUME ~LiveFirst PROVE Spec => []NothingLost
<1>1. FirstBoot /\ IndexInv => NothingLost
  <2> SUFFICES ASSUME FirstBoot, IndexInv, boots = 0, NEW r \in 1..(nextRow - 1)
               PROVE  r \in Elements(Contents) \cup consumed \cup dropped
    BY DEF NothingLost
  <2>1. Ordered(Contents, nextRow, consumed \cup dropped)
    BY DEF FirstBoot
  <2>2. nextRow \in Nat /\ Contents \in Seq(Nat) /\ Len(Contents) \in Nat
        /\ DOMAIN Contents = 1..Len(Contents)
    BY RowsBefore, LenProperties DEF IndexInv, TypeOK, TaskTypeOK
  <2>3. CASE r <= (nextRow - 1) - Len(Contents)
    BY <2>1, <2>2, <2>3 DEF Ordered
  <2>4. CASE r > (nextRow - 1) - Len(Contents)
    <3> DEFINE i == r - ((nextRow - 1) - Len(Contents))
    <3>1. i \in 1..Len(Contents) /\ (nextRow - 1) - Len(Contents) + i = r
      BY <2>2, <2>4
    <3> HIDE DEF i
    <3>2. Contents[i] = r
      BY <2>1, <3>1 DEF Ordered
    <3> QED
      BY <2>2, <3>1, <3>2 DEF Elements
  <2> QED
    BY <2>2, <2>3, <2>4
<1>2. IndexInv /\ IndexInv' /\ FirstBoot /\ [Next]_vars => FirstBoot'
  BY FirstBootNext
<1> QED
  BY IndicesCorrect, FirstBootInit, <1>1, <1>2, PTL DEF Spec

-----------------------------------------------------------------------------
(* The batch in flight *)

\* The batch is the front of the queue, and short enough that taking the
\* newest row of a full ring does not reach it.  Without the file that cannot
\* be opened for the count: with it, the batch is not the front.
BatchFits ==
  /\ phase # "run" => cpc = "idle"
  /\ cpc \in {"peeked", "sent"} /\ ~cleared =>
       /\ Len(batch) <= MaxBatch /\ Len(batch) <= Len(Contents)
       /\ \A i \in 1..Len(batch) : batch[i] = Contents[i]

LEMMA AtMostAt ==
  ASSUME NEW s \in Seq(Nat), NEW n \in Nat
  PROVE  /\ AtMost(n, s) \in Seq(Nat) /\ Len(AtMost(n, s)) <= n /\ Len(AtMost(n, s)) <= Len(s)
         /\ n <= Len(s) => Len(AtMost(n, s)) = n
         /\ \A i \in 1..Len(AtMost(n, s)) : AtMost(n, s)[i] = s[i]
<1> DEFINE m == IF n < Len(s) THEN n ELSE Len(s)
           t == SubSeq(s, 1, m)
<1>1. Len(s) \in Nat /\ \A i \in 1..Len(s) : s[i] \in Nat
  BY LenProperties, ElementOfSeq
<1>2. /\ m \in Nat /\ m <= n /\ m <= Len(s) /\ (n <= Len(s) => m = n)
      /\ 1 \in Int /\ m \in Int /\ \A i \in 1..m : s[i] \in Nat
  BY <1>1
<1>3. AtMost(n, s) = t
  BY DEF AtMost
<1> HIDE DEF m
<1>4. /\ t \in Seq(Nat) /\ Len(t) = IF 1 <= m THEN m - 1 + 1 ELSE 0
      /\ \A i \in 1..(m - 1 + 1) : t[i] = s[1 + i - 1]
  BY <1>2, SubSeqProperties
<1> HIDE DEF t
<1>5. t \in Seq(Nat) /\ Len(t) = m /\ \A i \in 1..m : t[i] = s[i]
  BY <1>2, <1>4
<1> QED
  BY <1>2, <1>3, <1>5

LEMMA BatchInit == Init => BatchFits
  BY DEF Init, BatchFits

LEMMA BatchNext ==
  ASSUME "peek" \notin IOFaults, IndexInv, IndexInv', BatchFits, [Next]_vars
  PROVE  BatchFits'
<1> USE DEF queueVars, flashVars, consumerVars, historyVars
<1>1. /\ Contents \in Seq(Nat) /\ Contents' \in Seq(Nat) /\ batch \in Seq(Nat)
      /\ Len(Contents) \in Nat /\ Len(batch) \in Nat /\ MaxBatch \in Nat /\ Capacity \in Nat
      /\ nextRow \in Nat /\ live \in Nat /\ MaxBatch < Capacity
  BY RowsBefore, RowsAfter, LenProperties, SlotDef, SizesAssumption, BatchAssumption
     DEF IndexInv, TypeOK, TaskTypeOK
\* A push leaves the front alone, or clears the file and says so.
<1>2. ASSUME phase = "run", NEW r \in Nat, PushToRing(r) \/ PushEvicting(r) \/ PushRefused,
             UNCHANGED <<phase, cpc, batch>>
      PROVE  BatchFits'
  <2>1. \/ Contents' = Append(Contents, r) /\ cleared' = cleared
        \/ Contents' = Contents /\ cleared' = cleared
        \/ cleared' = TRUE
    <3>1. CASE PushToRing(r)
      BY <1>2, <3>1, RingGrows DEF PushToRing
    <3>2. CASE PushEvicting(r)
      BY <1>2, <3>2, RingSpills
    <3>3. CASE PushRefused
      BY <1>2, <3>3, RingRefuses
    <3> QED
      BY <1>2, <3>1, <3>2, <3>3
  <2>2. CASE Contents' = Append(Contents, r) /\ cleared' = cleared
    <3>1. /\ Len(Contents') = Len(Contents) + 1
          /\ \A i \in 1..Len(Contents) : Contents'[i] = Contents[i]
      BY <1>1, <2>2
    <3>2. ASSUME cpc \in {"peeked", "sent"}, ~cleared
          PROVE  /\ Len(batch) <= MaxBatch /\ Len(batch) <= Len(Contents')
                 /\ \A i \in 1..Len(batch) : batch[i] = Contents'[i]
      <4>1. /\ Len(batch) <= MaxBatch /\ Len(batch) <= Len(Contents)
            /\ \A i \in 1..Len(batch) : batch[i] = Contents[i]
        BY <3>2 DEF BatchFits
      <4>2. \A i \in 1..Len(batch) : i \in 1..Len(Contents)
        BY <1>1, <4>1
      <4> QED
        BY <1>1, <3>1, <4>1, <4>2
    <3> QED
      BY <1>2, <2>2, <3>2 DEF BatchFits
  <2>3. CASE Contents' = Contents /\ cleared' = cleared
    BY <1>2, <2>3 DEF BatchFits
  <2>4. CASE cleared' = TRUE
    BY <1>2, <2>4 DEF BatchFits
  <2> QED
    BY <2>1, <2>2, <2>3, <2>4
<1>3. CASE Push
  <2>1. /\ phase = "run" /\ UNCHANGED <<phase, cpc, batch>>
        /\ PushToRing(nextRow) \/ PushEvicting(nextRow) \/ PushRefused
    BY <1>3 DEF Push, PushUnchanged
  <2> QED
    BY <1>1, <1>2, <2>1
<1>4. CASE RestoreTail
  <2>1. /\ phase = "run" /\ UNCHANGED <<phase, cpc, batch>>
        /\ PushToRing(live) \/ PushEvicting(live) \/ PushRefused
    BY <1>4 DEF RestoreTail, PushUnchanged
  <2> QED
    BY <1>1, <1>2, <2>1
<1>5. CASE PeekBatch
  <2>1. /\ phase = "run" /\ phase' = phase /\ batch' = AtMost(MaxBatch, Contents)
        /\ UNCHANGED <<ring, head, count, readOffset, file>>
    BY <1>5 DEF PeekBatch, PeekResults
  <2>2. Contents' = Contents
    BY <2>1, RowsUntouched
  <2>3. /\ Len(batch') <= MaxBatch /\ Len(batch') <= Len(Contents)
        /\ \A i \in 1..Len(batch') : batch'[i] = Contents[i]
    <3> DEFINE t == AtMost(MaxBatch, Contents)
    <3>1. /\ Len(t) <= MaxBatch /\ Len(t) <= Len(Contents)
          /\ \A i \in 1..Len(t) : t[i] = Contents[i]
      BY <1>1, AtMostAt
    <3>2. batch' = t
      BY <2>1
    <3> HIDE DEF t
    <3> QED
      BY <3>1, <3>2
  <2> QED
    BY <2>1, <2>2, <2>3 DEF BatchFits
<1>6. CASE PopTail
  <2>1. phase = "run" /\ cpc = "peeked" /\ UNCHANGED <<phase, batch, cleared>>
    BY <1>6 DEF PopTail
  <2>2. ASSUME ~cleared
        PROVE  /\ Len(batch) <= MaxBatch /\ Len(batch) <= Len(Contents')
               /\ \A i \in 1..Len(batch) : batch[i] = Contents'[i]
    <3>1. /\ Len(batch) <= MaxBatch /\ Len(batch) <= Len(Contents)
          /\ \A i \in 1..Len(batch) : batch[i] = Contents[i]
      BY <2>1, <2>2 DEF BatchFits
    <3> DEFINE s == SubSeq(Contents, 1, Len(Contents) - 1)
    <3>2. Len(Contents) >= Capacity /\ Contents' = s
      BY <1>6, PopTailTakesNewest
    <3>3. /\ 1 \in Int /\ Len(Contents) - 1 \in Int
          /\ \A i \in 1..(Len(Contents) - 1) : Contents[i] \in Nat
      <4>1. \A i \in 1..Len(Contents) : Contents[i] \in Nat
        BY <1>1, ElementOfSeq
      <4> QED
        BY <1>1, <4>1
    <3>4. /\ Len(s) = IF 1 <= Len(Contents) - 1 THEN Len(Contents) - 1 - 1 + 1 ELSE 0
          /\ \A i \in 1..(Len(Contents) - 1 - 1 + 1) : s[i] = Contents[1 + i - 1]
      BY <3>3, SubSeqProperties
    <3> HIDE DEF s
    <3>5. /\ Len(batch) <= Len(Contents) - 1 /\ Len(s) = Len(Contents) - 1
          /\ \A i \in 1..(Len(Contents) - 1) : s[i] = Contents[i]
      <4>1. Len(batch) <= Len(Contents) - 1
        BY <1>1, <3>1, <3>2
      <4>2. Len(Contents) >= 1
        BY <1>1, <3>2
      <4>3. Len(s) = Len(Contents) - 1
        <5> DEFINE L == Len(Contents)
        <5>1. L \in Nat /\ L >= 1
          BY <1>1, <4>2
        <5>2. Len(s) = IF 1 <= L - 1 THEN L - 1 - 1 + 1 ELSE 0
          BY <3>4
        <5> HIDE DEF L
        <5>3. Len(s) = L - 1
          BY <5>1, <5>2
        <5> QED
          BY <5>3 DEF L
      <4>4. \A i \in 1..(Len(Contents) - 1) : i \in 1..(Len(Contents) - 1 - 1 + 1) /\ 1 + i - 1 = i
        BY <1>1
      <4> QED
        BY <3>4, <4>1, <4>3, <4>4
    <3>6. \A i \in 1..Len(batch) : i \in 1..(Len(Contents) - 1)
      BY <1>1, <3>5
    <3> QED
      BY <3>1, <3>2, <3>5, <3>6
  <2> QED
    BY <2>1, <2>2 DEF BatchFits
<1>7. CASE CommitBatch \/ AbandonBatch \/ CommitLogin \/ ClearCheck \/ ClearSnapshot
  <2>1. phase = "run" /\ phase' = phase /\ cpc' \notin {"peeked", "sent"}
    BY <1>7 DEF CommitBatch, AbandonBatch, CommitLogin, ClearCheck, ClearSnapshot
  <2> QED
    BY <2>1 DEF BatchFits
<1>8. CASE SaveSnapshot \/ SaveOffset \/ ResetReturns \/ UNCHANGED vars
  <2>1. UNCHANGED <<ring, head, count, readOffset, file, phase, cpc, batch, cleared>>
    BY <1>8 DEF SaveSnapshot, SaveOffset, ResetReturns, vars
  <2>2. Contents' = Contents
    BY <2>1, RowsUntouched
  <2> QED
    BY <2>1, <2>2 DEF BatchFits
<1>9. CASE SocReset \/ PowerLoss
  <2>1. cpc' = "idle"
    BY <1>9 DEF SocReset, PowerLoss, LoseRAM
  <2> QED
    BY <2>1 DEF BatchFits
<1>10. CASE LoadSnapshot \/ RestoreOverflow
  <2>1. phase # "run" /\ cpc' = cpc
    BY <1>10 DEF LoadSnapshot, RestoreOverflow
  <2>2. cpc' = "idle"
    BY <2>1 DEF BatchFits
  <2> QED
    BY <2>2 DEF BatchFits
<1> QED
  BY <1>3, <1>4, <1>5, <1>6, <1>7, <1>8, <1>9, <1>10 DEF Next

\* What waits for its ACK is what queue_pop will remove, unless the file it
\* came from was cleared: through every push, eviction and queue_pop_tail,
\* with either setting of the live-first option.
THEOREM BatchStaysNext == ASSUME "peek" \notin IOFaults PROVE Spec => []BatchIsNext
<1>1. BatchFits /\ IndexInv => BatchIsNext
  <2> SUFFICES ASSUME BatchFits, IndexInv, cpc \in {"peeked", "sent"}, ~cleared
               PROVE  batch = AtMost(Len(batch), Contents)
    BY DEF BatchIsNext
  <2>1. /\ Len(batch) <= Len(Contents)
        /\ \A i \in 1..Len(batch) : batch[i] = Contents[i]
    BY DEF BatchFits
  <2>2. Contents \in Seq(Nat) /\ batch \in Seq(Nat) /\ Len(batch) \in Nat
    BY RowsBefore, LenProperties DEF IndexInv, TypeOK, TaskTypeOK
  <2> DEFINE t == AtMost(Len(batch), Contents)
  <2>3. t \in Seq(Nat) /\ Len(t) = Len(batch) /\ \A i \in 1..Len(t) : t[i] = Contents[i]
    BY <2>1, <2>2, AtMostAt
  <2> HIDE DEF t
  <2>4. batch = t
    BY <2>1, <2>2, <2>3, SeqEqual
  <2> QED
    BY <2>4 DEF t
<1>2. IndexInv /\ IndexInv' /\ BatchFits /\ [Next]_vars => BatchFits'
  BY BatchNext
<1> QED
  BY IndicesCorrect, BatchInit, <1>1, <1>2, PTL DEF Spec

-----------------------------------------------------------------------------
(* The refinement *)

\* Every row anywhere, in RAM or in flash, was accepted once: what a restart
\* finds is made of accepted rows.
AllKnown(s, n) == \A i \in 1..Len(s) : s[i] \in 1..(n - 1)

KnownRows ==
  /\ AllKnown(Contents, nextRow) /\ AllKnown(file, nextRow) /\ AllKnown(dat.rows, nextRow)
  /\ live \in 0..(nextRow - 1)

LEMMA KnownSeq ==
  ASSUME NEW s \in Seq(Nat), NEW n \in Nat, AllKnown(s, n)
  PROVE  s \in Seq(1..(n - 1))
<1>1. Len(s) \in Nat /\ s \in [1..Len(s) -> Nat]
  BY LenProperties
<1>2. s \in [1..Len(s) -> 1..(n - 1)]
  BY <1>1 DEF AllKnown
<1> QED
  BY <1>1, <1>2, SeqDef

LEMMA KnownMore ==
  ASSUME NEW s, NEW n \in Nat, NEW m \in Nat, n <= m, AllKnown(s, n)
  PROVE  AllKnown(s, m)
  BY DEF AllKnown

LEMMA KnownAppend ==
  ASSUME NEW s \in Seq(Nat), NEW n \in Nat, AllKnown(s, n), NEW r \in 1..(n - 1)
  PROVE  AllKnown(Append(s, r), n)
<1> DEFINE t == Append(s, r)
<1>1. r \in Nat
  OBVIOUS
<1>2. /\ Len(s) \in Nat /\ Len(t) = Len(s) + 1 /\ t[Len(s) + 1] = r
      /\ \A i \in 1..Len(s) : t[i] = s[i]
  BY <1>1, LenProperties
<1> HIDE DEF t
<1>3. ASSUME NEW i \in 1..Len(t)
      PROVE  t[i] \in 1..(n - 1)
  <2>1. i \in 1..Len(s) \/ i = Len(s) + 1
    BY <1>2
  <2> QED
    BY <1>2, <2>1 DEF AllKnown
<1> QED
  BY <1>3 DEF AllKnown, t

LEMMA KnownRest ==
  ASSUME NEW s \in Seq(Nat), NEW n \in Nat, AllKnown(s, n), NEW d \in 0..Len(s)
  PROVE  AllKnown(Rest(d, s), n)
<1> DEFINE t == Rest(d, s)
<1>1. Len(s) \in Nat /\ d \in Nat /\ d <= Len(s)
  BY LenProperties
<1>2. Len(t) = Len(s) - d /\ \A i \in 1..(Len(s) - d) : t[i] = s[d + i]
  BY <1>1, RestAt
<1> HIDE DEF t
<1>3. ASSUME NEW i \in 1..Len(t)
      PROVE  t[i] \in 1..(n - 1)
  <2> DEFINE x == d + i
  <2>1. x \in 1..Len(s) /\ t[i] = s[x]
    BY <1>1, <1>2
  <2> HIDE DEF x
  <2> QED
    BY <2>1 DEF AllKnown
<1> QED
  BY <1>3 DEF AllKnown, t

LEMMA KnownEmpty == \A n : AllKnown(<<>>, n)
  BY DEF AllKnown

\* The rows of the ring are rows of the queue, and a queue is the rows of its
\* file and of its ring.
LEMMA RingKnown ==
  ASSUME IndexInv, AllKnown(Contents, nextRow)
  PROVE  \A j \in 1..count : RowAt(ring, head, j) \in 1..(nextRow - 1)
<1> DEFINE U == Len(file) - readOffset
<1>1. /\ U \in Nat /\ count \in Nat /\ Len(Contents) = U + count
      /\ \A i \in (U + 1)..(U + count) : Contents[i] = RowAt(ring, head, i - U)
  BY RowsBefore
<1> HIDE DEF U
<1> TAKE j \in 1..count
<1> DEFINE x == U + j
<1>2. x \in (U + 1)..(U + count) /\ x \in 1..Len(Contents) /\ x - U = j
  BY <1>1
<1> HIDE DEF x
<1> QED
  BY <1>1, <1>2 DEF AllKnown

LEMMA RowsKnown ==
  ASSUME NEW q, NEW rg, NEW h, NEW c \in Nat, NEW f \in Seq(Nat), NEW o \in Nat,
         o <= Len(f), RowsAre(q, rg, h, c, f, o), NEW n \in Nat, AllKnown(f, n),
         \A j \in 1..c : RowAt(rg, h, j) \in 1..(n - 1)
  PROVE  AllKnown(q, n)
<1> DEFINE U == Len(f) - o
<1>1. /\ U \in Nat /\ Len(f) \in Nat /\ o + U = Len(f)
  BY LenProperties
<1>2. /\ Len(q) = U + c
      /\ \A i \in 1..U : q[i] = f[o + i]
      /\ \A i \in (U + 1)..(U + c) : q[i] = RowAt(rg, h, i - U)
  BY DEF RowsAre
<1> HIDE DEF U
<1>3. ASSUME NEW i \in 1..(U + c)
      PROVE  q[i] \in 1..(n - 1)
  <2>1. CASE i \in 1..U
    <3>1. o + i \in 1..Len(f)
      BY <1>1, <2>1
    <3>2. f[o + i] \in 1..(n - 1)
      BY <3>1 DEF AllKnown
    <3> QED
      BY <1>2, <2>1, <3>2
  <2>2. CASE i \in (U + 1)..(U + c)
    <3>1. i - U \in 1..c
      BY <1>1, <2>2
    <3>2. RowAt(rg, h, i - U) \in 1..(n - 1)
      BY <3>1
    <3> QED
      BY <1>2, <2>2, <3>2
  <2> QED
    BY <1>1, <2>1, <2>2
<1> QED
  BY <1>2, <1>3 DEF AllKnown

LEMMA QueueKnown ==
  ASSUME IndexInv', NEW n \in Nat, AllKnown(file', n),
         \A j \in 1..count' : RowAt(ring', head', j) \in 1..(n - 1)
  PROVE  AllKnown(Contents', n)
<1>1. RowsAre(Contents', ring', head', count', file', readOffset')
  BY RowsAfter DEF RowsAre
<1>2. count' \in Nat /\ file' \in Seq(Nat) /\ readOffset' \in Nat /\ readOffset' <= Len(file')
  BY RowsAfter
<1> QED
  BY <1>1, <1>2, RowsKnown

\* queue_persist_load puts row j of the snapshot where queue_pop looks for it.
LEMMA SnapshotInPlace ==
  ASSUME NEW h \in Slots, NEW rows \in Seq(Nat), Len(rows) <= Capacity,
         NEW rg, rg = [i \in Slots |->
                         LET k == 1 + ((i + Capacity - h) % Capacity)
                         IN IF k <= Len(rows) THEN rows[k] ELSE NoRow]
  PROVE  \A j \in 1..Len(rows) : RowAt(rg, h, j) = rows[j]
<1> TAKE j \in 1..Len(rows)
<1>1. h \in Nat /\ h < Capacity /\ Capacity \in Nat /\ Capacity > 0 /\ Len(rows) \in Nat
  BY SlotDef, LenProperties
<1>2. j - 1 \in 0..(Capacity - 1) /\ h + j - 1 \in Nat /\ h + j - 1 = h + (j - 1)
  BY <1>1
<1> DEFINE i == (h + j - 1) % Capacity
<1>3. i \in Slots
  BY <1>2, SlotMod
<1>4. (i + Capacity - h) % Capacity = j - 1
  <2>1. CASE h + j - 1 < Capacity
    <3>1. i = h + j - 1
      BY <1>1, <1>2, <2>1, ModSmall, SlotDef
    <3>2. i + Capacity - h = Capacity + (j - 1)
      BY <1>1, <1>2, <3>1
    <3>3. \A k \in 0..(Capacity - 1) : (Capacity + k) % Capacity = k
      <4> TAKE k \in 0..(Capacity - 1)
      <4> DEFINE a == Capacity + k
      <4>1. a \in Nat /\ Capacity <= a /\ a < 2 * Capacity /\ a - Capacity = k
        BY <1>1
      <4> HIDE DEF a
      <4>2. a % Capacity = k
        BY <4>1, ModWrap
      <4> QED
        BY <4>2 DEF a
    <3> QED
      BY <1>2, <3>2, <3>3
  <2>2. CASE h + j - 1 >= Capacity
    <3>1. i = h + j - 1 - Capacity
      BY <1>1, <1>2, <2>2, ModWrap
    <3>2. i + Capacity - h = j - 1
      BY <1>1, <1>2, <3>1
    <3>3. j - 1 \in Slots
      BY <1>2 DEF Slots
    <3> QED
      BY <3>2, <3>3, ModSmall
  <2> QED
    BY <1>1, <1>2, <2>1, <2>2
<1> HIDE DEF i
<1>5. 1 + (j - 1) = j
  BY <1>1
<1>6. rg[i] = rows[j]
  BY <1>1, <1>3, <1>4, <1>5
<1> QED
  BY <1>6 DEF RowAt, RowSlot, i

LEMMA KnownInit == Init => KnownRows
<1> SUFFICES ASSUME Init PROVE KnownRows
  OBVIOUS
<1>1. file = <<>> /\ dat.rows = <<>> /\ live = 0 /\ nextRow = 1 /\ readOffset = 0 /\ count = 0
  BY DEF Init, NoDat, NoRow
<1>2. Len(Contents) = 0
  BY <1>1, IndexInit, RowsBefore, EmptySeq
<1> QED
  BY <1>1, <1>2, KnownEmpty DEF KnownRows, AllKnown

\* What a push leaves in the queue and in the file is known, whoever pushes.
LEMMA PushKnown ==
  ASSUME IndexInv, IndexInv', KnownRows, phase = "run", NEW n \in Nat, nextRow <= n,
         NEW r \in Nat,
         \/ r \in 1..(n - 1) /\ (PushToRing(r) \/ PushEvicting(r))
         \/ PushRefused
  PROVE  AllKnown(Contents', n) /\ AllKnown(file', n)
<1>1. /\ Contents \in Seq(Nat) /\ file \in Seq(Nat) /\ nextRow \in Nat /\ Capacity \in Nat
      /\ Len(Contents) \in Nat
  BY RowsBefore, LenProperties, SlotDef DEF IndexInv, TypeOK, TaskTypeOK
<1>2. AllKnown(Contents, n) /\ AllKnown(file, n)
  BY <1>1, KnownMore DEF KnownRows
<1>3. ASSUME count = Capacity, Len(Contents) > Capacity
      PROVE  /\ Newest(Capacity, Contents) \in Seq(Nat)
             /\ AllKnown(Newest(Capacity, Contents), n)
  <2>1. Len(Contents) - Capacity \in 0..Len(Contents) /\ Capacity <= Len(Contents)
    BY <1>1, <1>3
  <2>2. Newest(Capacity, Contents) = Rest(Len(Contents) - Capacity, Contents)
    BY <1>1, <2>1, NewestIsRest
  <2>3. AllKnown(Rest(Len(Contents) - Capacity, Contents), n)
    BY <1>1, <1>2, <2>1, KnownRest
  <2>4. Newest(Capacity, Contents) \in Seq(Nat)
    BY <1>1, <2>1, NewestAt
  <2> QED
    BY <2>2, <2>3, <2>4
<1>4. CASE r \in 1..(n - 1) /\ PushToRing(r)
  <2>1. Contents' = Append(Contents, r) /\ file' = file
    BY <1>4, RingGrows DEF PushToRing
  <2> QED
    BY <1>1, <1>2, <1>4, <2>1, KnownAppend
<1>5. CASE r \in 1..(n - 1) /\ PushEvicting(r)
  <2>1. count = Capacity
    BY <1>5 DEF PushEvicting
  <2>2. AllKnown(Contents', n)
    <3>1. CASE Contents' = Append(Contents, r)
      BY <1>1, <1>2, <1>5, <3>1, KnownAppend
    <3>2. CASE Contents' = Append(Newest(Capacity, Contents), r) /\ Len(Contents) > Capacity
      <4>1. AllKnown(Append(Newest(Capacity, Contents), r), n)
        BY <1>3, <1>5, <2>1, <3>2, KnownAppend
      <4> QED
        BY <3>2, <4>1
    <3> QED
      BY <1>5, <3>1, <3>2, RingSpills
  <2>3. ring[head] \in 1..(n - 1)
    <3>1. RowAt(ring, head, 1) \in 1..(nextRow - 1)
      <4>1. 1 \in 1..count
        BY <2>1, SlotDef
      <4> QED
        BY <4>1, RingKnown DEF KnownRows
    <3>2. RowAt(ring, head, 1) = ring[head]
      BY <1>5, <2>1, RingTurns DEF PushEvicting
    <3> QED
      BY <1>1, <3>1, <3>2
  <2>4. AllKnown(file', n)
    <3>1. CASE file' = <<ring[head]>>
      <4>1. Len(<<ring[head]>>) = 1 /\ <<ring[head]>>[1] = ring[head]
        OBVIOUS
      <4> QED
        BY <2>3, <3>1, <4>1 DEF AllKnown
    <3>2. CASE file' = Append(file, ring[head])
      BY <1>1, <1>2, <2>3, <3>2, KnownAppend
    <3> QED
      BY <1>5, <3>1, <3>2 DEF PushEvicting
  <2> QED
    BY <2>2, <2>4
<1>6. CASE PushRefused
  <2>1. file' = <<>> \/ file' = file
    BY <1>6 DEF PushRefused
  <2>2. count = Capacity
    BY <1>6 DEF PushRefused
  <2>3. AllKnown(Contents', n)
    BY <1>2, <1>3, <1>6, <2>2, RingRefuses
  <2> QED
    BY <1>2, <2>1, <2>3, KnownEmpty
<1> QED
  BY <1>4, <1>5, <1>6

LEMMA KnownNext ==
  ASSUME IndexInv, IndexInv', KnownRows, [Next]_vars
  PROVE  KnownRows'
<1> USE DEF queueVars, flashVars, consumerVars, historyVars
<1>1. /\ Contents \in Seq(Nat) /\ Contents' \in Seq(Nat) /\ file \in Seq(Nat) /\ Len(file) \in Nat
      /\ Len(Contents) \in Nat /\ nextRow \in Nat \ {0} /\ live \in Nat /\ dat.rows \in Seq(Nat)
  BY RowsBefore, RowsAfter, LenProperties DEF IndexInv, TypeOK, TaskTypeOK, FlashTypeOK
<1>2. /\ AllKnown(Contents, nextRow) /\ AllKnown(file, nextRow) /\ AllKnown(dat.rows, nextRow)
      /\ live \in 0..(nextRow - 1)
      /\ \A j \in 1..count : RowAt(ring, head, j) \in 1..(nextRow - 1)
  BY RingKnown DEF KnownRows
<1>3. NoDat.rows = <<>> /\ BadDat.rows = <<>>
  BY DEF NoDat, BadDat
<1>4. CASE Push
  <2>1. phase = "run" /\ UNCHANGED <<dat, live>>
    BY <1>4 DEF Push, PushUnchanged
  <2>2. CASE (PushToRing(nextRow) \/ PushEvicting(nextRow)) /\ nextRow' = nextRow + 1
    <3>1. nextRow' \in Nat /\ nextRow <= nextRow' /\ nextRow \in 1..(nextRow' - 1)
      BY <1>1, <2>2
    <3>2. AllKnown(Contents', nextRow') /\ AllKnown(file', nextRow')
      BY <1>1, <2>1, <2>2, <3>1, PushKnown
    <3>3. AllKnown(dat.rows, nextRow')
      BY <1>1, <1>2, <3>1, KnownMore
    <3>4. live' \in 0..(nextRow' - 1)
      <4>1. live' = live /\ live \in 0..(nextRow - 1) /\ nextRow' = nextRow + 1
        BY <1>2, <2>1, <2>2
      <4> QED
        BY <1>1, <4>1
    <3> QED
      BY <2>1, <3>2, <3>3, <3>4 DEF KnownRows
  <2>3. CASE PushRefused /\ nextRow' = nextRow
    <3>1. \A n \in Nat : nextRow <= n => AllKnown(Contents', n) /\ AllKnown(file', n)
      BY <1>1, <2>1, <2>3, PushKnown
    <3>2. AllKnown(Contents', nextRow) /\ AllKnown(file', nextRow)
      BY <1>1, <3>1
    <3> QED
      BY <1>2, <2>1, <2>3, <3>2 DEF KnownRows
  <2> QED
    BY <1>4, <2>2, <2>3 DEF Push
<1>5. CASE RestoreTail
  <2>1. /\ phase = "run" /\ dat' = dat /\ nextRow' = nextRow /\ live' = 0 /\ live \in 1..(nextRow - 1)
        /\ PushToRing(live) \/ PushEvicting(live) \/ PushRefused
    BY <1>1, <1>2, <1>5 DEF RestoreTail, PushUnchanged, NoRow
  <2>2. AllKnown(Contents', nextRow) /\ AllKnown(file', nextRow)
    BY <1>1, <2>1, PushKnown
  <2>3. 0 \in 0..(nextRow - 1)
    BY <1>1
  <2> QED
    BY <1>2, <2>1, <2>2, <2>3 DEF KnownRows
<1>6. CASE PopTail
  <2>1. UNCHANGED <<file, dat, nextRow>>
    BY <1>6 DEF PopTail
  <2> DEFINE L == Len(Contents)
  <2>2. /\ L \in Nat /\ L > 0 /\ live' = Contents[L] /\ Contents' = SubSeq(Contents, 1, L - 1)
    <3>1. Contents # <<>> /\ live' = Contents[L] /\ Contents' = SubSeq(Contents, 1, L - 1)
      BY <1>6, PopTailTakesNewest
    <3> QED
      BY <1>1, <3>1, EmptySeq
  <2>3. live' \in 0..(nextRow - 1)
    <3>1. L \in 1..L
      BY <2>2
    <3> QED
      BY <1>1, <1>2, <2>2, <3>1 DEF AllKnown
  <2>4. AllKnown(Contents', nextRow)
    <3>1. \A i \in 1..(L - 1) : Contents[i] \in Nat
      <4>1. \A i \in 1..L : Contents[i] \in Nat
        BY <1>1, ElementOfSeq
      <4> QED
        BY <2>2, <4>1
    <3> DEFINE s == SubSeq(Contents, 1, L - 1)
    <3>2. /\ Len(s) = IF 1 <= L - 1 THEN L - 1 - 1 + 1 ELSE 0
          /\ \A i \in 1..(L - 1 - 1 + 1) : s[i] = Contents[1 + i - 1]
      <4>1. 1 \in Int /\ L - 1 \in Int
        BY <2>2
      <4> QED
        BY <3>1, <4>1, SubSeqProperties
    <3>3. Contents' = s
      BY <2>2
    <3> HIDE DEF s
    <3>4. \A i \in 1..Len(s) : i \in 1..L /\ s[i] = Contents[i]
      <4> HIDE DEF L
      <4> QED
        BY <2>2, <3>2
    <3> QED
      BY <1>2, <3>3, <3>4 DEF AllKnown
  <2> QED
    BY <1>2, <2>1, <2>3, <2>4 DEF KnownRows
<1>7. CASE CommitBatch
  <2>1. UNCHANGED <<ring, dat, nextRow>> /\ live' = 0
    BY <1>7 DEF CommitBatch, NoRow
  <2>2. PICK n \in 0..Len(batch) : Pop(n)
    BY <1>7 DEF CommitBatch
  <2>3. n \in Nat
    <3>1. batch \in Seq(Nat)
      BY DEF IndexInv, TypeOK, TaskTypeOK
    <3>2. Len(batch) \in Nat
      BY <3>1, LenProperties
    <3> QED
      BY <3>2
  <2>4. PICK d \in 0..Len(Contents) : Contents' = Rest(d, Contents)
    BY <2>1, <2>2, <2>3, PopTakesOldest
  <2>5. AllKnown(Contents', nextRow)
    BY <1>1, <1>2, <2>4, KnownRest
  <2>6. file' = file \/ file' = <<>>
    BY <2>2 DEF Pop
  <2>7. AllKnown(file', nextRow) /\ 0 \in 0..(nextRow - 1)
    BY <1>1, <1>2, <2>6, KnownEmpty
  <2> QED
    BY <1>2, <2>1, <2>5, <2>7 DEF KnownRows
<1>8. CASE PeekBatch \/ AbandonBatch \/ CommitLogin \/ ClearCheck \/ ClearSnapshot
           \/ SaveOffset \/ ResetReturns \/ UNCHANGED vars
  <2>1. /\ UNCHANGED <<ring, head, count, readOffset, file, nextRow>>
        /\ dat' \in {NoDat, dat} /\ live' \in {live, 0}
    BY <1>8 DEF PeekBatch, AbandonBatch, CommitLogin, ClearCheck, ClearSnapshot, Written,
                SaveOffset, ResetReturns, vars, NoRow
  <2>2. Contents' = Contents
    BY <2>1, RowsUntouched
  <2>3. AllKnown(dat'.rows, nextRow) /\ live' \in 0..(nextRow - 1)
    BY <1>1, <1>2, <1>3, <2>1, KnownEmpty
  <2> QED
    BY <1>2, <2>1, <2>2, <2>3 DEF KnownRows
<1>9. CASE SaveSnapshot
  <2>1. UNCHANGED <<ring, head, count, readOffset, file, nextRow, live>>
    BY <1>9 DEF SaveSnapshot
  <2>2. Contents' = Contents
    BY <2>1, RowsUntouched
  <2>3. AllKnown(RingRows, nextRow)
    <3>1. count \in Nat /\ Len(RingRows) = count
      BY RowsBefore
    <3>2. \A i \in 1..count : RingRows[i] = RowAt(ring, head, i)
      BY <3>1 DEF RingRows, RowAt, RowSlot
    <3> QED
      BY <1>2, <3>1, <3>2 DEF AllKnown
  <2>4. dat'.rows \in {RingRows, dat.rows, <<>>}
    BY <1>3, <1>9 DEF SaveSnapshot
  <2>5. AllKnown(dat'.rows, nextRow)
    BY <1>2, <2>3, <2>4, KnownEmpty
  <2> QED
    BY <1>2, <2>1, <2>2, <2>5 DEF KnownRows
<1>10. CASE SocReset \/ PowerLoss
  <2>1. count' = 0 /\ live' = 0 /\ UNCHANGED <<file, dat, nextRow>>
    BY <1>10 DEF SocReset, PowerLoss, LoseRAM, NoRow
  <2>2. \A j \in 1..count' : RowAt(ring', head', j) \in 1..(nextRow - 1)
    BY <2>1
  <2>3. AllKnown(Contents', nextRow)
    BY <1>1, <1>2, <2>1, <2>2, QueueKnown
  <2>4. 0 \in 0..(nextRow - 1)
    BY <1>1
  <2> QED
    BY <1>2, <2>1, <2>3, <2>4 DEF KnownRows
<1>11. CASE LoadSnapshot
  <2>1. UNCHANGED <<readOffset, file, nextRow, live>> /\ dat' \in {NoDat, dat}
    BY <1>11 DEF LoadSnapshot, Written
  <2>2. \A j \in 1..count' : RowAt(ring', head', j) \in 1..(nextRow - 1)
    <3>1. CASE dat.state = "good"
      <4>1. dat.head \in Slots /\ dat.rows \in Seq(Nat) /\ Len(dat.rows) <= Capacity
        BY DEF IndexInv, TypeOK, FlashTypeOK, RingConsistent
      <4>2. /\ head' = dat.head /\ count' = Len(dat.rows)
            /\ ring' = [i \in Slots |->
                  LET k == 1 + ((i + Capacity - dat.head) % Capacity)
                  IN IF k <= Len(dat.rows) THEN dat.rows[k] ELSE NoRow]
        BY <1>11, <3>1 DEF LoadSnapshot
      <4>3. \A j \in 1..Len(dat.rows) : RowAt(ring', dat.head, j) = dat.rows[j]
        BY <4>1, <4>2, SnapshotInPlace
      <4> QED
        BY <1>2, <4>2, <4>3 DEF AllKnown
    <3>2. CASE dat.state # "good"
      <4>1. UNCHANGED <<ring, head, count>>
        BY <1>11, <3>2 DEF LoadSnapshot
      <4> QED
        BY <1>2, <4>1
    <3> QED
      BY <3>1, <3>2
  <2>3. AllKnown(Contents', nextRow)
    BY <1>1, <1>2, <2>1, <2>2, QueueKnown
  <2>4. AllKnown(dat'.rows, nextRow)
    BY <1>2, <1>3, <2>1, KnownEmpty
  <2> QED
    BY <1>2, <2>1, <2>3, <2>4 DEF KnownRows
<1>12. CASE RestoreOverflow
  <2>1. UNCHANGED <<ring, head, count, dat, nextRow, live>> /\ (file' = <<>> \/ file' = file)
    BY <1>12 DEF RestoreOverflow
  <2>2. AllKnown(file', nextRow)
    BY <1>2, <2>1, KnownEmpty
  <2>3. \A j \in 1..count' : RowAt(ring', head', j) \in 1..(nextRow - 1)
    BY <1>2, <2>1
  <2>4. AllKnown(Contents', nextRow)
    BY <1>1, <2>2, <2>3, QueueKnown
  <2> QED
    BY <1>2, <2>1, <2>2, <2>4 DEF KnownRows
<1> QED
  BY <1>4, <1>5, <1>6, <1>7, <1>8, <1>9, <1>10, <1>11, <1>12 DEF Next

LEMMA AbstractInit == Init => SAF!Init
<1> SUFFICES ASSUME Init PROVE SAF!Init
  OBVIOUS
<1>1. IndexInv /\ file = <<>> /\ count = 0 /\ readOffset = 0 /\ nextRow = 1 /\ live = 0 /\ phase = "load"
  BY IndexInit DEF Init, NoRow
<1>2. Contents \in Seq(Nat) /\ Len(Contents) = 0
  BY <1>1, RowsBefore, EmptySeq
<1>3. Contents = <<>>
  BY <1>2, EmptySeq
<1>4. nextRow - 1 = 0
  BY <1>1
<1> QED
  BY <1>1, <1>3, <1>4 DEF SAF!Init

\* A row that is appended is the abstract queue's, whichever way the ring
\* makes room.
LEMMA AbstractAdd ==
  ASSUME IndexInv, IndexInv', phase = "run", NEW r \in Nat,
         PushToRing(r) \/ PushEvicting(r)
  PROVE  SAF!Added(r)
<1>1. CASE PushToRing(r)
  BY <1>1, RingGrows DEF SAF!Added
<1>2. CASE PushEvicting(r)
  BY <1>2, RingSpills DEF SAF!Added, SAF!Newest, Newest
<1> QED
  BY <1>1, <1>2

LEMMA AbstractNext ==
  ASSUME IndexInv, IndexInv', KnownRows, KnownRows', [Next]_vars
  PROVE  [SAF!Next]_(SAF!absVars)
<1> USE DEF queueVars, flashVars, consumerVars, historyVars
<1>1. /\ Contents \in Seq(Nat) /\ Contents' \in Seq(Nat) /\ Len(Contents) \in Nat
      /\ nextRow \in Nat \ {0} /\ nextRow' \in Nat \ {0} /\ live \in Nat
  BY RowsBefore, RowsAfter, LenProperties DEF IndexInv, TypeOK, TaskTypeOK
<1>2. Contents' \in Seq(1..(nextRow' - 1))
  BY <1>1, KnownSeq DEF KnownRows
<1>3. CASE Push
  <2>1. phase = "run" /\ phase' = phase /\ live' = live
    BY <1>3 DEF Push, PushUnchanged
  <2>2. CASE (PushToRing(nextRow) \/ PushEvicting(nextRow)) /\ nextRow' = nextRow + 1
    <3>1. SAF!Added(nextRow)
      BY <1>1, <2>1, <2>2, AbstractAdd
    <3>2. nextRow - 1 + 1 = nextRow /\ nextRow' - 1 = nextRow - 1 + 1
      BY <1>1, <2>2
    <3>3. SAF!Accept
      BY <2>1, <3>1, <3>2 DEF SAF!Accept
    <3> QED
      BY <3>3 DEF SAF!Next
  <2>3. CASE PushRefused /\ nextRow' = nextRow
    <3>1. CASE Contents' = Contents
      BY <2>1, <2>3, <3>1 DEF SAF!absVars
    <3>2. CASE Contents' = Newest(Capacity, Contents) /\ Len(Contents) > Capacity
      <4>1. SAF!Refuse
        BY <2>1, <2>3, <3>2 DEF SAF!Refuse, SAF!Newest, Newest
      <4> QED
        BY <4>1 DEF SAF!Next
    <3> QED
      BY <2>1, <2>3, <3>1, <3>2, RingRefuses
  <2> QED
    BY <1>3, <2>2, <2>3 DEF Push
<1>4. CASE RestoreTail
  <2>1. /\ phase = "run" /\ phase' = phase /\ nextRow' = nextRow /\ live' = 0
        /\ PushToRing(live) \/ PushEvicting(live) \/ PushRefused
    BY <1>4 DEF RestoreTail, PushUnchanged, NoRow
  <2>2. \/ SAF!Added(live) \/ Contents' = Contents
        \/ Contents' = Newest(Capacity, Contents) /\ Len(Contents) > Capacity
    BY <1>1, <2>1, AbstractAdd, RingRefuses
  <2>3. SAF!GiveBack
    BY <2>1, <2>2 DEF SAF!GiveBack, SAF!Newest, Newest
  <2> QED
    BY <2>3 DEF SAF!Next
<1>5. CASE PopTail
  <2>1. phase = "run" /\ phase' = phase /\ nextRow' = nextRow
    BY <1>5 DEF PopTail
  <2>2. SAF!Borrow
    BY <1>5, <2>1, PopTailTakesNewest DEF SAF!Borrow
  <2> QED
    BY <2>2 DEF SAF!Next
<1>6. CASE CommitBatch
  <2>1. ring' = ring /\ nextRow' = nextRow /\ live' = 0 /\ phase = "run" /\ phase' = phase
    BY <1>6 DEF CommitBatch, NoRow
  <2>2. PICK n \in 0..Len(batch) : Pop(n)
    BY <1>6 DEF CommitBatch
  <2>3. n \in Nat
    <3>1. batch \in Seq(Nat)
      BY DEF IndexInv, TypeOK, TaskTypeOK
    <3>2. Len(batch) \in Nat
      BY <3>1, LenProperties
    <3> QED
      BY <3>2
  <2>4. PICK d \in 0..Len(Contents) : Contents' = Rest(d, Contents)
    BY <2>1, <2>2, <2>3, PopTakesOldest
  <2>5. SAF!Deliver
    BY <2>1, <2>4 DEF SAF!Deliver, Rest
  <2> QED
    BY <2>5 DEF SAF!Next
<1>7. CASE AbandonBatch
  <2>1. /\ UNCHANGED <<ring, head, count, readOffset, file, nextRow, phase>>
        /\ phase = "run" /\ live' = 0
    BY <1>7 DEF AbandonBatch, NoRow
  <2>2. Contents' = Contents
    BY <2>1, RowsUntouched
  <2>3. Contents = SubSeq(Contents, 0 + 1, Len(Contents)) /\ 0 \in 0..Len(Contents)
    BY <1>1, SubSeqFull
  <2>4. SAF!Deliver
    BY <2>1, <2>2, <2>3 DEF SAF!Deliver
  <2> QED
    BY <2>4 DEF SAF!Next
<1>8. CASE PeekBatch \/ CommitLogin \/ ClearCheck \/ ClearSnapshot
           \/ SaveSnapshot \/ SaveOffset \/ ResetReturns \/ UNCHANGED vars
  <2>1. UNCHANGED <<ring, head, count, readOffset, file, nextRow, phase, live>>
    BY <1>8 DEF PeekBatch, CommitLogin, ClearCheck, ClearSnapshot, SaveSnapshot,
                SaveOffset, ResetReturns, vars
  <2>2. Contents' = Contents
    BY <2>1, RowsUntouched
  <2> QED
    BY <2>1, <2>2 DEF SAF!absVars
<1>9. CASE SocReset \/ PowerLoss
  <2>1. phase' = "load" /\ live' = 0 /\ nextRow' = nextRow
    BY <1>9 DEF SocReset, PowerLoss, LoseRAM, NoRow
  <2>2. (phase = "run")' = FALSE
    BY <2>1
  <2>3. SAF!Down
    BY <1>2, <2>1, <2>2 DEF SAF!Down
  <2> QED
    BY <2>3 DEF SAF!Next
<1>10. CASE LoadSnapshot \/ RestoreOverflow
  <2>1. phase # "run" /\ live' = live /\ nextRow' = nextRow
    BY <1>10 DEF LoadSnapshot, RestoreOverflow
  <2>2. (phase = "run")' \in BOOLEAN
    OBVIOUS
  <2>3. SAF!Reload
    BY <1>2, <2>1, <2>2 DEF SAF!Reload
  <2> QED
    BY <2>3 DEF SAF!Next
<1> QED
  BY <1>3, <1>4, <1>5, <1>6, <1>7, <1>8, <1>9, <1>10 DEF Next

\* Whichever of the IOFaults happen and whenever the power goes, the overflow
\* file and the ring are one queue: queue_push adds at its end, queue_pop takes from its front,
\* and only a queue longer than the ring sheds rows, always the oldest.
THEOREM QueueIsStoreAndForward == Spec => IsStoreAndForward
<1>1. IndexInv /\ IndexInv' /\ KnownRows /\ [Next]_vars => KnownRows'
  BY KnownNext
<1>2. Spec => []KnownRows
  BY IndicesCorrect, KnownInit, <1>1, PTL DEF Spec
<1>3. IndexInv /\ IndexInv' /\ KnownRows /\ KnownRows' /\ [Next]_vars => [SAF!Next]_(SAF!absVars)
  BY AbstractNext
<1> QED
  BY IndicesCorrect, AbstractInit, <1>2, <1>3, PTL DEF Spec, SAF!Spec, IsStoreAndForward

-----------------------------------------------------------------------------
(* What a persisted reset keeps *)

\* Every promised row is one of rows, or in a record that neither the read
\* offset nor an offset of n passes over, or was popped, cleared or
\* deleted with its snapshot.
Held(rows, n) ==
  \A r \in promised :
    \/ r \in Elements(rows)
    \/ \E i \in DOMAIN file : i > readOffset /\ i > n /\ file[i] = r
    \/ r \in consumed \cup dropped \cup forgotten

\* The promise is made before the offset is saved, and SaveOffset runs
\* without the lock: a pop or a clear of the file may come before it, and
\* another one, or the deletion of the snapshot, between it and the reset.
\* So neither flash file holds the promised rows by itself, and the offset in
\* flash may be behind the one in RAM or belong to a file that is gone.  What
\* is kept at each stage is the snapshot with the records beyond both offsets.
RebootInv ==
  /\ dat.state # "good" => dat.rows = <<>>
  /\ phase # "run" => wemain = "idle"
  /\ wemain = "saved" => Held(dat.rows, 0)
  /\ wemain = "ready" \/ phase = "load" => Held(dat.rows, savedOffset)
  /\ phase = "restore" => Held(RingRows, savedOffset)

LEMMA RebootInit == Init => RebootInv
  BY DEF Init, RebootInv, Held, NoDat

\* An unread record stays where it is, unless it is popped or cleared.
RecordsStay ==
  \A i \in DOMAIN file : i > readOffset =>
    \/ i \in DOMAIN file' /\ i > readOffset' /\ file'[i] = file[i]
    \/ file[i] \in consumed' \cup dropped'

LEMMA UnreadRecords ==
  ASSUME IndexInv
  PROVE  \A i \in DOMAIN file : i > readOffset =>
           /\ i \in Nat /\ i - readOffset \in 1..(Len(file) - readOffset)
           /\ file[i] = Contents[i - readOffset] /\ file[i] \in Elements(Unread)
<1>1. /\ file \in Seq(Nat) /\ Len(file) \in Nat /\ readOffset \in Nat /\ readOffset <= Len(file)
      /\ Len(Unread) = Len(file) - readOffset /\ Unread \in Seq(Nat)
      /\ \A j \in 1..(Len(file) - readOffset) : Contents[j] = file[readOffset + j]
  BY RowsBefore
<1>2. DOMAIN file = 1..Len(file) /\ DOMAIN Unread = 1..(Len(file) - readOffset)
  BY <1>1, LenProperties
<1>3. \A j \in 1..(Len(file) - readOffset) : Unread[j] = file[readOffset + j]
  <2>1. readOffset + 1 \in Int /\ \A j \in (readOffset + 1)..Len(file) : file[j] \in Nat
    BY <1>1, ElementOfSeq
  <2>2. \A j \in 1..(Len(file) - readOffset) : Unread[j] = file[readOffset + 1 + j - 1]
    <3>1. Len(file) \in Int
      BY <1>1
    <3>2. \A j \in 1..(Len(file) - (readOffset + 1) + 1) : Unread[j] = file[readOffset + 1 + j - 1]
      BY <2>1, <3>1, SubSeqProperties DEF Unread
    <3>3. Len(file) - (readOffset + 1) + 1 = Len(file) - readOffset
      BY <1>1
    <3> QED
      BY <3>2, <3>3
  <2>3. \A j \in 1..(Len(file) - readOffset) : readOffset + 1 + j - 1 = readOffset + j
    BY <1>1
  <2> QED
    BY <2>2, <2>3
<1> TAKE i \in DOMAIN file
<1> HAVE i > readOffset
<1>4. /\ i \in Nat /\ i - readOffset \in 1..(Len(file) - readOffset)
      /\ readOffset + (i - readOffset) = i
  <2>1. i \in 1..Len(file)
    BY <1>2
  <2> QED
    BY <1>1, <2>1
<1> QED
  BY <1>1, <1>2, <1>3, <1>4 DEF Elements

\* An evicted row goes behind the records, and a file that is cleared is
\* accounted for as a whole.
LEMMA PushKeepsRecords ==
  ASSUME IndexInv, IndexInv', NEW r, PushToRing(r) \/ PushEvicting(r) \/ PushRefused
  PROVE  RecordsStay /\ dropped \subseteq dropped'
<1>1. CASE UNCHANGED <<file, readOffset, dropped>>
  BY <1>1 DEF RecordsStay
<1>2. CASE dropped' = dropped \cup Elements(Unread)
  BY <1>2, UnreadRecords DEF RecordsStay
<1>3. CASE PushEvicting(r) /\ UNCHANGED <<readOffset, dropped>>
           /\ file' = Append(file, ring[head])
  <2>1. file \in Seq(Nat) /\ ring[head] \in Nat
    BY RowsBefore
  <2>2. \A i \in DOMAIN file : i \in DOMAIN file' /\ file'[i] = file[i]
    BY <1>3, <2>1, AppendProperties, LenProperties
  <2> QED
    BY <1>3, <2>2 DEF RecordsStay
<1> QED
  BY <1>1, <1>2, <1>3 DEF PushToRing, PushEvicting, PushRefused, ClearOverflow

LEMMA PopKeepsRecords ==
  ASSUME IndexInv, IndexInv', NEW n \in Nat, Pop(n)
  PROVE  RecordsStay /\ consumed \subseteq consumed'
<1> DEFINE U == Len(file) - readOffset
           f == IF n < U THEN n ELSE U
<1>1. /\ file \in Seq(Nat) /\ Len(file) \in Nat /\ readOffset \in Nat /\ U \in Nat /\ count \in Nat
      /\ Len(Unread) = U /\ Contents \in Seq(Nat) /\ Len(Contents) = U + count
  BY RowsBefore
<1>2. /\ IF f > 0 /\ f = U THEN file' = <<>> /\ readOffset' = 0
                           ELSE readOffset' = readOffset + f /\ file' = file
      /\ consumed' = consumed \cup Elements(AtMost(n, Contents)) \cup ({live} \ {NoRow})
  BY <1>1 DEF Pop
<1> SUFFICES ASSUME NEW i \in DOMAIN file, i > readOffset
             PROVE  \/ i \in DOMAIN file' /\ i > readOffset' /\ file'[i] = file[i]
                    \/ file[i] \in consumed'
  BY <1>2 DEF RecordsStay
<1> DEFINE j == i - readOffset
<1>3. i \in Nat /\ j \in 1..U /\ file[i] = Contents[j]
  BY UnreadRecords
<1>4. (f = IF n < U THEN n ELSE U) /\ j = i - readOffset
  OBVIOUS
<1> HIDE DEF U, f, j
<1>5. CASE j <= n
  <2> DEFINE t == AtMost(n, Contents)
  <2>1. /\ t \in Seq(Nat)
        /\ n <= U + count => Len(t) = n
        /\ \A k \in 1..Len(t) : t[k] = Contents[k]
    <3>1. /\ t \in Seq(Nat)
          /\ n <= Len(Contents) => Len(t) = n
          /\ \A k \in 1..Len(t) : t[k] = Contents[k]
      BY <1>1, AtMostAt
    <3> HIDE DEF t
    <3> QED
      BY <1>1, <3>1
  <2>2. U + count < n => Len(t) = U + count
    <3>1. U + count \in Nat /\ \A k \in 1..(U + count) : Contents[k] \in Nat
      BY <1>1, ElementOfSeq
    <3>2. Len(SubSeq(Contents, 1, U + count)) = U + count
      BY <1>1, <3>1, SubSeqProperties
    <3>3. U + count < n => t = SubSeq(Contents, 1, U + count)
      BY <1>1, <3>1 DEF AtMost
    <3> QED
      BY <3>2, <3>3
  <2>3. Len(t) \in Nat
    BY <2>1, LenProperties
  <2> HIDE DEF t
  <2>4. j \in 1..Len(t)
    <3>1. j \in Nat /\ 1 <= j /\ j <= U /\ U + count \in Nat /\ j <= U + count
      BY <1>1, <1>3
    <3>2. CASE n <= U + count
      <4>1. Len(t) = n
        BY <2>1, <3>2
      <4> QED
        BY <1>5, <3>1, <4>1
    <3>3. CASE U + count < n
      <4>1. Len(t) = U + count
        BY <2>2, <3>3
      <4> QED
        BY <3>1, <4>1
    <3> QED
      BY <3>1, <3>2, <3>3
  <2>5. DOMAIN t = 1..Len(t)
    BY <2>1, LenProperties
  <2>6. Contents[j] \in Elements(t)
    BY <2>1, <2>4, <2>5 DEF Elements
  <2>7. Contents[j] \in consumed'
    BY <1>2, <2>6 DEF t
  <2> QED
    BY <1>3, <2>7
<1>6. CASE j > n
  <2>1. f = n /\ n < U
    BY <1>1, <1>3, <1>4, <1>6
  <2>2. readOffset' = readOffset + n /\ file' = file
    BY <1>2, <2>1
  <2>3. i > readOffset + n
    BY <1>1, <1>3, <1>4, <1>6
  <2> QED
    BY <2>2, <2>3
<1> QED
  BY <1>1, <1>3, <1>5, <1>6

\* While the system runs, a step that loses no record and no row of the
\* snapshot unaccounted for keeps the promise.
LEMMA PromiseGoesOn ==
  ASSUME IndexInv, RebootInv, phase = "run", UNCHANGED <<phase, wemain, promised>>,
         RecordsStay, savedOffset' \in {0, savedOffset},
         consumed \subseteq consumed', dropped \subseteq dropped', forgotten \subseteq forgotten',
         dat'.state # "good" => dat'.rows = <<>>,
         Elements(dat.rows) \subseteq Elements(dat'.rows) \cup consumed' \cup forgotten'
  PROVE  RebootInv'
<1>1. savedOffset \in Nat /\ \A i \in DOMAIN file : i > readOffset => i \in Nat /\ i > 0
  <2>1. readOffset \in Nat /\ savedOffset \in Nat
    BY RowsBefore DEF IndexInv, TypeOK, FlashTypeOK
  <2> QED
    BY <2>1, UnreadRecords
<1>2. wemain = "saved" => Held(dat.rows, 0)'
  BY DEF RebootInv, Held, RecordsStay
<1>3. wemain = "ready" => Held(dat.rows, savedOffset)'
  BY <1>1 DEF RebootInv, Held, RecordsStay
<1> QED
  BY <1>2, <1>3 DEF RebootInv

LEMMA RebootNext ==
  ASSUME IndexInv, IndexInv', RebootInv, [Next]_vars
  PROVE  RebootInv'
<1> USE DEF queueVars, flashVars, consumerVars, historyVars
<1>0. RebootInv
  OBVIOUS
<1>1. /\ dat.state # "good" => dat.rows = <<>>
      /\ NoDat.rows = <<>> /\ BadDat.rows = <<>> /\ Elements(<<>>) = {}
  <2>1. DOMAIN <<>> = {}
    BY EmptySeq, LenProperties
  <2> QED
    BY <1>0, <2>1 DEF RebootInv, NoDat, BadDat, Elements
<1>2. UNCHANGED <<file, readOffset>> => RecordsStay
  BY DEF RecordsStay
<1>3. CASE Push \/ RestoreTail
  <2>1. /\ phase = "run"
        /\ UNCHANGED <<phase, wemain, promised, savedOffset, dat, consumed, forgotten>>
        /\ \E r : PushToRing(r) \/ PushEvicting(r) \/ PushRefused
    BY <1>3 DEF Push, RestoreTail, PushUnchanged
  <2>2. RecordsStay /\ dropped \subseteq dropped'
    BY <2>1, PushKeepsRecords
  <2> QED
    BY <1>1, <2>1, <2>2, PromiseGoesOn
<1>4. CASE CommitBatch
  <2>1. /\ phase = "run"
        /\ UNCHANGED <<phase, wemain, promised, savedOffset, dat, dropped, forgotten>>
    BY <1>4 DEF CommitBatch
  <2>2. PICK n \in 0..Len(batch) : Pop(n)
    BY <1>4 DEF CommitBatch
  <2>3. n \in Nat
    <3>1. Len(batch) \in Nat
      BY LenProperties DEF IndexInv, TypeOK, TaskTypeOK
    <3> QED
      BY <3>1
  <2>4. RecordsStay /\ consumed \subseteq consumed'
    BY <2>2, <2>3, PopKeepsRecords
  <2> QED
    BY <1>1, <2>1, <2>4, PromiseGoesOn
<1>5. CASE PeekBatch \/ PopTail \/ AbandonBatch \/ CommitLogin \/ ClearCheck
  <2>1. /\ phase = "run" /\ UNCHANGED <<file, readOffset>>
        /\ UNCHANGED <<phase, wemain, promised, savedOffset, dat, consumed, dropped, forgotten>>
    BY <1>5 DEF PeekBatch, PopTail, AbandonBatch, CommitLogin, ClearCheck
  <2> QED
    BY <1>1, <1>2, <2>1, PromiseGoesOn
<1>6. CASE ClearSnapshot
  <2>1. /\ phase = "run" /\ UNCHANGED <<file, readOffset>>
        /\ UNCHANGED <<phase, wemain, promised, consumed, dropped>>
        /\ savedOffset' \in {0, savedOffset} /\ dat' \in {NoDat, dat}
        /\ forgotten' = IF dat' = dat THEN forgotten
                           ELSE forgotten \cup (Elements(dat.rows) \ consumed)
    BY <1>6 DEF ClearSnapshot, Written
  <2>2. Elements(dat.rows) \subseteq Elements(dat'.rows) \cup consumed' \cup forgotten'
    BY <2>1
  <2>3. dat'.state # "good" => dat'.rows = <<>>
    BY <1>1, <2>1
  <2>4. forgotten \subseteq forgotten'
    BY <2>1
  <2> QED
    BY <1>2, <2>1, <2>2, <2>3, <2>4, PromiseGoesOn
<1>7. CASE SaveSnapshot
  <2>1. phase = "run" /\ UNCHANGED <<phase, file, readOffset>> /\ wemain' \in {"saved", "ready"}
    BY <1>7 DEF SaveSnapshot
  <2>2. CASE /\ dat' = [state |-> "good", head |-> head, tail |-> tail, rows |-> RingRows]
             /\ wemain' = "saved" /\ promised' = Elements(Contents)
    <3>1. /\ Contents \in Seq(Nat) /\ Len(Contents) = Len(file) - readOffset + count
          /\ Len(file) \in Nat /\ readOffset \in Nat /\ readOffset <= Len(file) /\ count \in Nat
          /\ RingRows \in Seq(Nat) /\ Len(RingRows) = count /\ file \in Seq(Nat)
          /\ \A i \in 1..(Len(file) - readOffset) : Contents[i] = file[readOffset + i]
          /\ \A i \in (Len(file) - readOffset + 1)..(Len(file) - readOffset + count) :
               Contents[i] = RowAt(ring, head, i - (Len(file) - readOffset))
      BY RowsBefore
    <3>2. /\ DOMAIN Contents = 1..Len(Contents) /\ DOMAIN RingRows = 1..count
          /\ DOMAIN file = 1..Len(file)
      BY <3>1, LenProperties
    <3>3. \A j \in 1..count : RingRows[j] = RowAt(ring, head, j)
      BY <3>1 DEF RingRows, RowAt, RowSlot
    <3>4. \A i \in DOMAIN Contents :
            \/ Contents[i] \in Elements(RingRows)
            \/ \E k \in DOMAIN file : k > readOffset /\ k > 0 /\ file[k] = Contents[i]
      <4> TAKE i \in DOMAIN Contents
      <4> DEFINE U == Len(file) - readOffset
      <4>1. /\ U \in Nat /\ readOffset + U = Len(file) /\ i \in 1..(U + count)
            /\ readOffset \in Nat /\ Len(file) \in Nat /\ count \in Nat
        BY <3>1, <3>2
      <4>2. CASE i <= U
        <5>1. i \in 1..U
          <6> HIDE DEF U
          <6> QED
            BY <3>1, <4>1, <4>2
        <5>2. Contents[i] = file[readOffset + i]
          BY <3>1, <5>1
        <5> HIDE DEF U
        <5>3. readOffset + i \in 1..Len(file) /\ readOffset + i > readOffset /\ readOffset + i > 0
          BY <4>1, <5>1
        <5> QED
          BY <3>2, <5>2, <5>3
      <4>3. CASE i > U
        <5>1. i \in (U + 1)..(U + count) /\ i - U \in 1..count
          <6> HIDE DEF U
          <6> QED
            BY <4>1, <4>3
        <5>2. Contents[i] = RowAt(ring, head, i - U)
          BY <3>1, <5>1
        <5> HIDE DEF U
        <5> QED
          BY <3>2, <3>3, <5>1, <5>2 DEF Elements
      <4> QED
        <5> HIDE DEF U
        <5> QED
          BY <4>1, <4>2, <4>3
    <3>5. Held(dat.rows, 0)'
      BY <2>1, <2>2, <3>4 DEF Held, Elements
    <3> QED
      BY <2>1, <2>2, <3>5 DEF RebootInv
  <2>3. CASE dat' \in {dat, BadDat} /\ wemain' = "ready" /\ promised' = {}
    <3>1. dat'.state # "good" => dat'.rows = <<>>
      BY <1>1, <2>3
    <3> QED
      BY <2>1, <2>3, <3>1 DEF RebootInv, Held
  <2> QED
    BY <1>7, <2>2, <2>3 DEF SaveSnapshot
<1>8. CASE SaveOffset
  <2>1. /\ phase = "run" /\ wemain = "saved" /\ wemain' = "ready"
        /\ UNCHANGED <<phase, file, readOffset, dat, consumed, dropped, forgotten>>
    BY <1>8 DEF SaveOffset
  <2>2. CASE savedOffset' = (IF Unread = <<>> THEN 0 ELSE readOffset) /\ promised' = promised
    <3>1. Held(dat.rows, 0)
      BY <1>0, <2>1 DEF RebootInv
    <3>2. Held(dat.rows, savedOffset)'
      BY <2>1, <2>2, <3>1 DEF Held
    <3> QED
      BY <1>1, <2>1, <3>2 DEF RebootInv
  <2>3. CASE promised' = {}
    BY <1>1, <2>1, <2>3 DEF RebootInv, Held
  <2> QED
    BY <1>8, <2>2, <2>3 DEF SaveOffset
<1>9. CASE ResetReturns
  BY <1>1, <1>9 DEF RebootInv, ResetReturns
<1>10. CASE SocReset
  <2>1. /\ wemain = "ready" /\ wemain' = "idle" /\ phase' = "load" /\ readOffset' = 0
        /\ UNCHANGED <<file, dat, savedOffset, promised, consumed, dropped, forgotten>>
    BY <1>10 DEF SocReset, LoseRAM
  <2>2. \A i \in DOMAIN file : i > readOffset => i > 0
    BY UnreadRecords
  <2>3. Held(dat.rows, savedOffset)
    BY <1>0, <2>1 DEF RebootInv
  <2>4. Held(dat.rows, savedOffset)'
    BY <2>1, <2>2, <2>3 DEF Held
  <2> QED
    BY <1>1, <2>1, <2>4 DEF RebootInv
<1>11. CASE PowerLoss
  BY <1>1, <1>11 DEF RebootInv, Held, PowerLoss, LoseRAM
<1>12. CASE LoadSnapshot
  <2>1. /\ phase = "load" /\ phase' = "restore" /\ wemain' = wemain /\ dat' \in {NoDat, dat}
        /\ UNCHANGED <<readOffset, file, savedOffset, promised, consumed, dropped, forgotten>>
    BY <1>12 DEF LoadSnapshot, Written
  <2>2. wemain' = "idle" /\ Held(dat.rows, savedOffset)
    BY <1>0, <2>1 DEF RebootInv
  <2>3. Elements(dat.rows) \subseteq Elements(RingRows)'
    <3>1. CASE dat.state = "good"
      <4>1. dat.head \in Slots /\ dat.rows \in Seq(Nat) /\ Len(dat.rows) <= Capacity
        BY DEF IndexInv, TypeOK, FlashTypeOK, RingConsistent
      <4>2. /\ head' = dat.head /\ count' = Len(dat.rows)
            /\ ring' = [i \in Slots |->
                  LET k == 1 + ((i + Capacity - dat.head) % Capacity)
                  IN IF k <= Len(dat.rows) THEN dat.rows[k] ELSE NoRow]
        BY <1>12, <3>1 DEF LoadSnapshot
      <4>3. \A j \in 1..Len(dat.rows) : RowAt(ring', dat.head, j) = dat.rows[j]
        BY <4>1, <4>2, SnapshotInPlace
      <4>4. RingRows' = [j \in 1..Len(dat.rows) |-> RowAt(ring', dat.head, j)]
        BY <4>2 DEF RingRows, RowAt, RowSlot
      <4>5. DOMAIN dat.rows = 1..Len(dat.rows)
        BY <4>1, LenProperties
      <4> QED
        BY <4>3, <4>4, <4>5 DEF Elements
    <3>2. CASE dat.state # "good"
      BY <1>1, <3>2
    <3> QED
      BY <3>1, <3>2
  <2>4. Held(RingRows, savedOffset)'
    BY <2>1, <2>2, <2>3 DEF Held
  <2>5. dat'.state # "good" => dat'.rows = <<>>
    BY <1>1, <2>1
  <2> QED
    BY <2>1, <2>2, <2>4, <2>5 DEF RebootInv
<1>13. CASE RestoreOverflow
  <2>1. phase = "restore" /\ phase' = "run" /\ UNCHANGED <<dat, wemain>>
    BY <1>13 DEF RestoreOverflow
  <2>2. wemain' = "idle"
    BY <1>0, <2>1 DEF RebootInv
  <2> QED
    BY <1>1, <2>1, <2>2 DEF RebootInv
<1>14. CASE UNCHANGED vars
  <2>1. RebootInv' = RebootInv
    BY <1>14 DEF vars, RebootInv, Held, RingRows
  <2> QED
    BY <1>0, <2>1
<1> QED
  BY <1>3, <1>4, <1>5, <1>6, <1>7, <1>8, <1>9, <1>10, <1>11, <1>12, <1>13, <1>14 DEF Next

\* The end of the boot: the records beyond the saved offset are read again,
\* behind them the snapshot.
LEMMA BootKeepsRows ==
  ASSUME IndexInv, IndexInv', RebootInv, [Next]_vars, phase = "restore"
  PROVE  \/ promised' \subseteq (Elements(Contents) \cup consumed \cup dropped \cup forgotten)'
         \/ UNCHANGED vars
<1> USE DEF queueVars, flashVars, consumerVars, historyVars
<1>1. CASE RestoreOverflow
  <2>1. /\ UNCHANGED <<ring, head, count, promised, consumed, dropped, forgotten>>
        /\ IF file = <<>>
             THEN UNCHANGED <<file, readOffset, savedOffset>>
             ELSE /\ file' = IF savedOffset = Len(file) THEN <<>> ELSE file
                  /\ readOffset' = IF savedOffset < Len(file) THEN savedOffset ELSE 0
    BY <1>1 DEF RestoreOverflow
  <2>2. Held(RingRows, savedOffset)
    BY DEF RebootInv
  <2>3. /\ RingRows \in Seq(Nat) /\ Len(RingRows) = count /\ count \in Nat
        /\ file \in Seq(Nat) /\ Len(file) \in Nat /\ savedOffset \in Nat
    BY RowsBefore DEF IndexInv, TypeOK, FlashTypeOK
  <2>4. /\ Contents' \in Seq(Nat) /\ Len(Contents') = Len(file') - readOffset' + count
        /\ Len(file') \in Nat /\ readOffset' \in Nat /\ readOffset' <= Len(file')
        /\ \A i \in (Len(file') - readOffset' + 1)..(Len(file') - readOffset' + count) :
             Contents'[i] = RowAt(ring, head, i - (Len(file') - readOffset'))
    BY <2>1, RowsAfter
  <2>5. DOMAIN Contents' = 1..Len(Contents')
    BY <2>4, LenProperties
  <2>6. \A j \in DOMAIN RingRows : RingRows[j] \in Elements(Contents')
    <3> TAKE j \in DOMAIN RingRows
    <3>1. j \in 1..count
      BY <2>3, LenProperties
    <3>2. RingRows[j] = RowAt(ring, head, j)
      BY <3>1 DEF RingRows, RowAt, RowSlot
    <3> DEFINE U == Len(file') - readOffset'
               k == U + j
    <3>3. /\ U \in Nat /\ Len(Contents') = U + count
          /\ \A i \in (U + 1)..(U + count) : Contents'[i] = RowAt(ring, head, i - U)
      BY <2>4
    <3> HIDE DEF U
    <3>4. k \in (U + 1)..(U + count) /\ k \in 1..(U + count) /\ k - U = j
      BY <2>3, <3>1, <3>3
    <3> HIDE DEF k
    <3>5. Contents'[k] = RowAt(ring, head, j)
      BY <3>3, <3>4
    <3>6. k \in DOMAIN Contents'
      BY <2>5, <3>3, <3>4
    <3> QED
      BY <3>2, <3>5, <3>6 DEF Elements
  <2>7. \A i \in DOMAIN file : i > savedOffset => file[i] \in Elements(Contents')
    <3> SUFFICES ASSUME NEW i \in DOMAIN file, i > savedOffset
                 PROVE  file[i] \in Elements(Contents')
      OBVIOUS
    <3>1. i \in 1..Len(file) /\ file # <<>>
      BY <2>3, LenProperties, EmptySeq
    <3>2. savedOffset < Len(file) /\ file' = file /\ readOffset' = savedOffset
      BY <2>1, <2>3, <3>1
    <3>3. i - savedOffset \in 1..(Len(file) - savedOffset) /\ savedOffset + (i - savedOffset) = i
      BY <2>3, <3>1
    <3>4. Contents'[i - savedOffset] = file[i]
      <4>1. \A k \in 1..(Len(file) - savedOffset) : Contents'[k] = file[savedOffset + k]
        BY <3>2, RowsAfter
      <4> QED
        BY <3>3, <4>1
    <3>5. i - savedOffset \in DOMAIN Contents'
      BY <2>3, <2>4, <2>5, <3>2, <3>3
    <3> QED
      BY <3>4, <3>5 DEF Elements
  <2>8. Elements(RingRows) \subseteq Elements(Contents')
    BY <2>6 DEF Elements
  <2>9. Elements(Contents') = Elements(Contents)'
    BY DEF Elements
  <2> QED
    BY <2>1, <2>2, <2>7, <2>8, <2>9 DEF Held
<1>2. CASE PowerLoss
  BY <1>2 DEF PowerLoss
<1>3. CASE SocReset
  BY <1>3 DEF SocReset, RebootInv
<1> QED
  BY <1>1, <1>2, <1>3 DEF Next, Push, PeekBatch, PopTail, RestoreTail, AbandonBatch, CommitBatch,
       CommitLogin, ClearCheck, ClearSnapshot, SaveSnapshot, SaveOffset, ResetReturns, LoadSnapshot

\* After a persisted reset every row that was queued when the snapshot was
\* saved is queued again, or was popped, cleared or deleted with the
\* snapshot, whatever the tasks did between queue_manager_persist and the
\* reset and whichever of the IOFaults happened.
THEOREM RebootKeepsTheQueue == Spec => RebootKeepsRows
<1>1. IndexInv /\ IndexInv' /\ RebootInv /\ [Next]_vars => RebootInv'
  BY RebootNext
<1>2. Spec => []RebootInv
  BY IndicesCorrect, RebootInit, <1>1, PTL DEF Spec
<1>3. IndexInv /\ IndexInv' /\ RebootInv /\ [Next]_vars =>
        [phase = "restore" =>
           promised' \subseteq (Elements(Contents) \cup consumed \cup dropped \cup forgotten)']_vars
  BY BootKeepsRows
<1> QED
  BY IndicesCorrect, <1>2, <1>3, PTL DEF Spec, RebootKeepsRows
=============================================================================
