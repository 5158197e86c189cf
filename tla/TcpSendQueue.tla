---------------------------- MODULE TcpSendQueue ----------------------------
(***************************************************************************)
(* The store-and-forward queue TCP_SEND_Q of common/queue_manager.c, with  *)
(* the read offset that system/reset/pre_boot_handler.c keeps for it       *)
(* across a reset.                                                         *)
(*                                                                         *)
(* A queue is a ring in RAM.  A push to a full ring moves the oldest row   *)
(* to an overflow file, so the file is always older than the ring.  The    *)
(* consumer peeks a batch, sends it, and pops it only after the server's   *)
(* ACK.  Before a reset the ring is saved to a snapshot and the offset of  *)
(* the first unread overflow row to the pre-boot record.                   *)
(*                                                                         *)
(* Rows are numbered 1, 2, 3, ... in the order they are accepted.  One     *)
(* unit of the overflow file is one record; q->file_size is Len(file).     *)
(* An append that fails leaves nothing behind: the bytes of a half-written *)
(* record, which the code does not count (queue_manager.c:123-126), are    *)
(* outside this model.                                                     *)
(* Every operation holds q->mutex from its first read to its last write,   *)
(* so it is one step; an operation that releases it is several steps.      *)
(*                                                                         *)
(* A definition named D_x is D with a slip a programmer could make.  It is *)
(* no part of the model: it shows that a property would notice.            *)
(***************************************************************************)
EXTENDS Naturals, Sequences, FiniteSets

CONSTANTS
  Capacity,   \* cfg->capacity: slots of the ring
  MaxFile,    \* cfg->max_file_size, in records
  MaxBatch,   \* MAX_MESSAGES: rows the consumer peeks at a time
  Type39,     \* the rows whose packet type the overflow file does not store
  LiveFirst,  \* g_tcp_client.config->live_first
  IOFaults,   \* the file operations that may fail
  MaxRows,    \* bound: rows pushed
  MaxBoots    \* bound: restarts

FaultKinds == {"append", "peek", "pop", "save"}

ASSUME SizesAssumption == /\ Capacity \in Nat \ {0}
                          /\ MaxFile \in Nat \ {0}
                          /\ MaxBatch \in Nat \ {0}
\* 5 rows of 7: the batch never reaches the newest row of a full ring.
ASSUME BatchAssumption == MaxBatch < Capacity
ASSUME OptionAssumption == /\ Type39 \subseteq Nat
                           /\ LiveFirst \in BOOLEAN
                           /\ IOFaults \subseteq FaultKinds
ASSUME BoundAssumption == MaxRows \in Nat /\ MaxBoots \in Nat

VARIABLES
  \* struct Queue, in RAM
  ring, head, tail, count, readOffset,
  \* flash
  file,        \* queue_TCP_SEND_Q_overflow.dat; <<>> is also "no such file"
  dat,         \* queue_TCP_SEND_Q.dat, the snapshot of the ring
  savedOffset, \* pre-boot record; 0 is also "not valid"
  \* tasks
  phase,       \* queue_manager_create: "load", "restore"; afterwards "run"
  cpc,         \* TCPCLI between two queue operations of one batch
  batch,       \* rows TCPCLI peeked and has not popped
  live,        \* row TCPCLI took from the tail, 0 if none
  clearWhat,   \* what queue_persist_clear_snapshot_after_consume decided
  wemain,      \* persist_and_reset on the WEMAIN task
  \* history
  nextRow,     \* number the next accepted row gets
  boots,
  consumed,    \* rows popped after an ACK; in a file cleared under the batch
               \* the pop takes rows that were not sent
  dropped,     \* rows of overflow files cleared to make room
  cleared,     \* such a clear happened since the batch was peeked
  promised,    \* rows queued when the snapshot was saved
  forgotten    \* rows not popped of a snapshot that was deleted

queueVars == <<ring, head, tail, count, readOffset>>
flashVars == <<file, dat, savedOffset>>
consumerVars == <<cpc, batch, live, clearWhat>>
historyVars == <<consumed, dropped, cleared, promised, forgotten>>
vars == <<queueVars, flashVars, consumerVars, historyVars,
          phase, wemain, nextRow, boots>>

Slots == 0..(Capacity - 1)
NoRow == 0
EmptyRing == [i \in Slots |-> NoRow]
NoDat == [state |-> "none", head |-> 0, tail |-> 0, rows |-> <<>>]
BadDat == [NoDat EXCEPT !.state = "bad"]

Elements(s) == {s[i] : i \in DOMAIN s}

\* What a flash variable may be after a write that may fail.
Written(new, old) == {new} \cup IF "save" \in IOFaults THEN {old} ELSE {}

AtMost(n, s) == SubSeq(s, 1, IF n < Len(s) THEN n ELSE Len(s))

RingRows == [i \in 1..count |-> ring[(head + i - 1) % Capacity]]
Unread == SubSeq(file, readOffset + 1, Len(file))
Contents == Unread \o RingRows     \* the order queue_pop delivers

-----------------------------------------------------------------------------
(* queue_push *)

Enqueue_NoWrap(r) == ring' = [ring EXCEPT ![tail] = r] /\ tail' = tail + 1
Enqueue_AtHead(r) == /\ ring' = [ring EXCEPT ![head] = r]
                     /\ tail' = (tail + 1) % Capacity

\* The element goes to the slot at tail.
Enqueue(r) == /\ ring' = [ring EXCEPT ![tail] = r]
              /\ tail' = (tail + 1) % Capacity

PushToRing_OneTooMany(r) ==
  /\ count <= Capacity
  /\ Enqueue(r)
  /\ count' = count + 1
  /\ UNCHANGED <<head, readOffset, file, dropped, cleared>>

PushToRing(r) ==
  /\ count < Capacity
  /\ Enqueue(r)
  /\ count' = count + 1
  /\ UNCHANGED <<head, readOffset, file, dropped, cleared>>

\* queue_file_append, before it writes: a full file is deleted with the
\* rows still unread in it.
FileFull == Len(file) + 1 > MaxFile
ClearOverflow_KeepsOffset == /\ dropped' = dropped \cup Elements(Unread)
                             /\ cleared' = TRUE /\ UNCHANGED readOffset
ClearOverflow == /\ dropped' = dropped \cup Elements(Unread)
                 /\ cleared' = TRUE
                 /\ readOffset' = 0

\* A full ring: the oldest row goes to the overflow file first.
PushEvicting(r) ==
  /\ count = Capacity
  /\ ring[head] \notin Type39
  /\ IF FileFull THEN ClearOverflow /\ file' = <<ring[head]>>
                 ELSE /\ file' = Append(file, ring[head])
                      /\ UNCHANGED <<readOffset, dropped, cleared>>
  /\ head' = (head + 1) % Capacity
  /\ Enqueue(r)
  /\ UNCHANGED count

PushRefused_HeadAdvanced ==
  /\ count = Capacity
  /\ ring[head] \in Type39 \/ "append" \in IOFaults
  /\ head' = (head + 1) % Capacity /\ count' = count - 1
  /\ UNCHANGED <<ring, tail, file, readOffset, dropped, cleared>>

\* The oldest row cannot be written: the new row is refused, and a full
\* file has already been deleted.
PushRefused ==
  /\ count = Capacity
  /\ ring[head] \in Type39 \/ "append" \in IOFaults
  /\ IF FileFull THEN ClearOverflow /\ file' = <<>>
                 ELSE UNCHANGED <<file, readOffset, dropped, cleared>>
  /\ UNCHANGED <<ring, head, tail, count>>

PushUnchanged == UNCHANGED <<dat, savedOffset, phase, wemain, boots,
                             consumed, promised, forgotten>>

Push ==
  /\ phase = "run" /\ nextRow <= MaxRows
  /\ \/ (PushToRing(nextRow) \/ PushEvicting(nextRow)) /\ nextRow' = nextRow + 1
     \/ PushRefused /\ UNCHANGED nextRow
  /\ PushUnchanged /\ UNCHANGED consumerVars

-----------------------------------------------------------------------------
(* The consumer: one batch, from the peek to the ACK *)

PeekResults_RingFirst == {AtMost(MaxBatch, RingRows \o Unread)}

\* queue_peek_batch.  If the count of the overflow records stops early (the
\* file cannot be opened or read), the ring is taken to follow that much of
\* the file; if a counted record cannot be read, the batch ends before it.
PeekResults ==
  {AtMost(MaxBatch, Contents)} \cup
  IF "peek" \in IOFaults /\ Unread # <<>>
    THEN LET early == 0..(Len(Unread) - 1)
         IN {AtMost(MaxBatch, SubSeq(Unread, 1, n) \o RingRows) : n \in early} \cup
            {SubSeq(Unread, 1, n) : n \in {m \in early : m < MaxBatch}}
    ELSE {}

PeekBatch ==
  /\ phase = "run" /\ cpc = "idle"
  /\ batch' \in PeekResults \ {<<>>}
  /\ cpc' = "peeked" /\ cleared' = FALSE
  /\ UNCHANGED <<queueVars, flashVars, live, clearWhat, phase, wemain, nextRow,
                 boots, consumed, dropped, promised, forgotten>>

PopTail_TakesHead ==
  /\ phase = "run" /\ cpc = "peeked" /\ LiveFirst /\ count = Capacity
  /\ head' = (head + 1) % Capacity /\ count' = count - 1
  /\ live' = ring[head] /\ cpc' = "sent"
  /\ UNCHANGED <<ring, tail, readOffset, flashVars, batch, clearWhat,
                 phase, wemain, nextRow, boots, historyVars>>

\* queue_pop_tail, by tcp_prepend_live_first_queue_tail.
PopTail ==
  /\ phase = "run" /\ cpc = "peeked" /\ LiveFirst /\ count = Capacity
  /\ tail' = (tail + Capacity - 1) % Capacity
  /\ count' = count - 1
  /\ live' = ring[tail']
  /\ cpc' = "sent"
  /\ UNCHANGED <<ring, head, readOffset, flashVars, batch, clearWhat,
                 phase, wemain, nextRow, boots, historyVars>>

\* The tail row does not fit in the frame: it is pushed again, its result
\* ignored.
RestoreTail ==
  /\ phase = "run" /\ cpc = "sent" /\ live # NoRow
  /\ PushToRing(live) \/ PushEvicting(live) \/ PushRefused
  /\ live' = NoRow
  /\ PushUnchanged /\ UNCHANGED <<cpc, batch, clearWhat, nextRow>>

\* Send error, ACK timeout or connection lost: the rows were never popped.
AbandonBatch ==
  /\ phase = "run" /\ cpc \in {"peeked", "sent"}
  /\ cpc' = "idle" /\ batch' = <<>> /\ live' = NoRow
  /\ UNCHANGED <<queueVars, flashVars, clearWhat, phase, wemain, nextRow,
                 boots, historyVars>>

\* queue_pop of n rows: the overflow file first, deleted with its last
\* record, then the ring.
Pop(n) ==
  LET fromFile == IF n < Len(Unread) THEN n ELSE Len(Unread)
      fromRing == IF n - fromFile < count THEN n - fromFile ELSE count
  IN /\ IF fromFile > 0 /\ fromFile = Len(Unread)
          THEN file' = <<>> /\ readOffset' = 0
          ELSE readOffset' = readOffset + fromFile /\ UNCHANGED file
     /\ head' = (head + fromRing) % Capacity
     /\ count' = count - fromRing
     /\ consumed' = consumed \cup Elements(AtMost(n, Contents))
                             \cup ({live} \ {NoRow})

\* The ACK of a batch.  A file that cannot be opened ends the pop early.
CommitBatch ==
  /\ phase = "run" /\ cpc \in {"peeked", "sent"}
  /\ \E n \in 0..Len(batch) :
       /\ n = Len(batch) \/ ("pop" \in IOFaults /\ n < Len(Unread))
       /\ Pop(n)
  /\ cpc' = "clear" /\ batch' = <<>> /\ live' = NoRow
  /\ UNCHANGED <<ring, tail, dat, savedOffset, clearWhat, phase, wemain,
                 nextRow, boots, dropped, cleared, promised, forgotten>>

\* The ACK of the login frame: nothing to pop, the snapshot is still cleared.
CommitLogin ==
  /\ phase = "run" /\ cpc = "idle"
  /\ cpc' = "clear"
  /\ UNCHANGED <<queueVars, flashVars, batch, live, clearWhat, phase, wemain,
                 nextRow, boots, historyVars>>

\* queue_persist_clear_snapshot_after_consume: what it reads under the lock.
ClearCheck ==
  /\ phase = "run" /\ cpc = "clear"
  /\ IF count = 0
       THEN /\ cpc' = "clearing"
            /\ clearWhat' = IF Unread = <<>> THEN "offset and snapshot"
                                             ELSE "snapshot"
       ELSE cpc' = "idle" /\ UNCHANGED clearWhat
  /\ UNCHANGED <<queueVars, flashVars, batch, live, phase, wemain, nextRow,
                 boots, historyVars>>

\* ... and what it does after releasing it.
ClearSnapshot ==
  /\ phase = "run" /\ cpc = "clearing"
  /\ savedOffset' \in IF clearWhat = "offset and snapshot"
                        THEN Written(0, savedOffset) ELSE {savedOffset}
  /\ dat' \in Written(NoDat, dat)
  /\ forgotten' = IF dat' = dat THEN forgotten
                    ELSE forgotten \cup (Elements(dat.rows) \ consumed)
  /\ cpc' = "idle" /\ clearWhat' = "nothing"
  /\ UNCHANGED <<queueVars, file, batch, live, phase, wemain, nextRow, boots,
                 consumed, dropped, cleared, promised>>

-----------------------------------------------------------------------------
(* WEMAIN: queue_manager_persist, then the reset.  "promised" is what it  *)
(* returned RESULT_SUCCESS for.                                            *)

\* queue_persist_save, under the lock.  If it fails, the offset is not saved.
SaveSnapshot ==
  /\ phase = "run" /\ wemain = "idle"
  /\ \/ /\ dat' = [state |-> "good", head |-> head, tail |-> tail, rows |-> RingRows]
        /\ wemain' = "saved" /\ promised' = Elements(Contents)
     \/ /\ "save" \in IOFaults
        /\ dat' \in {dat, BadDat}
        /\ wemain' = "ready" /\ promised' = {}
  /\ UNCHANGED <<queueVars, file, savedOffset, consumerVars, phase, nextRow,
                 boots, consumed, dropped, cleared, forgotten>>

SaveOffset_AtEnd ==
  /\ phase = "run" /\ wemain = "saved"
  /\ savedOffset' = Len(file) /\ wemain' = "ready"
  /\ UNCHANGED <<queueVars, file, dat, consumerVars, phase, nextRow, boots,
                 historyVars>>

\* queue_tcp_persist_file_offset, without the lock.
SaveOffset ==
  /\ phase = "run" /\ wemain = "saved"
  /\ \/ /\ savedOffset' = IF Unread = <<>> THEN 0 ELSE readOffset
        /\ UNCHANGED promised
     \/ /\ "save" \in IOFaults
        /\ promised' = {} /\ UNCHANGED savedOffset
  /\ wemain' = "ready"
  /\ UNCHANGED <<queueVars, file, dat, consumerVars, phase, nextRow, boots,
                 consumed, dropped, cleared, forgotten>>

\* SDK_SYSTEM_RESET came back: the system runs on.
ResetReturns ==
  /\ phase = "run" /\ wemain = "ready"
  /\ wemain' = "idle" /\ promised' = {}
  /\ UNCHANGED <<queueVars, flashVars, consumerVars, phase, nextRow, boots,
                 consumed, dropped, cleared, forgotten>>

-----------------------------------------------------------------------------
(* Restart: RAM is lost, then queue_manager_create *)

LoseRAM ==
  /\ ring' = EmptyRing /\ head' = 0 /\ tail' = 0 /\ count' = 0 /\ readOffset' = 0
  /\ cpc' = "idle" /\ batch' = <<>> /\ live' = NoRow /\ clearWhat' = "nothing"
  /\ wemain' = "idle" /\ phase' = "load" /\ boots' = boots + 1
  /\ UNCHANGED <<flashVars, nextRow, consumed, dropped, cleared, forgotten>>

\* SDK_SYSTEM_RESET, after the persistence.
SocReset == /\ wemain = "ready" /\ boots < MaxBoots
            /\ LoseRAM /\ UNCHANGED promised

\* Power cut, watchdog or crash at any point, the boot included.
PowerLoss == /\ boots < MaxBoots
             /\ LoseRAM /\ promised' = {}

\* queue_persist_load.  The snapshot stays in flash.
LoadSnapshot ==
  /\ phase = "load"
  /\ IF dat.state = "good"
       THEN /\ head' = dat.head /\ tail' = dat.tail /\ count' = Len(dat.rows)
            /\ ring' = [i \in Slots |->
                  LET k == 1 + ((i + Capacity - dat.head) % Capacity)
                  IN IF k <= Len(dat.rows) THEN dat.rows[k] ELSE NoRow]
       ELSE UNCHANGED <<ring, head, tail, count>>
  /\ dat' \in IF dat.state = "bad" THEN Written(NoDat, dat) ELSE {dat}
  /\ phase' = "restore"
  /\ UNCHANGED <<readOffset, file, savedOffset, consumerVars, wemain, nextRow,
                 boots, historyVars>>

\* queue_file_restore and queue_tcp_restore_saved_file_offset: the saved
\* offset is taken only if there is an overflow file.
RestoreOverflow ==
  /\ phase = "restore"
  /\ IF file = <<>>
       THEN UNCHANGED <<file, readOffset, savedOffset>>
       ELSE /\ savedOffset' \in Written(0, savedOffset)
            /\ file' = IF savedOffset = Len(file) THEN <<>> ELSE file
            /\ readOffset' = IF savedOffset < Len(file) THEN savedOffset ELSE 0
  /\ phase' = "run"
  /\ UNCHANGED <<ring, head, tail, count, dat, consumerVars, wemain, nextRow,
                 boots, historyVars>>

-----------------------------------------------------------------------------
Init ==
  /\ ring = EmptyRing /\ head = 0 /\ tail = 0 /\ count = 0 /\ readOffset = 0
  /\ file = <<>> /\ dat = NoDat /\ savedOffset = 0
  /\ phase = "load" /\ cpc = "idle" /\ batch = <<>> /\ live = NoRow
  /\ clearWhat = "nothing" /\ wemain = "idle"
  /\ nextRow = 1 /\ boots = 0
  /\ consumed = {} /\ dropped = {} /\ cleared = FALSE
  /\ promised = {} /\ forgotten = {}

Next ==
  \/ Push
  \/ PeekBatch \/ PopTail \/ RestoreTail \/ AbandonBatch
  \/ CommitBatch \/ CommitLogin \/ ClearCheck \/ ClearSnapshot
  \/ SaveSnapshot \/ SaveOffset \/ ResetReturns
  \/ SocReset \/ PowerLoss \/ LoadSnapshot \/ RestoreOverflow

Spec == Init /\ [][Next]_vars

-----------------------------------------------------------------------------
(* Properties *)

\* Types and ranges of the state.
QueueTypeOK == /\ ring \in [Slots -> Nat] /\ head \in Slots /\ tail \in Slots
               /\ count \in Nat /\ readOffset \in Nat
FlashTypeOK == /\ file \in Seq(Nat) /\ savedOffset \in Nat
               /\ dat \in [state : {"none", "bad", "good"}, head : Slots,
                           tail : Slots, rows : Seq(Nat)]
TaskTypeOK ==
  /\ phase \in {"load", "restore", "run"} /\ wemain \in {"idle", "saved", "ready"}
  /\ cpc \in {"idle", "peeked", "sent", "clear", "clearing"}
  /\ batch \in Seq(Nat) /\ live \in Nat
  /\ clearWhat \in {"nothing", "snapshot", "offset and snapshot"}
  /\ nextRow \in Nat \ {0} /\ boots \in Nat
HistoryTypeOK == /\ consumed \subseteq Nat /\ dropped \subseteq Nat
                 /\ cleared \in BOOLEAN
                 /\ promised \subseteq Nat /\ forgotten \subseteq Nat
TypeOK == QueueTypeOK /\ FlashTypeOK /\ TaskTypeOK /\ HistoryTypeOK

\* The three indices of the ring agree, in the queue and in the snapshot that
\* queue_persist_load copies back: the slot queue_push writes is the one
\* after the rows queue_pop and queue_peek_batch read.
RingConsistent ==
  /\ count <= Capacity /\ tail = (head + count) % Capacity
  /\ Len(dat.rows) <= Capacity /\ dat.tail = (dat.head + Len(dat.rows)) % Capacity

\* queue_file_append keeps the file within max_file_size, and queue_file_read
\* never leaves a file with nothing unread: either would make pops read
\* beyond the end or leave the file for ever.
OverflowInBounds ==
  /\ Len(file) <= MaxFile /\ savedOffset <= MaxFile
  /\ readOffset <= Len(file)
  /\ phase = "run" /\ file # <<>> => readOffset < Len(file)
  /\ phase # "run" => readOffset = 0

\* The types alone are not inductive: queue_persist_load takes its indices
\* from the snapshot, and a pop reads the file only while it has unread
\* rows.  These three are.
IndexInv == TypeOK /\ RingConsistent /\ OverflowInBounds

\* Until a restart, and without the live-first option, the queue holds
\* exactly the newest rows it accepted, oldest first, in whatever way they
\* are spread over the file and the ring.  So rows leave in the order they
\* came, none twice, and none is skipped.
HoldsTheNewest ==
  boots = 0 => \A i \in 1..Len(Contents) :
                 Contents[i] = (nextRow - 1) - Len(Contents) + i

\* ... and a row that is no longer queued was popped after an ACK, or was in
\* an overflow file that was cleared to make room, or is in the frame that
\* waits for its ACK.
NothingLost ==
  boots = 0 => 1..(nextRow - 1) \subseteq
                 Elements(Contents) \cup consumed \cup dropped \cup {live}

\* Rows peeked and not yet acknowledged are the next ones to be popped, so
\* that "queue_pop with the same count" removes what was sent: pushes, the
\* evictions they cause and queue_pop_tail leave the head of the queue alone.
BatchIsNext ==
  cpc \in {"peeked", "sent"} /\ ~cleared => batch = AtMost(Len(batch), Contents)

\* When a persisted reset is over, the queue has every row it had when the
\* snapshot was saved, unless the row was popped or cleared before the
\* reset, or the snapshot itself was deleted: an ACK's clean-up that found
\* the ring empty may delete a snapshot written since (queue_manager.c:450).
RebootKeepsRows ==
  [][phase = "restore" =>
       promised' \subseteq (Elements(Contents) \cup consumed \cup dropped \cup forgotten)']_vars

\* The queue keeps the promise of StoreAndForward, whichever of the IOFaults
\* happen: its rows are the unread overflow followed by the ring.
SAF == INSTANCE StoreAndForward WITH
         Keep <- Capacity, items <- Contents, accepted <- nextRow - 1,
         held <- live, up <- phase = "run"
IsStoreAndForward == SAF!Spec
=============================================================================
