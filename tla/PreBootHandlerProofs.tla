------------------------ MODULE PreBootHandlerProofs ------------------------
(***************************************************************************)
(* Proofs about PreBootHandler, for any number of runs and of planned      *)
(* resets and whichever file operations may fail.                          *)
(***************************************************************************)
EXTENDS PreBootHandler, TLAPS

OpPcs == {"idle", "staged", "opened", "deleted", "written", "ok", "failed"}
OpRecord == [pc : OpPcs, rec : Record]
File == [state : {"none", "short", "whole"}, rec : Record]

RecordTypes == disk \in File /\ cache \in Record /\ prior \in 0..MaxBoots
OpTypes == op \in [Tasks -> OpRecord]
PlaceTypes == wpc \in BootStates \cup {"loop", "save", "queue", "offset", "stabilize"}
RunTypes ==
  /\ run \in 1..MaxBoots /\ saves \in Nat /\ lastUp \in 0..MaxBoots
  /\ mishaps \subseteq {"raced", "failed", "torn", "wiped", "lost"}
FlagTypes == kept \in BOOLEAN /\ promised \in BOOLEAN
Types == RecordTypes /\ OpTypes /\ PlaceTypes /\ RunTypes /\ FlagTypes

\* Nothing has happened to the file but deletions by a command.
OnlyWiped == mishaps \subseteq {"wiped"}

-----------------------------------------------------------------------------
(* What the helpers of the model return *)

LEMMA Bounds == MaxBoots \in Nat \ {0} /\ MaxSaves \in Nat /\ 0 \in 0..MaxBoots
  BY BootAssumption

LEMMA Others == Other("WEMAIN") = "TCPCLI" /\ Other("TCPCLI") = "WEMAIN"
  BY DEF Other, Tasks

LEMMA Records ==
  /\ EmptyRecord \in Record /\ NoFile \in File /\ Short \in File
  /\ \A r \in Record : Whole(r) \in File
  /\ Idle \in OpRecord
<1>1. EmptyRecord \in Record
  BY Bounds DEF EmptyRecord, Record
<1> QED BY <1>1 DEF NoFile, Short, Whole, Idle, File, OpRecord, OpPcs

\* The records the model makes of one another.
LEMMA Changes ==
  ASSUME NEW r \in Record
  PROVE  /\ [r EXCEPT !.slot = 0] \in Record
         /\ \A n \in 0..MaxBoots : [r EXCEPT !.offset = n] \in Record
         /\ run \in 1..MaxBoots => SavedRecord(r) \in Record
<1>1. r.total + 1 \in Nat /\ r.offset \in 0..MaxBoots
  BY DEF Record
<1>2. run \in 1..MaxBoots => run \in 0..MaxBoots
  BY Bounds
<1>3. run \in 1..MaxBoots => SavedRecord(r) \in Record
  BY <1>1, <1>2 DEF SavedRecord, Record
<1>4. /\ [r EXCEPT !.slot = 0] \in Record
      /\ \A n \in 0..MaxBoots : [r EXCEPT !.offset = n] \in Record
  BY Bounds DEF Record
<1> QED BY <1>3, <1>4

LEMMA StartTyped ==
  ASSUME OpTypes, NEW a \in Tasks, NEW r \in Record, Start(a, r)
  PROVE  /\ OpTypes'
         /\ op'[a].pc = "staged" /\ op'[a].rec = r
         /\ \A b \in Tasks \ {a} : op'[b] = op[b]
         /\ OnlyWiped' => OnlyWiped /\ op[Other(a)].pc = "idle"
<1> DEFINE o == [pc |-> "staged", rec |-> r]
<1>1. o \in OpRecord /\ o.pc = "staged" /\ o.rec = r
  BY DEF OpRecord, OpPcs
<1>2. op' = [op EXCEPT ![a] = o]
  BY DEF Start
<1>3. OnlyWiped' => OnlyWiped /\ op[Other(a)].pc = "idle"
  BY DEF Start, OnlyWiped
<1> HIDE DEF o
<1> QED BY <1>1, <1>2, <1>3 DEF OpTypes

LEMMA SetPcTyped ==
  ASSUME OpTypes, NEW a \in Tasks, NEW p \in OpPcs, SetPc(a, p)
  PROVE  /\ OpTypes' /\ op'[a] = [op[a] EXCEPT !.pc = p]
         /\ op'[a].pc = p /\ op'[a].rec = op[a].rec
         /\ \A b \in Tasks \ {a} : op'[b] = op[b]
  BY DEF SetPc, OpTypes, OpRecord

LEMMA EndTyped ==
  ASSUME OpTypes, NEW a \in Tasks, NEW p \in OpPcs, End(a, p)
  PROVE  /\ OpTypes'
         /\ a = "TCPCLI" => op'[a].pc = "idle"
         /\ a # "TCPCLI" => op'[a].pc = p /\ op'[a].rec = op[a].rec
         /\ \A b \in Tasks \ {a} : op'[b] = op[b]
<1>1. [op[a] EXCEPT !.pc = p] \in OpRecord
  BY DEF OpTypes, OpRecord
<1>2. Idle \in OpRecord /\ Idle.pc = "idle"
  BY Records DEF Idle
<1>3. op' = [op EXCEPT ![a] = IF a = "TCPCLI" THEN Idle ELSE [op[a] EXCEPT !.pc = p]]
  BY DEF End, OpTypes
<1>4. [op[a] EXCEPT !.pc = p].pc = p /\ [op[a] EXCEPT !.pc = p].rec = op[a].rec
  BY DEF OpTypes, OpRecord
<1> QED BY <1>1, <1>2, <1>3, <1>4 DEF OpTypes

LEMMA ReturnsTyped ==
  ASSUME OpTypes, NEW a \in Tasks, Returns(a)
  PROVE  OpTypes' /\ op'[a].pc = "idle" /\ \A b \in Tasks \ {a} : op'[b] = op[b]
<1>1. Idle \in OpRecord /\ Idle.pc = "idle"
  BY Records DEF Idle
<1> QED BY <1>1 DEF Returns, OpTypes

LEMMA IdleTyped ==
  ASSUME op' = [a \in Tasks |-> Idle]
  PROVE  OpTypes' /\ \A a \in Tasks : op'[a].pc = "idle"
  BY Records DEF OpTypes, Idle

LEMMA DeleteTyped ==
  ASSUME Types, DeleteRecord
  PROVE  /\ OpTypes'
         /\ \A a \in Tasks :
              /\ op'[a].rec = op[a].rec
              /\ op'[a].pc = IF op[a].pc = "opened" THEN "deleted" ELSE op[a].pc
<1> DEFINE o(a) == IF op[a].pc = "opened" THEN [op[a] EXCEPT !.pc = "deleted"] ELSE op[a]
<1>1. op' = [a \in Tasks |-> o(a)]
  BY DEF DeleteRecord
<1>2. ASSUME NEW a \in Tasks
      PROVE  /\ o(a) \in OpRecord /\ o(a).rec = op[a].rec
             /\ o(a).pc = IF op[a].pc = "opened" THEN "deleted" ELSE op[a].pc
  <2>1. op[a] \in OpRecord
    BY DEF Types, OpTypes
  <2> QED BY <2>1 DEF OpRecord, OpPcs
<1> HIDE DEF o
<1> QED BY <1>1, <1>2 DEF OpTypes

-----------------------------------------------------------------------------
(* Types *)

LEMMA RecordsTyped ==
  ASSUME Types, [Next]_vars
  PROVE  RecordTypes'
<1> USE DEF Types, RecordTypes, fileVars
<1>1. ASSUME NEW a \in Tasks, Open(a) PROVE RecordTypes'
  BY <1>1, Records DEF Open
<1>2. ASSUME NEW a \in Tasks, Write(a) PROVE RecordTypes'
  <2>1. op[a].rec \in Record
    BY DEF OpTypes, OpRecord
  <2>2. Filled(a) \subseteq File
    BY <2>1, Records DEF Filled
  <2> QED BY <1>2, <2>2, Records DEF Write
<1>3. ASSUME NEW a \in Tasks, CacheSet(a) PROVE RecordTypes'
  <2>1. op[a].rec \in Record
    BY DEF OpTypes, OpRecord
  <2> QED BY <1>3, <2>1 DEF CacheSet
<1>4. CASE LoadRecord
  <2>1. disk.rec \in Record /\ disk.rec.slot \in 0..MaxBoots
    BY DEF File, Record
  <2>2. disk' \in File
    BY <1>4, Records DEF LoadRecord
  <2>3. cache' \in Record /\ prior' \in 0..MaxBoots
    BY <1>4, <2>1, Records, Bounds DEF LoadRecord
  <2> QED BY <2>2, <2>3
<1>5. CASE OffsetTaken
  BY <1>5, Changes, Bounds DEF OffsetTaken
<1>6. CASE SocReset \/ PowerLoss
  BY <1>6, Records, Bounds DEF SocReset, PowerLoss, LoseRAM
<1>7. CASE DeleteRecord
  BY <1>7, Records DEF DeleteRecord
<1>8. CASE UNCHANGED fileVars
  BY <1>8
<1> QED BY <1>1, <1>2, <1>3, <1>4, <1>5, <1>6, <1>7, <1>8
        DEF Next, vars, BootWritten, TakeOffset, BeginSave, SaveDone, PersistQueue, OffsetDone,
            ResetReturns, TcpClear

LEMMA OpsTyped ==
  ASSUME Types, [Next]_vars
  PROVE  OpTypes'
<1>1. "WEMAIN" \in Tasks /\ "TCPCLI" \in Tasks
  BY DEF Tasks
<1> USE <1>1
<1>2. OpTypes /\ cache \in Record /\ disk.rec \in Record /\ run \in 1..MaxBoots
  BY DEF Types, RecordTypes, RunTypes, File
<1>3. ASSUME NEW a \in Tasks, Open(a) \/ Write(a) \/ CacheSet(a) PROVE OpTypes'
  <2>1. SetPc(a, "opened") \/ SetPc(a, "written") \/ End(a, "failed") \/ End(a, "ok")
    BY <1>3 DEF Open, Write, CacheSet, Fails
  <2> QED BY <1>2, <2>1, SetPcTyped, EndTyped DEF OpPcs
<1>4. CASE LoadRecord
  <2>1. \/ op' = op \/ Start("WEMAIN", Consumed(disk.rec))
        \/ op' = [op EXCEPT !["WEMAIN"] = [pc |-> "staged", rec |-> EmptyRecord]]
    BY <1>4 DEF LoadRecord
  <2>2. Consumed(disk.rec) \in Record
    BY <1>2, Changes DEF Consumed
  <2>3. [pc |-> "staged", rec |-> EmptyRecord] \in OpRecord
    BY Records DEF OpRecord, OpPcs
  <2> QED BY <1>2, <2>1, <2>2, <2>3, StartTyped DEF OpTypes
<1>5. CASE BootWritten \/ OffsetTaken \/ SaveDone \/ OffsetDone
  <2>1. Returns("WEMAIN")
    BY <1>5 DEF BootWritten, OffsetTaken, SaveDone, OffsetDone
  <2> QED BY <1>2, <2>1, ReturnsTyped
<1>6. CASE TakeOffset
  BY <1>2, <1>6, Changes, Bounds, StartTyped DEF TakeOffset, OpTypes
<1>7. CASE BeginSave
  BY <1>2, <1>7, Changes, StartTyped DEF BeginSave
<1>8. CASE PersistQueue
  <2>1. 0 \in 0..MaxBoots /\ run \in 0..MaxBoots
    BY <1>2, Bounds
  <2>2. CASE op' = op
    BY <1>2, <2>2 DEF OpTypes
  <2>3. CASE \E n \in {0, run} : Start("WEMAIN", [cache EXCEPT !.offset = n])
    <3>1. PICK n \in {0, run} : Start("WEMAIN", [cache EXCEPT !.offset = n])
      BY <2>3
    <3>2. [cache EXCEPT !.offset = n] \in Record
      BY <1>2, <2>1, <3>1, Changes
    <3> QED BY <1>2, <3>1, <3>2, StartTyped
  <2> QED BY <1>8, <2>2, <2>3 DEF PersistQueue
<1>9. CASE TcpClear
  <2>1. Start("TCPCLI", [cache EXCEPT !.offset = 0])
    BY <1>9 DEF TcpClear
  <2>2. [cache EXCEPT !.offset = 0] \in Record
    BY <1>2, Bounds, Changes
  <2> QED BY <1>2, <2>1, <2>2, StartTyped
<1>10. CASE SocReset \/ PowerLoss
  BY <1>10, IdleTyped DEF SocReset, PowerLoss, LoseRAM
<1>11. CASE DeleteRecord
  BY <1>11, DeleteTyped
<1>12. CASE op' = op
  BY <1>2, <1>12 DEF OpTypes
<1> QED BY <1>3, <1>4, <1>5, <1>6, <1>7, <1>8, <1>9, <1>10, <1>11, <1>12 DEF Next, vars, ResetReturns

LEMMA RunsTyped ==
  ASSUME Types, [Next]_vars
  PROVE  PlaceTypes' /\ RunTypes' /\ FlagTypes'
<1> USE Bounds DEF Types, PlaceTypes, RunTypes, FlagTypes, BootStates, fileVars, ghostVars
<1>1. ASSUME NEW a \in Tasks, Open(a) PROVE PlaceTypes' /\ RunTypes' /\ FlagTypes'
  BY <1>1 DEF Open, Fails
<1>2. ASSUME NEW a \in Tasks, Write(a) PROVE PlaceTypes' /\ RunTypes' /\ FlagTypes'
  <2>1. wpc' = wpc /\ run' = run /\ lastUp' = lastUp /\ promised' = promised
    BY <1>2 DEF Write
  <2>2. (kept' = kept \/ kept' = FALSE) /\ mishaps' \subseteq mishaps \cup {"failed"}
    BY <1>2 DEF Write, Fails
  <2>3. saves' \in {saves, saves + 1}
    BY <1>2, Zenon DEF Write
  <2>4. kept' \in BOOLEAN
    BY <2>2, Zenon
  <2> QED BY <2>1, <2>2, <2>3, <2>4
<1>3. ASSUME NEW a \in Tasks, CacheSet(a) PROVE PlaceTypes' /\ RunTypes' /\ FlagTypes'
  BY <1>3 DEF CacheSet
<1>4. CASE LoadRecord
  <2>1. promised' \in BOOLEAN
    BY <1>4, Zenon DEF LoadRecord
  <2> QED BY <1>4, <2>1 DEF LoadRecord, Start
<1>5. CASE SaveDone
  <2>1. kept' \in BOOLEAN
    BY <1>5, Zenon DEF SaveDone
  <2> QED BY <1>5, <2>1 DEF SaveDone
<1>6. CASE BootWritten \/ OffsetTaken \/ OffsetDone \/ ResetReturns
  BY <1>6 DEF BootWritten, OffsetTaken, OffsetDone, ResetReturns
<1>7. CASE TakeOffset \/ BeginSave \/ PersistQueue \/ TcpClear
  BY <1>7 DEF TakeOffset, BeginSave, PersistQueue, TcpClear, Start
<1>8. CASE SocReset \/ PowerLoss
  <2>1. LoseRAM
    BY <1>8 DEF SocReset, PowerLoss
  <2>2. kept' \in BOOLEAN /\ promised' \in BOOLEAN
    <3>1. kept' \in BOOLEAN
      BY <2>1, Zenon DEF LoseRAM
    <3>2. promised' \in BOOLEAN
      BY <1>8, Zenon DEF SocReset, PowerLoss
    <3> QED BY <3>1, <3>2
  <2> QED BY <2>1, <2>2 DEF LoseRAM, Losses
<1>9. CASE DeleteRecord
  BY <1>9 DEF DeleteRecord
<1>10. CASE UNCHANGED vars
  BY <1>10 DEF vars
<1> QED BY <1>1, <1>2, <1>3, <1>4, <1>5, <1>6, <1>7, <1>8, <1>9, <1>10 DEF Next

LEMMA StartTypes == Init => Types
<1> SUFFICES ASSUME Init PROVE Types
  OBVIOUS
<1>1. RecordTypes BY Records, Bounds DEF Init, RecordTypes
<1>2. OpTypes BY Records DEF Init, OpTypes
<1>3. PlaceTypes /\ RunTypes BY Bounds DEF Init, PlaceTypes, RunTypes, BootStates
<1>4. FlagTypes BY Zenon DEF Init, FlagTypes
<1> QED BY <1>1, <1>2, <1>3, <1>4 DEF Types

LEMMA StepTypes == Types /\ [Next]_vars => Types'
  BY RecordsTyped, OpsTyped, RunsTyped DEF Types

(* Every variable of the record has its type (TypeOK).                     *)
THEOREM TypeCorrect == Spec => []TypeOK
<1>1. Types => TypeOK
  BY DEF Types, RecordTypes, OpTypes, PlaceTypes, RunTypes, FlagTypes, TypeOK, File,
         OpRecord, OpPcs
<1> QED BY <1>1, StartTypes, StepTypes, PTL DEF Spec

-----------------------------------------------------------------------------
(* The cache, the file and the count *)

W == op["WEMAIN"]
C == op["TCPCLI"]

BusyStates == {"fresh", "consume", "taken", "save", "offset"}

\* Writes of the two tasks that do not race exclude each other by where
\* WEMAIN is.
PlaceInv ==
  /\ W.pc # "idle" <=> wpc \in BusyStates
  /\ C.pc # "idle" => wpc \in {"loop", "queue", "stabilize"}
  /\ wpc = "taken" => W.rec.offset = 0

\* A file deleted by a command is missed only by the next boot: TotalInv asks
\* for a count in the file only while there is one.
TotalInv ==
  /\ wpc = "load" /\ disk.state = "none" => saves = 0
  /\ disk.state = "whole" => disk.rec.total = saves
  /\ wpc \notin {"load", "save"} => cache.total = saves

\* What a write under way holds and what it leaves.
OpInv(o) ==
  /\ o.pc # "failed"
  /\ o.pc \in {"staged", "opened", "deleted"}
       => o.rec.total = IF wpc = "save" THEN saves + 1 ELSE saves
  /\ o.pc \in {"written", "ok"} => o.rec.total = saves /\ disk \in {Whole(o.rec), NoFile}
  /\ o.pc = "opened" => disk = Short
  /\ o.pc = "deleted" => disk = NoFile
  /\ o.pc = "ok" => cache = o.rec

DiskInv ==
  /\ wpc = "load" => disk.state # "short"
  /\ wpc \notin {"load", "fresh"} /\ W.pc \in {"idle", "staged"} /\ C.pc \in {"idle", "staged"}
       => disk \in {Whole(cache), NoFile}

CleanInv == PlaceInv /\ TotalInv /\ OpInv(W) /\ OpInv(C) /\ DiskInv
RecordInv == OnlyWiped => CleanInv

\* A mishap is never forgotten.
LEMMA MishapsGrow == [Next]_vars => mishaps \subseteq mishaps'
<1> SUFFICES ASSUME [Next]_vars PROVE mishaps \subseteq mishaps'
  OBVIOUS
<1> USE DEF Start, Fails, LoseRAM, Losses, ghostVars, fileVars
<1>1. ASSUME NEW a \in Tasks, Open(a) \/ Write(a) \/ CacheSet(a) PROVE mishaps \subseteq mishaps'
  BY <1>1 DEF Open, Write, CacheSet
<1>2. CASE LoadRecord BY <1>2 DEF LoadRecord
<1>3. CASE BootWritten \/ OffsetTaken \/ SaveDone \/ OffsetDone \/ ResetReturns
  BY <1>3 DEF BootWritten, OffsetTaken, SaveDone, OffsetDone, ResetReturns
<1>4. CASE TakeOffset \/ BeginSave \/ PersistQueue \/ TcpClear
  BY <1>4 DEF TakeOffset, BeginSave, PersistQueue, TcpClear
<1>5. CASE SocReset \/ PowerLoss BY <1>5 DEF SocReset, PowerLoss
<1>6. CASE DeleteRecord BY <1>6 DEF DeleteRecord
<1>7. CASE UNCHANGED vars BY <1>7 DEF vars
<1> QED BY <1>1, <1>2, <1>3, <1>4, <1>5, <1>6, <1>7 DEF Next

\* The steps of a write, for the task that makes it; the other one is idle.
LEMMA WriteSteps ==
  ASSUME Types, CleanInv, OnlyWiped', NEW a \in Tasks,
         Open(a) \/ Write(a) \/ CacheSet(a)
  PROVE  CleanInv'
<1> USE DEF CleanInv, PlaceInv, TotalInv, OpInv, DiskInv, W, C, BusyStates
<1>0. OpTypes /\ "WEMAIN" \in Tasks /\ "TCPCLI" \in Tasks /\ a \in {"WEMAIN", "TCPCLI"}
  BY DEF Types, Tasks
<1>1. \A b \in Tasks : op[b].rec \in Record /\ op[b].pc \in OpPcs
  BY <1>0 DEF OpTypes, OpRecord
<1>2. \A r \in Record : Whole(r).state = "whole" /\ Whole(r).rec = r
  BY DEF Whole
<1>3. /\ Short.state = "short" /\ NoFile.state = "none"
      /\ \A r \in Record : Whole(r) # NoFile /\ Short # NoFile
  BY DEF Short, NoFile, Whole
<1>4. CASE Open(a)
  <2>1. SetPc(a, "opened") /\ disk' = Short /\ op[a].pc = "staged"
        /\ UNCHANGED <<cache, wpc, saves>>
    BY <1>4 DEF Open, Fails, OnlyWiped
  <2>2. op'[a].pc = "opened" /\ op'[a].rec = op[a].rec /\ \A b \in Tasks \ {a} : op'[b] = op[b]
    BY <1>0, <2>1, SetPcTyped DEF OpPcs
  <2>3. CASE a = "WEMAIN"
    <3>1. C.pc = "idle" /\ C' = C /\ W'.pc = "opened" /\ W'.rec = W.rec /\ wpc \in BusyStates
      BY <1>0, <2>1, <2>2, <2>3
    <3> QED BY <2>1, <2>3, <3>1, <1>3
  <2>4. CASE a = "TCPCLI"
    <3>1. W.pc = "idle" /\ W' = W /\ C'.pc = "opened" /\ C'.rec = C.rec
      BY <1>0, <2>1, <2>2, <2>4
    <3> QED BY <2>1, <2>4, <3>1, <1>3
  <2> QED BY <1>0, <2>3, <2>4
<1>5. CASE Write(a)
  <2>1. SetPc(a, "written") /\ disk' \in Filled(a) /\ op[a].pc \in {"opened", "deleted"}
        /\ UNCHANGED <<cache, wpc, mishaps>>
    BY <1>5 DEF Write, Fails, OnlyWiped
  <2>2. op'[a].pc = "written" /\ op'[a].rec = op[a].rec /\ \A b \in Tasks \ {a} : op'[b] = op[b]
    BY <1>0, <2>1, SetPcTyped DEF OpPcs
  <2>3. saves' = IF a = "WEMAIN" /\ wpc = "save" THEN saves + 1 ELSE saves
    BY <1>5, <2>2 DEF Write
  <2>4. \/ disk' = Whole(op[a].rec) /\ disk'.state = "whole" /\ disk'.rec = op[a].rec
        \/ disk' = NoFile /\ disk = NoFile /\ op[a].pc = "deleted"
    BY <1>0, <1>1, <1>2, <2>1 DEF Filled
  <2>5. CASE a = "WEMAIN"
    <3>1. C.pc = "idle" /\ C' = C /\ W'.pc = "written" /\ W'.rec = W.rec
      BY <1>0, <2>1, <2>2, <2>5
    <3>2. W.rec.total = IF wpc = "save" THEN saves + 1 ELSE saves
      BY <2>1, <2>5
    <3>3. saves' = W.rec.total /\ saves \in Nat
      BY <2>3, <2>5, <3>2 DEF Types, RunTypes
    <3>4. PlaceInv' /\ OpInv(C)' /\ DiskInv'
      BY <2>1, <2>4, <2>5, <3>1
    <3>5. OpInv(W)'
      BY <2>1, <2>4, <2>5, <3>1, <3>3
    <3>6. TotalInv'
      <4>1. wpc \in BusyStates /\ wpc # "load"
        BY <2>1, <2>5
      <4>2. disk'.state = "whole" => disk'.rec.total = saves'
        BY <1>3, <2>4, <2>5, <3>3
      <4>3. wpc \notin {"load", "save"} => cache.total = saves /\ saves' = saves
        BY <2>3
      <4> QED BY <2>1, <4>1, <4>2, <4>3
    <3> QED BY <3>4, <3>5, <3>6
  <2>6. CASE a = "TCPCLI"
    <3>1. W.pc = "idle" /\ W' = W /\ C'.pc = "written" /\ C'.rec = C.rec /\ wpc # "save"
      BY <1>0, <2>1, <2>2, <2>6
    <3>2. C.rec.total = saves /\ saves' = saves
      BY <2>1, <2>3, <2>6, <3>1
    <3> QED BY <2>1, <2>4, <2>6, <3>1, <3>2
  <2> QED BY <1>0, <2>5, <2>6
<1>6. CASE CacheSet(a)
  <2>1. End(a, "ok") /\ cache' = op[a].rec /\ op[a].pc = "written"
        /\ UNCHANGED <<disk, wpc, saves>>
    BY <1>6 DEF CacheSet, ghostVars
  <2>2. disk \in {Whole(op[a].rec), NoFile} /\ op[a].rec.total = saves
    BY <1>0, <2>1
  <2>3. CASE a = "WEMAIN"
    <3>1. C.pc = "idle" /\ C' = C /\ W'.pc = "ok" /\ W'.rec = W.rec
      BY <1>0, <2>1, <2>3, EndTyped DEF OpPcs
    <3> QED BY <2>1, <2>2, <2>3, <3>1
  <2>4. CASE a = "TCPCLI"
    <3>1. W.pc = "idle" /\ W' = W /\ C'.pc = "idle"
      BY <1>0, <2>1, <2>4, EndTyped DEF OpPcs
    <3> QED BY <2>1, <2>2, <2>4, <3>1
  <2> QED BY <1>0, <2>3, <2>4
<1> QED BY <1>4, <1>5, <1>6

LEMMA BootSteps ==
  ASSUME Types, CleanInv, OnlyWiped',
         LoadRecord \/ BootWritten \/ TakeOffset \/ OffsetTaken
  PROVE  CleanInv'
<1> USE DEF CleanInv, PlaceInv, TotalInv, OpInv, DiskInv, W, C, BusyStates
<1>0. OpTypes /\ "WEMAIN" \in Tasks /\ "TCPCLI" \in Tasks /\ "TCPCLI" \in Tasks \ {"WEMAIN"}
  BY DEF Types, Tasks
<1>1. disk \in File /\ disk.rec \in Record /\ cache \in Record /\ op["WEMAIN"].rec \in Record
  BY <1>0 DEF Types, RecordTypes, File, OpTypes, OpRecord
<1>2. disk.state = "whole" => disk = Whole(disk.rec)
  BY <1>1 DEF File, Whole
<1>3. CASE LoadRecord
  <2>1. wpc = "load" /\ saves' = saves /\ C.pc = "idle" /\ W.pc = "idle" /\ disk.state # "short"
    BY <1>3 DEF LoadRecord
  <2>2. CASE Readable /\ disk.rec.slot = 0 /\ wpc' = "take" /\ op' = op
             /\ cache' = disk.rec /\ disk' = disk
    <3>1. disk = Whole(disk.rec) /\ disk.rec.total = saves
      BY <1>2, <2>2 DEF Readable
    <3> QED BY <2>1, <2>2, <3>1
  <2>3. CASE Readable /\ wpc' = "consume" /\ Start("WEMAIN", Consumed(disk.rec))
             /\ cache' = disk.rec /\ disk' = disk
    <3>1. disk = Whole(disk.rec) /\ disk.rec.total = saves
      BY <1>2, <2>3 DEF Readable
    <3>2. Consumed(disk.rec) \in Record /\ Consumed(disk.rec).total = disk.rec.total
      BY <1>1, Changes DEF Consumed, Record
    <3>3. W'.pc = "staged" /\ W'.rec = Consumed(disk.rec) /\ C' = C
      BY <1>0, <2>3, <3>2, StartTyped
    <3> QED BY <2>1, <2>3, <3>1, <3>2, <3>3
  <2>4. CASE ~Readable /\ wpc' = "fresh" /\ cache' = EmptyRecord /\ disk' \in {disk, NoFile}
             /\ op' = [op EXCEPT !["WEMAIN"] = [pc |-> "staged", rec |-> EmptyRecord]]
    <3>1. disk.state = "none" /\ disk'.state = "none" /\ saves = 0
      BY <1>1, <2>1, <2>4 DEF Readable, File, NoFile
    <3>2. W'.pc = "staged" /\ W'.rec = EmptyRecord /\ C' = C /\ EmptyRecord.total = 0
      BY <1>0, <2>4 DEF OpTypes, EmptyRecord
    <3> QED BY <2>1, <2>4, <3>1, <3>2
  <2>5. wpc' = "fresh" => ~Readable
    BY <1>3 DEF LoadRecord, OnlyWiped
  <2> QED BY <1>3, <2>2, <2>3, <2>4, <2>5 DEF LoadRecord
<1>4. CASE BootWritten
  <2>1. wpc \in {"fresh", "consume"} /\ Returns("WEMAIN") /\ wpc' = "take"
        /\ UNCHANGED <<disk, cache, saves>>
    BY <1>4 DEF BootWritten, fileVars, ghostVars
  <2>2. W.pc = "ok" /\ W'.pc = "idle" /\ C' = C /\ C.pc = "idle"
    BY <1>0, <2>1, ReturnsTyped DEF Returns
  <2>3. disk \in {Whole(cache), NoFile}
    BY <2>2
  <2> QED BY <2>1, <2>2, <2>3
<1>5. CASE TakeOffset
  <2>1. wpc = "take" /\ UNCHANGED <<disk, cache, saves>> /\ W.pc = "idle" /\ C.pc = "idle"
    BY <1>5 DEF TakeOffset, fileVars
  <2>2. CASE wpc' = "loop" /\ op' = op
    BY <2>1, <2>2
  <2>3. CASE wpc' = "taken" /\ Start("WEMAIN", [cache EXCEPT !.offset = 0])
    <3>1. [cache EXCEPT !.offset = 0] \in Record /\ [cache EXCEPT !.offset = 0].offset = 0
          /\ [cache EXCEPT !.offset = 0].total = cache.total
      BY <1>1, Bounds, Changes DEF Record
    <3>2. W'.pc = "staged" /\ W'.rec = [cache EXCEPT !.offset = 0] /\ C' = C
      BY <1>0, <2>3, <3>1, StartTyped
    <3> QED BY <2>1, <2>3, <3>1, <3>2
  <2> QED BY <1>5, <2>2, <2>3 DEF TakeOffset
<1>6. CASE OffsetTaken
  <2>1. wpc = "taken" /\ Returns("WEMAIN") /\ wpc' = "loop" /\ cache' = [cache EXCEPT !.offset = 0]
        /\ UNCHANGED <<disk, saves>>
    BY <1>6 DEF OffsetTaken, ghostVars
  <2>2. W.pc = "ok" /\ W'.pc = "idle" /\ C' = C /\ C.pc = "idle"
    BY <1>0, <2>1, ReturnsTyped DEF Returns
  <2>3. cache = W.rec /\ cache.offset = 0 /\ disk \in {Whole(cache), NoFile}
    BY <2>1, <2>2
  <2>4. cache' = cache
    BY <1>1, <2>1, <2>3 DEF Record
  <2> QED BY <2>1, <2>2, <2>3, <2>4
<1> QED BY <1>3, <1>4, <1>5, <1>6

LEMMA ResetSteps ==
  ASSUME Types, CleanInv, OnlyWiped',
         BeginSave \/ SaveDone \/ PersistQueue \/ OffsetDone \/ ResetReturns \/ TcpClear
         \/ DeleteRecord \/ SocReset \/ PowerLoss
  PROVE  CleanInv'
<1> USE DEF CleanInv, PlaceInv, TotalInv, OpInv, DiskInv, W, C, BusyStates
<1>0. OpTypes /\ "WEMAIN" \in Tasks /\ "TCPCLI" \in Tasks /\ "TCPCLI" \in Tasks \ {"WEMAIN"}
      /\ "WEMAIN" \in Tasks \ {"TCPCLI"}
  BY DEF Types, Tasks
<1>1. cache \in Record /\ run \in 1..MaxBoots
  BY DEF Types, RecordTypes, RunTypes
<1>2. ASSUME NEW n \in 0..MaxBoots
      PROVE  [cache EXCEPT !.offset = n] \in Record /\ [cache EXCEPT !.offset = n].total = cache.total
  BY <1>1, Changes DEF Record
<1>3. CASE BeginSave
  <2>1. wpc = "loop" /\ Start("WEMAIN", SavedRecord(cache)) /\ wpc' = "save"
        /\ UNCHANGED <<disk, cache, saves>>
    BY <1>3 DEF BeginSave, fileVars
  <2>2. W'.pc = "staged" /\ W'.rec = SavedRecord(cache) /\ C' = C
        /\ op[Other("WEMAIN")].pc = "idle"
    <3>1. SavedRecord(cache) \in Record
      BY <1>1, Changes
    <3> QED BY <1>0, <2>1, <3>1, StartTyped
  <2>3. W.pc = "idle" /\ C.pc = "idle"
    BY <2>1, <2>2, Others
  <2>4. SavedRecord(cache).total = saves + 1
    BY <2>1 DEF SavedRecord
  <2> QED BY <2>1, <2>2, <2>3, <2>4
<1>4. CASE SaveDone
  <2>1. wpc = "save" /\ Returns("WEMAIN") /\ wpc' = "queue" /\ UNCHANGED <<disk, cache, saves>>
    BY <1>4 DEF SaveDone, fileVars
  <2>2. W.pc = "ok" /\ W'.pc = "idle" /\ C' = C /\ C.pc = "idle"
    BY <1>0, <2>1, ReturnsTyped DEF Returns
  <2>3. disk \in {Whole(cache), NoFile} /\ cache.total = saves
    BY <2>2
  <2> QED BY <2>1, <2>2, <2>3
<1>5. CASE PersistQueue
  <2>1. wpc = "queue" /\ UNCHANGED <<disk, cache, saves>> /\ W.pc = "idle"
    BY <1>5 DEF PersistQueue, fileVars
  <2>2. CASE wpc' = "stabilize" /\ op' = op
    BY <2>1, <2>2
  <2>3. CASE wpc' = "offset" /\ \E n \in {0, run} : Start("WEMAIN", [cache EXCEPT !.offset = n])
    <3>1. PICK n \in {0, run} : Start("WEMAIN", [cache EXCEPT !.offset = n])
      BY <2>3
    <3>2. n \in 0..MaxBoots
      BY <1>1, Bounds
    <3>3. W'.pc = "staged" /\ W'.rec = [cache EXCEPT !.offset = n] /\ C' = C
          /\ op[Other("WEMAIN")].pc = "idle"
      BY <1>0, <1>2, <3>1, <3>2, StartTyped
    <3>4. C.pc = "idle"
      BY <3>3, Others
    <3>5. W'.rec.total = saves
      BY <1>2, <2>1, <3>2, <3>3
    <3> QED BY <2>1, <2>3, <3>3, <3>4, <3>5
  <2> QED BY <1>5, <2>2, <2>3 DEF PersistQueue
<1>6. CASE OffsetDone
  <2>1. wpc = "offset" /\ Returns("WEMAIN") /\ wpc' = "stabilize"
        /\ UNCHANGED <<disk, cache, saves>>
    BY <1>6 DEF OffsetDone, fileVars, ghostVars
  <2>2. W.pc = "ok" /\ W'.pc = "idle" /\ C' = C /\ C.pc = "idle"
    BY <1>0, <2>1, ReturnsTyped DEF Returns
  <2> QED BY <2>1, <2>2
<1>7. CASE ResetReturns
  BY <1>7 DEF ResetReturns, fileVars, ghostVars
<1>8. CASE TcpClear
  <2>1. Up /\ C.pc = "idle" /\ Start("TCPCLI", [cache EXCEPT !.offset = 0])
        /\ UNCHANGED <<disk, cache, wpc, saves>>
    BY <1>8 DEF TcpClear, fileVars
  <2>2. C'.pc = "staged" /\ C'.rec = [cache EXCEPT !.offset = 0] /\ W' = W
        /\ op[Other("TCPCLI")].pc = "idle"
    BY <1>0, <1>2, <2>1, Bounds, StartTyped
  <2>3. W.pc = "idle" /\ wpc \in {"loop", "queue", "stabilize"}
    <3>1. W.pc = "idle"
      BY <2>2, Others
    <3> QED BY <2>1, <3>1 DEF Up, BootStates, Types, PlaceTypes
  <2>4. C'.rec.total = saves
    BY <1>2, <2>2, <2>3, Bounds
  <2> QED BY <2>1, <2>2, <2>3, <2>4
<1>9. CASE SocReset \/ PowerLoss
  <2>1. LoseRAM
    BY <1>9 DEF SocReset, PowerLoss
  <2>2. wpc' = "load" /\ W'.pc = "idle" /\ C'.pc = "idle" /\ UNCHANGED <<disk, saves>>
    BY <1>0, <2>1, IdleTyped DEF LoseRAM
  <2>3. disk.state # "short" /\ (disk.state = "none" => saves = 0)
    <3>1. Losses \subseteq {"wiped"}
      BY <2>1 DEF LoseRAM, OnlyWiped
    <3>2. disk.state # "short" /\ ~(disk.state = "none" /\ saves > 0)
      BY <3>1 DEF Losses
    <3> QED BY <3>2 DEF Types, RunTypes
  <2> QED BY <2>2, <2>3
<1>10. CASE DeleteRecord
  <2>1. disk' = NoFile /\ UNCHANGED <<cache, wpc, saves>> /\ "wiped" \in mishaps' /\ Up
    BY <1>10 DEF DeleteRecord
  <2>2. ASSUME NEW a \in Tasks
        PROVE  /\ op'[a].rec = op[a].rec
               /\ op'[a].pc = IF op[a].pc = "opened" THEN "deleted" ELSE op[a].pc
    BY <1>10, DeleteTyped
  <2>3. PlaceInv' /\ OpInv(W)' /\ OpInv(C)'
    BY <1>0, <2>1, <2>2
  <2> QED BY <2>1, <2>3 DEF NoFile, Up, BootStates
<1> QED BY <1>3, <1>4, <1>5, <1>6, <1>7, <1>8, <1>9, <1>10

LEMMA RecordStep == Types /\ RecordInv /\ [Next]_vars => RecordInv'
<1> SUFFICES ASSUME Types, RecordInv, [Next]_vars, OnlyWiped' PROVE CleanInv'
  BY DEF RecordInv
<1>1. CleanInv
  BY MishapsGrow DEF RecordInv, OnlyWiped
<1>2. CASE UNCHANGED vars
  BY <1>1, <1>2 DEF vars, fileVars, ghostVars, CleanInv, PlaceInv, TotalInv, OpInv, DiskInv, W, C
<1> QED BY <1>1, <1>2, WriteSteps, BootSteps, ResetSteps DEF Next

LEMMA RecordStart == Init => RecordInv
  BY DEF Init, RecordInv, CleanInv, PlaceInv, TotalInv, OpInv, DiskInv, W, C, BusyStates,
         NoFile, Idle, Tasks

LEMMA RecordAlways == Spec => [](Types /\ RecordInv)
  BY StartTypes, StepTypes, RecordStart, RecordStep, PTL DEF Spec

\* Once the boot has opened it the file is there, until a command deletes it.
GoneInv ==
  disk = NoFile => \/ wpc = "load" \/ (wpc = "fresh" /\ W.pc = "staged")
                   \/ "wiped" \in mishaps \/ "failed" \in mishaps

LEMMA GoneStep == Types /\ GoneInv /\ [Next]_vars => GoneInv'
<1> SUFFICES ASSUME Types, GoneInv, [Next]_vars,
                    disk' = NoFile, "wiped" \notin mishaps', "failed" \notin mishaps'
             PROVE  wpc' = "load" \/ (wpc' = "fresh" /\ W'.pc = "staged")
  BY DEF GoneInv
<1>0. OpTypes /\ "WEMAIN" \in Tasks
  BY DEF Types, Tasks
<1>1. disk = NoFile => wpc = "load" \/ (wpc = "fresh" /\ W.pc = "staged")
  BY MishapsGrow DEF GoneInv
<1>2. ASSUME NEW a \in Tasks, Open(a) \/ Write(a) \/ CacheSet(a)
      PROVE  wpc' = "load" \/ (wpc' = "fresh" /\ W'.pc = "staged")
  <2>1. op[a].pc \in {"opened", "deleted", "written"} /\ disk = NoFile /\ wpc' = wpc
        /\ (SetPc(a, "written") \/ End(a, "ok"))
    BY <1>2 DEF Open, Write, CacheSet, Fails, Filled, Whole, Short, NoFile, fileVars
  <2>2. \A b \in Tasks \ {a} : op'[b] = op[b]
    BY <1>0, <2>1, SetPcTyped, EndTyped DEF OpPcs
  <2> QED BY <1>0, <1>1, <2>1, <2>2 DEF W
<1>3. CASE LoadRecord
  <2>1. CASE wpc' = "fresh"
    <3>1. op' = [op EXCEPT !["WEMAIN"] = [pc |-> "staged", rec |-> EmptyRecord]]
      BY <1>3, <2>1 DEF LoadRecord
    <3> QED BY <1>0, <2>1, <3>1 DEF OpTypes, W
  <2>2. CASE wpc' # "fresh"
    <3>1. disk.state = "whole" /\ disk' = disk
      BY <1>3, <2>2 DEF LoadRecord, Readable
    <3> QED BY <3>1 DEF NoFile
  <2> QED BY <2>1, <2>2
<1>4. CASE BootWritten
  BY <1>1, <1>4 DEF BootWritten, Returns, fileVars, W
<1>5. CASE SocReset \/ PowerLoss
  BY <1>5 DEF SocReset, PowerLoss, LoseRAM
<1>6. CASE DeleteRecord
  BY <1>6 DEF DeleteRecord
<1>7. CASE UNCHANGED <<disk, wpc, op>>
  BY <1>1, <1>7 DEF W
<1>8. CASE disk' = disk /\ wpc \notin {"load", "fresh"}
  BY <1>1, <1>8
<1>9. CASE TcpClear
  BY <1>1, <1>9 DEF TcpClear, fileVars, Up, BootStates
<1> QED BY <1>2, <1>3, <1>4, <1>5, <1>6, <1>7, <1>8, <1>9
        DEF Next, vars, fileVars, TakeOffset, OffsetTaken, BeginSave, SaveDone, PersistQueue,
            OffsetDone, ResetReturns

LEMMA GoneAlways == Spec => []GoneInv
<1>1. Init => GoneInv
  BY DEF Init, GoneInv
<1> QED BY <1>1, StartTypes, StepTypes, GoneStep, PTL DEF Spec

(* When neither task is writing and no write has failed, been torn or      *)
(* overlapped another, the cache and the file agree, unless a command has  *)
(* deleted the file (CacheIsDisk).                                         *)
THEOREM CacheFollowsDisk == Spec => []CacheIsDisk
<1>1. Types /\ RecordInv /\ GoneInv => CacheIsDisk
  BY DEF RecordInv, OnlyWiped, CleanInv, PlaceInv, DiskInv, GoneInv, CacheIsDisk, Up, BootStates,
         BusyStates, Tasks, W, C
<1> QED BY <1>1, RecordAlways, GoneAlways, PTL

(* ... and total_resets is the number of planned resets that were written, *)
(* over all runs, also after deletions of the file, as long as no run ends *)
(* without one (TotalCountsSaves).                                         *)
THEOREM TotalsCount == Spec => []TotalCountsSaves
<1>1. Types /\ RecordInv => TotalCountsSaves
  BY DEF RecordInv, OnlyWiped, CleanInv, TotalInv, TotalCountsSaves, Up, BootStates
<1> QED BY <1>1, RecordAlways, PTL
-----------------------------------------------------------------------------
(* What the boot reports *)

\* A write is under way only where a task has called for one.
WhereInv ==
  /\ W.pc # "idle" <=> wpc \in BusyStates
  /\ C.pc # "idle" => Up
  /\ W.pc = "deleted" => Up

SlotIn(r, S) == r.slot \in S
DiskSlotIn(S) == disk.state = "whole" => SlotIn(disk.rec, S)

\* The slot of every copy of the record is the one of the last run that came
\* to its main loop, until this run has consumed it; from then on it is the
\* one of this run or empty.
News ==
  /\ W.pc # "failed" /\ C.pc # "failed"
  /\ prior \in {0, lastUp}
  /\ wpc \in {"load", "fresh", "consume"} => DiskSlotIn({0, lastUp})
  /\ wpc \in {"fresh", "consume", "taken"} => SlotIn(W.rec, {0})
  /\ wpc \in {"fresh", "consume"} /\ W.pc \in {"written", "ok"} => disk = Whole(W.rec)
  /\ wpc \in {"fresh", "consume"} /\ W.pc = "ok" => SlotIn(cache, {0})
  /\ wpc \in {"take", "taken"} => SlotIn(cache, {0}) /\ DiskSlotIn({0})
  /\ Up => /\ SlotIn(cache, {0, run}) /\ DiskSlotIn({0, run})
           /\ W.pc # "idle" => SlotIn(W.rec, {0, run})
           /\ C.pc # "idle" => SlotIn(C.rec, {0, run})
NewsInv == "failed" \notin mishaps => News

\* Once written, the slot of this run stays in every copy of the record, but
\* while the file is empty between the open and the write; a deletion takes
\* kept back.
KeptSlot ==
  /\ SlotIn(cache, {run})
  /\ W.pc # "idle" => SlotIn(W.rec, {run})
  /\ C.pc # "idle" => SlotIn(C.rec, {run})
  /\ W.pc # "deleted" /\ C.pc # "deleted"
  /\ W.pc # "opened" /\ C.pc # "opened" => disk.state = "whole" /\ SlotIn(disk.rec, {run})

\* A save of WEMAIN that no write of TCPCLI overlaps.
Saving ==
  /\ SlotIn(W.rec, {run})
  /\ W.pc = "deleted" => disk = NoFile
  /\ W.pc \in {"written", "ok"} => disk \in {Whole(W.rec), NoFile}
  /\ W.pc = "ok" => cache = W.rec

Alone ==
  /\ W.pc = "idle" \/ C.pc = "idle"
  /\ wpc = "save" => Saving
  /\ kept => KeptSlot

PromiseInv ==
  /\ kept => Up
  /\ promised /\ wpc = "load" => disk.state = "whole" /\ disk.rec.slot = lastUp
  /\ promised /\ wpc # "load" => prior = lastUp

KeptInv == PromiseInv /\ ("raced" \notin mishaps => Alone)

LEMMA TasksOf ==
  /\ "WEMAIN" \in Tasks /\ "TCPCLI" \in Tasks /\ \A a \in Tasks : a = "WEMAIN" \/ a = "TCPCLI"
  /\ "TCPCLI" \in Tasks \ {"WEMAIN"} /\ "WEMAIN" \in Tasks \ {"TCPCLI"}
  BY DEF Tasks

LEMMA StartAlone ==
  ASSUME NEW a \in Tasks, NEW r, Start(a, r), "raced" \notin mishaps'
  PROVE  op[Other(a)].pc = "idle"
  BY DEF Start

\* What one step of a write leaves, by its outcome.
Opened(a) == op'[a].pc = "opened" /\ op'[a].rec = op[a].rec /\ disk' = Short /\ cache' = cache
Written(a) ==
  /\ op[a].pc \in {"opened", "deleted"} /\ op'[a].pc = "written" /\ op'[a].rec = op[a].rec
  /\ disk' = Whole(op[a].rec) \/ (op[a].pc = "deleted" /\ disk' = disk)
  /\ cache' = cache
Cached(a) ==
  /\ op[a].pc = "written" /\ disk' = disk /\ cache' = op[a].rec
  /\ a = "TCPCLI" => op'[a].pc = "idle"
  /\ a # "TCPCLI" => op'[a].pc = "ok" /\ op'[a].rec = op[a].rec
Failed(a) ==
  /\ "failed" \in mishaps' /\ kept' = FALSE
  /\ a = "TCPCLI" => op'[a].pc = "idle"
  /\ a # "TCPCLI" => op'[a].pc = "failed" /\ op'[a].rec = op[a].rec

LEMMA WriteOutcomes ==
  ASSUME Types, NEW a \in Tasks, Open(a) \/ Write(a) \/ CacheSet(a)
  PROVE  /\ op[a].pc \in {"staged", "opened", "deleted", "written"}
         /\ \A b \in Tasks \ {a} : op'[b] = op[b]
         /\ UNCHANGED <<prior, wpc, run, promised, lastUp>>
         /\ \/ (Opened(a) \/ Written(a) \/ Cached(a)) /\ kept' = kept
            \/ Failed(a)
<1>0. OpTypes
  BY DEF Types
<1>1. CASE Open(a)
  <2>1. op[a].pc = "staged" /\ UNCHANGED <<cache, prior, wpc, run, promised, lastUp>>
    BY <1>1 DEF Open
  <2>2. CASE SetPc(a, "opened") /\ disk' = Short /\ kept' = kept
    BY <1>0, <2>1, <2>2, SetPcTyped DEF OpPcs, Opened
  <2>3. CASE Fails(a)
    BY <1>0, <2>1, <2>3, EndTyped DEF OpPcs, Fails, Failed
  <2> QED BY <1>1, <2>2, <2>3 DEF Open
<1>2. CASE Write(a)
  <2>1. /\ op[a].pc \in {"opened", "deleted"}
        /\ UNCHANGED <<cache, prior, wpc, run, promised, lastUp>>
    BY <1>2 DEF Write
  <2>2. CASE SetPc(a, "written") /\ disk' \in Filled(a) /\ kept' = kept
    BY <1>0, <2>1, <2>2, SetPcTyped DEF OpPcs, Written, Filled
  <2>3. CASE Fails(a)
    BY <1>0, <2>1, <2>3, EndTyped DEF OpPcs, Fails, Failed
  <2> QED BY <1>2, <2>2, <2>3 DEF Write
<1>3. CASE CacheSet(a)
  <2>1. /\ op[a].pc = "written" /\ End(a, "ok") /\ cache' = op[a].rec
        /\ UNCHANGED <<disk, prior, wpc, run, kept, promised, lastUp>>
    BY <1>3 DEF CacheSet, ghostVars
  <2> QED BY <1>0, <2>1, EndTyped DEF OpPcs, Cached
<1> QED BY <1>1, <1>2, <1>3

\* Where WEMAIN calls for a write and where it takes the result.
LEMMA BootPlaces ==
  ASSUME Types, WhereInv, LoadRecord \/ BootWritten \/ TakeOffset \/ OffsetTaken
  PROVE  WhereInv' /\ C.pc = "idle" /\ C' = C /\ ~Up
<1> USE TasksOf DEF WhereInv, BusyStates, Up, BootStates, W, C
<1>0. OpTypes /\ cache \in Record /\ disk.rec \in Record
  BY DEF Types, RecordTypes, File
<1>1. CASE LoadRecord
  <2>1. wpc = "load" /\ C.pc = "idle" /\ W.pc = "idle"
    BY <1>1 DEF LoadRecord
  <2>2. \/ wpc' = "take" /\ op' = op
        \/ wpc' = "consume" /\ Start("WEMAIN", Consumed(disk.rec))
        \/ wpc' = "fresh" /\ op' = [op EXCEPT !["WEMAIN"] = [pc |-> "staged", rec |-> EmptyRecord]]
    BY <1>1 DEF LoadRecord
  <2>3. Consumed(disk.rec) \in Record
    BY <1>0, Changes DEF Consumed
  <2>4. C' = C /\ (wpc' = "take" => W' = W) /\ (wpc' # "take" => W'.pc = "staged")
    BY <1>0, <2>2, <2>3, StartTyped DEF OpTypes
  <2> QED BY <2>1, <2>2, <2>4
<1>2. CASE BootWritten
  BY <1>0, <1>2, ReturnsTyped DEF BootWritten
<1>3. CASE TakeOffset
  <2>1. wpc = "take" /\ C.pc = "idle" /\ W.pc = "idle"
    BY <1>3 DEF TakeOffset
  <2>2. [cache EXCEPT !.offset = 0] \in Record
    BY <1>0, Bounds, Changes
  <2>3. \/ wpc' = "loop" /\ op' = op
        \/ wpc' = "taken" /\ Start("WEMAIN", [cache EXCEPT !.offset = 0])
    BY <1>3 DEF TakeOffset
  <2>4. C' = C /\ (wpc' = "loop" => W' = W) /\ (wpc' # "loop" => W'.pc = "staged")
    BY <1>0, <2>2, <2>3, StartTyped
  <2> QED BY <2>1, <2>3, <2>4
<1>4. CASE OffsetTaken
  BY <1>0, <1>4, ReturnsTyped DEF OffsetTaken
<1> QED BY <1>1, <1>2, <1>3, <1>4

LEMMA ResetPlaces ==
  ASSUME Types, WhereInv, BeginSave \/ SaveDone \/ PersistQueue \/ OffsetDone \/ ResetReturns
  PROVE  WhereInv' /\ Up /\ Up' /\ C' = C
<1> USE TasksOf DEF WhereInv, BusyStates, Up, BootStates, W, C
<1>0. OpTypes /\ cache \in Record /\ run \in 1..MaxBoots /\ 0 \in 0..MaxBoots /\ run \in 0..MaxBoots
  BY Bounds DEF Types, RecordTypes, RunTypes
<1>1. CASE BeginSave
  <2>1. Start("WEMAIN", SavedRecord(cache)) /\ SavedRecord(cache) \in Record
    BY <1>0, <1>1, Changes DEF BeginSave
  <2>2. C' = C /\ W'.pc = "staged"
    BY <1>0, <2>1, StartTyped
  <2> QED BY <1>1, <2>2 DEF BeginSave
<1>2. CASE SaveDone \/ OffsetDone
  BY <1>0, <1>2, ReturnsTyped DEF SaveDone, OffsetDone
<1>3. CASE PersistQueue
  <2>1. CASE wpc' = "stabilize" /\ op' = op
    BY <1>3, <2>1 DEF PersistQueue
  <2>2. CASE wpc' = "offset" /\ \E n \in {0, run} : Start("WEMAIN", [cache EXCEPT !.offset = n])
    <3>1. PICK n \in {0, run} : Start("WEMAIN", [cache EXCEPT !.offset = n])
      BY <2>2
    <3>2. [cache EXCEPT !.offset = n] \in Record
      BY <1>0, <3>1, Changes
    <3>3. C' = C /\ W'.pc = "staged"
      BY <1>0, <3>1, <3>2, StartTyped
    <3> QED BY <1>3, <2>2, <3>3 DEF PersistQueue
  <2> QED BY <1>3, <2>1, <2>2 DEF PersistQueue
<1>4. CASE ResetReturns
  BY <1>4 DEF ResetReturns
<1> QED BY <1>1, <1>2, <1>3, <1>4

LEMMA TcpPlaces ==
  ASSUME Types, WhereInv, TcpClear
  PROVE  /\ WhereInv' /\ W' = W /\ Up
         /\ C'.pc = "staged" /\ C'.rec.slot = cache.slot /\ W.pc \in OpPcs
<1>0. OpTypes /\ cache \in Record /\ W.pc \in OpPcs
  BY TasksOf DEF Types, RecordTypes, OpTypes, OpRecord, W
<1>1. Start("TCPCLI", [cache EXCEPT !.offset = 0]) /\ Up /\ wpc' = wpc
  BY DEF TcpClear
<1>2. [cache EXCEPT !.offset = 0] \in Record /\ [cache EXCEPT !.offset = 0].slot = cache.slot
  BY <1>0, Bounds, Changes DEF Record
<1>3. W' = W /\ C'.pc = "staged" /\ C'.rec = [cache EXCEPT !.offset = 0]
  BY <1>0, <1>1, <1>2, StartTyped, TasksOf DEF W, C
<1> QED BY <1>0, <1>1, <1>2, <1>3 DEF WhereInv, Up

LEMMA DeletePlaces ==
  ASSUME Types, WhereInv, DeleteRecord
  PROVE  /\ WhereInv' /\ Up /\ UNCHANGED <<cache, prior, wpc, run, promised, lastUp>>
         /\ disk' = NoFile /\ kept' = FALSE
         /\ \A a \in Tasks :
              /\ op'[a].rec = op[a].rec
              /\ op'[a].pc = IF op[a].pc = "opened" THEN "deleted" ELSE op[a].pc
<1>1. /\ Up /\ disk' = NoFile /\ kept' = FALSE
      /\ UNCHANGED <<cache, prior, wpc, run, promised, lastUp>>
  BY DEF DeleteRecord
<1>2. /\ W'.pc = IF W.pc = "opened" THEN "deleted" ELSE W.pc
      /\ C'.pc = IF C.pc = "opened" THEN "deleted" ELSE C.pc
  BY DeleteTyped, TasksOf DEF W, C
<1>3. WhereInv'
  BY <1>1, <1>2 DEF WhereInv, Up
<1> QED BY <1>1, <1>3, DeleteTyped

LEMMA LossPlaces ==
  ASSUME SocReset \/ PowerLoss
  PROVE  WhereInv' /\ wpc' = "load" /\ W'.pc = "idle" /\ C'.pc = "idle" /\ LoseRAM
<1>1. LoseRAM
  BY DEF SocReset, PowerLoss
<1>2. wpc' = "load" /\ W'.pc = "idle" /\ C'.pc = "idle"
  BY <1>1, IdleTyped, TasksOf DEF LoseRAM, W, C
<1> QED BY <1>1, <1>2 DEF WhereInv, BusyStates

LEMMA WhereStep == Types /\ WhereInv /\ [Next]_vars => WhereInv'
<1> SUFFICES ASSUME Types, WhereInv, [Next]_vars PROVE WhereInv'
  OBVIOUS
<1>1. ASSUME NEW a \in Tasks, Open(a) \/ Write(a) \/ CacheSet(a) PROVE WhereInv'
  <2>1. /\ op[a].pc \in {"staged", "opened", "deleted", "written"} /\ wpc' = wpc
        /\ \A b \in Tasks \ {a} : op'[b] = op[b]
    BY <1>1, WriteOutcomes
  <2>2. /\ a = "WEMAIN" => op'[a].pc \in {"opened", "written", "ok", "failed"}
        /\ op'[a].pc # "deleted"
    BY <1>1, WriteOutcomes DEF Opened, Written, Cached, Failed
  <2>3. CASE a = "WEMAIN"
    BY <2>1, <2>2, <2>3, TasksOf DEF WhereInv, W, C, Up
  <2>4. CASE a = "TCPCLI"
    BY <2>1, <2>2, <2>4, TasksOf DEF WhereInv, W, C, Up
  <2> QED BY <2>3, <2>4, TasksOf
<1>2. CASE UNCHANGED vars
  BY <1>2 DEF vars, WhereInv, W, C, Up
<1> QED BY <1>1, <1>2, BootPlaces, ResetPlaces, TcpPlaces, DeletePlaces, LossPlaces DEF Next

\* The records whose slots are followed.
LEMMA WholeRecords ==
  /\ \A r : Whole(r).state = "whole" /\ Whole(r).rec = r
  /\ Short.state = "short" /\ NoFile.state = "none" /\ EmptyRecord.slot = 0
  BY DEF Whole, Short, NoFile, EmptyRecord

LEMMA NewsWrites ==
  ASSUME Types, WhereInv, News, "failed" \notin mishaps', NEW a \in Tasks,
         Open(a) \/ Write(a) \/ CacheSet(a)
  PROVE  News'
<1> USE TasksOf, WholeRecords DEF WhereInv, News, BusyStates, Up, BootStates, W, C, SlotIn, DiskSlotIn
<1>1. /\ op[a].pc \in {"staged", "opened", "deleted", "written"}
      /\ \A b \in Tasks \ {a} : op'[b] = op[b]
      /\ UNCHANGED <<prior, wpc, run, lastUp>>
      /\ Opened(a) \/ Written(a) \/ Cached(a)
  BY WriteOutcomes DEF Failed
<1>2. CASE a = "WEMAIN"
  <2>1. C' = C /\ wpc \in BusyStates
    BY <1>1, <1>2
  <2>2. CASE Opened(a) BY <1>1, <1>2, <2>1, <2>2 DEF Opened
  <2>3. CASE Written(a) BY <1>1, <1>2, <2>1, <2>3 DEF Written
  <2>4. CASE Cached(a) BY <1>1, <1>2, <2>1, <2>4 DEF Cached
  <2> QED BY <1>1, <2>2, <2>3, <2>4
<1>3. CASE a = "TCPCLI"
  <2>1. W' = W /\ Up
    BY <1>1, <1>3
  <2>2. CASE Opened(a) BY <1>1, <1>3, <2>1, <2>2 DEF Opened
  <2>3. CASE Written(a) BY <1>1, <1>3, <2>1, <2>3 DEF Written
  <2>4. CASE Cached(a) BY <1>1, <1>3, <2>1, <2>4 DEF Cached
  <2> QED BY <1>1, <2>2, <2>3, <2>4
<1> QED BY <1>2, <1>3

LEMMA NewsBoot ==
  ASSUME Types, WhereInv, News, "failed" \notin mishaps',
         LoadRecord \/ BootWritten \/ TakeOffset \/ OffsetTaken
  PROVE  News'
<1> USE TasksOf, WholeRecords DEF WhereInv, News, BusyStates, Up, BootStates, W, C, SlotIn, DiskSlotIn
<1>0. OpTypes /\ cache \in Record /\ disk.rec \in Record /\ C.pc = "idle" /\ C' = C
  BY BootPlaces DEF Types, RecordTypes, File
<1>1. CASE LoadRecord
  <2>1. wpc = "load" /\ lastUp' = lastUp /\ run' = run /\ W.pc = "idle"
    BY <1>1 DEF LoadRecord
  <2>2. CASE Readable /\ disk.rec.slot = 0 /\ wpc' = "take" /\ op' = op
             /\ cache' = disk.rec /\ disk' = disk /\ prior' = disk.rec.slot
    BY <1>0, <2>1, <2>2 DEF Readable
  <2>3. CASE Readable /\ wpc' = "consume" /\ Start("WEMAIN", Consumed(disk.rec))
             /\ disk' = disk /\ prior' = disk.rec.slot
    <3>1. Consumed(disk.rec) \in Record /\ Consumed(disk.rec).slot = 0
      BY <1>0, Changes DEF Consumed, Record
    <3>2. W'.pc = "staged" /\ W'.rec = Consumed(disk.rec)
      BY <1>0, <2>3, <3>1, StartTyped
    <3> QED BY <1>0, <2>1, <2>3, <3>1, <3>2 DEF Readable
  <2>4. CASE ~Readable /\ wpc' = "fresh" /\ prior' = 0 /\ disk' \in {disk, NoFile}
             /\ op' = [op EXCEPT !["WEMAIN"] = [pc |-> "staged", rec |-> EmptyRecord]]
    <3>1. W'.pc = "staged" /\ W'.rec = EmptyRecord
      BY <1>0, <2>4 DEF OpTypes
    <3> QED BY <1>0, <2>1, <2>4, <3>1 DEF Readable
  <2> QED BY <1>1, <2>2, <2>3, <2>4 DEF LoadRecord
<1>2. CASE BootWritten
  <2>1. wpc \in {"fresh", "consume"} /\ Returns("WEMAIN") /\ wpc' = "take"
        /\ UNCHANGED <<disk, cache, prior, run, lastUp>>
    BY <1>2 DEF BootWritten, fileVars, ghostVars
  <2>2. W.pc = "ok" /\ W'.pc = "idle"
    BY <1>0, <2>1, ReturnsTyped DEF Returns
  <2> QED BY <1>0, <2>1, <2>2
<1>3. CASE TakeOffset
  <2>1. wpc = "take" /\ UNCHANGED <<disk, cache, prior, run, lastUp>> /\ W.pc = "idle"
    BY <1>3 DEF TakeOffset, fileVars
  <2>2. CASE wpc' = "loop" /\ op' = op
    BY <1>0, <2>1, <2>2
  <2>3. CASE wpc' = "taken" /\ Start("WEMAIN", [cache EXCEPT !.offset = 0])
    <3>1. [cache EXCEPT !.offset = 0] \in Record /\ [cache EXCEPT !.offset = 0].slot = cache.slot
      BY <1>0, Bounds, Changes DEF Record
    <3>2. W'.pc = "staged" /\ W'.rec = [cache EXCEPT !.offset = 0]
      BY <1>0, <2>3, <3>1, StartTyped
    <3> QED BY <1>0, <2>1, <2>3, <3>1, <3>2
  <2> QED BY <1>3, <2>2, <2>3 DEF TakeOffset
<1>4. CASE OffsetTaken
  <2>1. wpc = "taken" /\ Returns("WEMAIN") /\ wpc' = "loop" /\ cache' = [cache EXCEPT !.offset = 0]
        /\ UNCHANGED <<disk, prior, run, lastUp>>
    BY <1>4 DEF OffsetTaken, ghostVars
  <2>2. W'.pc = "idle" /\ cache'.slot = cache.slot
    BY <1>0, <2>1, ReturnsTyped DEF Record
  <2> QED BY <1>0, <2>1, <2>2
<1> QED BY <1>1, <1>2, <1>3, <1>4

LEMMA NewsReset ==
  ASSUME Types, WhereInv, News, "failed" \notin mishaps',
         BeginSave \/ SaveDone \/ PersistQueue \/ OffsetDone \/ ResetReturns
  PROVE  News'
<1> USE TasksOf DEF WhereInv, News, BusyStates, Up, BootStates, W, C, SlotIn, DiskSlotIn
<1>0. /\ OpTypes /\ cache \in Record /\ run \in 1..MaxBoots
      /\ 0 \in 0..MaxBoots /\ run \in 0..MaxBoots
  BY Bounds DEF Types, RecordTypes, RunTypes
<1>1. Up /\ Up' /\ C' = C /\ UNCHANGED <<disk, cache, prior, run, lastUp>>
  BY ResetPlaces DEF BeginSave, SaveDone, PersistQueue, OffsetDone, ResetReturns, fileVars, ghostVars
<1>2. CASE BeginSave
  <2>1. Start("WEMAIN", SavedRecord(cache)) /\ SavedRecord(cache) \in Record
        /\ SavedRecord(cache).slot = run
    BY <1>0, <1>2, Changes DEF BeginSave, SavedRecord
  <2>2. W'.pc = "staged" /\ W'.rec.slot = run
    BY <1>0, <2>1, StartTyped
  <2> QED BY <1>1, <2>2
<1>3. CASE SaveDone \/ OffsetDone
  <2>1. W'.pc = "idle"
    BY <1>0, <1>3, ReturnsTyped DEF SaveDone, OffsetDone
  <2> QED BY <1>1, <2>1
<1>4. CASE PersistQueue
  <2>1. CASE op' = op
    BY <1>1, <2>1
  <2>2. CASE \E n \in {0, run} : Start("WEMAIN", [cache EXCEPT !.offset = n])
    <3>1. PICK n \in {0, run} : Start("WEMAIN", [cache EXCEPT !.offset = n])
      BY <2>2
    <3>2. [cache EXCEPT !.offset = n] \in Record /\ [cache EXCEPT !.offset = n].slot = cache.slot
      BY <1>0, <3>1, Changes DEF Record
    <3>3. W'.pc = "staged" /\ W'.rec = [cache EXCEPT !.offset = n]
      BY <1>0, <3>1, <3>2, StartTyped
    <3> QED BY <1>1, <3>2, <3>3
  <2> QED BY <1>4, <2>1, <2>2 DEF PersistQueue
<1>5. CASE ResetReturns
  <2>1. op' = op
    BY <1>5 DEF ResetReturns
  <2> QED BY <1>1, <2>1
<1> QED BY <1>2, <1>3, <1>4, <1>5

LEMMA NewsOther ==
  ASSUME Types, WhereInv, News, "failed" \notin mishaps',
         TcpClear \/ DeleteRecord \/ SocReset \/ PowerLoss
  PROVE  News'
<1> USE DEF News, Up, BootStates, SlotIn, DiskSlotIn
<1>1. CASE TcpClear
  <2>1. /\ UNCHANGED <<disk, cache, prior, run, lastUp, wpc>> /\ W' = W /\ Up
        /\ C'.pc = "staged" /\ C'.rec.slot = cache.slot
    BY <1>1, TcpPlaces DEF TcpClear, fileVars
  <2> QED BY <2>1
<1>2. CASE SocReset \/ PowerLoss
  <2>1. wpc' = "load" /\ W'.pc = "idle" /\ C'.pc = "idle" /\ LoseRAM
    BY <1>2, LossPlaces
  <2>2. disk' = disk /\ prior' = 0 /\ lastUp' = IF Up THEN run ELSE lastUp
    BY <2>1 DEF LoseRAM
  <2>3. wpc \in {"load", "fresh", "consume", "take", "taken"} \/ Up
    OBVIOUS
  <2>4. DiskSlotIn({0, lastUp'})
    BY <2>2, <2>3
  <2> QED BY <2>1, <2>2, <2>4
<1>3. CASE DeleteRecord
  <2>1. /\ UNCHANGED <<cache, prior, wpc, run, lastUp>> /\ Up /\ disk'.state = "none"
        /\ W'.rec = W.rec /\ W'.pc = IF W.pc = "opened" THEN "deleted" ELSE W.pc
        /\ C'.rec = C.rec /\ C'.pc = IF C.pc = "opened" THEN "deleted" ELSE C.pc
    BY <1>3, DeletePlaces, TasksOf, WholeRecords DEF W, C
  <2> QED BY <2>1
<1> QED BY <1>1, <1>2, <1>3

LEMMA NewsStep == Types /\ WhereInv /\ NewsInv /\ [Next]_vars => NewsInv'
<1> SUFFICES ASSUME Types, WhereInv, NewsInv, [Next]_vars, "failed" \notin mishaps' PROVE News'
  BY DEF NewsInv
<1>1. News
  BY MishapsGrow DEF NewsInv
<1>2. CASE UNCHANGED vars
  BY <1>1, <1>2 DEF vars, fileVars, ghostVars, News, W, C, Up, SlotIn, DiskSlotIn
<1> QED BY <1>1, <1>2, NewsWrites, NewsBoot, NewsReset, NewsOther DEF Next

LEMMA NewsStart == Init => WhereInv /\ NewsInv
  BY DEF Init, WhereInv, NewsInv, News, W, C, BusyStates, BootStates, Up, SlotIn, DiskSlotIn,
         NoFile, Idle, Tasks

LEMMA NewsAlways == Spec => [](Types /\ WhereInv /\ NewsInv)
  BY StartTypes, StepTypes, WhereStep, NewsStart, NewsStep, PTL DEF Spec

(* A boot reports a planned reset only if the last run that came to its    *)
(* main loop planned one: neither a power loss in the middle of a write    *)
(* nor a write of TCPCLI during one of WEMAIN makes a slot news that was   *)
(* reported before (ReportIsNew).                                          *)
THEOREM ReportsAreNew == Spec => []ReportIsNew
<1>1. Types /\ WhereInv /\ NewsInv => ReportIsNew
  BY DEF NewsInv, News, ReportIsNew
<1> QED BY <1>1, NewsAlways, PTL

LEMMA AloneWrites ==
  ASSUME Types, WhereInv, PromiseInv, Alone, NEW a \in Tasks,
         Open(a) \/ Write(a) \/ CacheSet(a)
  PROVE  Alone'
<1> USE TasksOf, WholeRecords DEF WhereInv, Alone, Saving, KeptSlot, BusyStates, W, C, SlotIn
<1>1. /\ op[a].pc \in {"staged", "opened", "deleted", "written"}
      /\ \A b \in Tasks \ {a} : op'[b] = op[b]
      /\ UNCHANGED <<wpc, run>>
      /\ \/ (Opened(a) \/ Written(a) \/ Cached(a)) /\ kept' = kept
         \/ Failed(a)
  BY WriteOutcomes
<1>2. CASE a = "WEMAIN"
  <2>1. C' = C /\ C.pc = "idle"
    BY <1>1, <1>2
  <2>2. CASE Opened(a) /\ kept' = kept BY <1>1, <1>2, <2>1, <2>2 DEF Opened
  <2>3. CASE Written(a) /\ kept' = kept BY <1>1, <1>2, <2>1, <2>3 DEF Written
  <2>4. CASE Cached(a) /\ kept' = kept BY <1>1, <1>2, <2>1, <2>4 DEF Cached
  <2>5. CASE Failed(a) BY <1>1, <1>2, <2>1, <2>5 DEF Failed
  <2> QED BY <1>1, <2>2, <2>3, <2>4, <2>5
<1>3. CASE a = "TCPCLI"
  <2>1. W' = W /\ W.pc = "idle" /\ wpc # "save"
    BY <1>1, <1>3
  <2>2. CASE Opened(a) /\ kept' = kept BY <1>1, <1>3, <2>1, <2>2 DEF Opened
  <2>3. CASE Written(a) /\ kept' = kept BY <1>1, <1>3, <2>1, <2>3 DEF Written
  <2>4. CASE Cached(a) /\ kept' = kept BY <1>1, <1>3, <2>1, <2>4 DEF Cached
  <2>5. CASE Failed(a) BY <1>1, <1>3, <2>1, <2>5 DEF Failed
  <2> QED BY <1>1, <2>2, <2>3, <2>4, <2>5
<1> QED BY <1>2, <1>3

LEMMA AloneReset ==
  ASSUME Types, WhereInv, PromiseInv, Alone, "raced" \notin mishaps',
         BeginSave \/ SaveDone \/ PersistQueue \/ OffsetDone \/ ResetReturns
  PROVE  Alone'
<1> USE TasksOf, WholeRecords
    DEF WhereInv, Alone, Saving, KeptSlot, BusyStates, Up, BootStates, W, C, SlotIn
<1>0. /\ OpTypes /\ cache \in Record /\ run \in 1..MaxBoots
      /\ 0 \in 0..MaxBoots /\ run \in 0..MaxBoots
  BY Bounds DEF Types, RecordTypes, RunTypes
<1>1. C' = C /\ UNCHANGED <<disk, cache, run>>
  BY ResetPlaces DEF BeginSave, SaveDone, PersistQueue, OffsetDone, ResetReturns, fileVars, ghostVars
<1>2. CASE BeginSave
  <2>1. Start("WEMAIN", SavedRecord(cache)) /\ SavedRecord(cache) \in Record
        /\ SavedRecord(cache).slot = run /\ wpc' = "save" /\ kept' = kept /\ wpc = "loop"
    BY <1>0, <1>2, Changes DEF BeginSave, SavedRecord
  <2>2. W'.pc = "staged" /\ W'.rec = SavedRecord(cache)
    BY <1>0, <2>1, StartTyped
  <2>3. C.pc = "idle" /\ W.pc = "idle"
    BY <2>1, StartAlone, Others
  <2> QED BY <1>1, <2>1, <2>2, <2>3
<1>3. CASE SaveDone
  <2>1. /\ wpc = "save" /\ wpc' = "queue" /\ W'.pc = "idle" /\ C.pc = "idle"
        /\ kept' = (W.pc = "ok" /\ disk.state = "whole")
    BY <1>0, <1>3, ReturnsTyped DEF SaveDone, Readable
  <2>2. kept' => cache = W.rec /\ disk = Whole(W.rec) /\ W.rec.slot = run
    BY <2>1
  <2> QED BY <1>1, <2>1, <2>2
<1>4. CASE PersistQueue
  <2>1. wpc = "queue" /\ wpc' # "save" /\ W.pc = "idle" /\ kept' = kept
    BY <1>4 DEF PersistQueue
  <2>2. CASE op' = op
    BY <1>1, <2>1, <2>2
  <2>3. CASE \E n \in {0, run} : Start("WEMAIN", [cache EXCEPT !.offset = n])
    <3>1. PICK n \in {0, run} : Start("WEMAIN", [cache EXCEPT !.offset = n])
      BY <2>3
    <3>2. [cache EXCEPT !.offset = n] \in Record /\ [cache EXCEPT !.offset = n].slot = cache.slot
      BY <1>0, <3>1, Changes DEF Record
    <3>3. W'.pc = "staged" /\ W'.rec = [cache EXCEPT !.offset = n]
      BY <1>0, <3>1, <3>2, StartTyped
    <3>4. C.pc = "idle"
      BY <3>1, StartAlone, Others
    <3> QED BY <1>1, <2>1, <3>2, <3>3, <3>4
  <2> QED BY <1>4, <2>2, <2>3 DEF PersistQueue
<1>5. CASE OffsetDone
  <2>1. wpc = "offset" /\ wpc' = "stabilize" /\ kept' = kept /\ W'.pc = "idle" /\ C.pc = "idle"
        /\ W.pc \in {"ok", "failed"}
    BY <1>0, <1>5, ReturnsTyped DEF OffsetDone, ghostVars, Returns
  <2> QED BY <1>1, <2>1
<1>6. CASE ResetReturns
  <2>1. op' = op /\ kept' = kept /\ wpc' = "loop"
    BY <1>6 DEF ResetReturns, ghostVars
  <2> QED BY <1>1, <2>1
<1> QED BY <1>2, <1>3, <1>4, <1>5, <1>6

LEMMA AloneOther ==
  ASSUME Types, WhereInv, PromiseInv, Alone, "raced" \notin mishaps',
         LoadRecord \/ BootWritten \/ TakeOffset \/ OffsetTaken
         \/ TcpClear \/ DeleteRecord \/ SocReset \/ PowerLoss
  PROVE  Alone'
<1>1. CASE LoadRecord \/ BootWritten \/ TakeOffset \/ OffsetTaken
  <2>1. C.pc = "idle" /\ C' = C /\ ~Up
    BY <1>1, BootPlaces
  <2>2. kept' = kept /\ wpc' # "save"
    BY <1>1 DEF LoadRecord, BootWritten, TakeOffset, OffsetTaken, ghostVars
  <2> QED BY <2>1, <2>2 DEF Alone, PromiseInv
<1>2. CASE TcpClear
  <2>1. /\ UNCHANGED <<disk, cache, run, wpc, kept>> /\ W' = W
        /\ C'.pc = "staged" /\ C'.rec.slot = cache.slot
    BY <1>2, TcpPlaces DEF TcpClear, fileVars
  <2>2. W.pc = "idle" /\ C.pc = "idle"
    BY <1>2, StartAlone, Others, TasksOf DEF TcpClear, W, C
  <2>3. wpc # "save"
    BY <2>2 DEF WhereInv, BusyStates
  <2> QED BY <2>1, <2>2, <2>3 DEF Alone, KeptSlot, SlotIn
<1>3. CASE SocReset \/ PowerLoss
  <2>1. wpc' = "load" /\ C'.pc = "idle" /\ kept' = FALSE
    BY <1>3, LossPlaces DEF LoseRAM
  <2> QED BY <2>1 DEF Alone
<1>4. CASE DeleteRecord
  <2>1. /\ UNCHANGED <<cache, wpc, run>> /\ disk' = NoFile /\ kept' = FALSE
        /\ W'.rec = W.rec /\ W'.pc = IF W.pc = "opened" THEN "deleted" ELSE W.pc
        /\ C'.pc = IF C.pc = "opened" THEN "deleted" ELSE C.pc
    BY <1>4, DeletePlaces, TasksOf DEF W, C
  <2>2. wpc = "save" => Saving'
    BY <2>1 DEF Alone, Saving, SlotIn
  <2> QED BY <2>1, <2>2 DEF Alone
<1> QED BY <1>1, <1>2, <1>3, <1>4

LEMMA PromiseStep ==
  ASSUME Types, WhereInv, PromiseInv, "raced" \notin mishaps => Alone, [Next]_vars
  PROVE  PromiseInv'
<1> USE DEF PromiseInv
<1>1. ASSUME NEW a \in Tasks, Open(a) \/ Write(a) \/ CacheSet(a) PROVE PromiseInv'
  <2>1. /\ op[a].pc # "idle" /\ UNCHANGED <<prior, wpc, promised, lastUp>>
        /\ kept' = kept \/ kept' = FALSE
    BY <1>1, WriteOutcomes DEF Failed
  <2>2. wpc # "load"
    BY <2>1, TasksOf DEF WhereInv, W, C, Up, BootStates, BusyStates
  <2> QED BY <2>1, <2>2 DEF Up
<1>2. CASE LoadRecord
  <2>1. wpc = "load" /\ wpc' # "load" /\ kept' = kept /\ lastUp' = lastUp /\ ~Up
    BY <1>2 DEF LoadRecord, Up, BootStates
  <2>2. promised' => promised /\ prior' = disk.rec.slot
    BY <1>2, <2>1 DEF LoadRecord, Readable
  <2> QED BY <2>1, <2>2
<1>3. CASE BootWritten \/ TakeOffset \/ OffsetTaken
  <2>1. UNCHANGED <<prior, promised, lastUp, kept>> /\ wpc # "load" /\ wpc' # "load" /\ ~Up
    BY <1>3 DEF BootWritten, TakeOffset, OffsetTaken, fileVars, ghostVars, Up, BootStates
  <2> QED BY <2>1
<1>4. CASE BeginSave \/ SaveDone \/ PersistQueue \/ OffsetDone \/ ResetReturns
  <2>1. Up /\ Up' /\ UNCHANGED <<prior, promised, lastUp>>
    BY <1>4, ResetPlaces
       DEF BeginSave, SaveDone, PersistQueue, OffsetDone, ResetReturns, fileVars, ghostVars
  <2> QED BY <2>1 DEF Up, BootStates
<1>5. CASE TcpClear
  BY <1>5 DEF TcpClear, fileVars, Up
<1>6. CASE SocReset \/ PowerLoss
  <2>1. wpc' = "load" /\ LoseRAM
    BY <1>6, LossPlaces
  <2>2. kept' = FALSE /\ disk' = disk /\ lastUp' = IF Up THEN run ELSE lastUp
    BY <2>1 DEF LoseRAM
  <2>3. ASSUME promised' PROVE disk.state = "whole" /\ disk.rec.slot = run /\ Up
    <3>1. wpc = "stabilize" /\ kept /\ C.pc = "idle" /\ "raced" \notin mishaps
      BY <1>6, <2>3 DEF SocReset, PowerLoss, C
    <3>2. W.pc = "idle"
      BY <3>1 DEF WhereInv, BusyStates
    <3> QED BY <3>1, <3>2 DEF Alone, KeptSlot, SlotIn, Up, BootStates
  <2> QED BY <2>1, <2>2, <2>3
<1>7. CASE DeleteRecord
  <2>1. Up /\ kept' = FALSE /\ UNCHANGED <<prior, wpc, promised, lastUp>>
    BY <1>7, DeletePlaces
  <2> QED BY <2>1 DEF Up, BootStates
<1>8. CASE UNCHANGED vars
  BY <1>8 DEF vars, fileVars, ghostVars, Up
<1> QED BY <1>1, <1>2, <1>3, <1>4, <1>5, <1>6, <1>7, <1>8 DEF Next

LEMMA KeptStep == Types /\ WhereInv /\ KeptInv /\ [Next]_vars => KeptInv'
<1> SUFFICES ASSUME Types, WhereInv, KeptInv, [Next]_vars PROVE KeptInv'
  OBVIOUS
<1>1. PromiseInv'
  BY PromiseStep DEF KeptInv
<1>2. ASSUME "raced" \notin mishaps' PROVE Alone'
  <2>1. Alone /\ PromiseInv
    BY <1>2, MishapsGrow DEF KeptInv
  <2>2. CASE UNCHANGED vars
    BY <2>1, <2>2 DEF vars, fileVars, ghostVars, Alone, Saving, KeptSlot, W, C, SlotIn
  <2> QED BY <1>2, <2>1, <2>2, AloneWrites, AloneReset, AloneOther DEF Next
<1> QED BY <1>1, <1>2 DEF KeptInv

LEMMA KeptStart == Init => KeptInv
  BY DEF Init, KeptInv, PromiseInv, Alone, W, C, Idle, Tasks

(* A run that follows a planned reset reports it, if the writes of that    *)
(* reset succeeded, no write of TCPCLI has overlapped one of WEMAIN and no *)
(* command deleted the file between the save of the slot and the reset,    *)
(* however many changes of the offset came between them                    *)
(* (PlannedIsReported).                                                    *)
THEOREM PlannedAreReported == Spec => []PlannedIsReported
<1>1. KeptInv => PlannedIsReported
  BY DEF KeptInv, PromiseInv, PlannedIsReported
<1>2. Spec => []KeptInv
  BY NewsAlways, KeptStart, KeptStep, PTL DEF Spec
<1> QED BY <1>1, <1>2, PTL
=============================================================================
