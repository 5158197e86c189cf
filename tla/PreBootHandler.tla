--------------------------- MODULE PreBootHandler ---------------------------
(***************************************************************************)
(* The pre-boot record of system/reset/pre_boot_handler.c: what the system *)
(* remembers of a planned reset, and where the overflow file of TCP_SEND_Q *)
(* is to be read on.                                                       *)
(*                                                                         *)
(* The record is kept in a file and in a cache.  Two tasks change it, each *)
(* by copying the cache, changing a field, writing the whole file and then *)
(* the cache, and neither takes a lock: WEMAIN before it resets the SoC,   *)
(* TCPCLI when it has drained the queue.  The file is opened "wb+", which  *)
(* empties it before it is written.  A third task, cmdTask, deletes the    *)
(* file on a command, FACTORY-RESET or DELETE-FOLDER preboot, and leaves   *)
(* the cache as it is.                                                     *)
(*                                                                         *)
(* Runs are numbered 1, 2, ...; the reset slot and the offset of a record  *)
(* hold the number of the run that stored them, 0 when there is none.      *)
(* A definition named D_x is D with a slip a programmer could make; it is  *)
(* no part of the model.                                                   *)
(***************************************************************************)
EXTENDS Naturals

CONSTANTS
  Faults,     \* the file operations that may fail
  MaxBoots,   \* bound: runs
  MaxSaves    \* bound: planned resets written to the file

ASSUME FaultAssumption == Faults \subseteq {"read", "open", "write", "close"}
ASSUME BootAssumption == MaxBoots \in Nat \ {0} /\ MaxSaves \in Nat

VARIABLES
  disk,      \* weware_preboot.bin
  cache,     \* s_disk; PB_CACHE_HAVE is set once the boot has loaded it
  prior,     \* s_prior: the run whose planned reset led to this one, 0 if none
  op,        \* each task between the copy of the cache and its result
  wpc,       \* WEMAIN, from the boot to SDK_SYSTEM_RESET
  run,       \* number of this run
  \* history
  saves,     \* planned resets whose write of the record succeeded
  kept,      \* the reset slot is in the file: it was written, and since then
             \* no write has failed and no command has deleted the file
  promised,  \* the run before this one ended in a reset that was written down
  lastUp,    \* last run before this one that came to its main loop
  mishaps    \* what has happened to the file, or to some write of it

fileVars == <<disk, cache, prior>>
ghostVars == <<saves, kept, promised, lastUp, mishaps>>
vars == <<fileVars, op, wpc, run, ghostVars>>

Tasks == {"WEMAIN", "TCPCLI"}
Other(a) == CHOOSE b \in Tasks : b # a

EmptyRecord == [slot |-> 0, total |-> 0, offset |-> 0]
NoFile == [state |-> "none", rec |-> EmptyRecord]
Short == [state |-> "short", rec |-> EmptyRecord]
Whole(r) == [state |-> "whole", rec |-> r]
Idle == [pc |-> "idle", rec |-> EmptyRecord]

BootStates == {"load", "fresh", "consume", "take", "taken"}
Up == wpc \notin BootStates

-----------------------------------------------------------------------------
(* disk_store, for either task.  The copy of the cache is part of the step *)
(* that calls it.                                                          *)

Start(a, r) ==
  /\ op' = [op EXCEPT ![a] = [pc |-> "staged", rec |-> r]]
  /\ mishaps' = mishaps \cup IF op[Other(a)].pc = "idle" THEN {} ELSE {"raced"}

SetPc(a, pc) == op' = [op EXCEPT ![a].pc = pc]
\* The result: TCPCLI ignores it.
End(a, pc) == op' = [op EXCEPT ![a] = IF a = "TCPCLI" THEN Idle ELSE [@ EXCEPT !.pc = pc]]
Fails(a) == End(a, "failed") /\ mishaps' = mishaps \cup {"failed"} /\ kept' = FALSE

\* file_system_write_file: the open empties the file, ...
Open(a) ==
  /\ op[a].pc = "staged"
  /\ \/ SetPc(a, "opened") /\ disk' = Short /\ UNCHANGED <<mishaps, kept>>
     \/ "open" \in Faults /\ Fails(a) /\ UNCHANGED disk
  /\ UNCHANGED <<cache, prior, wpc, run, saves, promised, lastUp>>

\* ... the write and the close fill it.  What is written to a file deleted
\* while it is open may be lost.
Filled(a) == {Whole(op[a].rec)} \cup IF op[a].pc = "deleted" THEN {disk} ELSE {}
Write(a) ==
  /\ op[a].pc \in {"opened", "deleted"}
  /\ \/ SetPc(a, "written") /\ disk' \in Filled(a) /\ UNCHANGED <<mishaps, kept>>
     \/ "write" \in Faults /\ Fails(a) /\ disk' \in {disk, Short}
     \/ "close" \in Faults /\ Fails(a) /\ disk' \in Filled(a)
  /\ saves' = IF a = "WEMAIN" /\ wpc = "save" /\ op'[a].pc = "written"
                THEN saves + 1 ELSE saves
  /\ UNCHANGED <<cache, prior, wpc, run, promised, lastUp>>

CacheSet_Never(a) ==
  /\ op[a].pc = "written" /\ End(a, "ok")
  /\ UNCHANGED <<fileVars, wpc, run, ghostVars>>

\* cache_set, after a write that succeeded.
CacheSet(a) ==
  /\ op[a].pc = "written" /\ End(a, "ok")
  /\ cache' = op[a].rec
  /\ UNCHANGED <<disk, prior, wpc, run, ghostVars>>

Returns(a) == op[a].pc \in {"ok", "failed"} /\ op' = [op EXCEPT ![a] = Idle]

-----------------------------------------------------------------------------
(* WEMAIN at boot *)

Consumed_Nothing(r) == r
Consumed_WithTotal(r) == EmptyRecord
\* disk_clear_reset_slot
Consumed(r) == [r EXCEPT !.slot = 0]

\* disk_read and disk_header_ok: a file that is not whole is no record.
Readable == disk.state = "whole"

\* disk_load_or_create, prior_from_disk.  A file that cannot be read is
\* replaced by an empty record like one that is not there.
LoadRecord ==
  /\ wpc = "load"
  /\ \/ /\ Readable
        /\ cache' = disk.rec /\ prior' = disk.rec.slot
        /\ IF disk.rec.slot = 0
             THEN wpc' = "take" /\ UNCHANGED <<op, mishaps>>
             ELSE wpc' = "consume" /\ Start("WEMAIN", Consumed(disk.rec))
        /\ UNCHANGED <<disk, promised>>
     \/ /\ ~Readable \/ "read" \in Faults
        /\ cache' = EmptyRecord /\ prior' = 0
        /\ disk' \in {disk, NoFile}
        /\ wpc' = "fresh"
        /\ op' = [op EXCEPT !["WEMAIN"] = [pc |-> "staged", rec |-> EmptyRecord]]
        /\ mishaps' = mishaps \cup IF Readable THEN {"failed"} ELSE {}
        /\ promised' = IF Readable THEN FALSE ELSE promised
  /\ UNCHANGED <<run, saves, kept, lastUp>>

\* The end of pre_boot_handler_load_prior_reset: failures are logged.
BootWritten ==
  /\ wpc \in {"fresh", "consume"}
  /\ Returns("WEMAIN") /\ wpc' = "take"
  /\ UNCHANGED <<fileVars, run, ghostVars>>

\* pre_boot_handler_take_tcp_send_queue_offset, by the creation of the queue
\* if there is an overflow file.
TakeOffset ==
  /\ wpc = "take"
  /\ \/ /\ cache.offset # 0
        /\ Start("WEMAIN", [cache EXCEPT !.offset = 0]) /\ wpc' = "taken"
     \/ wpc' = "loop" /\ UNCHANGED <<op, mishaps>>
  /\ UNCHANGED <<fileVars, run, saves, kept, promised, lastUp>>

OffsetTaken ==
  /\ wpc = "taken" /\ Returns("WEMAIN") /\ wpc' = "loop"
  /\ cache' = [cache EXCEPT !.offset = 0]
  /\ UNCHANGED <<disk, prior, run, ghostVars>>

-----------------------------------------------------------------------------
(* WEMAIN before a reset: persist_and_reset *)

\* pre_boot_handler_save_before_soc_reset
SavedRecord(r) == [slot |-> run, total |-> r.total + 1, offset |-> r.offset]

BeginSave ==
  /\ wpc = "loop" /\ saves < MaxSaves
  /\ Start("WEMAIN", SavedRecord(cache)) /\ wpc' = "save"
  /\ UNCHANGED <<fileVars, run, saves, kept, promised, lastUp>>

SaveDone ==
  /\ wpc = "save" /\ Returns("WEMAIN") /\ wpc' = "queue"
  /\ kept' = (op["WEMAIN"].pc = "ok" /\ Readable)
  /\ UNCHANGED <<fileVars, run, saves, promised, lastUp, mishaps>>

PersistQueue_FromEmpty ==
  /\ wpc = "queue"
  /\ Start("WEMAIN", [EmptyRecord EXCEPT !.offset = run]) /\ wpc' = "offset"
  /\ UNCHANGED <<fileVars, run, saves, kept, promised, lastUp>>

\* module_manager_persist_reboot_data: the snapshot of the queue, and if it
\* was saved, the offset of its overflow file or the fact that there is none.
PersistQueue ==
  /\ wpc = "queue"
  /\ \/ wpc' = "stabilize" /\ UNCHANGED <<op, mishaps>>
     \/ \E n \in {0, run} : /\ Start("WEMAIN", [cache EXCEPT !.offset = n])
                            /\ wpc' = "offset"
  /\ UNCHANGED <<fileVars, run, saves, kept, promised, lastUp>>

OffsetDone ==
  /\ wpc = "offset" /\ Returns("WEMAIN") /\ wpc' = "stabilize"
  /\ UNCHANGED <<fileVars, run, ghostVars>>

\* SDK_SYSTEM_RESET came back.
ResetReturns ==
  /\ wpc = "stabilize" /\ wpc' = "loop"
  /\ UNCHANGED <<fileVars, op, run, ghostVars>>

-----------------------------------------------------------------------------
(* TCPCLI: pre_boot_handler_clear_tcp_send_queue_offset after a drained queue *)

TcpClear ==
  /\ Up /\ op["TCPCLI"].pc = "idle"
  /\ Start("TCPCLI", [cache EXCEPT !.offset = 0])
  /\ UNCHANGED <<fileVars, wpc, run, saves, kept, promised, lastUp>>

-----------------------------------------------------------------------------
(* cmdTask: FACTORY-RESET, DELETE-FOLDER preboot.  The server's commands    *)
(* come through TCPCLI, which starts after the boot.  The soft reset that   *)
(* FACTORY-RESET then asks WEMAIN for is a BeginSave.                       *)

DeleteRecord ==
  /\ Up /\ disk # NoFile
  /\ disk' = NoFile
  /\ op' = [a \in Tasks |-> IF op[a].pc = "opened" THEN [op[a] EXCEPT !.pc = "deleted"]
                                                  ELSE op[a]]
  /\ mishaps' = mishaps \cup {"wiped"} /\ kept' = FALSE
  /\ UNCHANGED <<cache, prior, wpc, run, saves, promised, lastUp>>

-----------------------------------------------------------------------------
(* The end of a run *)

\* A file cut short is empty at the next boot; with a deleted one the count
\* of resets is lost.
Losses == (IF disk.state = "short" THEN {"torn"} ELSE {})
            \cup (IF disk.state = "none" /\ saves > 0 THEN {"lost"} ELSE {})

LoseRAM ==
  /\ run < MaxBoots /\ run' = run + 1
  /\ cache' = EmptyRecord /\ prior' = 0
  /\ op' = [a \in Tasks |-> Idle] /\ wpc' = "load" /\ kept' = FALSE
  /\ lastUp' = IF Up THEN run ELSE lastUp
  /\ mishaps' = mishaps \cup Losses
  /\ UNCHANGED <<disk, saves>>

\* SDK_SYSTEM_RESET
SocReset ==
  /\ wpc = "stabilize"
  /\ promised' = (kept /\ op["TCPCLI"].pc = "idle" /\ "raced" \notin mishaps)
  /\ LoseRAM

\* Power cut, crash or the HARD-RESET command, at any point.
PowerLoss == promised' = FALSE /\ LoseRAM

-----------------------------------------------------------------------------
Init ==
  /\ disk = NoFile /\ cache = EmptyRecord /\ prior = 0
  /\ op = [a \in Tasks |-> Idle] /\ wpc = "load" /\ run = 1
  /\ saves = 0 /\ kept = FALSE /\ promised = FALSE /\ lastUp = 0 /\ mishaps = {}

Next ==
  \/ \E a \in Tasks : Open(a) \/ Write(a) \/ CacheSet(a)
  \/ LoadRecord \/ BootWritten \/ TakeOffset \/ OffsetTaken
  \/ BeginSave \/ SaveDone \/ PersistQueue \/ OffsetDone \/ ResetReturns
  \/ TcpClear \/ DeleteRecord \/ SocReset \/ PowerLoss

Spec == Init /\ [][Next]_vars

-----------------------------------------------------------------------------
(* Properties *)

Record == [slot : 0..MaxBoots, total : Nat, offset : 0..MaxBoots]
TypeOK ==
  /\ disk \in [state : {"none", "short", "whole"}, rec : Record]
  /\ cache \in Record /\ prior \in 0..MaxBoots
  /\ op \in [Tasks -> [pc : {"idle", "staged", "opened", "deleted", "written", "ok", "failed"},
                       rec : Record]]
  /\ wpc \in BootStates \cup {"loop", "save", "queue", "offset", "stabilize"}
  /\ run \in 1..MaxBoots /\ saves \in Nat /\ kept \in BOOLEAN
  /\ promised \in BOOLEAN /\ lastUp \in 0..MaxBoots
  /\ mishaps \subseteq {"raced", "failed", "torn", "wiped", "lost"}

\* post_boot_handler: a run that follows a planned reset says so, if the
\* writes of that reset succeeded, TCPCLI wrote no record meanwhile and no
\* command deleted the file between the write and the reset.
PlannedIsReported == promised /\ wpc # "load" => prior = lastUp

\* ... and a run reports a planned reset only if the last run that came to
\* its main loop planned one: no torn, stale or already reported slot is taken
\* for news, unless a write failed.
ReportIsNew == prior # 0 /\ "failed" \notin mishaps => prior = lastUp

\* total_resets counts the planned resets, across runs, unless a write failed,
\* was torn by a power loss or overlapped one of the other task, or a run ended
\* with the file deleted.  A deletion alone takes nothing: the next write
\* brings the count back from the cache.
TotalCountsSaves ==
  Up /\ mishaps \subseteq {"wiped"} /\ wpc # "save" => cache.total = saves

\* The cache is the file again when no write is under way, but for the same
\* mishaps: later changes start from what a reboot would find.  Only a file that
\* was deleted may be missing; it is never an older record than the cache.
CacheIsDisk ==
  Up /\ mishaps \subseteq {"wiped"} /\ (\A a \in Tasks : op[a].pc = "idle")
    => disk = Whole(cache) \/ (disk = NoFile /\ "wiped" \in mishaps)
=============================================================================
