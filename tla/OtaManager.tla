----------------------------- MODULE OtaManager -----------------------------
(***************************************************************************)
(* The firmware update of system/ota: ota_manager.c, which WEMAIN drives   *)
(* once per pass of its loop and a FORCED-OTA command arms from cmdTask,   *)
(* the download engine ota_file_download.c, and the adapter                *)
(* sdk_walnut_https.c to the HTTPS client of the kernel.                   *)
(*                                                                         *)
(* The version check is one asynchronous request on session 0: the kernel  *)
(* posts one event to a queue of the adapter when it is done, whether or   *)
(* not anybody still waits, and refuses a new request before that.  The    *)
(* download is a sequence of synchronous range requests, each tried twice. *)
(* The image goes to a flash file (OTA_DOWNLOAD_TEST is defined) and is    *)
(* not applied.  cmdTask has a higher priority than WEMAIN: it can come in *)
(* between any two of its steps, and none of WEMAIN's between its own.     *)
(* A definition named D_x is D with a slip a programmer could make; it is  *)
(* no part of the model.                                                   *)
(***************************************************************************)
EXTENDS Integers, Sequences

CONSTANTS
  Size,         \* length of the image on the server, in units
  ChunkSize,    \* OTA_DL_CHUNK_SIZE
  QueueDepth,   \* HTTPS_EVENT_QUEUE_DEPTH
  MaxRequests,  \* bound: version checks in a run of the program
  MaxForced,    \* bound: FORCED-OTA commands accepted
  MaxBoots      \* bound: runs of the program

ASSUME SizeAssumption == Size \in Nat \ {0} /\ ChunkSize \in Nat \ {0}
ASSUME DepthAssumption == QueueDepth \in Nat /\ QueueDepth >= 2
ASSUME BoundAssumption == MaxRequests \in Nat /\ MaxForced \in Nat /\ MaxBoots \in Nat

VARIABLES
  wpc,       \* WEMAIN in ota_manager_check_and_update
  link,      \* ota_prerequisites_ok: network, GPS, signal
  \* g_ota_state
  session,   \* session_active
  force,     \* force_active
  cooling,   \* last_check_ticks is set and not yet 12 hours old
  reason,    \* sim_last_reason
  \* the HTTPS client
  req,       \* version checks accepted by the kernel
  flight,    \* the one it is working on, 0 if none
  events,    \* g_https_evt_msgq
  verdict,   \* the request whose event ended the last wait
  \* the download
  offset,    \* download_offset
  tries,     \* attempts left for this chunk
  file,      \* simcom_test.bin
  \* history
  tried,     \* a version check was attempted since the command was accepted
  forced,    \* commands accepted
  undeleted, \* the deletion of an image file has failed
  wiped,     \* a command has deleted the image since it was opened
  boots

otaVars == <<session, force, cooling, reason>>
httpsVars == <<req, flight, events, verdict>>
loadVars == <<offset, tries, file>>
ghostVars == <<tried, forced, undeleted, wiped, boots>>
vars == <<wpc, link, otaVars, httpsVars, loadVars, ghostVars>>

NoFile == [exists |-> FALSE, length |-> 0]
Image(n) == [exists |-> TRUE, length |-> n]

WaitStates == {"wait", "read"}
LoadStates == {"size", "space", "open", "chunk", "close", "delete"}

-----------------------------------------------------------------------------
(* The gates of ota_manager_check_and_update *)

\* A forced cycle passes by both; for others the second, ota_check_cooldown,
\* starts the 12 hours.
Gates ==
  /\ wpc = "idle" /\ req < MaxRequests
  /\ force \/ (link /\ ~cooling)
  /\ cooling' = (cooling \/ ~force)
  /\ wpc' = "gated"
  /\ UNCHANGED <<link, session, force, reason, httpsVars, loadVars, tried, forced,
                 undeleted, wiped, boots>>

BeginSession ==
  /\ wpc = "gated" /\ wpc' = "dispatch" /\ session' = TRUE
  /\ UNCHANGED <<link, force, cooling, reason, httpsVars, loadVars, ghostVars>>

\* ota_dispatch: the prerequisites again.
Skip ==
  /\ wpc = "dispatch" /\ ~force /\ ~link /\ wpc' = "done"
  /\ UNCHANGED <<link, otaVars, httpsVars, loadVars, ghostVars>>

\* The version check ended without an image to load.
CheckEnds(r) == wpc' = "done" /\ reason' = r

-----------------------------------------------------------------------------
(* sdk_walnut_https_request_impl *)

\* Everything up to wm_sdk_https_action: refused while the kernel is busy.
Ask ==
  /\ wpc = "dispatch" /\ (force \/ link)
  /\ \/ /\ flight = 0
        /\ req' = req + 1 /\ flight' = req + 1
        /\ wpc' = "wait" /\ UNCHANGED reason
     \/ CheckEnds("version check") /\ UNCHANGED <<req, flight>>
  /\ tried' = TRUE
  /\ UNCHANGED <<link, session, force, cooling, events, verdict, loadVars, forced, undeleted, wiped, boots>>

\* The kernel's worker, with or without success.
Complete ==
  /\ flight # 0 /\ flight' = 0
  /\ \E ok \in BOOLEAN :
       events' = IF Len(events) < QueueDepth
                   THEN Append(events, [id |-> flight, ok |-> ok]) ELSE events
  /\ UNCHANGED <<wpc, link, otaVars, req, verdict, loadVars, ghostVars>>

\* https_wait_action_event: any event of the session will do ...
Receive ==
  /\ wpc = "wait" /\ events # <<>>
  /\ verdict' = Head(events).id /\ events' = Tail(events)
  /\ \/ Head(events).ok /\ wpc' = "read" /\ UNCHANGED reason
     \/ ~Head(events).ok /\ CheckEnds("version check")
  /\ UNCHANGED <<link, session, force, cooling, req, flight, loadVars, ghostVars>>

WaitTimeout_Early ==
  /\ wpc = "wait" /\ CheckEnds("version check")
  /\ UNCHANGED <<link, session, force, cooling, httpsVars, loadVars, ghostVars>>

\* ... and after 60 seconds without one it gives up; the kernel does not.
WaitTimeout ==
  /\ wpc = "wait" /\ events = <<>> /\ CheckEnds("version check")
  /\ UNCHANGED <<link, session, force, cooling, httpsVars, loadVars, ghostVars>>

\* wm_sdk_https_read and the answer: no update, or the URL of an image.  The
\* read is refused while a request is in flight.
ReadAnswer ==
  /\ wpc = "read"
  /\ \/ CheckEnds("version check")
     \/ flight = 0 /\ CheckEnds("no update")
     \/ flight = 0 /\ wpc' = "size" /\ UNCHANGED reason
  /\ UNCHANGED <<link, session, force, cooling, httpsVars, loadVars, ghostVars>>

-----------------------------------------------------------------------------
(* ota_download_and_write_firmware *)

LoadFails == wpc' = "done" /\ reason' = "download"

\* ota_download_init_https, set_params, get_file_size
QuerySize ==
  /\ wpc = "size"
  /\ \/ flight = 0 /\ wpc' = "space" /\ UNCHANGED reason
     \/ LoadFails
  /\ UNCHANGED <<link, session, force, cooling, httpsVars, loadVars, ghostVars>>

\* ota_flash_has_space_for_download deletes the old image first, if it can be
\* read, and does not look at the result.
MakeSpace ==
  /\ wpc = "space"
  /\ file' \in {file, NoFile}
  /\ undeleted' = (undeleted \/ file'.exists)
  /\ \/ wpc' = "open" /\ UNCHANGED reason
     \/ LoadFails
  /\ UNCHANGED <<link, session, force, cooling, httpsVars, offset, tries, tried,
                 forced, wiped, boots>>

OpenImage ==
  /\ wpc = "open"
  /\ \/ /\ wpc' = "chunk" /\ file' = Image(0) /\ offset' = 0 /\ tries' = 2
        /\ wiped' = FALSE /\ UNCHANGED reason
     \/ LoadFails /\ UNCHANGED <<loadVars, wiped>>
  /\ UNCHANGED <<link, session, force, cooling, httpsVars, tried, forced, undeleted, boots>>

\* What is written to a file that was deleted while it is open is lost.
Longer(n) == IF file.exists THEN Image(file.length + n) ELSE file

\* download_offset += bytes_read
Advance_Chunk(n) == offset' = offset + ChunkSize
Advance(n) == offset' = offset + n

\* ota_download_stream: a range is read, in up to two attempts, ...
Chunk ==
  /\ wpc = "chunk" /\ offset < Size
  /\ \E n \in 1..ChunkSize :
       n <= Size - offset /\ Advance(n) /\ file' = Longer(n)
  /\ tries' = 2
  /\ UNCHANGED <<wpc, link, otaVars, httpsVars, ghostVars>>

ChunkFails ==
  /\ wpc = "chunk" /\ offset < Size /\ tries > 0
  /\ tries' = tries - 1 /\ wpc' = IF tries = 1 THEN "delete" ELSE "chunk"
  /\ UNCHANGED <<link, otaVars, httpsVars, offset, file, ghostVars>>

\* ... and written, in part at the worst.
WriteFails ==
  /\ wpc = "chunk" /\ offset < Size
  /\ \E n \in 0..ChunkSize : n <= Size - offset /\ file' = Longer(n)
  /\ wpc' = "delete"
  /\ UNCHANGED <<link, otaVars, httpsVars, offset, tries, ghostVars>>

CloseImage ==
  /\ wpc = "chunk" /\ offset >= Size
  /\ \/ wpc' = "done" /\ reason' = "ok"
     \/ wpc' = "delete" /\ UNCHANGED reason
  /\ UNCHANGED <<link, session, force, cooling, httpsVars, loadVars, ghostVars>>

DeleteImage_Leaves ==
  /\ wpc = "delete" /\ LoadFails
  /\ UNCHANGED <<link, session, force, cooling, httpsVars, loadVars, ghostVars>>

\* A failed download is closed and its file deleted, if that succeeds.
DeleteImage ==
  /\ wpc = "delete" /\ LoadFails
  /\ file' \in {file, NoFile}
  /\ undeleted' = (undeleted \/ file'.exists)
  /\ UNCHANGED <<link, session, force, cooling, httpsVars, offset, tries, tried,
                 forced, wiped, boots>>

-----------------------------------------------------------------------------
(* The end of the cycle: the two stores, in this order *)

EndStep_SessionFirst ==
  /\ \/ wpc = "done" /\ wpc' = "ending" /\ session' = FALSE /\ UNCHANGED force
     \/ wpc = "ending" /\ wpc' = "idle" /\ force' = FALSE /\ UNCHANGED session
  /\ UNCHANGED <<link, cooling, reason, httpsVars, loadVars, ghostVars>>

EndStep_NotIfLoaded ==
  /\ \/ wpc = "done" /\ wpc' = "ending" /\ force' = FALSE /\ UNCHANGED session
     \/ wpc = "ending" /\ wpc' = "idle" /\ session' = (reason = "ok") /\ UNCHANGED force
  /\ UNCHANGED <<link, cooling, reason, httpsVars, loadVars, ghostVars>>

EndStep ==
  /\ \/ wpc = "done" /\ wpc' = "ending" /\ force' = FALSE /\ UNCHANGED session
     \/ wpc = "ending" /\ wpc' = "idle" /\ session' = FALSE /\ UNCHANGED force
  /\ UNCHANGED <<link, cooling, reason, httpsVars, loadVars, ghostVars>>

-----------------------------------------------------------------------------
(* The other tasks, time, the end of a run *)

\* ota_manager_is_busy
Busy == session

\* ota_manager_force_update, on cmdTask
ForceUpdate ==
  /\ ~Busy /\ forced < MaxForced
  /\ force' = TRUE /\ cooling' = FALSE
  /\ forced' = forced + 1 /\ tried' = FALSE
  /\ UNCHANGED <<wpc, link, session, reason, httpsVars, loadVars, undeleted, wiped, boots>>

\* FACTORY-RESET and DELETE-FOLDER fota, on cmdTask, delete the image whatever
\* is being done with it.
WipeImage ==
  /\ file.exists /\ file' = NoFile /\ wiped' = TRUE
  /\ UNCHANGED <<wpc, link, otaVars, httpsVars, offset, tries, tried, forced, undeleted, boots>>

\* The events of the network, from tasks that do not interrupt WEMAIN.
LinkChanges ==
  /\ wpc \in {"idle", "dispatch", "done"} \cup WaitStates \cup LoadStates
  /\ link' = ~link
  /\ UNCHANGED <<wpc, otaVars, httpsVars, loadVars, ghostVars>>

\* 12 hours pass between two cycles.
CooldownEnds ==
  /\ wpc = "idle" /\ cooling /\ cooling' = FALSE
  /\ UNCHANGED <<wpc, link, session, force, reason, httpsVars, loadVars, tried, forced,
                 undeleted, wiped, boots>>

\* Power loss or reset, and ota_manager_init: the image of the last run is
\* deleted, whole or not.
Restart ==
  /\ boots < MaxBoots /\ boots' = boots + 1
  /\ wpc' = "idle" /\ link' = FALSE
  /\ session' = FALSE /\ force' = FALSE /\ cooling' = FALSE /\ reason' = "none"
  /\ req' = 0 /\ flight' = 0 /\ events' = <<>> /\ verdict' = 0
  /\ offset' = 0 /\ tries' = 2
  /\ file' \in {file, NoFile}
  /\ undeleted' = (undeleted \/ file'.exists)
  /\ tried' = FALSE /\ wiped' = FALSE /\ UNCHANGED forced

Init ==
  /\ wpc = "idle" /\ link = FALSE
  /\ session = FALSE /\ force = FALSE /\ cooling = FALSE /\ reason = "none"
  /\ req = 0 /\ flight = 0 /\ events = <<>> /\ verdict = 0
  /\ offset = 0 /\ tries = 2 /\ file = NoFile
  /\ tried = FALSE /\ forced = 0 /\ undeleted = FALSE
  /\ wiped = FALSE /\ boots = 0

Cycle ==
  \/ BeginSession \/ Skip \/ Ask \/ Receive \/ WaitTimeout \/ ReadAnswer
  \/ QuerySize \/ MakeSpace \/ OpenImage \/ Chunk \/ ChunkFails \/ WriteFails
  \/ CloseImage \/ DeleteImage \/ EndStep

Next ==
  \/ Gates \/ Cycle \/ Complete
  \/ ForceUpdate \/ WipeImage \/ LinkChanges \/ CooldownEnds \/ Restart

Spec == Init /\ [][Next]_vars

\* WEMAIN runs on: its waits time out and its synchronous requests return.
\* Nothing is assumed of the kernel's worker.
FairSpec == Spec /\ WF_vars(Cycle)

-----------------------------------------------------------------------------
(* Properties *)

\* Types and ranges of the state.
TypeOK ==
  /\ wpc \in {"idle", "gated", "dispatch", "done", "ending"} \cup WaitStates \cup LoadStates
  /\ link \in BOOLEAN /\ session \in BOOLEAN /\ force \in BOOLEAN /\ cooling \in BOOLEAN
  /\ reason \in {"none", "version check", "no update", "download", "ok"}
  /\ req \in 0..MaxRequests /\ flight \in 0..MaxRequests /\ verdict \in 0..MaxRequests
  /\ events \in Seq([id : 1..MaxRequests, ok : BOOLEAN])
  /\ offset \in 0..Size /\ tries \in 0..2
  /\ file \in [exists : BOOLEAN, length : 0..Size]
  /\ tried \in BOOLEAN /\ forced \in 0..MaxForced
  /\ undeleted \in BOOLEAN /\ wiped \in BOOLEAN /\ boots \in 0..MaxBoots

\* ota_download_write_simcom: what a finished cycle reports as loaded is the
\* whole image, unless a command has deleted it, then or while it was loaded;
\* and no part of one stays behind in the flash unless a deletion failed: after
\* a failed read, a short one, a failed write or close, a power loss or a
\* command at any moment.
ImageIsWhole ==
  wpc = "idle" =>
    /\ reason = "ok" => file = Image(Size) \/ (file = NoFile /\ wiped)
    /\ file.exists => file.length = Size \/ undeleted

\* https_wait_action_event: an event that is taken for the answer belongs to
\* this version check or to the one before it, and the queue never fills:
\* however many checks time out, the lag does not grow.
VerdictIsRecent == (wpc = "read" => verdict >= req - 1) /\ Len(events) <= 2

\* FORCED-OTA: what the command answered with success leads to a version
\* check before the flag is cleared, whatever WEMAIN was doing at the time.
ForcedCycleRuns == [][force /\ ~force' /\ boots' = boots => tried]_vars

\* session_active: no failure, timeout or answer that never comes leaves the
\* manager busy for ever.
SessionEnds == session ~> ~session
=============================================================================
