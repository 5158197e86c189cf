# TLA+ models of the WheelsEye gateway firmware

The program is the application `weware_app` of the vehicle gateway
(`src/Code/sdk/wm_src/weware_app`, about 23,000 lines of C): it reads GPS
positions, packs them into rows, keeps them while there is no connection and
delivers them to a server over TCP. Everything else in the repository is the
vendor's modem SDK, third-party libraries, prebuilt tools and the vendor's demo
application, and is not modelled.

## The system

| Component | State it keeps | Operations | Hard behaviour |
|---|---|---|---|
| Send queue, `common/queue_manager.c` | ring in RAM, overflow file, snapshot, read offset | push, pop, peek batch, pop tail, persist, load, clear | eviction while a batch is in flight, full file, failing file calls, reset between two writes |
| TCP client, `module/tcp/tcp.c`, `tcp_ops.c` | a 15-state machine, bytes sent and acknowledged, the size of the batch | one handler per state, a timeout per state, socket callbacks | callbacks of another task change the state a handler is about to change |
| Socket monitor, `module/tcp/sdk_walnut_socket_poll.c` | a slot per socket: pending connect, unacknowledged bytes | polls every socket, calls the client back | events lost, early, or of the previous socket |
| Reset and boot, `system/reset/*` | pending and executing reset, the pre-boot record and its cache | request, defer, persist, reset, read at boot | two tasks stage the same record and a third deletes its file; requests overlap store by store; a torn file |
| Main loop and module manager, `weware_main.c`, `module/module_manager.c` | modules, their initialisation, the uptimes the tasks report | initialise with retry, watch for stalls, persist queues | partial initialisation, a stalled task, a reset that fails |
| Event manager, `common/event_manager.c` | callbacks by event type | register, broadcast | a callback broadcasts in turn |
| Network, SIM, URC, `module/network`, `module/sim`, `module/urc` | registration and PDP state, SIM state, modem lines | state machines with timeouts, health check | a timeout races a late answer; the overall timeout resets the device |
| Command, SMS, UART, `module/command`, `module/sms`, `module/uart` | command and response queues | parse, execute, route the response back | a full queue, a response for a module that is gone |
| GPS, `module/gps` | power of the receiver, streak of failures, latches, triggers, last position | power up, sample, trigger, build a row, push; switch on and off | commands between any two steps; edges latched while a packet is sent |
| OTA, `system/ota` | session, forced cycle, version check, download | check the version, download in chunks, end the session | an answer that comes after its wait, a command in the middle of a cycle, a partial image |
| System, `system/*.c` | voltages, ignition, motion, charge | poll, debounce, report the edges | readings between two levels; edges before anybody listens |
| Configuration, `config/config.c` | the configurations in force, the file | load with retries, save entry by entry | a file cut at any byte, calls that fail |

The parts meet in four places. Producers (GPS, command responses) push rows into
the send queue from their own tasks. The TCP client peeks and pops them from
TCPCLI, driven by events that the monitor task TCPMON calls into it. The main
task WEMAIN watches the other tasks, and persists the queue and resets the
device when an event (network timeout, stalled task, command) asked for it. The
command task, of the highest priority, changes the state of OTA, GPS and the
reset handler in the middle of their steps. All of them write files in flash, the
TCP client and WEMAIN write the same pre-boot record, and FACTORY-RESET and
DELETE-FOLDER delete the record, the image, the configuration and the overflow file
under whoever uses them.

`PROJECT.json` lists every component with its files and whether it is modelled,
and every hazard with the line where it bites and the properties that cover it.

## The modules

| Module | Part | Abstraction |
|---|---|---|
| `TcpSendQueue` (`MCTcpSendQueue`, `TcpSendQueueProofs`) | the queue `TCP_SEND_Q`, the consumer's batch and the persistence around a reset | rows are numbers, a unit of the file is a record |
| `StoreAndForward` | what such a queue promises, as one sequence of rows | the abstract specification of `TcpSendQueue` |
| `TcpClient` (`TcpClientProofs`) | the client's state machine and the socket monitor | bytes in units, time as "the timeout is over" |
| `CommandPath` (`MCCommandPath`, `CommandProofs`) | a command of the server: socket, `recv_pending`, `CMD_REQUEST_Q`, cmdTask, answer | what the server sends is numbered pieces |
| `NetworkManager` (`MCNetworkManager`, `NetworkManagerProofs`) | the network module, the SIM detection and the URCs | modem answers are choices |
| `PreBootHandler` (`MCPreBootHandler`, `PreBootHandlerProofs`) | the pre-boot record, written by WEMAIN and TCPCLI, deleted by cmdTask | a field holds the run that wrote it |
| `Supervisor` (`MCSupervisor`, `SupervisorProofs`) | the main loop, the watchdog and the deferred reset | times in seconds up to their limit |
| `OtaManager` (`MCOtaManager`, `OtaManagerProofs`) | the update cycle, the HTTPS adapter, the download | the image as a length |
| `GpsReceiver` (`MCGpsReceiver`, `VehicleProofs`) | the receiver's power and the reboot of a silent receiver | a pair of sentences is one flag |
| `VehicleReport` (`MCVehicleReport`, `VehicleProofs`) | from the voltages to a packet: debounce, latches, trigger | voltages by level |
| `ConfigStore` (`MCConfigStore`, `CommandProofs`) | the stored configuration | a configuration is the command that set it |

An `MC` module names values for TLC; a `Proofs` module holds the theorems. Two of these
are about two modules of one task, `VehicleProofs` and `CommandProofs`; so that both can
be extended, `GpsReceiver` and `ConfigStore` call their parts `ReceiverInit`,
`ReceiverNext`, `ConfigInit`, `ConfigNext` and so on. In
every module an action ends where another task can come in between and it
matters, which the priorities decide: cmdTask interrupts WEMAIN, WEMAIN interrupts
every other task of the application; the others, TCPCLI and TCPMON among them, share
one priority and take turns wherever one of them calls out.

### TcpSendQueue

| Variable | In the code |
|---|---|
| `ring`, `head`, `tail`, `count` | `struct Queue`: the buffer and its indices |
| `file`, `readOffset` | the overflow file, `q->file_size` (`Len(file)`) and `q->file_read_offset` |
| `dat` | the snapshot file: none, readable, or cut short by a failed write |
| `savedOffset` | `tcp_send_queue_file_read_offset` of the pre-boot record, 0 if not valid |
| `cpc`, `batch`, `live`, `clearWhat` | where TCPCLI is between two queue operations: the rows peeked, the row taken from the tail, what the clean-up after an ACK decided |
| `wemain` | where WEMAIN is in `persist_and_reset` |
| `phase` | which part of `queue_manager_create` the boot has reached |
| `nextRow`, `consumed`, `dropped`, `cleared`, `promised`, `forgotten` | history: what was accepted, popped, shed; what the snapshot held when it was saved; what a deleted snapshot held |

Rows are numbered in the order they are accepted. A unit of the file is a
record; sizes and offsets are in records, so records are of equal size. A row
with an entry in `Type39` is one whose packet type the overflow file does not
store (a BLE command response). Every queue operation holds the queue's mutex
from its first read to its last write and is one action; two are not:
`queue_persist_clear_snapshot_after_consume` decides under the lock and deletes
after it (`ClearCheck`, `ClearSnapshot`), and `queue_manager_persist` writes the
snapshot under the lock and the offset without it (`SaveSnapshot`,
`SaveOffset`). The two restoring steps of `queue_manager_create` are separate
actions because power may be lost between them. `IOFaults` names the file
operations that may fail: the append of an evicted row, the opening of the
overflow file by a peek or by a pop, the writing of the snapshot and of the
pre-boot record.

Left out of this module: records torn by a write that fails half way (the bytes
already written stay at the end of the file, uncounted, `queue_manager.c:123-126`), so
every property and theorem is about appends that succeed or leave nothing; overflow
files that cannot be deleted, a file that cannot be opened while booting, the
batch dropped because no row of it is a valid packet, and the commands
FACTORY-RESET and DELETE-FOLDER, which delete the overflow file under the queue.
The cached copy of the pre-boot record, which a second task stages at the same
time, is the subject of `PreBootHandler`.

- `IndexInv`: types, and the indices of the ring, of the snapshot and of the file
  agree (`RingConsistent`, `OverflowInBounds`).
- `HoldsTheNewest`: until a restart and without the live-first option the queue
  is exactly the newest accepted rows, in order. Eviction, clearing and popping
  all have to be right together.
- `NothingLost`: a row that is not queued was popped after an ACK, or was in a file
  that was cleared to make room. Popped is not delivered: if a full file is cleared
  with a batch in flight, the ACK pops as many rows, which are others and were not sent
  (`BatchIsNext` excludes the case, `consumed` counts them).
- `BatchIsNext`: the rows of the batch in flight are the ones the pop will
  remove, whatever is pushed meanwhile.
- `RebootKeepsRows`: a persisted reset keeps every row of its snapshot, apart
  from the ways described under "Known counterexamples".
- `IsStoreAndForward`: every step of the queue is a step of `StoreAndForward`,
  with the unread overflow followed by the ring as the abstract sequence.

### TcpClient

| Variable | In the code |
|---|---|
| `state`, `tcp_fd`, `last_connected_state`, `session_up` | the fields of `g_tcp_client`; `tcp_fd` is whether it holds a socket |
| `bytesSent`, `bytesAcked`, `batchCount` | `tcp_bytes_sent` (0 for -1), `tcp_bytes_acked`, `tcp_send_queue_batch_count` |
| `lastState`, `expired` | `last_state`, and whether the timeout of the state is over |
| `down` | the age of `session_down_since`: just anchored, running, past the overall timeout |
| `pc`, `next`, `job` | where TCPCLI is in its iteration, the state `HANDLE_STATE` is about to write, the frame it is sending |
| `slot` | the monitor's `SocketPollSlot` of `tcp_fd` |
| `mon`, `lag` | where TCPMON is and the event it carries; the iterations TCPCLI has begun meanwhile |
| `conn`, `inflight` | lwIP's connection and the units it has sent and the peer has not acknowledged |
| `leaked`, `inFrame` | history: sockets left open, rows lwIP accepted of the frame in flight |

`g_tcp_client` is shared by two tasks without a lock. TCPCLI runs an iteration of
the machine every 200 ms: it restarts the clock of a new state (`CliBegin`),
applies the state's timeout (`CliExpire`) and the overall one (`CliOverall`), runs
the handler (`Handle...`) and writes the state the handler's result selects
(`CliWrite`). TCPMON polls the socket (`MonService`, then `MonExcept`, `MonConnect`
or `MonSndbuf`), or finds an acknowledgement to synthesize (`MonSynthAck`), enters
`tcp_socket_event_callback` (`MonCall...`) and writes the state (`MonSet...`). A
step ends where the other task can come in between and it matters: a call into
lwIP, a log line, a shared variable written later than the one before. That is
why a send takes four steps: lwIP accepts the bytes, `note_sent` tells the monitor,
and `tcp_bytes_sent`, `tcp_bytes_acked` and the batch are written after it.

Time: `expired` becomes true at any moment after the state was entered. The overall
timeout is five minutes from the last CONNECTED or ACK_RECEIVED, and the states
that lead to INIT from there time out after 100, 30 and 20 seconds, so it is never
over before INIT: `down` starts to run there. `Restart` stands for the watchdog
after a call of a null pointer.

`MaxLag` is the relative speed of the tasks: how many iterations TCPCLI may begin
while TCPMON is inside one callback. With 1, the callback's last write may fall
anywhere within the next iteration, 200 ms later. The passing run and its
properties are for `MaxLag = 1`. With 3 a stale ACK_RECEIVED can be written after
the next frame was sent and `PopOnlyAcked` fails: the code relies on the monitor
not being held up that long. `ClientTypeCorrect` and `DrainNeverOverReports` are
proved for every `MaxLag`, the other three properties for `MaxLag <= 1`.

Left out: received data (`recv_pending` influences no state; it is the subject of
`CommandPath`), the SENDPLUS and SENDMINUS events (they only log), the configuration of the
server, and `weware_tcp_reset_connection`, which nothing calls. Events of a leaked
socket are not followed: the callback ignores a socket that is not `tcp_fd`. A
socket number reused by lwIP while an event of its predecessor is carried is
followed, since `CloseSocket` leaves `mon` as it is.

- `PopOnlyAcked`: a batch is popped only when the peer has acknowledged everything
  lwIP accepted of it, on the socket it was sent on. Close events, timeouts and
  late callbacks all try to break it.
- `OneFrameInFlight`: no frame is sent while bytes of another are in flight, so the
  single counter of bytes sent is enough.
- `DrainIsAcknowledged`: the monitor compares readings of the free send buffer, at
  moments of its own, with bytes another task adds; it never reports too much.
- `AnnouncedWhileOpen`: the modules that follow EVENT_TCP_CONNECTED have been told
  while a session is up or a frame is sent on an open socket.
- `KeepsTrying`: again and again the client waits for the network or has a frame
  acknowledged. The fairness is that both tasks keep running (weak fairness of
  `TCPCLI` and of `TCPMON`, two tasks of a preemptive scheduler that sleep in every
  pass) and that time passes; nothing is assumed of the network, of lwIP or of the
  server, and the two tasks may race in every iteration. The property does not catch a
  lost socket ("A socket is lost" below): the client then recovers by a restart of the
  device, which counts as starting over.

### CommandPath

| Variable | In the code |
|---|---|
| `stream`, `open`, `pending` | what lwIP has received and nobody has read, whether `tcp_fd` holds a socket, `connect_pending` of its slot |
| `flag` | `recv_pending` |
| `mon` | where TCPMON is: before `select`, about to call back, about to set the flag |
| `cli`, `msg` | where TCPCLI is, and `g_tcp_cmd_msg` |
| `cmd`, `text` | where cmdTask is, and the request it has popped |
| `buf`, `head`, `tail`, `count`, `lock`, `seen` | `CMD_REQUEST_Q`, its mutex, and the count read by the task that holds it |
| `sent`, `sessions`, `accepted`, `processed`, `fate` | history: pieces and connections so far, messages pushed and executed, what became of each piece |

TCPMON calls RCVPLUS in every pass that finds data (`MonReadable`, `MonCall`,
`MonSet`); TCPCLI, once per iteration, receives if the flag is set (`CliRecv`) and
clears it when there was nothing (`CliClear`), without a lock between them. A recv
takes one piece or several; what it takes is one message, less than five bytes are
skipped, and a message goes to the queue or, if that is full, is logged and gone
(`PushLock`, `PushFull`, `PushCopy`, `PushCount`). cmdTask takes one message
(`PopLock`, `PopEmpty`, `PopCopy`, `PopCount`), executes it and routes the response
(`Process`). The copy into or out of the ring and the write of `count` from the value
read before are separate steps, so that the mutex has something to protect. The
socket may close before any iteration, for any reason.

Left out: the second producer of the queue, the SMS task, which never hands a command
on (see "Not modelled"); what a command does, which the other modules have as steps of
cmdTask; a socket that `TcpClient` leaks, whose data nobody reads.

- `AcceptedInOrder`: every accepted message is executed once, in the order of arrival,
  although one task fills the ring and one of a higher priority drains it.
  `module_config.c:127-134` tells what happened when the queue had no mutex.
- `EveryPieceSettled`: what the server sends is read, refused, skipped, or executed,
  or its connection closes first. `CliClear` may overwrite a flag set a moment before;
  that is repaired because TCPMON signals as long as there is data. Fairness: the three
  tasks keep running (weak: each sleeps in its round and is scheduled again), and
  `PushLock` gets the mutex in the end (strong: cmdTask, which competes for it, sleeps
  100 ms after each pop). A pass of TCPMON that reports an exception instead of data
  (`sdk_walnut_socket_poll.c:144-160`) is left out: the property assumes that the
  spurious exceptions the comment describes do not last for ever.

### NetworkManager

| Variable | In the code |
|---|---|
| `state`, `connected`, `cfunStep` | the fields of `g_network` |
| `lastState`, `stateTime`, `downTime` | `last_state`, the time since `state_entry_tick` and since `not_connected_since` |
| `connStart` | whether `connected_start_ticks`, a static of the handler of CONNECTED, is set |
| `net` | where NETMGR is in its iteration, the state `network_set_state` is to write and where it goes on |
| `urcq` | `NET_URC_Q` |
| `simAvailable`, `debounceInserted`, `debounceMatches` | the fields of `g_sim` |
| `simAt` | where SIMDET is: before the poll, at the AT command, before the broadcast |
| `radioOn` | the modem's CFUN |
| `resetRequested` | EVENT_RESET_SOFT was broadcast |
| `due` | the tasks that still have to run before time passes |
| `dips` | history: restarts of the radio since a sample last found the SIM |

NETMGR runs an iteration every 100 ms: `NetDrainUrc` for each queued URC,
`NetTimers` and `NetExpire` for the timeout of the state, `NetOverall` for the
overall one, and one handler. Every `network_set_state` is two steps, `NetGuard`
and `NetStore`, because SIMDET may set RESTART_CFUN between them: the broadcast of
the SIM event runs `network_on_sim_available` in SIMDET (`SimNotify`). SIMDET
reads the network's state (`SimPoll`), asks the modem (`SimSample`, with the
debounce and `weware_sim_set_sim_available`), and broadcasts. With its radio off
the modem says the SIM is absent; whether the SIM is in its tray is chosen at each
sample. What the modem answers to any command is a choice, and `ModemFaults` names
the commands that may fail.

Time passes (`Tick`) in units in which both tasks run at least once. The dwells of
2 and 3 s of the CFUN cycle are over when SIMDET, which polls every second, has
run once. A reset (`SocReset`) may come at any moment after the request; the modem
restarts with it.

Left out: the radio snapshot and `stable_network`, which decide nothing, the APN
commands, the SIM_REMOVE state, which nothing sets, and the URC processor's own
queue. A URC may be lost when `NET_URC_Q` is full: it then never arrives.

- `CfunCycleKept`: while a CFUN cycle is half done the state is RESTART_CFUN. URCs,
  timeouts and SIMDET's writes all compete with it.
- `BringUpIsDown`: no state of the bring-up has the connected flag up, although
  GET_IP sets it on every pass, after its state write, and the machine may be taken
  to RESTART_CFUN from anywhere.
- `NoFakeRemoval`: the gate is read before the AT command, so the sample under way
  may be wrong. At most one per restart is: a SIM in its tray is reported removed
  only after as many restarts in a row, without a good sample, as the debounce asks
  for samples (three), or after a restart that gave up and left the radio off. The
  comment at sim.c:146-161 promises a little more: no fake removal at all.

### PreBootHandler

| Variable | In the code |
|---|---|
| `disk` | `weware_preboot.bin`: none (or deleted), cut short, or a whole record |
| `cache`, `prior` | `s_disk` and `s_prior` of `pre_boot_handler.c` |
| `op` | for WEMAIN and for TCPCLI: where the task is in `disk_store` (`deleted`: between the open and the write, with the file deleted) and the record it has copied |
| `wpc` | where WEMAIN is, from `pre_boot_handler_load_prior_reset` to `SDK_SYSTEM_RESET` |
| `run` | number of this run; a record holds the number of the run that stored its reset slot or its offset |
| `saves`, `kept`, `promised`, `lastUp`, `mishaps` | history: planned resets written; whether the slot of the last one is in the file still; what the next boot owes; what went wrong on the way |

`disk_store` is four steps, because two tasks run it without a lock and because a
power loss may fall between them: the copy of the cache with its change (`Start`),
the open with "wb+", which empties the file (`Open`), the write and the close
(`Write`), and the cache (`CacheSet`). Each of the file operations in `Faults` may
fail, and a write that fails leaves the file short or whole. The boot reads the
record, reports and clears its reset slot, and takes the offset for the queue
(`LoadRecord`, `BootWritten`, `TakeOffset`, `OffsetTaken`); a reset writes the slot,
then the offset of the persisted queue, then waits (`BeginSave` to `OffsetDone`),
and may come back (`ResetReturns`). TCPCLI clears the offset at any moment
(`TcpClear`). cmdTask deletes the file at any moment once the system is up, and leaves
the cache (`DeleteRecord`): FACTORY-RESET (`file_system.c:575-580` lists the directory)
and `DELETE-FOLDER preboot` (`command_handler.c:706`). What is written to a file that
was deleted while it was open is in the file or lost (`Filled`). The soft reset that
FACTORY-RESET asks for afterwards is a `BeginSave` and writes the record from the cache
again; a power loss may come first.

`mishaps` names what the properties have to know: `raced`, the writes of the two tasks
overlapped; `failed`, a file operation failed; `torn`, power was lost with the file
empty or in part; `wiped`, a command deleted the file; `lost`, a run ended with the file
deleted and resets counted.

Left out: the reason and the timestamp in the slot, which are written and read
with it.

- `PlannedIsReported`: the boot after a planned reset reports it, if no write of it
  failed or overlapped one of TCPCLI and no command deleted the file between the write
  and the reset (`kept`).
- `ReportIsNew`: what a boot reports was planned by the last run that came up;
  neither races nor torn nor deleted files make it report an old reset as new, unless a
  call failed.
- `TotalCountsSaves`: without mishaps the counter is exact over all runs. A deletion
  alone does not break it: the next write of the run brings the count back from the
  cache. A deletion that no write follows before the run ends does (`lost`).
- `CacheIsDisk`: without mishaps the cache is what a reboot would find; after a deletion
  the file has the cache's record or is missing, never an older one.

### Supervisor

| Variable | In the code |
|---|---|
| `wpc`, `round`, `next` | WEMAIN: the rounds of `module_manager_init`, then where it is in its loop |
| `registered` | `reset_handler_init` was reached |
| `pending`, `executing`, `type`, `due` | `g_deferred`; `due`: the delay is over |
| `npc` | NETMGR between two stores of `schedule_reset` |
| `ready`, `fed` | `status.initialized`, and the age of `status.task_uptime_sec` |
| `silent`, `stuck` | how long a task has not run and whether it hangs: not in the code |
| `lag` | the age of the uptime that `module_manager_monitor_tasks` has read |
| `asked` | history: a reset was scheduled since one was begun |

A request for a reset runs `schedule_reset` in the task that raises the event:
in one step from cmdTask and WEMAIN, which nothing of lower priority interrupts,
and store by store from NETMGR. WEMAIN asks for one after 24 hours or for a stalled
task, and carries it out (`Deferred`, `Execute`), and the SoC reset may come back.
The comparison of `module_manager_monitor_tasks` is two steps, since cmdTask may
store a later uptime between them; the subtraction is in `UINT32`, modulo `Wrap`.

Left out: the hard type, as nothing raises EVENT_RESET_HARD; the connection flags,
which only the log and a command read.

- `StallHasCause`: no task is blamed that ran in time and before the uptime was
  read; in particular none whose start waited for the other modules.
- `ResetIsAsked`: a reset is begun only if one was scheduled since the last one
  was begun, in whatever order the stores of NETMGR fall.
- `StallResets`: a task that hangs leads to a reset of the device. Fairness: WEMAIN
  and NETMGR run on and time passes (weak), and an SoC reset that is tried again and
  again works in the end (strong); nothing else that is supervised has to run.

### OtaManager

| Variable | In the code |
|---|---|
| `wpc` | where WEMAIN is in `ota_manager_check_and_update` and the functions it calls |
| `link` | `ota_prerequisites_ok` |
| `session`, `force`, `cooling`, `reason` | fields of `g_ota_state`; `cooling`: `last_check_ticks` is set and not yet 12 hours old |
| `req`, `flight`, `events` | the version checks accepted by the kernel's client, the one under way, `g_https_evt_msgq` |
| `verdict` | history: the request whose event ended the last wait |
| `offset`, `tries`, `file` | the download and the image file |
| `tried`, `forced`, `undeleted`, `wiped`, `boots` | history; `wiped`: a command has deleted the image since it was opened |

The gates, the version check (asked, then waited for, then read), the download
chunk by chunk and the two stores that end a cycle are steps of WEMAIN. Between any
two of them cmdTask may accept a FORCED-OTA (`ForceUpdate`), or delete the image with
FACTORY-RESET or `DELETE-FOLDER fota` (`WipeImage`); what is then written to the open
file is lost, and the manager reports the image all the same. The kernel's client
answers when it likes or never (`Complete`); a wait gives up after 60 seconds
(`WaitTimeout`) and leaves the request to the kernel. A chunk may be short, fail,
be written in part; the close or the deletion of the file may fail; power may be
lost anywhere.

Left out: parsing of the answer, the installation path, which OTA_DOWNLOAD_TEST
compiles out, and the percentage that is reported. A chunk is no longer than what was
asked for, which is the contract of the SDK (`wm_sdk_https.h:240-250`) and not a check of
the code: `ota_file_download.c:351-354` cuts a longer one at the size of the buffer only,
so `ImageIsWhole` rests on the contract for the last chunk.

- `ImageIsWhole`: an image reported as loaded is all of it, or a command has deleted it,
  then or while it was loaded; and a part of one stays behind only if a deletion failed.
- `VerdictIsRecent`: a late event is taken for the answer to the next check at
  worst; the lag does not grow with the number of timeouts.
- `ForcedCycleRuns`: the flag of an accepted command is cleared only after a version
  check.
- `SessionEnds`: whatever fails or never answers, the manager does not stay busy.
  Fairness: WEMAIN runs on (weak); nothing is assumed of the kernel's client.

### GpsReceiver

| Variable | In the code |
|---|---|
| `place`, `cmd` | where the GPS task is in its pass; cmdTask is in the call that cuts the power |
| `power`, `nmea` | the receiver, and whether `urc_q` holds a pair of sentences |
| `setup`, `forced`, `streak` | `s_pwr_nmea_setup_done`, `s_gps_power_forced_off`, `s_parse_fail_streak` |
| `silent`, `reboots`, `commands` | history: failures in a row while the receiver was asked to be on; reboots; commands |

The GPS task tests the flags, sleeps, powers up, configures, samples and counts;
SET-GPS-OFF cuts the power and sets the flag, SET-GPS-ON clears flags, at any moment.

Left out: the parsing of sentences, the ladder of mode, rate and start mode, A-GPS,
the jump filter and the file of the last valid position. `wm_sdk_system_reboot` is
assumed to work: the code asks for one reboot only, and if that came back
`s_parse_fail_reset_sent` would stop the counting until a sample parses or a command
resets it (`gps_ops.c:371`, 1137, 1143, 1459). For `RebootIsDeserved` that makes no
difference; `OnIsOn` depends on it, since a receiver that two commands left without
power during its bring-up comes back only by this reboot.

- `RebootIsDeserved`: the GPS task reboots the device only after the limit of failed
  samples in a row during which nobody had switched the receiver off.
- `OnIsOn`: a receiver nobody holds off gets power. Fairness: the GPS task and the
  call of cmdTask go on (weak), and the power-up works if tried again and again
  (strong).

### VehicleReport

| Variable | In the code |
|---|---|
| `boot` | how far `weware_main` has come: system manager, then GPS manager |
| `pi` | `PowerInfo` with the statics that remember what was last reported |
| `polls`, `stopped` | `s_ign_debounce_count`, the age of `s_motion_stop_since_uptime` |
| `latch`, `trigger`, `due` | the statuses and `should_trigger` of `g_gps`, and whether the interval has passed |
| `gpc`, `packet`, `queued` | the GPS task, the packet it has built, the last one in the queue |
| `onRun`, `still` | history: readings at the on level in a row; time since a poll found motion |

A poll of WEMAIN is one step, as no other task of this module interrupts it; the
GPS task takes four, and a poll may come between any two. A push may fail.

Left out: the soft ignition by battery voltage, the battery percentage, the network
light, the content of a packet apart from the three statuses.

- `SteadyState`: the ignition is on only after enough readings in a row at the on
  level, and motion ends only when no poll has found any for the debounce time.
- `StateReported`: what a latch holds is in a packet in the end, or it has changed
  again, although `should_trigger` is cleared after the packet and even when the push
  failed. Fairness: the GPS task runs and the interval passes (weak), a queue that is
  tried again and again takes a row (strong). The last is an assumption about the
  connection and not only about the queue: while the server is away and a row of type 39
  is the oldest of a full ring, every push is refused (`queue_manager.c:117`), and the
  state is reported only after that row was sent.

### ConfigStore

| Variable | In the code |
|---|---|
| `ram` | the configurations in force, by the command that set them |
| `file` | `C:/config`: its header, its entries, and the module of a torn last one |
| `pc`, `idx`, `tries` | where `config_load_from_file` or `config_save_to_file` is |
| `stale`, `lost` | the handle was closed by the retry; the position is not that of an entry |
| `fresh`, `calm`, `promise`, `sets`, `boots` | history |

Only one task is ever in this code; a restart may come between any two calls, and the
calls in `Faults` may fail: open, read, seek, write, close (with the sync before it) and
delete. The result of the seek past an entry of another module (`config.c:530`) and of
the last sync and close (630-631) is ignored: the load goes on at a wrong position
(`SkipFails`), the save is reported as done with a file that may end anywhere
(`CloseFails`). A save opens the file, which empties it, writes the number of
entries and then each in two parts. A read that is short leaves a configuration
mixed, valid or not.

Left out: a configuration whose size another firmware changed without a new file
version, and with it the seeks of `load_module_config` (271, 279); the getters.

- `ReportedIsKept`: what a save reported as done is in force after any number of
  boots, until a later save is begun, the file is wiped, or a call that reads it or the
  close of that save fails.
- `StableBoots`: a boot without a failing call leaves a file from which the next
  loads the same, wherever an earlier save was cut; not so for a configuration whose
  own entry is torn.

## The runs

| Run | Bounds | What it shows |
|---|---|---|
| `queue_fifo` | ring of 3, file of 2, batches of 2, 7 rows, one boot; appends, pops and snapshots may fail; row 4 is of type 39 | order, completeness and the refinement; the ring wraps twice, the file fills and is cleared with a batch in flight |
| `queue_reboot` | ring of 2, file of 2, batches of 1, 4 rows, one restart; live-first; the same failures | restarts at every step; rows in the file, in the ring and in the snapshot at once |
| `tcp_client` | send buffer and frame of 2 units, batches of 1, 2 slots, `MaxLag` 1 | the invariants and `KeepsTrying` over all interleavings: 379,887 states |
| `tcp_rows_popped` | batches of 2 rows of which 1 fits a frame | rows that were never sent are popped (a finding) |
| `commands` | 4 pieces of which one may be short and one is for the STM, 2 connections, a queue of 2 | every interleaving of the three tasks, with closes and a full queue: 27,234 states |
| `network` | timeouts of 1 unit, overall 2, 2 samples to settle, a URC queue of 1, any of the commands of `ModemCalls` failing | the invariants over all interleavings: about a million states |
| `pre_boot` | 3 runs, 2 planned resets, every file operation may fail | every overlap of the two tasks, a deletion of the file and a power loss at every step: 771,619 states |
| `supervisor` | 2 tasks of which one above WEMAIN, timeout of 2 s, 2 rounds, 32 bits as 3, 2 runs | the watchdog and the deferred reset, with a reset that fails: 85,898 states |
| `ota` | image of 3 units in chunks of 2, queue of 4, 3 version checks, 2 commands, one restart | late answers, short and failing chunks, commands at every step, deletions of the image among them: 222,716 states |
| `gps_receiver` | reboot after 3 failures, 5 commands | two rounds of off and on within one bring-up: 5,648 states |
| `vehicle` | 3 readings, 2 s of stop debounce | every sequence of voltages against every step of the GPS task: 36,202 states |
| `config` | 3 modules, one set in RAM only, 3 reads of the header, 2 commands, 2 restarts, every call of `Faults` may fail | every place where a save or a load can be cut or its end be lost: 500,248 states |

The bounds are those the interesting cases need and no less. The capacities of the
queue (7 slots, 200 KB) matter only through "empty", "full" and "wraps".
`MaxBatch < Capacity` is assumed, as in the code (5 of 7). Two units are enough for a
frame that lwIP takes in part, one that is acknowledged in part, a buffer that is full
and one that is drained between two readings; two slots are the code's number. The
network's timeouts of 1 let every state expire and every state be left in time, 2
samples are the least that differ from 1, and a queue of one URC delivers any sequence
of them, an iteration each. Three runs of the program are a planned reset, the boot
that reports it and one that must not report it again; two saves let one be retried.
An image of three units in chunks of two leaves an odd remainder; three version checks
let a late event be followed by two more. Four pieces fill a queue of two while a message
executes and let one be refused; the code's five slots would need seven. What is bounded by a count of commands, rows
or restarts stops when the count is used up: those runs do not check deadlock
(`queue_fifo`, `queue_reboot`, `pre_boot`, `supervisor`, `ota`, `config`). The others
do (in `commands` cmdTask looks into its queue for ever): the client, the network, the receiver and the vehicle state never stop.

Liveness is stated where the code promises it (`KeepsTrying`, `StallResets`,
`SessionEnds`, `OnIsOn`, `StateReported`, `EveryPieceSettled`), with the fairness given with each. Weak
fairness is always that of a task's step or of time: the tasks belong to a preemptive
scheduler and sleep in every pass. Strong fairness is only assumed of a call of the SDK
that is tried again and again, a mutex among them. The queue, the network, the boot record and the
configuration assume none: their properties are safety.

The type invariants of `NetworkManager`, `PreBootHandler` and `GpsReceiver` are proved and
in no run; the others are in their runs.

A definition `D_x` beside a definition `D` is `D` with a slip. Replacing one by
the other makes a property fail: `PROJECT.json` pairs each property of a passing
run with one.

## Known counterexamples

One disagreement between the code and a comment is a run that ends in a counterexample
(`findings` in `PROJECT.json`): `tcp_rows_popped`. The following are behaviours of the modules as well. No property
claims their opposite, and the properties say where they stop because of them.

Send queue and persistence:

- *Rows sent twice, out of order* (`reset_handler.c:56`). `SaveSnapshot` saves the ring
  1, 2; the device keeps running for up to 10 s; pushes of 3 and 4 evict 1 and 2 to the
  file; after the reset the file is read first, then the snapshot: 1, 2, 1, 2. Rows 3
  and 4 were accepted and are gone.
- *Snapshot deleted after it was saved* (`queue_manager.c:450`). An ACK empties the ring
  and `ClearCheck` decides to delete the snapshot; a row is pushed; WEMAIN saves the
  snapshot with it; `ClearSnapshot` deletes that. `src/WALNUT_INTEGRATION_PROGRESS.md:117`
  says that unacknowledged rows survive a persisted reboot. The variable `forgotten` holds
  such rows and `RebootKeepsRows` leaves them out.
- *Offset of a deleted file* (`queue_manager.c:238`). The offset is saved, the file is
  cleared because it is full and a new one is begun, the reset comes: the boot skips as
  many rows of the new file.
- *Row of the live-first option* (`tcp_ops.c:219`). The newest row is popped from the tail
  before its frame is sent; if the frame is not acknowledged it is not put back.
- *Peek of a file that cannot be opened* (`queue_manager.c:189`). The peek then starts
  with the ring, and the pop, which can open the file, removes rows of the file that
  were not sent. With "peek" in `IOFaults`, `BatchIsNext` fails; it is kept out of the
  runs and excluded in `BatchStaysNext`.

Client and network:

- *CONNECTED is reported once* (`sdk_walnut_socket_poll.c:194`). If the handler of
  CONNECTING overwrites it, the client waits for its timeout; the comment at `tcp.c:146`
  says it is delivered again.
- *A socket is lost* (`tcp.c:378`). A timeout chosen before a close event turns CLOSED
  into INIT, and no handler closes the socket. With both slots lost, the client recovers
  by a restart. No property bounds what is lost; `leaked` counts it.
- *A null callback* (`sdk_walnut_socket_poll.c:196`). The monitor tests the callback of a
  slot, the client releases the slot, the monitor calls it.
- *The device is not reset without a network* (`network.c:647`). Every bring-up passes
  CHECK_SIM, which restarts the overall timeout of ten minutes; no bring-up is as long.
- *A new SIM keeps the old registration* (`network.c:596`). The RESTART_CFUN that SIMDET
  stores is overwritten by a store of NETMGR that had passed its guard.

Commands:

- *A refused command is not answered* (`tcp.c:206`). The queue is full while a long command
  executes; the message is logged and dropped.
- *A command for the STM is not answered* (`utils.c:1036`). A command with the prefix `STM:`
  finds the UART module disabled (`module_config.c:82`) and leaves its response empty
  (`command_handler.c:319`); an empty response is not routed, although
  `command_manager.c:360` says that it is, "to confirm command was processed". In
  `CommandPath` its pieces end as "silent".
- *Two commands in one segment are one message* (`tcp.c:172`). One recv takes both; the
  first word decides, the second command is at most its arguments. And a command that TCP
  divides is two messages.

Supervision, update, receiver, vehicle, configuration:

- *The command task is blamed for a stall* (`module_manager.c:129`). It runs between the
  reading of the uptime and the comparison; the difference of -1 wraps to 2^32 - 1.
- *A forced update runs twice* (`ota_manager.c:769`, 866). A forced cycle skips the gate
  that arms the 12 hours, so the next pass starts another one.
- *The answer to the check before* (`sdk_walnut_https.c:133`). A check times out, the next
  one is refused while the kernel is busy or finds the late event and takes it for its own.
- *Powered although forced off* (`gps_ops.c:308`, 316). SET-GPS-OFF comes while the GPS
  task sleeps between the test of the flag and the power-up.
- *Charge off on a device with power* (`gps_manager.c:364`). The ADC poll at start sets the
  latch, `gps_manager_init` clears it, and `gps_set_charge_status` remembers that it has
  reported TRUE: every packet says charge off until the power is cut and comes back. The
  comment at `system_manager.c:368` says the poll is there to avoid just that. In
  `VehicleReport`: `Prime`, then `GpsInit`.
- *Configuration rewritten with defaults* (`config.c:186`). After a failed read the header is
  read from the file opened anew, the entries from the closed handle; the failure is taken
  for a truncated file, which is written again from the defaults in RAM.
- *A file that cannot be opened* (`config.c:454`) is taken for one that does not exist, and is
  written over.
- *A torn last entry* (`config.c:262-277`) leaves a mixture of the stored and the default
  configuration in force, without validation.
- *FACTORY-RESET undone* (`command_handler.c:743`). A SET between the command and its deferred
  reset saves the configuration again.
- *A planned reset not reported after a command* (`reset_handler.c:58`). WEMAIN has
  written the record and waits; FACTORY-RESET or `DELETE-FOLDER preboot` deletes it; the
  reset comes. The next boot finds no record: nothing is reported and `total_resets`
  starts from 0 (`wiped`, `lost`). After a FACTORY-RESET with no save under way the
  opposite happens: its own soft reset writes the record from the cache, and
  `total_resets` survives the wipe.
- *A boot record lost to a race* (`pre_boot_handler.c:219`). TCPCLI copied the cache before
  WEMAIN wrote the reset slot and writes it back without: the reset is not reported. Or the
  cleared offset comes back. `mishaps` contains `raced` and the properties that depend on it
  say so.

## The proofs

Every theorem holds for all values of the constants that satisfy the named
assumptions of its module, and with no bound on rows, commands, requests and restarts
other than the constants themselves. Where an invariant is not inductive, the
strengthening is named.

`TcpSendQueueProofs`

- `IndicesCorrect`: `IndexInv` is inductive as the conjunction of `TypeOK`,
  `RingConsistent` and `OverflowInBounds`. None of the three is on its own: loading takes
  its indices from the snapshot, so the snapshot's have to agree, and a pop may read the
  file only while the offset is below its length. The arithmetic of the indices is in
  `ModSmall`, `ModWrap`, `ModFull` and `ModShift`; `PushIndices` is what `queue_push` does.
- The rows are then treated as one sequence, `Contents`. `RowsBefore` and `RowsAfter` say
  which record or slot each row is in; `RingGrows`, `RingSpills`, `RingRefuses`,
  `PopTakesOldest` and `PopTailTakesNewest` say what each operation does to the sequence.
- `OrderIsKept` (`HoldsTheNewest`) and `EveryRowAccounted` (`NothingLost`), without the
  live-first option: by `FirstBoot`, which says until the first restart that the queue is
  `Ordered` (the newest rows, and the others were popped or cleared), that no row is
  borrowed, and that the boot found no file and no snapshot.
- `BatchStaysNext` (`BatchIsNext`), if a peek can open the overflow file: by `BatchFits`,
  which adds that the batch is no longer than the queue, and that a row borrowed from the
  tail was not one of it; this needs `BatchAssumption`.
- `QueueIsStoreAndForward`: `Spec => IsStoreAndForward`. `AbstractNext` maps each step:
  a push to Accept, Refuse or a stutter, `PopTail` to Borrow, `RestoreTail` to GiveBack,
  `CommitBatch` and `AbandonBatch` to Deliver, a restart to Down, the two steps of the boot
  to Reload, the others to a stutter. It rests on `KnownRows`: the rows anywhere in RAM and
  flash were accepted once, since a restart makes a queue of whatever flash holds;
  `SnapshotInPlace` says that the snapshot comes back where it was.
- `RebootKeepsTheQueue`: `Spec => RebootKeepsRows`. The offset is saved without the lock,
  after the snapshot, so neither flash file holds the promised rows by itself: the consumer
  may pop records, an eviction may clear the file and begin another, and an ACK's clean-up
  may delete the snapshot, each before or after `SaveOffset`. `RebootInv` says what is kept
  at each stage: a promised row is in the snapshot, or in a record beyond both the read
  offset in RAM and the saved one, or it was popped, cleared or deleted with its
  snapshot. `PushKeepsRecords` and `PopKeepsRecords` carry an unread record through every
  step that writes the file, `BootKeepsRows` from flash to the queue. It also says how far
  the offset of a deleted file (under "Known counterexamples") can do harm: what the boot
  then skips are records of a file begun after the snapshot, whose promised rows the
  snapshot has.

`TcpClientProofs`

- `ClientCorrect`: `ClientInv` joins `TypeOK` with `SocketsCounted` (the open and the
  leaked sockets fit the slots, which bounds `leaked`) and `DrainCovered`.
  `ClientTypeCorrect` and `DrainNeverOverReports` follow, for every `MaxLag`.
- `DrainIsAcknowledged` is not inductive: a drain subtracts the growth of the free buffer
  since the last reading, which is safe only because that reading and the count of
  unacknowledged bytes together cover the buffer (`SndBuf <= unacked + last`). While the
  client is between `lwip_send` and `note_sent` the frame is in flight and not counted;
  `Uncounted` is that frame, and `note_sent` restores the balance. A full buffer reads as
  -1 and is a case of its own in `DrainStep`.
- `PopsOnlyAcknowledged` (`PopOnlyAcked`), `OneFrameAtATime` (`OneFrameInFlight`) and
  `AnnouncedFirst` (`AnnouncedWhileOpen`) assume `MaxLag <= 1`, as the code does, and follow
  from `LockstepInv`, which holds what the two unlocked tasks know of each other:
  `PlaceInv` (where an iteration may stand), `LateInv` (a callback that outlives its socket
  ends before another socket is created), `IdleInv` (without a socket nothing is tracked,
  and a socket about to be leaked is dead), `CloseInv` (a CLOSE is about a dead connection
  or about a socket since replaced), `ConnectInv` (until CONNECTED is told nothing is owed,
  and it is told once), `OwedInv` (what was told and what is owed do not exceed the frame),
  `LateAckInv` (between the decision that a frame is complete and the write of
  ACK_RECEIVED no other frame is sent) and `AnnounceInv`. The properties speak of the
  moments when a frame is sent or popped; the invariant has to say why the client cannot
  come there with a callback under way that is about an earlier frame or socket.

`NetworkManagerProofs`

- `CycleIsKept`, `FlagIsDown` and `RemovalIsReal` from `NetworkInv`. `CfunCycleKept` needs
  `CycleTarget`: during a cycle no INIT or ERROR, the states the guard lets pass, is on its
  way to the store. `BringUpIsDown` needs `BringUpTarget`: a state of the bring-up is on its
  way only without a connection. `NoFakeRemoval` needs `DipsCover`: the absent samples in a
  row are no more than the restarts, and while the radio is off the sample under way has a
  restart that is not used yet. That no second sample starts rests on `CfunCycleKept`.

`PreBootHandlerProofs`

- `TypeCorrect`; `CacheFollowsDisk` and `TotalsCount` from `RecordInv`, which speaks of
  runs with no mishap but deletions: at most one write is under way in the places where one
  may be, its record holds the right total, and the file equals the cache outside of writes
  or is missing. `GoneInv` says that once the boot has opened it the file is missing only
  after a deletion or a failed call, so a missing file is never the work of the two tasks.
- `ReportsAreNew` from `NewsInv`, which needs no write to be alone: every copy of the
  record, in the file, in the cache or in a write under way, holds the slot of the last run
  that came up until the boot has consumed it, and from then on none or that of this run.
- `PlannedAreReported` from `KeptInv`: once written, the slot of this run is in every copy
  of the record, but while the file is empty between the open and the write or since a
  command deleted it, and a reset that is promised finds no write under way and no
  deletion since the write.

`SupervisorProofs`

- `TypeCorrect`; `StallsHaveCauses` from `StallInv` (the stored uptime is the silence of
  the task, and between the two readings only a higher task stores a later one);
  `ResetsAreAsked` from "a pending request was asked for".

`OtaManagerProofs`

- `TypeCorrect`; `ImagesAreWhole` from `ImageInv` (outside of a download the
  file is what was reported, or a command has deleted it); `ForcedCyclesRun` from `ForceInv` (from
  the dispatch on the session is active, so that no command is accepted, and the check has
  been tried); `VerdictsAreRecent` from `QueueInv`, which lists the four forms the event
  queue can have.

`VehicleProofs`

- Of the receiver: `ReceiverTypeCorrect`; `DeservedReboots` from `StreakIsSilence`: the
  streak counts some of the samples that failed.
- Of the vehicle state: `VehicleTypeCorrect`; `SteadyVehicle` from `ClocksHonest`: the
  count of polls and the stop clock are never ahead of the readings they stand for.

`CommandProofs`

- `CommandTypeCorrect` and `CommandsInOrder` (`AcceptedInOrder`) from `CommandInv`, for
  every capacity. The property speaks of the moments when the mutex is free; the invariant
  follows each message through the two steps of a push and of a pop: `LockHeld` (a task is
  between them exactly when it has the mutex), `CountSeen` (so the count it has read is
  current, and the tail is as far from the head as the messages reach) and `Places` (the
  n-th message accepted is the n-th executed, in hand or in the ring). `SlotsDiffer` says
  that a push does not overwrite a message that waits. `StreamSent` bounds what a recv can
  return.
- `ConfigTypeCorrect`, `SavesAreKept` (`ReportedIsKept`) and `BootsAreStable`
  (`StableBoots`) from `ConfigInv`, for every number of modules, subset of the calls that may
  fail and number of restarts. Both properties compare what is in force at the end of a boot with a
  file that a save may have left anywhere. `FileInOrder`: whatever the save and the load
  leave has at most one entry for a module, in order, and no more than its header
  announces. `LoadInv`: without a fault the configurations in force are those of the
  entries before `idx`, but for a torn one, which is the last. `SaveInv`: the entries
  written are those of the valid modules before `idx`, as many as that; with `BeforeNext`
  the count written first is that of the entries at the end. `PromiseInv`: what was
  reported as saved is in the file, whole, and a load that ends early has taken the promise
  back (`LoadGivesUp`).

Every safety property of the passing runs is thus a theorem. Only model-checked are
the liveness properties, which are out of the prover's reach, as is everything that rests
on ENABLED.

## Not modelled

- The vendor's SDK, the third-party libraries (lwIP, mbedTLS, zlib, newlib), their headers
  and the demo application: they are more than nine tenths of the lines under `src/`, and
  the program is `weware_app`. What it calls of them appears as steps with every outcome.
- SMS: `sms_manager.c:889` and 896 look for the end of a message with `strstr(raw, "")`,
  which matches at once: the content is always empty and no command is handed on, so a
  model of the receive path would show only that.
- UART: disabled in the module table. `state_timeout.c`: no module uses it.
- The overflow file byte by byte: a record whose payload is not written stays at the end of
  the file without being counted, and a file that cannot be deleted keeps its rows
  (`queue_manager.c:125`, 548). `TcpSendQueue` counts in records.
- The parsing of commands, their authentication and the commands that only read. A command
  that changes another component is a step of that component: SET-GPS-ON and OFF,
  FORCED-OTA, REBOOT and the deferred reset, the SET commands, and the deletions of
  FACTORY-RESET and DELETE-FOLDER in `PreBootHandler`, `OtaManager` and `ConfigStore`. The
  exception is their deletion of the overflow file and the snapshot, which is left out of
  `TcpSendQueue`, and what they delete of the parts that are not modelled (the last
  valid position).
- Parsing and layout: NMEA, packets, JSON answers, configuration records; the ladder of GPS
  modes, A-GPS, the jump filter.
- The OTA installation path, which OTA_DOWNLOAD_TEST compiles out.
- The client composed with the queue: `TcpClient` knows the size of the batch and
  `TcpSendQueue` its rows; the acknowledgement of the one is `CommitBatch` of the other, an
  action that is always possible there. What the two rely on from each other is
  `PopOnlyAcked` and `BatchIsNext`.
