----------------------------- MODULE Supervisor -----------------------------
(***************************************************************************)
(* The main loop of weware_main.c with what it supervises: the tasks of    *)
(* module/module_manager.c and the deferred reset of                       *)
(* system/reset/reset_handler.c.                                           *)
(*                                                                         *)
(* A reset is asked for by an event, and scheduled in the task that raises *)
(* it: WEMAIN (a stalled task, 24 hours of uptime), cmdTask (a REBOOT      *)
(* command), NETMGR (no network).  WEMAIN carries it out.  cmdTask has a   *)
(* higher priority than WEMAIN and all others a lower one, so between two  *)
(* blocking calls WEMAIN is interrupted by cmdTask only, while its own     *)
(* wakeup interrupts the others between any two stores.                    *)
(*                                                                         *)
(* Only soft resets are ever asked for: nothing raises EVENT_RESET_HARD.   *)
(* Times are counted in ticks of a second, from 0 to just over the limit   *)
(* they are compared with.  What is written before the reset is the        *)
(* subject of PreBootHandler and TcpSendQueue.                             *)
(* A definition named D_x is D with a slip a programmer could make; it is  *)
(* no part of the model.                                                   *)
(***************************************************************************)
EXTENDS Naturals

CONSTANTS
  NumTasks,  \* supervised modules with a task, in the order of g_modules
  High,      \* those of a higher priority than WEMAIN (the command module)
  Timeout,   \* MODULE_TASK_TIMEOUT_SEC
  Rounds,    \* MODULE_INIT_RETRY_COUNT
  Wrap,      \* values of a UINT32: 2^32
  MaxBoots   \* bound: runs

Modules == 1..NumTasks

ASSUME TaskAssumption == NumTasks \in Nat /\ High \subseteq Modules
ASSUME LimitAssumption == Timeout \in Nat \ {0} /\ Rounds \in Nat \ {0}
ASSUME WrapAssumption == Wrap \in Nat /\ Wrap > Timeout + 2
ASSUME BootAssumption == MaxBoots \in Nat \ {0}

VARIABLES
  run,         \* number of this run
  wpc,         \* WEMAIN in its loop
  registered,  \* reset_handler_init was reached
  \* g_deferred
  pending, executing,
  type,        \* "none" is the zero of a fresh boot
  due,         \* RESET_DEFER_DELAY_MS after scheduled_start_ms
  npc,         \* NETMGR in schedule_reset
  \* modules
  ready,       \* status.initialized
  fed,         \* ticks since status.task_uptime_sec was set
  silent,      \* ticks since the task last ran (not a variable of the code)
  stuck,       \* the task hangs
  round, next, \* module_manager_init
  \* module_manager_monitor_tasks
  lag,         \* ticks since it read the uptime
  asked        \* history: a reset was scheduled since WEMAIN last began one

mainVars == <<run, wpc, registered>>
deferredVars == <<pending, executing, type, due>>
moduleVars == <<ready, fed, silent, stuck, round, next>>
vars == <<mainVars, deferredVars, npc, moduleVars, lag, asked>>

Late == Timeout + 2    \* ticks are counted up to here
Least(a, b) == IF a < b THEN a ELSE b

\* WEMAIN is between two blocking calls: no lower task runs.
Busy == wpc \in {"execute", "compare"}

-----------------------------------------------------------------------------
(* schedule_reset *)

Refused == ~registered \/ pending \/ executing

\* ... by a task that WEMAIN cannot interrupt, or by WEMAIN.
Schedule ==
  \/ /\ ~Refused
     /\ pending' = TRUE /\ type' = "soft" /\ due' = FALSE /\ asked' = TRUE
     /\ UNCHANGED executing
  \/ Refused /\ UNCHANGED <<deferredVars, asked>>

\* A REBOOT command, on cmdTask.
CmdReboot ==
  /\ Schedule
  /\ UNCHANGED <<mainVars, npc, moduleVars, lag>>

\* ... by NETMGR, store by store.
NetCheck ==
  /\ ~Busy /\ npc = "idle" /\ ~Refused
  /\ npc' = "checked"
  /\ UNCHANGED <<mainVars, deferredVars, moduleVars, lag, asked>>
NetMark ==
  /\ ~Busy /\ npc = "checked"
  /\ npc' = "marked" /\ pending' = TRUE /\ asked' = TRUE
  /\ UNCHANGED <<mainVars, executing, type, due, moduleVars, lag>>
NetType ==
  /\ ~Busy /\ npc = "marked"
  /\ npc' = "typed" /\ type' = "soft"
  /\ UNCHANGED <<mainVars, pending, executing, due, moduleVars, lag, asked>>
NetStart ==
  /\ ~Busy /\ npc = "typed"
  /\ npc' = "idle" /\ due' = FALSE
  /\ UNCHANGED <<mainVars, pending, executing, type, moduleVars, lag, asked>>

-----------------------------------------------------------------------------
(* module_manager_init *)

Fresh_UptimeKept(t) == fed' = fed
\* task_uptime_sec is set when the module is ready.
Fresh(t) == fed' = [fed EXCEPT ![t] = 0]

\* One turn of the loop over g_modules: the module starts, was started
\* before, or fails and is tried again in the next round.
InitModule ==
  /\ wpc = "modules" /\ next <= NumTasks
  /\ \/ /\ ~ready[next] /\ ready' = [ready EXCEPT ![next] = TRUE]
        /\ Fresh(next) /\ silent' = [silent EXCEPT ![next] = 0]
     \/ UNCHANGED <<ready, fed, silent>>
  /\ next' = next + 1
  /\ UNCHANGED <<mainVars, deferredVars, npc, stuck, round, lag, asked>>

InitRound_NoLimit ==
  /\ wpc = "modules" /\ next > NumTasks
  /\ IF \E t \in Modules : ~ready[t]
       THEN round' = round + 1 /\ next' = 1 /\ UNCHANGED wpc
       ELSE wpc' = "loop" /\ UNCHANGED <<round, next>>
  /\ UNCHANGED <<run, registered, deferredVars, npc, ready, fed, silent, stuck, lag, asked>>

InitRound ==
  /\ wpc = "modules" /\ next > NumTasks
  /\ IF (\E t \in Modules : ~ready[t]) /\ round < Rounds
       THEN round' = round + 1 /\ next' = 1 /\ UNCHANGED wpc
       ELSE wpc' = "loop" /\ UNCHANGED <<round, next>>
  /\ UNCHANGED <<run, registered, deferredVars, npc, ready, fed, silent, stuck, lag, asked>>

-----------------------------------------------------------------------------
(* The tasks *)

\* module_manager_update_uptime, at the top of the task's loop.
Feed(t) ==
  /\ ready[t] /\ ~stuck[t] /\ (Busy => t \in High)
  /\ fed' = [fed EXCEPT ![t] = 0] /\ silent' = [silent EXCEPT ![t] = 0]
  /\ UNCHANGED <<mainVars, deferredVars, npc, ready, stuck, round, next, lag, asked>>

Hang(t) ==
  /\ ready[t] /\ ~stuck[t] /\ stuck' = [stuck EXCEPT ![t] = TRUE]
  /\ UNCHANGED <<mainVars, deferredVars, npc, ready, fed, silent, round, next, lag, asked>>

\* A second passes; WEMAIN's comparison takes no longer than one.
Tick ==
  /\ fed' = [t \in Modules |-> Least(fed[t] + 1, Late)]
  /\ silent' = [t \in Modules |-> IF ready[t] THEN Least(silent[t] + 1, Late) ELSE 0]
  /\ due' = TRUE
  /\ lag' = IF wpc = "compare" THEN 1 ELSE lag
  /\ UNCHANGED <<mainVars, pending, executing, type, npc, ready, stuck, round, next, asked>>

-----------------------------------------------------------------------------
(* WEMAIN: system_manager_loop_iteration, module_manager_loop_iteration *)

\* 24 hours of uptime, asked for in every pass from then on.
UptimeCheck ==
  /\ wpc = "loop" /\ wpc' = "deferred"
  /\ Schedule \/ UNCHANGED <<deferredVars, asked>>
  /\ UNCHANGED <<run, registered, npc, moduleVars, lag>>

Deferred_KeepsPending ==
  /\ wpc = "deferred"
  /\ wpc' = IF pending /\ due /\ type = "soft" THEN "execute" ELSE "monitor"
  /\ asked' = (asked /\ wpc' # "execute")
  /\ UNCHANGED <<run, registered, deferredVars, npc, moduleVars, lag>>

\* reset_handler_process_deferred_reset: nothing to do yet, an invalid type
\* that drops the request, or a reset.
Deferred ==
  /\ wpc = "deferred"
  /\ pending' = (pending /\ ~due)
  /\ wpc' = IF pending /\ due /\ type = "soft" THEN "execute" ELSE "monitor"
  /\ asked' = (asked /\ wpc' # "execute")
  /\ UNCHANGED <<run, registered, executing, type, due, npc, moduleVars, lag>>

\* persist_and_reset, up to SDK_SYSTEM_RESET.
Execute ==
  /\ wpc = "execute" /\ wpc' = "reset" /\ executing' = TRUE
  /\ UNCHANGED <<run, registered, pending, type, due, npc, moduleVars, lag, asked>>

ResetReturns_StillExecuting ==
  /\ wpc = "reset" /\ wpc' = "monitor"
  /\ UNCHANGED <<run, registered, deferredVars, npc, moduleVars, lag, asked>>

\* SDK_SYSTEM_RESET came back, and 20 seconds have passed.
ResetReturns ==
  /\ wpc = "reset" /\ wpc' = "monitor" /\ executing' = FALSE
  /\ UNCHANGED <<run, registered, pending, type, due, npc, moduleVars, lag, asked>>

\* module_manager_monitor_tasks reads the uptime ...
ReadUptime ==
  /\ wpc = "monitor" /\ wpc' = "compare" /\ lag' = 0
  /\ UNCHANGED <<run, registered, deferredVars, npc, moduleVars, asked>>

\* ... and subtracts from it what the task stored, in 32 bits.
Overdue(t) == ready[t] /\ (fed[t] + Wrap - lag) % Wrap > Timeout
Stalled == \E t \in Modules : Overdue(t)

Compare ==
  /\ wpc = "compare" /\ wpc' = "loop" /\ lag' = 0
  /\ \/ Stalled /\ Schedule
     \/ ~Stalled /\ UNCHANGED <<deferredVars, asked>>
  /\ UNCHANGED <<run, registered, npc, moduleVars>>

-----------------------------------------------------------------------------
(* The whole system *)

\* RAM at the start of module_manager_init: a file system that does not come
\* up has ended system_manager_init before the handlers were registered.
Boot ==
  /\ wpc' = "modules" /\ registered' \in BOOLEAN
  /\ pending' = FALSE /\ executing' = FALSE /\ type' = "none" /\ due' = TRUE
  /\ npc' = "idle" /\ asked' = FALSE /\ lag' = 0 /\ round' = 1 /\ next' = 1
  /\ ready' = [t \in Modules |-> FALSE] /\ stuck' = [t \in Modules |-> FALSE]
  /\ fed' = [t \in Modules |-> 0] /\ silent' = [t \in Modules |-> 0]

Restart == run < MaxBoots /\ run' = run + 1 /\ Boot
SocReset == wpc = "reset" /\ Restart
PowerLoss == Restart

Init ==
  /\ run = 1 /\ wpc = "modules" /\ registered \in BOOLEAN
  /\ pending = FALSE /\ executing = FALSE /\ type = "none" /\ due = TRUE
  /\ npc = "idle" /\ asked = FALSE /\ lag = 0 /\ round = 1 /\ next = 1
  /\ ready = [t \in Modules |-> FALSE] /\ stuck = [t \in Modules |-> FALSE]
  /\ fed = [t \in Modules |-> 0] /\ silent = [t \in Modules |-> 0]

Wemain ==
  \/ InitModule \/ InitRound \/ UptimeCheck \/ Deferred \/ Execute
  \/ ResetReturns \/ ReadUptime \/ Compare
NetFinish == NetMark \/ NetType \/ NetStart

Next ==
  \/ Wemain \/ CmdReboot \/ NetCheck \/ NetFinish
  \/ Tick \/ SocReset \/ PowerLoss
  \/ \E t \in Modules : Feed(t) \/ Hang(t)

Spec == Init /\ [][Next]_vars

\* WEMAIN runs on, NETMGR finishes what it began, time passes.  The reset of
\* the SoC works if it is tried again and again.
Fairness == WF_vars(Wemain) /\ WF_vars(Tick) /\ WF_vars(NetFinish) /\ SF_vars(SocReset)
FairSpec == Spec /\ Fairness

-----------------------------------------------------------------------------
(* Properties *)

\* Types and ranges of the state.
TypeOK ==
  /\ run \in 1..MaxBoots /\ registered \in BOOLEAN
  /\ wpc \in {"modules", "loop", "deferred", "execute", "reset", "monitor", "compare"}
  /\ pending \in BOOLEAN /\ executing \in BOOLEAN /\ type \in {"none", "soft"}
  /\ due \in BOOLEAN /\ npc \in {"idle", "checked", "marked", "typed"}
  /\ ready \in [Modules -> BOOLEAN] /\ stuck \in [Modules -> BOOLEAN]
  /\ fed \in [Modules -> 0..Late] /\ silent \in [Modules -> 0..Late]
  /\ round \in 1..Rounds /\ next \in 1..(NumTasks + 1) /\ lag \in 0..1
  /\ asked \in BOOLEAN

\* module_manager_monitor_tasks blames only a task that is up and has been
\* silent for too long, or one that ran after the uptime was read.
StallHasCause ==
  wpc = "compare" =>
    \A t \in Modules : Overdue(t) => silent[t] > Timeout \/ (t \in High /\ silent[t] < lag)

\* WEMAIN begins a reset only if one was scheduled since it last began one: a
\* reset that failed is not repeated for ever, and one request is not
\* carried out twice, in whatever order the stores of NETMGR fall.
ResetIsAsked == [][wpc = "deferred" /\ wpc' = "execute" => asked]_vars

\* weware_main.c: a task that hangs leads to a reset of the device, whatever
\* requests are lost, ignored or fail on the way, if the handler is there.
StallResets ==
  \A r \in 1..(MaxBoots - 1), t \in Modules :
    (run = r /\ registered /\ ready[t] /\ stuck[t]) ~> run > r
=============================================================================
