--------------------------- MODULE NetworkManager ---------------------------
(***************************************************************************)
(* The network module (module/network/network.c) with the SIM detection    *)
(* that restarts its radio (module/sim/sim.c) and the URCs the processor   *)
(* of modem lines passes to it (module/urc/urc_processor.c).               *)
(*                                                                         *)
(* NETMGR runs an iteration every 100 ms: it drains the URC queue, applies *)
(* the timeout of the state and the overall one, and runs the handler of   *)
(* the state.  SIMDET polls the SIM every second and, when a SIM becomes   *)
(* available, writes the state from its own task.  A step ends where the   *)
(* other task can matter: at an AT command, a log line, or between the     *)
(* guard of network_set_state and its write.                               *)
(*                                                                         *)
(* The radio snapshot, the APN and the unused SIM_REMOVE state are left    *)
(* out.  What the modem answers is a nondeterministic choice.              *)
(*                                                                         *)
(* D_x is definition D with a slip in it; the model does not use it.       *)
(***************************************************************************)
EXTENDS Integers, Sequences

CONSTANTS
  StateTimeout,    \* g_network_state_timeouts, in units of time
  OverallTimeout,  \* NETWORK_OVERALL_TIMEOUT_MS, in the same units
  SIM_DETECT_DEBOUNCE_MATCHES,
  UrcCapacity,     \* elements of NET_URC_Q
  ModemFaults      \* calls that may fail: a subset of ModemCalls

NetworkState == {"INIT", "CHECK_SIM", "SIM_INSERT", "CHECK_CTZU", "SET_CTZU",
  "CHECK_REGISTRATION", "CHECK_GPRS_REGISTRATION", "CHECK_LTE_ATTACHMENT",
  "SETUP_PDP", "ACTIVATE_PDP", "GET_IP", "CONNECTED", "DISCONNECTED", "ERROR",
  "RESTART_CFUN"}

\* The states of g_network_state_timeouts: SIM_INSERT is not one of them.
Timed == {"CHECK_SIM", "CHECK_CTZU", "SET_CTZU", "CHECK_REGISTRATION",
  "CHECK_GPRS_REGISTRATION", "CHECK_LTE_ATTACHMENT", "SETUP_PDP", "ACTIVATE_PDP",
  "GET_IP", "RESTART_CFUN"}

ModemCalls == {"cfun0", "cfun1", "sample"}

ASSUME NetworkAssumption ==
  /\ StateTimeout \in [Timed -> Nat \ {0}] /\ OverallTimeout \in Nat \ {0}
  /\ SIM_DETECT_DEBOUNCE_MATCHES \in Nat \ {0}
  /\ UrcCapacity \in Nat \ {0}
  /\ ModemFaults \subseteq ModemCalls

VARIABLES
  (* g_network *)
  state, connected, cfunStep,
  lastState, stateTime,     \* last_state; time since state_entry_tick
  downTime,                 \* time since not_connected_since
  connStart,                \* the statics of network_state_handle_connected
  net,                      \* where NETMGR is, and the state it will set
  urcq,                     \* NET_URC_Q
  (* g_sim *)
  simAvailable, debounceInserted, debounceMatches,
  simAt,                    \* where SIMDET is
  (* the modem *)
  radioOn,
  resetRequested,           \* EVENT_RESET_SOFT was broadcast
  (* relative speeds *)
  due,                      \* tasks that still run before time passes
  (* history *)
  dips                      \* radio restarts since the last good SIM sample

machine == <<state, connected, cfunStep, lastState, stateTime, downTime, connStart>>
simState == <<simAvailable, debounceInserted, debounceMatches, simAt>>
simVars == <<simState, dips>>
vars == <<machine, net, urcq, simVars, radioOn, resetRequested,
          due>>

BringUp == {"CHECK_SIM", "SIM_INSERT", "CHECK_CTZU", "SET_CTZU",
  "CHECK_REGISTRATION", "CHECK_GPRS_REGISTRATION", "CHECK_LTE_ATTACHMENT",
  "SETUP_PDP", "ACTIVATE_PDP"}

Urcs == {"ACTIVE", "NET_DISCONNECTED", "PDP_INACTIVE"}

\* Absent samples that make a removal; one without a SIM in the tray, or a
\* restart that gave up, counts for as many.
Enough == SIM_DETECT_DEBOUNCE_MATCHES

\* The places of NETMGR; "guard" and "store" are network_set_state(target),
\* after which it goes on at back.
Places == {"drain", "timers", "expire", "overall", "switch", "connect", "sleep"}
Nets == [at : Places \union {"guard", "store"}, target : NetworkState, back : Places]
Go(place) == net' = [at |-> place, target |-> "INIT", back |-> "drain"]
Set(s, place) == net' = [at |-> "guard", target |-> s, back |-> place]

\* Every variable keeps its type.
TypeOK ==
  /\ state \in NetworkState /\ lastState \in NetworkState /\ connected \in BOOLEAN
  /\ cfunStep \in {"idle", "wait_off", "wait_on"}
  /\ stateTime \in Nat /\ downTime \in 0..OverallTimeout
  /\ connStart \in {"none", "set"}
  /\ net \in Nets /\ urcq \in Seq(Urcs) /\ Len(urcq) <= UrcCapacity
  /\ simAvailable \in BOOLEAN /\ debounceInserted \in BOOLEAN
  /\ debounceMatches \in 0..SIM_DETECT_DEBOUNCE_MATCHES
  /\ simAt \in {"poll", "sample", "notify"}
  /\ radioOn \in BOOLEAN /\ resetRequested \in BOOLEAN
  /\ due \subseteq {"NETMGR", "SIMDET"}
  /\ dips \in 0..SIM_DETECT_DEBOUNCE_MATCHES

Init ==
  /\ state = "INIT" /\ lastState = "INIT" /\ connected = FALSE /\ cfunStep = "idle"
  /\ stateTime = 0 /\ downTime = 0 /\ connStart = "none"
  /\ net = [at |-> "drain", target |-> "INIT", back |-> "drain"] /\ urcq = <<>>
  /\ simAvailable = FALSE /\ debounceInserted = FALSE /\ debounceMatches = 0
  /\ simAt = "poll" /\ dips = 0
  /\ radioOn = TRUE /\ resetRequested = FALSE
  /\ due = {"NETMGR", "SIMDET"}

-----------------------------------------------------------------------------
(* NETMGR *)

SIMUnchanged == UNCHANGED simVars
NetUnchanged == UNCHANGED <<urcq, radioOn, resetRequested, due>> /\ SIMUnchanged

SetStateBlocked_Never(s) == FALSE

\* Only INIT and ERROR may replace RESTART_CFUN.
SetStateBlocked(s) == state = "RESTART_CFUN" /\ s \notin {"RESTART_CFUN", "INIT", "ERROR"}

NetGuard ==
  /\ net.at = "guard"
  /\ IF SetStateBlocked(net.target) THEN Go(net.back)
                                    ELSE net' = [net EXCEPT !.at = "store"]
  /\ UNCHANGED machine /\ NetUnchanged

NetStore ==
  /\ net.at = "store"
  /\ state' = net.target
  /\ Go(net.back)
  /\ UNCHANGED <<connected, cfunStep, lastState, stateTime, downTime, connStart>>
  /\ NetUnchanged

\* The URCs that matter in this state; each is handled before the next is popped.
UrcTarget(u) ==
  CASE u = "ACTIVE" /\ state = "DISCONNECTED" -> {"INIT"}
    [] u = "NET_DISCONNECTED" /\ state = "CONNECTED" -> {"DISCONNECTED"}
    [] u = "PDP_INACTIVE" -> {"DISCONNECTED"}
    [] OTHER -> {}

NetDrainUrc ==
  /\ net.at = "drain"
  /\ IF urcq = <<>> THEN Go("timers") /\ UNCHANGED urcq
     ELSE /\ urcq' = Tail(urcq)
          /\ \/ \E s \in UrcTarget(Head(urcq)) : Set(s, "drain")
             \/ UrcTarget(Head(urcq)) = {} /\ Go("drain")
  /\ UNCHANGED <<machine, radioOn, resetRequested, due>> /\ SIMUnchanged

\* Restart the clock of a new state, then look up its timeout.
NetTimers ==
  /\ net.at = "timers"
  /\ lastState' = state
  /\ stateTime' = IF state = lastState THEN stateTime ELSE 0
  /\ IF state \in Timed /\ state = lastState /\ stateTime >= StateTimeout[state]
     THEN Go("expire") ELSE Go("overall")
  /\ UNCHANGED <<state, connected, cfunStep, downTime, connStart>> /\ NetUnchanged

\* The state is read again, after the log line.
NetExpire ==
  /\ net.at = "expire"
  /\ IF state = "RESTART_CFUN"
     THEN cfunStep' = "idle" /\ dips' = Enough /\ Set("INIT", "overall")
     ELSE UNCHANGED <<cfunStep, dips>> /\ Set("RESTART_CFUN", "overall")
  /\ UNCHANGED <<state, connected, lastState, stateTime, downTime, connStart, urcq,
                 simState, radioOn, resetRequested, due>>

\* The overall timeout does not run while connected or waiting for a SIM.
Anchored == connected \/ state = "CHECK_SIM"

NetOverall ==
  /\ net.at = "overall"
  /\ LET over == ~Anchored /\ downTime >= OverallTimeout IN
     /\ downTime' = IF Anchored \/ over THEN 0 ELSE downTime
     /\ resetRequested' = (resetRequested \/ over)
  /\ Go("switch")
  /\ UNCHANGED <<state, connected, cfunStep, lastState, stateTime, connStart,
                 urcq, radioOn, due>> /\ SIMUnchanged

-----------------------------------------------------------------------------
(* NETMGR: the handlers *)

In(s) == net.at = "switch" /\ state = s
KeepMachine == UNCHANGED <<state, lastState, stateTime>>
KeepConnection == UNCHANGED <<connected, downTime, connStart>>

\* network_set_connected(false)
Disconnect == connected' = FALSE /\ downTime' = IF connected THEN 0 ELSE downTime

HandleInit_StaysConnected ==
  /\ In("INIT") /\ KeepConnection
  /\ Set("CHECK_SIM", "sleep")
  /\ KeepMachine /\ UNCHANGED cfunStep /\ NetUnchanged

HandleInit ==
  /\ In("INIT") /\ Disconnect
  /\ Set("CHECK_SIM", "sleep")
  /\ KeepMachine /\ UNCHANGED <<cfunStep, connStart>> /\ NetUnchanged

HandleCheckSim ==
  /\ In("CHECK_SIM")
  /\ Set(IF simAvailable THEN "SIM_INSERT" ELSE "CHECK_SIM", "sleep")
  /\ KeepMachine /\ KeepConnection /\ UNCHANGED cfunStep /\ NetUnchanged

\* Where the answer to the AT command of a state leads.
Answers(s) ==
  CASE s = "SIM_INSERT" -> {s, "CHECK_CTZU"}
    [] s = "CHECK_CTZU" -> {"SET_CTZU", "CHECK_REGISTRATION"}
    [] s = "SET_CTZU" -> {s, "RESTART_CFUN"}
    [] s = "CHECK_REGISTRATION" -> {s, "ERROR", "CHECK_GPRS_REGISTRATION"}
    [] s = "CHECK_GPRS_REGISTRATION" -> {s, "ERROR", "CHECK_LTE_ATTACHMENT"}
    [] s = "CHECK_LTE_ATTACHMENT" -> {s, "SETUP_PDP"}
    [] s = "SETUP_PDP" -> {s, "ACTIVATE_PDP"}
    [] s = "ACTIVATE_PDP" -> {s, "GET_IP"}
    [] s = "ERROR" -> {"INIT"}
    [] OTHER -> {}

HandleQuery ==
  /\ net.at = "switch"
  /\ \E s \in Answers(state) : Set(s, "sleep")
  /\ KeepMachine /\ KeepConnection /\ UNCHANGED cfunStep /\ NetUnchanged

\* connected is asserted on every pass, also on one that got no address.
HandleGetIp ==
  /\ In("GET_IP")
  /\ Set("CONNECTED", "connect") \/ Set("GET_IP", "connect")
  /\ KeepMachine /\ KeepConnection /\ UNCHANGED cfunStep /\ NetUnchanged

NetConnect ==
  /\ net.at = "connect"
  /\ connected' = TRUE
  /\ Go("sleep")
  /\ KeepMachine /\ UNCHANGED <<cfunStep, downTime, connStart>> /\ NetUnchanged

\* The first pass starts the time to stabilize; a health check after it may fail.
HandleConnected ==
  /\ In("CONNECTED")
  /\ \/ connStart' = "set" /\ Go("sleep")
     \/ connStart = "set" /\ connStart' = "none" /\ Set("DISCONNECTED", "sleep")
  /\ KeepMachine /\ UNCHANGED <<cfunStep, connected, downTime>> /\ NetUnchanged

HandleDisconnected ==
  /\ In("DISCONNECTED") /\ Disconnect
  /\ Set("INIT", "sleep")
  /\ KeepMachine /\ UNCHANGED <<cfunStep, connStart>> /\ NetUnchanged

\* A dwell of 2 or 3 s is over when SIMDET has run once, which polls every second.
Dwelt == "SIMDET" \notin due
Dwell == due' = due \union {"SIMDET"}

HandleRestartCfun ==
  /\ In("RESTART_CFUN")
  /\ \/ /\ cfunStep = "idle" /\ cfunStep' = "wait_off" /\ radioOn' = FALSE /\ Dwell
        /\ dips' = IF dips < Enough THEN dips + 1 ELSE dips
        /\ Set("RESTART_CFUN", "sleep")
     \/ /\ cfunStep = "wait_off" /\ Dwelt
        /\ cfunStep' = "wait_on" /\ radioOn' = TRUE /\ Dwell /\ UNCHANGED dips
        /\ Set("RESTART_CFUN", "sleep")
     \/ /\ cfunStep = "wait_on" /\ Dwelt
        /\ cfunStep' = "idle" /\ UNCHANGED <<radioOn, due, dips>>
        /\ Set("INIT", "sleep")
     \/ /\ \/ cfunStep = "idle" /\ "cfun0" \in ModemFaults
           \/ cfunStep = "wait_off" /\ "cfun1" \in ModemFaults
           \/ cfunStep # "idle" /\ ~Dwelt
        /\ UNCHANGED <<cfunStep, radioOn, due, dips>>
        /\ Set("RESTART_CFUN", "sleep")
  /\ KeepMachine /\ KeepConnection
  /\ UNCHANGED <<urcq, simState, resetRequested>>

NetSleep ==
  /\ net.at = "sleep"
  /\ Go("drain")
  /\ due' = due \ {"NETMGR"}
  /\ UNCHANGED <<machine, urcq, simVars, radioOn, resetRequested>>

Handler ==
  \/ HandleInit \/ HandleCheckSim \/ HandleQuery \/ HandleGetIp \/ HandleConnected
  \/ HandleDisconnected \/ HandleRestartCfun

NETMGR ==
  \/ NetDrainUrc \/ NetTimers \/ NetExpire \/ NetOverall \/ Handler \/ NetConnect
  \/ NetGuard \/ NetStore \/ NetSleep

-----------------------------------------------------------------------------
(* SIMDET *)

NETUnchanged == UNCHANGED <<connected, cfunStep, lastState, stateTime, downTime,
                            connStart, net, urcq, radioOn, resetRequested>>

SimPoll_NoGate ==
  /\ simAt = "poll"
  /\ simAt' = "sample"
  /\ UNCHANGED <<state, simAvailable, debounceInserted, debounceMatches, dips, due>>
  /\ NETUnchanged

\* No sample is taken while the radio is being restarted.
SimPoll ==
  /\ simAt = "poll"
  /\ IF state = "RESTART_CFUN" THEN UNCHANGED simAt /\ due' = due \ {"SIMDET"}
                               ELSE simAt' = "sample" /\ UNCHANGED due
  /\ UNCHANGED <<state, simAvailable, debounceInserted, debounceMatches, dips>>
  /\ NETUnchanged

Debounced(inserted) ==
  IF inserted # debounceInserted THEN 1
  ELSE IF debounceMatches < SIM_DETECT_DEBOUNCE_MATCHES THEN debounceMatches + 1
  ELSE debounceMatches

\* The modem says the SIM is absent also when its radio is off.
SimSample == \E trayIn \in BOOLEAN :
  /\ simAt = "sample"
  /\ LET inserted == trayIn /\ radioOn
         settled == Debounced(inserted) >= SIM_DETECT_DEBOUNCE_MATCHES
         changed == settled /\ simAvailable # inserted IN
     /\ debounceMatches' = Debounced(inserted) /\ debounceInserted' = inserted
     /\ simAvailable' = IF settled THEN inserted ELSE simAvailable
     /\ simAt' = IF changed THEN "notify" ELSE "poll"
     /\ due' = IF changed THEN due ELSE due \ {"SIMDET"}
     /\ dips' = IF inserted THEN 0 ELSE IF trayIn THEN dips ELSE Enough
  /\ UNCHANGED state /\ NETUnchanged

SimSampleFails ==
  /\ simAt = "sample" /\ "sample" \in ModemFaults
  /\ simAt' = "poll" /\ due' = due \ {"SIMDET"}
  /\ UNCHANGED <<state, simAvailable, debounceInserted, debounceMatches, dips>>
  /\ NETUnchanged

\* The broadcast: network_on_sim_available or network_on_sim_unavailable.
SimNotify ==
  /\ simAt = "notify" /\ simAt' = "poll"
  /\ due' = due \ {"SIMDET"}
  /\ state' = IF simAvailable THEN "RESTART_CFUN" ELSE state
  /\ UNCHANGED <<simAvailable, debounceInserted, debounceMatches, dips>>
  /\ NETUnchanged

SIMDET == SimPoll \/ SimSample \/ SimSampleFails \/ SimNotify

-----------------------------------------------------------------------------
(* The modem, time and the reset *)

\* From the modem through the URC processor; without room it is lost.  As only
\* the drain looks at the queue, it makes no difference to arrive in the sleep.
UrcArrives ==
  /\ net.at = "sleep" /\ Len(urcq) < UrcCapacity
  /\ \E u \in Urcs : urcq' = Append(urcq, u)
  /\ UNCHANGED <<machine, net, simVars, radioOn, resetRequested, due>>

\* A unit of time is long: both tasks run in it.
Tick ==
  /\ due = {} /\ due' = {"NETMGR", "SIMDET"}
  /\ stateTime' = IF lastState \in Timed /\ stateTime < StateTimeout[lastState]
                  THEN stateTime + 1 ELSE stateTime
  /\ downTime' = IF downTime < OverallTimeout THEN downTime + 1 ELSE downTime
  /\ UNCHANGED <<state, connected, cfunStep, lastState, connStart, net, urcq, simVars,
                 radioOn, resetRequested>>

\* The deferred reset of the SoC (reset_handler.c).
SocReset ==
  /\ resetRequested /\ resetRequested' = FALSE
  /\ state' = "INIT" /\ lastState' = "INIT" /\ connected' = FALSE /\ cfunStep' = "idle"
  /\ stateTime' = 0 /\ downTime' = 0 /\ connStart' = "none"
  /\ Go("drain") /\ urcq' = <<>>
  /\ simAvailable' = FALSE /\ debounceInserted' = FALSE /\ debounceMatches' = 0
  /\ simAt' = "poll" /\ dips' = 0
  /\ radioOn' = TRUE
  /\ due' = {"NETMGR", "SIMDET"}

Next == NETMGR \/ SIMDET \/ UrcArrives \/ Tick \/ SocReset

Spec == Init /\ [][Next]_vars
-----------------------------------------------------------------------------
(* Properties *)

\* A half-done CFUN cycle is never abandoned: nothing but its own end or its
\* timeout takes the state out of RESTART_CFUN (network.c:187-190).
CfunCycleKept == cfunStep # "idle" => state = "RESTART_CFUN"

\* While the connection is being brought up nobody is told there is one: every
\* way back to the start clears the flag the TCP client relies on (network.c:279).
BringUpIsDown == state \in BringUp => ~connected

\* A restart of the radio costs at most the one sample that was under way: a
\* SIM that stayed in its tray is not reported removed before as many restarts
\* as it takes samples, unless one gave up (sim.c:146-161).
NoFakeRemoval == (simAt = "notify" /\ ~simAvailable) => dips = Enough
=============================================================================
