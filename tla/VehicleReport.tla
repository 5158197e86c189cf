--------------------------- MODULE VehicleReport ---------------------------
(***************************************************************************)
(* From a voltage to a position packet: the ADC poll of system_manager.c   *)
(* and the debouncing of vehicle_state.c, which WEMAIN runs in its loop,   *)
(* the latches they set in gps_manager.c, and the GPS task that reads the  *)
(* latches and decides to send (gps_triggers.c, gps_ops.c).                *)
(*                                                                         *)
(* WEMAIN has a higher priority than the GPS task: a poll comes between    *)
(* any two of its steps and none of its steps into a poll.  PowerInfo      *)
(* holds what the last poll found, so the statics that remember the last   *)
(* value reported (s_prev_ign, s_prev_mot, prev_charge_connected and prev  *)
(* of gps_set_charge_status) equal it between two polls.                   *)
(* A definition named D_x is D with a slip a programmer could make; it is  *)
(* no part of the model.                                                   *)
(***************************************************************************)
EXTENDS Integers

CONSTANTS
  DebouncePolls,     \* SystemConfig.debounce_polls
  StopDebounce,      \* SystemConfig.mot_stop_debounce_sec
  MotionIsIgnition   \* SystemConfig.motion_source is SYSTEM_MOT_SOURCE_IGN

ASSUME DebounceAssumption == DebouncePolls \in Nat \ {0} /\ StopDebounce \in Nat
ASSUME SourceAssumption == MotionIsIgnition \in BOOLEAN

VARIABLES
  boot,    \* how far weware_main has come
  pi,      \* PowerInfo: ign, mot, chg
  polls,   \* s_ign_debounce_count
  stopped, \* seconds since s_motion_stop_since_uptime, -1 for unset
  latch,   \* g_gps: ign_status, mot_status, charge_status
  trigger, \* g_gps.should_trigger
  due,     \* the interval since the last packet has passed
  gpc,     \* the GPS task in its loop
  packet,  \* the packet it has built
  queued,  \* the last packet in the TCP send queue
  \* history
  onRun,   \* ADC polls in a row that found the wire at the on level
  still    \* seconds since a poll found raw motion

pollVars == <<pi, polls, stopped>>
gpsVars == <<latch, trigger, due>>
taskVars == <<gpc, packet, queued>>
ghostVars == <<onRun, still>>
vars == <<boot, pollVars, gpsVars, taskVars, ghostVars>>

Wire == {"on", "between", "off"}   \* against wire_on_v and wire_off_v
State == [ign : BOOLEAN, mot : BOOLEAN, chg : BOOLEAN]
AllOff == [ign |-> FALSE, mot |-> FALSE, chg |-> FALSE]

Init ==
  /\ boot = "system"
  /\ pi = AllOff /\ polls = 0 /\ stopped = -1
  /\ latch = AllOff /\ trigger = FALSE /\ due = FALSE
  /\ gpc = "sleep" /\ packet = AllOff /\ queued = AllOff
  /\ onRun = 0 /\ still = StopDebounce
-----------------------------------------------------------------------------
(* The reading between the levels counts as on. *)
RawIgnition_between(wire) == wire # "off"

(* eval_ignition_wire: between the two levels the debounced state holds.   *)
RawIgnition(wire) == wire = "on" \/ (wire = "between" /\ pi.ign)

(* The count is not capped. *)
PollCount_free(raw) == IF ~raw THEN 0 ELSE polls + 1

PollCount(raw) ==
  IF ~raw THEN 0 ELSE IF polls < DebouncePolls THEN polls + 1 ELSE polls

(* eval_motion_raw: the ignition, or the speed and distance of a sample.   *)
RawMotion(ign) == IF MotionIsIgnition THEN {ign} ELSE BOOLEAN

(* The stop clock is not cleared by motion. *)
StopClock_kept(raw) == IF stopped = -1 /\ ~raw THEN 0 ELSE stopped

(* apply_motion_stop_debounce *)
StopClock(raw) == IF raw THEN -1 ELSE IF stopped = -1 THEN 0 ELSE stopped
Motion(raw) == raw \/ (StopClock(raw) < StopDebounce /\ pi.mot)

(* emit_state_events and the charge edge of system_manager_adc_poll: only  *)
(* an edge of PowerInfo reaches the latches.                               *)
Emit(new) ==
  /\ latch' = [f \in DOMAIN latch |-> IF new[f] # pi[f] THEN new[f] ELSE latch[f]]
  /\ trigger' = (trigger \/ latch'.ign # latch.ign \/ new.chg # pi.chg)
  /\ pi' = new

PollMotion(ign, chg) ==
  \E raw \in RawMotion(ign) :
    /\ stopped' = StopClock(raw)
    /\ still' = IF raw THEN 0 ELSE still
    /\ Emit([ign |-> ign, mot |-> Motion(raw), chg |-> chg])

(* system_manager_adc_poll with the voltages read.                         *)
AdcPoll(wire, chg) ==
  /\ polls' = PollCount(RawIgnition(wire))
  /\ onRun' = IF wire # "on" THEN 0 ELSE IF onRun < DebouncePolls THEN onRun + 1 ELSE onRun
  /\ PollMotion(RawIgnition(wire) /\ polls' >= DebouncePolls, chg)

(* system_manager_init: the poll that primes PowerInfo, unless the ADC  *)
(* manager does not come up or a voltage cannot be read.                   *)
Prime ==
  /\ boot = "system"
  /\ boot' = "gps"
  /\ \/ \E wire \in Wire, chg \in BOOLEAN : AdcPoll(wire, chg)
     \/ UNCHANGED <<pollVars, latch, trigger, ghostVars>>
  /\ UNCHANGED <<due, taskVars>>

(* gps_manager_init, after system_manager_init.                         *)
GpsInit ==
  /\ boot = "gps"
  /\ boot' = "up"
  /\ latch' = [ign |-> TRUE, mot |-> TRUE, chg |-> FALSE]
  /\ trigger' = FALSE
  /\ due' = FALSE
  /\ UNCHANGED <<pollVars, taskVars, ghostVars>>

(* system_manager_loop_iteration: the ADC is read every few passes; the    *)
(* motion is evaluated in each.                                            *)
LoopAdcPoll ==
  /\ boot = "up"
  /\ \E wire \in Wire, chg \in BOOLEAN : AdcPoll(wire, chg)
  /\ UNCHANGED <<boot, due, taskVars>>

LoopPoll ==
  /\ boot = "up"
  /\ PollMotion(pi.ign, pi.chg)
  /\ UNCHANGED <<boot, polls, due, taskVars, onRun>>

(* A second of uptime. *)
Tick ==
  /\ boot = "up"
  /\ stopped' = IF stopped \in 0 .. StopDebounce - 1 THEN stopped + 1 ELSE stopped
  /\ still' = IF still < StopDebounce THEN still + 1 ELSE still
  /\ UNCHANGED <<boot, pi, polls, gpsVars, taskVars, onRun>>

(* ign_on_interval_sec or ign_off_interval_sec after the last packet. *)
IntervalPasses ==
  /\ boot = "up" /\ ~due
  /\ due' = TRUE
  /\ UNCHANGED <<boot, pollVars, latch, trigger, taskVars, ghostVars>>
-----------------------------------------------------------------------------
(* The SIM edge and the fix edge of a pass latch a trigger too; a turn or  *)
(* a distance makes the decider send without one.                          *)
Sample(edge) ==
  /\ boot = "up" /\ gpc = "sleep"
  /\ trigger' = (trigger \/ edge)
  /\ gpc' = "decide"
  /\ UNCHANGED <<boot, pollVars, latch, due, packet, queued, ghostVars>>

(* The interval does not count: only an edge, a turn or a distance sends. *)
BuildPacket_onEdges(moved) ==
  /\ gpc = "decide"
  /\ IF trigger \/ moved
     THEN packet' = latch /\ gpc' = "push"
     ELSE gpc' = "sleep" /\ UNCHANGED packet
  /\ UNCHANGED <<boot, pollVars, gpsVars, queued, ghostVars>>

(* gps_triggers_should_send and the packet built from the latches. *)
BuildPacket(moved) ==
  /\ gpc = "decide"
  /\ IF trigger \/ due \/ moved
     THEN packet' = latch /\ gpc' = "push"
     ELSE gpc' = "sleep" /\ UNCHANGED packet
  /\ UNCHANGED <<boot, pollVars, gpsVars, queued, ghostVars>>

PushPacket ==
  /\ gpc = "push"
  /\ queued' = packet
  /\ due' = FALSE
  /\ gpc' = "clear"
  /\ UNCHANGED <<boot, pollVars, latch, trigger, packet, ghostVars>>

(* The queue does not exist or refuses the row: the interval stays due.    *)
PushFails ==
  /\ gpc = "push"
  /\ gpc' = "clear"
  /\ UNCHANGED <<boot, pollVars, gpsVars, packet, queued, ghostVars>>

(* gps_triggers_clear_after_send: whatever was latched since the packet    *)
(* was built, and whether or not it was queued.                            *)
ClearTrigger ==
  /\ gpc = "clear"
  /\ trigger' = FALSE
  /\ gpc' = "sleep"
  /\ UNCHANGED <<boot, pollVars, latch, due, packet, queued, ghostVars>>

GpsTask ==
  \/ \E edge \in BOOLEAN : Sample(edge)
  \/ \E moved \in BOOLEAN : BuildPacket(moved)
  \/ PushPacket \/ PushFails \/ ClearTrigger

Next ==
  \/ Prime \/ GpsInit \/ LoopAdcPoll \/ LoopPoll \/ Tick \/ IntervalPasses
  \/ GpsTask

Spec == Init /\ [][Next]_vars

(* The GPS task runs, time passes, and a queue that is tried again and     *)
(* again takes a row.  TCP_SEND_Q does so while the server is reached, and *)
(* otherwise unless it is stuck: a row of type 39 at the front of a full   *)
(* ring refuses every push until it is sent (queue_manager.c:117).         *)
Fairness == WF_vars(GpsTask) /\ WF_vars(IntervalPasses) /\ SF_vars(PushPacket)

FairSpec == Spec /\ Fairness
-----------------------------------------------------------------------------
TypeOK ==
  /\ boot \in {"system", "gps", "up"}
  /\ pi \in State /\ polls \in 0 .. DebouncePolls /\ stopped \in -1 .. StopDebounce
  /\ latch \in State /\ trigger \in BOOLEAN /\ due \in BOOLEAN
  /\ gpc \in {"sleep", "decide", "push", "clear"}
  /\ packet \in State /\ queued \in State
  /\ onRun \in 0 .. DebouncePolls /\ still \in 0 .. StopDebounce

(* The ignition is on only after DebouncePolls readings in a row at the on *)
(* level, whatever the voltage did between the two levels, and the motion  *)
(* ends only when no poll has found any for StopDebounce seconds: a dip of *)
(* the wire or of the speed makes no event (vehicle_state.c:161, 209).     *)
SteadyState ==
  [][ /\ ~pi.ign /\ pi'.ign => onRun' = DebouncePolls
      /\ pi.mot /\ ~pi'.mot => still >= StopDebounce ]_vars

(* What a latch holds is in a packet in the end, or the latch has changed  *)
(* again: also when its trigger is cleared by the packet built before it   *)
(* or by a push that failed (gps_manager.c:267-268).                       *)
StateReported ==
  \A f \in {"ign", "mot", "chg"}, v \in BOOLEAN :
    (boot = "up" /\ latch[f] = v) ~> (queued[f] = v \/ latch[f] # v)
=============================================================================
