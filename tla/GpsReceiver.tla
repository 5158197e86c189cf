---------------------------- MODULE GpsReceiver ----------------------------
(***************************************************************************)
(* The power of the GNSS receiver and the reboot that a silent receiver    *)
(* causes: module/gps/gps_ops.c with the task loop of gps_manager.c.       *)
(*                                                                         *)
(* The GPS task powers the receiver up, sleeps, configures it, and takes   *)
(* one sample a second from urc_q, which the kernel fills with pairs of    *)
(* NMEA sentences.  cmdTask, of a higher priority, executes SET-GPS-ON and *)
(* SET-GPS-OFF between any two steps of the GPS task; the GPS task runs    *)
(* while cmdTask is inside the blocking call that cuts the power.  The     *)
(* statics of gps_ops.c are unlocked.  The two calls of the SDK may fail;  *)
(* the reboot is assumed to work.  s_parse_fail_reset_sent, which keeps    *)
(* the code from asking for a second one (gps_ops.c:1143), is left out.    *)
(* A definition named D_x is D with a slip a programmer could make; it is  *)
(* no part of the model.                                                   *)
(***************************************************************************)
EXTENDS Naturals

CONSTANTS
  Limit,        \* GPS_PARSE_FAIL_SOFT_RESET_COUNT
  MaxCommands   \* bound: SET-GPS-ON and SET-GPS-OFF commands

ASSUME LimitAssumption == Limit \in Nat \ {0}
ASSUME CommandsAssumption == MaxCommands \in Nat

VARIABLES
  place,    \* the GPS task in its loop
  cmd,      \* cmdTask inside wm_sdk_gps_set_power_status(0)
  power,    \* the receiver is powered
  nmea,     \* urc_q holds a pair of sentences
  setup,    \* s_pwr_nmea_setup_done
  forced,   \* s_gps_power_forced_off
  streak,   \* s_parse_fail_streak
  \* of the past
  silent,   \* samples in a row that failed with the receiver asked to be on
  reboots,  \* reboots the GPS task asked for, modulo 2
  commands  \* commands executed

tasks == <<place, cmd>>
history == <<silent, reboots, commands>>
receiverVars == <<tasks, power, nmea, setup, forced, streak, history>>

TaskAt == {"sleep", "pre_delay", "stabilize", "sample", "count"}

ReceiverInit ==
  /\ place = "sleep" /\ cmd = FALSE
  /\ power = FALSE /\ nmea = FALSE
  /\ setup = FALSE /\ forced = FALSE /\ streak = 0
  /\ silent = 0 /\ reboots = 0 /\ commands = 0
-----------------------------------------------------------------------------
(* gps_ops_power_on_and_configure_nmea_step: the flag is tested once,      *)
(* before the sleep of two seconds that precedes the call.                 *)
PowerStep ==
  /\ place = "sleep"
  /\ place' = IF forced \/ setup THEN "sample" ELSE "pre_delay"
  /\ UNCHANGED <<cmd, power, nmea, setup, forced, streak, history>>

PowerUp ==
  /\ place = "pre_delay"
  /\ power' = TRUE
  /\ place' = "stabilize"
  /\ UNCHANGED <<cmd, nmea, setup, forced, streak, history>>

PowerUpFails ==
  /\ place = "pre_delay"
  /\ place' = "sample"
  /\ UNCHANGED <<cmd, power, nmea, setup, forced, streak, history>>

Configure(ok) ==
  /\ place = "stabilize"
  /\ setup' = (setup \/ ok)
  /\ place' = "sample"
  /\ UNCHANGED <<cmd, power, nmea, forced, streak, history>>

(* The kernel's callback pairs an RMC with a GGA sentence in urc_q.        *)
Receive ==
  /\ power /\ ~nmea
  /\ nmea' = TRUE
  /\ UNCHANGED <<tasks, power, setup, forced, streak, history>>

(* gps_ops_refresh_current_sample.  The queue is drained even if the pair  *)
(* does not parse; the parse failure is counted in a step of its own.      *)
SampleParses ==
  /\ place = "sample" /\ nmea
  /\ nmea' = FALSE
  /\ streak' = 0
  /\ place' = "sleep"
  /\ silent' = 0
  /\ UNCHANGED <<cmd, power, setup, forced, reboots, commands>>

(* The failures of a receiver that is switched off are counted too. *)
SampleFails_whileOff ==
  /\ place = "sample"
  /\ nmea' = FALSE
  /\ place' = "count"
  /\ silent' = IF forced THEN 0 ELSE IF silent < Limit THEN silent + 1 ELSE Limit
  /\ UNCHANGED <<cmd, power, setup, forced, streak, reboots, commands>>

SampleFails ==
  /\ place = "sample"
  /\ nmea' = FALSE
  /\ place' = IF forced THEN "sleep" ELSE "count"
  /\ silent' = IF forced THEN 0 ELSE IF silent < Limit THEN silent + 1 ELSE Limit
  /\ UNCHANGED <<cmd, power, setup, forced, streak, reboots, commands>>

CountFailure ==
  /\ place = "count" /\ streak + 1 < Limit
  /\ streak' = streak + 1
  /\ place' = "sleep"
  /\ UNCHANGED <<cmd, power, nmea, setup, forced, history>>

(* A streak that reaches its limit is not followed by a reboot. *)
SilenceReboots_not ==
  /\ place = "count" /\ streak + 1 >= Limit
  /\ place' = "sleep"
  /\ UNCHANGED <<cmd, power, nmea, setup, forced, streak, history>>

(* wm_sdk_system_reboot: every task and every static starts afresh; the    *)
(* receiver keeps its power or not.                                        *)
SilenceReboots ==
  /\ place = "count" /\ streak + 1 >= Limit
  /\ place' = "sleep" /\ cmd' = FALSE
  /\ power' \in BOOLEAN /\ nmea' = FALSE
  /\ setup' = FALSE /\ forced' = FALSE /\ streak' = 0
  /\ silent' = 0
  /\ reboots' = 1 - reboots
  /\ UNCHANGED commands
-----------------------------------------------------------------------------
(* gps_ops_set_power_enabled in cmdTask: off is a call and then the flag,  *)
(* on is flags only.  A command that changes nothing returns at once.      *)
PowerDown ==
  /\ ~cmd /\ ~forced /\ commands < MaxCommands
  /\ power' = FALSE
  /\ cmd' = TRUE
  /\ commands' = commands + 1
  /\ UNCHANGED <<place, nmea, setup, forced, streak, silent, reboots>>

ForceOff ==
  /\ cmd
  /\ forced' = TRUE
  /\ cmd' = FALSE
  /\ UNCHANGED <<place, power, nmea, setup, streak, history>>

(* SET-GPS-ON forgets the streak. *)
SetOn_keepsStreak ==
  /\ ~cmd /\ forced /\ commands < MaxCommands
  /\ forced' = FALSE
  /\ setup' = FALSE
  /\ commands' = commands + 1
  /\ UNCHANGED <<tasks, power, nmea, streak, silent, reboots>>

SetOn ==
  /\ ~cmd /\ forced /\ commands < MaxCommands
  /\ forced' = FALSE
  /\ setup' = FALSE
  /\ streak' = 0
  /\ commands' = commands + 1
  /\ UNCHANGED <<tasks, power, nmea, silent, reboots>>

ReceiverTask ==
  \/ PowerStep \/ PowerUp \/ PowerUpFails \/ \E ok \in BOOLEAN : Configure(ok)
  \/ SampleParses \/ SampleFails \/ CountFailure \/ SilenceReboots

ReceiverNext == ReceiverTask \/ Receive \/ PowerDown \/ ForceOff \/ SetOn

ReceiverSpec == ReceiverInit /\ [][ReceiverNext]_receiverVars

(* The GPS task runs, a call that cmdTask is in returns, and a receiver    *)
(* that is asked again and again for power comes up in the end.            *)
ReceiverFairness ==
  /\ WF_receiverVars(ReceiverTask) /\ WF_receiverVars(ForceOff)
  /\ SF_receiverVars(PowerUp)

ReceiverFairSpec == ReceiverSpec /\ ReceiverFairness
-----------------------------------------------------------------------------
ReceiverTypeOK ==
  /\ place \in TaskAt /\ cmd \in BOOLEAN
  /\ power \in BOOLEAN /\ nmea \in BOOLEAN
  /\ setup \in BOOLEAN /\ forced \in BOOLEAN
  /\ streak \in 0 .. Limit - 1
  /\ silent \in 0 .. Limit /\ reboots \in {0, 1} /\ commands \in 0 .. MaxCommands

(* The GPS task reboots the device only after Limit samples in a row that  *)
(* failed although nobody had switched the receiver off: the suppression   *)
(* that the comment at s_gps_power_forced_off promises (gps_ops.c:91-95),  *)
(* across SET-GPS-OFF and SET-GPS-ON at any moment.                        *)
RebootIsDeserved == [][reboots' # reboots => silent = Limit]_receiverVars

(* A receiver that nobody holds off gets power, or is switched off again:  *)
(* also when the bring-up was overtaken by the two commands and counts as  *)
(* done with the receiver down (gps_ops.c:330), where the reboot helps.    *)
OnIsOn == (~forced /\ ~cmd) ~> (power \/ forced \/ cmd)
=============================================================================
