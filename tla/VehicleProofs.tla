----------------------------- MODULE VehicleProofs -----------------------------
(***************************************************************************)
(* Proofs about the two modules of the GPS task: GpsReceiver, for every    *)
(* limit of the streak and every number of commands, and VehicleReport,    *)
(* for every length of the debounces and both sources of motion.           *)
(***************************************************************************)
EXTENDS GpsReceiver, VehicleReport, TLAPS

-----------------------------------------------------------------------------
(* The receiver.                                                           *)
(*                                                                         *)
(* The streak counts some of the samples that silent counts: between the   *)
(* sample and the step that counts it the streak is one behind, and every  *)
(* reset of silent is a reset of the streak, or happens where the GPS task *)
(* does not count.  While the receiver is forced off the streak may keep   *)
(* what it had, but then SET-GPS-ON has to come before the next count, and *)
(* clears it: this is what StreakIsSilence says.                           *)

StreakIsSilence ==
  /\ place = "count" => streak + 1 <= silent
  /\ ~forced => streak <= silent

FlagTypes ==
  /\ cmd \in BOOLEAN /\ power \in BOOLEAN /\ nmea \in BOOLEAN
  /\ setup \in BOOLEAN /\ forced \in BOOLEAN

CounterTypes ==
  /\ place \in TaskAt
  /\ streak \in 0 .. Limit - 1
  /\ silent \in 0 .. Limit /\ reboots \in {0, 1} /\ commands \in 0 .. MaxCommands

(* No step assigns a flag anything but a truth value.                      *)
LEMMA FlagsTyped ==
  ASSUME FlagTypes, [ReceiverNext]_receiverVars
  PROVE  FlagTypes'
<1> USE DEF FlagTypes, receiverVars, tasks
<1>1. CASE PowerStep BY <1>1 DEF PowerStep
<1>2. CASE PowerUp BY <1>2, Zenon DEF PowerUp
<1>3. CASE PowerUpFails BY <1>3 DEF PowerUpFails
<1>4. ASSUME NEW ok \in BOOLEAN, Configure(ok) PROVE FlagTypes'
  BY <1>4, Zenon DEF Configure
<1>5. CASE SampleParses BY <1>5, Zenon DEF SampleParses
<1>6. CASE SampleFails BY <1>6, Zenon DEF SampleFails
<1>7. CASE CountFailure BY <1>7 DEF CountFailure
<1>8. CASE SilenceReboots BY <1>8, Zenon DEF SilenceReboots
<1>9. CASE Receive BY <1>9, Zenon DEF Receive
<1>10. CASE PowerDown BY <1>10, Zenon DEF PowerDown
<1>11. CASE ForceOff BY <1>11, Zenon DEF ForceOff
<1>12. CASE SetOn BY <1>12, Zenon DEF SetOn
<1>13. CASE UNCHANGED receiverVars BY <1>13
<1> QED BY <1>1, <1>2, <1>3, <1>4, <1>5, <1>6, <1>7, <1>8, <1>9, <1>10,
           <1>11, <1>12, <1>13 DEF ReceiverNext, ReceiverTask

(* The counters stay within their bounds, the task where its loop has a    *)
(* place.                                                                  *)
LEMMA CountersTyped ==
  ASSUME CounterTypes, [ReceiverNext]_receiverVars
  PROVE  CounterTypes'
<1> USE LimitAssumption, CommandsAssumption
    DEF CounterTypes, TaskAt, receiverVars, tasks, history
<1>1. CASE PowerStep BY <1>1 DEF PowerStep
<1>2. CASE PowerUp BY <1>2 DEF PowerUp
<1>3. CASE PowerUpFails BY <1>3 DEF PowerUpFails
<1>4. ASSUME NEW ok \in BOOLEAN, Configure(ok) PROVE CounterTypes'
  BY <1>4 DEF Configure
<1>5. CASE SampleParses BY <1>5 DEF SampleParses
<1>6. CASE SampleFails BY <1>6 DEF SampleFails
<1>7. CASE CountFailure BY <1>7 DEF CountFailure
<1>8. CASE SilenceReboots BY <1>8 DEF SilenceReboots
<1>9. CASE Receive BY <1>9 DEF Receive
<1>10. CASE PowerDown BY <1>10 DEF PowerDown
<1>11. CASE ForceOff BY <1>11 DEF ForceOff
<1>12. CASE SetOn BY <1>12 DEF SetOn
<1>13. CASE UNCHANGED receiverVars BY <1>13
<1> QED BY <1>1, <1>2, <1>3, <1>4, <1>5, <1>6, <1>7, <1>8, <1>9, <1>10,
           <1>11, <1>12, <1>13 DEF ReceiverNext, ReceiverTask

(* Every variable of the receiver model has its type (ReceiverTypeOK).             *)
THEOREM ReceiverTypeCorrect == ReceiverSpec => []ReceiverTypeOK
<1>1. ReceiverInit => FlagTypes /\ CounterTypes
  <2> SUFFICES ASSUME ReceiverInit PROVE FlagTypes /\ CounterTypes
    OBVIOUS
  <2>1. FlagTypes BY Zenon DEF ReceiverInit, FlagTypes
  <2>2. CounterTypes
    BY LimitAssumption, CommandsAssumption DEF ReceiverInit, CounterTypes, TaskAt
  <2> QED BY <2>1, <2>2
<1>2. FlagTypes /\ CounterTypes /\ [ReceiverNext]_receiverVars
        => (FlagTypes /\ CounterTypes)'
  BY FlagsTyped, CountersTyped
<1>3. FlagTypes /\ CounterTypes => ReceiverTypeOK
  BY DEF FlagTypes, CounterTypes, ReceiverTypeOK
<1> QED BY <1>1, <1>2, <1>3, PTL DEF ReceiverSpec

(* The streak never runs ahead of the silence it stands for.               *)
THEOREM StreakInvariant == ReceiverSpec => []StreakIsSilence
<1> USE LimitAssumption, CommandsAssumption DEF ReceiverTypeOK, TaskAt, StreakIsSilence
<1>1. ReceiverInit => StreakIsSilence
  BY DEF ReceiverInit
<1>2. ReceiverTypeOK /\ StreakIsSilence /\ [ReceiverNext]_receiverVars => StreakIsSilence'
  <2> SUFFICES ASSUME ReceiverTypeOK, StreakIsSilence, [ReceiverNext]_receiverVars
               PROVE  StreakIsSilence'
    OBVIOUS
  <2> USE DEF receiverVars, tasks, history
  <2>1. CASE PowerStep BY <2>1 DEF PowerStep
  <2>2. CASE PowerUp BY <2>2 DEF PowerUp
  <2>3. CASE PowerUpFails BY <2>3 DEF PowerUpFails
  <2>4. ASSUME NEW ok \in BOOLEAN, Configure(ok) PROVE StreakIsSilence'
    BY <2>4 DEF Configure
  <2>5. CASE SampleParses BY <2>5 DEF SampleParses
  <2>6. CASE SampleFails BY <2>6 DEF SampleFails
  <2>7. CASE CountFailure BY <2>7 DEF CountFailure
  <2>8. CASE SilenceReboots BY <2>8 DEF SilenceReboots
  <2>9. CASE Receive BY <2>9 DEF Receive
  <2>10. CASE PowerDown BY <2>10 DEF PowerDown
  <2>11. CASE ForceOff BY <2>11 DEF ForceOff
  <2>12. CASE SetOn BY <2>12 DEF SetOn
  <2>13. CASE UNCHANGED receiverVars BY <2>13
  <2> QED BY <2>1, <2>2, <2>3, <2>4, <2>5, <2>6, <2>7, <2>8, <2>9, <2>10,
             <2>11, <2>12, <2>13 DEF ReceiverNext, ReceiverTask
<1> QED BY <1>1, <1>2, ReceiverTypeCorrect, PTL DEF ReceiverSpec

(* RebootIsDeserved: the GPS task reboots the device only after Limit      *)
(* samples in a row failed that nobody had switched off.                   *)
THEOREM DeservedReboots == ReceiverSpec => RebootIsDeserved
<1>1. ReceiverTypeOK /\ StreakIsSilence /\ [ReceiverNext]_receiverVars
        => [reboots' # reboots => silent = Limit]_receiverVars
  <2> SUFFICES ASSUME ReceiverTypeOK, StreakIsSilence, ReceiverNext, reboots' # reboots
               PROVE silent = Limit
    BY DEF receiverVars, history
  <2>1. SilenceReboots
    BY DEF ReceiverNext, ReceiverTask, PowerStep, PowerUp, PowerUpFails, Configure,
           SampleParses, SampleFails, CountFailure, Receive, PowerDown, ForceOff, SetOn, history
  <2> QED BY <2>1, LimitAssumption DEF SilenceReboots, StreakIsSilence, ReceiverTypeOK
<1> QED BY <1>1, ReceiverTypeCorrect, StreakInvariant, PTL DEF ReceiverSpec, RebootIsDeserved

-----------------------------------------------------------------------------
(* The vehicle state *)

\* Where the GPS task and the start are, and what the two debouncers count.
CountTypes ==
  /\ boot \in {"system", "gps", "up"} /\ gpc \in {"sleep", "decide", "push", "clear"}
  /\ polls \in 0 .. DebouncePolls /\ stopped \in -1 .. StopDebounce
  /\ onRun \in 0 .. DebouncePolls /\ still \in 0 .. StopDebounce

StateTypes ==
  /\ pi \in State /\ latch \in State /\ packet \in State /\ queued \in State
  /\ trigger \in BOOLEAN /\ due \in BOOLEAN

\* A reading counts towards the ignition only if it was at the on level: while
\* the ignition is off a reading between the levels starts the count afresh.
\* The stop clock started no earlier than the last poll that found motion.
ClocksHonest ==
  /\ ~pi.ign => polls <= onRun /\ polls < DebouncePolls
  /\ pi.ign => polls = DebouncePolls
  /\ stopped # -1 => stopped <= still

-----------------------------------------------------------------------------
(* One poll *)

LEMMA Sizes == /\ DebouncePolls \in Nat /\ DebouncePolls > 0 /\ StopDebounce \in Nat
               /\ MotionIsIgnition \in BOOLEAN
  BY DebounceAssumption, SourceAssumption

\* Whatever a poll finds, PowerInfo and the latches hold truth values.
LEMMA EmitTypes ==
  ASSUME StateTypes, NEW new \in State, Emit(new)
  PROVE  pi' \in State /\ latch' \in State /\ trigger' \in BOOLEAN
<1>1. pi' \in State
  BY DEF Emit
<1>2. latch' \in State
  BY DEF Emit, State, StateTypes
<1>3. trigger' \in BOOLEAN
  BY Zenon DEF Emit
<1> QED BY <1>1, <1>2, <1>3

\* A poll of the motion, with an ignition and a charge that are known.
LEMMA PollMotionTypes ==
  ASSUME StateTypes, CountTypes, NEW ign \in BOOLEAN, NEW chg \in BOOLEAN,
         PollMotion(ign, chg)
  PROVE  /\ pi' \in State /\ latch' \in State /\ trigger' \in BOOLEAN
         /\ stopped' \in -1 .. StopDebounce /\ still' \in 0 .. StopDebounce
         /\ pi'.ign = ign
         /\ (stopped # -1 => stopped <= still) => (stopped' # -1 => stopped' <= still')
         /\ (stopped # -1 => stopped <= still) /\ pi.mot /\ ~pi'.mot
              => still >= StopDebounce
<1>1. PICK raw \in RawMotion(ign) :
        /\ stopped' = StopClock(raw)
        /\ still' = IF raw THEN 0 ELSE still
        /\ Emit([ign |-> ign, mot |-> Motion(raw), chg |-> chg])
  BY DEF PollMotion
<1>2. raw \in BOOLEAN
  BY Zenon DEF RawMotion
<1>3. Motion(raw) \in BOOLEAN
  BY <1>2, Zenon DEF Motion
<1>4. [ign |-> ign, mot |-> Motion(raw), chg |-> chg] \in State
  BY <1>3 DEF State
<1>5. /\ pi' \in State /\ latch' \in State /\ trigger' \in BOOLEAN
      /\ pi' = [ign |-> ign, mot |-> Motion(raw), chg |-> chg]
  <2>1. pi' = [ign |-> ign, mot |-> Motion(raw), chg |-> chg]
    BY <1>1 DEF Emit
  <2> QED BY <1>1, <1>4, <2>1, EmitTypes, Zenon
<1>6. pi'.ign = ign /\ pi'.mot = Motion(raw)
  BY <1>5
<1>7. stopped' \in -1 .. StopDebounce /\ still' \in 0 .. StopDebounce
  BY <1>1, Sizes DEF StopClock, CountTypes
<1>8. (stopped # -1 => stopped <= still) => (stopped' # -1 => stopped' <= still')
  BY <1>1, Sizes DEF StopClock, CountTypes
<1>9. (stopped # -1 => stopped <= still) /\ pi.mot /\ ~pi'.mot => still >= StopDebounce
  <2> SUFFICES ASSUME stopped # -1 => stopped <= still, pi.mot, ~pi'.mot
               PROVE  still >= StopDebounce
    OBVIOUS
  <2>1. ~raw /\ ~(StopClock(raw) < StopDebounce)
    BY <1>6 DEF Motion
  <2> QED BY <2>1, Sizes DEF StopClock, CountTypes
<1> QED BY <1>5, <1>6, <1>7, <1>8, <1>9

\* A poll of the ADC: besides, the ignition comes on only after a full run.
LEMMA AdcPollSteps ==
  ASSUME StateTypes, CountTypes, NEW wire \in Wire, NEW chg \in BOOLEAN,
         AdcPoll(wire, chg)
  PROVE  /\ pi' \in State /\ latch' \in State /\ trigger' \in BOOLEAN
         /\ polls' \in 0 .. DebouncePolls /\ onRun' \in 0 .. DebouncePolls
         /\ stopped' \in -1 .. StopDebounce /\ still' \in 0 .. StopDebounce
         /\ ClocksHonest => ClocksHonest'
         /\ ClocksHonest => /\ ~pi.ign /\ pi'.ign => onRun' = DebouncePolls
                            /\ pi.mot /\ ~pi'.mot => still >= StopDebounce
<1> DEFINE ign == RawIgnition(wire) /\ polls' >= DebouncePolls
<1>1. ign \in BOOLEAN
  BY Zenon
<1>2. PollMotion(ign, chg)
  BY DEF AdcPoll
<1>3. /\ pi' \in State /\ latch' \in State /\ trigger' \in BOOLEAN
      /\ stopped' \in -1 .. StopDebounce /\ still' \in 0 .. StopDebounce
      /\ pi'.ign = ign
      /\ (stopped # -1 => stopped <= still) => (stopped' # -1 => stopped' <= still')
      /\ (stopped # -1 => stopped <= still) /\ pi.mot /\ ~pi'.mot
           => still >= StopDebounce
  <2> HIDE DEF ign
  <2> QED BY <1>1, <1>2, PollMotionTypes, Zenon
<1>4. /\ polls' = PollCount(RawIgnition(wire))
      /\ onRun' = IF wire # "on" THEN 0
                  ELSE IF onRun < DebouncePolls THEN onRun + 1 ELSE onRun
  BY DEF AdcPoll
<1>5. polls' \in 0 .. DebouncePolls /\ onRun' \in 0 .. DebouncePolls
  BY <1>4, Sizes DEF PollCount, CountTypes
<1>6. ClocksHonest => /\ ~pi'.ign => polls' <= onRun' /\ polls' < DebouncePolls
                      /\ pi'.ign => polls' = DebouncePolls
                      /\ ~pi.ign /\ pi'.ign => onRun' = DebouncePolls
  <2>1. pi'.ign <=> RawIgnition(wire) /\ polls' >= DebouncePolls
    BY <1>3
  <2>2. CASE ~RawIgnition(wire)
    <3>1. polls' = 0 /\ ~pi'.ign /\ onRun' >= 0
      BY <2>1, <2>2, <1>4, <1>5 DEF PollCount
    <3> QED BY <3>1, Sizes
  <2>3. CASE RawIgnition(wire) /\ pi.ign
    <3>1. ClocksHonest => polls' = DebouncePolls
      BY <2>3, <1>4, Sizes DEF PollCount, ClocksHonest
    <3> QED BY <3>1, <2>1, <2>3, Sizes
  <2>4. CASE RawIgnition(wire) /\ ~pi.ign
    <3>1. wire = "on"
      BY <2>4 DEF RawIgnition
    <3>2. polls' = IF polls < DebouncePolls THEN polls + 1 ELSE polls
      BY <2>4, <1>4 DEF PollCount
    <3>3. ClocksHonest => polls' = polls + 1 /\ polls' <= onRun'
      BY <3>1, <3>2, <1>4, <2>4, Sizes DEF CountTypes, ClocksHonest
    <3> QED BY <3>3, <2>1, <2>4, <1>5, Sizes
  <2> QED BY <2>2, <2>3, <2>4
<1>7. ClocksHonest => ClocksHonest'
  BY <1>3, <1>6 DEF ClocksHonest
<1> QED BY <1>3, <1>5, <1>6, <1>7 DEF ClocksHonest

-----------------------------------------------------------------------------
(* The types *)

LEMMA StepTypes ==
  ASSUME StateTypes, CountTypes, [Next]_vars
  PROVE  StateTypes' /\ CountTypes'
<1> USE DEF vars, pollVars, gpsVars, taskVars, ghostVars
<1>1. ASSUME NEW wire \in Wire, NEW chg \in BOOLEAN, AdcPoll(wire, chg),
             UNCHANGED <<due, taskVars>>, boot' \in {boot, "gps"}
      PROVE  StateTypes' /\ CountTypes'
  BY <1>1, AdcPollSteps DEF StateTypes, CountTypes
<1>2. CASE Prime
  <2>1. CASE UNCHANGED <<pollVars, latch, trigger, ghostVars>>
    BY <1>2, <2>1 DEF Prime, StateTypes, CountTypes
  <2> QED BY <1>1, <1>2, <2>1 DEF Prime
<1>3. CASE GpsInit
  <2>1. latch' \in State
    BY <1>3, Zenon DEF GpsInit, State
  <2>2. trigger' \in BOOLEAN /\ due' \in BOOLEAN
    BY <1>3, Zenon DEF GpsInit
  <2> QED BY <1>3, <2>1, <2>2 DEF GpsInit, StateTypes, CountTypes
<1>4. CASE LoopAdcPoll
  BY <1>1, <1>4 DEF LoopAdcPoll
<1>5. CASE LoopPoll
  <2>1. pi.ign \in BOOLEAN /\ pi.chg \in BOOLEAN
    BY DEF StateTypes, State
  <2> QED BY <1>5, <2>1, PollMotionTypes DEF LoopPoll, StateTypes, CountTypes
<1>6. CASE Tick
  BY <1>6, Sizes DEF Tick, StateTypes, CountTypes
<1>7. CASE IntervalPasses
  <2>1. due' \in BOOLEAN
    BY <1>7, Zenon DEF IntervalPasses
  <2> QED BY <1>7, <2>1 DEF IntervalPasses, StateTypes, CountTypes
<1>8. ASSUME NEW edge \in BOOLEAN, Sample(edge) PROVE StateTypes' /\ CountTypes'
  <2>1. trigger' \in BOOLEAN
    BY <1>8, Zenon DEF Sample
  <2> QED BY <1>8, <2>1 DEF Sample, StateTypes, CountTypes
<1>9. ASSUME NEW moved \in BOOLEAN, BuildPacket(moved) PROVE StateTypes' /\ CountTypes'
  BY <1>9 DEF BuildPacket, StateTypes, CountTypes
<1>10. CASE PushPacket
  <2>1. due' \in BOOLEAN
    BY <1>10, Zenon DEF PushPacket
  <2> QED BY <1>10, <2>1 DEF PushPacket, StateTypes, CountTypes
<1>11. CASE PushFails
  BY <1>11 DEF PushFails, StateTypes, CountTypes
<1>12. CASE ClearTrigger
  <2>1. trigger' \in BOOLEAN
    BY <1>12, Zenon DEF ClearTrigger
  <2> QED BY <1>12, <2>1 DEF ClearTrigger, StateTypes, CountTypes
<1>13. CASE UNCHANGED vars
  BY <1>13 DEF StateTypes, CountTypes
<1> QED BY <1>2, <1>3, <1>4, <1>5, <1>6, <1>7, <1>8, <1>9, <1>10, <1>11, <1>12,
           <1>13 DEF Next, GpsTask

(* Every variable of the vehicle model has its type (TypeOK): no count of  *)
(* a debouncer leaves its bounds.                                          *)
THEOREM VehicleTypeCorrect == Spec => []TypeOK
<1>1. Init => StateTypes /\ CountTypes
  <2> SUFFICES ASSUME Init PROVE StateTypes /\ CountTypes
    OBVIOUS
  <2>1. AllOff \in State
    BY Zenon DEF AllOff, State
  <2>2. trigger \in BOOLEAN /\ due \in BOOLEAN
    BY Zenon DEF Init
  <2>3. CountTypes
    BY Sizes DEF Init, CountTypes
  <2> QED BY <2>1, <2>2, <2>3 DEF Init, StateTypes
<1>2. (StateTypes /\ CountTypes) /\ [Next]_vars => (StateTypes /\ CountTypes)'
  BY StepTypes
<1>3. StateTypes /\ CountTypes => TypeOK
  BY DEF StateTypes, CountTypes, TypeOK
<1> QED BY <1>1, <1>2, <1>3, PTL DEF Spec

-----------------------------------------------------------------------------
(* The debouncing *)

LEMMA TypesOfTypeOK == TypeOK => StateTypes /\ CountTypes
  BY DEF TypeOK, StateTypes, CountTypes

\* One step keeps the clocks honest, and turns the ignition on and the motion
\* off only when they allow it.
LEMMA SteadyStep ==
  ASSUME TypeOK, ClocksHonest, [Next]_vars
  PROVE  /\ ClocksHonest'
         /\ ~pi.ign /\ pi'.ign => onRun' = DebouncePolls
         /\ pi.mot /\ ~pi'.mot => still >= StopDebounce
<1> DEFINE Steady == /\ ClocksHonest'
                     /\ ~pi.ign /\ pi'.ign => onRun' = DebouncePolls
                     /\ pi.mot /\ ~pi'.mot => still >= StopDebounce
<1> USE TypesOfTypeOK DEF vars, pollVars, gpsVars, taskVars, ghostVars
<1>1. ASSUME NEW wire \in Wire, NEW chg \in BOOLEAN, AdcPoll(wire, chg) PROVE Steady
  BY <1>1, AdcPollSteps
<1>2. CASE UNCHANGED <<pollVars, ghostVars>>
  BY <1>2 DEF ClocksHonest
<1>3. CASE Prime
  BY <1>1, <1>2, <1>3 DEF Prime
<1>4. CASE LoopAdcPoll
  BY <1>1, <1>4 DEF LoopAdcPoll
<1>5. CASE LoopPoll
  <2>1. pi.ign \in BOOLEAN /\ pi.chg \in BOOLEAN
    BY DEF StateTypes, State
  <2>2. /\ pi'.ign = pi.ign
        /\ stopped' # -1 => stopped' <= still'
        /\ pi.mot /\ ~pi'.mot => still >= StopDebounce
    BY <1>5, <2>1, PollMotionTypes DEF LoopPoll, ClocksHonest
  <2> QED BY <1>5, <2>2 DEF LoopPoll, ClocksHonest
<1>6. CASE Tick
  BY <1>6, Sizes DEF Tick, ClocksHonest, CountTypes
<1>7. CASE GpsInit \/ IntervalPasses \/ GpsTask
  BY <1>2, <1>7 DEF GpsInit, IntervalPasses, GpsTask, Sample, BuildPacket, PushPacket,
                    PushFails, ClearTrigger
<1> QED BY <1>2, <1>3, <1>4, <1>5, <1>6, <1>7 DEF Next

(* SteadyState: neither a voltage between the levels nor a short stop      *)
(* turns into an event (vehicle_state.c:161, 209).                         *)
THEOREM SteadyVehicle == Spec => SteadyState
<1>1. Init => ClocksHonest
  BY Sizes DEF Init, ClocksHonest, AllOff
<1>2. TypeOK /\ ClocksHonest /\ [Next]_vars => ClocksHonest'
  BY SteadyStep
<1>3. TypeOK /\ ClocksHonest /\ [Next]_vars
        => [ /\ ~pi.ign /\ pi'.ign => onRun' = DebouncePolls
             /\ pi.mot /\ ~pi'.mot => still >= StopDebounce ]_vars
  BY SteadyStep
<1> QED BY <1>1, <1>2, <1>3, VehicleTypeCorrect, PTL DEF Spec, SteadyState
================================================================================
