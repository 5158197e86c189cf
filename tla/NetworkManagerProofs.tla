------------------------ MODULE NetworkManagerProofs ------------------------
(***************************************************************************)
(* Proofs about NetworkManager, for every timeout, every number of samples *)
(* that settle the presence of the SIM, every size of the URC queue and    *)
(* every set of modem calls that may fail.                                 *)
(***************************************************************************)
EXTENDS NetworkManager, TLAPS

\* While a CFUN cycle is half done NETMGR asks for no state that the guard of
\* network_set_state lets replace RESTART_CFUN, and stores none.
CycleTarget ==
  cfunStep # "idle" =>
    /\ net.at = "guard" => net.target \notin {"INIT", "ERROR"}
    /\ net.at = "store" => net.target = "RESTART_CFUN"

CycleInv == CfunCycleKept /\ CycleTarget

\* A state of the bring-up is on its way into the state variable only without
\* a connection, and the connection is announced only outside the bring-up.
BringUpTarget ==
  /\ (net.at \in {"guard", "store"} /\ net.target \in BringUp) => ~connected
  /\ net.at = "connect" => state \notin BringUp
  /\ (net.at \in {"guard", "store"} /\ net.back = "connect") =>
       state \notin BringUp /\ net.target \notin BringUp

BringUpInv == BringUpIsDown /\ BringUpTarget

\* The absent samples in a row, as far as they count.
Absent == IF debounceInserted THEN 0 ELSE debounceMatches

\* Each absent sample has its restart, and while the radio is off the sample
\* that is under way, the only one that can be, has one too.
DipsCover ==
  /\ Absent <= dips
  /\ ~radioOn => \/ dips = Enough
                 \/ cfunStep = "wait_off" /\ (simAt = "sample" => Absent < dips)

RemovalInv == DipsCover /\ NoFakeRemoval

NetworkInv == TypeOK /\ CycleInv /\ BringUpInv /\ RemovalInv

-----------------------------------------------------------------------------
(* Types *)

LEMMA Sizes == /\ StateTimeout \in [Timed -> Nat \ {0}] /\ OverallTimeout \in Nat
               /\ OverallTimeout > 0 /\ Enough \in Nat /\ Enough > 0
               /\ UrcCapacity \in Nat /\ UrcCapacity > 0
  BY NetworkAssumption DEF Enough

\* What Go and Set make of net.
LEMMA NetTypes ==
  /\ \A p \in Places : [at |-> p, target |-> "INIT", back |-> "drain"] \in Nets
  /\ \A s \in NetworkState, p \in Places :
       [at |-> "guard", target |-> s, back |-> p] \in Nets
  BY DEF Nets, Places, NetworkState

\* No sample takes the count of matches beyond its limit.
LEMMA DebouncedType ==
  ASSUME TypeOK, NEW inserted \in BOOLEAN
  PROVE  Debounced(inserted) \in 1..Enough
  BY Sizes DEF Debounced, TypeOK, Enough

LEMMA HandlerTypes ==
  ASSUME TypeOK, Handler
  PROVE  TypeOK'
<1> USE NetTypes DEF TypeOK, KeepMachine, KeepConnection, NetUnchanged, SIMUnchanged,
                     simVars, simState, machine, In, Go, Set, Places, NetworkState
<1>1. CASE HandleInit
  <2>1. net' \in Nets
    BY <1>1 DEF HandleInit
  <2>2. connected' \in BOOLEAN
    BY <1>1, Zenon DEF HandleInit, Disconnect
  <2>3. downTime' \in {0, downTime}
    BY <1>1 DEF HandleInit, Disconnect
  <2>4. downTime' \in 0..OverallTimeout
    BY <2>3, Sizes
  <2>5. UNCHANGED <<state, cfunStep, lastState, stateTime, connStart, urcq, simVars,
                    radioOn, resetRequested, due>>
    BY <1>1 DEF HandleInit
  <2> QED
    BY <2>1, <2>2, <2>4, <2>5
<1>2. CASE HandleCheckSim
  BY <1>2 DEF HandleCheckSim
<1>3. CASE HandleQuery
  BY <1>3 DEF HandleQuery, Answers
<1>4. CASE HandleGetIp
  BY <1>4 DEF HandleGetIp
<1>5. CASE HandleConnected
  BY <1>5 DEF HandleConnected
<1>6. CASE HandleDisconnected
  <2>1. net' \in Nets
    BY <1>6 DEF HandleDisconnected
  <2>2. connected' \in BOOLEAN
    BY <1>6, Zenon DEF HandleDisconnected, Disconnect
  <2>3. downTime' \in {0, downTime}
    BY <1>6 DEF HandleDisconnected, Disconnect
  <2>4. downTime' \in 0..OverallTimeout
    BY <2>3, Sizes
  <2>5. UNCHANGED <<state, cfunStep, lastState, stateTime, connStart, urcq, simVars,
                    radioOn, resetRequested, due>>
    BY <1>6 DEF HandleDisconnected
  <2> QED
    BY <2>1, <2>2, <2>4, <2>5
<1>7. CASE HandleRestartCfun
  <2>1. net' \in Nets
    BY <1>7 DEF HandleRestartCfun
  <2>2. dips' \in 0..SIM_DETECT_DEBOUNCE_MATCHES
    BY <1>7, Sizes DEF HandleRestartCfun, Enough
  <2>3. due' \subseteq {"NETMGR", "SIMDET"}
    BY <1>7 DEF HandleRestartCfun, Dwell
  <2>4. cfunStep' \in {"idle", "wait_off", "wait_on"} /\ radioOn' \in BOOLEAN
    BY <1>7 DEF HandleRestartCfun
  <2> QED
    BY <1>7, <2>1, <2>2, <2>3, <2>4 DEF HandleRestartCfun
<1> QED
  BY <1>1, <1>2, <1>3, <1>4, <1>5, <1>6, <1>7 DEF Handler

LEMMA NetTaskTypes ==
  ASSUME TypeOK, NETMGR
  PROVE  TypeOK'
<1> USE NetTypes DEF TypeOK, NetUnchanged, SIMUnchanged, simVars, simState, machine,
                     Go, Set, Places, NetworkState
<1>1. CASE NetDrainUrc
  <2>1. urcq' \in Seq(Urcs) /\ Len(urcq') <= UrcCapacity
    <3>1. CASE urcq = <<>>
      BY <1>1, <3>1 DEF NetDrainUrc
    <3>2. CASE urcq # <<>>
      <4>1. urcq' = Tail(urcq)
        BY <1>1, <3>2 DEF NetDrainUrc
      <4>2. Tail(urcq) \in Seq(Urcs) /\ Len(Tail(urcq)) = Len(urcq) - 1 /\ Len(urcq) \in Nat
        BY <3>2
      <4> QED
        BY <4>1, <4>2, Sizes
    <3> QED
      BY <3>1, <3>2
  <2> QED
    BY <1>1, <2>1 DEF NetDrainUrc, UrcTarget
<1>2. CASE NetTimers
  BY <1>2 DEF NetTimers
<1>3. CASE NetExpire
  BY <1>3, Sizes DEF NetExpire, Enough
<1>4. CASE NetOverall
  BY <1>4, Sizes DEF NetOverall
<1>5. CASE Handler
  BY <1>5, HandlerTypes
<1>6. CASE NetConnect
  BY <1>6 DEF NetConnect, KeepMachine
<1>7. CASE NetGuard
  BY <1>7 DEF NetGuard, Nets
<1>8. CASE NetStore
  BY <1>8 DEF NetStore, Nets
<1>9. CASE NetSleep
  BY <1>9 DEF NetSleep
<1> QED
  BY <1>1, <1>2, <1>3, <1>4, <1>5, <1>6, <1>7, <1>8, <1>9 DEF NETMGR

LEMMA TypeStep ==
  ASSUME TypeOK, [Next]_vars
  PROVE  TypeOK'
<1> USE DEF TypeOK, simVars, simState, machine
<1>1. CASE NETMGR
  BY <1>1, NetTaskTypes
<1>2. CASE SimPoll
  BY <1>2 DEF SimPoll, NETUnchanged
<1>3. CASE SimSample
  <2>1. PICK trayIn \in BOOLEAN :
          LET inserted == trayIn /\ radioOn IN
          /\ debounceMatches' = Debounced(inserted) /\ debounceInserted' = inserted
          /\ simAvailable' \in {inserted, simAvailable}
          /\ simAt' \in {"notify", "poll"} /\ due' \in {due, due \ {"SIMDET"}}
          /\ dips' \in {0, dips, Enough}
    BY <1>3 DEF SimSample
  <2>2. debounceMatches' \in 0..SIM_DETECT_DEBOUNCE_MATCHES
    BY <2>1, DebouncedType, Sizes DEF Enough
  <2>3. dips' \in 0..SIM_DETECT_DEBOUNCE_MATCHES
    BY <2>1, Sizes DEF Enough
  <2> QED
    BY <1>3, <2>1, <2>2, <2>3 DEF SimSample, NETUnchanged
<1>4. CASE SimSampleFails
  BY <1>4 DEF SimSampleFails, NETUnchanged
<1>5. CASE SimNotify
  BY <1>5 DEF SimNotify, NETUnchanged, NetworkState
<1>6. CASE UrcArrives
  BY <1>6, Sizes DEF UrcArrives
<1>7. CASE Tick
  BY <1>7, Sizes DEF Tick
<1>8. CASE SocReset
  <2>1. net' \in Nets
    BY <1>8, NetTypes DEF SocReset, Go, Places
  <2>2. urcq' = <<>> /\ downTime' = 0 /\ debounceMatches' = 0 /\ dips' = 0
    BY <1>8 DEF SocReset
  <2>3. /\ urcq' \in Seq(Urcs) /\ Len(urcq') <= UrcCapacity
        /\ downTime' \in 0..OverallTimeout
        /\ debounceMatches' \in 0..SIM_DETECT_DEBOUNCE_MATCHES
        /\ dips' \in 0..SIM_DETECT_DEBOUNCE_MATCHES
    BY <2>2, Sizes DEF Enough
  <2> QED
    BY <1>8, <2>1, <2>3 DEF SocReset, NetworkState
<1>9. CASE UNCHANGED vars
  BY <1>9 DEF vars
<1> QED
  BY <1>1, <1>2, <1>3, <1>4, <1>5, <1>6, <1>7, <1>8, <1>9 DEF Next, SIMDET

\* Every variable of the two tasks keeps its type (network.c:102-139).
THEOREM TypeCorrect == Spec => []TypeOK
<1>1. Init => TypeOK
  <2> SUFFICES ASSUME Init PROVE TypeOK
    OBVIOUS
  <2>1. urcq \in Seq(Urcs) /\ Len(urcq) <= UrcCapacity /\ downTime \in 0..OverallTimeout
    BY Sizes DEF Init
  <2>2. /\ debounceMatches \in 0..SIM_DETECT_DEBOUNCE_MATCHES
        /\ dips \in 0..SIM_DETECT_DEBOUNCE_MATCHES
    BY Sizes DEF Init, Enough
  <2> QED
    BY <2>1, <2>2 DEF Init, TypeOK, NetworkState, Nets, Places
<1>2. TypeOK /\ [Next]_vars => TypeOK'
  BY TypeStep
<1> QED
  BY <1>1, <1>2, PTL DEF Spec

-----------------------------------------------------------------------------
(* The CFUN cycle *)

LEMMA CycleStep ==
  ASSUME TypeOK, CycleInv, [Next]_vars
  PROVE  CycleInv'
<1> USE DEF CycleInv, CfunCycleKept, CycleTarget, Go, Set, machine
<1>1. CASE NetDrainUrc
  BY <1>1 DEF NetDrainUrc, UrcTarget
<1>2. CASE NetTimers
  BY <1>2 DEF NetTimers
<1>3. CASE NetExpire
  BY <1>3 DEF NetExpire
<1>4. CASE NetOverall
  BY <1>4 DEF NetOverall
<1>5. CASE HandleRestartCfun
  BY <1>5 DEF HandleRestartCfun, In, KeepMachine
<1>6. CASE Handler /\ ~HandleRestartCfun
  <2>1. UNCHANGED <<state, cfunStep>> /\ state # "RESTART_CFUN"
    BY <1>6 DEF Handler, HandleInit, HandleCheckSim, HandleQuery, HandleGetIp,
      HandleConnected, HandleDisconnected, In, KeepMachine, Answers
  <2> QED
    BY <2>1
<1>7. CASE NetConnect
  BY <1>7 DEF NetConnect, KeepMachine
<1>8. CASE NetGuard
  BY <1>8 DEF NetGuard, SetStateBlocked, TypeOK, Nets, Places
<1>9. CASE NetStore
  BY <1>9 DEF NetStore, TypeOK, Nets, Places
<1>10. CASE NetSleep
  BY <1>10 DEF NetSleep
<1>11. CASE SIMDET
  <2>1. UNCHANGED <<cfunStep, net>> /\ state' \in {state, "RESTART_CFUN"}
    BY <1>11 DEF SIMDET, SimPoll, SimSample, SimSampleFails, SimNotify, NETUnchanged
  <2> QED
    BY <2>1
<1>12. CASE UrcArrives \/ Tick \/ UNCHANGED vars
  BY <1>12 DEF UrcArrives, Tick, vars
<1>13. CASE SocReset
  BY <1>13 DEF SocReset
<1> QED
  BY <1>1, <1>2, <1>3, <1>4, <1>5, <1>6, <1>7, <1>8, <1>9, <1>10, <1>11, <1>12, <1>13
     DEF Next, NETMGR

-----------------------------------------------------------------------------
(* The flag of the connection *)

LEMMA BringUpStep ==
  ASSUME TypeOK, BringUpInv, [Next]_vars
  PROVE  BringUpInv'
<1> USE DEF BringUpInv, BringUpIsDown, BringUpTarget, BringUp, Go, Set, machine
<1>1. CASE NetDrainUrc
  BY <1>1 DEF NetDrainUrc, UrcTarget
<1>2. CASE NetTimers
  BY <1>2 DEF NetTimers
<1>3. CASE NetExpire
  BY <1>3 DEF NetExpire
<1>4. CASE NetOverall
  BY <1>4 DEF NetOverall
<1>5. CASE HandleInit
  BY <1>5 DEF HandleInit, Disconnect, In, KeepMachine
<1>6. CASE HandleCheckSim
  BY <1>6 DEF HandleCheckSim, In, KeepMachine, KeepConnection
<1>7. CASE HandleQuery
  BY <1>7 DEF HandleQuery, Answers, KeepMachine, KeepConnection
<1>8. CASE HandleGetIp
  BY <1>8 DEF HandleGetIp, In, KeepMachine, KeepConnection
<1>9. CASE HandleConnected
  BY <1>9 DEF HandleConnected, In, KeepMachine
<1>10. CASE HandleDisconnected
  BY <1>10 DEF HandleDisconnected, Disconnect, In, KeepMachine
<1>11. CASE HandleRestartCfun
  BY <1>11 DEF HandleRestartCfun, In, KeepMachine, KeepConnection
<1>12. CASE NetConnect
  BY <1>12 DEF NetConnect, KeepMachine
<1>13. CASE NetGuard
  BY <1>13 DEF NetGuard, TypeOK, Nets, Places
<1>14. CASE NetStore
  BY <1>14 DEF NetStore, TypeOK, Nets, Places
<1>15. CASE NetSleep
  BY <1>15 DEF NetSleep
<1>16. CASE SIMDET
  <2>1. UNCHANGED <<connected, net>> /\ state' \in {state, "RESTART_CFUN"}
    BY <1>16 DEF SIMDET, SimPoll, SimSample, SimSampleFails, SimNotify, NETUnchanged
  <2> QED
    BY <2>1
<1>17. CASE UrcArrives \/ Tick \/ UNCHANGED vars
  BY <1>17 DEF UrcArrives, Tick, vars
<1>18. CASE SocReset
  BY <1>18 DEF SocReset
<1> QED
  BY <1>1, <1>2, <1>3, <1>4, <1>5, <1>6, <1>7, <1>8, <1>9, <1>10, <1>11, <1>12, <1>13,
     <1>14, <1>15, <1>16, <1>17, <1>18 DEF Next, NETMGR, Handler

-----------------------------------------------------------------------------
(* The reports of a removed SIM *)

LEMMA RemovalStep ==
  ASSUME TypeOK, CfunCycleKept, RemovalInv, [Next]_vars
  PROVE  RemovalInv'
<1> USE Sizes DEF RemovalInv, DipsCover, NoFakeRemoval, Absent, machine, simVars, simState
<1>1. CASE NETMGR /\ UNCHANGED <<cfunStep, radioOn, simVars>>
  BY <1>1
<1>2. CASE NetExpire
  <2>1. UNCHANGED simState /\ dips' \in {dips, Enough}
    BY <1>2 DEF NetExpire
  <2>2. dips' = Enough \/ UNCHANGED <<dips, cfunStep>>
    BY <1>2 DEF NetExpire
  <2>3. UNCHANGED radioOn /\ Absent <= Enough
    BY <1>2, DebouncedType DEF NetExpire, TypeOK, Enough
  <2> QED
    BY <2>1, <2>2, <2>3
<1>3. CASE HandleRestartCfun
  <2>1. UNCHANGED simState /\ Absent \in 0..Enough /\ dips \in 0..Enough
    BY <1>3 DEF HandleRestartCfun, TypeOK, Enough
  <2>2. CASE UNCHANGED <<cfunStep, radioOn, dips>>
    BY <2>1, <2>2
  <2>3. CASE /\ cfunStep = "idle" /\ cfunStep' = "wait_off" /\ radioOn' = FALSE
             /\ dips' = IF dips < Enough THEN dips + 1 ELSE dips
    <3>1. dips' = Enough \/ dips' = dips + 1
      BY <2>1, <2>3
    <3>2. dips' >= dips /\ dips' \in 0..Enough /\ Absent' = Absent
      BY <2>1, <2>3
    <3>3. Absent' <= dips'
      BY <2>1, <3>2
    <3>4. dips' = Enough \/ Absent' < dips'
      BY <2>1, <3>1, <3>2
    <3>5. NoFakeRemoval'
      BY <2>1, <3>2
    <3> QED
      BY <2>3, <3>3, <3>4, <3>5
  <2>4. CASE radioOn' = TRUE /\ UNCHANGED dips
    BY <2>1, <2>4
  <2>5. CASE cfunStep = "wait_on" /\ cfunStep' = "idle" /\ UNCHANGED <<radioOn, dips>>
    BY <2>1, <2>5
  <2> QED
    BY <1>3, <2>2, <2>3, <2>4, <2>5 DEF HandleRestartCfun
<1>4. CASE SimPoll
  <2>1. state = "RESTART_CFUN" => UNCHANGED <<simState, dips, cfunStep, radioOn>>
    BY <1>4 DEF SimPoll, NETUnchanged
  <2>2. state # "RESTART_CFUN" => cfunStep = "idle"
    BY DEF CfunCycleKept
  <2>3. /\ UNCHANGED <<simAvailable, debounceInserted, debounceMatches, dips, cfunStep, radioOn>>
        /\ simAt' # "notify"
    BY <1>4 DEF SimPoll, NETUnchanged
  <2> QED
    BY <2>1, <2>2, <2>3
<1>5. CASE SimSample
  <2>1. PICK trayIn \in BOOLEAN :
          /\ debounceInserted' = (trayIn /\ radioOn)
          /\ debounceMatches' = Debounced(trayIn /\ radioOn)
          /\ simAt' = "notify" => /\ Debounced(trayIn /\ radioOn) >= Enough
                                 /\ simAvailable' = (trayIn /\ radioOn)
          /\ simAt' \in {"notify", "poll"}
          /\ dips' = IF trayIn /\ radioOn THEN 0 ELSE IF trayIn THEN dips ELSE Enough
    BY <1>5 DEF SimSample, Enough
  <2>2. Debounced(trayIn /\ radioOn) \in 1..Enough /\ dips \in 0..Enough
    BY DebouncedType DEF TypeOK, Enough
  <2>3. UNCHANGED <<radioOn, cfunStep>> /\ simAt = "sample"
    BY <1>5 DEF SimSample, NETUnchanged
  <2>4. CASE trayIn /\ radioOn
    <3>1. debounceInserted' /\ dips' = 0 /\ radioOn'
      BY <2>1, <2>3, <2>4, Zenon
    <3>2. simAt' = "notify" => simAvailable'
      BY <2>1, <2>4, Zenon
    <3> QED
      BY <3>1, <3>2
  <2>5. CASE ~trayIn
    BY <2>1, <2>2, <2>3, <2>5
  <2>6. CASE trayIn /\ ~radioOn
    <3>1. Debounced(trayIn /\ radioOn) <= Absent + 1
      BY <2>6 DEF Debounced, TypeOK
    <3>2. dips = Enough \/ Absent < dips
      BY <2>3, <2>6
    <3>3. debounceMatches' <= dips
      BY <2>1, <2>2, <3>1, <3>2 DEF TypeOK
    <3> QED
      BY <2>1, <2>2, <2>3, <2>6, <3>3
  <2> QED
    BY <2>4, <2>5, <2>6
<1>6. CASE SimSampleFails \/ SimNotify
  BY <1>6 DEF SimSampleFails, SimNotify, NETUnchanged
<1>7. CASE UrcArrives \/ Tick \/ UNCHANGED vars
  BY <1>7 DEF UrcArrives, Tick, vars
<1>8. CASE SocReset
  BY <1>8 DEF SocReset
<1>9. NETMGR => \/ UNCHANGED <<cfunStep, radioOn, simVars>> \/ NetExpire \/ HandleRestartCfun
  BY DEF NETMGR, NetDrainUrc, NetTimers, NetOverall, Handler, HandleInit, HandleCheckSim,
    HandleQuery, HandleGetIp, HandleConnected, HandleDisconnected, NetConnect, NetGuard,
    NetStore, NetSleep, NetUnchanged, SIMUnchanged
<1> QED
  BY <1>1, <1>2, <1>3, <1>4, <1>5, <1>6, <1>7, <1>8, <1>9 DEF Next, SIMDET

-----------------------------------------------------------------------------
(* The theorems *)

LEMMA NetworkCorrect == Spec => []NetworkInv
<1>1. Init => CycleInv /\ BringUpInv /\ RemovalInv
  BY Sizes DEF Init, CycleInv, CfunCycleKept, CycleTarget, BringUpInv, BringUpIsDown,
    BringUpTarget, BringUp, RemovalInv, DipsCover, NoFakeRemoval, Absent
<1>2. /\ TypeOK /\ CycleInv /\ BringUpInv /\ RemovalInv
      /\ [Next]_vars
      => (CycleInv /\ BringUpInv /\ RemovalInv)'
  BY CycleStep, BringUpStep, RemovalStep DEF CycleInv
<1> QED
  BY <1>1, <1>2, TypeCorrect, PTL DEF Spec, NetworkInv

\* No interleaving of the two tasks, no URC and no timeout of another state
\* abandons a half-done CFUN cycle (network.c:187-190).
THEOREM CycleIsKept == Spec => []CfunCycleKept
<1>1. NetworkInv => CfunCycleKept
  BY DEF NetworkInv, CycleInv
<1> QED
  BY <1>1, NetworkCorrect, PTL

\* Whatever the modem answers and SIMDET writes, the flag the TCP client waits
\* for is down while the connection is brought up (network.c:279-306).
THEOREM FlagIsDown == Spec => []BringUpIsDown
<1>1. NetworkInv => BringUpIsDown
  BY DEF NetworkInv, BringUpInv
<1> QED
  BY <1>1, NetworkCorrect, PTL

\* With any number of samples to settle, a SIM in its tray is reported removed
\* only after as many restarts of the radio or one that gave up (sim.c:146-161).
THEOREM RemovalIsReal == Spec => []NoFakeRemoval
<1>1. NetworkInv => NoFakeRemoval
  BY DEF NetworkInv, RemovalInv
<1> QED
  BY <1>1, NetworkCorrect, PTL
=============================================================================
