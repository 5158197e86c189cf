-------------------------- MODULE SupervisorProofs --------------------------
(***************************************************************************)
(* Proofs about Supervisor, for every set of tasks, every timeout and      *)
(* every number of rounds in which the modules are brought up.             *)
(***************************************************************************)
EXTENDS Supervisor, TLAPS

FlagTypes ==
  /\ registered \in BOOLEAN /\ pending \in BOOLEAN /\ executing \in BOOLEAN
  /\ due \in BOOLEAN /\ asked \in BOOLEAN

PlaceTypes ==
  /\ run \in 1..MaxBoots /\ type \in {"none", "soft"}
  /\ wpc \in {"modules", "loop", "deferred", "execute", "reset", "monitor", "compare"}
  /\ npc \in {"idle", "checked", "marked", "typed"}
  /\ round \in 1..Rounds /\ next \in 1..(NumTasks + 1) /\ lag \in 0..1

TableTypes ==
  /\ ready \in [Modules -> BOOLEAN] /\ stuck \in [Modules -> BOOLEAN]
  /\ fed \in [Modules -> 0..Late] /\ silent \in [Modules -> 0..Late]

\* What the uptime a task stored says is how long the task has been silent, as
\* soon as it is ready: module_manager_init stores it anew.
FedIsSilence == \A t \in Modules : ready[t] => fed[t] = silent[t]

\* Between the two readings of the comparison only a task of a higher priority
\* than WEMAIN can store an uptime that is later than the one WEMAIN holds.
LaterIsHigher ==
  wpc = "compare" => \A t \in Modules : ready[t] /\ fed[t] < lag => t \in High

StallInv == FedIsSilence /\ LaterIsHigher

\* A request that is pending has been asked for since the last reset began.
PendingIsAsked == pending => asked

-----------------------------------------------------------------------------
(* Types *)

LEMMA Sizes ==
  /\ NumTasks \in Nat /\ Timeout \in Nat /\ Timeout > 0 /\ Rounds \in Nat /\ Rounds > 0
  /\ Wrap \in Nat /\ Wrap > Timeout + 2 /\ MaxBoots \in Nat /\ MaxBoots > 0
  /\ Late \in Nat /\ Late = Timeout + 2
  BY TaskAssumption, LimitAssumption, WrapAssumption, BootAssumption DEF Late

\* Nothing but truth values reaches the flags.
LEMMA FlagsTyped ==
  ASSUME FlagTypes, [Next]_vars
  PROVE  FlagTypes'
<1> USE DEF FlagTypes, vars, mainVars, deferredVars
<1>1. ASSUME Schedule PROVE pending' \in BOOLEAN /\ executing' \in BOOLEAN
                            /\ due' \in BOOLEAN /\ asked' \in BOOLEAN
  BY <1>1, Zenon DEF Schedule
<1>2. CASE CmdReboot BY <1>1, <1>2 DEF CmdReboot
<1>3. CASE NetCheck BY <1>3 DEF NetCheck
<1>4. CASE NetMark BY <1>4, Zenon DEF NetMark
<1>5. CASE NetType BY <1>5 DEF NetType
<1>6. CASE NetStart BY <1>6, Zenon DEF NetStart
<1>7. CASE InitModule BY <1>7 DEF InitModule
<1>8. CASE InitRound BY <1>8 DEF InitRound
<1>9. CASE UptimeCheck BY <1>1, <1>9 DEF UptimeCheck
<1>10. CASE Deferred BY <1>10, Zenon DEF Deferred
<1>11. CASE Execute BY <1>11, Zenon DEF Execute
<1>12. CASE ResetReturns BY <1>12, Zenon DEF ResetReturns
<1>13. CASE ReadUptime BY <1>13 DEF ReadUptime
<1>14. CASE Compare BY <1>1, <1>14 DEF Compare
<1>15. CASE Tick BY <1>15, Zenon DEF Tick
<1>16. CASE Restart BY <1>16, Zenon DEF Restart, Boot
<1>17. ASSUME NEW t \in Modules, Feed(t) \/ Hang(t) PROVE FlagTypes'
  BY <1>17 DEF Feed, Hang
<1>18. CASE UNCHANGED vars BY <1>18
<1> QED BY <1>2, <1>3, <1>4, <1>5, <1>6, <1>7, <1>8, <1>9, <1>10, <1>11, <1>12, <1>13,
           <1>14, <1>15, <1>16, <1>17, <1>18
        DEF Next, Wemain, NetFinish, SocReset, PowerLoss

\* The tasks stay where their code has a place, and the bring-up of the
\* modules within its rounds.
LEMMA PlacesTyped ==
  ASSUME PlaceTypes, [Next]_vars
  PROVE  PlaceTypes'
<1> USE Sizes DEF PlaceTypes, vars, mainVars, deferredVars, moduleVars
<1>1. ASSUME Schedule PROVE type' \in {"none", "soft"}
  BY <1>1 DEF Schedule
<1>2. CASE CmdReboot BY <1>1, <1>2 DEF CmdReboot
<1>3. CASE NetCheck BY <1>3 DEF NetCheck
<1>4. CASE NetMark BY <1>4 DEF NetMark
<1>5. CASE NetType BY <1>5 DEF NetType
<1>6. CASE NetStart BY <1>6 DEF NetStart
<1>7. CASE InitModule BY <1>7 DEF InitModule
<1>8. CASE InitRound BY <1>8 DEF InitRound
<1>9. CASE UptimeCheck BY <1>1, <1>9 DEF UptimeCheck
<1>10. CASE Deferred BY <1>10 DEF Deferred
<1>11. CASE Execute BY <1>11 DEF Execute
<1>12. CASE ResetReturns BY <1>12 DEF ResetReturns
<1>13. CASE ReadUptime BY <1>13 DEF ReadUptime
<1>14. CASE Compare BY <1>1, <1>14 DEF Compare
<1>15. CASE Tick BY <1>15 DEF Tick
<1>16. CASE Restart BY <1>16 DEF Restart, Boot
<1>17. ASSUME NEW t \in Modules, Feed(t) \/ Hang(t) PROVE PlaceTypes'
  BY <1>17 DEF Feed, Hang
<1>18. CASE UNCHANGED vars BY <1>18
<1> QED BY <1>2, <1>3, <1>4, <1>5, <1>6, <1>7, <1>8, <1>9, <1>10, <1>11, <1>12, <1>13,
           <1>14, <1>15, <1>16, <1>17, <1>18
        DEF Next, Wemain, NetFinish, SocReset, PowerLoss

\* The tables of the modules keep their ranges.
LEMMA TablesTyped ==
  ASSUME PlaceTypes, TableTypes, [Next]_vars
  PROVE  TableTypes'
<1> USE Sizes DEF TableTypes, vars, moduleVars
<1>1. CASE InitModule
  <2>1. next \in Modules
    BY <1>1 DEF InitModule, PlaceTypes, Modules
  <2>2. ready' \in [Modules -> BOOLEAN]
    BY <1>1, <2>1 DEF InitModule
  <2>3. fed' \in [Modules -> 0..Late] /\ silent' \in [Modules -> 0..Late]
    BY <1>1, <2>1 DEF InitModule, Fresh
  <2> QED BY <1>1, <2>2, <2>3 DEF InitModule
<1>2. ASSUME NEW t \in Modules, Feed(t) PROVE TableTypes'
  BY <1>2 DEF Feed
<1>3. ASSUME NEW t \in Modules, Hang(t) PROVE TableTypes'
  BY <1>3 DEF Hang
<1>4. CASE Tick
  <2>1. \A n \in 0..Late : Least(n + 1, Late) \in 0..Late
    BY DEF Least
  <2>2. fed' \in [Modules -> 0..Late]
    BY <1>4, <2>1 DEF Tick
  <2>3. silent' \in [Modules -> 0..Late]
    BY <1>4, <2>1 DEF Tick
  <2> QED BY <1>4, <2>2, <2>3 DEF Tick
<1>5. CASE Restart
  <2>1. ready' \in [Modules -> BOOLEAN] /\ stuck' \in [Modules -> BOOLEAN]
    BY <1>5, Zenon DEF Restart, Boot
  <2>2. fed' \in [Modules -> 0..Late] /\ silent' \in [Modules -> 0..Late]
    BY <1>5 DEF Restart, Boot
  <2> QED BY <2>1, <2>2
<1>6. CASE UNCHANGED moduleVars BY <1>6
<1>7. CASE InitRound BY <1>7 DEF InitRound
<1> QED BY <1>1, <1>2, <1>3, <1>4, <1>5, <1>6, <1>7
        DEF Next, Wemain, NetFinish, SocReset, PowerLoss, CmdReboot, NetCheck, NetMark,
            NetType, NetStart, UptimeCheck, Deferred, Execute, ResetReturns, ReadUptime,
            Compare

(* Every variable of the supervision has its type (TypeOK): the bring-up   *)
(* of the modules ends within its rounds.                                  *)
THEOREM TypeCorrect == Spec => []TypeOK
<1> DEFINE Types == FlagTypes /\ PlaceTypes /\ TableTypes
<1>1. Init => Types
  <2> SUFFICES ASSUME Init PROVE Types
    OBVIOUS
  <2>1. FlagTypes BY Zenon DEF Init, FlagTypes
  <2>2. PlaceTypes BY Sizes DEF Init, PlaceTypes
  <2>3. ready \in [Modules -> BOOLEAN] /\ stuck \in [Modules -> BOOLEAN]
    BY Zenon DEF Init
  <2>4. fed \in [Modules -> 0..Late] /\ silent \in [Modules -> 0..Late]
    BY Sizes DEF Init
  <2> QED BY <2>1, <2>2, <2>3, <2>4 DEF TableTypes
<1>2. Types /\ [Next]_vars => Types'
  BY FlagsTyped, PlacesTyped, TablesTyped
<1>3. Types <=> TypeOK
  BY DEF FlagTypes, PlaceTypes, TableTypes, TypeOK
<1> QED BY <1>1, <1>2, <1>3, PTL DEF Spec

-----------------------------------------------------------------------------
(* The cause of a stall *)

LEMMA StallStep ==
  ASSUME TypeOK, StallInv, [Next]_vars
  PROVE  StallInv'
<1> USE Sizes DEF StallInv, FedIsSilence, LaterIsHigher, vars, mainVars, moduleVars
<1>1. CASE InitModule
  <2>1. next \in Modules /\ fed \in [Modules -> 0..Late] /\ silent \in [Modules -> 0..Late]
        /\ ready \in [Modules -> BOOLEAN]
    BY <1>1 DEF InitModule, TypeOK, Modules
  <2> QED BY <1>1, <2>1 DEF InitModule, Fresh
<1>2. CASE InitRound BY <1>2 DEF InitRound
<1>3. ASSUME NEW t \in Modules, Feed(t) PROVE StallInv'
  BY <1>3 DEF Feed, Busy, TypeOK
<1>4. ASSUME NEW t \in Modules, Hang(t) PROVE StallInv'
  BY <1>4 DEF Hang
<1>5. CASE Tick
  <2> SUFFICES ASSUME NEW t \in Modules, ready'[t]
               PROVE  fed'[t] = silent'[t] /\ (wpc' = "compare" => ~(fed'[t] < lag'))
    BY <1>5 DEF Tick
  <2>1. ready[t] /\ fed[t] = silent[t] /\ fed[t] \in 0..Late
    BY <1>5 DEF Tick, TypeOK
  <2>2. fed'[t] = Least(fed[t] + 1, Late) /\ silent'[t] = Least(silent[t] + 1, Late)
    BY <1>5, <2>1 DEF Tick
  <2>3. fed'[t] >= 1 /\ (wpc' = "compare" => lag' = 1)
    BY <1>5, <2>1, <2>2 DEF Tick, Least
  <2> QED BY <2>1, <2>2, <2>3 DEF Least
<1>6. CASE Restart BY <1>6 DEF Restart, Boot
<1>7. CASE ReadUptime BY <1>7 DEF ReadUptime, TypeOK
<1>8. CASE wpc' # "compare" /\ UNCHANGED <<ready, fed, silent>>
  BY <1>8
<1>9. CASE UNCHANGED <<wpc, ready, fed, silent, lag>> BY <1>9
<1>10. CASE UptimeCheck \/ Deferred \/ Execute \/ ResetReturns \/ Compare
  BY <1>8, <1>10 DEF UptimeCheck, Deferred, Execute, ResetReturns, Compare
<1>11. CASE CmdReboot \/ NetCheck \/ NetFinish
  BY <1>9, <1>11 DEF CmdReboot, NetCheck, NetFinish, NetMark, NetType, NetStart
<1>12. CASE UNCHANGED vars BY <1>9, <1>12
<1> QED BY <1>1, <1>2, <1>3, <1>4, <1>5, <1>6, <1>7, <1>10, <1>11, <1>12
        DEF Next, Wemain, SocReset, PowerLoss

\* The subtraction in 32 bits: exact, or a wrap that the limit cannot cover.
LEMMA Subtraction ==
  ASSUME NEW f \in 0..Late, NEW l \in 0..1
  PROVE  /\ f >= l => (f + Wrap - l) % Wrap = f - l
         /\ f < l => f = 0 /\ l = 1
<1>1. ASSUME NEW w \in Nat, NEW x \in Nat, x < w PROVE (x + w) % w = x
  BY <1>1, SMTT(30)
<1>2. ASSUME f >= l PROVE (f + Wrap - l) % Wrap = f - l
  <2>1. f - l \in Nat /\ f - l < Wrap
    BY <1>2, Sizes
  <2>2. ((f - l) + Wrap) % Wrap = f - l
    BY <1>1, <2>1, Sizes
  <2>3. f + Wrap - l = (f - l) + Wrap
    BY Sizes
  <2> QED BY <2>2, <2>3
<1> QED BY <1>2, Sizes

(* StallHasCause: the monitor blames only a task that has been silent for  *)
(* too long, or one that ran after the uptime was read; in particular none *)
(* whose start waited for the bring-up of the others.                      *)
THEOREM StallsHaveCauses == Spec => []StallHasCause
<1>1. Init => StallInv
  BY DEF Init, StallInv, FedIsSilence, LaterIsHigher
<1>2. TypeOK /\ StallInv => StallHasCause
  <2> SUFFICES ASSUME TypeOK, StallInv, wpc = "compare", NEW t \in Modules, Overdue(t)
               PROVE  silent[t] > Timeout \/ (t \in High /\ silent[t] < lag)
    BY DEF StallHasCause
  <2>1. /\ ready[t] /\ (fed[t] + Wrap - lag) % Wrap > Timeout /\ fed[t] = silent[t]
        /\ fed[t] \in 0..Late /\ lag \in 0..1 /\ (fed[t] < lag => t \in High)
    BY DEF Overdue, TypeOK, StallInv, FedIsSilence, LaterIsHigher
  <2>2. CASE fed[t] >= lag
    <3>1. (fed[t] + Wrap - lag) % Wrap = fed[t] - lag
      BY <2>1, <2>2, Subtraction, Zenon
    <3>2. fed[t] - lag > Timeout
      BY <2>1, <3>1, Zenon
    <3> QED BY <2>1, <3>2, Sizes
  <2>3. CASE fed[t] < lag
    BY <2>1, <2>3
  <2> QED BY <2>1, <2>2, <2>3, Sizes
<1> QED BY <1>1, <1>2, StallStep, TypeCorrect, PTL DEF Spec

-----------------------------------------------------------------------------
(* The deferred reset *)

LEMMA AskedStep ==
  ASSUME TypeOK, PendingIsAsked, [Next]_vars
  PROVE  PendingIsAsked'
<1> USE DEF PendingIsAsked, vars, deferredVars
<1>1. ASSUME Schedule PROVE PendingIsAsked'
  BY <1>1 DEF Schedule
<1>2. CASE UNCHANGED <<pending, asked>> BY <1>2
<1>3. CASE CmdReboot \/ UptimeCheck \/ Compare
  BY <1>1, <1>2, <1>3 DEF CmdReboot, UptimeCheck, Compare
<1>4. CASE Deferred
  BY <1>4 DEF Deferred
<1>5. CASE NetMark
  BY <1>5 DEF NetMark
<1>6. CASE Restart
  BY <1>6 DEF Restart, Boot
<1>7. CASE UNCHANGED vars BY <1>2, <1>7
<1> QED BY <1>2, <1>3, <1>4, <1>5, <1>6, <1>7
        DEF Next, Wemain, NetFinish, SocReset, PowerLoss, NetCheck, NetType, NetStart,
            InitModule, InitRound, Execute, ResetReturns, ReadUptime, Tick, Feed, Hang

(* ResetIsAsked: one request is one reset, however the stores of NETMGR    *)
(* and the steps of WEMAIN fall.                                           *)
THEOREM ResetsAreAsked == Spec => ResetIsAsked
<1>1. Init => PendingIsAsked
  BY DEF Init, PendingIsAsked
<1>2. TypeOK /\ PendingIsAsked /\ [Next]_vars
        => [wpc = "deferred" /\ wpc' = "execute" => asked]_vars
  <2> SUFFICES ASSUME TypeOK, PendingIsAsked, Next, wpc = "deferred", wpc' = "execute"
               PROVE  asked
    BY DEF vars, mainVars
  <2>1. Deferred
    BY DEF Next, Wemain, NetFinish, SocReset, PowerLoss, Restart, Boot, CmdReboot, NetCheck,
           NetMark, NetType, NetStart, InitModule, InitRound, UptimeCheck, Execute,
           ResetReturns, ReadUptime, Compare, Tick, Feed, Hang, mainVars
  <2> QED BY <2>1 DEF Deferred, PendingIsAsked
<1> QED BY <1>1, <1>2, AskedStep, TypeCorrect, PTL DEF Spec, ResetIsAsked
=============================================================================
