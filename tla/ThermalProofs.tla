---------------------------- MODULE ThermalProofs ----------------------------
(***************************************************************************)
(* Proofs about the power service, for any set of callers and requests, and*)
(* about the thermal service on top of it, for any thermistors and rates.  *)
(* What is proved of the power service alone holds of the composition, for *)
(* the thermal service leaves it as it is: KeepsPowerService.              *)
(***************************************************************************)
EXTENDS Thermal, TLAPS

Quiet == \A c \in Callers : cpc[c] = "idle"
OnlyCaller(c, l) == cpc[c] = l /\ \A d \in Callers \ {c} : cpc[d] = "idle"

\* The inductive strengthening of SpacedHonoured: where a request that overlaps
\* no other one is on its way.
OnItsWay ==
    \/ /\ pwr_state = wanted /\ Quiet
       /\ spc \in {"submit", "enter"} \/ (spc = "wait" /\ event = {})
    \/ /\ spc = "wait" /\ event = {}
       /\ \E c \in Callers :
             \/ OnlyCaller(c, "assign") /\ req[c] = wanted
             \/ OnlyCaller(c, "post") /\ next_pwr_state = wanted
    \/ spc = "wait" /\ event = {UPDATE} /\ next_pwr_state = wanted /\ Quiet
    \/ spc \in {"read", "chg", "assign"} /\ next_pwr_state = wanted /\ Quiet

SpacedInv == PowerTypeOK /\ (~overlap => OnItsWay)

\* The inductive strengthening of SleepOnlyInStandby: once the permission is given
\* for Modern Standby, nobody but a late caller brings next_pwr_state back to S0.
SleepInv ==
    ~strayed =>
        /\ dp_en => IF spc = "assign" THEN pwr_state = "S0" /\ next_pwr_state # "S0"
                                      ELSE pwr_state = "MS"
        /\ spc = "chg" /\ pwr_state = "S0" /\ chgd = "MS" => next_pwr_state # "S0"

-----------------------------------------------------------------------------
LEMMA DpFacts ==
  /\ NoDp \in DpCommand
  /\ \A en, timeout \in BOOLEAN :
        [at |-> "write", en |-> en, timeout |-> timeout] \in DpCommand
  /\ \A d \in DpCommand : /\ d.en \in BOOLEAN
                          /\ [d EXCEPT !.at = "test"] \in DpCommand
                          /\ [d EXCEPT !.at = "schedule"] \in DpCommand
BY DEF DpCommand, NoDp

LEMMA InitSpaced == PowerInit => SpacedInv
  BY DpFacts DEF PowerInit, SpacedInv, PowerTypeOK, OnItsWay, Quiet, BootPwrSta, PwrSta

LEMMA NextType == PowerTypeOK /\ [PowerNext]_pwrVars => PowerTypeOK'
<1> SUFFICES ASSUME PowerTypeOK, [PowerNext]_pwrVars PROVE PowerTypeOK'
  OBVIOUS
<1> USE DEF PowerTypeOK, Note, dpVars
<1>1. CASE EnterWait \/ Wake \/ ReadNext \/ PwrStateChg \/ AssignState \/ Submit
  BY <1>1 DEF EnterWait, Wake, ReadNext, PwrStateChg, DpAfter, AssignState, Submit
<1>2. ASSUME NEW s \in HostRequests, HostSet(s) PROVE PowerTypeOK'
  BY <1>2, PowerAssumption DEF HostSet, PwrSta
<1>3. ASSUME NEW c \in Callers, NEW s \in CallerRequests, CallerCheck(c, s)
      PROVE PowerTypeOK'
  <2>1. s \in PwrSta
    BY PowerAssumption
  <2> QED BY <1>3, <2>1 DEF CallerCheck
<1>4. ASSUME NEW c \in Callers, CallerAssign(c) \/ CallerPost(c) PROVE PowerTypeOK'
  BY <1>4 DEF CallerAssign, CallerPost
<1>5. ASSUME NEW en \in BOOLEAN, NEW timeout \in BOOLEAN, CmdPwrDp(en, timeout)
      PROVE PowerTypeOK'
  BY <1>5, DpFacts DEF CmdPwrDp
<1>6. CASE ShellDpStep \/ DpTimeout \/ UNCHANGED pwrVars
  BY <1>6, DpFacts DEF ShellDpStep, CmdPwrDpWrite, CmdPwrDpTest, CmdPwrDpSchedule,
     DpTimeout, pwrVars, dpVars
<1> QED BY <1>1, <1>2, <1>3, <1>4, <1>5, <1>6 DEF PowerNext, PowerQuiet

LEMMA NextSpaced == SpacedInv /\ [PowerNext]_pwrVars => SpacedInv'
<1> SUFFICES ASSUME SpacedInv, [PowerNext]_pwrVars, ~overlap' PROVE OnItsWay'
  BY NextType DEF SpacedInv
<1> USE DEF Quiet, OnlyCaller
<1>1. ASSUME NEW s \in HostRequests, HostSet(s) PROVE OnItsWay'
  <2>1. PowerIdle
    BY <1>1 DEF HostSet, Note, SpacedInv, PowerTypeOK
  <2> QED BY <1>1, <2>1 DEF HostSet, Note, PowerIdle, OnItsWay
<1>2. ASSUME NEW c \in Callers, NEW s \in CallerRequests, CallerCheck(c, s)
      PROVE OnItsWay'
  <2>1. PowerIdle
    BY <1>2 DEF CallerCheck, Note, SpacedInv, PowerTypeOK
  <2> QED BY <1>2, <2>1 DEF CallerCheck, Note, PowerIdle, OnItsWay, SpacedInv, PowerTypeOK
<1>3. ASSUME ~overlap, OnItsWay, UNCHANGED wanted,
             EnterWait \/ Wake \/ ReadNext \/ PwrStateChg \/ AssignState \/ Submit
      PROVE OnItsWay'
  BY <1>3 DEF EnterWait, Wake, ReadNext, PwrStateChg, AssignState, Submit, OnItsWay,
     UPDATE, PWR_CHG
<1>4. ASSUME ~overlap, OnItsWay, NEW c \in Callers, CallerAssign(c) PROVE OnItsWay'
  BY <1>4 DEF CallerAssign, OnItsWay, SpacedInv, PowerTypeOK
<1>5. ASSUME ~overlap, OnItsWay, NEW c \in Callers, CallerPost(c) PROVE OnItsWay'
  BY <1>5 DEF CallerPost, OnItsWay, SpacedInv, PowerTypeOK
<1>6. ASSUME ~overlap, OnItsWay, NEW en \in BOOLEAN, NEW timeout \in BOOLEAN,
             CmdPwrDp(en, timeout) \/ ShellDpStep \/ DpTimeout \/ UNCHANGED pwrVars
      PROVE OnItsWay'
  BY <1>6 DEF CmdPwrDp, ShellDpStep, CmdPwrDpWrite, CmdPwrDpTest, CmdPwrDpSchedule,
     DpTimeout, pwrVars, dpVars, OnItsWay
<1>7. CASE overlap' = overlap
  <2>1. ~overlap /\ OnItsWay
    BY <1>7 DEF SpacedInv
  <2> QED BY <1>1, <1>2, <1>3, <1>4, <1>5, <1>6, <2>1 DEF PowerNext, PowerQuiet,
             EnterWait, Wake, ReadNext, PwrStateChg, AssignState, Submit
<1>8. CASE overlap' # overlap
  BY <1>1, <1>2, <1>8 DEF PowerNext, PowerQuiet, EnterWait, Wake, ReadNext, PwrStateChg,
     AssignState, Submit, CallerAssign, CallerPost, CmdPwrDp, ShellDpStep, CmdPwrDpWrite,
     CmdPwrDpTest, CmdPwrDpSchedule, DpTimeout, pwrVars, dpVars
<1> QED BY <1>7, <1>8

\* Every variable of the power service keeps its type.
THEOREM PowerTypeCorrect == PowerSpec => []PowerTypeOK
<1>1. SpacedInv => PowerTypeOK
  BY DEF SpacedInv
<1> QED BY <1>1, InitSpaced, NextSpaced, PTL DEF PowerSpec

\* A request made while nothing else is going on is carried out, whoever makes it
\* and although k_event_wait resets bits it has not looked at.
THEOREM SpacedRequestsHonoured == PowerSpec => []SpacedHonoured
<1>1. SpacedInv => SpacedHonoured
  BY DEF SpacedInv, SpacedHonoured, PowerIdle, OnItsWay, Quiet, OnlyCaller
<1> QED BY <1>1, InitSpaced, NextSpaced, PTL DEF PowerSpec

-----------------------------------------------------------------------------
\* Whoever asks for whatever state, deep sleep is allowed at rest in Modern Standby
\* only, although next_pwr_state is read twice: but for what the shell allowed, a
\* third state, and a caller that asks for the state the platform has got to.
THEOREM SleepsOnlyInStandby == PowerSpec => []SleepOnlyInStandby
<1>1. PowerInit => SleepInv
  BY DEF PowerInit, SleepInv
<1>2. SleepInv /\ [PowerNext]_pwrVars => SleepInv'
  <2> SUFFICES ASSUME SleepInv, [PowerNext]_pwrVars PROVE SleepInv'
    OBVIOUS
  <2> USE DEF SleepInv
  <2>1. CASE EnterWait \/ Wake \/ ReadNext \/ Submit
    BY <2>1 DEF EnterWait, Wake, ReadNext, Submit
  <2>2. CASE PwrStateChg
    BY <2>2 DEF PwrStateChg, DpAfter, Standby
  <2>3. CASE AssignState
    BY <2>3 DEF AssignState, Standby
  <2>4. ASSUME NEW s \in HostRequests, HostSet(s) PROVE SleepInv'
    BY <2>4 DEF HostSet
  <2>5. ASSUME NEW c \in Callers, NEW s \in CallerRequests, CallerCheck(c, s)
        PROVE SleepInv'
    BY <2>5 DEF CallerCheck
  <2>6. ASSUME NEW c \in Callers, CallerAssign(c) \/ CallerPost(c) PROVE SleepInv'
    BY <2>6 DEF CallerAssign, CallerPost
  <2>7. ASSUME NEW en \in BOOLEAN, NEW timeout \in BOOLEAN, CmdPwrDp(en, timeout)
        PROVE SleepInv'
    BY <2>7 DEF CmdPwrDp
  <2>8. CASE ShellDpStep \/ DpTimeout \/ UNCHANGED pwrVars
    BY <2>8 DEF ShellDpStep, CmdPwrDpWrite, CmdPwrDpTest, CmdPwrDpSchedule, DpTimeout,
       pwrVars
  <2> QED BY <2>1, <2>2, <2>3, <2>4, <2>5, <2>6, <2>7, <2>8 DEF PowerNext, PowerQuiet
<1>3. SleepInv => SleepOnlyInStandby
  BY DEF SleepInv, SleepOnlyInStandby, PowerIdle
<1> QED BY <1>1, <1>2, <1>3, PTL DEF PowerSpec

-----------------------------------------------------------------------------
(* The thermal service.                                                    *)

\* The inductive strengthening of ThresholdsOfOneWriter: the fields that the shell
\* has written since the host left the thermistor alone are the shell's.
WrittenSoFar ==
    \A d \in Devices :
        set.dev = d /\ d \notin torn => \A f \in 1..set.at - 1 : thr[d][f] = "shell"

LEMMA ThermalNumbers ==
  /\ Devices \subseteq Int /\ 0 \notin Devices /\ Guarded \subseteq Devices
  /\ \A r \in Rates : r \in Nat /\ r # FOREVER
  /\ \A ms \in HostRates : Clamped(ms) \in Rates
  /\ BootRate \in Rates /\ ShellRates \subseteq Rates
<1>1. Devices \subseteq Int /\ 0 \notin Devices /\ Guarded \subseteq Devices
  BY ThermalAssumption
<1>2. \A ms \in HostRates : Clamped(ms) \in Rates
  BY DEF Rates
<1>3. BootRate \in Rates /\ ShellRates \subseteq Rates
  BY DEF Rates
<1>4. ASSUME NEW r \in Rates PROVE r \in Nat /\ r # FOREVER
  <2>1. CASE r = BootRate
    BY <2>1 DEF BootRate, FOREVER
  <2>2. ASSUME NEW ms \in HostRates, r = Clamped(ms) PROVE r \in Nat /\ r # FOREVER
    <3>1. ms \in Nat
      BY ThermalAssumption
    <3> QED BY <2>2, <3>1 DEF Clamped, MinRate, FOREVER
  <2>3. CASE r \in ShellRates
    <3>1. r \in Nat
      BY <2>3, ThermalAssumption
    <3> QED BY <3>1 DEF FOREVER
  <2> QED BY <2>1, <2>2, <2>3 DEF Rates
<1> QED BY <1>1, <1>2, <1>3, <1>4

\* What TypeOK says of this service.
ThermType ==
    /\ sys \in BOOLEAN
    /\ tpc \in {"enter", "wait", "read", "sample", "end"}
    /\ dev \in Devices \cup {0}
    /\ adc_wait \in Rates \cup {FOREVER} /\ missed \in BOOLEAN
SetType ==
    /\ sample_ms \in Rates
    /\ thr \in [Devices -> [1..4 -> {"boot", "host", "shell"}]]
    /\ set \in [dev : Devices \cup {0}, at : 1..4]
    /\ torn \subseteq Devices

TypeParts == PowerTypeOK /\ ThermType /\ SetType

LEMMA TypeIsParts == TypeOK <=> TypeParts
BY DEF TypeOK, TypeParts, ThermType, SetType

LEMMA InitType == Init => TypeParts
<1> SUFFICES ASSUME Init PROVE PowerTypeOK /\ ThermType /\ SetType
  BY DEF TypeParts
<1>1. PowerTypeOK
  BY InitSpaced DEF Init, SpacedInv
<1>2. ThermType
  BY ThermalNumbers DEF Init, ThermType
<1>3. SetType
  BY ThermalNumbers DEF Init, SetType, Idle
<1> QED BY <1>1, <1>2, <1>3

\* The service's own steps.
LEMMA ServiceType == TypeParts /\ ThermService => TypeParts'
<1> SUFFICES ASSUME PowerTypeOK, ThermType, SetType, ThermService
             PROVE  PowerTypeOK' /\ ThermType' /\ SetType'
  BY DEF TypeParts
<1>1. UNCHANGED <<pwrVars, setVars>>
  BY DEF ThermService, ThermEnter, ThermWake, ThermReadPwr, ThermSample, ThermEnd
<1>2. PowerTypeOK'
  BY <1>1, NextType
<1>3. SetType'
  BY <1>1 DEF SetType, setVars
<1>4. CASE ThermEnter \/ ThermWake
  BY <1>2, <1>3, <1>4 DEF ThermType, ThermEnter, ThermWake
<1>5. CASE ThermReadPwr \/ ThermSample \/ ThermEnd
  BY <1>2, <1>3, <1>5 DEF ThermType, SetType, ThermReadPwr, ThermSample, ThermEnd
<1> QED BY <1>4, <1>5 DEF ThermService

\* The commands.
Commands ==
    \/ \E d \in Guarded : TempThre(d) \/ CmdThermSet(d)
    \/ CmdThermSetField
    \/ \E ms \in HostRates : SamplingRate(ms)
    \/ \E ms \in ShellRates : CmdThermSample(ms)

LEMMA CommandsType == TypeParts /\ Commands => TypeParts'
<1> SUFFICES ASSUME PowerTypeOK, ThermType, SetType, Commands
             PROVE  PowerTypeOK' /\ ThermType' /\ SetType'
  BY DEF TypeParts
<1>1. UNCHANGED <<pwrVars, sys, thermVars, missed>>
  BY DEF Commands, TempThre, CmdThermSet, CmdThermSetField, SamplingRate, CmdThermSample
<1>2. PowerTypeOK' /\ ThermType'
  BY <1>1, NextType DEF ThermType, thermVars
<1>3. ASSUME NEW d \in Guarded, TempThre(d) PROVE SetType'
  <2>1. [f \in 1..4 |-> "host"] \in [1..4 -> {"boot", "host", "shell"}] /\ d \in Devices
    BY ThermalNumbers
  <2> QED BY <1>3, <2>1 DEF SetType, TempThre
<1>4. ASSUME NEW d \in Guarded, CmdThermSet(d) PROVE SetType'
  BY <1>4, ThermalNumbers DEF SetType, CmdThermSet
<1>5. CASE CmdThermSetField
  <2>1. set.dev \in Devices /\ set.at \in 1..4
    BY <1>5 DEF SetType, CmdThermSetField
  <2>2. thr' \in [Devices -> [1..4 -> {"boot", "host", "shell"}]]
    BY <1>5, <2>1 DEF SetType, CmdThermSetField
  <2>3. set' \in [dev : Devices \cup {0}, at : 1..4]
    <3>1. CASE set.at = Len(Fields)
      BY <1>5, <3>1 DEF CmdThermSetField, Idle
    <3>2. CASE set.at # Len(Fields)
      BY <1>5, <2>1, <3>2 DEF SetType, CmdThermSetField, Fields
    <3> QED BY <3>1, <3>2
  <2>4. sample_ms' \in Rates /\ torn' \subseteq Devices
    BY <1>5 DEF SetType, CmdThermSetField
  <2>5. SetType'
    BY <2>2, <2>3, <2>4 DEF SetType
  <2> QED BY <1>2, <2>5
<1>6. ASSUME NEW ms \in HostRates, SamplingRate(ms) PROVE SetType'
  BY <1>6, ThermalNumbers DEF SetType, SamplingRate
<1>7. ASSUME NEW ms \in ShellRates, CmdThermSample(ms) PROVE SetType'
  BY <1>7, ThermalNumbers DEF SetType, CmdThermSample
<1> QED BY <1>2, <1>3, <1>4, <1>5, <1>6, <1>7 DEF Commands

LEMMA NextTypeOK == TypeParts /\ [Next]_vars => TypeParts'
<1> SUFFICES ASSUME TypeParts, [Next]_vars PROVE TypeParts'
  OBVIOUS
<1>1. CASE Announce \/ PowerStep
  <2>1. PowerNext /\ UNCHANGED <<thermVars, setVars>> /\ sys' \in {sys, TRUE}
        /\ missed' \in BOOLEAN
    BY <1>1 DEF Announce, PowerStep, PowerNext, TypeParts, ThermType
  <2>2. PowerTypeOK'
    BY <2>1, NextType DEF TypeParts
  <2>3. ThermType'
    BY <2>1 DEF TypeParts, ThermType, thermVars
  <2>4. SetType'
    BY <2>1 DEF TypeParts, SetType, setVars
  <2> QED BY <2>2, <2>3, <2>4 DEF TypeParts
<1>2. CASE UNCHANGED vars
  <2>1. PowerTypeOK' /\ ThermType'
    BY <1>2, NextType DEF vars, TypeParts, ThermType, thermVars
  <2>2. SetType'
    BY <1>2 DEF vars, TypeParts, SetType, setVars
  <2> QED BY <2>1, <2>2 DEF TypeParts
<1> QED BY <1>1, <1>2, ServiceType, CommandsType DEF Next, Commands

\* Every variable keeps its type; in particular no rate the host can set is below
\* the minimum, and a rate is never mistaken for "wait forever".
THEOREM ThermalTypeCorrect == Spec => []TypeOK
BY InitType, NextTypeOK, TypeIsParts, PTL DEF Spec

-----------------------------------------------------------------------------
\* Only the announcement that falls between the thread's read of the power state and
\* its next wait is lost: whatever the changes of power and rate around it.
THEOREM ResumeIsSeen == Spec => []ResumeLostOnlyInWindow
<1>1. Init => ResumeLostOnlyInWindow
  BY ThermalNumbers DEF Init, ResumeLostOnlyInWindow, Asleep
<1>2. TypeParts /\ ResumeLostOnlyInWindow /\ [Next]_vars => ResumeLostOnlyInWindow'
  <2> SUFFICES ASSUME TypeParts, ResumeLostOnlyInWindow, [Next]_vars
               PROVE  ResumeLostOnlyInWindow'
    OBVIOUS
  <2> USE DEF ResumeLostOnlyInWindow, Asleep
  <2>1. CASE Announce
    BY <2>1 DEF Announce, Submit, thermVars
  <2>2. CASE PowerStep
    <3>1. \/ pwr_state' = pwr_state /\ (spc' # "submit" => spc # "submit")
          \/ spc' = "submit"
      BY <2>2 DEF PowerStep, PowerQuiet, EnterWait, Wake, ReadNext, PwrStateChg,
         AssignState, HostSet, CallerCheck, CallerAssign, CallerPost, CmdPwrDp, ShellDpStep,
         CmdPwrDpWrite, CmdPwrDpTest, CmdPwrDpSchedule, DpTimeout
    <3> QED BY <2>2, <3>1 DEF PowerStep, thermVars
  <2>3. CASE ThermEnter \/ ThermWake \/ ThermReadPwr \/ ThermSample
    BY <2>3 DEF ThermEnter, ThermWake, ThermReadPwr, ThermSample, pwrVars
  <2>4. CASE ThermEnd
    BY <2>4, ThermalNumbers DEF ThermEnd, TypeParts, SetType
  <2>5. ASSUME Commands \/ UNCHANGED vars
        PROVE  ResumeLostOnlyInWindow'
    <3>1. UNCHANGED <<pwrVars, sys, thermVars, missed>>
      BY <2>5 DEF Commands, TempThre, CmdThermSet, CmdThermSetField, SamplingRate,
         CmdThermSample, vars
    <3> QED BY <3>1 DEF pwrVars, thermVars
  <2> QED BY <2>1, <2>2, <2>3, <2>4, <2>5 DEF Next, ThermService, Commands
<1> QED BY <1>1, <1>2, InitType, NextTypeOK, PTL DEF Spec

-----------------------------------------------------------------------------
\* Nothing but an overlap of the host's and the shell's sets mixes thresholds.
THEOREM ThresholdsAreOfOneWriter == Spec => []ThresholdsOfOneWriter
<1> DEFINE Inv == WrittenSoFar /\ ThresholdsOfOneWriter
<1>1. Init => Inv
  BY ThermalNumbers DEF Init, WrittenSoFar, ThresholdsOfOneWriter, Idle
<1>2. TypeParts /\ Inv /\ [Next]_vars => Inv'
  <2> SUFFICES ASSUME TypeParts, Inv, [Next]_vars, NEW d \in Devices
               PROVE  /\ set'.dev = d /\ d \notin torn' =>
                             \A f \in 1..set'.at - 1 : thr'[d][f] = "shell"
                      /\ set'.dev # d /\ d \notin torn' =>
                             \A f \in 1..4 : thr'[d][f] = thr'[d][1]
    BY DEF WrittenSoFar, ThresholdsOfOneWriter
  <2>1. /\ set.dev = d /\ d \notin torn => \A f \in 1..set.at - 1 : thr[d][f] = "shell"
        /\ set.dev # d /\ d \notin torn => \A f \in 1..4 : thr[d][f] = thr[d][1]
    BY DEF WrittenSoFar, ThresholdsOfOneWriter
  <2>2. SetType
    BY DEF TypeParts
  <2>3. ASSUME NEW e \in Guarded, TempThre(e)
        PROVE  /\ set'.dev = d /\ d \notin torn' =>
                      \A f \in 1..set'.at - 1 : thr'[d][f] = "shell"
               /\ set'.dev # d /\ d \notin torn' =>
                      \A f \in 1..4 : thr'[d][f] = thr'[d][1]
    <3>1. CASE d = e
      <4>1. thr'[d] = [f \in 1..4 |-> "host"]
        BY <2>2, <2>3, <3>1 DEF TempThre, SetType
      <4> QED BY <2>3, <3>1, <4>1 DEF TempThre
    <3>2. CASE d # e
      <4>1. thr'[d] = thr[d] /\ (d \in torn' <=> d \in torn) /\ set' = set
        BY <2>2, <2>3, <3>2 DEF TempThre, SetType
      <4> QED BY <2>1, <4>1
    <3> QED BY <3>1, <3>2
  <2>4. ASSUME NEW e \in Guarded, CmdThermSet(e)
        PROVE  /\ set'.dev = d /\ d \notin torn' =>
                      \A f \in 1..set'.at - 1 : thr'[d][f] = "shell"
               /\ set'.dev # d /\ d \notin torn' =>
                      \A f \in 1..4 : thr'[d][f] = thr'[d][1]
    <3>1. set'.dev = e /\ set'.at = 1 /\ thr' = thr /\ torn' = torn \ {e} /\ set.dev = 0
          /\ d # 0
      BY <2>4, ThermalNumbers DEF CmdThermSet, Idle
    <3> QED BY <2>1, <3>1
  <2>5. ASSUME CmdThermSetField
        PROVE  /\ set'.dev = d /\ d \notin torn' =>
                      \A f \in 1..set'.at - 1 : thr'[d][f] = "shell"
               /\ set'.dev # d /\ d \notin torn' =>
                      \A f \in 1..4 : thr'[d][f] = thr'[d][1]
    <3>1. set.dev \in Devices /\ set.at \in 1..4 /\ Len(Fields) = 4 /\ torn' = torn
      BY <2>2, <2>5 DEF SetType, CmdThermSetField, Fields
    <3>2. CASE set.dev = d
      <4>1. thr'[d] = [thr[d] EXCEPT ![set.at] = "shell"] /\ thr[d] \in [1..4 -> {"boot", "host", "shell"}]
        BY <2>2, <2>5, <3>1, <3>2 DEF SetType, CmdThermSetField
      <4>2. d \notin torn => \A f \in 1..set.at : thr'[d][f] = "shell"
        BY <2>1, <3>1, <3>2, <4>1
      <4>3. CASE set.at = 4
        <5>1. set'.dev # d
          BY <2>5, <3>1, <4>3, ThermalNumbers DEF CmdThermSetField, Idle
        <5> QED BY <3>1, <4>2, <4>3, <5>1
      <4>4. CASE set.at # 4
        <5>1. set'.dev = d /\ set'.at = set.at + 1
          BY <2>2, <2>5, <3>1, <3>2, <4>4 DEF SetType, CmdThermSetField
        <5> QED BY <3>1, <4>2, <5>1
      <4> QED BY <4>3, <4>4
    <3>3. CASE set.dev # d
      <4>1. thr'[d] = thr[d]
        BY <2>2, <2>5, <3>1, <3>3 DEF SetType, CmdThermSetField
      <4>2. set'.dev # d
        BY <2>2, <2>5, <3>1, <3>3, ThermalNumbers DEF SetType, CmdThermSetField, Idle
      <4> QED BY <2>1, <3>1, <3>3, <4>1, <4>2
    <3> QED BY <3>2, <3>3
  <2>6. ASSUME UNCHANGED <<set, torn, thr>>
        PROVE  /\ set'.dev = d /\ d \notin torn' =>
                      \A f \in 1..set'.at - 1 : thr'[d][f] = "shell"
               /\ set'.dev # d /\ d \notin torn' =>
                      \A f \in 1..4 : thr'[d][f] = thr'[d][1]
    BY <2>1, <2>6
  <2>7. ASSUME \/ Announce \/ PowerStep \/ ThermService \/ UNCHANGED vars
               \/ \E ms \in HostRates : SamplingRate(ms)
               \/ \E ms \in ShellRates : CmdThermSample(ms)
        PROVE  UNCHANGED <<set, torn, thr>>
    BY <2>7 DEF Announce, PowerStep, ThermService, ThermEnter, ThermWake, ThermReadPwr,
       ThermSample, ThermEnd, SamplingRate, CmdThermSample, vars, setVars
  <2> QED BY <2>3, <2>4, <2>5, <2>6, <2>7 DEF Next
<1>3. Inv => ThresholdsOfOneWriter
  OBVIOUS
<1> HIDE DEF Inv
<1> QED BY <1>1, <1>2, <1>3, InitType, NextTypeOK, PTL DEF Spec

-----------------------------------------------------------------------------
(* The power service in the composition.                                   *)

LEMMA NextIsPowerNext == [Next]_vars => [PowerNext]_pwrVars
<1> SUFFICES ASSUME Next \/ UNCHANGED vars PROVE PowerNext \/ UNCHANGED pwrVars
  OBVIOUS
<1>1. CASE Announce \/ PowerStep
  BY <1>1 DEF Announce, PowerStep, PowerNext
<1>2. CASE ThermService \/ Commands \/ UNCHANGED vars
  BY <1>2 DEF ThermService, ThermEnter, ThermWake, ThermReadPwr, ThermSample, ThermEnd, Commands,
     TempThre, CmdThermSet, CmdThermSetField, SamplingRate, CmdThermSample, vars
<1> QED BY <1>1, <1>2 DEF Next, Commands

\* A subscriber, and the commands to it, do nothing to the power service but take
\* its announcements.
THEOREM KeepsPowerService == Spec => PowerSpec
<1>1. Init => PowerInit
  BY DEF Init
<1> QED BY <1>1, NextIsPowerNext, PTL DEF Spec, PowerSpec

\* So with the thermal service in place a request that nothing overlaps is carried
\* out ...
THEOREM ComposedRequestsHonoured == Spec => []SpacedHonoured
BY KeepsPowerService, SpacedRequestsHonoured, PTL

\* ... and deep sleep is allowed at rest in Modern Standby only, with the exceptions
\* above.
THEOREM ComposedSleepsOnlyInStandby == Spec => []SleepOnlyInStandby
BY KeepsPowerService, SleepsOnlyInStandby, PTL
=============================================================================
