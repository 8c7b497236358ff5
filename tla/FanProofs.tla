------------------------------ MODULE FanProofs ------------------------------
(***************************************************************************)
(* Proofs about the fan service's control loop, for any number of          *)
(* temperature sources, any LUTs, temperatures, trip points, shell         *)
(* commands and length of the SCI queue.                                   *)
(***************************************************************************)
EXTENDS FanCtrl, WellFoundedInduction, TLAPS

\* A row is read of a source's LUT that has rows.
Reading == pc = "row" => n \in Sources /\ tbl_size(from) > 0

\* Where the reading of the LUTs has got to: the sources that have been read are
\* served, and of the one being read a row that asks for enough is still to come.
SoFar ==
    /\ pc \notin {"src", "row"} => n = 1
    /\ \A s \in Sources : floor[s] <= Required(s)
    /\ \A s \in Sources : s < n => floor[s] <= max
    /\ pc = "row" =>
          \/ floor[n] <= max
          \/ \E j \in i..tbl_size(from) :
                Matches(lut[from][n][j], temp) /\ floor[n] <= lut[from][n][j].rpm

-----------------------------------------------------------------------------
(* Max and Min, of bytes and of pairs.                                     *)

LEMMA MaxOfBytes ==
  ASSUME NEW S \in SUBSET Byte, S # {}
  PROVE  Max(S) \in S /\ \A y \in S : Max(S) >= y
<1> DEFINE T == {t \in Nat : 255 - t \in S}
           R == OpToRel(<, Nat)
<1>1. \A y \in S : y \in 0..255
  BY DEF Byte
<1>2. \A y \in S : 255 - y \in T
  <2> TAKE y \in S
  <2>1. 255 - y \in Nat /\ 255 - (255 - y) = y
    BY <1>1
  <2> QED BY <2>1
<1>3. PICK t \in T : \A u \in T : ~(<<u, t>> \in R)
  <2>1. T # {} /\ T \subseteq Nat
    BY <1>2
  <2> HIDE DEF T
  <2>2. IsWellFoundedOn(R, Nat)
    BY NatLessThanWellFounded DEF R
  <2> HIDE DEF R
  <2> QED BY <2>1, <2>2, WFMin
<1>4. \A u \in T : ~(u < t)
  BY <1>3 DEF OpToRel
<1>5. \A y \in S : 255 - t >= y
  <2> TAKE y \in S
  <2>1. y \in Int /\ t \in Int
    BY <1>1
  <2>2. 255 - y \in T
    BY <1>2
  <2> HIDE DEF T
  <2>3. ~(255 - y < t)
    BY <2>2, <1>4
  <2> QED BY <2>1, <2>3
<1>6. 255 - t \in S
  OBVIOUS
<1> HIDE DEF T, R
<1> QED BY <1>5, <1>6 DEF Max

LEMMA MaxOfPair ==
  ASSUME NEW a \in Int, NEW b \in Int
  PROVE  Max({a, b}) \in {a, b} /\ Max({a, b}) >= a /\ Max({a, b}) >= b
<1>1. \E x \in {a, b} : \A y \in {a, b} : x >= y
  OBVIOUS
<1> QED BY <1>1 DEF Max

LEMMA MinOfPair ==
  ASSUME NEW a \in Int, NEW b \in Int
  PROVE  Min({a, b}) \in {a, b} /\ Min({a, b}) <= a /\ Min({a, b}) <= b
<1>1. \E x \in {a, b} : \A y \in {a, b} : x <= y
  OBVIOUS
<1> QED BY <1>1 DEF Min

LEMMA Bytes == Byte \subseteq Nat /\ 0 \in Byte
BY DEF Byte

\* Speed is a byte, and a row that matches asks for it unless it is nothing.
LEMMA SpeedOfTable ==
  ASSUME NEW t \in [Rows -> RowType], NEW c
  PROVE  /\ Speed(t, c) \in Byte
         /\ \/ Speed(t, c) = 0
            \/ \E j \in Rows : Matches(t[j], c) /\ Speed(t, c) = t[j].rpm
<1> DEFINE S == {0} \cup {t[k].rpm : k \in {j \in DOMAIN t : Matches(t[j], c)}}
<1>1. S \in SUBSET Byte /\ S # {}
  BY DEF RowType, Byte
<1>2. Speed(t, c) = Max(S)
  BY DEF Speed
<1>3. Max(S) \in S
  <2> HIDE DEF S
  <2> QED BY <1>1, MaxOfBytes
<1> QED BY <1>1, <1>2, <1>3

-----------------------------------------------------------------------------
LEMMA BootRows ==
  /\ Len(BootLut) \in Nat \ {0} /\ Rows = 1..Len(BootLut)
  /\ BootLut \in [Rows -> RowType]
BY FanCtrlAssumption DEF Rows

LEMMA Sizes == \A p : tbl_size(p) \in Nat /\ (tbl_size(p) > 0 => p \in 4..7 /\ tbl_size(p) = Len(BootLut))
BY BootRows DEF tbl_size

\* What Required depends on.
TablesOK ==
    /\ temps \in [Sources -> Temps] /\ tab \in [Sources -> {0} \cup Profile]
    /\ lut \in [Profile -> [Sources -> [Rows -> RowType]]]

LEMMA RequiredType == TablesOK => \A s \in Sources : Required(s) \in Byte
<1> SUFFICES ASSUME TablesOK, NEW s \in Sources PROVE Required(s) \in Byte
  OBVIOUS
<1>1. CASE tbl_size(tab[s]) = 0
  BY <1>1, Bytes DEF Required, Demand
<1>2. CASE tbl_size(tab[s]) # 0
  <2>1. tab[s] \in Profile
    BY <1>2, Sizes DEF Profile
  <2>2. lut[tab[s]][s] \in [Rows -> RowType]
    BY <2>1 DEF TablesOK
  <2> QED BY <1>2, <2>2, SpeedOfTable DEF Required, Demand
<1> QED BY <1>1, <1>2

-----------------------------------------------------------------------------
(* Type correctness.                                                       *)

LEMMA TypeInit == Init => TypeOK
<1> SUFFICES ASSUME Init PROVE TypeOK
  OBVIOUS
<1>1. lut \in [Profile -> [Sources -> [Rows -> RowType]]] /\ temps \in [Sources -> Temps]
  BY BootRows, FanCtrlAssumption DEF Init
<1>2. tab \in [Sources -> {0} \cup Profile] /\ profile \in Profile /\ floor \in [Sources -> Nat]
  BY DEF Init, NoFloor, Profile, FAN_PROFILE_BEST_PERFORMANCE_CHG_IN
<1>3. duty \in Duties /\ trip \in Nat \X Nat /\ sci \in Seq({STA_CHG, CROSS, ANY_SCI})
      /\ Len(sci) <= QueueLen + 1
  BY FanCtrlAssumption DEF Init, Duties, BootTrip
<1>4. sh \in [cmd : {"idle", "trip", "profile", "pin_on", "pin_off"}, val : Nat,
               src : 0..NumSources]
  BY FanCtrlAssumption DEF Init, Idle
<1>5. n \in 1..NumSources + 1 /\ i \in 1..Len(BootLut) + 1 /\ temp \in Byte /\ max \in Byte
  BY FanCtrlAssumption, BootRows, Bytes DEF Init
<1>6. calls \in [made : 0..MaxCalls, mix : Mixes]
  BY FanCtrlAssumption DEF Init
<1> QED BY <1>1, <1>2, <1>3, <1>4, <1>5, <1>6 DEF Init, TypeOK, Pc, Sta, PwrStates

\* The parts of TypeOK: what the handlers write, the queue, the fan and what the
\* host knows of it, the shell's command, the fan thread, and the counters.
Settings ==
    /\ TablesOK
    /\ profile \in Profiles \cup Profile
    /\ trip \in Nat \X Nat
    /\ dbg_mode \in DebugModes \cup {"normal"}
    /\ event \in BOOLEAN /\ mixed \in BOOLEAN
Queue ==
    /\ sci \in Seq({STA_CHG, CROSS, ANY_SCI}) /\ Len(sci) <= QueueLen + 1
    /\ sci_en \in BOOLEAN /\ flushing \in BOOLEAN
Fan ==
    /\ told \in BOOLEAN /\ lost \in BOOLEAN
    /\ fan_allow_on \in BOOLEAN /\ fan_en \in BOOLEAN
    /\ granted \in BOOLEAN /\ crossed \in BOOLEAN
    /\ pwr_state \in PwrStates
    /\ soc \in {"idle", "pin_on", "pin_off"}
    /\ state \in Sta /\ seen \in Sta
    /\ rpm \in Tach \cup {0}
    /\ duty \in Duties
Shell == sh \in [cmd : {"idle", "trip", "profile", "pin_on", "pin_off"}, val : Nat,
                 src : 0..NumSources]
Thread ==
    /\ pc \in Pc /\ s0 \in BOOLEAN /\ read \in Tach \cup {0}
    /\ n \in 1..NumSources + 1 /\ from \in {0} \cup Profile
    /\ i \in 1..Len(BootLut) + 1 /\ temp \in Byte /\ max \in Byte
Counters == calls \in [made : 0..MaxCalls, mix : Mixes] /\ floor \in [Sources -> Nat]

TypeParts == Settings /\ Queue /\ Fan /\ Shell /\ Thread /\ Counters

LEMMA TypeIsParts == TypeOK <=> TypeParts
BY DEF TypeOK, TypeParts, Settings, TablesOK, Queue, Fan, Shell, Thread, Counters

\* What each part depends on.
LEMMA SettingsStay == Settings /\ UNCHANGED <<tables, event, mixed>> => Settings'
BY DEF Settings, TablesOK, tables
LEMMA FanStays ==
  Fan /\ UNCHANGED <<host, power, granted, pwr_state, blk, duty>> => Fan'
BY DEF Fan, host, power, blk
LEMMA ThreadStays == Thread /\ UNCHANGED thread => Thread'
BY DEF Thread, thread
LEMMA OthersStay ==
  /\ Queue /\ UNCHANGED notify => Queue'
  /\ Shell /\ UNCHANGED sh => Shell'
  /\ Counters /\ UNCHANGED <<calls, floor>> => Counters'
BY DEF Queue, Shell, Counters, notify

LEMMA EnqueType ==
  ASSUME Queue, NEW e \in {STA_CHG, CROSS, ANY_SCI}, Enque(e) \/ UNCHANGED sci,
         UNCHANGED <<sci_en, flushing>>
  PROVE  Queue'
<1>1. QueueLen \in Nat
  BY FanCtrlAssumption
<1>2. sci \in Seq({STA_CHG, CROSS, ANY_SCI}) /\ Len(sci) \in Nat /\ Len(sci) <= QueueLen + 1
  BY DEF Queue
<1>3. CASE Len(sci) <= QueueLen /\ sci' = Append(sci, e)
  <2>1. Append(sci, e) \in Seq({STA_CHG, CROSS, ANY_SCI}) /\ Len(Append(sci, e)) = Len(sci) + 1
    BY <1>2
  <2> QED BY <1>1, <1>2, <1>3, <2>1 DEF Queue
<1>4. CASE sci' = sci
  BY <1>2, <1>4 DEF Queue
<1> QED BY <1>3, <1>4 DEF Enque

LEMMA TailType ==
  ASSUME Queue, sci # <<>>, sci' = Tail(sci), UNCHANGED <<sci_en, flushing>>
  PROVE  Queue'
<1>1. sci \in Seq({STA_CHG, CROSS, ANY_SCI}) /\ Len(sci) <= QueueLen + 1
  BY DEF Queue
<1>2. sci' \in Seq({STA_CHG, CROSS, ANY_SCI}) /\ Len(sci') = Len(sci) - 1
      /\ Len(sci) \in Nat /\ Len(sci') \in Nat
  BY <1>1
<1>3. \A a, b \in Nat : a <= QueueLen + 1 /\ b = a - 1 => b <= QueueLen + 1
  BY FanCtrlAssumption
<1>4. Len(sci') <= QueueLen + 1
  BY <1>1, <1>2, <1>3, Zenon
<1> QED BY <1>2, <1>4 DEF Queue

LEMMA CountedType ==
  ASSUME NEW c, Counters, Counted(c) PROVE calls' \in [made : 0..MaxCalls, mix : Mixes]
<1>1. MaxCalls \in Nat
  BY FanCtrlAssumption
<1> QED BY <1>1 DEF Counters, Counted

LEMMA RequiredTypeNext == ASSUME TablesOK' PROVE \A s \in Sources : Required(s)' \in Nat
<1>1. (\A s \in Sources : Required(s) \in Byte)'
  BY RequiredType, PTL
<1> QED BY <1>1, Bytes

\* History: floor stays a number under what the sources ask for.
LEMMA LoweredType ==
  ASSUME floor \in [Sources -> Nat], TablesOK', Lowered
  PROVE  /\ floor' \in [Sources -> Nat]
         /\ \A s \in Sources : floor'[s] <= floor[s] /\ floor'[s] <= Required(s)'
<1>1. \A s \in Sources : Required(s)' \in Nat
  BY RequiredTypeNext
<1>2. ASSUME NEW s \in Sources
      PROVE  /\ floor'[s] \in Nat /\ floor'[s] <= floor[s]
             /\ floor'[s] <= Required(s)'
  <2> DEFINE r == Required(s)'
             f == floor[s]
  <2>1. f \in Nat
    OBVIOUS
  <2>2. floor'[s] = Min({f, r})
    BY DEF Lowered
  <2>3. r \in Nat
    BY <1>1
  <2> HIDE DEF r, f
  <2>4. Min({f, r}) \in {f, r} /\ Min({f, r}) <= f /\ Min({f, r}) <= r
    BY <2>1, <2>3, MinOfPair
  <2>5. floor'[s] \in Nat /\ floor'[s] <= f /\ floor'[s] <= r
    BY <2>1, <2>2, <2>3, <2>4
  <2> QED BY <2>5 DEF r, f
<1>3. DOMAIN floor' = Sources /\ floor' = [s \in Sources |-> floor'[s]]
  BY DEF Lowered
<1> QED BY <1>2, <1>3

LEMMA NoFloorType == NoFloor \in [Sources -> Nat]
BY DEF NoFloor

\* A handler has to keep its own data in type.
LEMMA AnyCommandType ==
  ASSUME TypeParts, Settings', Queue', Shell', NEW c, AnyCommand(c), floor' \in [Sources -> Nat]
  PROVE  TypeParts'
<1>1. Fan'
  BY FanStays DEF TypeParts, AnyCommand
<1>2. Thread'
  BY ThreadStays DEF TypeParts, AnyCommand
<1>3. Counters'
  BY CountedType DEF TypeParts, AnyCommand, Counters
<1> QED BY <1>1, <1>2, <1>3 DEF TypeParts

LEMMA CommandType ==
  ASSUME TypeParts, Settings', Queue', Shell', NEW c, Command(c)
  PROVE  TypeParts'
<1>1. floor' \in [Sources -> Nat]
  BY LoweredType DEF TypeParts, Counters, Settings, Command
<1> QED BY <1>1, AnyCommandType DEF Command

LEMMA HostType == TypeParts /\ HostCommand => TypeParts'
<1> SUFFICES ASSUME TypeParts, HostCommand PROVE TypeParts'
  OBVIOUS
<1> USE OthersStay DEF notify
<1>1. ASSUME NEW s \in Sources, NEW t \in Temps, SocToEcTemp(s, t) PROVE TypeParts'
  <2>1. Settings'
    BY <1>1 DEF TypeParts, Settings, TablesOK, SocToEcTemp
  <2> QED BY <1>1, <2>1, CommandType DEF TypeParts, SocToEcTemp
<1>2. ASSUME NEW p \in Profiles, FanProfile(p) PROVE TypeParts'
  <2>1. Settings'
    BY <1>2 DEF TypeParts, Settings, TablesOK, FanProfile, Loaded
  <2> QED BY <1>2, <2>1, EnqueType, CommandType DEF TypeParts, FanProfile
<1>3. ASSUME NEW t \in Trips, FanTripPoint(t) PROVE TypeParts'
  <2>1. Settings'
    BY <1>3, FanCtrlAssumption DEF TypeParts, Settings, TablesOK, FanTripPoint
  <2> QED BY <1>3, <2>1, CommandType DEF TypeParts, FanTripPoint
<1>4. ASSUME NEW m \in DebugModes \cup {"normal"}, FanDebugCtrl(m) PROVE TypeParts'
  <2>1. Settings'
    BY <1>4 DEF TypeParts, Settings, TablesOK, FanDebugCtrl
  <2> QED BY <1>4, <2>1, CommandType DEF TypeParts, FanDebugCtrl
<1>5. ASSUME NEW p \in Profiles \cap Profile, NEW s \in LutSources, NEW l \in Luts,
             NEW k \in Rows, FanLut(p, s, l, k)
      PROVE  TypeParts'
  <2>1. s \in Sources /\ l \in [Rows -> RowType]
    BY FanCtrlAssumption DEF Sources
  <2>2. [j \in Rows |-> IF j <= k THEN l[j] ELSE lut[p][s][j]] \in [Rows -> RowType]
    BY <2>1 DEF TypeParts, Settings, TablesOK
  <2>3. lut' \in [Profile -> [Sources -> [Rows -> RowType]]]
    BY <1>5, <2>1, <2>2 DEF TypeParts, Settings, TablesOK, FanLut
  <2>4. Settings'
    BY <1>5, <2>3 DEF TypeParts, Settings, TablesOK, FanLut
  <2>5. floor' \in [Sources -> Nat]
    BY <1>5 DEF TypeParts, Counters, FanLut
  <2> QED BY <1>5, <2>4, <2>5, EnqueType, AnyCommandType DEF TypeParts, FanLut
<1>6. ASSUME NEW en \in BOOLEAN, AcpiSciEnableSet(en) PROVE TypeParts'
  <2>1. Queue' /\ Counters'
    BY <1>6, CountedType DEF TypeParts, Queue, Counters, AcpiSciEnableSet
  <2> QED BY <1>6, <2>1, SettingsStay, FanStays, ThreadStays DEF TypeParts, AcpiSciEnableSet
<1> QED BY <1>1, <1>2, <1>3, <1>4, <1>5, <1>6 DEF HostCommand

LEMMA ShellType == TypeParts /\ (ShellCommand \/ ShellStep) => TypeParts'
<1> SUFFICES ASSUME TypeParts, ShellCommand \/ ShellStep PROVE TypeParts'
  OBVIOUS
<1> USE OthersStay DEF notify
<1>1. ASSUME NEW v \in Sta, CmdFanState(v) PROVE TypeParts'
  <2>1. Settings'
    BY <1>1 DEF TypeParts, Settings, TablesOK, tables, CmdFanState
  <2>2. Fan'
    BY <1>1 DEF TypeParts, Fan, power, CmdFanState
  <2>3. Counters'
    BY <1>1, CountedType DEF TypeParts, Counters, CmdFanState
  <2> QED BY <1>1, <2>1, <2>2, <2>3, ThreadStays DEF TypeParts, CmdFanState
<1>2. ASSUME NEW t \in Trips, CmdFanTrip(t) PROVE TypeParts'
  <2>1. t[1] \in Nat /\ t[2] \in Nat /\ trip[2] \in Nat
    BY FanCtrlAssumption DEF TypeParts, Settings
  <2>2. Settings'
    BY <1>2, <2>1 DEF TypeParts, Settings, TablesOK, CmdFanTrip
  <2>3. Shell'
    <3>1. sh' = [cmd |-> "trip", val |-> t[2], src |-> 0]
      BY <1>2 DEF CmdFanTrip, Idle
    <3> QED BY <2>1, <3>1, FanCtrlAssumption DEF Shell
  <2> QED BY <1>2, <2>2, <2>3, CommandType DEF TypeParts, CmdFanTrip
<1>3. CASE CmdFanTripHigh
  <2>1. trip[1] \in Nat /\ sh.val \in Nat
    BY DEF TypeParts, Settings, Shell
  <2>2. Settings'
    BY <1>3, <2>1 DEF TypeParts, Settings, TablesOK, CmdFanTripHigh
  <2>3. Shell'
    BY <1>3, FanCtrlAssumption DEF Shell, CmdFanTripHigh, Idle
  <2> QED BY <1>3, <2>2, <2>3, ThreadStays, FanStays DEF TypeParts, CmdFanTripHigh
<1>4. ASSUME NEW p \in Profiles \cap Profile, CmdFanProfile(p) PROVE TypeParts'
  <2>1. Settings'
    BY <1>4 DEF TypeParts, Settings, TablesOK, CmdFanProfile
  <2>2. Shell'
    <3>1. sh' = [cmd |-> "profile", val |-> p, src |-> 1] /\ p \in Nat
      BY <1>4, FanCtrlAssumption DEF CmdFanProfile
    <3> QED BY <3>1, FanCtrlAssumption DEF Shell
  <2> QED BY <1>4, <2>1, <2>2, CommandType DEF TypeParts, CmdFanProfile
<1>5. CASE CmdFanProfileLut
  <2>1. Settings'
    BY <1>5 DEF TypeParts, Settings, TablesOK, CmdFanProfileLut, Loaded
  <2>2. Shell'
    <3>1. CASE sh.src = NumSources
      BY <1>5, <3>1, FanCtrlAssumption DEF Shell, CmdFanProfileLut, Idle
    <3>2. CASE sh.src # NumSources
      BY <1>5, <3>2, FanCtrlAssumption DEF TypeParts, Shell, CmdFanProfileLut
    <3> QED BY <3>1, <3>2
  <2>3. Counters'
    BY <1>5, <2>1, LoweredType DEF TypeParts, Settings, Counters, CmdFanProfileLut
  <2> QED BY <1>5, <2>1, <2>2, <2>3, ThreadStays, FanStays DEF TypeParts, CmdFanProfileLut
<1>6. ASSUME NEW on \in BOOLEAN, CmdFanConstraint(on) PROVE TypeParts'
  <2>1. Fan'
    BY <1>6 DEF TypeParts, Fan, CmdFanConstraint, WriteFlag, blk, host
  <2>2. Shell'
    <3>1. sh' = [cmd |-> ToPin(on), val |-> 0, src |-> 0]
      BY <1>6 DEF CmdFanConstraint, Counted, Idle
    <3> QED BY <3>1, FanCtrlAssumption DEF Shell, ToPin
  <2>3. Counters'
    BY <1>6, CountedType DEF TypeParts, Counters, CmdFanConstraint
  <2> QED BY <1>6, <2>1, <2>2, <2>3, ThreadStays, SettingsStay DEF TypeParts, CmdFanConstraint
<1>7. CASE CmdFanConstraintPin
  <2>1. Fan'
    BY <1>7 DEF TypeParts, Fan, CmdFanConstraintPin, WritePin, blk, host
  <2>2. Shell'
    BY <1>7, FanCtrlAssumption DEF Shell, CmdFanConstraintPin, Idle
  <2> QED BY <1>7, <2>1, <2>2, ThreadStays, SettingsStay DEF TypeParts, CmdFanConstraintPin
<1>8. CASE CmdSciGet
  <2>1. Queue'
    BY <1>8, TailType DEF TypeParts, CmdSciGet
  <2>2. Fan'
    BY <1>8 DEF TypeParts, Fan, CmdSciGet, power, blk
  <2>3. Counters'
    BY <1>8, CountedType DEF TypeParts, Counters, CmdSciGet
  <2> QED BY <1>8, <2>1, <2>2, <2>3, ThreadStays, SettingsStay DEF TypeParts, CmdSciGet
<1> QED BY <1>1, <1>2, <1>3, <1>4, <1>5, <1>6, <1>7, <1>8 DEF ShellCommand, ShellStep

LEMMA EndPassType == Counters /\ UNCHANGED calls /\ EndPass => Thread' /\ Counters'
BY FanCtrlAssumption, BootRows, NoFloorType, Bytes DEF Thread, Counters, EndPass, Pc

LEMMA ServiceType == TypeParts /\ Reading /\ Service => TypeParts'
<1> SUFFICES ASSUME TypeParts, Reading, Service PROVE TypeParts'
  OBVIOUS
<1> USE OthersStay DEF notify
<1>1. CASE EnterWait
  <2>1. Settings'
    BY <1>1 DEF TypeParts, Settings, TablesOK, tables, EnterWait
  <2>2. Thread'
    BY <1>1 DEF TypeParts, Thread, EnterWait, Pc
  <2> QED BY <1>1, <2>1, <2>2, FanStays DEF TypeParts, EnterWait
<1>2. CASE Wake
  <2>1. \A s \in Sources : Required(s) \in Nat
    BY RequiredType, Bytes DEF TypeParts, Settings
  <2>2. Counters'
    BY <1>2, <2>1 DEF TypeParts, Counters, Wake
  <2>3. Thread'
    BY <1>2 DEF TypeParts, Thread, Fan, Wake, Pc
  <2> QED BY <1>2, <2>2, <2>3, SettingsStay, FanStays DEF TypeParts, Wake
<1>3. CASE ReadTach
  <2>1. Thread'
    BY <1>3 DEF TypeParts, Thread, Fan, ReadTach, Pc
  <2> QED BY <1>3, <2>1, SettingsStay, FanStays DEF TypeParts, ReadTach
<1>4. CASE StateChange
  <2>1. Thread'
    BY <1>4 DEF TypeParts, Thread, StateChange, Pc
  <2>2. Fan'
    BY <1>4 DEF TypeParts, Fan, StateChange, Sta, host, power
  <2> QED BY <1>4, <2>1, <2>2, SettingsStay DEF TypeParts, StateChange
<1>5. CASE StateSci
  <2>1. Thread'
    BY <1>5 DEF TypeParts, Thread, StateSci, Pc
  <2>2. Fan'
    BY <1>5 DEF TypeParts, Fan, StateSci, blk, power
  <2> QED BY <1>5, <2>1, <2>2, EnqueType, SettingsStay DEF TypeParts, StateSci
<1>6. CASE SetRpm
  <2>1. Thread'
    BY <1>6 DEF TypeParts, Thread, SetRpm, Pc
  <2>2. Fan'
    BY <1>6 DEF TypeParts, Thread, Fan, SetRpm, host, power
  <2> QED BY <1>6, <2>1, <2>2, EnqueType, SettingsStay DEF TypeParts, SetRpm
<1>7. CASE CheckFanDebug
  <2>1. CASE dbg_mode # "normal"
    <3>1. Debug \in Duties
      BY DEF Debug, Duties, DbgRpm, DbgPwm
    <3>2. EndPass /\ duty' = Debug
      BY <1>7, <2>1 DEF CheckFanDebug
    <3>3. Fan'
      BY <1>7, <3>1, <3>2 DEF TypeParts, Fan, CheckFanDebug, host, power, blk
    <3> QED BY <1>7, <3>2, <3>3, EndPassType, SettingsStay DEF TypeParts, CheckFanDebug
  <2>2. CASE dbg_mode = "normal"
    <3>1. Thread'
      BY <1>7, <2>2 DEF TypeParts, Thread, CheckFanDebug, Pc
    <3> QED BY <1>7, <2>2, <3>1, FanStays, SettingsStay DEF TypeParts, CheckFanDebug
  <2> QED BY <2>1, <2>2
<1>8. CASE CheckPower
  <2>1. Thread'
    BY <1>8 DEF TypeParts, Thread, CheckPower, Pc
  <2> QED BY <1>8, <2>1, SettingsStay, FanStays DEF TypeParts, CheckPower
<1>13. CASE FanConstraintSet
  <2>1. Thread'
    BY <1>13 DEF TypeParts, Thread, FanConstraintSet, Pc
  <2>2. Fan'
    BY <1>13 DEF TypeParts, Thread, Fan, FanConstraintSet, WriteFlag, host, blk
  <2> QED BY <1>13, <2>1, <2>2, SettingsStay DEF TypeParts, FanConstraintSet
<1>14. CASE FanConstraintPin
  <2>1. Fan'
    BY <1>14 DEF TypeParts, Thread, Fan, FanConstraintPin, WritePin, host, blk
  <2>2. CASE s0
    <3>1. Thread' /\ UNCHANGED floor
      BY <1>14, <2>2 DEF TypeParts, Thread, FanConstraintPin, Pc
    <3> QED BY <1>14, <2>1, <3>1, SettingsStay DEF TypeParts, FanConstraintPin
  <2>3. CASE ~s0
    <3>1. EndPass
      BY <1>14, <2>3 DEF FanConstraintPin
    <3> QED BY <1>14, <2>1, <3>1, EndPassType, SettingsStay DEF TypeParts, FanConstraintPin
  <2> QED BY <2>2, <2>3
<1>9. CASE ReadTemp
  <2>1. n \in Sources /\ n \in 1..NumSources + 1 /\ n + 1 \in 1..NumSources + 1
    BY <1>9, FanCtrlAssumption DEF ReadTemp, Sources
  <2>2. Thread'
    <3>1. CASE tbl_size(tab[n]) = 0
      BY <1>9, <2>1, <3>1 DEF TypeParts, Thread, ReadTemp
    <3>2. CASE tbl_size(tab[n]) # 0
      <4>1. temps[n] \in Nat /\ tab[n] \in {0} \cup Profile
        BY <2>1, FanCtrlAssumption DEF TypeParts, Settings, TablesOK
      <4>2. Celsius(temps[n]) \in Byte
        BY <4>1 DEF Celsius, Byte
      <4>3. 1 \in 1..Len(BootLut) + 1
        BY BootRows
      <4> QED BY <1>9, <3>2, <4>1, <4>2, <4>3 DEF TypeParts, Thread, ReadTemp, Pc
    <3> QED BY <3>1, <3>2
  <2> QED BY <1>9, <2>2, FanStays, SettingsStay DEF TypeParts, ReadTemp
<1>10. CASE ReadRow
  <2>1. from \in 4..7 /\ from \in Profile /\ i \in Rows /\ i + 1 \in 1..Len(BootLut) + 1
    BY <1>10, Sizes, BootRows DEF TypeParts, Thread, ReadRow, Profile
  <2>2. n \in Sources
    BY <1>10 DEF Reading, ReadRow
  <2>3. max' \in Byte
    <3> DEFINE r == lut[from][n][i].rpm
    <3>1. lut[from][n][i] \in RowType
      BY <2>1, <2>2 DEF TypeParts, Settings, TablesOK
    <3>2. r \in Byte /\ max \in Byte
      BY <3>1 DEF RowType, TypeParts, Thread
    <3>3. max' \in {max, Max({max, r})}
      BY <1>10 DEF ReadRow
    <3> HIDE DEF r
    <3>4. max \in Int /\ r \in Int
      BY <3>2, Bytes
    <3>5. Max({max, r}) \in {max, r}
      BY <3>4, MaxOfPair
    <3> QED BY <3>2, <3>3, <3>5
  <2> QED BY <1>10, <2>1, <2>3, FanStays, SettingsStay DEF TypeParts, Thread, ReadRow
<1>11. CASE LutEnd
  <2>1. n \in 1..NumSources
    BY <1>11 DEF Reading, LutEnd, Sources
  <2>2. Thread'
    BY <1>11, <2>1, FanCtrlAssumption, BootRows, Bytes DEF TypeParts, Thread, LutEnd, Pc
  <2> QED BY <1>11, <2>2, FanStays, SettingsStay DEF TypeParts, LutEnd
<1>12. CASE FanRpmSet
  <2>1. Fan'
    BY <1>12, Bytes DEF TypeParts, Fan, Thread, Duties, FanRpmSet, host, power, blk
  <2> QED BY <1>12, <2>1, EndPassType, SettingsStay DEF TypeParts, FanRpmSet
<1> QED BY <1>1, <1>2, <1>3, <1>4, <1>5, <1>6, <1>7, <1>8, <1>9, <1>10, <1>11, <1>12,
           <1>13, <1>14 DEF Service

LEMMA ReadingService == Reading /\ Service => Reading'
<1> SUFFICES ASSUME Reading, Service PROVE Reading'
  OBVIOUS
<1>1. CASE ReadTemp
  <2>1. tbl_size(tab[n]) \in Nat
    BY Sizes
  <2> QED BY <1>1, <2>1 DEF ReadTemp, Reading
<1>2. CASE ReadRow
  BY <1>2 DEF ReadRow, Reading
<1>3. CASE CheckFanDebug \/ FanConstraintPin \/ LutEnd \/ FanRpmSet
  BY <1>3 DEF CheckFanDebug, FanConstraintPin, LutEnd, FanRpmSet, EndPass, Reading
<1>4. CASE \/ EnterWait \/ Wake \/ ReadTach \/ StateChange \/ StateSci \/ SetRpm
           \/ CheckPower \/ FanConstraintSet
  BY <1>4 DEF EnterWait, Wake, ReadTach, StateChange, StateSci, SetRpm, CheckPower,
     FanConstraintSet, Reading
<1> QED BY <1>1, <1>2, <1>3, <1>4 DEF Service

\* Only the fan thread moves the fan thread.
LEMMA OthersKeepThread ==
  ASSUME [Next]_vars, ~Service PROVE UNCHANGED thread
<1>1. ASSUME HostCommand PROVE UNCHANGED thread
  BY <1>1 DEF HostCommand, SocToEcTemp, FanProfile, FanTripPoint, FanDebugCtrl, FanLut,
     AcpiSciEnableSet, Command, AnyCommand
<1>2. ASSUME ShellCommand \/ ShellStep PROVE UNCHANGED thread
  BY <1>2 DEF ShellCommand, CmdFanState, CmdFanTrip, CmdFanProfile, CmdFanConstraint,
     CmdSciGet, ShellStep, CmdFanTripHigh, CmdFanProfileLut, CmdFanConstraintPin, Command,
     AnyCommand
<1>3. ASSUME \/ TakeSci \/ FanStatus \/ SciRefused \/ SciFlush \/ OtherFan
             \/ \E s \in PwrStates : PowerChange(s)
             \/ \E on \in BOOLEAN : SoccpFanConstraints(on)
             \/ SoccpFanConstraintsPin
      PROVE UNCHANGED thread
  BY <1>3 DEF TakeSci, FanStatus, SciRefused, SciFlush, OtherFan, PowerChange,
     SoccpFanConstraints, SoccpFanConstraintsPin
<1> QED BY <1>1, <1>2, <1>3 DEF Next, vars, thread

TypeInv == TypeParts /\ Reading

LEMMA TypeNext == TypeInv /\ [Next]_vars => TypeInv'
<1> SUFFICES ASSUME TypeInv, [Next]_vars PROVE TypeInv'
  OBVIOUS
<1> USE OthersStay DEF notify
<1>1. Reading'
  <2>1. CASE Service
    BY <2>1, ReadingService DEF TypeInv
  <2>2. CASE ~Service
    BY <2>2, OthersKeepThread DEF TypeInv, Reading, thread
  <2> QED BY <2>1, <2>2
<1>2. CASE Service
  BY <1>1, <1>2, ServiceType DEF TypeInv
<1>3. CASE HostCommand \/ ShellCommand \/ ShellStep
  BY <1>1, <1>3, HostType, ShellType DEF TypeInv
<1>4. CASE TakeSci
  <2>1. Queue'
    BY <1>4, TailType DEF TypeInv, TypeParts, TakeSci
  <2>2. Fan'
    BY <1>4 DEF TypeInv, TypeParts, Fan, TakeSci, power, blk
  <2> QED BY <1>1, <1>4, <2>1, <2>2, SettingsStay, ThreadStays DEF TypeInv, TypeParts, TakeSci
<1>5. CASE FanStatus
  <2>1. Fan'
    BY <1>5 DEF TypeInv, TypeParts, Fan, FanStatus, power, blk
  <2> QED BY <1>1, <1>5, <2>1, SettingsStay, ThreadStays DEF TypeInv, TypeParts, FanStatus
<1>6. ASSUME NEW s \in PwrStates, PowerChange(s) PROVE TypeInv'
  <2>1. Fan'
    BY <1>6 DEF TypeInv, TypeParts, Fan, PowerChange, power, blk, host
  <2>2. Counters'
    BY <1>6, CountedType DEF TypeInv, TypeParts, Counters, PowerChange
  <2>3. Settings'
    BY <1>6 DEF TypeInv, TypeParts, Settings, TablesOK, PowerChange, tables
  <2> QED BY <1>1, <1>6, <2>1, <2>2, <2>3, ThreadStays DEF TypeInv, TypeParts, PowerChange
<1>7. ASSUME NEW on \in BOOLEAN, SoccpFanConstraints(on) PROVE TypeInv'
  <2>1. Fan'
    BY <1>7 DEF TypeInv, TypeParts, Fan, SoccpFanConstraints, WriteFlag, ToPin, blk, host
  <2>2. Counters'
    BY <1>7, CountedType DEF TypeInv, TypeParts, Counters, SoccpFanConstraints
  <2> QED BY <1>1, <1>7, <2>1, <2>2, SettingsStay, ThreadStays
          DEF TypeInv, TypeParts, SoccpFanConstraints
<1>8. CASE UNCHANGED vars
  <2>1. Settings' /\ Fan'
    BY <1>8, SettingsStay, FanStays DEF vars, TypeInv, TypeParts
  <2> QED BY <1>1, <1>8, <2>1, ThreadStays DEF vars, TypeInv, TypeParts
<1>9. CASE SoccpFanConstraintsPin
  <2>1. Fan'
    BY <1>9 DEF TypeInv, TypeParts, Fan, SoccpFanConstraintsPin, WritePin, blk, host
  <2> QED BY <1>1, <1>9, <2>1, SettingsStay, ThreadStays
          DEF TypeInv, TypeParts, SoccpFanConstraintsPin
<1>10. CASE SciRefused
  <2>1. Queue'
    BY <1>10 DEF TypeInv, TypeParts, Queue, SciRefused
  <2> QED BY <1>1, <1>10, <2>1, SettingsStay, ThreadStays, FanStays
          DEF TypeInv, TypeParts, SciRefused
<1>11. CASE SciFlush
  <2>1. Queue'
    <3>1. sci' = <<>> /\ sci_en' \in BOOLEAN /\ flushing' = FALSE
      BY <1>11 DEF TypeInv, TypeParts, Queue, SciFlush
    <3>2. Len(<<>>) <= QueueLen + 1 /\ <<>> \in Seq({STA_CHG, CROSS, ANY_SCI})
      BY FanCtrlAssumption
    <3>3. flushing' \in BOOLEAN
      BY <3>1
    <3>4. sci' \in Seq({STA_CHG, CROSS, ANY_SCI}) /\ Len(sci') <= QueueLen + 1
      BY <3>1, <3>2, Zenon
    <3> QED BY <3>1, <3>3, <3>4 DEF Queue
  <2>2. Fan'
    BY <1>11 DEF TypeInv, TypeParts, Fan, SciFlush, power, blk
  <2> QED BY <1>1, <1>11, <2>1, <2>2, SettingsStay, ThreadStays
          DEF TypeInv, TypeParts, SciFlush
<1>12. CASE OtherFan
  <2>1. Queue'
    BY <1>12, EnqueType DEF TypeInv, TypeParts, OtherFan
  <2> QED BY <1>1, <1>12, <2>1, SettingsStay, ThreadStays, FanStays
          DEF TypeInv, TypeParts, OtherFan
<1> QED BY <1>2, <1>3, <1>4, <1>5, <1>6, <1>7, <1>8, <1>9, <1>10, <1>11, <1>12 DEF Next

LEMMA InitInv == Init => TypeInv
BY TypeInit, TypeIsParts DEF TypeInv, Reading, Init

\* The state stays in type, for any number of sources, tables and events.
THEOREM TypeCorrect == Spec => []TypeOK
<1>1. TypeInv => TypeOK
  BY TypeIsParts DEF TypeInv
<1> QED BY <1>1, InitInv, TypeNext, PTL DEF Spec

-----------------------------------------------------------------------------
(* A status the host has not seen is announced.                            *)

Waits(q) == \E j \in DOMAIN q : q[j] = STA_CHG

\* An event that is enqueued or refused leaves those that wait in the queue.
LEMMA EnqueKeeps ==
  ASSUME Queue, NEW e \in {STA_CHG, CROSS, ANY_SCI}, Enque(e)
  PROVE  /\ Waits(sci) => Waits(sci')
         /\ sci' # sci => sci' = Append(sci, e)
         /\ sci' = Append(sci, e) => sci'[Len(sci) + 1] = e /\ Len(sci) + 1 \in DOMAIN sci'
<1>1. sci \in Seq({STA_CHG, CROSS, ANY_SCI}) /\ Len(sci) \in Nat
  BY DEF Queue
<1>2. sci' = sci \/ sci' = Append(sci, e)
  BY DEF Enque
<1>3. CASE sci' = Append(sci, e)
  <2>1. /\ DOMAIN sci = 1..Len(sci) /\ DOMAIN Append(sci, e) = 1..(Len(sci) + 1)
        /\ \A j \in DOMAIN sci : Append(sci, e)[j] = sci[j]
        /\ Append(sci, e)[Len(sci) + 1] = e
    BY <1>1
  <2>2. DOMAIN sci \subseteq DOMAIN sci' /\ Len(sci) + 1 \in DOMAIN sci'
    BY <1>1, <1>3, <2>1
  <2> QED BY <1>3, <2>1, <2>2 DEF Waits
<1>4. CASE sci' = sci
  BY <1>1, <1>4
<1> QED BY <1>2, <1>3, <1>4

LEMMA TailKeeps ==
  ASSUME Queue, sci # <<>>, sci' = Tail(sci), Waits(sci)
  PROVE  Head(sci) = STA_CHG \/ Waits(sci')
<1>1. /\ sci \in Seq({STA_CHG, CROSS, ANY_SCI}) /\ sci # <<>> /\ Len(sci) \in Nat \ {0}
      /\ sci' = Tail(sci)
  BY DEF Queue
<1>2. PICK j \in 1..Len(sci) : sci[j] = STA_CHG
  BY <1>1 DEF Waits
<1>3. CASE j = 1
  BY <1>1, <1>2, <1>3
<1>4. CASE j # 1
  <2>1. j - 1 \in 1..(Len(sci) - 1) /\ DOMAIN Tail(sci) = 1..(Len(sci) - 1)
        /\ Tail(sci)[j - 1] = sci[j]
    BY <1>1, <1>4
  <2> QED BY <1>1, <1>2, <2>1 DEF Waits
<1> QED BY <1>3, <1>4

LEMMA AnnouncedNext ==
  ASSUME TypeInv, StatusAnnounced, [Next]_vars PROVE StatusAnnounced'
<1> DEFINE Told == told \/ lost \/ pc = "sta_sci" \/ Waits(sci)
<1>1. StatusAnnounced <=> (seen # state => Told)
  BY DEF StatusAnnounced, Announced, Waits
<1>2. StatusAnnounced' <=> (seen' # state' => Told')
  BY DEF StatusAnnounced, Announced, Waits
<1>3. Queue
  BY DEF TypeInv, TypeParts
<1>4. ASSUME UNCHANGED <<seen, state, told, lost>>, pc' = pc \/ pc # "sta_sci",
             Waits(sci) => Waits(sci')
      PROVE  StatusAnnounced'
  BY <1>1, <1>2, <1>4
<1>5. ASSUME Enque(ANY_SCI) \/ Enque(CROSS) \/ UNCHANGED sci
      PROVE  Waits(sci) => Waits(sci')
  BY <1>3, <1>5, EnqueKeeps
<1>6. CASE StateChange
  BY <1>2, <1>6 DEF StateChange
<1>7. CASE StateSci
  <2>1. CASE sci' = sci
    BY <1>2, <1>7, <2>1 DEF StateSci
  <2>2. CASE sci' # sci
    <3>1. Waits(sci')
      BY <1>3, <1>7, <2>2, EnqueKeeps DEF StateSci, Waits
    <3> QED BY <1>2, <3>1
  <2> QED BY <2>1, <2>2
<1>8. CASE TakeSci
  <2>1. Waits(sci) => told' \/ Waits(sci')
    BY <1>3, <1>8, TailKeeps DEF TakeSci
  <2>2. /\ told => told'
        /\ UNCHANGED <<seen, state, lost, pc>>
    BY <1>8 DEF TakeSci, blk, thread
  <2> QED BY <1>1, <1>2, <2>1, <2>2
<1>9. CASE FanStatus
  BY <1>2, <1>9 DEF FanStatus, blk
<1>10. ASSUME NEW v \in Sta, CmdFanState(v) PROVE StatusAnnounced'
  <2>1. CASE v = state
    <3>1. (lost => lost') /\ UNCHANGED <<seen, state, told, pc, sci>>
      BY <1>10, <2>1 DEF CmdFanState, thread, notify
    <3> QED BY <1>1, <1>2, <3>1
  <2>2. CASE v # state
    BY <1>2, <1>10, <2>2 DEF CmdFanState
  <2> QED BY <2>1, <2>2
<1>11. CASE Service /\ ~StateChange /\ ~StateSci
  <2>1. UNCHANGED <<seen, state, told, lost>> /\ pc # "sta_sci"
    BY <1>11 DEF Service, EnterWait, Wake, ReadTach, SetRpm, CheckFanDebug, CheckPower,
       FanConstraintSet, FanConstraintPin, ReadTemp, ReadRow, LutEnd, FanRpmSet, host, blk
  <2>2. Enque(CROSS) \/ UNCHANGED sci
    BY <1>11 DEF Service, EnterWait, Wake, ReadTach, SetRpm, CheckFanDebug, CheckPower,
       FanConstraintSet, FanConstraintPin, ReadTemp, ReadRow, LutEnd, FanRpmSet, notify
  <2> QED BY <1>4, <1>5, <2>1, <2>2
<1>12. CASE HostCommand
  <2>1. UNCHANGED <<seen, state, told, lost, pc>>
    BY <1>12 DEF HostCommand, SocToEcTemp, FanProfile, FanTripPoint, FanDebugCtrl, FanLut,
       AcpiSciEnableSet, Command, AnyCommand, blk, host, thread
  <2>2. Enque(ANY_SCI) \/ UNCHANGED sci
    BY <1>12 DEF HostCommand, SocToEcTemp, FanProfile, FanTripPoint, FanDebugCtrl, FanLut,
       AcpiSciEnableSet, notify
  <2> QED BY <1>4, <1>5, <2>1, <2>2
<1>13. ASSUME \/ \E t \in Trips : CmdFanTrip(t)
              \/ \E p \in Profiles \cap Profile : CmdFanProfile(p)
              \/ \E on \in BOOLEAN : CmdFanConstraint(on)
              \/ ShellStep
       PROVE StatusAnnounced'
  <2>1. UNCHANGED <<seen, state, told, lost, pc, sci>>
    BY <1>13 DEF CmdFanTrip, CmdFanProfile, CmdFanConstraint, ShellStep, CmdFanTripHigh,
       CmdFanProfileLut, CmdFanConstraintPin, Command, AnyCommand, blk, host, thread, notify
  <2> QED BY <1>4, <1>5, <2>1
<1>14. ASSUME \/ \E s \in PwrStates : PowerChange(s)
              \/ \E on \in BOOLEAN : SoccpFanConstraints(on)
              \/ SoccpFanConstraintsPin \/ SciRefused \/ UNCHANGED vars
       PROVE StatusAnnounced'
  <2>1. UNCHANGED <<seen, state, told, lost, pc, sci>>
    BY <1>14 DEF PowerChange, SoccpFanConstraints, SoccpFanConstraintsPin, SciRefused, vars,
       blk, host, thread, notify
  <2> QED BY <1>4, <1>5, <2>1
<1>15. CASE OtherFan
  <2>1. UNCHANGED <<seen, state, told, lost, pc>> /\ Enque(ANY_SCI)
    BY <1>15 DEF OtherFan, blk, host, thread
  <2> QED BY <1>4, <1>5, <2>1
\* What is taken away without a word to the host is noted.
<1>16. CASE SciFlush
  <2>1. lost' = (lost \/ Waits(sci)) /\ UNCHANGED <<seen, state, told, pc>>
    BY <1>16 DEF SciFlush, Announced, Waits, blk, thread
  <2> QED BY <1>1, <1>2, <2>1
<1>17. CASE CmdSciGet
  <2>1. /\ sci # <<>> /\ sci' = Tail(sci) /\ lost' = (lost \/ Head(sci) = STA_CHG)
        /\ UNCHANGED <<seen, state, told, pc>>
    BY <1>17 DEF CmdSciGet, blk, thread
  <2>2. Waits(sci) => lost' \/ Waits(sci')
    BY <1>3, <2>1, TailKeeps
  <2> QED BY <1>1, <1>2, <2>1, <2>2
<1> QED BY <1>6, <1>7, <1>8, <1>9, <1>10, <1>11, <1>12, <1>13, <1>14,
           <1>15, <1>16, <1>17 DEF Next, ShellCommand

\* A change of the fan's status reaches the host unless one of the ways in which an
\* announcement gets lost has happened since the host last asked, which StatusAnnounced
\* lists; with any length of the SCI queue, any permission and the other fan's events.
THEOREM StatusIsAnnounced == Spec => []StatusAnnounced
<1>1. Init => StatusAnnounced
  BY DEF Init, StatusAnnounced
<1> QED BY <1>1, InitInv, TypeNext, AnnouncedNext, PTL DEF Spec

-----------------------------------------------------------------------------
(* The hottest source is served.                                           *)

LEMMA SameRequired ==
  UNCHANGED <<temps, lut, tab>> => \A s \in Sources : Required(s)' = Required(s)
BY DEF Required, Demand

\* What the handlers may do in the middle of a pass: lower floor to what is now
\* asked for, and rewrite a LUT whose source is promised nothing.
LEMMA HandlerKeeps ==
  ASSUME TypeInv, TypeInv', SoFar, UNCHANGED thread,
         \A s \in Sources : floor'[s] <= floor[s] /\ floor'[s] <= Required(s)',
         \A s \in Sources : floor'[s] = 0 \/ \A p \in Profile : lut'[p][s] = lut[p][s]
  PROVE  SoFar'
<1> USE DEF thread
<1>1. \A s \in Sources : floor[s] \in Nat /\ floor'[s] \in Nat
  BY DEF TypeInv, TypeParts, Counters
<1>2. max \in Nat /\ n \in Nat
  BY Bytes DEF TypeInv, TypeParts, Thread
<1>3. \A s \in Sources : s < n' => floor'[s] <= max'
  <2> SUFFICES ASSUME NEW s \in Sources, s < n PROVE floor'[s] <= max
    OBVIOUS
  <2>1. floor[s] <= max /\ floor'[s] <= floor[s]
    BY DEF SoFar
  <2> QED BY <1>1, <1>2, <2>1
<1>4. CASE pc # "row"
  BY <1>3, <1>4 DEF SoFar
<1>5. CASE pc = "row"
  <2>1. n \in Sources /\ from \in 4..7 /\ from \in Profile
    BY <1>5, Sizes DEF TypeInv, Reading, Profile
  <2>2. CASE floor'[n] <= max
    BY <1>3, <1>5, <2>2 DEF SoFar
  <2>3. CASE ~(floor'[n] <= max)
    <3>1. ~(floor[n] <= max) /\ floor'[n] # 0
      BY <1>1, <1>2, <2>1, <2>3
    <3>2. PICK j \in i..tbl_size(from) :
              Matches(lut[from][n][j], temp) /\ floor[n] <= lut[from][n][j].rpm
      BY <1>5, <3>1 DEF SoFar
    <3>3. lut'[from][n] = lut[from][n]
      BY <2>1, <3>1
    <3>4. lut[from][n][j].rpm \in Nat
      <4>1. j \in Rows
        BY <2>1, <3>2, Sizes, BootRows DEF TypeInv, TypeParts, Thread
      <4>2. lut[from][n][j] \in RowType
        BY <2>1, <4>1 DEF TypeInv, TypeParts, Settings, TablesOK
      <4> QED BY <4>2, Bytes DEF RowType
    <3>5. floor'[n] <= lut'[from][n][j].rpm /\ Matches(lut'[from][n][j], temp)
      BY <1>1, <2>1, <3>2, <3>3, <3>4
    <3> QED BY <1>3, <1>5, <3>2, <3>5 DEF SoFar
  <2> QED BY <2>2, <2>3
<1> QED BY <1>4, <1>5

LEMMA SoFarService ==
  ASSUME TypeInv, TypeInv', SoFar, Service PROVE SoFar'
<1>1. \A s \in Sources : Required(s) \in Nat
  BY RequiredType, Bytes DEF TypeInv, TypeParts, Settings
<1>2. UNCHANGED <<temps, lut, tab>>
  BY DEF Service, EnterWait, Wake, ReadTach, StateChange, StateSci, SetRpm, CheckFanDebug,
     CheckPower, FanConstraintSet, FanConstraintPin, ReadTemp, ReadRow, LutEnd, FanRpmSet,
     tables
<1>3. \A s \in Sources : Required(s)' = Required(s)
  BY <1>2, SameRequired
<1>4. max \in Nat /\ n \in 1..NumSources + 1 /\ \A s \in Sources : floor[s] \in Nat
  BY Bytes DEF TypeInv, TypeParts, Thread, Counters
\* The parts of a pass where nothing is read.
<1>5. ASSUME EndPass PROVE SoFar'
  <2>1. \A s \in Sources : floor'[s] = 0 /\ ~(s < n')
    BY <1>5 DEF EndPass, NoFloor, Sources
  <2>2. pc' = "enter" /\ n' = 1
    BY <1>5 DEF EndPass
  <2> QED BY <1>1, <1>3, <2>1, <2>2 DEF SoFar
<1>6. ASSUME pc \notin {"src", "row"}, pc' # "row", UNCHANGED <<n, max>>,
             \A s \in Sources : floor'[s] <= Required(s)
      PROVE  SoFar'
  <2>1. n' = 1 /\ \A s \in Sources : ~(s < n')
    BY <1>6 DEF SoFar, Sources
  <2> QED BY <1>3, <1>6, <2>1 DEF SoFar
<1>7. CASE \/ EnterWait \/ Wake \/ ReadTach \/ StateChange \/ StateSci \/ SetRpm
           \/ CheckPower \/ FanConstraintSet
  <2>1. /\ pc \notin {"src", "row"} /\ pc' # "row" /\ UNCHANGED <<n, max>>
        /\ UNCHANGED floor \/ floor' = [s \in Sources |-> Required(s)]
    BY <1>7 DEF EnterWait, Wake, ReadTach, StateChange, StateSci, SetRpm, CheckPower,
       FanConstraintSet
  <2>2. \A s \in Sources : floor'[s] <= Required(s)
    BY <1>1, <2>1 DEF SoFar
  <2> QED BY <1>6, <2>1, <2>2
<1>8. CASE CheckFanDebug \/ FanConstraintPin \/ FanRpmSet
  <2>1. EndPass \/ /\ pc \notin {"src", "row"} /\ pc' # "row"
                   /\ UNCHANGED <<n, max, floor>>
    BY <1>8 DEF CheckFanDebug, FanConstraintPin, FanRpmSet
  <2>2. ASSUME UNCHANGED floor PROVE \A s \in Sources : floor'[s] <= Required(s)
    BY <2>2 DEF SoFar
  <2> QED BY <1>5, <1>6, <2>1, <2>2
<1>9. CASE ReadTemp
  <2>1. n \in Sources /\ UNCHANGED <<max, floor>>
    BY <1>9 DEF ReadTemp
  <2>2. floor[n] <= Required(n)
    BY <2>1 DEF SoFar
  <2>3. CASE tbl_size(tab[n]) = 0
    <3>1. floor[n] <= max
      BY <1>4, <2>1, <2>2, <2>3 DEF Required, Demand
    <3>2. \A s \in Sources : s < n' => s < n \/ s = n
      BY <1>4, <1>9, <2>3 DEF ReadTemp, Sources
    <3>3. pc' = "src"
      BY <1>9, <2>3 DEF ReadTemp
    <3> QED BY <1>3, <2>1, <3>1, <3>2, <3>3 DEF SoFar
  <2>4. CASE tbl_size(tab[n]) # 0
    <3>1. tab[n] \in Profile /\ tbl_size(tab[n]) = Len(BootLut)
      BY <2>4, Sizes DEF Profile
    <3>2. lut[tab[n]][n] \in [Rows -> RowType]
      BY <2>1, <3>1 DEF TypeInv, TypeParts, Settings, TablesOK
    <3>3. Required(n) = Speed(lut[tab[n]][n], Celsius(temps[n]))
      BY <2>4 DEF Required, Demand
    <3>4. \/ Required(n) = 0
          \/ \E j \in Rows : /\ Matches(lut[tab[n]][n][j], Celsius(temps[n]))
                             /\ Required(n) = lut[tab[n]][n][j].rpm
      BY <3>2, <3>3, SpeedOfTable
    <3>5. /\ pc' = "row" /\ n' = n /\ from' = tab[n] /\ i' = 1
          /\ temp' = Celsius(temps[n])
      BY <1>9, <2>4 DEF ReadTemp
    <3>6. Rows = i'..tbl_size(from')
      BY <3>1, <3>5, BootRows
    <3>7. \/ floor'[n'] <= max'
          \/ \E j \in i'..tbl_size(from') :
                Matches(lut'[from'][n'][j], temp') /\ floor'[n'] <= lut'[from'][n'][j].rpm
      <4>1. CASE Required(n) = 0
        BY <1>4, <2>1, <2>2, <3>5, <4>1
      <4>2. CASE Required(n) # 0
        <5>1. PICK j \in Rows : /\ Matches(lut[tab[n]][n][j], Celsius(temps[n]))
                                /\ Required(n) = lut[tab[n]][n][j].rpm
          BY <3>4, <4>2
        <5> QED BY <1>2, <2>1, <2>2, <3>5, <3>6, <5>1
      <4> QED BY <4>1, <4>2
    <3> QED BY <1>3, <2>1, <3>5, <3>7 DEF SoFar
  <2> QED BY <2>3, <2>4
<1>10. CASE ReadRow
  <2> DEFINE row == lut[from][n][i]
  <2>1. n \in Sources /\ from \in 4..7 /\ from \in Profile /\ i \in Rows
        /\ tbl_size(from) \in Nat
    BY <1>10, Sizes, BootRows DEF TypeInv, TypeParts, Thread, Reading, ReadRow, Profile
  <2>2. row.rpm \in Nat
    <3>1. row \in RowType
      BY <2>1 DEF TypeInv, TypeParts, Settings, TablesOK
    <3> QED BY <3>1, Bytes DEF RowType
  <2>3. /\ pc = "row" /\ UNCHANGED <<pc, n, from, temp, floor>> /\ i' = i + 1
        /\ max' = IF Matches(row, temp) THEN Max({max, row.rpm}) ELSE max
    BY <1>10 DEF ReadRow
  <2>4. max' \in Nat /\ max <= max' /\ (Matches(row, temp) => row.rpm <= max')
    <3> DEFINE r == row.rpm
    <3> HIDE DEF r, row
    <3>1. Max({max, r}) \in {max, r} /\ Max({max, r}) >= max /\ Max({max, r}) >= r
      <4>1. max \in Int /\ r \in Int
        BY <1>4, <2>2 DEF r
      <4> QED BY <4>1, MaxOfPair
    <3> USE DEF r
    <3> QED BY <1>4, <2>2, <2>3, <3>1
  <2>5. \A s \in Sources : s < n' => floor'[s] <= max'
    <3> SUFFICES ASSUME NEW s \in Sources, s < n PROVE floor[s] <= max'
      BY <2>3
    <3>1. floor[s] <= max
      BY DEF SoFar
    <3> QED BY <1>4, <2>4, <3>1
  <2>6. \/ floor'[n'] <= max'
        \/ \E j \in i'..tbl_size(from') :
              Matches(lut'[from'][n'][j], temp') /\ floor'[n'] <= lut'[from'][n'][j].rpm
    <3>1. CASE floor[n] <= max
      BY <1>4, <2>1, <2>3, <2>4, <3>1
    <3>2. CASE ~(floor[n] <= max)
      <4>1. PICK j \in i..tbl_size(from) :
                Matches(lut[from][n][j], temp) /\ floor[n] <= lut[from][n][j].rpm
        BY <2>3, <3>2 DEF SoFar
      <4>2. CASE j = i
        BY <1>4, <2>1, <2>2, <2>3, <2>4, <4>1, <4>2
      <4>3. CASE j # i
        <5>1. i \in Int /\ j \in i + 1..tbl_size(from)
          BY <2>1, <4>3, BootRows
        <5> QED BY <1>2, <2>3, <4>1, <5>1
      <4> QED BY <4>2, <4>3
    <3> QED BY <3>1, <3>2
  <2> QED BY <1>3, <2>3, <2>5, <2>6 DEF SoFar
<1>11. CASE LutEnd
  <2>1. n \in Sources /\ pc' = "src" /\ n' = n + 1 /\ UNCHANGED <<max, floor>>
    BY <1>11 DEF LutEnd, TypeInv, Reading
  <2>2. i..tbl_size(from) = {}
    <3>1. i \in Int /\ tbl_size(from) \in Int /\ i > tbl_size(from)
      BY <1>11, Sizes, BootRows DEF LutEnd, TypeInv, TypeParts, Thread
    <3> QED BY <3>1
  <2>3. floor[n] <= max
    BY <1>11, <2>2 DEF LutEnd, SoFar
  <2>4. \A s \in Sources : s < n' => s < n \/ s = n
    BY <1>4, <2>1 DEF Sources
  <2> QED BY <1>3, <2>1, <2>3, <2>4 DEF SoFar
<1> QED BY <1>7, <1>8, <1>9, <1>10, <1>11 DEF Service

LEMMA SoFarOthers ==
  ASSUME TypeInv, TypeInv', SoFar, [Next]_vars, ~Service PROVE SoFar'
<1>1. /\ floor \in [Sources -> Nat] /\ TablesOK' /\ UNCHANGED thread
      /\ \A s \in Sources : Required(s) \in Nat
      /\ lut \in [Profile -> [Sources -> [Rows -> RowType]]]
  <2>1. TablesOK /\ TablesOK' /\ floor \in [Sources -> Nat]
    BY DEF TypeInv, TypeParts, Counters, Settings
  <2>2. \A s \in Sources : Required(s) \in Nat
    BY <2>1, RequiredType, Bytes
  <2>3. UNCHANGED thread
    BY OthersKeepThread
  <2> QED BY <2>1, <2>2, <2>3 DEF TablesOK
\* Steps that lower floor and leave the LUTs.
<1>2. ASSUME Lowered, UNCHANGED lut PROVE SoFar'
  <2>1. \A s \in Sources : floor'[s] <= floor[s] /\ floor'[s] <= Required(s)'
    BY <1>1, <1>2, LoweredType
  <2> QED BY <1>1, <1>2, <2>1, HandlerKeeps
\* Steps of no concern to the tables.
<1>3. ASSUME UNCHANGED <<temps, lut, tab, floor>> PROVE SoFar'
  <2>1. \A s \in Sources : Required(s)' = Required(s)
    BY <1>3, SameRequired
  <2>2. \A s \in Sources : floor'[s] <= floor[s] /\ floor'[s] <= Required(s)'
    BY <1>1, <1>3, <2>1 DEF SoFar
  <2> QED BY <1>1, <1>3, <2>2, HandlerKeeps
<1>4. ASSUME NEW p \in Profiles \cap Profile, NEW s \in LutSources, NEW l \in Luts,
             NEW k \in Rows, FanLut(p, s, l, k)
      PROVE  SoFar'
  <2>1. s \in Sources
    BY FanCtrlAssumption DEF Sources
  <2>2. \A t \in Sources : Required(t)' \in Nat
    BY <1>1, RequiredTypeNext
  <2>3. /\ floor' = [floor EXCEPT ![s] = 0] /\ UNCHANGED <<temps, tab>>
        /\ lut' = [lut EXCEPT ![p][s] = [j \in Rows |-> IF j <= k THEN l[j] ELSE @[j]]]
    BY <1>4 DEF FanLut
  <2>4. \A t \in Sources \ {s} : \A q \in Profile : lut'[q][t] = lut[q][t]
    BY <1>1, <2>3
  <2>5. \A t \in Sources : floor'[t] <= floor[t] /\ floor'[t] <= Required(t)'
    <3> SUFFICES ASSUME NEW t \in Sources
                 PROVE  floor'[t] <= floor[t] /\ floor'[t] <= Required(t)'
      OBVIOUS
    <3>1. CASE t = s
      <4>1. floor'[t] = 0 /\ floor[t] \in Nat
        BY <1>1, <2>3, <3>1
      <4> QED BY <2>2, <4>1
    <3>2. CASE t # s
      <4>1. floor'[t] = floor[t] /\ floor[t] <= Required(t) /\ floor[t] \in Nat
        BY <1>1, <2>3, <3>2 DEF SoFar
      <4>2. CASE tbl_size(tab[t]) = 0
        BY <1>1, <2>3, <4>1, <4>2 DEF Required, Demand
      <4>3. CASE tbl_size(tab[t]) # 0
        <5>1. tab[t] \in Profile
          BY <4>3, Sizes DEF Profile
        <5>2. lut'[tab[t]][t] = lut[tab[t]][t]
          BY <2>4, <3>2, <5>1
        <5> QED BY <2>3, <4>1, <5>2 DEF Required, Demand
      <4> QED BY <4>2, <4>3
    <3> QED BY <3>1, <3>2
  <2>6. \A t \in Sources : floor'[t] = 0 \/ \A q \in Profile : lut'[q][t] = lut[q][t]
    BY <1>1, <2>3, <2>4
  <2> QED BY <1>1, <2>5, <2>6, HandlerKeeps
<1>5. ASSUME \/ \E s \in Sources, t \in Temps : SocToEcTemp(s, t)
             \/ \E p \in Profiles : FanProfile(p)
             \/ \E t \in Trips : FanTripPoint(t)
             \/ \E m \in DebugModes \cup {"normal"} : FanDebugCtrl(m)
             \/ \E t \in Trips : CmdFanTrip(t)
             \/ \E p \in Profiles \cap Profile : CmdFanProfile(p)
             \/ CmdFanProfileLut
      PROVE SoFar'
  <2>1. Lowered /\ UNCHANGED lut
    BY <1>5 DEF SocToEcTemp, FanProfile, FanTripPoint, FanDebugCtrl, CmdFanTrip,
       CmdFanProfile, CmdFanProfileLut, Command
  <2> QED BY <1>2, <2>1
<1>6. ASSUME \/ \E v \in Sta : CmdFanState(v)
             \/ \E on \in BOOLEAN : CmdFanConstraint(on) \/ SoccpFanConstraints(on)
             \/ \E en \in BOOLEAN : AcpiSciEnableSet(en)
             \/ \E s \in PwrStates : PowerChange(s)
             \/ CmdFanTripHigh \/ CmdFanConstraintPin \/ CmdSciGet
             \/ SoccpFanConstraintsPin \/ TakeSci \/ FanStatus \/ SciRefused \/ SciFlush
             \/ OtherFan \/ UNCHANGED vars
      PROVE SoFar'
  <2>1. UNCHANGED <<temps, lut, tab, floor>>
    BY <1>6 DEF CmdFanState, CmdFanConstraint, SoccpFanConstraints, AcpiSciEnableSet,
       CmdFanTripHigh, CmdFanConstraintPin, CmdSciGet, SoccpFanConstraintsPin, TakeSci,
       FanStatus, SciRefused, SciFlush, OtherFan, PowerChange, vars, tables, host
  <2> QED BY <1>3, <2>1
<1> QED BY <1>4, <1>5, <1>6 DEF Next, HostCommand, ShellCommand, ShellStep

LEMMA SoFarInit == Init => SoFar
<1> SUFFICES ASSUME Init PROVE SoFar
  OBVIOUS
<1>1. \A s \in Sources : Required(s) \in Nat
  BY InitInv, RequiredType, Bytes DEF TypeInv, TypeParts, Settings
<1>2. \A s \in Sources : floor[s] = 0 /\ ~(s < n)
  BY DEF Init, NoFloor, Sources
<1> QED BY <1>1, <1>2 DEF Init, SoFar

\* However the commands interleave with the reading of the tables, one row and one
\* temperature at a time, no source is set slower than it has asked for throughout.
THEOREM HottestIsServed == Spec => []HottestSourceServed
<1>1. TypeInv /\ SoFar => HottestSourceServed
  <2> SUFFICES ASSUME TypeInv, SoFar, n \notin Sources, NEW s \in Sources
               PROVE  max >= floor[s]
    BY DEF HottestSourceServed
  <2>1. s < n
    BY FanCtrlAssumption DEF TypeInv, TypeParts, Thread, Sources
  <2>2. floor[s] <= max /\ max \in Nat /\ floor[s] \in Nat
    BY <2>1, Bytes DEF SoFar, TypeInv, TypeParts, Thread, Counters
  <2> QED BY <2>2
<1>2. TypeInv /\ TypeInv' /\ SoFar /\ [Next]_vars => SoFar'
  BY SoFarService, SoFarOthers
<1> QED BY <1>1, <1>2, SoFarInit, InitInv, TypeNext, PTL DEF Spec

-----------------------------------------------------------------------------
(* What the shell's commands leave behind, which write one thing at a time.*)

\* The safety part of FanPowerFollows: with no fan_constraint_set under way the enable
\* pin is as the flag says, unless the flag was written inside one.
PinFollowsFlag ==
    ~ShellSets /\ ~SoccpSets /\ ~ServiceSets /\ ~crossed => fan_en = fan_allow_on

\* ... and inside one, the only one, the flag is still what its caller wrote.
FlagStands ==
    ~crossed =>
        /\ ShellSets   => fan_allow_on = (sh.cmd = "pin_on") /\ ~SoccpSets /\ ~ServiceSets
        /\ SoccpSets   => fan_allow_on = (soc = "pin_on") /\ ~ServiceSets
        /\ ServiceSets => fan_allow_on = s0

\* The safety part of SettingsTakeEffect: with no "fan profile" under way every
\* source reads the LUT of the profile the host is told, unless the host selected
\* one inside the shell's selection.
TablesOfProfile ==
    sh.cmd # "profile" /\ ~mixed => \A s \in Sources : tab[s] = Loaded(profile)

\* ... and inside one the sources it has passed do.
LoadedSoFar ==
    sh.cmd = "profile" /\ ~mixed =>
        /\ profile = sh.val
        /\ \A s \in Sources : s < sh.src => tab[s] = Loaded(profile)

PinInv == PinFollowsFlag /\ FlagStands
LutInv == TablesOfProfile /\ LoadedSoFar

LEMMA PinInit == Init => PinInv
<1> SUFFICES ASSUME Init PROVE PinInv
  OBVIOUS
<1>1. ~ShellSets /\ ~SoccpSets /\ ~ServiceSets
  BY DEF Init, Idle, ShellSets, SoccpSets, ServiceSets
<1>2. fan_en = fan_allow_on
  BY DEF Init
<1> QED BY <1>1, <1>2 DEF PinInv, PinFollowsFlag, FlagStands

LEMMA PinNext == Shell /\ PinInv /\ [Next]_vars => PinInv'
<1> SUFFICES ASSUME Shell, PinInv, [Next]_vars PROVE PinInv'
  OBVIOUS
<1> USE DEF power
\* Steps of no concern to fan power: neither the shell nor the fan thread gets into
\* a fan_constraint_set or out of one.
<1>1. ASSUME UNCHANGED power,
             UNCHANGED sh \/ (~ShellSets /\ ~ShellSets'),
             UNCHANGED <<pc, s0>> \/ (~ServiceSets /\ ~ServiceSets')
      PROVE  PinInv'
  <2>1. /\ UNCHANGED <<fan_allow_on, fan_en, crossed, soc>>
        /\ ShellSets' = ShellSets /\ (ShellSets => sh' = sh)
        /\ SoccpSets' = SoccpSets
        /\ ServiceSets' = ServiceSets /\ (ServiceSets => s0' = s0)
    BY <1>1 DEF ShellSets, SoccpSets, ServiceSets
  <2> QED BY <2>1 DEF PinInv, PinFollowsFlag, FlagStands
<1>2. ASSUME ~Service PROVE UNCHANGED <<pc, s0>>
  BY <1>2, OthersKeepThread DEF thread
<1>3. CASE FanConstraintSet
  <2>1. /\ fan_allow_on' = s0 /\ crossed' = (ShellSets \/ SoccpSets)
        /\ pc' = "pin" /\ UNCHANGED <<s0, sh, soc>>
    BY <1>3 DEF FanConstraintSet, WriteFlag
  <2> QED BY <2>1 DEF PinInv, PinFollowsFlag, FlagStands, ShellSets, SoccpSets, ServiceSets
<1>4. CASE FanConstraintPin
  <2>1. /\ fan_en' \in {s0, fan_allow_on} /\ UNCHANGED <<fan_allow_on, crossed, soc, sh>>
        /\ pc = "pin" /\ pc' # "pin"
    BY <1>4 DEF FanConstraintPin, WritePin, EndPass
  <2> QED BY <2>1 DEF PinInv, PinFollowsFlag, FlagStands, ShellSets, SoccpSets, ServiceSets
<1>5. CASE Service /\ ~FanConstraintSet /\ ~FanConstraintPin
  <2>1. UNCHANGED power /\ UNCHANGED sh /\ ~ServiceSets /\ ~ServiceSets'
    BY <1>5 DEF ServiceSets, Service, EnterWait, Wake, ReadTach, StateChange, StateSci, SetRpm,
       CheckFanDebug, CheckPower, ReadTemp, ReadRow, LutEnd, FanRpmSet, EndPass
  <2> QED BY <1>1, <2>1
<1>6. ASSUME NEW on \in BOOLEAN, CmdFanConstraint(on) PROVE PinInv'
  <2>1. /\ fan_allow_on' = on /\ crossed' = (SoccpSets \/ ServiceSets)
        /\ sh'.cmd = IF on THEN "pin_on" ELSE "pin_off"
        /\ UNCHANGED <<soc, pc, s0>>
    BY <1>6 DEF CmdFanConstraint, Counted, WriteFlag, ToPin, Idle, thread
  <2> QED BY <2>1 DEF PinInv, PinFollowsFlag, FlagStands, ShellSets, SoccpSets, ServiceSets
<1>7. CASE CmdFanConstraintPin
  <2>1. /\ sh.cmd \in {"pin_on", "pin_off"} /\ sh'.cmd = "idle"
        /\ fan_en' \in {sh.cmd = "pin_on", fan_allow_on}
        /\ UNCHANGED <<fan_allow_on, crossed, soc, pc, s0>>
    BY <1>7 DEF CmdFanConstraintPin, ShellSets, WritePin, Idle, thread
  <2> QED BY <2>1 DEF PinInv, PinFollowsFlag, FlagStands, ShellSets, SoccpSets, ServiceSets
<1>8. ASSUME NEW on \in BOOLEAN, SoccpFanConstraints(on) PROVE PinInv'
  <2>1. /\ fan_allow_on' = on /\ crossed' = (ShellSets \/ ServiceSets)
        /\ soc' = IF on THEN "pin_on" ELSE "pin_off"
        /\ UNCHANGED <<sh, pc, s0>>
    BY <1>8 DEF SoccpFanConstraints, WriteFlag, ToPin, thread
  <2> QED BY <2>1 DEF PinInv, PinFollowsFlag, FlagStands, ShellSets, SoccpSets, ServiceSets
<1>9. CASE SoccpFanConstraintsPin
  <2>1. /\ soc # "idle" /\ soc' = "idle"
        /\ fan_en' \in {soc = "pin_on", fan_allow_on}
        /\ UNCHANGED <<fan_allow_on, crossed, sh, pc, s0>>
    BY <1>9 DEF SoccpFanConstraintsPin, SoccpSets, WritePin, thread
  <2> QED BY <2>1 DEF PinInv, PinFollowsFlag, FlagStands, ShellSets, SoccpSets, ServiceSets
<1>10. ASSUME \/ HostCommand \/ CmdSciGet \/ \E v \in Sta : CmdFanState(v)
              \/ TakeSci \/ FanStatus \/ SciRefused \/ SciFlush \/ OtherFan
              \/ \E s \in PwrStates : PowerChange(s)
              \/ UNCHANGED vars
       PROVE  PinInv'
  <2>1. UNCHANGED power /\ UNCHANGED sh /\ UNCHANGED <<pc, s0>>
    BY <1>10 DEF HostCommand, SocToEcTemp, FanProfile, FanTripPoint, FanDebugCtrl, FanLut,
       AcpiSciEnableSet, CmdSciGet, CmdFanState, TakeSci, FanStatus, SciRefused, SciFlush,
       OtherFan, PowerChange, Command, AnyCommand, vars, thread
  <2> QED BY <1>1, <2>1
<1>11. ASSUME \/ \E t \in Trips : CmdFanTrip(t)
              \/ \E p \in Profiles \cap Profile : CmdFanProfile(p)
              \/ CmdFanTripHigh \/ CmdFanProfileLut
       PROVE  PinInv'
  <2>1. UNCHANGED power /\ UNCHANGED <<pc, s0>> /\ ~ShellSets /\ ~ShellSets'
    <3>1. CASE \E t \in Trips : CmdFanTrip(t)
      <4>1. PICK t \in Trips : CmdFanTrip(t)
        BY <3>1
      <4>2. sh = Idle /\ sh' = [Idle EXCEPT !.cmd = "trip", !.val = t[2]]
        BY <4>1 DEF CmdFanTrip
      <4>3. UNCHANGED power /\ UNCHANGED <<pc, s0>>
        BY <4>1 DEF CmdFanTrip, Command, AnyCommand, thread
      <4>4. sh.cmd = "idle" /\ sh'.cmd = "trip"
        BY <4>2 DEF Idle
      <4> QED BY <4>3, <4>4 DEF ShellSets
    <3>2. CASE \E p \in Profiles \cap Profile : CmdFanProfile(p)
      <4>1. PICK p \in Profiles \cap Profile : CmdFanProfile(p)
        BY <3>2
      <4>2. sh = Idle /\ sh' = [cmd |-> "profile", val |-> p, src |-> 1]
        BY <4>1 DEF CmdFanProfile
      <4>3. UNCHANGED power /\ UNCHANGED <<pc, s0>>
        BY <4>1 DEF CmdFanProfile, Command, AnyCommand, thread
      <4>4. sh.cmd = "idle" /\ sh'.cmd = "profile"
        BY <4>2 DEF Idle
      <4> QED BY <4>3, <4>4 DEF ShellSets
    <3>3. CASE CmdFanTripHigh
      BY <3>3 DEF CmdFanTripHigh, Idle, ShellSets, thread
    <3>4. CASE CmdFanProfileLut
      <4>1. sh.cmd = "profile" /\ UNCHANGED <<power, pc, s0>>
        BY <3>4 DEF CmdFanProfileLut, thread
      <4>2. sh' = Idle \/ sh' = [sh EXCEPT !.src = @ + 1]
        BY <3>4 DEF CmdFanProfileLut
      <4>3. sh'.cmd \in {"idle", "profile"}
        BY <4>1, <4>2 DEF Idle, Shell
      <4> QED BY <4>1, <4>3 DEF ShellSets
    <3> QED BY <1>11, <3>1, <3>2, <3>3, <3>4
  <2> QED BY <1>1, <2>1
<1> QED BY <1>3, <1>4, <1>5, <1>6, <1>7, <1>8, <1>9, <1>10, <1>11
        DEF Next, ShellCommand, ShellStep

\* PinFollowsFlag: the fan's enable pin parts from the permission only when the two
\* writes of one fan_constraint_set had those of another between them (divergence 22),
\* in any interleaving of the SoC-CP, the shell, the power states and the fan thread.
THEOREM PinIsFlag == Spec => []PinFollowsFlag
<1>1. TypeInv => Shell
  BY DEF TypeInv, TypeParts
<1>2. PinInv => PinFollowsFlag
  BY DEF PinInv
<1> QED BY <1>1, <1>2, InitInv, TypeNext, PinInit, PinNext, PTL DEF Spec

LEMMA LutInit == Init => LutInv
BY DEF Init, Idle, LutInv, TablesOfProfile, LoadedSoFar, Loaded, Profile,
   FAN_PROFILE_BEST_PERFORMANCE_CHG_IN

LEMMA LutNext == TypeInv /\ LutInv /\ [Next]_vars => LutInv'
<1> SUFFICES ASSUME TypeInv, LutInv, [Next]_vars PROVE LutInv'
  OBVIOUS
<1>1. ASSUME UNCHANGED <<tab, profile, mixed, sh>> PROVE LutInv'
  BY <1>1 DEF LutInv, TablesOfProfile, LoadedSoFar, Loaded
<1>2. ASSUME UNCHANGED <<tab, profile, mixed>>, sh.cmd # "profile", sh'.cmd # "profile"
      PROVE  LutInv'
  BY <1>2 DEF LutInv, TablesOfProfile, LoadedSoFar, Loaded
<1>3. CASE \/ Service \/ TakeSci \/ FanStatus \/ SciRefused \/ SciFlush \/ OtherFan
           \/ \E s \in PwrStates : PowerChange(s)
           \/ UNCHANGED vars
  <2>1. UNCHANGED <<tab, profile, mixed, sh>>
    BY <1>3 DEF Service, EnterWait, Wake, ReadTach, StateChange, StateSci, SetRpm,
       CheckFanDebug, CheckPower, FanConstraintSet, FanConstraintPin, ReadTemp, ReadRow,
       LutEnd, FanRpmSet, TakeSci, FanStatus, SciRefused, SciFlush, OtherFan, PowerChange,
       vars, tables
  <2> QED BY <1>1, <2>1
<1>4. CASE \/ \E s \in Sources, t \in Temps : SocToEcTemp(s, t)
           \/ \E t \in Trips : FanTripPoint(t)
           \/ \E m \in DebugModes \cup {"normal"} : FanDebugCtrl(m)
           \/ \E p \in Profiles \cap Profile, s \in LutSources, l \in Luts, k \in Rows :
                 FanLut(p, s, l, k)
           \/ \E v \in Sta : CmdFanState(v)
           \/ \E on \in BOOLEAN : SoccpFanConstraints(on) \/ AcpiSciEnableSet(on)
           \/ SoccpFanConstraintsPin \/ CmdSciGet
  <2>1. UNCHANGED <<tab, profile, mixed, sh>>
    BY <1>4 DEF SocToEcTemp, FanTripPoint, FanDebugCtrl, FanLut, CmdFanState,
       SoccpFanConstraints, SoccpFanConstraintsPin, AcpiSciEnableSet, CmdSciGet, tables
  <2> QED BY <1>1, <2>1
<1>5. ASSUME NEW p \in Profiles, FanProfile(p) PROVE LutInv'
  <2>1. /\ \A s \in Sources : tab'[s] = Loaded(profile')
        /\ mixed' = (sh.cmd = "profile") /\ sh' = sh
    BY <1>5 DEF FanProfile
  <2> QED BY <2>1 DEF LutInv, TablesOfProfile, LoadedSoFar, Loaded
<1>6. ASSUME NEW p \in Profiles \cap Profile, CmdFanProfile(p) PROVE LutInv'
  <2>1. /\ profile' = p /\ sh' = [cmd |-> "profile", val |-> p, src |-> 1]
    BY <1>6 DEF CmdFanProfile
  <2>2. \A s \in Sources : ~(s < 1)
    BY DEF Sources
  <2> QED BY <2>1, <2>2 DEF LutInv, TablesOfProfile, LoadedSoFar
<1>7. CASE CmdFanProfileLut
  <2>1. /\ sh.cmd = "profile" /\ UNCHANGED <<profile, mixed>>
        /\ tab' = [tab EXCEPT ![sh.src] = Loaded(sh.val)]
        /\ \/ sh.src = NumSources /\ sh' = Idle
           \/ sh.src # NumSources /\ sh' = [sh EXCEPT !.src = @ + 1]
    BY <1>7 DEF CmdFanProfileLut
  <2>2. /\ tab \in [Sources -> {0} \cup Profile] /\ NumSources \in Nat
        /\ sh.src \in Nat
        /\ sh \in [cmd : {"idle", "trip", "profile", "pin_on", "pin_off"}, val : Nat,
                   src : 0..NumSources]
    BY FanCtrlAssumption DEF TypeInv, TypeParts, Settings, TablesOK, Shell
  <2> SUFFICES ASSUME ~mixed PROVE LutInv'
    BY <2>1 DEF LutInv, TablesOfProfile, LoadedSoFar
  <2>3. profile = sh.val /\ \A s \in Sources : s < sh.src => tab[s] = Loaded(profile)
    BY <2>1 DEF LutInv, LoadedSoFar
  <2>4. \A s \in Sources : s < sh.src \/ s = sh.src => tab'[s] = Loaded(profile')
    BY <2>1, <2>2, <2>3 DEF Loaded
  <2>5. CASE sh.src = NumSources /\ sh' = Idle
    <3>1. \A s \in Sources : s < sh.src \/ s = sh.src
      BY <2>2, <2>5 DEF Sources
    <3> QED BY <2>4, <2>5, <3>1 DEF LutInv, TablesOfProfile, LoadedSoFar, Loaded, Idle
  <2>6. CASE sh' = [sh EXCEPT !.src = @ + 1]
    <3>1. sh'.cmd = "profile" /\ sh'.val = sh.val /\ sh'.src = sh.src + 1
      BY <2>1, <2>2, <2>6
    <3>2. \A s \in Sources : s < sh'.src => s < sh.src \/ s = sh.src
      BY <2>2, <3>1 DEF Sources
    <3> QED BY <2>1, <2>3, <2>4, <3>1, <3>2 DEF LutInv, TablesOfProfile, LoadedSoFar, Loaded
  <2> QED BY <2>1, <2>5, <2>6
<1>8. CASE \/ \E t \in Trips : CmdFanTrip(t)
           \/ \E on \in BOOLEAN : CmdFanConstraint(on)
           \/ CmdFanTripHigh \/ CmdFanConstraintPin
  <2>1. UNCHANGED <<tab, profile, mixed>> /\ sh.cmd # "profile" /\ sh'.cmd # "profile"
    <3>1. CASE \E t \in Trips : CmdFanTrip(t)
      <4>1. PICK t \in Trips : CmdFanTrip(t)
        BY <3>1
      <4>2. sh = Idle /\ sh' = [Idle EXCEPT !.cmd = "trip", !.val = t[2]]
            /\ UNCHANGED <<tab, profile, mixed>>
        BY <4>1 DEF CmdFanTrip
      <4> QED BY <4>2 DEF Idle
    <3>2. CASE \E on \in BOOLEAN : CmdFanConstraint(on)
      <4>1. UNCHANGED tables /\ UNCHANGED mixed /\ sh = Idle
        BY <3>2 DEF CmdFanConstraint
      <4>3. sh.cmd = "idle"
        BY <4>1 DEF Idle
      <4>2. sh'.cmd \in {"pin_on", "pin_off"}
        BY <3>2 DEF CmdFanConstraint, ToPin, Idle
      <4> QED BY <4>1, <4>2, <4>3 DEF tables
    <3>3. CASE CmdFanTripHigh
      BY <3>3 DEF CmdFanTripHigh, Idle
    <3>4. CASE CmdFanConstraintPin
      BY <3>4 DEF CmdFanConstraintPin, ShellSets, Idle, tables
    <3> QED BY <1>8, <3>1, <3>2, <3>3, <3>4
  <2> QED BY <1>2, <2>1
<1> QED BY <1>3, <1>4, <1>5, <1>6, <1>7, <1>8
        DEF Next, HostCommand, ShellCommand, ShellStep

\* TablesOfProfile: the LUTs in use are those of the profile that command 0x24 and
\* the read-out name, but for the mixture of divergence 21, however the shell's
\* selection, one source at a time, interleaves with the host's.
THEOREM TablesAreOfProfile == Spec => []TablesOfProfile
<1>1. LutInv => TablesOfProfile
  BY DEF LutInv
<1> QED BY <1>1, InitInv, TypeNext, LutInit, LutNext, PTL DEF Spec

=============================================================================
