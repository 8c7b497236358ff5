------------------------------- MODULE FanCtrl -------------------------------
(***************************************************************************)
(* The control loop of the fan service, service/fan/service.c, for one fan:*)
(* every second, or when woken, it compares the tachometer with the last   *)
(* speed, turns fan power on in S0 and off elsewhere, then sets the speed  *)
(* the LUTs of the selected profile ask for.  The host changes             *)
(* temperatures, profiles, LUTs and the debug mode with ACPI commands, the *)
(* shell does as well, and the SoC-CP writes the fan power permission.     *)
(*                                                                         *)
(* Granularity.  The ACPI thread runs a command handler to its end with    *)
(* respect to the fan thread, which it may preempt between any two reads   *)
(* of what the handlers write.  The SoC-CP thread shares time slices with  *)
(* the fan thread and the shell has the lowest priority: one step for each *)
(* of their writes.  That the power service announces a change in a second *)
(* step is of no matter to a thread that wakes up every second anyway.     *)
(* The loop over the two fans runs the same body on state of their own: one*)
(* fan is modelled, and of the other one's turn the events it enqueues; its*)
(* check of fan power repeats this fan's with the same state just read.    *)
(*                                                                         *)
(* The SCI service is its channel (module SciChannel) with its capacity    *)
(* (the queue, and the mailbox when the SCI thread has filled it), the     *)
(* permission without which it drops an event, and the flush.              *)
(*                                                                         *)
(* What the fan thread has read is forgotten once it is used up.           *)
(***************************************************************************)
EXTENDS FanTables

CONSTANTS
    NumSources, \* temperature sources, each with a LUT
    Profiles,   \* numbers the host selects; those outside Profile are invalid
    Temps,      \* temperatures the host sends, in tenths of a degree
    Luts,       \* tables the host writes: all of a LUT's rows, of bytes
    BootLut,    \* what fan.c puts in the LUTs of profiles 4..7
    Tach,       \* speeds the tachometer reads
    Trips,      \* pairs of trip points <<low, high>>
    DebugModes, \* of "off", "rpm", "pwm"
    LutSources, \* bound: the sources whose LUTs the host rewrites
    QueueLen,   \* CONFIG_ACPI_SCI_QUEUE_LEN
    Mixes,      \* bound: a behaviour has the events of one of these sets ...
    MaxCalls    \* ... and so many of those that are counted

Events == {"temp", "profile", "trip", "debug", "lut", "enable", "power", "soccp",
           "fan state", "fan trip", "fan profile", "fan constraint", "sci get",
           "tach", "status", "other fan"}

Rows == DOMAIN BootLut
Byte == 0..255
RowType == [rpm : Byte, temp_high : Byte, temp_low : Byte]

ASSUME FanCtrlAssumption ==
    /\ NumSources \in Nat \ {0}
    /\ Profiles \subseteq Nat
    /\ Temps \subseteq Nat /\ 0 \in Temps
    /\ BootLut \in Seq(RowType) /\ BootLut # <<>>
    /\ Luts \subseteq [Rows -> RowType]
    /\ Tach \subseteq Nat
    /\ Trips \subseteq Nat \X Nat
    /\ DebugModes \subseteq {"off", "rpm", "pwm"}
    /\ LutSources \subseteq 1..NumSources /\ MaxCalls \in Nat
    /\ Mixes \subseteq SUBSET Events
    /\ QueueLen \in Nat \ {0}

Sources == 1..NumSources

VARIABLES
    temps, lut, profile, trip, dbg_mode,  \* written by the handlers
    tab,             \* fan_blk.lut: per source the profile it points into, or 0
    event,           \* FAN_TEMP_CHG or FAN_CFG_UPDATE is posted
    pwr_state,       \* "S0", "MS", or "G3" for all the others
    fan_allow_on, fan_en, \* fan power: the flag and the pin
    soc,             \* the SoC-CP's message: the pin it is about to write
    state, rpm,      \* fan_blk: ON or OFF, last speed read
    sci,             \* events enqueued for the host and not yet taken
    sci_en, flushing, \* notifications enabled; SCI thread about to flush
    sh,              \* the shell's command: what is left of it
    pc, s0, read, n, from, i, temp, max,  \* fan thread; s0: the state it read
    duty,            \* what the driver was last told to do
    \* History.
    calls,           \* bound: number of commands so far, and the mix they are of
    seen, told,      \* status the host last read; an event it took since
    lost,            \* the announcement of a change was refused, dropped or flushed
    mixed,           \* the host selected a profile inside the shell's selection
    granted,         \* the SoC-CP's last constraint message
    crossed,         \* the flag was last written inside another fan_constraint_set
    floor            \* least speed each source asked for since the pass began

tables == <<temps, lut, profile, tab, trip, dbg_mode>>
power  == <<fan_allow_on, fan_en, crossed, soc>>
notify == <<sci, sci_en, flushing>>
thread == <<pc, s0, read, n, from, i, temp, max>>
blk    == <<state, rpm>>
host   == <<seen, told, lost>>
vars == <<tables, event, pwr_state, power, granted, blk, notify, sh, mixed, thread,
          duty, calls, host, floor>>

Pc == {"enter", "wait", "tach", "sta_chg", "sta_sci", "rpm", "debug",
       "power", "set", "pin", "src", "row"}
PwrStates == {"S0", "MS", "G3"}
Sta == {"ON", "OFF"}
STA_CHG == "SCI_FAN1_STA_CHG"
ANY_SCI == "any other event"
Duties == {"pwm", "rpm"} \X Nat
CROSS == "SCI_FAN1_RPM_CROSS"
BootTrip == <<0, 10000>>
DbgRpm == 3000
DbgPwm == 128
Idle == [cmd |-> "idle", val |-> 0, src |-> 0]

TypeOK ==
    /\ temps \in [Sources -> Temps]
    /\ lut \in [Profile -> [Sources -> [Rows -> RowType]]]
    /\ profile \in Profiles \cup Profile
    /\ tab \in [Sources -> {0} \cup Profile]
    /\ trip \in Nat \X Nat
    /\ dbg_mode \in DebugModes \cup {"normal"}
    /\ event \in BOOLEAN /\ told \in BOOLEAN /\ lost \in BOOLEAN
    /\ fan_allow_on \in BOOLEAN /\ fan_en \in BOOLEAN
    /\ mixed \in BOOLEAN /\ granted \in BOOLEAN /\ crossed \in BOOLEAN
    /\ pwr_state \in PwrStates /\ s0 \in BOOLEAN
    /\ soc \in {"idle", "pin_on", "pin_off"}
    /\ sci_en \in BOOLEAN /\ flushing \in BOOLEAN
    /\ state \in Sta /\ seen \in Sta
    /\ rpm \in Tach \cup {0} /\ read \in Tach \cup {0}
    /\ sci \in Seq({STA_CHG, CROSS, ANY_SCI}) /\ Len(sci) <= QueueLen + 1
    /\ sh \in [cmd : {"idle", "trip", "profile", "pin_on", "pin_off"}, val : Nat,
               src : 0..NumSources]
    /\ pc \in Pc
    /\ n \in 1..NumSources + 1 /\ from \in {0} \cup Profile
    /\ i \in 1..Len(BootLut) + 1 /\ temp \in Byte /\ max \in Byte
    /\ duty \in Duties
    /\ calls \in [made : 0..MaxCalls, mix : Mixes]
    /\ floor \in [Sources -> Nat]

\* The trip points are crossed at speed r.
Outside(r) == r < trip[1] \/ r > trip[2]

\* The size of a LUT is a constant of fan.c: a write does not change it.
tbl_size(p) == IF p \in 4..7 THEN Len(BootLut) ELSE 0

\* What source s asks for with the LUT of profile p: nothing without a table.
Demand(p, s) ==
    IF tbl_size(p) = 0 THEN 0 ELSE Speed(lut[p][s], Celsius(temps[s]))
Required(s) == Demand(tab[s], s)

\* fan_lut_get: where fan_blk_lut_load makes a LUT point for profile p.
Loaded(p) == IF p \in Profile THEN p ELSE 0

\* sci_enque and sci_pwr_allow: without permission the event is dropped and the
\* caller told that all is well; a full queue refuses it.
Allowed == sci_en /\ pwr_state \in {"S0", "MS"}
Enque(e) ==
    \/ Allowed /\ Len(sci) <= QueueLen /\ sci' = Append(sci, e)
    \/ (~Allowed \/ Len(sci) >= QueueLen) /\ sci' = sci

\* A change of the status waits to be taken.
Announced == \E j \in DOMAIN sci : sci[j] = STA_CHG

NoFloor == [s \in Sources |-> 0]

\* fan_constraint_set: the flag, and then the pin, which gets the value just stored
\* or the flag as it is by then: the compiler may do either.
WriteFlag(on, inside) == fan_allow_on' = on /\ crossed' = inside
WritePin(on) == fan_en' \in {on, fan_allow_on}
ToPin(on) == IF on THEN "pin_on" ELSE "pin_off"

\* Who is between the two.
ShellSets == sh.cmd \in {"pin_on", "pin_off"}
SoccpSets == soc # "idle"
ServiceSets == pc = "pin"

\* The end of a pass.
EndPass ==
    /\ pc' = "enter" /\ s0' = TRUE /\ read' = 0
    /\ n' = 1 /\ from' = 0 /\ i' = 1 /\ temp' = 0 /\ max' = 0
    /\ floor' = NoFloor

Init ==
    /\ temps = [s \in Sources |-> 0]
    /\ lut = [p \in Profile |-> [s \in Sources |-> BootLut]]
    /\ profile = FAN_PROFILE_BEST_PERFORMANCE_CHG_IN
    /\ tab = [s \in Sources |-> FAN_PROFILE_BEST_PERFORMANCE_CHG_IN]
    /\ trip = BootTrip /\ dbg_mode = "normal" /\ event = FALSE
    /\ pwr_state = "G3" /\ fan_allow_on = FALSE /\ fan_en = FALSE /\ soc = "idle"
    /\ state = "OFF" /\ rpm = 0 /\ sh = Idle
    /\ sci = <<>> /\ sci_en = TRUE /\ flushing = FALSE
    /\ pc = "enter" /\ s0 = TRUE /\ read = 0
    /\ n = 1 /\ from = 0 /\ i = 1 /\ temp = 0 /\ max = 0
    /\ duty = <<"pwm", 0>>
    /\ calls \in [made : {0}, mix : Mixes]
    /\ seen = "OFF" /\ told = FALSE /\ lost = FALSE
    /\ mixed = FALSE /\ granted = FALSE /\ crossed = FALSE
    /\ floor = NoFloor

-----------------------------------------------------------------------------
(* Mistakes in this code that the properties are there to catch: each is   *)
(* an action below with one slip.  The specification does not use them.    *)

\* A wait that timed out is taken up again at once.
Wake_SkipsTimeout ==
    /\ pc = "wait"
    /\ IF event
       THEN /\ pc' = "tach" /\ s0' = (pwr_state = "S0")
            /\ floor' = [s \in Sources |-> Required(s)]
       ELSE pc' = "enter" /\ UNCHANGED <<s0, floor>>
    /\ UNCHANGED <<tables, event, pwr_state, power, granted, blk, notify, sh,
                   mixed, read, n, from, i, temp, max, duty, calls, host>>

\* Only a fan that starts is announced.
StateSci_OnOnly ==
    /\ pc = "sta_sci"
    /\ IF state = "ON" THEN Enque(STA_CHG) /\ lost' = (sci' = sci)
                      ELSE UNCHANGED <<sci, lost>>
    /\ pc' = "rpm"
    /\ UNCHANGED <<tables, event, pwr_state, power, granted, blk, sci_en, flushing,
                   sh, mixed, s0, read, n, from, i, temp, max, duty, calls, seen,
                   told, floor>>

\* The last LUT decides, not the greatest speed of all.
ReadRow_LastLut ==
    /\ pc = "row" /\ i <= tbl_size(from)
    /\ max' = LET row == lut[from][n][i] IN
              CASE Matches(row, temp) -> row.rpm
                [] i = 1 -> 0
                [] OTHER -> max
    /\ i' = i + 1
    /\ UNCHANGED <<tables, event, pwr_state, power, granted, blk, notify, sh,
                   mixed, pc, s0, read, n, from, temp, duty, calls, host, floor>>

\* A crossing is reported when the speed changes, not while it lasts.
SetRpm_OnChange ==
    /\ pc = "rpm"
    /\ rpm' = read /\ read' = 0
    /\ IF Outside(read) /\ read # rpm THEN Enque(CROSS) ELSE UNCHANGED sci
    /\ pc' = "debug"
    /\ UNCHANGED <<tables, event, pwr_state, power, granted, state, sci_en,
                   flushing, sh, mixed, s0, n, from, i, temp, max, duty, calls,
                   host, floor>>

\* Fan power is given and never taken away.
CheckPower_OnOnly ==
    /\ pc = "power"
    /\ pc' = IF s0 /\ ~fan_allow_on THEN "set" ELSE "src"
    /\ s0' = TRUE
    /\ UNCHANGED <<tables, event, pwr_state, power, granted, blk, notify, sh,
                   mixed, read, n, from, i, temp, max, duty, calls, host, floor>>

-----------------------------------------------------------------------------
(* The commands of the host, each on the ACPI thread.  SocToEcTemp and     *)
(* FanDebugCtrl stand for the shell's "fan temp" and "fan debug" as well.  *)

Counted(c) ==
    /\ c \in calls.mix /\ calls.made < MaxCalls
    /\ calls' = [calls EXCEPT !.made = @ + 1]

AnyCommand(c) ==
    /\ Counted(c)
    /\ UNCHANGED <<pwr_state, power, granted, blk, thread, duty, host>>

\* History: what every source asks for during the whole pass.
Lowered == floor' = [s \in Sources |-> Min({floor[s], Required(s)'})]

Command(c) == AnyCommand(c) /\ Lowered

\* acpi_soc_to_ec_temp, fan_tmp_set
SocToEcTemp(s, t) ==
    /\ temps' = [temps EXCEPT ![s] = t]
    /\ event' = TRUE
    /\ UNCHANGED <<lut, profile, tab, trip, dbg_mode, notify, sh, mixed>>
    /\ Command("temp")

\* The fan number in the high nibble is not masked out (a mistake, as above).
FanProfile_Unmasked(p) ==
    /\ profile' = 16 + p
    /\ tab' = [s \in Sources |-> Loaded(16 + p)]
    /\ mixed' = (sh.cmd = "profile")
    /\ event' = TRUE
    /\ Enque(ANY_SCI)
    /\ UNCHANGED <<temps, lut, trip, dbg_mode, sci_en, flushing, sh>>
    /\ Command("profile")

\* acpi_ec_fan_profile: an invalid profile is taken and has no LUT.
FanProfile(p) ==
    /\ profile' = p
    /\ tab' = [s \in Sources |-> Loaded(p)]
    /\ mixed' = (sh.cmd = "profile")
    /\ event' = TRUE
    /\ Enque(ANY_SCI)
    /\ UNCHANGED <<temps, lut, trip, dbg_mode, sci_en, flushing, sh>>
    /\ Command("profile")

\* acpi_ec_fan_trip_point
FanTripPoint(t) ==
    /\ trip' = t
    /\ event' = TRUE
    /\ UNCHANGED <<temps, lut, profile, tab, dbg_mode, notify, sh, mixed>>
    /\ Command("trip")

\* acpi_ec_fan_debug_ctrl
FanDebugCtrl(m) ==
    /\ dbg_mode' = m
    /\ event' = TRUE
    /\ UNCHANGED <<temps, lut, profile, tab, trip, notify, sh, mixed>>
    /\ Command("debug")

\* acpi_ec_fan_lut: the first k rows are overwritten, and no event is posted.  A
\* pass that reads some rows before and some after it is promised nothing.
FanLut(p, s, l, k) ==
    /\ lut' = [lut EXCEPT ![p][s] = [j \in Rows |-> IF j <= k THEN l[j] ELSE @[j]]]
    /\ Enque(ANY_SCI)
    /\ UNCHANGED <<temps, profile, tab, trip, dbg_mode, event, sci_en, flushing,
                   sh, mixed>>
    /\ floor' = [floor EXCEPT ![s] = 0]
    /\ AnyCommand("lut")

\* Command 0x35, and the shell's "sci en".
AcpiSciEnableSet(en) ==
    /\ sci_en' = en
    /\ Counted("enable")
    /\ UNCHANGED <<tables, event, pwr_state, power, granted, blk, sci, flushing,
                   sh, mixed, thread, duty, host, floor>>

\* The host reads the oldest event with command 0x05, and asks for the status.
TakeSci ==
    /\ sci # <<>>
    /\ told' = (told \/ Head(sci) = STA_CHG)
    /\ sci' = Tail(sci)
    /\ UNCHANGED <<tables, event, pwr_state, power, granted, blk, sci_en, flushing,
                   sh, mixed, thread, duty, calls, seen, lost, floor>>

FanStatus ==
    /\ "status" \in calls.mix
    /\ seen' = state /\ told' = FALSE /\ lost' = FALSE
    /\ UNCHANGED <<tables, event, pwr_state, power, granted, blk, notify, sh,
                   mixed, thread, duty, calls, floor>>

-----------------------------------------------------------------------------
(* The shell's commands, for a fan and a profile that exist.               *)

\* "fan state" writes the status without a word to the host.
CmdFanState(v) ==
    /\ sh = Idle
    /\ state' = v
    /\ lost' = (lost \/ v # state)
    /\ event' = TRUE
    /\ Counted("fan state")
    /\ UNCHANGED <<tables, pwr_state, power, granted, rpm, notify, sh, mixed,
                   thread, duty, seen, told, floor>>

CmdFanTrip(t) ==
    /\ sh = Idle
    /\ trip' = <<t[1], trip[2]>>
    /\ sh' = [Idle EXCEPT !.cmd = "trip", !.val = t[2]]
    /\ UNCHANGED <<temps, lut, profile, tab, dbg_mode, event, notify, mixed>>
    /\ Command("fan trip")

CmdFanTripHigh ==
    /\ sh.cmd = "trip"
    /\ trip' = <<trip[1], sh.val>>
    /\ sh' = Idle /\ event' = TRUE
    /\ UNCHANGED <<temps, lut, profile, tab, dbg_mode, pwr_state, power, granted,
                   blk, notify, mixed, thread, duty, calls, host, floor>>

CmdFanProfile(p) ==
    /\ sh = Idle
    /\ profile' = p
    /\ sh' = [cmd |-> "profile", val |-> p, src |-> 1]
    /\ mixed' = FALSE
    /\ UNCHANGED <<temps, lut, tab, trip, dbg_mode, event, notify>>
    /\ Command("fan profile")

\* fan_blk_lut_load, one source at a time.
CmdFanProfileLut ==
    /\ sh.cmd = "profile"
    /\ tab' = [tab EXCEPT ![sh.src] = Loaded(sh.val)]
    /\ IF sh.src = NumSources
       THEN sh' = Idle /\ event' = TRUE
       ELSE sh' = [sh EXCEPT !.src = @ + 1] /\ UNCHANGED event
    /\ UNCHANGED <<temps, lut, profile, trip, dbg_mode, pwr_state, power, granted,
                   blk, notify, mixed, thread, duty, calls, host>>
    /\ Lowered

CmdFanConstraint(on) ==
    /\ sh = Idle
    /\ WriteFlag(on, SoccpSets \/ ServiceSets)
    /\ sh' = [Idle EXCEPT !.cmd = ToPin(on)]
    /\ Counted("fan constraint")
    /\ UNCHANGED <<tables, event, pwr_state, fan_en, soc, granted, blk, notify,
                   mixed, thread, duty, host, floor>>

CmdFanConstraintPin ==
    /\ ShellSets
    /\ WritePin(sh.cmd = "pin_on")
    /\ sh' = Idle
    /\ UNCHANGED <<tables, event, pwr_state, fan_allow_on, crossed, soc, granted,
                   blk, notify, mixed, thread, duty, calls, host, floor>>

\* "sci get" takes an event from the host.
CmdSciGet ==
    /\ sh = Idle /\ sci # <<>>
    /\ lost' = (lost \/ Head(sci) = STA_CHG)
    /\ sci' = Tail(sci)
    /\ Counted("sci get")
    /\ UNCHANGED <<tables, event, pwr_state, power, granted, blk, sci_en, flushing,
                   sh, mixed, thread, duty, seen, told, floor>>

ShellStep == CmdFanTripHigh \/ CmdFanProfileLut \/ CmdFanConstraintPin

-----------------------------------------------------------------------------
(* The other threads.                                                      *)

\* The power service.  Leaving the state it boots in is not counted.
PowerChange(s) ==
    /\ "power" \in calls.mix /\ s # pwr_state
    /\ IF pwr_state = "G3" THEN UNCHANGED calls ELSE Counted("power")
    /\ pwr_state' = s
    /\ event' = TRUE
    /\ UNCHANGED <<tables, power, granted, blk, notify, sh, mixed, thread, duty,
                   host, floor>>

\* The SoC-CP's fan constraint message; values other than OFF and ON are refused.
SoccpFanConstraints(on) ==
    /\ soc = "idle"
    /\ WriteFlag(on, ShellSets \/ ServiceSets)
    /\ soc' = ToPin(on)
    /\ granted' = on
    /\ Counted("soccp")
    /\ UNCHANGED <<tables, event, pwr_state, fan_en, blk, notify, sh, mixed,
                   thread, duty, host, floor>>

SoccpFanConstraintsPin ==
    /\ SoccpSets
    /\ WritePin(soc = "pin_on")
    /\ soc' = "idle"
    /\ UNCHANGED <<tables, event, pwr_state, fan_allow_on, crossed, granted, blk,
                   notify, sh, mixed, thread, duty, calls, host, floor>>

\* The SCI thread finds no permission ...
SciRefused ==
    /\ ~Allowed /\ ~flushing
    /\ flushing' = TRUE
    /\ UNCHANGED <<tables, event, pwr_state, power, granted, blk, sci, sci_en, sh,
                   mixed, thread, duty, calls, host, floor>>

\* ... and drops what is there by the time it flushes.
SciFlush ==
    /\ flushing
    /\ flushing' = FALSE /\ sci' = <<>>
    /\ lost' = (lost \/ Announced)
    /\ UNCHANGED <<tables, event, pwr_state, power, granted, blk, sci_en, sh,
                   mixed, thread, duty, calls, seen, told, floor>>

\* The turn of the other fan, after this one's.
OtherFan ==
    /\ "other fan" \in calls.mix /\ pc = "enter"
    /\ Enque(ANY_SCI)
    /\ UNCHANGED <<tables, event, pwr_state, power, granted, blk, sci_en, flushing,
                   sh, mixed, thread, duty, calls, host, floor>>

-----------------------------------------------------------------------------
(* The fan thread.                                                         *)

\* k_event_wait with reset: what was posted during the last pass is dropped.
EnterWait ==
    /\ pc = "enter"
    /\ event' = FALSE
    /\ pc' = "wait"
    /\ UNCHANGED <<tables, pwr_state, power, granted, blk, notify, sh, mixed, s0,
                   read, n, from, i, temp, max, duty, calls, host, floor>>

\* Woken by an event or by rpm_update, one second later; the power state is read.
Wake ==
    /\ pc = "wait"
    /\ s0' = (pwr_state = "S0")
    /\ pc' = "tach"
    /\ floor' = [s \in Sources |-> Required(s)]
    /\ UNCHANGED <<tables, event, pwr_state, power, granted, blk, notify, sh,
                   mixed, read, n, from, i, temp, max, duty, calls, host>>

\* The tachometer's speed, any of Tach; or it fails and the last one stays.
ReadTach ==
    /\ pc = "tach"
    /\ read' \in {rpm} \cup (IF "tach" \in calls.mix THEN Tach ELSE {})
    /\ pc' = IF (rpm = 0) # (read' = 0) THEN "sta_chg" ELSE "rpm"
    /\ UNCHANGED <<tables, event, pwr_state, power, granted, blk, notify, sh,
                   mixed, s0, n, from, i, temp, max, duty, calls, host, floor>>

StateChange ==
    /\ pc = "sta_chg"
    /\ state' = IF read > 0 THEN "ON" ELSE "OFF"
    /\ pc' = "sta_sci"
    /\ UNCHANGED <<tables, event, pwr_state, power, granted, rpm, notify, sh,
                   mixed, s0, read, n, from, i, temp, max, duty, calls, host,
                   floor>>

\* Whether the event is accepted is not looked at.
StateSci ==
    /\ pc = "sta_sci"
    /\ Enque(STA_CHG)
    /\ lost' = (sci' = sci)
    /\ pc' = "rpm"
    /\ UNCHANGED <<tables, event, pwr_state, power, granted, blk, sci_en, flushing,
                   sh, mixed, s0, read, n, from, i, temp, max, duty, calls, seen,
                   told, floor>>

\* The speed is stored and compared with the trip points.
SetRpm ==
    /\ pc = "rpm"
    /\ rpm' = read /\ read' = 0
    /\ IF Outside(read) THEN Enque(CROSS) ELSE UNCHANGED sci
    /\ pc' = "debug"
    /\ UNCHANGED <<tables, event, pwr_state, power, granted, state, sci_en,
                   flushing, sh, mixed, s0, n, from, i, temp, max, duty, calls,
                   host, floor>>

\* What the host's debug mode asks for.
Debug == CASE dbg_mode = "off" -> <<"pwm", 0>>
           [] dbg_mode = "rpm" -> <<"rpm", DbgRpm>>
           [] OTHER            -> <<"pwm", DbgPwm * 256>>

CheckFanDebug ==
    /\ pc = "debug"
    /\ IF dbg_mode # "normal"
       THEN duty' = Debug /\ EndPass
       ELSE /\ pc' = "power"
            /\ UNCHANGED <<duty, s0, read, n, from, i, temp, max, floor>>
    /\ UNCHANGED <<tables, event, pwr_state, power, granted, blk, notify, sh,
                   mixed, calls, host>>

\* Fan power follows the power state; the flag decides, the pin is not looked at.
CheckPower ==
    /\ pc = "power"
    /\ IF s0 # fan_allow_on
       THEN pc' = "set" /\ UNCHANGED s0
       ELSE pc' = "src" /\ s0' = TRUE
    /\ UNCHANGED <<tables, event, pwr_state, power, granted, blk, notify, sh,
                   mixed, read, n, from, i, temp, max, duty, calls, host, floor>>

FanConstraintSet ==
    /\ pc = "set"
    /\ WriteFlag(s0, ShellSets \/ SoccpSets)
    /\ pc' = "pin"
    /\ UNCHANGED <<tables, event, pwr_state, fan_en, soc, granted, blk, notify, sh,
                   mixed, s0, read, n, from, i, temp, max, duty, calls, host,
                   floor>>

\* Taking fan power away ends the pass.
FanConstraintPin ==
    /\ pc = "pin"
    /\ WritePin(s0)
    /\ IF s0 THEN pc' = "src" /\ UNCHANGED <<s0, read, n, from, i, temp, max,
                                             floor>>
             ELSE EndPass
    /\ UNCHANGED <<tables, event, pwr_state, fan_allow_on, crossed, soc, granted,
                   blk, notify, sh, mixed, duty, calls, host>>

\* The next LUT, if it has rows, and its temperature.
ReadTemp ==
    /\ pc = "src" /\ n \in Sources
    /\ IF tbl_size(tab[n]) = 0
       THEN n' = n + 1 /\ UNCHANGED <<pc, from, i, temp>>
       ELSE /\ pc' = "row" /\ from' = tab[n] /\ i' = 1
            /\ temp' = Celsius(temps[n])
            /\ UNCHANGED n
    /\ UNCHANGED <<tables, event, pwr_state, power, granted, blk, notify, sh,
                   mixed, s0, read, max, duty, calls, host, floor>>

ReadRow ==
    /\ pc = "row" /\ i <= tbl_size(from)
    /\ max' = LET row == lut[from][n][i] IN
              IF Matches(row, temp) THEN Max({max, row.rpm}) ELSE max
    /\ i' = i + 1
    /\ UNCHANGED <<tables, event, pwr_state, power, granted, blk, notify, sh,
                   mixed, pc, s0, read, n, from, temp, duty, calls, host, floor>>

LutEnd ==
    /\ pc = "row" /\ i > tbl_size(from)
    /\ pc' = "src" /\ n' = n + 1
    /\ from' = 0 /\ i' = 1 /\ temp' = 0
    /\ UNCHANGED <<tables, event, pwr_state, power, granted, blk, notify, sh,
                   mixed, s0, read, max, duty, calls, host, floor>>

FanRpmSet ==
    /\ pc = "src" /\ n \notin Sources
    /\ duty' = <<"rpm", 100 * max>>
    /\ EndPass
    /\ UNCHANGED <<tables, event, pwr_state, power, granted, blk, notify, sh,
                   mixed, calls, host>>

Service ==
    \/ EnterWait \/ Wake \/ ReadTach \/ StateChange \/ StateSci
    \/ SetRpm \/ CheckFanDebug
    \/ CheckPower \/ FanConstraintSet \/ FanConstraintPin
    \/ ReadTemp \/ ReadRow \/ LutEnd \/ FanRpmSet

HostCommand ==
    \/ \E s \in Sources, t \in Temps : SocToEcTemp(s, t)
    \/ \E p \in Profiles : FanProfile(p)
    \/ \E t \in Trips : FanTripPoint(t)
    \/ \E m \in DebugModes \cup {"normal"} : FanDebugCtrl(m)
    \/ \E en \in BOOLEAN : AcpiSciEnableSet(en)
    \/ \E p \in Profiles \cap Profile, s \in LutSources, l \in Luts, k \in Rows :
          FanLut(p, s, l, k)

ShellCommand ==
    \/ \E v \in Sta : CmdFanState(v)
    \/ \E t \in Trips : CmdFanTrip(t)
    \/ \E p \in Profiles \cap Profile : CmdFanProfile(p)
    \/ \E on \in BOOLEAN : CmdFanConstraint(on)
    \/ CmdSciGet

Next ==
    \/ Service
    \/ TakeSci \/ FanStatus \/ SciRefused \/ SciFlush \/ OtherFan
    \/ \E s \in PwrStates : PowerChange(s)
    \/ HostCommand \/ ShellCommand \/ ShellStep
    \/ (\E on \in BOOLEAN : SoccpFanConstraints(on)) \/ SoccpFanConstraintsPin

Spec == Init /\ [][Next]_vars

\* The scheduler runs the threads, the fan thread's wait times out, and the host
\* reads the events it is sent.
FairSpec == /\ Spec /\ WF_vars(Service) /\ WF_vars(TakeSci)
            /\ WF_vars(ShellStep) /\ WF_vars(SoccpFanConstraintsPin)

-----------------------------------------------------------------------------
(* Properties.                                                             *)

\* A status the host has not seen is announced: when fan_blk->state differs
\* from what the host last read, SCI_FAN1_STA_CHG waits for it, or it has taken
\* that event and has yet to ask, or the fan thread is about to enqueue it; but
\* for an announcement that the full queue refused, that was dropped or flushed
\* without permission, that "sci get" took, and a change that the shell made.
StatusAnnounced ==
    seen # state => told \/ lost \/ pc = "sta_sci" \/ Announced

\* The fan is never set slower than a source has asked for during the whole
\* pass, whatever the host and the shell change meanwhile (check_fan_rpm takes
\* the maximum over the LUTs, one row and one temperature at a time).
HottestSourceServed ==
    pc = "src" /\ n \notin Sources => \A s \in Sources : max >= floor[s]

\* What the fan should be told to do as things stand.
Wanted ==
    IF dbg_mode # "normal" THEN Debug
    ELSE <<"rpm", 100 * Max({Demand(Loaded(profile), s) : s \in Sources})>>

\* Whatever was last set takes effect, even when its event is dropped by the
\* reset of k_event_wait or, for a LUT, was never posted: rpm_update.  Only when
\* the host selects a profile while the shell is loading another are the LUTs in
\* use not all those of the profile the host is told, and stay so.
SettingsTakeEffect == <>[](duty = Wanted \/ mixed)

\* A speed that stays outside the trip points is reported again and again while
\* notifications are allowed: the host that reads on takes SCI_FAN1_RPM_CROSS for
\* ever, also when the reports that come every second have filled the queue; and
\* whatever was dropped before.  Only the other fan could take every place.
CrossingRepeats ==
    <>[][~OtherFan]_vars =>
        \A r \in Tach \cup {0} :
            <>[](rpm = r /\ Outside(r) /\ Allowed)
                => []<><<TakeSci /\ Head(sci) = CROSS>>_vars

\* With the SoC-CP and the shell silent and no debug mode, the fan enable pin ends
\* up where the power state puts it.  The flag always does; but the pin may stay
\* apart from it, for good, once a fan_constraint_set was interrupted between its
\* two writes by another one: of the SoC-CP, the shell or the fan service.
Silent == <>[][fan_allow_on' = fan_allow_on \/ FanConstraintSet]_vars
FanPowerFollows ==
    Silent /\ <>[](dbg_mode = "normal") =>
        /\ <>[](pwr_state = "S0") => <>[](fan_allow_on /\ (fan_en \/ crossed))
        /\ <>[](pwr_state # "S0") => <>[](~fan_allow_on /\ (~fan_en \/ crossed))

\* While the SoC-CP's last word is OFF the fans stay OFF: interface/fan.h:115.
ConstraintHolds == fan_allow_on => granted
=============================================================================
