-------------------------------- MODULE Power --------------------------------
(***************************************************************************)
(* The power service (service/power/service.c) and what it makes the       *)
(* platform do (driver/power.c).  pwr_state_set leaves a request in        *)
(* next_pwr_state and posts PWR_STA_UPDATE; the service thread carries the *)
(* change out, assigns pwr_state and announces SYS_PWR_STA_CHG.            *)
(*                                                                         *)
(* k_event_wait is called with reset TRUE: it clears every bit before it   *)
(* looks, so a bit posted while the thread is not waiting is gone.         *)
(*                                                                         *)
(* The host's command 0x23 runs pwr_state_set on the ACPI thread, which    *)
(* nothing here preempts: one step.  The SoC-CP thread and the shell run   *)
(* it at the service's priority or lower: one step per shared access.      *)
(***************************************************************************)
EXTENDS PwrStates

CONSTANTS
    HostRequests,   \* bound: the states the host asks for, within S0 and MS
    Callers,        \* preemptible callers of pwr_state_set
    CallerRequests, \* bound: the states they ask for
    ShellDp         \* whether the shell's "pwr dp" is used

ASSUME PowerAssumption ==
    /\ HostRequests \subseteq {"S0", "MS"}
    /\ CallerRequests \subseteq PwrSta
    /\ ShellDp \in BOOLEAN

VARIABLES
    pwr_state, next_pwr_state,
    event,      \* bits of the service's k_event object
    spc, chgd,  \* service thread: program counter, the state it changes from
    dp_en,      \* deep sleep allowed (pm_policy_next_state)
    dp_work,    \* "pwr dp" has a timeout scheduled
    dp,         \* the shell's "pwr dp": its arguments and where it is
    cpc, req,   \* per caller: program counter and requested state
    wanted,     \* history: the last state requested of pwr_state_set ...
    overlap,    \* ... and whether it was requested before all else settled
    strayed     \* history: dp_en is not what a change between S0 and MS left

dpVars == <<dp_work, dp>>
pwrVars == <<pwr_state, next_pwr_state, event, spc, chgd, dp_en, dpVars,
             cpc, req, wanted, overlap, strayed>>

UPDATE == "PWR_STA_UPDATE"
PWR_CHG == "SYS_PWR_STA_CHG"

DpCommand ==
    [at : {"idle", "write", "test", "schedule"}, en : BOOLEAN, timeout : BOOLEAN]
NoDp == [at |-> "idle", en |-> FALSE, timeout |-> FALSE]

PowerTypeOK ==
    /\ pwr_state \in PwrSta /\ next_pwr_state \in PwrSta /\ wanted \in PwrSta
    /\ event \subseteq {UPDATE, PWR_CHG}
    /\ spc \in {"enter", "wait", "read", "chg", "assign", "submit"}
    /\ chgd \in PwrSta
    /\ dp_en \in BOOLEAN /\ dp_work \in BOOLEAN
    /\ cpc \in [Callers -> {"idle", "assign", "post"}]
    /\ req \in [Callers -> PwrSta]
    /\ dp \in DpCommand
    /\ overlap \in BOOLEAN /\ strayed \in BOOLEAN

PowerInit ==
    /\ pwr_state = BootPwrSta /\ next_pwr_state = BootPwrSta
    /\ wanted = BootPwrSta /\ overlap = FALSE /\ strayed = FALSE
    /\ event = {} /\ spc = "enter" /\ chgd = BootPwrSta
    /\ dp_en = FALSE /\ dp_work = FALSE /\ dp = NoDp
    /\ cpc = [c \in Callers |-> "idle"]
    /\ req = [c \in Callers |-> BootPwrSta]

-----------------------------------------------------------------------------
\* No request is being made or carried out.
PowerIdle == spc = "wait" /\ event = {} /\ \A c \in Callers : cpc[c] = "idle"

\* History: the request being made.
Note(s) == wanted' = s /\ overlap' = ~PowerIdle

-----------------------------------------------------------------------------
(* Mistakes in this code that the properties are there to catch: each is   *)
(* an action below with one slip.  The specification does not use them.    *)

\* pwr_state_set does not compare the request with the present state.
HostSet_Unchecked(s) ==
    /\ Note(s)
    /\ next_pwr_state' = s /\ event' = event \cup {UPDATE}
    /\ UNCHANGED <<pwr_state, spc, chgd, dp_en, dpVars, cpc, req, strayed>>

\* pwr_state_set compares the request with the last one instead.
HostSet_ChecksNext(s) ==
    /\ Note(s)
    /\ IF s = next_pwr_state
       THEN UNCHANGED <<next_pwr_state, event>>
       ELSE next_pwr_state' = s /\ event' = event \cup {UPDATE}
    /\ UNCHANGED <<pwr_state, spc, chgd, dp_en, dpVars, cpc, req, strayed>>

-----------------------------------------------------------------------------
(* pwr_state_set.                                                          *)

\* Host command 0x23.  A request for the state the platform is in is ignored,
\* whatever change is still to be carried out.
HostSet(s) ==
    /\ Note(s)
    /\ IF s = pwr_state
       THEN UNCHANGED <<next_pwr_state, event>>
       ELSE next_pwr_state' = s /\ event' = event \cup {UPDATE}
    /\ UNCHANGED <<pwr_state, spc, chgd, dp_en, dpVars, cpc, req, strayed>>

CallerCheck(c, s) ==
    /\ cpc[c] = "idle"
    /\ Note(s)
    /\ IF s = pwr_state
       THEN UNCHANGED <<cpc, req>>
       ELSE cpc' = [cpc EXCEPT ![c] = "assign"] /\ req' = [req EXCEPT ![c] = s]
    /\ UNCHANGED <<pwr_state, next_pwr_state, event, spc, chgd, dp_en, dpVars, strayed>>

\* A late caller may assign the state the platform has got to by now.
CallerAssign(c) ==
    /\ cpc[c] = "assign"
    /\ next_pwr_state' = req[c]
    /\ strayed' = (strayed \/ req[c] = pwr_state)
    /\ cpc' = [cpc EXCEPT ![c] = "post"]
    /\ UNCHANGED <<pwr_state, event, spc, chgd, dp_en, dpVars, req, wanted,
                   overlap>>

CallerPost(c) ==
    /\ cpc[c] = "post"
    /\ event' = event \cup {UPDATE}
    /\ cpc' = [cpc EXCEPT ![c] = "idle"]
    /\ UNCHANGED <<pwr_state, next_pwr_state, spc, chgd, dp_en, dpVars, req,
                   wanted, overlap, strayed>>

-----------------------------------------------------------------------------
(* The service thread.                                                     *)

\* k_event_wait(..., reset = true): clear everything, then wait.
EnterWait ==
    /\ spc = "enter"
    /\ event' = {}
    /\ spc' = "wait"
    /\ UNCHANGED <<pwr_state, next_pwr_state, chgd, dp_en, dpVars, cpc, req,
                   wanted, overlap, strayed>>

\* The service's own announcement is cleared before it waits again, so in fact
\* only a request wakes it.
Wake ==
    /\ spc = "wait" /\ event # {}
    /\ spc' = IF UPDATE \in event THEN "read" ELSE "enter"
    /\ UNCHANGED <<pwr_state, next_pwr_state, event, chgd, dp_en, dpVars, cpc,
                   req, wanted, overlap, strayed>>

Standby == {"S0", "MS"}

\* What pwr_state_chg makes of the deep sleep permission: only the two direct
\* transitions between S0 and MS touch it.
DpAfter(cur, next) ==
    CASE cur = "S0" /\ next = "MS" -> TRUE
      [] cur = "MS" /\ next = "S0" -> FALSE
      [] OTHER -> dp_en

\* next_pwr_state is read here, as the argument of pwr_state_chg ...
ReadNext ==
    /\ spc = "read"
    /\ chgd' = next_pwr_state
    /\ spc' = "chg"
    /\ UNCHANGED <<pwr_state, next_pwr_state, event, dp_en, dpVars, cpc, req,
                   wanted, overlap, strayed>>

PwrStateChg ==
    /\ spc = "chg"
    /\ dp_en' = DpAfter(pwr_state, chgd)
    /\ strayed' = (\/ {pwr_state, chgd} # Standby
                   \/ strayed /\ next_pwr_state # chgd)
    /\ spc' = "assign"
    /\ UNCHANGED <<pwr_state, next_pwr_state, event, chgd, dpVars, cpc, req,
                   wanted, overlap>>

\* ... and read again here.
AssignState ==
    /\ spc = "assign"
    /\ pwr_state' = next_pwr_state
    /\ strayed' = (strayed \/ next_pwr_state \notin Standby)
    /\ spc' = "submit"
    /\ UNCHANGED <<next_pwr_state, event, chgd, dp_en, dpVars, cpc, req,
                   wanted, overlap>>

\* SYS_EVENT_SUBMIT posts to every subscriber, this service included.
Submit ==
    /\ spc = "submit"
    /\ event' = event \cup {PWR_CHG}
    /\ spc' = "enter"
    /\ UNCHANGED <<pwr_state, next_pwr_state, chgd, dp_en, dpVars, cpc, req,
                   wanted, overlap, strayed>>

-----------------------------------------------------------------------------
(* The shell's "pwr dp <0|1> [timeout]", which every thread preempts.      *)

\* A timeout that is pending is cancelled ...
CmdPwrDp(en, timeout) ==
    /\ ShellDp /\ dp = NoDp
    /\ dp_work' = FALSE
    /\ dp' = [at |-> "write", en |-> en, timeout |-> timeout]
    /\ UNCHANGED <<pwr_state, next_pwr_state, event, spc, chgd, dp_en, cpc, req,
                   wanted, overlap, strayed>>

\* ... the permission is written ...
CmdPwrDpWrite ==
    /\ dp.at = "write"
    /\ dp_en' = dp.en /\ strayed' = TRUE
    /\ dp' = [dp EXCEPT !.at = "test"]
    /\ UNCHANGED <<pwr_state, next_pwr_state, event, spc, chgd, dp_work, cpc, req,
                   wanted, overlap>>

\* ... and read again, to tell whether there is something to take back.
CmdPwrDpTest ==
    /\ dp.at = "test"
    /\ dp' = IF dp_en /\ dp.timeout THEN [dp EXCEPT !.at = "schedule"] ELSE NoDp
    /\ UNCHANGED <<pwr_state, next_pwr_state, event, spc, chgd, dp_en, dp_work, cpc,
                   req, wanted, overlap, strayed>>

CmdPwrDpSchedule ==
    /\ dp.at = "schedule"
    /\ dp_work' = TRUE /\ dp' = NoDp
    /\ UNCHANGED <<pwr_state, next_pwr_state, event, spc, chgd, dp_en, cpc, req,
                   wanted, overlap, strayed>>

DpTimeout ==
    /\ dp_work
    /\ dp_work' = FALSE
    /\ dp_en' = FALSE
    /\ UNCHANGED <<pwr_state, next_pwr_state, event, spc, chgd, dp, cpc, req,
                   wanted, overlap, strayed>>

ShellDpStep == CmdPwrDpWrite \/ CmdPwrDpTest \/ CmdPwrDpSchedule

-----------------------------------------------------------------------------
PowerService == EnterWait \/ Wake \/ ReadNext \/ PwrStateChg \/ AssignState \/ Submit

\* Everything but the announcement, which modules with subscribers extend.
PowerQuiet ==
    \/ EnterWait \/ Wake \/ ReadNext \/ PwrStateChg \/ AssignState
    \/ \E s \in HostRequests : HostSet(s)
    \/ \E c \in Callers :
          \/ \E s \in CallerRequests : CallerCheck(c, s)
          \/ CallerAssign(c) \/ CallerPost(c)
    \/ \E en, timeout \in BOOLEAN : CmdPwrDp(en, timeout)
    \/ ShellDpStep \/ DpTimeout

PowerNext == PowerQuiet \/ Submit

PowerSpec == PowerInit /\ [][PowerNext]_pwrVars

-----------------------------------------------------------------------------
(* Properties.                                                             *)

\* A request made when nothing else is going on is carried out, whatever the
\* bits that k_event_wait resets: the requests that get lost are those that
\* overlap another one.
SpacedHonoured == PowerIdle /\ ~overlap => pwr_state = wanted

\* Deep sleep stays allowed only in Modern Standby, although the service reads
\* next_pwr_state twice and any caller can change it in between: but for what the
\* shell allowed, a third state (no change to or from one takes the permission
\* back), and a caller so late that it asks for the state there already is.
SleepOnlyInStandby == PowerIdle /\ dp_en /\ ~strayed => pwr_state = "MS"
=============================================================================
