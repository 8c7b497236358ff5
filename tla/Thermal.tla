------------------------------- MODULE Thermal -------------------------------
(***************************************************************************)
(* The thermal service (service/thermal/service.c) on top of the power     *)
(* service: it samples the thermistors in S0 at a rate the host and the    *)
(* shell may change, and waits without a timeout elsewhere; the host and   *)
(* the shell write the thresholds of a thermistor.                         *)
(*                                                                         *)
(* k_event_wait is called with reset TRUE, as in module Power.  The host's *)
(* commands run on the ACPI thread, which nothing here preempts: one step  *)
(* each.  The shell's "therm set" is one step per field.                   *)
(*                                                                         *)
(* A threshold is known by who wrote it: of its value nothing depends but  *)
(* what is logged and reported back.                                       *)
(***************************************************************************)
EXTENDS Power, Integers, FiniteSets, Sequences

CONSTANTS
    Devices,    \* thermistors
    Working,    \* those whose ADC can be read (therm_sample_get)
    HostRates,  \* sampling intervals the host asks for, in milliseconds
    ShellRates, \* ... and those "therm sample" does
    Guarded     \* bound: thermistors whose thresholds are written

ASSUME ThermalAssumption ==
    /\ IsFiniteSet(Devices) /\ Devices \subseteq 1..3
    /\ Working \subseteq Devices /\ Guarded \subseteq Devices
    /\ HostRates \subseteq Nat /\ ShellRates \subseteq Nat

VARIABLES
    sys,        \* the service's SYS_PWR_STA_CHG bit
    tpc, dev,   \* thermal thread: program counter, thermistor of the loop
    adc_wait,   \* its next timeout: milliseconds or K_FOREVER
    sample_ms,  \* therm_ctrl.sample_ms
    thr,        \* per thermistor and field: who wrote the threshold
    set,        \* the shell's "therm set": thermistor and fields still to write
    missed,     \* history: the last announcement found the thread not waiting
    torn        \* history: thermistors the host has set inside a "therm set"

thermVars == <<tpc, dev, adc_wait>>
setVars == <<sample_ms, thr, set, torn>>
vars == <<pwrVars, sys, thermVars, setVars, missed>>

Fields == <<"psv", "cr3", "hot", "crt">>
FOREVER == -1      \* K_FOREVER, as a number of milliseconds
MinRate == 100
BootRate == 1000
Clamped(ms) == IF ms < MinRate THEN MinRate ELSE ms
Rates == {BootRate} \cup {Clamped(ms) : ms \in HostRates} \cup ShellRates

\* The loop over the thermistors, in the order of their numbers.
IsFirst(d) == \A e \in Devices : d <= e
IsLast(d) == \A e \in Devices : e <= d
IsNext(d, e) == d < e /\ \A f \in Devices : ~(d < f /\ f < e)

TypeOK ==
    /\ PowerTypeOK
    /\ sys \in BOOLEAN
    /\ tpc \in {"enter", "wait", "read", "sample", "end"}
    /\ dev \in Devices \cup {0}
    /\ adc_wait \in Rates \cup {FOREVER} /\ sample_ms \in Rates
    /\ thr \in [Devices -> [1..4 -> {"boot", "host", "shell"}]]
    /\ set \in [dev : Devices \cup {0}, at : 1..4]
    /\ missed \in BOOLEAN /\ torn \subseteq Devices

Idle == [dev |-> 0, at |-> 1]

Init ==
    /\ PowerInit
    /\ sys = FALSE
    /\ tpc = "enter" /\ dev = 0
    /\ adc_wait = BootRate /\ sample_ms = BootRate
    /\ thr = [d \in Devices |-> [f \in 1..4 |-> "boot"]]
    /\ set = Idle /\ torn = {}
    /\ missed = FALSE

-----------------------------------------------------------------------------
(* Mistakes in this code that the properties are there to catch: each is   *)
(* an action below with one slip.  The specification does not use them.    *)

\* The announcement skips this service.
Announce_Skips ==
    /\ Submit
    /\ missed' = (tpc # "wait")
    /\ UNCHANGED <<sys, thermVars, setVars>>

\* A thermistor that cannot be read ends the pass.
ThermSample_Breaks ==
    /\ tpc = "sample"
    /\ IF IsLast(dev) \/ dev \notin Working
       THEN tpc' = "end" /\ dev' = 0
       ELSE (\E d \in Devices : IsNext(dev, d) /\ dev' = d) /\ UNCHANGED tpc
    /\ UNCHANGED <<pwrVars, sys, adc_wait, setVars, missed>>

\* The rate's lower bound is left to the caller.
SamplingRate_Unclamped(ms) ==
    /\ sample_ms' = ms
    /\ UNCHANGED <<pwrVars, sys, thermVars, thr, set, torn, missed>>

\* The byte count hides the last threshold from the handler.
TempThre_Short(d) ==
    /\ thr' = [thr EXCEPT ![d] = [f \in 1..4 |-> IF f < 4 THEN "host" ELSE @[f]]]
    /\ torn' = IF set.dev = d THEN torn \cup {d} ELSE torn \ {d}
    /\ UNCHANGED <<pwrVars, sys, thermVars, sample_ms, set, missed>>

-----------------------------------------------------------------------------
\* SYS_EVENT_SUBMIT, as far as this subscriber goes.
Announce ==
    /\ Submit
    /\ sys' = TRUE
    /\ missed' = (tpc # "wait")
    /\ UNCHANGED <<thermVars, setVars>>

PowerStep ==
    /\ PowerQuiet
    /\ UNCHANGED <<sys, thermVars, setVars, missed>>

-----------------------------------------------------------------------------
(* The service's loop.                                                     *)

ThermEnter ==
    /\ tpc = "enter"
    /\ sys' = FALSE
    /\ tpc' = "wait"
    /\ UNCHANGED <<pwrVars, dev, adc_wait, setVars, missed>>

ThermWake ==
    /\ tpc = "wait"
    /\ sys \/ adc_wait # FOREVER
    /\ tpc' = "read"
    /\ UNCHANGED <<pwrVars, sys, dev, adc_wait, setVars, missed>>

ThermReadPwr ==
    /\ tpc = "read"
    /\ IF pwr_state = "S0"
       THEN /\ tpc' = "sample" /\ \E d \in Devices : IsFirst(d) /\ dev' = d
            /\ UNCHANGED adc_wait
       ELSE /\ tpc' = "enter" /\ adc_wait' = FOREVER
            /\ UNCHANGED dev
    /\ UNCHANGED <<pwrVars, sys, setVars, missed>>

\* therm_sample_get stores the temperature of a thermistor that can be read; of
\* one that cannot the last temperature stays, and the loop goes on.
ThermSample ==
    /\ tpc = "sample"
    /\ IF IsLast(dev)
       THEN tpc' = "end" /\ dev' = 0
       ELSE (\E d \in Devices : IsNext(dev, d) /\ dev' = d) /\ UNCHANGED tpc
    /\ UNCHANGED <<pwrVars, sys, adc_wait, setVars, missed>>

\* The rate of the next wait is what it is now.
ThermEnd ==
    /\ tpc = "end"
    /\ adc_wait' = sample_ms
    /\ tpc' = "enter"
    /\ UNCHANGED <<pwrVars, sys, dev, setVars, missed>>

ThermService == ThermEnter \/ ThermWake \/ ThermReadPwr \/ ThermSample \/ ThermEnd

-----------------------------------------------------------------------------
(* The host's commands and the shell's.  The numbers of no thermistor are  *)
(* refused (therm_blk_get), and the service is not told of any of them.    *)

\* Command 0x32 with data: all four thresholds of a thermistor.
TempThre(d) ==
    /\ thr' = [thr EXCEPT ![d] = [f \in 1..4 |-> "host"]]
    /\ torn' = IF set.dev = d THEN torn \cup {d} ELSE torn \ {d}
    /\ UNCHANGED <<pwrVars, sys, thermVars, sample_ms, set, missed>>

\* Command 0x34 with data.
SamplingRate(ms) ==
    /\ sample_ms' = Clamped(ms)
    /\ UNCHANGED <<pwrVars, sys, thermVars, thr, set, torn, missed>>

\* "therm sample" takes any number.
CmdThermSample(ms) ==
    /\ set = Idle
    /\ sample_ms' = ms
    /\ UNCHANGED <<pwrVars, sys, thermVars, thr, set, torn, missed>>

CmdThermSet(d) ==
    /\ set = Idle
    /\ set' = [dev |-> d, at |-> 1]
    /\ torn' = torn \ {d}
    /\ UNCHANGED <<pwrVars, sys, thermVars, sample_ms, thr, missed>>

CmdThermSetField ==
    /\ set.dev # 0
    /\ thr' = [thr EXCEPT ![set.dev][set.at] = "shell"]
    /\ set' = IF set.at = Len(Fields) THEN Idle ELSE [set EXCEPT !.at = @ + 1]
    /\ UNCHANGED <<pwrVars, sys, thermVars, sample_ms, torn, missed>>

-----------------------------------------------------------------------------
Next ==
    \/ Announce \/ PowerStep
    \/ ThermService
    \/ \E d \in Guarded : TempThre(d) \/ CmdThermSet(d)
    \/ CmdThermSetField
    \/ \E ms \in HostRates : SamplingRate(ms)
    \/ \E ms \in ShellRates : CmdThermSample(ms)

\* The thread runs when it is ready, and timeouts expire.
Spec == Init /\ [][Next]_vars /\ WF_vars(ThermService)

-----------------------------------------------------------------------------
(* Properties.                                                             *)

\* The thread waits without a timeout and nothing is about to wake it.
Asleep ==
    /\ tpc \in {"enter", "wait"} /\ adc_wait = FOREVER
    /\ tpc = "enter" \/ ~sys

\* The service sleeps in S0 only when the announcement came between its read of
\* the power state and its next wait, whose reset drops it: no other order of
\* changes, timeouts and new rates stops the monitoring.
ResumeLostOnlyInWindow == Asleep /\ pwr_state = "S0" /\ spc # "submit" => missed

\* Sampling stops when the platform stays out of S0.  When it stays in S0, every
\* thermistor that can be read is sampled again and again, whichever others
\* cannot, and a rate that is left alone becomes the one of the waits, although
\* the thread is not told of it; unless the resume was lost.
SamplingFollowsPower ==
    /\ <>[](pwr_state # "S0") => <>[](tpc \notin {"sample", "end"})
    /\ <>[](pwr_state = "S0") =>
          \/ <>[]Asleep
          \/ /\ \A d \in Working : []<><<ThermSample /\ dev = d>>_vars
             /\ \A r \in Rates : <>[](sample_ms = r) => <>[](adc_wait = r)

\* The four thresholds of a thermistor come from one writer, unless the shell is
\* writing them or the host's last set fell inside the shell's: then the mixture
\* stays, and both have been told that theirs is in force.
ThresholdsOfOneWriter ==
    \A d \in Devices :
        set.dev # d /\ d \notin torn => \A f \in 1..4 : thr[d][f] = thr[d][1]
=============================================================================
