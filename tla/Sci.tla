--------------------------------- MODULE Sci ---------------------------------
(***************************************************************************)
(* The SCI service: service/sci/service.c.  Threads call sci_enque to queue*)
(* an event for the host; one SCI thread takes events from the queue, puts *)
(* one at a time in the mailbox sci_buf, asserts the ACPI interrupt line   *)
(* and starts a timer; the host reads the mailbox back with command 0x05.  *)
(*                                                                         *)
(* Granularity.  The SCI thread and the callers in Threads run at the same *)
(* low priority (or lower) and can be preempted between any two accesses   *)
(* to shared state, so each access is a step of its own.  The ACPI thread  *)
(* (APP_PRIO_H) runs its handlers to completion with respect to all of     *)
(* these, so what it does is one step.  k_msgq, k_event and k_timer calls  *)
(* are atomic, and the timer handler is an interrupt.                      *)
(*                                                                         *)
(* An event is identified by the order in which it entered the queue: 1 is *)
(* the first accepted event.  SCI codes themselves are not distinguished.  *)
(***************************************************************************)
EXTENDS Integers, Sequences, FiniteSets, PwrStates

CONSTANTS
    Threads,       \* preemptible threads that call sci_enque
    ShellThreads,  \* those that also run the shell's "sci get" and "sci en"
    QueueLen,      \* CONFIG_ACPI_SCI_QUEUE_LEN
    MaxSci,        \* bound: events accepted in one behaviour
    PwrUsed        \* bound: the power states a behaviour visits

ASSUME SciAssumption ==
    /\ ShellThreads \subseteq Threads
    /\ QueueLen \in Nat \ {0}
    /\ MaxSci \in Nat
    /\ PwrUsed \subseteq PwrSta

VARIABLES
    sci_buf,    \* the mailbox: the event the host would read, or SCI_NONE
    sci_queue,  \* the message queue
    sci_en,     \* notification enabled by the host (command 0x35 bit 0)
    acpi_int,   \* level of the interrupt line to the host
    sci_tmr,    \* the event whose read timeout runs, SCI_NONE when stopped
    event,      \* bits set in the service's k_event object
    spc, evt, sci, \* SCI thread: program counter, waited bits, local event
    pc, got,    \* per caller: program counter, value "sci get" has read
    pwr_state,  \* the power service's state ...
    pwr_pc,     \* ... and whether it still has to announce the last change
    \* History.
    accepted,   \* number of events accepted into the queue
    delivered,  \* the events handed to a reader, in order
    flushed     \* the events dropped by sci_flush

dev    == <<sci_buf, sci_queue, sci_en, acpi_int, sci_tmr>>
thread == <<spc, evt, sci>>
caller == <<pc, got>>
pwr    == <<pwr_state, pwr_pc>>
hist   == <<accepted, delivered, flushed>>
vars   == <<dev, event, thread, caller, pwr, hist>>

SCI_NONE == 0
NOTIFY  == "SCI_NOTIFY"
TIMEOUT == "SCI_TIMEOUT"
PWR_CHG == "SYS_PWR_STA_CHG"
Bits == {NOTIFY, TIMEOUT, PWR_CHG}

SciPc == {"wait", "clr_timeout", "timeout_chk", "timeout_int", "clr_notify",
          "chk_en", "chk_pwr", "flush_tmr", "flush_purge", "flush_buf",
          "flush_int", "pend_chk", "get", "set_buf", "set_int", "start_tmr"}
EnqPc == {"enq_pwr", "enq_put"}
PostPc == {"enq_post", "get_int", "get_post", "en_post"}
CallerPc == {"idle", "get_read", "get_clear"} \cup EnqPc \cup PostPc

sci_pwr_allow(s) == s \in {"S0", "MS"}
Allowed == sci_en /\ sci_pwr_allow(pwr_state)

TypeOK ==
    /\ sci_buf \in Nat /\ sci \in Nat /\ sci_tmr \in Nat
    /\ sci_queue \in Seq(Nat)
    /\ sci_en \in BOOLEAN
    /\ acpi_int \in {0, 1}
    /\ event \subseteq Bits /\ evt \subseteq Bits
    /\ spc \in SciPc
    /\ pc \in [Threads -> CallerPc]
    /\ got \in [Threads -> Nat]
    /\ pwr_state \in PwrSta
    /\ pwr_pc \in {"idle", "submit"}
    /\ accepted \in Nat
    /\ delivered \in Seq(Nat)
    /\ flushed \subseteq Nat

Init ==
    /\ sci_buf = SCI_NONE /\ sci_queue = <<>> /\ sci_en = TRUE
    /\ acpi_int = 0 /\ sci_tmr = SCI_NONE
    /\ event = {}
    /\ spc = "wait" /\ evt = {} /\ sci = SCI_NONE
    /\ pc = [t \in Threads |-> "idle"] /\ got = [t \in Threads |-> SCI_NONE]
    /\ pwr_state = BootPwrSta /\ pwr_pc = "idle"
    /\ accepted = 0 /\ delivered = <<>> /\ flushed = {}

Goto(t, l) == pc' = [pc EXCEPT ![t] = l]

-----------------------------------------------------------------------------
(* Mistakes in this code that the properties are there to catch: each is   *)
(* an action below with one slip.  The specification does not use them.    *)

\* The timer posts a bit that the service does not wait for.
sci_tmr_hdl_OwnBit ==
    /\ sci_tmr # SCI_NONE
    /\ sci_tmr' = SCI_NONE
    /\ event' = event \cup {"TMR_EXPIRED"}
    /\ UNCHANGED <<sci_buf, sci_queue, sci_en, acpi_int, thread, caller, pwr,
                   hist>>

\* sci_notify_hdl does not look whether an event is still to be read.
PendChk_Skipped ==
    /\ spc = "pend_chk" /\ spc' = "get"
    /\ UNCHANGED <<dev, event, evt, sci, caller, pwr, hist>>

\* The service clears every bit, not only the one it is about to handle.
ClrTimeout_All ==
    /\ spc = "clr_timeout"
    /\ event' = {}
    /\ spc' = "timeout_chk"
    /\ UNCHANGED <<dev, evt, sci, caller, pwr, hist>>

\* k_msgq_peek instead of k_msgq_get.
QueueGet_Peeks ==
    /\ spc = "get"
    /\ IF sci_queue = <<>>
       THEN spc' = "wait" /\ UNCHANGED sci
       ELSE sci' = Head(sci_queue) /\ spc' = "set_buf"
    /\ UNCHANGED <<dev, event, evt, caller, pwr, hist>>

\* acpi_sci_get does not wake the service for the next event.
AcpiSciGet_NoPost ==
    /\ sci_tmr' = SCI_NONE
    /\ sci_buf' = SCI_NONE
    /\ delivered' = IF sci_buf = SCI_NONE THEN delivered
                                          ELSE Append(delivered, sci_buf)
    /\ acpi_int' = 0
    /\ UNCHANGED <<sci_queue, sci_en, event, thread, caller, pwr, accepted,
                   flushed>>

GetDeassert_NoPost(t) ==
    /\ pc[t] = "get_int"
    /\ acpi_int' = 0
    /\ Goto(t, "idle")
    /\ UNCHANGED <<sci_buf, sci_queue, sci_en, sci_tmr, event, thread, got,
                   pwr, hist>>

\* acpi_sci_enable_set does not wake the service to flush.
AcpiEnableSet_NoPost(en) ==
    /\ sci_en' = en
    /\ UNCHANGED <<sci_buf, sci_queue, acpi_int, sci_tmr, event, thread, caller,
                   pwr, hist>>

-----------------------------------------------------------------------------
(* sci_enque, called by a preemptible thread.                              *)

\* The bound MaxSci counts the calls that may still put their event.
MayEnque == accepted + Cardinality({t \in Threads : pc[t] \in EnqPc}) < MaxSci

\* A disabled or powered-down channel refuses the event without a trace, so
\* only calls that pass the first check are steps.
EnqueChkEn(t) ==
    /\ pc[t] = "idle" /\ MayEnque
    /\ sci_en
    /\ Goto(t, "enq_pwr")
    /\ UNCHANGED <<dev, event, thread, got, pwr, hist>>

EnqueChkPwr(t) ==
    /\ pc[t] = "enq_pwr"
    /\ Goto(t, IF sci_pwr_allow(pwr_state) THEN "enq_put" ELSE "idle")
    /\ UNCHANGED <<dev, event, thread, got, pwr, hist>>

\* k_msgq_put(K_NO_WAIT): a full queue makes sci_enque return -ENOMSG.
EnquePut(t) ==
    /\ pc[t] = "enq_put"
    /\ IF Len(sci_queue) < QueueLen
       THEN /\ sci_queue' = Append(sci_queue, accepted + 1)
            /\ accepted' = accepted + 1
            /\ Goto(t, "enq_post")
       ELSE /\ Goto(t, "idle")
            /\ UNCHANGED <<sci_queue, accepted>>
    /\ UNCHANGED <<sci_buf, sci_en, acpi_int, sci_tmr, event, thread, got, pwr,
                   delivered, flushed>>

\* The k_event_post that ends sci_enque, acpi_sci_get or acpi_sci_enable_set.
PostNotify(t) ==
    /\ pc[t] \in {"enq_post", "get_post", "en_post"}
    /\ event' = event \cup {NOTIFY}
    /\ Goto(t, "idle")
    /\ UNCHANGED <<dev, thread, got, pwr, hist>>

-----------------------------------------------------------------------------
(* The shell's "sci get" and "sci en": the same functions the ACPI thread  *)
(* runs, at the lowest priority, so every access is a step.                *)

GetStopTmr(t) ==
    /\ t \in ShellThreads /\ pc[t] = "idle"
    /\ sci_tmr' = SCI_NONE
    /\ Goto(t, "get_read")
    /\ UNCHANGED <<sci_buf, sci_queue, sci_en, acpi_int, event, thread, got,
                   pwr, hist>>

GetRead(t) ==
    /\ pc[t] = "get_read"
    /\ got' = [got EXCEPT ![t] = sci_buf]
    /\ Goto(t, "get_clear")
    /\ UNCHANGED <<dev, event, thread, pwr, hist>>

GetClear(t) ==
    /\ pc[t] = "get_clear"
    /\ sci_buf' = SCI_NONE
    /\ delivered' = IF got[t] = SCI_NONE THEN delivered
                                         ELSE Append(delivered, got[t])
    /\ Goto(t, "get_int")
    /\ UNCHANGED <<sci_queue, sci_en, acpi_int, sci_tmr, event, thread, got,
                   pwr, accepted, flushed>>

GetDeassert(t) ==
    /\ pc[t] = "get_int"
    /\ acpi_int' = 0
    /\ Goto(t, "get_post")
    /\ UNCHANGED <<sci_buf, sci_queue, sci_en, sci_tmr, event, thread, got,
                   pwr, hist>>

ShellEnable(t, en) ==
    /\ t \in ShellThreads /\ pc[t] = "idle"
    /\ sci_en' = en
    /\ Goto(t, "en_post")
    /\ UNCHANGED <<sci_buf, sci_queue, acpi_int, sci_tmr, event, thread, got,
                   pwr, hist>>

-----------------------------------------------------------------------------
(* The ACPI thread: each handler is one step.                              *)

\* Host command 0x05: acpi_sci_get.
AcpiSciGet ==
    /\ sci_tmr' = SCI_NONE
    /\ sci_buf' = SCI_NONE
    /\ delivered' = IF sci_buf = SCI_NONE THEN delivered
                                          ELSE Append(delivered, sci_buf)
    /\ acpi_int' = 0
    /\ event' = event \cup {NOTIFY}
    /\ UNCHANGED <<sci_queue, sci_en, thread, caller, pwr, accepted, flushed>>

\* Host command 0x35, bit 0: acpi_sci_enable_set.
AcpiEnableSet(en) ==
    /\ sci_en' = en
    /\ event' = event \cup {NOTIFY}
    /\ UNCHANGED <<sci_buf, sci_queue, acpi_int, sci_tmr, thread, caller, pwr,
                   hist>>

\* sci_enque called from a host command handler (profile switch, LUT set).
AcpiEnque ==
    /\ MayEnque
    /\ Allowed
    /\ Len(sci_queue) < QueueLen
    /\ sci_queue' = Append(sci_queue, accepted + 1)
    /\ accepted' = accepted + 1
    /\ event' = event \cup {NOTIFY}
    /\ UNCHANGED <<sci_buf, sci_en, acpi_int, sci_tmr, thread, caller, pwr,
                   delivered, flushed>>

-----------------------------------------------------------------------------
(* The timer interrupt and the power service as this service sees it.      *)

sci_tmr_hdl ==
    /\ sci_tmr # SCI_NONE
    /\ sci_tmr' = SCI_NONE
    /\ event' = event \cup {TIMEOUT}
    /\ UNCHANGED <<sci_buf, sci_queue, sci_en, acpi_int, thread, caller, pwr,
                   hist>>

PwrAssign(s) ==
    /\ pwr_pc = "idle"
    /\ s # pwr_state
    /\ pwr_state' = s
    /\ pwr_pc' = "submit"
    /\ UNCHANGED <<dev, event, thread, caller, hist>>

PwrSubmit ==
    /\ pwr_pc = "submit"
    /\ pwr_pc' = "idle"
    /\ event' = event \cup {PWR_CHG}
    /\ UNCHANGED <<dev, thread, caller, pwr_state, hist>>

-----------------------------------------------------------------------------
(* The SCI thread: service, sci_timeout_hdl, sci_notify_hdl and sci_flush. *)

AfterTimeout == IF evt \cap {NOTIFY, PWR_CHG} # {} THEN "clr_notify" ELSE "wait"

Wait ==
    /\ spc = "wait" /\ event # {}
    /\ evt' = event
    /\ spc' = IF TIMEOUT \in event THEN "clr_timeout" ELSE "clr_notify"
    /\ UNCHANGED <<dev, event, sci, caller, pwr, hist>>

ClrTimeout ==
    /\ spc = "clr_timeout"
    /\ event' = event \ {TIMEOUT}
    /\ spc' = "timeout_chk"
    /\ UNCHANGED <<dev, evt, sci, caller, pwr, hist>>

TimeoutChk ==
    /\ spc = "timeout_chk"
    /\ spc' = IF sci_buf = SCI_NONE THEN AfterTimeout ELSE "timeout_int"
    /\ UNCHANGED <<dev, event, evt, sci, caller, pwr, hist>>

TimeoutDeassert ==
    /\ spc = "timeout_int"
    /\ acpi_int' = 0
    /\ spc' = AfterTimeout
    /\ UNCHANGED <<sci_buf, sci_queue, sci_en, sci_tmr, event, evt, sci, caller,
                   pwr, hist>>

ClrNotify ==
    /\ spc = "clr_notify"
    /\ event' = event \ {NOTIFY, PWR_CHG}
    /\ spc' = "chk_en"
    /\ UNCHANGED <<dev, evt, sci, caller, pwr, hist>>

ChkEn ==
    /\ spc = "chk_en"
    /\ spc' = IF sci_en THEN "chk_pwr" ELSE "flush_tmr"
    /\ UNCHANGED <<dev, event, evt, sci, caller, pwr, hist>>

ChkPwr ==
    /\ spc = "chk_pwr"
    /\ spc' = IF sci_pwr_allow(pwr_state) THEN "pend_chk" ELSE "flush_tmr"
    /\ UNCHANGED <<dev, event, evt, sci, caller, pwr, hist>>

FlushStopTmr ==
    /\ spc = "flush_tmr"
    /\ sci_tmr' = SCI_NONE
    /\ spc' = "flush_purge"
    /\ UNCHANGED <<sci_buf, sci_queue, sci_en, acpi_int, event, evt, sci,
                   caller, pwr, hist>>

Queued == {sci_queue[i] : i \in 1..Len(sci_queue)}

FlushPurge ==
    /\ spc = "flush_purge"
    /\ sci_queue' = <<>>
    /\ flushed' = flushed \cup Queued
    /\ spc' = "flush_buf"
    /\ UNCHANGED <<sci_buf, sci_en, acpi_int, sci_tmr, event, evt, sci, caller,
                   pwr, accepted, delivered>>

FlushBuf ==
    /\ spc = "flush_buf"
    /\ sci_buf' = SCI_NONE
    /\ flushed' = IF sci_buf = SCI_NONE THEN flushed ELSE flushed \cup {sci_buf}
    /\ spc' = "flush_int"
    /\ UNCHANGED <<sci_queue, sci_en, acpi_int, sci_tmr, event, evt, sci,
                   caller, pwr, accepted, delivered>>

FlushDeassert ==
    /\ spc = "flush_int"
    /\ acpi_int' = 0
    /\ spc' = "wait"
    /\ UNCHANGED <<sci_buf, sci_queue, sci_en, sci_tmr, event, evt, sci, caller,
                   pwr, hist>>

PendChk ==
    /\ spc = "pend_chk"
    /\ spc' = IF sci_buf # SCI_NONE THEN "wait" ELSE "get"
    /\ UNCHANGED <<dev, event, evt, sci, caller, pwr, hist>>

QueueGet ==
    /\ spc = "get"
    /\ IF sci_queue = <<>>
       THEN /\ spc' = "wait"
            /\ UNCHANGED <<sci_queue, sci>>
       ELSE /\ sci' = Head(sci_queue)
            /\ sci_queue' = Tail(sci_queue)
            /\ spc' = "set_buf"
    /\ UNCHANGED <<sci_buf, sci_en, acpi_int, sci_tmr, event, evt, caller, pwr,
                   hist>>

SetBuf ==
    /\ spc = "set_buf"
    /\ sci_buf' = sci
    /\ spc' = "set_int"
    /\ UNCHANGED <<sci_queue, sci_en, acpi_int, sci_tmr, event, evt, sci,
                   caller, pwr, hist>>

Assert ==
    /\ spc = "set_int"
    /\ acpi_int' = 1
    /\ spc' = "start_tmr"
    /\ UNCHANGED <<sci_buf, sci_queue, sci_en, sci_tmr, event, evt, sci, caller,
                   pwr, hist>>

StartTmr ==
    /\ spc = "start_tmr"
    /\ sci_tmr' = sci
    /\ spc' = "wait"
    /\ UNCHANGED <<sci_buf, sci_queue, sci_en, acpi_int, event, evt, sci,
                   caller, pwr, hist>>

-----------------------------------------------------------------------------
SciThread ==
    \/ Wait \/ ClrTimeout \/ TimeoutChk \/ TimeoutDeassert
    \/ ClrNotify \/ ChkEn \/ ChkPwr
    \/ FlushStopTmr \/ FlushPurge \/ FlushBuf \/ FlushDeassert
    \/ PendChk \/ QueueGet \/ SetBuf \/ Assert \/ StartTmr

\* The steps a caller takes to finish a call it has begun.
Continue(t) ==
    \/ EnqueChkPwr(t) \/ EnquePut(t) \/ PostNotify(t)
    \/ GetRead(t) \/ GetClear(t) \/ GetDeassert(t)

Begin(t) ==
    \/ EnqueChkEn(t)
    \/ GetStopTmr(t)
    \/ \E en \in BOOLEAN : ShellEnable(t, en)

Environment ==
    \/ AcpiSciGet
    \/ \E en \in BOOLEAN : AcpiEnableSet(en)
    \/ AcpiEnque
    \/ sci_tmr_hdl
    \/ \E s \in PwrUsed : PwrAssign(s)
    \/ PwrSubmit

Next == SciThread \/ Environment \/ \E t \in Threads : Begin(t) \/ Continue(t)

Spec == Init /\ [][Next]_vars

\* The scheduler runs every ready thread: the SCI thread, the power thread and
\* a caller in the middle of a call all make progress.
Fairness ==
    /\ WF_vars(SciThread)
    /\ WF_vars(PwrSubmit)
    /\ \A t \in Threads : WF_vars(Continue(t))

FairSpec == Spec /\ Fairness

\* A host that keeps reading command 0x05, as the test tool in doc/ does.
PollingHost == WF_vars(AcpiSciGet)
-----------------------------------------------------------------------------
(* Properties.                                                             *)

\* The event between the queue and its reader: the SCI thread has taken it but
\* not yet put it in the mailbox, or it is in the mailbox.
Held == IF spc = "set_buf" THEN <<sci>>
        ELSE IF sci_buf # SCI_NONE THEN <<sci_buf>> ELSE <<>>

Pending == Held \o sci_queue

Increasing(s) == \A i, j \in 1..Len(s) : i < j => s[i] < s[j]
Elems(s) == {s[i] : i \in 1..Len(s)}

\* Every event sci_enque accepted is in exactly one place: still pending, read
\* once by the host, or dropped by a flush; and events keep their order all the
\* way.  Preemption between any two accesses of the SCI thread, host reads at
\* any moment and flushes that overlap new events must not lose or double one.
ExactlyOnce ==
    /\ Elems(Pending) \cup Elems(delivered) \cup flushed = 1..accepted
    /\ Elems(Pending) \cap Elems(delivered) = {}
    /\ (Elems(Pending) \cup Elems(delivered)) \cap flushed = {}
    /\ Increasing(Pending) /\ Increasing(delivered)
    /\ \A d \in Elems(delivered), p \in Elems(Pending) : d < p

\* The SCI thread never sleeps on work: when it waits with no event bit set,
\* the mailbox free and events queued, a caller is about to post the bit.  This
\* is why clearing the bits before looking (service, line 209) is safe.
NoLostWakeup ==
    (spc = "wait" /\ event = {} /\ sci_buf = SCI_NONE /\ sci_queue # <<>>)
        => \E t \in Threads : pc[t] \in {"enq_post", "get_int", "get_post"}

\* The service implements the abstract channel.
Channel == INSTANCE SciChannel WITH pending <- Pending
ChannelSpec == Channel!Spec

\* With a host that keeps reading, every accepted event is read or dropped: no
\* order of timeouts, reads and enables leaves an event stuck behind another.
EveryEventSettles ==
    PollingHost => \A i \in 1..MaxSci :
        (accepted >= i) ~> (i \in Elems(delivered) \cup flushed)

\* When notification stays disabled, or the platform stays below Modern Standby,
\* the service ends up empty with the line low, although an enque that passed its
\* checks earlier may still put its event and an assert may be half done:
\* doc/acpi_test.md:405.
Quiet == Pending = <<>> /\ acpi_int = 0
DisallowedQuiesces ==
    (<>[](~sci_en) \/ <>[](~sci_pwr_allow(pwr_state))) => <>[]Quiet

\* Once everything has settled the line is asserted only while an event is
\* pending: service/acpi/readme.md:38.
Settled == spc = "wait" /\ event = {} /\ \A t \in Threads : pc[t] = "idle"
LineMeansPending == (Settled /\ acpi_int = 1) => sci_buf # SCI_NONE
=============================================================================
