------------------------------ MODULE SciProofs ------------------------------
(***************************************************************************)
(* Proofs about the SCI service, for every set of callers, every queue     *)
(* length and every bound.                                                 *)
(***************************************************************************)
EXTENDS Sci, SequenceTheorems, TLAPS

\* The SCI thread will look at the queue again: a bit that wakes it is set, or
\* a caller is between its change and its k_event_post.
WakeupComing ==
    \/ NOTIFY \in event \/ PWR_CHG \in event
    \/ \E t \in Threads : pc[t] \in {"enq_post", "get_int", "get_post"}

\* Where the thread passes by the queue without looking, or has looked already.
PastLook == {"wait", "clr_timeout", "timeout_chk", "timeout_int", "set_int",
             "start_tmr"}

\* The inductive strengthening of NoLostWakeup.  Two facts are added: a queued
\* event is never SCI_NONE, so filling the mailbox really fills it; and after a
\* purge the queue only holds events whose post is still to come or has not been
\* cleared.
QueueNonZero == \A i \in 1..Len(sci_queue) : sci_queue[i] # SCI_NONE
LocalNonZero == spc = "set_buf" => sci # SCI_NONE
WakeAfterLook ==
    (spc \in PastLook /\ sci_buf = SCI_NONE /\ sci_queue # <<>>) => WakeupComing
WakeAfterPurge ==
    (spc \in {"flush_buf", "flush_int"} /\ sci_queue # <<>>) => WakeupComing

WakeInv == QueueNonZero /\ LocalNonZero /\ WakeAfterLook /\ WakeAfterPurge

-----------------------------------------------------------------------------
\* The facts about sequences the proofs use.
LEMMA AppendFacts ==
    ASSUME NEW S, NEW s \in Seq(S), NEW e \in S
    PROVE  /\ Append(s, e) \in Seq(S)
           /\ Append(s, e) # <<>>
           /\ Len(Append(s, e)) = Len(s) + 1
           /\ \A i \in 1..Len(s) : Append(s, e)[i] = s[i]
           /\ Append(s, e)[Len(s) + 1] = e
OBVIOUS

LEMMA TailFacts ==
    ASSUME NEW S, NEW s \in Seq(S), s # <<>>
    PROVE  /\ Head(s) \in S /\ Head(s) = s[1]
           /\ Tail(s) \in Seq(S)
           /\ Len(Tail(s)) = Len(s) - 1
           /\ \A i \in 1..Len(Tail(s)) : Tail(s)[i] = s[i + 1]
OBVIOUS

-----------------------------------------------------------------------------
\* Every variable keeps its type: in particular the mailbox, the queue and the
\* thread's local event only ever hold events of the service.
THEOREM TypeCorrect == Spec => []TypeOK
<1>1. Init => TypeOK
  BY DEF Init, TypeOK, Bits, SciPc, CallerPc, SCI_NONE, BootPwrSta, PwrSta
<1>2. TypeOK /\ [Next]_vars => TypeOK'
  <2> SUFFICES ASSUME TypeOK, [Next]_vars PROVE TypeOK'
    OBVIOUS
  <2> USE DEF TypeOK, Bits, SciPc, CallerPc, EnqPc, PostPc, SCI_NONE, NOTIFY,
              TIMEOUT, PWR_CHG
  <2>1. ASSUME SciThread PROVE TypeOK'
    <3>1. CASE Wait \/ ClrTimeout \/ TimeoutChk \/ TimeoutDeassert
      BY <3>1 DEF Wait, ClrTimeout, TimeoutChk, TimeoutDeassert, AfterTimeout,
                  dev, hist, caller, pwr
    <3>2. CASE ClrNotify \/ ChkEn \/ ChkPwr \/ PendChk
      BY <3>2 DEF ClrNotify, ChkEn, ChkPwr, PendChk, dev, hist, caller, pwr
    <3>3. CASE FlushStopTmr
      BY <3>3 DEF FlushStopTmr, hist, caller, pwr
    <3>8. CASE FlushDeassert
      BY <3>8 DEF FlushDeassert, hist, caller, pwr
    <3>7. CASE SetBuf \/ Assert \/ StartTmr
      BY <3>7 DEF SetBuf, Assert, StartTmr, hist, caller, pwr
    <3>4. CASE FlushPurge
      <4>1. Queued \subseteq Nat
        BY DEF Queued
      <4> QED BY <3>4, <4>1 DEF FlushPurge, caller, pwr
    <3>5. CASE FlushBuf
      BY <3>5 DEF FlushBuf, caller, pwr
    <3>6. CASE QueueGet
      <4>1. CASE sci_queue = <<>>
        BY <3>6, <4>1 DEF QueueGet, hist, caller, pwr
      <4>2. CASE sci_queue # <<>>
        <5>1. Head(sci_queue) \in Nat /\ Tail(sci_queue) \in Seq(Nat)
          BY <4>2, TailFacts
        <5> QED BY <3>6, <4>2, <5>1 DEF QueueGet, hist, caller, pwr
      <4> QED BY <4>1, <4>2
    <3> QED BY <2>1, <3>1, <3>2, <3>3, <3>4, <3>5, <3>6, <3>7, <3>8
         DEF SciThread
  <2>2. ASSUME Environment PROVE TypeOK'
    <3>1. CASE AcpiSciGet
      BY <3>1, AppendFacts DEF AcpiSciGet, thread, caller, pwr
    <3>2. ASSUME NEW en \in BOOLEAN, AcpiEnableSet(en) PROVE TypeOK'
      BY <3>2 DEF AcpiEnableSet, thread, caller, pwr, hist
    <3>3. CASE AcpiEnque
      BY <3>3, AppendFacts DEF AcpiEnque, thread, caller, pwr
    <3>4. CASE sci_tmr_hdl
      BY <3>4 DEF sci_tmr_hdl, thread, caller, pwr, hist
    <3>5. ASSUME NEW s \in PwrUsed, PwrAssign(s) PROVE TypeOK'
      BY <3>5, SciAssumption DEF PwrAssign, dev, thread, caller, hist
    <3>6. CASE PwrSubmit
      BY <3>6 DEF PwrSubmit, dev, thread, caller, hist
    <3> QED BY <2>2, <3>1, <3>2, <3>3, <3>4, <3>5, <3>6 DEF Environment
  <2>3. ASSUME NEW t \in Threads, Begin(t) PROVE TypeOK'
    <3>1. CASE EnqueChkEn(t)
      BY <3>1 DEF EnqueChkEn, Goto, dev, thread, pwr, hist
    <3>2. CASE GetStopTmr(t)
      BY <3>2 DEF GetStopTmr, Goto, thread, pwr, hist
    <3>3. ASSUME NEW en \in BOOLEAN, ShellEnable(t, en) PROVE TypeOK'
      BY <3>3 DEF ShellEnable, Goto, thread, pwr, hist
    <3> QED BY <2>3, <3>1, <3>2, <3>3 DEF Begin
  <2>4. ASSUME NEW t \in Threads, Continue(t) PROVE TypeOK'
    <3>1. CASE EnqueChkPwr(t)
      BY <3>1 DEF EnqueChkPwr, Goto, dev, thread, pwr, hist
    <3>2. CASE EnquePut(t)
      <4>1. Append(sci_queue, accepted + 1) \in Seq(Nat) /\ accepted + 1 \in Nat
        BY AppendFacts
      <4>2. CASE Len(sci_queue) < QueueLen
        BY <3>2, <4>1, <4>2 DEF EnquePut, Goto, thread, pwr
      <4>3. CASE ~(Len(sci_queue) < QueueLen)
        BY <3>2, <4>3 DEF EnquePut, Goto, thread, pwr
      <4> QED BY <4>2, <4>3
    <3>3. CASE PostNotify(t)
      BY <3>3 DEF PostNotify, Goto, dev, thread, pwr, hist
    <3>4. CASE GetRead(t)
      BY <3>4 DEF GetRead, Goto, dev, thread, pwr, hist
    <3>5. CASE GetClear(t)
      BY <3>5, AppendFacts DEF GetClear, Goto, thread, pwr
    <3>6. CASE GetDeassert(t)
      BY <3>6 DEF GetDeassert, Goto, thread, pwr, hist
    <3> QED BY <2>4, <3>1, <3>2, <3>3, <3>4, <3>5, <3>6 DEF Continue
  <2>5. CASE UNCHANGED vars
    BY <2>5 DEF vars, dev, thread, caller, pwr, hist
  <2> QED BY <2>1, <2>2, <2>3, <2>4, <2>5 DEF Next
<1> QED BY <1>1, <1>2, PTL DEF Spec
-----------------------------------------------------------------------------
\* What a step may do to the queue: nothing, append the next event, empty it, or
\* take its oldest event.
LEMMA QueueSteps ==
    ASSUME TypeOK, [Next]_vars
    PROVE  \/ UNCHANGED sci_queue
           \/ sci_queue' = Append(sci_queue, accepted + 1)
           \/ sci_queue' = <<>>
           \/ sci_queue # <<>> /\ sci_queue' = Tail(sci_queue)
<1>1. CASE SciThread
  BY <1>1, Zenon DEF SciThread, Wait, ClrTimeout, TimeoutChk, TimeoutDeassert,
     ClrNotify, ChkEn, ChkPwr, FlushStopTmr, FlushPurge, FlushBuf,
     FlushDeassert, PendChk, QueueGet, SetBuf, Assert, StartTmr, dev
<1>2. CASE Environment
  BY <1>2, Zenon DEF Environment, AcpiSciGet, AcpiEnableSet, AcpiEnque,
     sci_tmr_hdl, PwrAssign, PwrSubmit, dev
<1>3. ASSUME NEW t \in Threads, Begin(t) \/ Continue(t)
      PROVE  UNCHANGED sci_queue \/ sci_queue' = Append(sci_queue, accepted + 1)
  BY <1>3, Zenon DEF Begin, Continue, EnqueChkEn, GetStopTmr, ShellEnable,
     EnqueChkPwr, EnquePut, PostNotify, GetRead, GetClear, GetDeassert, dev
<1>4. CASE UNCHANGED vars
  BY <1>4 DEF vars, dev
<1> QED BY <1>1, <1>2, <1>3, <1>4 DEF Next

\* Only the SCI thread moves its own program counter and local event.
LEMMA OthersKeepThread ==
    ASSUME [Next]_vars, ~SciThread
    PROVE  UNCHANGED <<spc, evt, sci>>
<1>1. CASE Environment
  BY <1>1, Zenon DEF Environment, AcpiSciGet, AcpiEnableSet, AcpiEnque,
     sci_tmr_hdl, PwrAssign, PwrSubmit, thread
<1>2. ASSUME NEW t \in Threads, Begin(t) \/ Continue(t)
      PROVE  UNCHANGED <<spc, evt, sci>>
  BY <1>2, Zenon DEF Begin, Continue, EnqueChkEn, GetStopTmr, ShellEnable,
     EnqueChkPwr, EnquePut, PostNotify, GetRead, GetClear, GetDeassert, thread
<1>3. CASE UNCHANGED vars
  BY <1>3 DEF vars, thread
<1> QED BY <1>1, <1>2, <1>3 DEF Next

LEMMA SciThreadKeepsWake ==
    ASSUME TypeOK, SciThread, QueueNonZero, LocalNonZero, WakeAfterLook,
           WakeAfterPurge
    PROVE  WakeAfterLook' /\ WakeAfterPurge'
<1> USE DEF WakeAfterLook, WakeAfterPurge, WakeupComing, PastLook, SCI_NONE,
            NOTIFY, TIMEOUT, PWR_CHG
<1>1. CASE Wait
  BY <1>1 DEF Wait, dev, caller
<1>2. CASE ClrTimeout
  BY <1>2 DEF ClrTimeout, dev, caller
<1>3. CASE TimeoutChk
  BY <1>3 DEF TimeoutChk, AfterTimeout, dev, caller
<1>4. CASE TimeoutDeassert
  BY <1>4 DEF TimeoutDeassert, AfterTimeout, caller
<1>5. CASE ClrNotify \/ ChkEn \/ ChkPwr
  BY <1>5 DEF ClrNotify, ChkEn, ChkPwr, dev, caller
<1>6. CASE FlushStopTmr \/ FlushPurge
  BY <1>6 DEF FlushStopTmr, FlushPurge, caller
<1>7. CASE FlushBuf \/ FlushDeassert
  BY <1>7 DEF FlushBuf, FlushDeassert, caller
<1>8. CASE PendChk
  BY <1>8 DEF PendChk, dev, caller
<1>9. CASE QueueGet
  BY <1>9 DEF QueueGet, caller
<1>10. CASE SetBuf
  BY <1>10 DEF SetBuf, caller, LocalNonZero
<1>11. CASE Assert \/ StartTmr
  BY <1>11 DEF Assert, StartTmr, caller
<1> QED BY <1>1, <1>2, <1>3, <1>4, <1>5, <1>6, <1>7, <1>8, <1>9, <1>10, <1>11
        DEF SciThread

LEMMA EnvironmentKeepsWake ==
    ASSUME TypeOK, Environment, WakeAfterLook, WakeAfterPurge
    PROVE  WakeAfterLook' /\ WakeAfterPurge'
<1> USE DEF WakeAfterLook, WakeAfterPurge, WakeupComing, NOTIFY, TIMEOUT, PWR_CHG
<1>1. CASE AcpiSciGet \/ AcpiEnque
  BY <1>1 DEF AcpiSciGet, AcpiEnque
<1>2. ASSUME NEW en \in BOOLEAN, AcpiEnableSet(en)
      PROVE  WakeAfterLook' /\ WakeAfterPurge'
  BY <1>2 DEF AcpiEnableSet
<1>3. CASE sci_tmr_hdl
  BY <1>3 DEF sci_tmr_hdl, thread, caller
<1>4. ASSUME NEW s \in PwrUsed, PwrAssign(s)
      PROVE  WakeAfterLook' /\ WakeAfterPurge'
  BY <1>4 DEF PwrAssign, dev, thread, caller
<1>5. CASE PwrSubmit
  BY <1>5 DEF PwrSubmit
<1> QED BY <1>1, <1>2, <1>3, <1>4, <1>5 DEF Environment

LEMMA CallersKeepWake ==
    ASSUME TypeOK, NEW t \in Threads, Begin(t) \/ Continue(t),
           WakeAfterLook, WakeAfterPurge
    PROVE  WakeAfterLook' /\ WakeAfterPurge'
<1> USE DEF WakeAfterLook, WakeAfterPurge, WakeupComing, Goto, TypeOK, NOTIFY
<1>1. CASE EnqueChkEn(t) \/ EnqueChkPwr(t)
  BY <1>1 DEF EnqueChkEn, EnqueChkPwr, dev, thread
<1>2. CASE EnquePut(t)
  BY <1>2 DEF EnquePut, thread
<1>3. CASE PostNotify(t)
  BY <1>3 DEF PostNotify
<1>4. CASE GetStopTmr(t)
  BY <1>4 DEF GetStopTmr, thread
<1>5. CASE GetRead(t)
  BY <1>5 DEF GetRead, dev, thread
<1>6. CASE GetClear(t)
  BY <1>6 DEF GetClear, thread
<1>7. CASE GetDeassert(t)
  BY <1>7 DEF GetDeassert, thread
<1>8. ASSUME NEW en \in BOOLEAN, ShellEnable(t, en)
      PROVE  WakeAfterLook' /\ WakeAfterPurge'
  BY <1>8 DEF ShellEnable, thread
<1> QED BY <1>1, <1>2, <1>3, <1>4, <1>5, <1>6, <1>7, <1>8 DEF Begin, Continue

-----------------------------------------------------------------------------
LEMMA WakeInvariant == Spec => []WakeInv
<1>1. Init => WakeInv
  BY DEF Init, WakeInv, QueueNonZero, LocalNonZero, WakeAfterLook,
         WakeAfterPurge, PastLook
<1>2. TypeOK /\ WakeInv /\ [Next]_vars => WakeInv'
  <2> SUFFICES ASSUME TypeOK, WakeInv, [Next]_vars PROVE WakeInv'
    OBVIOUS
  <2>a. QueueNonZero /\ LocalNonZero /\ WakeAfterLook /\ WakeAfterPurge
    BY DEF WakeInv
  <2>1. QueueNonZero'
    <3>1. CASE UNCHANGED sci_queue
      BY <3>1, <2>a DEF QueueNonZero
    <3>2. CASE sci_queue' = Append(sci_queue, accepted + 1)
      BY <3>2, <2>a, AppendFacts DEF QueueNonZero, TypeOK, SCI_NONE
    <3>3. CASE sci_queue' = <<>>
      BY <3>3 DEF QueueNonZero
    <3>4. CASE sci_queue # <<>> /\ sci_queue' = Tail(sci_queue)
      BY <3>4, <2>a, TailFacts DEF QueueNonZero, TypeOK, SCI_NONE
    <3> QED BY <3>1, <3>2, <3>3, <3>4, QueueSteps
  <2>2. LocalNonZero'
    <3>1. CASE UNCHANGED <<spc, sci>>
      BY <3>1, <2>a DEF LocalNonZero
    <3>2. CASE SciThread
      <4>1. CASE QueueGet /\ sci_queue # <<>>
        <5>1. sci' = sci_queue[1] /\ Len(sci_queue) >= 1
          BY <4>1, TailFacts DEF QueueGet, TypeOK
        <5> QED BY <5>1, <2>a DEF LocalNonZero, QueueNonZero, TypeOK
      <4>2. CASE ~(QueueGet /\ sci_queue # <<>>)
        <5>1. spc' # "set_buf"
          BY <3>2, <4>2, Zenon DEF SciThread, Wait, ClrTimeout, TimeoutChk,
             TimeoutDeassert, AfterTimeout, ClrNotify, ChkEn, ChkPwr,
             FlushStopTmr, FlushPurge, FlushBuf, FlushDeassert, PendChk,
             QueueGet, SetBuf, Assert, StartTmr
        <5> QED BY <5>1 DEF LocalNonZero
      <4> QED BY <4>1, <4>2
    <3> QED BY <3>1, <3>2, OthersKeepThread
  <2>3. WakeAfterLook' /\ WakeAfterPurge'
    <3>1. CASE SciThread
      BY <3>1, <2>a, SciThreadKeepsWake
    <3>2. CASE Environment
      BY <3>2, <2>a, EnvironmentKeepsWake
    <3>3. ASSUME NEW t \in Threads, Begin(t) \/ Continue(t)
          PROVE  WakeAfterLook' /\ WakeAfterPurge'
      BY <3>3, <2>a, CallersKeepWake
    <3>4. CASE UNCHANGED vars
      BY <3>4, <2>a DEF vars, dev, thread, caller, WakeAfterLook,
         WakeAfterPurge, WakeupComing
    <3> QED BY <3>1, <3>2, <3>3, <3>4 DEF Next
  <2> QED BY <2>1, <2>2, <2>3 DEF WakeInv
<1> QED BY <1>1, <1>2, TypeCorrect, PTL DEF Spec

\* No state of the service leaves the SCI thread asleep with the mailbox free and
\* an event queued, unless a caller is still to post the bit that wakes it.
THEOREM NeverSleepsOnWork == Spec => []NoLostWakeup
<1>1. WakeInv => NoLostWakeup
  BY DEF WakeInv, WakeAfterLook, WakeupComing, NoLostWakeup, PastLook
<1> QED BY <1>1, WakeInvariant, PTL

-----------------------------------------------------------------------------
(***************************************************************************)
(* The SCI service implements the channel of SciChannel, and so hands over *)
(* each event once and in order, for every queue length, number of events  *)
(* and set of callers that enque.  The shell's "sci get" is left out: it   *)
(* reads and clears the mailbox in two steps, and an event the thread puts *)
(* there in between is lost without a trace.                               *)
(***************************************************************************)

\* Nobody but the host reads, so the mailbox the SCI thread found free is free
\* still when it puts the next event there.
Reading == {"get_read", "get_clear", "get_int", "get_post"}
OneReader == \A t \in Threads : pc[t] \notin Reading
FreeWhenTaken == spc \in {"get", "set_buf"} => sci_buf = SCI_NONE
HeldInv == OneReader /\ FreeWhenTaken

ChannelInv == TypeOK /\ WakeInv /\ HeldInv

channel == <<Pending, accepted, delivered, flushed>>

-----------------------------------------------------------------------------
\* The sequences of a channel step.
LEMMA FirstOfPending ==
  ASSUME NEW e \in Nat, NEW q \in Seq(Nat)
  PROVE  /\ <<e>> \o q \in Seq(Nat) /\ <<e>> \o q # <<>>
         /\ Head(<<e>> \o q) = e /\ Tail(<<e>> \o q) = q
<1>1. /\ <<e>> \in Seq(Nat) /\ Len(<<e>>) = 1 /\ <<e>>[1] = e
  OBVIOUS
<1>2. /\ <<e>> \o q \in Seq(Nat) /\ Len(<<e>> \o q) = 1 + Len(q)
      /\ \A i \in 1..(1 + Len(q)) :
           (<<e>> \o q)[i] = IF i <= 1 THEN <<e>>[i] ELSE q[i - 1]
  BY <1>1, ConcatProperties
<1>3. Len(q) \in Nat /\ <<e>> \o q # <<>>
  BY <1>2
<1>4. Head(<<e>> \o q) = (<<e>> \o q)[1]
  BY <1>2, <1>3, TailFacts
<1>5. Head(<<e>> \o q) = e
  BY <1>1, <1>2, <1>3, <1>4
<1>6. /\ Tail(<<e>> \o q) \in Seq(Nat) /\ Len(Tail(<<e>> \o q)) = Len(q)
      /\ \A i \in 1..Len(q) : Tail(<<e>> \o q)[i] = q[i]
  <2>1. /\ Tail(<<e>> \o q) \in Seq(Nat)
        /\ Len(Tail(<<e>> \o q)) = Len(q)
        /\ \A i \in 1..Len(q) : Tail(<<e>> \o q)[i] = (<<e>> \o q)[i + 1]
    BY <1>2, <1>3, TailFacts
  <2>2. \A i \in 1..Len(q) : (<<e>> \o q)[i + 1] = q[i]
    BY <1>2, <1>3
  <2> QED BY <2>1, <2>2
<1>7. Tail(<<e>> \o q) = q
  BY <1>6, SeqEqual
<1> QED BY <1>2, <1>3, <1>5, <1>7

LEMMA AppendBehind ==
  ASSUME NEW h \in Seq(Nat), NEW q \in Seq(Nat), NEW e \in Nat
  PROVE  h \o Append(q, e) = Append(h \o q, e)
<1>1. <<e>> \in Seq(Nat)
  OBVIOUS
<1>2. Append(q, e) = q \o <<e>>
  BY AppendIsConcat
<1>3. h \o q \in Seq(Nat) /\ Append(h \o q, e) = (h \o q) \o <<e>>
  BY ConcatProperties, AppendIsConcat
<1> QED BY <1>1, <1>2, <1>3, ConcatAssociative

LEMMA PendingParts ==
  ASSUME NEW h \in Seq(Nat), NEW q \in Seq(Nat)
  PROVE  LET p == h \o q IN
         /\ p \in Seq(Nat) /\ Len(p) = Len(h) + Len(q)
         /\ SubSeq(p, 1, Len(h)) = h
         /\ SubSeq(p, Len(h) + 1, Len(p)) = q
<1> DEFINE p == h \o q
<1>1. /\ p \in Seq(Nat) /\ Len(p) = Len(h) + Len(q) /\ Len(h) \in Nat /\ Len(q) \in Nat
      /\ \A i \in 1..(Len(h) + Len(q)) : p[i] = IF i <= Len(h) THEN h[i] ELSE q[i - Len(h)]
  BY ConcatProperties
<1> HIDE DEF p
<1>2. \A i \in 1..Len(p) : p[i] \in Nat
  BY <1>1
<1>3. SubSeq(p, 1, Len(h)) = h
  <2>1. /\ SubSeq(p, 1, Len(h)) \in Seq(Nat) /\ Len(SubSeq(p, 1, Len(h))) = Len(h)
        /\ \A i \in 1..Len(h) : SubSeq(p, 1, Len(h))[i] = p[i]
    BY <1>1, <1>2
  <2>2. \A i \in 1..Len(h) : SubSeq(p, 1, Len(h))[i] = h[i]
    BY <1>1, <2>1
  <2> QED BY <2>1, <2>2, SeqEqual
<1>4. SubSeq(p, Len(h) + 1, Len(p)) = q
  <2> DEFINE r == SubSeq(p, Len(h) + 1, Len(p))
  <2>1. /\ r \in Seq(Nat) /\ Len(r) = Len(q)
        /\ \A i \in 1..Len(q) : r[i] = p[Len(h) + i]
    BY <1>1, <1>2
  <2> HIDE DEF r
  <2>2. ASSUME NEW i \in 1..Len(q) PROVE r[i] = q[i]
    <3>1. /\ Len(h) + i \in 1..(Len(h) + Len(q)) /\ ~(Len(h) + i <= Len(h))
          /\ (Len(h) + i) - Len(h) = i
      BY <1>1
    <3>2. p[Len(h) + i] = q[(Len(h) + i) - Len(h)]
      BY <1>1, <3>1
    <3> QED BY <2>1, <3>1, <3>2
  <2>3. r = q
    BY <2>1, <2>2, SeqEqual
  <2> QED BY <2>3 DEF r
<1> QED BY <1>1, <1>3, <1>4 DEF p

LEMMA EmptyHeld == \A q \in Seq(Nat) : <<>> \o q = q /\ q \o <<>> = q
BY ConcatEmptySeq

LEMMA HeldFacts ==
  ASSUME TypeOK
  PROVE  /\ Held \in Seq(Nat) /\ Len(Held) \in {0, 1}
         /\ Pending \in Seq(Nat)
<1>1. Held \in Seq(Nat) /\ Len(Held) \in {0, 1}
  BY DEF Held, TypeOK
<1> QED BY <1>1, ConcatProperties DEF Pending, TypeOK

-----------------------------------------------------------------------------
LEMMA HeldInvariant == ASSUME ShellThreads = {} PROVE Spec => []HeldInv
<1>1. Init => HeldInv
  BY DEF Init, HeldInv, OneReader, FreeWhenTaken, Reading
<1>2. TypeOK /\ HeldInv /\ [Next]_vars => HeldInv'
  <2> SUFFICES ASSUME TypeOK, HeldInv, [Next]_vars PROVE HeldInv'
    OBVIOUS
  <2> USE DEF HeldInv, OneReader, FreeWhenTaken
  <2>1. CASE SciThread
    BY <2>1 DEF SciThread, Wait, ClrTimeout, TimeoutChk, TimeoutDeassert,
       AfterTimeout, ClrNotify, ChkEn, ChkPwr, FlushStopTmr, FlushPurge,
       FlushBuf, FlushDeassert, PendChk, QueueGet, SetBuf, Assert, StartTmr,
       dev, caller
  <2>2. CASE Environment
    BY <2>2 DEF Environment, AcpiSciGet, AcpiEnableSet, AcpiEnque, sci_tmr_hdl,
       PwrAssign, PwrSubmit, dev, thread, caller
  <2>3. ASSUME NEW t \in Threads, Begin(t) PROVE HeldInv'
    <3>1. EnqueChkEn(t)
      BY <2>3 DEF Begin, GetStopTmr, ShellEnable
    <3> QED BY <3>1 DEF EnqueChkEn, Goto, TypeOK, Reading, dev, thread
  <2>4. ASSUME NEW t \in Threads, Continue(t) PROVE HeldInv'
    <3>1. EnqueChkPwr(t) \/ EnquePut(t) \/ PostNotify(t)
      BY <2>4 DEF Continue, GetRead, GetClear, GetDeassert, Reading
    <3> QED BY <3>1 DEF EnqueChkPwr, EnquePut, PostNotify, Goto, TypeOK,
            Reading, dev, thread
  <2>5. CASE UNCHANGED vars
    BY <2>5 DEF vars, dev, thread, caller
  <2> QED BY <2>1, <2>2, <2>3, <2>4, <2>5 DEF Next
<1> QED BY <1>1, <1>2, TypeCorrect, PTL DEF Spec

-----------------------------------------------------------------------------
\* What a step does to the channel.
LEMMA PutAccepts ==
  ASSUME ChannelInv, sci_queue' = Append(sci_queue, accepted + 1),
         UNCHANGED <<sci_buf, spc, sci>>
  PROVE  Pending' = Append(Pending, accepted + 1)
<1>1. Held' = Held /\ Held \in Seq(Nat)
  BY HeldFacts DEF Held, ChannelInv
<1>2. sci_queue \in Seq(Nat) /\ accepted + 1 \in Nat
  BY DEF ChannelInv, TypeOK
<1> QED BY <1>1, <1>2, AppendBehind DEF Pending

LEMMA ReadDelivers ==
  ASSUME ChannelInv, AcpiSciGet
  PROVE  Channel!Deliver \/ UNCHANGED channel
<1> USE DEF ChannelInv, HeldInv, AcpiSciGet, thread
<1>1. CASE spc = "set_buf" \/ sci_buf = SCI_NONE
  <2>1. UNCHANGED Held
    BY <1>1 DEF Held, FreeWhenTaken
  <2>2. sci_buf = SCI_NONE
    BY <1>1 DEF FreeWhenTaken
  <2> QED BY <2>1, <2>2 DEF channel, Pending
<1>2. CASE spc # "set_buf" /\ sci_buf # SCI_NONE
  <2>1. sci_buf \in Nat /\ sci_queue \in Seq(Nat)
    BY DEF TypeOK
  <2>2. Pending = <<sci_buf>> \o sci_queue
    BY <1>2 DEF Pending, Held
  <2>3. Pending' = <<>> \o sci_queue
    BY <1>2 DEF Pending, Held
  <2>4. Pending' = sci_queue
    BY <2>1, <2>3, EmptyHeld
  <2>5. Pending # <<>> /\ Head(Pending) = sci_buf /\ Tail(Pending) = Pending'
    BY <2>1, <2>2, <2>4, FirstOfPending
  <2> QED BY <1>2, <2>5 DEF Channel!Deliver
<1> QED BY <1>1, <1>2

LEMMA FlushBufDrops ==
  ASSUME ChannelInv, FlushBuf
  PROVE  Channel!DropHead \/ UNCHANGED channel
<1> USE DEF FlushBuf
<1>1. CASE sci_buf = SCI_NONE
  BY <1>1 DEF channel, Pending, Held
<1>2. CASE sci_buf # SCI_NONE
  <2>1. sci_buf \in Nat /\ sci_queue \in Seq(Nat)
    BY DEF ChannelInv, TypeOK
  <2>2. Pending = <<sci_buf>> \o sci_queue
    BY <1>2 DEF Pending, Held
  <2>3. Pending' = <<>> \o sci_queue
    BY DEF Pending, Held
  <2>4. Pending' = sci_queue
    BY <2>1, <2>3, EmptyHeld
  <2>5. Pending # <<>> /\ Head(Pending) = sci_buf /\ Tail(Pending) = Pending'
    BY <2>1, <2>2, <2>4, FirstOfPending
  <2> QED BY <1>2, <2>5 DEF Channel!DropHead
<1> QED BY <1>1, <1>2

LEMMA PurgeDrops ==
  ASSUME ChannelInv, FlushPurge
  PROVE  Channel!DropTail \/ UNCHANGED channel
<1> USE DEF FlushPurge
<1>1. /\ Held \in Seq(Nat) /\ Len(Held) \in {0, 1} /\ Pending \in Seq(Nat)
      /\ sci_queue \in Seq(Nat) /\ Len(sci_queue) \in Nat
  BY HeldFacts DEF ChannelInv, TypeOK
<1>2. Held' = Held /\ Pending' = Held \o <<>>
  BY DEF Held, Pending
<1>3. Pending' = Held
  BY <1>1, <1>2, EmptyHeld
<1>4. CASE sci_queue = <<>>
  <2>1. Queued = {}
    BY <1>4 DEF Queued
  <2> QED BY <1>2, <1>4, <2>1 DEF channel, Pending
<1>5. CASE sci_queue # <<>>
  <2> DEFINE k == Len(Held)
  <2>1. /\ Len(Pending) = k + Len(sci_queue)
        /\ SubSeq(Pending, 1, k) = Held
        /\ SubSeq(Pending, k + 1, Len(Pending)) = sci_queue
    BY <1>1, PendingParts DEF Pending
  <2>2. k < Len(Pending)
    BY <1>1, <1>5, <2>1, EmptySeq
  <2>3. Channel!ToSet(sci_queue) = Queued
    BY <1>1 DEF Channel!ToSet, Queued
  <2>4. flushed' = flushed \cup Channel!ToSet(SubSeq(Pending, k + 1, Len(Pending)))
    BY <2>1, <2>3
  <2>5. Pending' = SubSeq(Pending, 1, k)
    BY <1>3, <2>1
  <2> HIDE DEF k
  <2>6. k \in {0, 1}
    BY <1>1 DEF k
  <2> QED BY <2>2, <2>4, <2>5, <2>6 DEF Channel!DropTail
<1> QED BY <1>4, <1>5

\* Taking the event from the queue, and putting it in the mailbox, moves it along
\* within what is pending.
LEMMA TakingKeeps ==
  ASSUME ChannelInv, QueueGet \/ SetBuf
  PROVE  UNCHANGED channel
<1> USE DEF ChannelInv, HeldInv, FreeWhenTaken
<1>1. CASE SetBuf
  <2>1. Held = <<sci>> /\ Held' = <<sci>>
    BY <1>1 DEF SetBuf, Held, WakeInv, LocalNonZero
  <2> QED BY <1>1, <2>1 DEF SetBuf, channel, Pending, hist
<1>2. CASE QueueGet /\ sci_queue = <<>>
  <2>1. UNCHANGED Held
    BY <1>2 DEF QueueGet, Held
  <2> QED BY <1>2, <2>1 DEF QueueGet, channel, Pending, hist
<1>3. CASE QueueGet /\ sci_queue # <<>>
  <2>1. sci_queue \in Seq(Nat)
    BY DEF TypeOK
  <2>2. /\ Head(sci_queue) \in Nat /\ Tail(sci_queue) \in Seq(Nat)
        /\ sci_queue = <<Head(sci_queue)>> \o Tail(sci_queue)
    BY <1>3, <2>1
  <2>3. Held = <<>> /\ Held' = <<Head(sci_queue)>>
    BY <1>3 DEF QueueGet, Held
  <2>4. Pending = sci_queue
    BY <2>1, <2>3, EmptyHeld DEF Pending
  <2>5. Pending' = <<Head(sci_queue)>> \o Tail(sci_queue)
    BY <1>3, <2>3 DEF QueueGet, Pending
  <2> QED BY <1>3, <2>2, <2>4, <2>5 DEF QueueGet, channel, hist
<1> QED BY <1>1, <1>2, <1>3

\* Everything else leaves the channel alone.
LEMMA OtherSciSteps ==
  ASSUME ChannelInv, SciThread
  PROVE  QueueGet \/ SetBuf \/ FlushBuf \/ FlushPurge \/ UNCHANGED channel
  BY DEF SciThread, Wait, ClrTimeout, TimeoutChk, TimeoutDeassert, AfterTimeout,
     ClrNotify, ChkEn, ChkPwr, FlushStopTmr, FlushDeassert, PendChk, Assert,
     StartTmr, channel, Pending, Held, dev, hist

LEMMA OtherEnvironmentSteps ==
  ASSUME ChannelInv, Environment
  PROVE  AcpiSciGet \/ AcpiEnque \/ UNCHANGED channel
  BY DEF Environment, AcpiEnableSet, sci_tmr_hdl, PwrAssign, PwrSubmit, channel,
     Pending, Held, dev, thread, hist

LEMMA CallerSteps ==
  ASSUME ChannelInv, NEW t \in Threads, Begin(t) \/ Continue(t)
  PROVE  \/ /\ EnquePut(t) /\ Len(sci_queue) < QueueLen
         \/ UNCHANGED channel
<1>1. ~GetRead(t) /\ ~GetClear(t) /\ ~GetDeassert(t)
  BY DEF ChannelInv, HeldInv, OneReader, Reading, GetRead, GetClear, GetDeassert
<1> QED BY <1>1 DEF Begin, Continue, EnqueChkEn, GetStopTmr, ShellEnable,
        EnqueChkPwr, EnquePut, PostNotify, channel, Pending, Held, dev, thread, hist

LEMMA ChannelStep ==
  ASSUME ChannelInv, [Next]_vars
  PROVE  Channel!Accept \/ Channel!Deliver \/ Channel!DropHead \/ Channel!DropTail
           \/ UNCHANGED channel
<1>1. CASE SciThread
  BY <1>1, OtherSciSteps, TakingKeeps, FlushBufDrops, PurgeDrops
<1>2. CASE Environment
  <2>1. ASSUME AcpiEnque PROVE Channel!Accept
    <3>1. Pending' = Append(Pending, accepted + 1)
      BY <2>1, PutAccepts DEF AcpiEnque, thread
    <3> QED BY <2>1, <3>1 DEF AcpiEnque, Channel!Accept
  <2> QED BY <1>2, <2>1, OtherEnvironmentSteps, ReadDelivers
<1>3. ASSUME NEW t \in Threads, Begin(t) \/ Continue(t)
      PROVE  Channel!Accept \/ UNCHANGED channel
  <2>1. ASSUME EnquePut(t), Len(sci_queue) < QueueLen PROVE Channel!Accept
    <3>1. Pending' = Append(Pending, accepted + 1)
      BY <2>1, PutAccepts DEF EnquePut, thread
    <3> QED BY <2>1, <3>1 DEF EnquePut, Channel!Accept
  <2> QED BY <1>3, <2>1, CallerSteps
<1>4. CASE UNCHANGED vars
  BY <1>4 DEF vars, dev, thread, hist, channel, Pending, Held
<1> QED BY <1>1, <1>2, <1>3, <1>4 DEF Next

LEMMA ChannelInvariant == ASSUME ShellThreads = {} PROVE Spec => []ChannelInv
BY TypeCorrect, WakeInvariant, HeldInvariant, PTL DEF ChannelInv

\* The thread, the queue, the mailbox, the flush and the host's read implement the
\* ordered channel, at every queue length and for every set of callers, as long as
\* the host is the only reader.
THEOREM ImplementsChannel == ASSUME ShellThreads = {} PROVE Spec => ChannelSpec
<1>1. Init => Channel!Init
  <2> SUFFICES ASSUME Init PROVE Channel!Init
    OBVIOUS
  <2>1. <<>> \in Seq(Nat)
    OBVIOUS
  <2>2. Held = <<>> /\ sci_queue = <<>>
    BY DEF Init, Held
  <2>3. Pending = <<>>
    BY <2>1, <2>2, EmptyHeld DEF Pending
  <2> QED BY <2>3 DEF Init, Channel!Init
<1>2. ChannelInv /\ [Next]_vars => [Channel!Next]_(Channel!vars)
  BY ChannelStep DEF Channel!Next, Channel!vars, channel
<1> QED BY <1>1, <1>2, ChannelInvariant, PTL DEF Spec, ChannelSpec, Channel!Spec

-----------------------------------------------------------------------------
(* Each event is in one place.  ExactlyOnce is inductive for the channel,   *)
(* whose steps only ever move the oldest, drop some or add the next.        *)

LEMMA AcceptKeepsOnce ==
  ASSUME TypeOK, ExactlyOnce, Pending \in Seq(Nat), Channel!Accept
  PROVE  ExactlyOnce'
<1> DEFINE a == accepted + 1
<1>1. /\ Pending' \in Seq(Nat) /\ Len(Pending) \in Nat /\ Len(Pending') = Len(Pending) + 1
      /\ \A i \in 1..Len(Pending) : Pending'[i] = Pending[i]
      /\ Pending'[Len(Pending) + 1] = a
  BY AppendFacts DEF Channel!Accept, TypeOK
<1>2. accepted' = a /\ accepted \in Nat /\ UNCHANGED <<delivered, flushed>>
  BY DEF Channel!Accept, TypeOK
<1>3. Elems(Pending)' = Elems(Pending) \cup {a} /\ Elems(delivered)' = Elems(delivered)
  <2>1. \A i \in 1..Len(Pending') : i \in 1..Len(Pending) \/ i = Len(Pending) + 1
    BY <1>1
  <2>2. (1..Len(Pending)) \subseteq 1..Len(Pending') /\ Len(Pending) + 1 \in 1..Len(Pending')
    BY <1>1
  <2> QED BY <1>1, <1>2, <2>1, <2>2 DEF Elems
<1>4. /\ Elems(Pending) \cup Elems(delivered) \cup flushed = 1..accepted
      /\ a \notin 1..accepted /\ 1..a = (1..accepted) \cup {a}
      /\ \A d \in 1..accepted : d < a
  BY <1>2 DEF ExactlyOnce
<1>5. Increasing(Pending)'
  <2> SUFFICES ASSUME NEW i \in 1..Len(Pending'), NEW j \in 1..Len(Pending'), i < j
               PROVE  Pending'[i] < Pending'[j]
    BY DEF Increasing
  <2>1. i \in 1..Len(Pending) /\ Pending'[i] = Pending[i]
    BY <1>1
  <2>2. CASE j \in 1..Len(Pending)
    BY <1>1, <2>1, <2>2 DEF ExactlyOnce, Increasing
  <2>3. CASE j = Len(Pending) + 1
    <3>1. Pending[i] \in Elems(Pending)
      BY <2>1 DEF Elems
    <3> QED BY <1>1, <1>4, <2>1, <2>3, <3>1
  <2>4. j \in 1..Len(Pending) \/ j = Len(Pending) + 1
    <3>1. \A n \in Nat : \A x \in 1..(n + 1) : x \in 1..n \/ x = n + 1
      OBVIOUS
    <3>2. Len(Pending) \in Nat /\ j \in 1..(Len(Pending) + 1)
      BY <1>1
    <3> QED BY <3>1, <3>2
  <2> QED BY <2>2, <2>3, <2>4
<1>6. Increasing(delivered)'
  BY <1>2 DEF ExactlyOnce, Increasing
<1> HIDE DEF a
<1> QED BY <1>2, <1>3, <1>4, <1>5, <1>6 DEF ExactlyOnce

\* What taking the oldest of the pending events leaves.
LEMMA TakeOldest ==
  ASSUME NEW s \in Seq(Nat), s # <<>>, Increasing(s)
  PROVE  /\ Elems(s) = Elems(Tail(s)) \cup {Head(s)}
         /\ Increasing(Tail(s))
         /\ \A e \in Elems(Tail(s)) : Head(s) < e
<1>1. /\ Head(s) = s[1] /\ Len(Tail(s)) = Len(s) - 1 /\ Len(s) \in Nat \ {0}
      /\ Tail(s) \in Seq(Nat)
      /\ \A i \in 1..Len(Tail(s)) : Tail(s)[i] = s[i + 1]
  BY TailFacts, EmptySeq
<1>2. \A i \in 1..Len(Tail(s)) : i + 1 \in 1..Len(s) /\ 1 < i + 1
  BY <1>1
<1>3. \A i \in 1..Len(s) : i = 1 \/ (i - 1 \in 1..Len(Tail(s)) /\ s[i] = Tail(s)[i - 1])
  <2> SUFFICES ASSUME NEW i \in 1..Len(s), i # 1
               PROVE  i - 1 \in 1..Len(Tail(s)) /\ s[i] = Tail(s)[i - 1]
    OBVIOUS
  <2>1. i - 1 \in 1..Len(Tail(s)) /\ (i - 1) + 1 = i
    BY <1>1
  <2> QED BY <1>1, <2>1
<1>4. 1 \in 1..Len(s)
  BY <1>1
<1>5. Elems(s) = Elems(Tail(s)) \cup {Head(s)}
  <2>1. ASSUME NEW i \in 1..Len(s) PROVE s[i] \in Elems(Tail(s)) \cup {Head(s)}
    <3>1. CASE i = 1
      BY <3>1, <1>1
    <3>2. CASE i - 1 \in 1..Len(Tail(s)) /\ s[i] = Tail(s)[i - 1]
      BY <3>2 DEF Elems
    <3> QED BY <1>3, <3>1, <3>2
  <2>2. ASSUME NEW e \in Elems(Tail(s)) \cup {Head(s)} PROVE e \in Elems(s)
    BY <2>2, <1>1, <1>2, <1>4 DEF Elems
  <2> QED BY <2>1, <2>2 DEF Elems
<1>6. Increasing(Tail(s))
  BY <1>1, <1>2 DEF Increasing
<1>7. \A e \in Elems(Tail(s)) : Head(s) < e
  BY <1>1, <1>2, <1>4 DEF Increasing, Elems
<1> QED BY <1>5, <1>6, <1>7

LEMMA DeliverKeepsOnce ==
  ASSUME TypeOK, ExactlyOnce, Pending \in Seq(Nat), Channel!Deliver
  PROVE  ExactlyOnce'
<1> DEFINE h == Head(Pending)
<1>1. /\ Pending # <<>> /\ Pending' = Tail(Pending) /\ h \in Nat
      /\ delivered' = Append(delivered, h) /\ UNCHANGED <<accepted, flushed>>
  BY TailFacts DEF Channel!Deliver
<1>2. /\ Elems(Pending) = Elems(Pending') \cup {h} /\ Increasing(Pending')
      /\ \A e \in Elems(Pending') : h < e
  BY <1>1, TakeOldest DEF ExactlyOnce
<1>3. /\ Len(delivered) \in Nat /\ Len(delivered') = Len(delivered) + 1
      /\ \A i \in 1..Len(delivered) : delivered'[i] = delivered[i]
      /\ delivered'[Len(delivered) + 1] = h
  BY <1>1, AppendFacts DEF TypeOK
<1>4. \A i \in 1..Len(delivered') : i \in 1..Len(delivered) \/ i = Len(delivered) + 1
  BY <1>3
<1>5. Elems(delivered') = Elems(delivered) \cup {h}
  <2>1. (1..Len(delivered)) \subseteq 1..Len(delivered')
        /\ Len(delivered) + 1 \in 1..Len(delivered')
    BY <1>3
  <2> QED BY <1>3, <1>4, <2>1 DEF Elems
<1>6. \A d \in Elems(delivered) : d < h
  BY <1>2 DEF ExactlyOnce
<1>7. Increasing(delivered')
  <2> SUFFICES ASSUME NEW i \in 1..Len(delivered'), NEW j \in 1..Len(delivered'), i < j
               PROVE  delivered'[i] < delivered'[j]
    BY DEF Increasing
  <2>1. i \in 1..Len(delivered) /\ delivered'[i] = delivered[i]
    BY <1>3
  <2>2. CASE j \in 1..Len(delivered)
    BY <1>3, <2>1, <2>2 DEF ExactlyOnce, Increasing
  <2>3. CASE j = Len(delivered) + 1
    BY <1>3, <1>6, <2>1, <2>3 DEF Elems
  <2> QED BY <1>4, <2>2, <2>3
<1>8. h \notin Elems(Pending')
  BY <1>1, <1>2
<1>9. \A d \in Elems(delivered'), e \in Elems(Pending') : d < e
  BY <1>2, <1>5 DEF ExactlyOnce
<1> HIDE DEF h
<1> QED BY <1>1, <1>2, <1>5, <1>7, <1>8, <1>9 DEF ExactlyOnce

LEMMA DropHeadKeepsOnce ==
  ASSUME TypeOK, ExactlyOnce, Pending \in Seq(Nat), Channel!DropHead
  PROVE  ExactlyOnce'
<1> DEFINE h == Head(Pending)
<1>1. /\ Pending # <<>> /\ Pending' = Tail(Pending) /\ h \in Nat
      /\ flushed' = flushed \cup {h} /\ UNCHANGED <<accepted, delivered>>
  BY TailFacts DEF Channel!DropHead
<1>2. /\ Elems(Pending) = Elems(Pending') \cup {h} /\ Increasing(Pending')
      /\ \A e \in Elems(Pending') : h < e
  BY <1>1, TakeOldest DEF ExactlyOnce
<1>3. Elems(delivered') = Elems(delivered) /\ Increasing(delivered')
  BY <1>1 DEF ExactlyOnce
<1>4. h \notin Elems(Pending')
  BY <1>1, <1>2
<1> HIDE DEF h
<1> QED BY <1>1, <1>2, <1>3, <1>4 DEF ExactlyOnce

LEMMA DropTailKeepsOnce ==
  ASSUME TypeOK, ExactlyOnce, Pending \in Seq(Nat), Channel!DropTail
  PROVE  ExactlyOnce'
<1>1. PICK k \in {0, 1} :
        /\ k < Len(Pending)
        /\ flushed' = flushed \cup Channel!ToSet(SubSeq(Pending, k + 1, Len(Pending)))
        /\ Pending' = SubSeq(Pending, 1, k)
        /\ UNCHANGED <<accepted, delivered>>
  BY DEF Channel!DropTail
<1> DEFINE r == SubSeq(Pending, k + 1, Len(Pending))
<1>2. Len(Pending) \in Nat /\ \A i \in 1..Len(Pending) : Pending[i] \in Nat
  OBVIOUS
<1>3. /\ Pending' \in Seq(Nat) /\ Len(Pending') = k
      /\ \A i \in 1..k : i \in 1..Len(Pending) /\ Pending'[i] = Pending[i]
  BY <1>1, <1>2
<1>4. /\ r \in Seq(Nat) /\ Len(r) = Len(Pending) - k
      /\ \A i \in 1..Len(r) : i + k \in 1..Len(Pending) /\ r[i] = Pending[i + k]
  BY <1>1, <1>2
<1> HIDE DEF r
<1>5. Channel!ToSet(r) = Elems(r)
  <2>1. DOMAIN r = 1..Len(r) /\ Channel!ToSet(r) = {r[i] : i \in DOMAIN r}
    BY <1>4 DEF Channel!ToSet
  <2> QED BY <2>1 DEF Elems
<1>6. \A i \in 1..Len(Pending) : i \in 1..k \/ (i - k \in 1..Len(r) /\ Pending[i] = r[i - k])
  <2> SUFFICES ASSUME NEW i \in 1..Len(Pending), i \notin 1..k
               PROVE  i - k \in 1..Len(r) /\ Pending[i] = r[i - k]
    OBVIOUS
  <2>1. i - k \in 1..Len(r) /\ (i - k) + k = i
    BY <1>1, <1>2, <1>4
  <2> QED BY <1>4, <2>1
<1>7. Elems(Pending) = Elems(Pending') \cup Elems(r)
  <2>1. ASSUME NEW e \in Elems(Pending) PROVE e \in Elems(Pending') \cup Elems(r)
    BY <2>1, <1>3, <1>6 DEF Elems
  <2>2. ASSUME NEW e \in Elems(Pending') PROVE e \in Elems(Pending)
    BY <2>2, <1>3 DEF Elems
  <2>3. ASSUME NEW e \in Elems(r) PROVE e \in Elems(Pending)
    BY <2>3, <1>4 DEF Elems
  <2> QED BY <2>1, <2>2, <2>3
<1>8. Elems(Pending') \cap Elems(r) = {}
  <2>1. ASSUME NEW i \in 1..k, NEW j \in 1..Len(r) PROVE Pending'[i] < r[j]
    <3>1. i \in 1..Len(Pending) /\ j + k \in 1..Len(Pending) /\ i < j + k
      BY <1>1, <1>3, <1>4
    <3> QED BY <1>3, <1>4, <3>1 DEF ExactlyOnce, Increasing
  <2>2. \A i \in 1..k : Pending'[i] \in Nat
    BY <1>2, <1>3
  <2> QED BY <1>3, <2>1, <2>2 DEF Elems
<1>9. Increasing(Pending')
  BY <1>3 DEF ExactlyOnce, Increasing
<1>10. Elems(delivered') = Elems(delivered) /\ Increasing(delivered')
       /\ flushed' = flushed \cup Elems(r) /\ accepted' = accepted
  BY <1>1, <1>5 DEF ExactlyOnce, r
<1> QED BY <1>7, <1>8, <1>9, <1>10 DEF ExactlyOnce

\* Every accepted event is pending, delivered or flushed, in one of the three only,
\* and events keep their order from the queue to the host: for every queue length
\* and set of callers, as long as the host is the only reader.
THEOREM EachEventOnce == ASSUME ShellThreads = {} PROVE Spec => []ExactlyOnce
<1>1. Init => ExactlyOnce
  <2> SUFFICES ASSUME Init PROVE ExactlyOnce
    OBVIOUS
  <2>1. Pending = <<>>
    BY EmptyHeld DEF Init, Pending, Held
  <2>2. Len(Pending) = 0 /\ Len(delivered) = 0 /\ accepted = 0 /\ flushed = {}
    BY <2>1 DEF Init
  <2>3. Elems(Pending) = {} /\ Elems(delivered) = {} /\ 1..accepted = {}
    BY <2>2 DEF Elems
  <2> QED BY <2>2, <2>3 DEF ExactlyOnce, Increasing
<1>2. ChannelInv /\ ExactlyOnce /\ [Next]_vars => ExactlyOnce'
  <2> SUFFICES ASSUME ChannelInv, ExactlyOnce, [Next]_vars PROVE ExactlyOnce'
    OBVIOUS
  <2>1. TypeOK /\ Pending \in Seq(Nat)
    BY HeldFacts DEF ChannelInv
  <2>2. CASE UNCHANGED channel
    <3>1. /\ Pending' = Pending /\ delivered' = delivered
          /\ accepted' = accepted /\ flushed' = flushed
      BY <2>2 DEF channel
    <3>2. /\ Elems(Pending)' = Elems(Pending) /\ Increasing(Pending)' = Increasing(Pending)
          /\ Elems(delivered)' = Elems(delivered)
          /\ Increasing(delivered)' = Increasing(delivered)
      BY <3>1 DEF Elems, Increasing
    <3> QED BY <3>1, <3>2 DEF ExactlyOnce
  <2> QED BY <2>1, <2>2, ChannelStep, AcceptKeepsOnce, DeliverKeepsOnce,
          DropHeadKeepsOnce, DropTailKeepsOnce
<1> QED BY <1>1, <1>2, ChannelInvariant, PTL DEF Spec
=============================================================================
