------------------------------ MODULE BootProofs ------------------------------
(***************************************************************************)
(* Proofs about booting and firmware update, for any images, any host      *)
(* commands, any limits and any number of starts.                          *)
(*                                                                         *)
(* The boot info is two copies, in RAM and retained, written by three      *)
(* threads of the bootloader and by the application.  What the properties  *)
(* say of one copy holds because the copies never differ in the mode, the  *)
(* failure count and the reasons: that is the inductive invariant.         *)
(***************************************************************************)
EXTENDS Boot, TLAPS

Validators == {"main", "work"}
Loading == {"load1", "next", "load2", "commit", "jump"}

SameReasons(i, j) ==
    i.reset_reason = j.reset_reason /\ i.last_reset_reason = j.last_reset_reason

\* Both copies tell the same, and what was asked for since the start.
InfoInv ==
    /\ info \in BootInfo /\ retained \in BootInfo
    /\ info.reset_reason = asked /\ info.last_reset_reason = expected
    /\ SameReasons(retained, info)
    /\ retained.boot_mode = info.boot_mode /\ retained.fails = info.fails

\* Only an exit takes the mode of a bootloader that is held, and its two
\* validations stop at the mode.
StayInv ==
    held => /\ running # "app" /\ info.boot_mode = "STAY"
            /\ pc["main"] \notin Loading /\ pc["work"] \notin Loading

\* The mode is cleared only by an exit, whose work ends with it set or not at all,
\* and by a load, which clears the count as well.
StuckInv ==
    running = "boot" /\ pc["main"] = "off" /\ pc["work"] = "off" /\ ~work
      /\ info.fails >= FailLimit => info.boot_mode = "STAY"

Inv == InfoInv /\ DOMAIN pc = Threads /\ StayInv /\ StuckInv

LEMMA ThreadNames ==
  /\ Threads = {"main", "work", "acpi"} /\ Validators = {"main", "work"}
  /\ "main" # "work" /\ "main" # "acpi" /\ "work" # "acpi"
BY DEF Threads, Validators

LEMMA Limits == /\ FailLimit \in Nat /\ FailLimit >= 1
                /\ MaxFails \in Nat /\ FailLimit <= MaxFails
<1>1. FailLimit \in Nat \ {0} /\ MaxFails \in Nat /\ FailLimit <= MaxFails
  BY BootAssumption
<1> QED BY <1>1

\* What the edits of the boot info change and what they leave alone.
LEMMA ModeEdited ==
  ASSUME NEW i \in BootInfo, NEW m \in {"NORMAL", "STAY"}
  PROVE  LET j == [i EXCEPT !.boot_mode = m] IN
         j \in BootInfo /\ SameReasons(j, i) /\ j.boot_mode = m /\ j.fails = i.fails
BY DEF BootInfo, SameReasons

LEMMA CrcEdited ==
  ASSUME NEW i \in BootInfo, NEW c \in {"PASSED", "FAILED"}
  PROVE  LET j == [i EXCEPT !.crc = c] IN
         /\ j \in BootInfo /\ SameReasons(j, i)
         /\ j.boot_mode = i.boot_mode /\ j.fails = i.fails
BY DEF BootInfo, SameReasons

LEMMA ValidityEdited ==
  ASSUME NEW i \in BootInfo, NEW b \in BOOLEAN
  PROVE  LET j == [i EXCEPT !.act_main = b] IN
         /\ j \in BootInfo /\ SameReasons(j, i)
         /\ j.boot_mode = i.boot_mode /\ j.fails = i.fails
BY DEF BootInfo, SameReasons

LEMMA ReasonEdited ==
  ASSUME NEW i \in BootInfo, NEW r \in Reasons
  PROVE  LET j == [i EXCEPT !.reset_reason = r] IN
         /\ j \in BootInfo /\ j.reset_reason = r
         /\ j.last_reset_reason = i.last_reset_reason
         /\ j.boot_mode = i.boot_mode /\ j.fails = i.fails
BY DEF BootInfo

LEMMA EnterEdited ==
  ASSUME NEW i \in BootInfo
  PROVE  LET j == [i EXCEPT !.boot_mode = "STAY", !.reset_reason = "ENTER_BBK"] IN
         /\ j \in BootInfo /\ j.reset_reason = "ENTER_BBK"
         /\ j.last_reset_reason = i.last_reset_reason
BY DEF BootInfo, Reasons

LEMMA LoadedEdited ==
  ASSUME NEW i \in BootInfo
  PROVE  LET j == [i EXCEPT !.boot_mode = "NORMAL", !.fails = 0, !.act_main = TRUE] IN
         j \in BootInfo /\ SameReasons(j, i) /\ j.fails = 0
<1>1. 0 \in 0..MaxFails
  BY Limits
<1> QED BY <1>1 DEF BootInfo, SameReasons

LEMMA MarkedFail ==
  ASSUME NEW i \in BootInfo
  PROVE  /\ MarkFail(i) \in BootInfo /\ SameReasons(MarkFail(i), i)
         /\ i.boot_mode = "STAY" => MarkFail(i).boot_mode = "STAY"
         /\ MarkFail(i).fails >= FailLimit => MarkFail(i).boot_mode = "STAY"
<1> DEFINE n == IF i.fails < MaxFails THEN i.fails + 1 ELSE i.fails
           b == IF n >= FailLimit THEN "STAY" ELSE i.boot_mode
<1>1. i.fails \in 0..MaxFails
  BY DEF BootInfo
<1>2. n \in 0..MaxFails /\ b \in {"NORMAL", "STAY"} /\ (n >= FailLimit => b = "STAY")
      /\ (i.boot_mode = "STAY" => b = "STAY")
  BY <1>1, Limits DEF BootInfo
<1>3. MarkFail(i) = [i EXCEPT !.act_main = FALSE, !.fails = n, !.boot_mode = b]
  BY DEF MarkFail
<1> HIDE DEF n, b
<1> QED BY <1>2, <1>3 DEF BootInfo, SameReasons

\* Every start begins from the retained copy, or from nothing.
LEMMA Started ==
  ASSUME NEW r \in BootInfo \cup {LOST}, r = LOST \/ r \in BootInfo
  PROVE  /\ InitInfo(r) \in BootInfo /\ InitInfo(r).reset_reason = "UNKNOWN"
         /\ InitInfo(r).last_reset_reason = IF r = LOST THEN "POR" ELSE r.reset_reason
         /\ r # LOST => InitInfo(r).boot_mode = r.boot_mode
<1>1. {"UNKNOWN", "POR"} \subseteq Reasons
  BY DEF Reasons
<1>2. CASE r = LOST
  BY <1>1, <1>2, Limits DEF InitInfo, BootInfo
<1>3. CASE r # LOST
  BY <1>1, <1>3 DEF InitInfo, BootInfo
<1> QED BY <1>2, <1>3

LEMMA RetainedIsNotLost == \A i \in BootInfo : i # LOST
BY DEF BootInfo, LOST

-----------------------------------------------------------------------------
LEMMA InitInv == Init => Inv
<1> SUFFICES ASSUME Init PROVE Inv
  OBVIOUS
<1>1. InfoInv
  BY Started DEF Init, InfoInv, SameReasons
<1> QED BY <1>1, ThreadNames DEF Init, Inv, StayInv, StuckInv

\* A start: nothing but the retained copy is left.
LEMMA RestartInv ==
  ASSUME Inv, NEW r \in {retained, LOST}, Restart(r) PROVE Inv'
<1>1. retained \in BootInfo /\ retained # LOST /\ retained.reset_reason = asked
  BY RetainedIsNotLost DEF Inv, InfoInv, SameReasons
<1>2. /\ InitInfo(r) \in BootInfo /\ InitInfo(r).reset_reason = "UNKNOWN"
      /\ InitInfo(r).last_reset_reason = IF r = LOST THEN "POR" ELSE r.reset_reason
      /\ r # LOST => InitInfo(r).boot_mode = r.boot_mode
  BY <1>1, Started
<1>3. /\ info' = InitInfo(r) /\ retained' = InitInfo(r) /\ running' = "boot"
      /\ asked' = "UNKNOWN" /\ expected' = (IF r = LOST THEN "POR" ELSE asked)
      /\ held' = (r # LOST /\ r.boot_mode = "STAY")
  BY DEF Restart
<1>4. /\ DOMAIN pc' = Threads /\ pc'["main"] = "start" /\ pc'["work"] = "off"
  BY ThreadNames DEF Restart, Fresh
<1>5. InfoInv'
  BY <1>1, <1>2, <1>3 DEF InfoInv, SameReasons
<1>6. StayInv' /\ StuckInv'
  BY <1>2, <1>3, <1>4 DEF StayInv, StuckInv, Loading
<1> QED BY <1>4, <1>5, <1>6 DEF Inv

\* A step that leaves the boot info alone.
LEMMA InfoStays ==
  ASSUME InfoInv, UNCHANGED <<info, retained, asked, expected>> PROVE InfoInv'
BY DEF InfoInv, SameReasons

\* A step that saves the boot info.
LEMMA InfoSaved ==
  ASSUME NEW i \in BootInfo, Save(i), i.reset_reason = asked', i.last_reset_reason = expected'
  PROVE  InfoInv' /\ info' = i
BY DEF InfoInv, SameReasons, Save

\* ... edited in the mode, the validity or the reset reason.
LEMMA InfoEdited ==
  ASSUME InfoInv, NEW i \in BootInfo, Save(i), i.reset_reason = asked',
         i.last_reset_reason = info.last_reset_reason, UNCHANGED expected
  PROVE  InfoInv' /\ info' = i
BY InfoSaved DEF InfoInv

LEMMA StaySaved ==
  ASSUME InfoInv, info \in BootInfo, Save([info EXCEPT !.boot_mode = "STAY"]),
         UNCHANGED <<asked, expected>>
  PROVE  InfoInv' /\ info'.boot_mode = "STAY"
<1> DEFINE j == [info EXCEPT !.boot_mode = "STAY"]
<1>1. j \in BootInfo /\ SameReasons(j, info) /\ j.boot_mode = "STAY"
  BY ModeEdited
<1>2. Save(j)
  OBVIOUS
<1> HIDE DEF j
<1> QED BY <1>1, <1>2, InfoEdited DEF InfoInv, SameReasons

\* A failed validation ends.
LEMMA FailInv ==
  ASSUME Inv, NEW t \in Validators, running = "boot", UNCHANGED <<running, work>>,
         NEW i \in BootInfo, SameReasons(i, info), i.boot_mode = info.boot_mode,
         Save(MarkFail(i)), Finish(t), FinishUnchanged
  PROVE  Inv'
<1>1. /\ MarkFail(i) \in BootInfo /\ SameReasons(MarkFail(i), i)
      /\ i.boot_mode = "STAY" => MarkFail(i).boot_mode = "STAY"
      /\ MarkFail(i).fails >= FailLimit => MarkFail(i).boot_mode = "STAY"
  BY MarkedFail
<1>2. InfoInv' /\ info' = MarkFail(i)
  BY <1>1, InfoSaved DEF Inv, InfoInv, SameReasons, FinishUnchanged
<1>3. /\ DOMAIN pc' = Threads
      /\ \A u \in Validators : pc'[u] = IF u # t THEN pc[u]
                                        ELSE IF t = "main" THEN "off" ELSE "giveup"
  BY ThreadNames DEF Inv, Finish, Goto
<1>4. StayInv'
  BY <1>1, <1>2, <1>3, ThreadNames DEF Inv, StayInv, Loading, FinishUnchanged
<1>5. StuckInv'
  BY <1>1, <1>2 DEF StuckInv
<1> QED BY <1>2, <1>3, <1>4, <1>5 DEF Inv

\* A thread goes on, not past the mode of a bootloader that is to stay.
LEMMA GoesOn ==
  ASSUME Inv, NEW t \in Threads, NEW l, Goto(t, l), InfoInv',
         UNCHANGED <<running, work, held>>,
         info'.boot_mode = info.boot_mode, info'.fails = info.fails,
         l \in Loading => ~held \/ t = "acpi" \/ pc[t] \in Loading \/ info.boot_mode # "STAY",
         l = "off" => info.boot_mode = "STAY"
  PROVE  Inv'
<1>1. /\ DOMAIN pc' = Threads /\ pc'[t] = l
      /\ \A u \in Threads : u # t => pc'[u] = pc[u]
  BY DEF Inv, Goto
<1>2. StayInv'
  BY <1>1, ThreadNames DEF Inv, StayInv
<1>3. StuckInv'
  BY <1>1, ThreadNames DEF Inv, StuckInv
<1> QED BY <1>1, <1>2, <1>3 DEF Inv

-----------------------------------------------------------------------------
(* ec_validate_image_header.                                               *)

LEMMA CheckedInv ==
  ASSUME Inv, NEW t \in Validators, running = "boot", UNCHANGED <<running, work>>,
         NEW v, Checked(t, v)
  PROVE  Inv'
<1> DEFINE c == IF v = hdr[t] THEN "PASSED" ELSE "FAILED"
           i == [info EXCEPT !.crc = c]
<1>1. info \in BootInfo /\ c \in {"PASSED", "FAILED"}
  BY DEF Inv, InfoInv
<1>2. /\ i \in BootInfo /\ SameReasons(i, info)
      /\ i.boot_mode = info.boot_mode /\ i.fails = info.fails
  <2> HIDE DEF c
  <2> QED BY <1>1, CrcEdited
<1>3. CASE v = hdr[t]
  <2>1. info' = i /\ Goto(t, "mode") /\ UNCHANGED <<retained, asked, expected, held>>
    BY <1>3 DEF Checked, history
  <2> HIDE DEF i, c
  <2>2. InfoInv'
    BY <1>2, <2>1 DEF Inv, InfoInv, SameReasons
  <2> QED BY <1>2, <2>1, <2>2, GoesOn, ThreadNames DEF Loading
<1>4. CASE v # hdr[t]
  <2>1. Save(MarkFail(i)) /\ Finish(t) /\ FinishUnchanged
    BY <1>4 DEF Checked
  <2> HIDE DEF i, c
  <2> QED BY <1>2, <2>1, FailInv
<1> QED BY <1>3, <1>4

LEMMA ValidateInv ==
  ASSUME Inv, NEW t \in Validators, running = "boot", Validate(t) PROVE Inv'
<1>1. InfoInv /\ info \in BootInfo /\ SameReasons(info, info) /\ t \in Threads
  BY ThreadNames DEF Inv, InfoInv, SameReasons
<1>2. CASE ReadHeader(t)
  <2>1. Goto(t, "header") /\ UNCHANGED <<running, work, info, retained, asked, expected, held>>
    BY <1>2 DEF ReadHeader, shared, history
  <2> QED BY <1>1, <2>1, InfoStays, GoesOn DEF Loading
<1>3. CASE CheckHeader(t)
  <2>1. UNCHANGED <<running, work>>
    BY <1>3 DEF CheckHeader
  <2>2. CASE hdr[t] \notin Images
    BY <1>1, <1>3, <2>1, <2>2, FailInv DEF CheckHeader
  <2>3. CASE hdr[t] \in Images
    <3>1. /\ UNCHANGED <<info, retained, asked, expected, held>>
          /\ \E l \in {"mode", "sum", "crc"} : Goto(t, l)
      <4>1. Validation[hdr[t]] \in {"NONE", "CRC", "CHECKSUM"}
        BY <2>3, BootAssumption
      <4> QED BY <1>3, <2>3, <4>1 DEF CheckHeader, history
    <3> QED BY <1>1, <2>1, <3>1, InfoStays, GoesOn DEF Loading
  <2> QED BY <2>2, <2>3
<1>4. CASE CheckCrc(t) \/ CheckSum(t)
  <2>1. UNCHANGED <<running, work>> /\ \E v : Checked(t, v)
    BY <1>4 DEF CheckCrc, CheckSum
  <2> QED BY <2>1, CheckedInv
<1>5. CASE CheckMode(t)
  <2>1. UNCHANGED <<running, work, info, retained, asked, expected, held>>
    BY <1>5 DEF CheckMode, shared, history, FinishUnchanged
  <2>2. CASE info.boot_mode = "STAY"
    <3>1. Goto(t, IF t = "main" THEN "off" ELSE "giveup")
      BY <1>5, <2>2 DEF CheckMode, Finish
    <3> QED BY <1>1, <2>1, <2>2, <3>1, InfoStays, GoesOn DEF Loading
  <2>3. CASE info.boot_mode # "STAY"
    <3>1. Goto(t, "load1")
      BY <1>5, <2>3 DEF CheckMode
    <3> QED BY <1>1, <2>1, <2>3, <3>1, InfoStays, GoesOn
  <2> QED BY <2>2, <2>3
<1>6. CASE LoadNext(t)
  <2>1. /\ Goto(t, "load2") /\ pc[t] \in Loading
        /\ UNCHANGED <<running, work, info, retained, asked, expected, held>>
    BY <1>6 DEF LoadNext, shared, history, Loading
  <2> QED BY <1>1, <2>1, InfoStays, GoesOn
<1>7. CASE LoadDone(t)
  <2>1. UNCHANGED <<running, work>> /\ pc[t] \in Loading
    BY <1>7 DEF LoadDone, Loading
  <2>2. CASE operation_result[t] = "ok"
    <3>1. /\ UNCHANGED <<info, retained, asked, expected, held>>
          /\ \E l \in {"next", "commit"} : Goto(t, l)
      BY <1>7, <2>2 DEF LoadDone, history
    <3> QED BY <1>1, <2>1, <3>1, InfoStays, GoesOn
  <2>3. CASE operation_result[t] # "ok"
    BY <1>1, <1>7, <2>1, <2>3, FailInv DEF LoadDone
  <2> QED BY <2>2, <2>3
<1>8. CASE Commit(t)
  <2> DEFINE i == [info EXCEPT !.boot_mode = "NORMAL", !.fails = 0, !.act_main = TRUE]
  <2>1. i \in BootInfo /\ SameReasons(i, info) /\ i.fails = 0
    BY <1>1, LoadedEdited
  <2>2. Save(i) /\ UNCHANGED <<asked, expected, held>> /\ ~held /\ DOMAIN pc' = Threads
    BY <1>8, ThreadNames DEF Commit, history, Inv, StayInv, Loading, Goto
  <2> HIDE DEF i
  <2>3. InfoInv' /\ info' = i
    BY <2>1, <2>2, InfoSaved DEF Inv, InfoInv, SameReasons
  <2>4. StayInv' /\ StuckInv'
    BY <2>1, <2>2, <2>3, Limits DEF StayInv, StuckInv
  <2> QED BY <2>2, <2>3, <2>4 DEF Inv
<1>9. CASE Jump(t)
  <2>1. ~held /\ UNCHANGED <<held, retained, asked, expected>> /\ running' = "app"
        /\ info' = retained /\ DOMAIN pc' = Threads
    BY <1>9, ThreadNames DEF Jump, Fresh, Inv, StayInv, Loading
  <2>2. InfoInv'
    BY <2>1 DEF Inv, InfoInv, SameReasons
  <2> QED BY <2>1, <2>2 DEF Inv, StayInv, StuckInv
<1> QED BY <1>2, <1>3, <1>4, <1>5, <1>6, <1>7, <1>8, <1>9 DEF Validate

-----------------------------------------------------------------------------
(* The delayed work, the host's commands, the application.                 *)

LEMMA WorkInv ==
  ASSUME Inv, running = "boot", WorkStart \/ GiveUp PROVE Inv'
<1>1. InfoInv /\ info \in BootInfo
  BY DEF Inv, InfoInv
<1>2. CASE WorkStart
  <2>1. /\ Goto("work", "start")
        /\ UNCHANGED <<running, info, retained, asked, expected, held>>
    BY <1>2 DEF WorkStart, shared, history
  <2>2. InfoInv'
    BY <1>1, <2>1, InfoStays
  <2>3. DOMAIN pc' = Threads /\ pc'["work"] = "start" /\ pc'["main"] = pc["main"]
    BY <2>1, ThreadNames DEF Inv, Goto
  <2> QED BY <2>1, <2>2, <2>3 DEF Inv, StayInv, StuckInv, Loading
<1>3. CASE GiveUp
  <2>1. /\ Save([info EXCEPT !.boot_mode = "STAY"]) /\ Goto("work", "off")
        /\ UNCHANGED <<running, asked, expected, held>>
    BY <1>3 DEF GiveUp, history
  <2>2. InfoInv' /\ info'.boot_mode = "STAY"
    BY <1>1, <2>1, StaySaved
  <2>3. DOMAIN pc' = Threads /\ pc'["work"] = "off" /\ pc'["main"] = pc["main"]
    BY <2>1, ThreadNames DEF Inv, Goto
  <2> QED BY <2>1, <2>2, <2>3 DEF Inv, StayInv, StuckInv, Loading
<1> QED BY <1>2, <1>3

\* The command leaves the validations and the mode alone.
LEMMA AcpiInv ==
  ASSUME Inv, InfoInv', DOMAIN pc' = Threads, UNCHANGED <<pc["main"], pc["work"], work>>,
         UNCHANGED held, running' = running \/ running' = "halted",
         info'.boot_mode = info.boot_mode, info'.fails = info.fails
  PROVE  Inv'
BY DEF Inv, StayInv, StuckInv

\* What EXCEPT does to the other threads.
LEMMA AcpiGoes ==
  ASSUME DOMAIN pc = Threads, NEW l, Goto("acpi", l)
  PROVE  DOMAIN pc' = Threads /\ UNCHANGED <<pc["main"], pc["work"]>>
BY ThreadNames DEF Goto

LEMMA ControlInv == ASSUME Inv, running = "boot", AcpiControl PROVE Inv'
<1>1. InfoInv /\ info \in BootInfo /\ DOMAIN pc = Threads
  BY DEF Inv, InfoInv
<1>2. CASE EnterBootloader
  <2>1. /\ Save([info EXCEPT !.boot_mode = "STAY"])
        /\ UNCHANGED <<running, pc, work, asked, expected, held>>
    BY <1>2 DEF EnterBootloader, control
  <2>2. InfoInv' /\ info'.boot_mode = "STAY"
    BY <1>1, <2>1, StaySaved
  <2> QED BY <2>1, <2>2 DEF Inv, StayInv, StuckInv
<1>3. CASE ExitBootloader
  <2>1. /\ Save([info EXCEPT !.boot_mode = "NORMAL"])
        /\ UNCHANGED <<pc, asked, expected>> /\ ~held' /\ work'
    BY <1>3 DEF ExitBootloader
  <2> DEFINE j == [info EXCEPT !.boot_mode = "NORMAL"]
  <2>2. j \in BootInfo /\ SameReasons(j, info) /\ Save(j)
    BY <1>1, <2>1, ModeEdited
  <2> HIDE DEF j
  <2>3. InfoInv'
    BY <1>1, <2>1, <2>2, InfoSaved DEF InfoInv, SameReasons
  <2> QED BY <2>1, <2>3 DEF Inv, StayInv, StuckInv
<1>4. ASSUME NEW r \in {"HOST_REQ", "PANIC", "WDT"}, NEW l,
             Save([info EXCEPT !.reset_reason = r]), Asks(r), Goto("acpi", l),
             running' = running \/ running' = "halted", UNCHANGED work
      PROVE  Inv'
  <2>1. r \in Reasons
    BY DEF Reasons
  <2> DEFINE j == [info EXCEPT !.reset_reason = r]
  <2>2. /\ j \in BootInfo /\ j.reset_reason = r
        /\ j.last_reset_reason = info.last_reset_reason
        /\ j.boot_mode = info.boot_mode /\ j.fails = info.fails
    BY <1>1, <2>1, ReasonEdited
  <2>3. Save(j) /\ asked' = r /\ UNCHANGED <<expected, held>>
    BY <1>4 DEF Asks
  <2> HIDE DEF j
  <2>4. InfoInv' /\ info' = j
    BY <1>1, <2>2, <2>3, InfoEdited
  <2> QED BY <1>1, <1>4, <2>2, <2>3, <2>4, AcpiGoes, AcpiInv DEF Asks
<1>5. CASE ResetEc
  BY <1>4, <1>5 DEF ResetEc
<1>6. CASE CrashKernelOops \/ CrashAssert \/ CrashWatchdog
  <2>1. \E c, l : \E r \in {"PANIC", "WDT"} : Crash(c, r, l)
    BY <1>6 DEF CrashKernelOops, CrashAssert, CrashWatchdog
  <2> QED BY <1>4, <2>1 DEF Crash
<1>7. CASE RunCrc
  <2> DEFINE i == [info EXCEPT !.crc = "FAILED"]
  <2>1. /\ info' = i /\ Goto("acpi", "run_crc")
        /\ UNCHANGED <<running, retained, work, asked, expected, held>>
    BY <1>7 DEF RunCrc, history
  <2>2. /\ i \in BootInfo /\ SameReasons(i, info)
        /\ i.boot_mode = info.boot_mode /\ i.fails = info.fails
    BY <1>1, CrcEdited
  <2> HIDE DEF i
  <2>3. InfoInv'
    BY <1>1, <2>1, <2>2 DEF InfoInv, SameReasons
  <2> QED BY <1>1, <2>1, <2>2, <2>3, AcpiGoes, AcpiInv
<1> QED BY <1>2, <1>3, <1>5, <1>6, <1>7 DEF AcpiControl

LEMMA UpdateInv ==
  ASSUME Inv, running = "boot", AcpiUpdate \/ AcpiContinue PROVE Inv'
<1>1. InfoInv /\ info \in BootInfo /\ DOMAIN pc = Threads
  BY DEF Inv, InfoInv
<1>2. ASSUME NEW l, Goto("acpi", l),
             UNCHANGED <<running, info, retained, work, asked, expected, held>>
      PROVE  Inv'
  BY <1>1, <1>2, InfoStays, AcpiGoes, AcpiInv
<1>3. CASE AcpiUpdate
  <2>1. CASE ErasePartition
    BY <1>2, <2>1 DEF ErasePartition, shared, history
  <2>2. CASE \E q \in 0..2 : EraseRegion(q) \/ ReadSetup(q)
    BY <1>2, <2>2 DEF EraseRegion, ReadSetup, shared, history
  <2>3. CASE \E i \in Images : WriteRamBuffer(i)
    <3>1. UNCHANGED <<running, info, retained, pc, work, asked, expected, held>>
      BY <2>3 DEF WriteRamBuffer, shared, control, history
    <3> QED BY <1>1, <3>1, InfoStays, AcpiInv
  <2>4. CASE \E q \in 0..2, auto \in BOOLEAN : WriteDesignatedRegion(q, auto)
    BY <1>2, <2>4 DEF WriteDesignatedRegion, shared, history
  <2> QED BY <1>3, <2>1, <2>2, <2>3, <2>4 DEF AcpiUpdate
<1>4. CASE AcpiContinue
  <2>1. CASE EraseDone
    <3>1. /\ Goto("acpi", "idle") /\ retained' = info
          /\ UNCHANGED <<running, info, work, asked, expected, held>>
      BY <2>1 DEF EraseDone, history
    <3>2. InfoInv'
      BY <1>1, <3>1 DEF InfoInv, SameReasons
    <3> QED BY <1>1, <3>1, <3>2, AcpiGoes, AcpiInv
  <2>2. CASE WriteDone \/ RequestDone
    BY <1>2, <2>2 DEF WriteDone, RequestDone, shared, history
  <2>3. ASSUME NEW i \in BootInfo, SameReasons(i, info), i.boot_mode = info.boot_mode,
               i.fails = info.fails, CrcVerdict(i), Goto("acpi", "idle"),
               UNCHANGED <<running, work, asked, expected, held>>
        PROVE  Inv'
    <3> DEFINE b == i.crc = "PASSED"
    <3>1. Save([i EXCEPT !.act_main = b]) /\ b \in BOOLEAN
      BY <2>3 DEF CrcVerdict
    <3> HIDE DEF b
    <3> DEFINE j == [i EXCEPT !.act_main = b]
    <3>2. /\ j \in BootInfo /\ SameReasons(j, i)
          /\ j.boot_mode = i.boot_mode /\ j.fails = i.fails
      BY <2>3, <3>1, ValidityEdited
    <3>3. Save(j)
      BY <3>1
    <3> HIDE DEF j
    <3>4. InfoInv' /\ info' = j
      BY <1>1, <2>3, <3>2, <3>3, InfoEdited DEF InfoInv, SameReasons
    <3> QED BY <1>1, <2>3, <3>2, <3>4, AcpiGoes, AcpiInv
  <2>4. CASE RunCrcRequest
    <3>1. UNCHANGED <<running, work, asked, expected, held>>
      BY <2>4 DEF RunCrcRequest, history
    <3>2. CASE hdr["acpi"] \in Images
      BY <1>2, <2>4, <3>1, <3>2 DEF RunCrcRequest
    <3>3. CASE hdr["acpi"] \notin Images
      BY <1>1, <2>3, <2>4, <3>1, <3>3 DEF RunCrcRequest, SameReasons
    <3> QED BY <3>2, <3>3
  <2>5. CASE RunCrcDone
    <3>1. /\ UNCHANGED <<running, work, asked, expected, held>> /\ Goto("acpi", "idle")
          /\ \/ CrcVerdict(info)
             \/ \E c \in {"PASSED", "FAILED"} : CrcVerdict([info EXCEPT !.crc = c])
      BY <2>5 DEF RunCrcDone, history
    <3>2. CASE CrcVerdict(info)
      BY <1>1, <2>3, <3>1, <3>2 DEF SameReasons
    <3>3. ASSUME NEW c \in {"PASSED", "FAILED"}, CrcVerdict([info EXCEPT !.crc = c])
          PROVE  Inv'
      <4> DEFINE i == [info EXCEPT !.crc = c]
      <4>1. /\ i \in BootInfo /\ SameReasons(i, info)
            /\ i.boot_mode = info.boot_mode /\ i.fails = info.fails
        BY <1>1, CrcEdited
      <4>2. CrcVerdict(i)
        BY <3>3
      <4> HIDE DEF i
      <4> QED BY <2>3, <3>1, <4>1, <4>2
    <3> QED BY <3>1, <3>2, <3>3
  <2>6. CASE PutStep("acpi")
    <3>1. UNCHANGED <<running, info, retained, pc, work, asked, expected, held>>
      BY <2>6 DEF PutStep, shared, control, history
    <3> QED BY <1>1, <3>1, InfoStays, AcpiInv
  <2> QED BY <1>4, <2>1, <2>2, <2>4, <2>5, <2>6 DEF AcpiContinue
<1> QED BY <1>3, <1>4

\* The flash service, and calls to it, touch none of this.
LEMMA FlashInvStays ==
  ASSUME Inv, FlashServiceThread \/ (\E t \in Threads : PutStep(t)) \/ UNCHANGED vars
  PROVE  Inv'
<1>1. UNCHANGED <<running, info, retained, pc, work, asked, expected, held>>
  <2>1. CASE FlashServiceThread
    BY <2>1 DEF FlashServiceThread, FlashThread, ExecuteErase, ExecuteWrite, ExecuteRead,
                ExecuteCrc, ExecuteLoad, ChangeFlash, shared, control, history
  <2>2. CASE \E t \in Threads : PutStep(t)
    BY <2>2 DEF PutStep, shared, control, history
  <2>3. CASE UNCHANGED vars
    BY <2>3 DEF vars, shared, control, history
  <2> QED BY <2>1, <2>2, <2>3
<1> QED BY <1>1, InfoStays, AcpiInv DEF Inv

LEMMA AppInv ==
  ASSUME Inv, AppEnterBootloader \/ AppShellJump PROVE Inv'
<1>1. InfoInv /\ info \in BootInfo /\ running = "app" /\ ~held
  BY DEF Inv, InfoInv, StayInv, AppEnterBootloader, AppShellJump
<1>2. UNCHANGED <<running, pc, held>>
  BY DEF AppEnterBootloader, AppShellJump
<1>3. InfoInv'
  <2>1. CASE AppEnterBootloader
    <3> DEFINE j == [info EXCEPT !.boot_mode = "STAY", !.reset_reason = "ENTER_BBK"]
    <3>1. /\ j \in BootInfo /\ j.reset_reason = "ENTER_BBK"
          /\ j.last_reset_reason = info.last_reset_reason
      BY <1>1, EnterEdited
    <3>2. Save(j) /\ asked' = "ENTER_BBK" /\ UNCHANGED expected
      BY <2>1 DEF AppEnterBootloader
    <3> HIDE DEF j
    <3> QED BY <1>1, <3>1, <3>2, InfoEdited
  <2>2. CASE AppShellJump
    <3> DEFINE j == [info EXCEPT !.boot_mode = "NORMAL"]
    <3>1. j \in BootInfo /\ SameReasons(j, info)
      BY <1>1, ModeEdited
    <3>2. Save(j) /\ UNCHANGED <<asked, expected>>
      BY <2>2 DEF AppShellJump
    <3> HIDE DEF j
    <3> QED BY <1>1, <3>1, <3>2, InfoEdited DEF InfoInv, SameReasons
  <2> QED BY <2>1, <2>2
<1> QED BY <1>1, <1>2, <1>3 DEF Inv, StayInv, StuckInv

LEMMA NextInv == Inv /\ [Next]_vars => Inv'
<1> SUFFICES ASSUME Inv, [Next]_vars PROVE Inv'
  OBVIOUS
<1>1. CASE Bootloader
  <2>1. running = "boot"
    BY <1>1 DEF Bootloader
  <2>2. CASE WorkThread \/ MainThread
    BY <2>1, <2>2, WorkInv, ValidateInv, FlashInvStays, ThreadNames DEF WorkThread, MainThread
  <2>3. CASE AcpiControl \/ AcpiUpdate \/ AcpiContinue
    BY <2>1, <2>3, ControlInv, UpdateInv
  <2>4. CASE FlashServiceThread
    BY <2>4, FlashInvStays
  <2> QED BY <1>1, <2>2, <2>3, <2>4 DEF Bootloader
<1>2. CASE Reboot \/ AppJump \/ UnaskedReset
  BY <1>2, RestartInv DEF Reboot, AppJump, UnaskedReset, Reset
<1>3. CASE AppEnterBootloader \/ AppShellJump
  BY <1>3, AppInv
<1>4. CASE UNCHANGED vars
  BY <1>4, FlashInvStays
<1> QED BY <1>1, <1>2, <1>3, <1>4 DEF Next

\* Every start reports the reason recorded last before the reset, once, or a power-on
\* when the reset lost the boot info.
THEOREM ReasonIsReported == Spec => []ReasonIsLastAsked
<1>1. Inv => ReasonIsLastAsked
  BY DEF Inv, InfoInv, ReasonIsLastAsked
<1> QED BY <1>1, InitInv, NextInv, PTL DEF Spec

\* A bootloader that started with retained orders to stay neither starts nor loads
\* the application until it is told to exit or loses them in a reset.
THEOREM BootloaderStays == Spec => []StaysUntilTold
<1>1. Inv => StaysUntilTold
  BY ThreadNames DEF Inv, StayInv, StaysUntilTold, Loading
<1> QED BY <1>1, InitInv, NextInv, PTL DEF Spec

\* An image that failed FailLimit times is not tried again by a reset.
THEOREM StuckImageIsKept == Spec => []StuckImageStays
<1>1. Inv => StuckImageStays
  BY DEF Inv, InfoInv, StuckInv, StuckImageStays
<1> QED BY <1>1, InitInv, NextInv, PTL DEF Spec

=============================================================================
