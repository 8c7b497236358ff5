--------------------------------- MODULE Boot ---------------------------------
(***************************************************************************)
(* Booting and firmware update: the bootloader (bootloader/main.c,         *)
(* driver/storage_bootloader.c, service/acpi/ec_fw_update_bootloader.c)    *)
(* with its flash service, the part of the application that hands over to  *)
(* it (service/acpi/ec_fw_update.c, driver/storage.c, app/main.c), the     *)
(* flash, the RAM the application runs from and the retained boot info.    *)
(*                                                                         *)
(* Three threads of the bootloader ask for flash operations: main and the  *)
(* delayed work of "exit bootloader" both run ec_validate_image_header; the*)
(* ACPI thread runs one host command at a time.  They share the boot info  *)
(* without a lock and can be preempted by one another between statements.  *)
(*                                                                         *)
(* The work runs on the cooperative system work queue, main and ACPI at the*)
(* same preemptible priority below it, the flash service below them.       *)
(*                                                                         *)
(* The image is a header (piece 0) and two halves (pieces 1 and 2), which  *)
(* the loader copies one at a time as it copies 512-byte chunks.           *)
(***************************************************************************)
EXTENDS FlashService

CONSTANTS
    Images,         \* the firmware images there are
    Validation,     \* each image's validation control: "NONE", "CRC", "CHECKSUM"
    HostCommands,   \* bound: the commands the host uses
    FlashFails,     \* whether flash operations may fail
    MaxBoots,       \* bound: starts of the bootloader in a behaviour
    MaxUpdates,     \* bound: commands of the host that use flash or its buffer
    FailLimit,      \* EC_BOOT_FAIL_LIMIT
    MaxFails        \* where boot_fail_count saturates (UINT8_MAX in the code)

ASSUME BootAssumption ==
    /\ Validation \in [Images -> {"NONE", "CRC", "CHECKSUM"}]
    /\ Images \cap {"blank", "mixed", "ok", "error", "other"} = {}
    /\ FailLimit \in Nat \ {0} /\ MaxFails \in Nat /\ FailLimit <= MaxFails
    /\ MaxBoots \in Nat /\ MaxUpdates \in Nat /\ FlashFails \in BOOLEAN

VARIABLES
    running,    \* "boot", "app", or "halted" after a fatal error
    info,       \* boot info: the copy in RAM ...
    retained,   \* ... and the retained copy; LOST: not valid after a reset
    flash, ram, \* contents of the pieces in flash; in the application's RAM
    pc, hdr,    \* per thread: program counter, local copy of the header
    work,       \* the delayed work (exit bootloader; in the app: enter) is due
    ram_buffer, \* the image the host's staged data belongs to, "blank": none
    flash_wr_addr,
    crc_clash,  \* computations whose crc_buf another thread has overwritten
    updates,    \* bound: commands of the host counted up to MaxUpdates
    boots, touched, asked, expected, word, held   \* history, see below

\* What the bootloader asks of the flash service, and what it gets: a CRC is
\* right for one image only.
Threads == {"main", "work", "acpi"}
BootRequests ==
    [op : {"ERASE"}, at : {{0, 1, 2}, {0}, {1}, {2}}]
      \cup [op : {"WRITE", "READ"}, at : {{0}, {1}, {2}, {3}}]
      \cup [op : {"CRC"}, at : {{1, 2}}]
      \cup [op : {"LOAD"}, at : {{1}, {2}}]
BootResults == {"ok", "error", "other"} \cup Images

ASSUME BootFlashAssumption ==
    Clients = Threads /\ Requests = BootRequests /\ Results = BootResults

shared == <<running, info, retained>>
memory == <<flash, ram, ram_buffer, flash_wr_addr, crc_clash>>
control == <<pc, hdr, work>>
history == <<boots, touched, asked, expected, word, held>>
vars == <<flashVars, shared, memory, control, updates, history>>

Content == Images \cup {"blank", "mixed"}
LOST == [boot_mode |-> "LOST"]
Reasons == {"UNKNOWN", "POR", "HOST_REQ", "WDT", "PANIC", "ENTER_BBK"}
BootInfo == [boot_mode : {"NORMAL", "STAY"}, reset_reason : Reasons,
             last_reset_reason : Reasons, fails : 0..MaxFails,
             act_main : BOOLEAN, crc : {"PASSED", "FAILED"}]

BootTypeOK ==
    /\ FlashTypeOK
    /\ running \in {"boot", "app", "halted"}
    /\ info \in BootInfo /\ retained \in BootInfo \cup {LOST}
    /\ flash \in [0..2 -> Content] /\ ram \in [1..2 -> Content]
    /\ pc \in [Threads -> {"off", "start", "header", "sum", "crc", "mode",
                           "load1", "next", "load2", "commit", "jump", "giveup",
                           "idle", "erase", "write", "wait", "run_crc",
                           "run_crc_wait", "reboot", "hung"}]
    /\ hdr \in [Threads -> Content]
    /\ work \in BOOLEAN /\ ram_buffer \in Content /\ flash_wr_addr \in 0..3
    /\ crc_clash \subseteq Threads \cup {"flash"}
    /\ updates \in 0..MaxUpdates /\ boots \in 0..MaxBoots
    /\ touched \in [Threads -> BOOLEAN]
    /\ asked \in Reasons /\ expected \in Reasons
    /\ word \in {"none", "stay", "exit"} /\ held \in BOOLEAN

-----------------------------------------------------------------------------
(* Mistakes in this code that the properties are there to catch: each is a *)
(* definition below with one slip.  The specification does not use them.   *)

\* The reset reason of the last session is never forgotten.
InitInfo_KeepsReason(r) ==
    IF r = LOST
    THEN [boot_mode |-> "NORMAL", reset_reason |-> "UNKNOWN",
          last_reset_reason |-> "POR", fails |-> 0, act_main |-> TRUE,
          crc |-> "PASSED"]
    ELSE [r EXCEPT !.last_reset_reason = r.reset_reason]

\* The counter does not saturate.
MarkFail_Unbounded(i) ==
    [i EXCEPT !.act_main = FALSE, !.fails = @ + 1,
              !.boot_mode = IF i.fails + 1 >= FailLimit THEN "STAY" ELSE @]

\* > instead of >=.
MarkFail_OneMore(i) ==
    LET n == IF i.fails < MaxFails THEN i.fails + 1 ELSE i.fails IN
    [i EXCEPT !.act_main = FALSE, !.fails = n,
              !.boot_mode = IF n > FailLimit THEN "STAY" ELSE @]

-----------------------------------------------------------------------------
(* Starting the bootloader.                                                *)

\* init_config.  Retention tells whether its content is valid.
InitInfo(r) ==
    IF r = LOST
    THEN [boot_mode |-> "NORMAL", reset_reason |-> "UNKNOWN",
          last_reset_reason |-> "POR", fails |-> 0, act_main |-> TRUE,
          crc |-> "PASSED"]
    ELSE [r EXCEPT !.last_reset_reason = r.reset_reason,
                   !.reset_reason = "UNKNOWN"]

\* History: boots counts the starts; asked is the last reset reason recorded
\* since the start, expected the one the start should have found, in what was
\* retained or for want of it; word is the host's last word on staying in the
\* bootloader; held: the bootloader started with retained orders to stay and has
\* not been told to exit.
Init ==
    /\ FlashInit
    /\ running = "boot" /\ info = InitInfo(LOST) /\ retained = info
    /\ flash \in [0..2 -> Images \cup {"blank"}]
    /\ \A p \in 1..2 : flash[p] = flash[0]
    /\ ram = [p \in 1..2 |-> "mixed"]
    /\ pc = [main |-> "start", work |-> "off", acpi |-> "idle"]
    /\ hdr = [t \in Threads |-> "blank"] /\ work = FALSE
    /\ ram_buffer = "blank" /\ flash_wr_addr = 0 /\ crc_clash = {}
    /\ updates = 0 /\ boots = 0 /\ touched = [t \in Threads |-> FALSE]
    /\ asked = "UNKNOWN" /\ expected = "POR" /\ word = "none" /\ held = FALSE

\* A flash write or erase that a reset cuts short may leave anything behind.
CutShort ==
    IF fpc = "execute" /\ msg.request.op \in {"WRITE", "ERASE"}
    THEN {flash, [p \in 0..2 |-> IF p \in msg.request.at THEN "mixed" ELSE flash[p]]}
    ELSE {flash}

\* RAM that does not outlive the program: threads, messages, buffers.
Fresh(main, acpi) ==
    /\ queue' = <<>> /\ fpc' = "get" /\ msg' = NoMessage
    /\ ret' = EINPROGRESS /\ busy' = FALSE
    /\ cpc' = [t \in Threads |-> "out"] /\ req' = [t \in Threads |-> NoMessage]
    /\ operation_result' = [t \in Threads |-> EINPROGRESS]
    /\ completion' = [t \in Threads |-> 0]
    /\ ran' = [t \in Threads |-> EINPROGRESS]
    /\ flash' \in CutShort
    /\ ram_buffer' = "blank" /\ flash_wr_addr' = 0 /\ crc_clash' = {}
    /\ pc' = [t \in Threads |-> CASE t = "main" -> main [] t = "acpi" -> acpi
                                  [] OTHER -> "off"]
    /\ hdr' = [t \in Threads |-> "blank"] /\ work' = FALSE
    /\ touched' = [t \in Threads |-> FALSE]

\* Every start, from a reset or a jump.
Restart(r) ==
    /\ boots < MaxBoots /\ boots' = boots + 1 /\ UNCHANGED updates
    /\ Fresh("start", "idle")
    /\ running' = "boot" /\ info' = InitInfo(r) /\ retained' = info'
    /\ ram' = [p \in 1..2 |-> "mixed"]
    /\ asked' = "UNKNOWN"
    /\ expected' = IF r = LOST THEN "POR" ELSE asked
    /\ word' = IF r = LOST THEN "none" ELSE word
    /\ held' = (r # LOST /\ r.boot_mode = "STAY")

\* Whether the retained boot info is still valid after a reset is up to the chip:
\* the records of tests on hardware have it lost after command 0xBB 0xCC.
Reset == \E r \in {retained, LOST} : Restart(r)

\* The watchdog, the reset pin, a power cycle.
UnaskedReset == Reset

-----------------------------------------------------------------------------
(* ec_validate_image_header, on the main thread and in the delayed work.   *)

MarkFail(i) ==
    LET n == IF i.fails < MaxFails THEN i.fails + 1 ELSE i.fails IN
    [i EXCEPT !.act_main = FALSE, !.fails = n,
              !.boot_mode = IF n >= FailLimit THEN "STAY" ELSE @]

Goto(t, l) == pc' = [pc EXCEPT ![t] = l]
Save(i) == info' = i /\ retained' = i

\* The thread is done with the image: main ends, the work goes on.
Finish(t) ==
    /\ Goto(t, IF t = "main" THEN "off" ELSE "giveup")
    /\ hdr' = [hdr EXCEPT ![t] = "blank"]
    /\ touched' = [touched EXCEPT ![t] = FALSE]

FinishUnchanged == UNCHANGED <<boots, asked, expected, word, held>>

\* A host command is taken while the ACPI thread waits for one.
Command(c) == c \in HostCommands /\ pc["acpi"] = "idle"

-----------------------------------------------------------------------------
(* Mistakes, continued.                                                    *)

\* The reason of the reset decides, not the mode.
CheckMode_ByReason(t) ==
    /\ pc[t] = "mode"
    /\ IF info.last_reset_reason = "ENTER_BBK"
       THEN Finish(t) /\ FinishUnchanged /\ UNCHANGED flashVars
       ELSE /\ Request(t, [op |-> "LOAD", at |-> {1}]) /\ Goto(t, "load1")
            /\ UNCHANGED <<hdr, history>>
    /\ UNCHANGED <<shared, memory, work>>

\* Staying counts as a failure.
CheckMode_CountsStay(t) ==
    /\ pc[t] = "mode"
    /\ IF info.boot_mode = "STAY"
       THEN Save(MarkFail(info)) /\ Finish(t) /\ FinishUnchanged /\ UNCHANGED flashVars
       ELSE /\ Request(t, [op |-> "LOAD", at |-> {1}]) /\ Goto(t, "load1")
            /\ UNCHANGED <<info, retained, hdr, history>>
    /\ UNCHANGED <<running, memory, work>>

\* A chunk that cannot be loaded does not stop the loader.
LoadDone_IgnoresError(t) ==
    /\ pc[t] \in {"load1", "load2"}
    /\ Return(t)
    /\ Goto(t, IF pc[t] = "load1" THEN "next" ELSE "commit")
    /\ UNCHANGED <<shared, memory, hdr, work, history>>

\* "Exit bootloader" does not clear the mode.
ExitBootloader_KeepsMode ==
    /\ Command("exit")
    /\ work' = TRUE
    /\ word' = "exit" /\ held' = FALSE
    /\ UNCHANGED <<flashVars, shared, memory, pc, hdr, boots, touched, asked,
                   expected>>

-----------------------------------------------------------------------------
(* ec_validate_image_header, statement by statement.                       *)

\* ec_get_image_header, straight from flash; a failed read leaves zeros.
ReadHeader(t) ==
    /\ pc[t] = "start"
    /\ \E h \in {flash[0]} \cup (IF FlashFails THEN {"blank"} ELSE {}) :
          hdr' = [hdr EXCEPT ![t] = h]
    /\ Goto(t, "header")
    /\ UNCHANGED <<flashVars, shared, memory, work, history>>

\* Magic, size and control; then the image's CRC, checksum or neither.
CheckHeader(t) ==
    /\ pc[t] = "header"
    /\ IF hdr[t] \notin Images
       THEN /\ Save(MarkFail(info)) /\ Finish(t) /\ FinishUnchanged
            /\ UNCHANGED flashVars
       ELSE /\ CASE Validation[hdr[t]] = "NONE" -> Goto(t, "mode") /\ UNCHANGED flashVars
                 [] Validation[hdr[t]] = "CHECKSUM" -> Goto(t, "sum") /\ UNCHANGED flashVars
                 [] Validation[hdr[t]] = "CRC" ->
                      Goto(t, "crc") /\ Request(t, [op |-> "CRC", at |-> {1, 2}])
            /\ UNCHANGED <<info, retained, hdr, history>>
    /\ UNCHANGED <<running, memory, work>>

\* The value of the image in flash is right for one header only.
ImageValue == IF flash[1] = flash[2] /\ flash[1] \in Images THEN flash[1] ELSE "other"

\* The new CRC status is not saved until something else is.
Checked(t, value) ==
    LET i == [info EXCEPT !.crc = IF value = hdr[t] THEN "PASSED" ELSE "FAILED"] IN
    IF value = hdr[t]
    THEN info' = i /\ Goto(t, "mode") /\ UNCHANGED <<retained, hdr, history>>
    ELSE Save(MarkFail(i)) /\ Finish(t) /\ FinishUnchanged

CheckCrc(t) ==
    /\ pc[t] = "crc"
    /\ Return(t)
    /\ Checked(t, operation_result[t])
    /\ UNCHANGED <<running, memory, work>>

\* ec_cal_image_checksum reads flash itself, through the crc_buf that the flash
\* service computes CRCs with: computations that overlap disturb each other.
ComputingCrc == fpc = "execute" /\ msg.request.op = "CRC"
CheckSum(t) ==
    /\ pc[t] = "sum"
    /\ \E value \in {ImageValue} \cup (IF FlashFails THEN {"error"} ELSE {})
                      \cup (IF t \in crc_clash \/ ComputingCrc THEN {"other"} ELSE {}) :
          Checked(t, value)
    /\ crc_clash' = (crc_clash \ {t}) \cup {u \in Threads \ {t} : pc[u] = "sum"}
                      \cup (IF ComputingCrc THEN {"flash"} ELSE {})
    /\ UNCHANGED <<flashVars, running, flash, ram, ram_buffer, flash_wr_addr, work>>

CheckMode(t) ==
    /\ pc[t] = "mode"
    /\ IF info.boot_mode = "STAY"
       THEN Finish(t) /\ FinishUnchanged /\ UNCHANGED flashVars
       ELSE /\ Request(t, [op |-> "LOAD", at |-> {1}]) /\ Goto(t, "load1")
            /\ UNCHANGED <<hdr, history>>
    /\ UNCHANGED <<shared, memory, work>>

\* load_image_to_ram, between two chunks.
LoadNext(t) ==
    /\ pc[t] = "next"
    /\ Request(t, [op |-> "LOAD", at |-> {2}]) /\ Goto(t, "load2")
    /\ UNCHANGED <<shared, memory, hdr, work, history>>

LoadDone(t) ==
    /\ pc[t] \in {"load1", "load2"}
    /\ Return(t)
    /\ IF operation_result[t] = "ok"
       THEN /\ Goto(t, IF pc[t] = "load1" THEN "next" ELSE "commit")
            /\ UNCHANGED <<info, retained, hdr, history>>
       ELSE Save(MarkFail(info)) /\ Finish(t) /\ FinishUnchanged
    /\ UNCHANGED <<running, memory, work>>

Commit(t) ==
    /\ pc[t] = "commit"
    /\ Save([info EXCEPT !.boot_mode = "NORMAL", !.fails = 0, !.act_main = TRUE])
    /\ Goto(t, "jump")
    /\ UNCHANGED <<flashVars, running, memory, hdr, work, history>>

\* The application starts and reads the retained boot info; all else of the
\* bootloader is gone.
Jump(t) ==
    /\ pc[t] = "jump"
    /\ running' = "app"
    /\ info' = retained
    /\ Fresh("off", "off")
    /\ UNCHANGED <<retained, ram, boots, asked, expected, word, held>>

\* exit_bootloader_work_hdl begins, and ends when the image was not started.
WorkStart ==
    /\ work /\ pc["work"] = "off"
    /\ work' = FALSE
    /\ Goto("work", "start")
    /\ UNCHANGED <<flashVars, shared, memory, hdr, history>>

GiveUp ==
    /\ pc["work"] = "giveup"
    /\ Save([info EXCEPT !.boot_mode = "STAY"])
    /\ Goto("work", "off")
    /\ UNCHANGED <<flashVars, running, memory, hdr, work, history>>

-----------------------------------------------------------------------------
(* The host commands of the bootloader, one at a time on the ACPI thread.  *)

Asks(r) == asked' = r /\ UNCHANGED <<boots, touched, expected, word, held>>

\* 0xBB 0xDC and 0xBB 0x33.
EnterBootloader ==
    /\ Command("enter")
    /\ Save([info EXCEPT !.boot_mode = "STAY"])
    /\ word' = "stay"
    /\ UNCHANGED <<flashVars, running, memory, control, boots, touched, asked,
                   expected, held>>

ExitBootloader ==
    /\ Command("exit")
    /\ Save([info EXCEPT !.boot_mode = "NORMAL"])
    /\ work' = TRUE
    /\ word' = "exit" /\ held' = FALSE
    /\ UNCHANGED <<flashVars, running, memory, pc, hdr, boots, touched, asked,
                   expected>>

\* 0xBB 0xCC: ec_boot_info_set_reset_reason, then sys_reboot.
ResetEc ==
    /\ Command("reset")
    /\ boots < MaxBoots
    /\ Save([info EXCEPT !.reset_reason = "HOST_REQ"])
    /\ Asks("HOST_REQ")
    /\ Goto("acpi", "reboot")
    /\ UNCHANGED <<flashVars, running, memory, hdr, work>>

Reboot == pc["acpi"] = "reboot" /\ Reset

\* 0xBB 0xC0: k_panic halts.  0xC1: the assertion is not compiled in.  0xC2: the
\* thread spins, which starves the flash service below it.
Crash(c, reason, l) ==
    /\ Command(c)
    /\ Save([info EXCEPT !.reset_reason = reason])
    /\ Asks(reason)
    /\ running' = IF c = "oops" THEN "halted" ELSE running
    /\ Goto("acpi", l)
    /\ UNCHANGED <<flashVars, memory, hdr, work>>

CrashKernelOops == Crash("oops", "PANIC", "idle")
CrashAssert     == Crash("assert", "PANIC", "idle")
CrashWatchdog   == Crash("watchdog", "WDT", "hung")

\* 0xAF 0x21 erases header and image, 0xAE a region of the host's choice.
ErasePartition ==
    /\ Command("erase")
    /\ Request("acpi", [op |-> "ERASE", at |-> {0, 1, 2}])
    /\ Goto("acpi", "erase")
    /\ UNCHANGED <<shared, memory, hdr, work, history>>

\* The write address is set and the boot info saved also when the erase failed.
EraseDone ==
    /\ pc["acpi"] = "erase"
    /\ Return("acpi")
    /\ flash_wr_addr' = 0
    /\ retained' = info
    /\ Goto("acpi", "idle")
    /\ UNCHANGED <<running, info, flash, ram, ram_buffer, crc_clash, hdr, work,
                   history>>

EraseRegion(p) ==
    /\ Command("erase_region")
    /\ Request("acpi", [op |-> "ERASE", at |-> {p}])
    /\ Goto("acpi", "wait")
    /\ UNCHANGED <<shared, memory, hdr, work, history>>

\* 0xA0.
WriteRamBuffer(i) ==
    /\ Command("stage")
    /\ ram_buffer' = i
    /\ UNCHANGED <<flashVars, shared, flash, ram, flash_wr_addr, crc_clash,
                   control, history>>

\* 0xAA: the host names an address (internal path) or lets the EC go on from the
\* last one (automatic path); both advance flash_wr_addr, here up to the end.
WriteDesignatedRegion(p, auto) ==
    /\ Command("write") /\ ram_buffer # "blank"
    /\ Request("acpi", [op |-> "WRITE", at |-> {IF auto THEN flash_wr_addr ELSE p}])
    /\ Goto("acpi", "write")
    /\ UNCHANGED <<shared, memory, hdr, work, history>>

WriteDone ==
    /\ pc["acpi"] = "write"
    /\ Return("acpi")
    /\ flash_wr_addr' = IF operation_result["acpi"] = "ok" /\ flash_wr_addr < 3
                        THEN flash_wr_addr + 1 ELSE flash_wr_addr
    /\ Goto("acpi", "idle")
    /\ UNCHANGED <<shared, flash, ram, ram_buffer, crc_clash, hdr, work, history>>

\* 0xA7 reads into the buffer that holds what 0xA0 staged.
ReadSetup(p) ==
    /\ Command("read")
    /\ Request("acpi", [op |-> "READ", at |-> {p}])
    /\ Goto("acpi", "wait")
    /\ UNCHANGED <<shared, memory, hdr, work, history>>

RequestDone ==
    /\ pc["acpi"] = "wait"
    /\ Return("acpi")
    /\ Goto("acpi", "idle")
    /\ UNCHANGED <<shared, memory, hdr, work, history>>

\* 0xBB 0xF0: ec_run_crc_int_act_main.  Only its end is saved.  The field that it
\* compares the CRC with holds one only if the image is to be validated by CRC.
RunCrc ==
    /\ Command("crc")
    /\ info' = [info EXCEPT !.crc = "FAILED"]
    /\ \E h \in {flash[0]} \cup (IF FlashFails THEN {"blank"} ELSE {}) :
          hdr' = [hdr EXCEPT !["acpi"] = h]
    /\ Goto("acpi", "run_crc")
    /\ UNCHANGED <<flashVars, running, retained, memory, work, history>>

CrcMatches(v, h) == v = h /\ Validation[h] = "CRC"
CrcVerdict(i) == Save([i EXCEPT !.act_main = (i.crc = "PASSED")])

RunCrcRequest ==
    /\ pc["acpi"] = "run_crc"
    /\ IF hdr["acpi"] \in Images
       THEN /\ Request("acpi", [op |-> "CRC", at |-> {1, 2}])
            /\ Goto("acpi", "run_crc_wait")
            /\ UNCHANGED <<info, retained, hdr>>
       ELSE /\ CrcVerdict(info)
            /\ Goto("acpi", "idle")
            /\ hdr' = [hdr EXCEPT !["acpi"] = "blank"]
            /\ UNCHANGED flashVars
    /\ UNCHANGED <<running, memory, work, history>>

RunCrcDone ==
    /\ pc["acpi"] = "run_crc_wait"
    /\ Return("acpi")
    /\ LET v == operation_result["acpi"] IN
       CrcVerdict(IF v = "error" THEN info
                  ELSE [info EXCEPT !.crc = IF CrcMatches(v, hdr["acpi"])
                                       THEN "PASSED" ELSE "FAILED"])
    /\ Goto("acpi", "idle")
    /\ hdr' = [hdr EXCEPT !["acpi"] = "blank"]
    /\ UNCHANGED <<running, memory, work, history>>

-----------------------------------------------------------------------------
(* What the flash service's operations do: flash_service_execute.          *)

OpFails == FlashFails /\ Execute("error")
Erased(at) == [p \in 0..2 |-> IF p \in at THEN "blank" ELSE flash[p]]

\* Programming a piece that is not blank leaves a mixture.
Written(at) ==
    [p \in 0..2 |-> IF p \notin at \/ flash[p] = ram_buffer THEN flash[p]
                    ELSE IF flash[p] = "blank" THEN ram_buffer ELSE "mixed"]

\* History: the threads that have read a header before the flash changed.
Touches == touched' = [t \in Threads |->
                         touched[t] \/ (t # "acpi" /\ pc[t] \notin {"off", "start", "giveup"})]

ChangeFlash(op, new) ==
    /\ msg.request.op = op
    /\ \/ Execute("ok") /\ flash' = new
       \/ OpFails /\ flash' \in CutShort
    /\ Touches
    /\ UNCHANGED <<shared, ram, ram_buffer, flash_wr_addr, crc_clash, control,
                   boots, asked, expected, word, held>>

ExecuteErase == fpc = "execute" /\ ChangeFlash("ERASE", Erased(msg.request.at))
ExecuteWrite == fpc = "execute" /\ ChangeFlash("WRITE", Written(msg.request.at))

\* A read of what is behind the image brings something else.
ExecuteRead ==
    /\ fpc = "execute" /\ msg.request.op = "READ"
    /\ \/ /\ Execute("ok")
          /\ \E p \in msg.request.at : ram_buffer' = IF p = 3 THEN "mixed" ELSE flash[p]
       \/ OpFails /\ UNCHANGED ram_buffer
    /\ UNCHANGED <<shared, flash, ram, flash_wr_addr, crc_clash, control, history>>

\* Disturbed by a checksum that ended meanwhile or is being computed.
ExecuteCrc ==
    /\ fpc = "execute" /\ msg.request.op = "CRC"
    /\ \/ Execute(ImageValue)
       \/ /\ "flash" \in crc_clash \/ \E t \in Threads : pc[t] = "sum"
          /\ Execute("other")
       \/ OpFails
    /\ crc_clash' = (crc_clash \ {"flash"}) \cup {t \in Threads : pc[t] = "sum"}
    /\ UNCHANGED <<shared, flash, ram, ram_buffer, flash_wr_addr, control, history>>

ExecuteLoad ==
    /\ fpc = "execute" /\ msg.request.op = "LOAD"
    /\ \/ Execute("ok") /\ ram' = [p \in 1..2 |-> IF p \in msg.request.at THEN flash[p] ELSE ram[p]]
       \/ OpFails /\ UNCHANGED ram
    /\ UNCHANGED <<shared, flash, ram_buffer, flash_wr_addr, crc_clash, control, history>>

-----------------------------------------------------------------------------
(* The application's part: host command 0xBB 0xDC and the shell's "jump".  *)

AppEnterBootloader ==
    /\ running = "app" /\ "enter" \in HostCommands
    /\ Save([info EXCEPT !.boot_mode = "STAY", !.reset_reason = "ENTER_BBK"])
    /\ asked' = "ENTER_BBK" /\ word' = "stay"
    /\ work' = TRUE
    /\ UNCHANGED <<flashVars, running, memory, pc, hdr, boots, touched, expected,
                   held>>

\* "jump" to the bootloader with "stay" 0; the jump comes a second later.
AppShellJump ==
    /\ running = "app" /\ "jump" \in HostCommands
    /\ Save([info EXCEPT !.boot_mode = "NORMAL"])
    /\ word' = "exit"
    /\ work' = TRUE
    /\ UNCHANGED <<flashVars, running, memory, pc, hdr, boots, touched, asked,
                   expected, held>>

\* A jump, no reset: the retained boot info stays.
AppJump == running = "app" /\ work /\ Restart(retained)

-----------------------------------------------------------------------------
(* Scheduling in the bootloader.                                           *)

\* A thread in the middle of its work that does not wait for flash.  Computing a
\* checksum, it may wait in the flash driver.
Ready(t) ==
    /\ pc[t] \notin {"off", "idle", "sum"}
    /\ cpc[t] = "wait" => completion[t] = 1

Validate(t) ==
    \/ ReadHeader(t) \/ CheckHeader(t) \/ CheckCrc(t) \/ CheckSum(t)
    \/ CheckMode(t) \/ LoadNext(t) \/ LoadDone(t) \/ Commit(t) \/ Jump(t)

\* k_msgq_put, with nothing before it but the call.
PutStep(t) == Put(t) /\ UNCHANGED <<shared, memory, control, history>>

WorkThread ==
    /\ WorkStart \/ Validate("work") \/ GiveUp \/ PutStep("work")
    /\ UNCHANGED updates

MainThread == (Validate("main") \/ PutStep("main")) /\ UNCHANGED updates

AcpiControl ==
    /\ \/ EnterBootloader \/ ExitBootloader \/ ResetEc
       \/ CrashKernelOops \/ CrashAssert \/ CrashWatchdog
       \/ RunCrc
    /\ UNCHANGED updates

AcpiUpdate ==
    /\ updates < MaxUpdates /\ updates' = updates + 1
    /\ \/ ErasePartition
       \/ \E p \in 0..2 : EraseRegion(p) \/ ReadSetup(p)
       \/ \E i \in Images : WriteRamBuffer(i)
       \/ \E p \in 0..2, auto \in BOOLEAN : WriteDesignatedRegion(p, auto)

AcpiContinue ==
    /\ \/ EraseDone \/ WriteDone \/ RequestDone \/ RunCrcRequest \/ RunCrcDone
       \/ PutStep("acpi")
    /\ UNCHANGED updates

FlashServiceThread ==
    /\ \/ FlashThread /\ UNCHANGED <<shared, memory, control, history>>
       \/ ExecuteErase \/ ExecuteWrite \/ ExecuteRead \/ ExecuteCrc \/ ExecuteLoad
    /\ UNCHANGED updates

Bootloader ==
    /\ running = "boot"
    /\ \/ WorkThread
       \/ ~Ready("work") /\ (MainThread \/ AcpiControl \/ AcpiUpdate \/ AcpiContinue)
       \/ ~Ready("work") /\ ~Ready("main") /\ ~Ready("acpi") /\ FlashServiceThread

Next ==
    \/ Bootloader
    \/ running = "boot" /\ Reboot
    \/ (AppEnterBootloader \/ AppShellJump) /\ UNCHANGED updates
    \/ AppJump
    \/ UnaskedReset

Spec == Init /\ [][Next]_vars

\* The scheduler runs what is ready in order of priority, and the flash and its
\* driver finish what they begin.
Fairness ==
    /\ WF_vars(running = "boot" /\ WorkThread)
    /\ WF_vars(running = "boot" /\ ~Ready("work") /\ MainThread)
    /\ WF_vars(running = "boot" /\ ~Ready("work") /\ AcpiContinue)
    /\ WF_vars(/\ running = "boot" /\ ~Ready("work") /\ ~Ready("main")
               /\ ~Ready("acpi") /\ FlashServiceThread)
    /\ WF_vars(running = "boot" /\ Reboot)
    /\ WF_vars(AppJump)

FairSpec == Spec /\ Fairness

-----------------------------------------------------------------------------
(* Properties.                                                             *)

Verified(t) == Validation[hdr[t]] # "NONE" => \A p \in 1..2 : ram[p] = hdr[t]

\* What is jumped to is the whole image that was validated, for either of the two
\* threads that validate and load, if the flash did not change since the thread
\* read the header: a failed chunk, a second loader or a restart cannot mix
\* images.
LoadedIsVerified ==
    \A t \in {"main", "work"} : pc[t] = "jump" /\ ~touched[t] => Verified(t)

\* Once validation has failed FailLimit times the bootloader, at rest, stays: a
\* reset that keeps the boot info does not try the image again, although an exit
\* request clears the mode and the validations of main and of the work may
\* overlap; one that loses it begins to count afresh.
StuckImageStays ==
    running = "boot" /\ pc["main"] = "off" /\ pc["work"] = "off" /\ ~work
      /\ info.fails >= FailLimit => info.boot_mode = "STAY" /\ retained.boot_mode = "STAY"

\* A start that finds the boot info valid reports the reason recorded last before
\* it, and only once: a later reset nobody asked for is not reported as the earlier
\* one.  A start that does not reports a power-on, whatever the reset was.
ReasonIsLastAsked == info.last_reset_reason = expected

\* A bootloader that started with retained orders to stay, the host's or its own
\* after too many failures, does not start or even load the application until it is
\* told to exit or loses them in a reset: not from a second validation, nor from one
\* that a reset interrupted.
StaysUntilTold ==
    held =>
        /\ running # "app"
        /\ \A t \in {"main", "work"} : pc[t] \notin {"load1", "next", "load2", "commit", "jump"}

\* With a good image in flash, a bootloader that is not told to stay, nor to hang
\* until the watchdog bites, starts the application: no order of exit, enter, CRC
\* and reset requests parks it.
GoodImage == ImageValue = flash[0] /\ flash[0] \in Images
GoodImageBoots == []GoodImage => []<>(running # "boot" \/ word = "stay" \/ pc["acpi"] = "hung")

\* Validation counts a failure only for an image that is bad or changing: the
\* loader, a CRC command and a second validation do not disturb each other.
GoodNotCondemned ==
    [][info'.fails > info.fails =>
         ~GoodImage \/ \E t \in {"main", "work"} : touched[t] /\ pc'[t] # pc[t]]_vars
=============================================================================
