---------------------------- MODULE BootLoadProofs ----------------------------
(***************************************************************************)
(* Proofs about what the bootloader loads, for any images, any commands of *)
(* the host, any faults of the flash and any resets.                       *)
(*                                                                         *)
(* That the image in RAM is the one that was validated holds because every *)
(* thread's way from its validation to its jump is tied to the flash, and  *)
(* so to whatever another thread loads at the same time: LoadOf.  Between  *)
(* the thread and the flash stands the flash service, whose own invariant  *)
(* says that the result a thread gets is that of its own request.          *)
(*                                                                         *)
(* That a good image is not condemned needs, beyond that, what each answer *)
(* means: GoodInv follows a validation of a good image through the flash   *)
(* service, and holds while nobody disturbs it, NothingDisturbs.           *)
(***************************************************************************)
EXTENDS BootProofs, FlashProofs

Calling == {"crc", "load1", "load2", "erase", "write", "wait", "run_crc_wait"}
Validated == {"sum", "crc", "mode"} \cup Loading

PcOf(t) ==
    IF t = "acpi"
    THEN {"off", "idle", "erase", "write", "wait", "run_crc", "run_crc_wait",
          "reboot", "hung"}
    ELSE {"off", "start", "header", "sum", "crc", "mode", "load1", "next",
          "load2", "commit", "jump", "giveup"}
Pcs == PcOf("acpi") \cup PcOf("main")

\* The types, in three parts.
ThreadParts ==
    /\ pc \in [Threads -> Pcs] /\ hdr \in [Threads -> Content]
    /\ touched \in [Threads -> BOOLEAN]
MemoryParts ==
    /\ flash \in [0..2 -> Content] /\ ram \in [1..2 -> Content]
    /\ ram_buffer \in Content /\ flash_wr_addr \in 0..3
    /\ crc_clash \subseteq Threads \cup {"flash"}
ControlParts ==
    /\ running \in {"boot", "app", "halted"} /\ work \in BOOLEAN
    /\ updates \in 0..MaxUpdates /\ boots \in 0..MaxBoots
    /\ word \in {"none", "stay", "exit"} /\ held \in BOOLEAN

Parts == ThreadParts /\ MemoryParts /\ ControlParts

\* A thread's place tells whether it waits for the flash service, and for what;
\* there is no result before it has run.
CallOf(t) ==
    /\ pc[t] \in PcOf(t)
    /\ cpc[t] = "out" <=> pc[t] \notin Calling
    /\ cpc[t] = "out" => ran[t] = EINPROGRESS
    /\ pc[t] = "crc" => req[t].op = "CRC"
    /\ pc[t] = "load1" => req[t] = [op |-> "LOAD", at |-> {1}]
    /\ pc[t] = "load2" => req[t] = [op |-> "LOAD", at |-> {2}]
    /\ t # "acpi" /\ pc[t] \in Validated => hdr[t] \in Images

\* While nothing has written to flash since the header was read, the image there is
\* the one that was validated, and so is what has been loaded of it.
LoadOf(t) ==
    t # "acpi" /\ ~touched[t] =>
        /\ pc[t] = "crc" /\ ran[t] \in Images => flash[1] = ran[t] /\ flash[2] = ran[t]
        /\ pc[t] \in {"mode"} \cup Loading /\ Validation[hdr[t]] # "NONE" =>
             /\ flash[1] = hdr[t] /\ flash[2] = hdr[t]
             /\ pc[t] \in {"next", "load2", "commit", "jump"}
                  \/ (pc[t] = "load1" /\ ran[t] = "ok") => ram[1] = hdr[t]
             /\ pc[t] \in {"commit", "jump"}
                  \/ (pc[t] = "load2" /\ ran[t] = "ok") => ram[2] = hdr[t]

ThreadInv == \A t \in Threads : CallOf(t) /\ LoadOf(t)

BootInv == FlashInv /\ Parts /\ ThreadInv

\* A step of one thread is none of another's.
StepOf(t) ==
    /\ UNCHANGED <<flash, ram>>
    /\ \A u \in Threads \ {t} :
         UNCHANGED <<pc[u], hdr[u], touched[u], cpc[u], req[u], ran[u]>>

-----------------------------------------------------------------------------
LEMMA Names ==
  /\ Clients = Threads /\ Requests = BootRequests /\ Results = BootResults
  /\ Threads = {"main", "work", "acpi"}
  /\ Images \cap {"blank", "mixed", "ok", "error", "other"} = {}
  /\ Images \subseteq Content /\ "blank" \in Content /\ "mixed" \in Content
  /\ Images \subseteq Results /\ {"ok", "error", "other"} \subseteq Results
  /\ EINPROGRESS \notin Results
BY BootFlashAssumption, BootAssumption, FlashAssumption DEF Threads, Content, BootResults

LEMMA RequestNames ==
  /\ [op |-> "LOAD", at |-> {1}] \in Requests /\ [op |-> "LOAD", at |-> {2}] \in Requests
  /\ [op |-> "CRC", at |-> {1, 2}] \in Requests
  /\ [op |-> "ERASE", at |-> {0, 1, 2}] \in Requests
  /\ \A q \in 0..2 : [op |-> "ERASE", at |-> {q}] \in Requests
  /\ \A q \in 0..3 : /\ [op |-> "WRITE", at |-> {q}] \in Requests
                     /\ [op |-> "READ", at |-> {q}] \in Requests
<1>1. 0..2 = {0, 1, 2} /\ 0..3 = {0, 1, 2, 3}
  OBVIOUS
<1> QED BY <1>1, Names DEF BootRequests

LEMMA ImageValueTyped == ImageValue \in Results /\ ImageValue # "ok"
BY Names DEF ImageValue

LEMMA OthersKeep ==
  ASSUME ThreadInv, NEW t \in Threads, StepOf(t), CallOf(t)', LoadOf(t)'
  PROVE  ThreadInv'
<1> SUFFICES ASSUME NEW u \in Threads, u # t PROVE (CallOf(u) /\ LoadOf(u))'
  BY DEF ThreadInv
<1>1. /\ UNCHANGED <<flash, ram>>
      /\ UNCHANGED <<pc[u], hdr[u], touched[u], cpc[u], req[u], ran[u]>>
  BY DEF StepOf
<1> QED BY <1>1 DEF ThreadInv, CallOf, LoadOf

\* The three ways in which a thread meets the flash service.
LEMMA Begins ==
  ASSUME FlashInv, NEW t \in Threads, NEW r \in Requests, Request(t, r)
  PROVE  /\ FlashInv'
         /\ cpc[t] = "out" /\ cpc'[t] = "put" /\ req'[t] = r /\ UNCHANGED ran
         /\ \A u \in Threads \ {t} : UNCHANGED <<cpc[u], req[u]>>
<1>1. FlashInv'
  BY RequestInv, Names
<1> QED BY <1>1, Names DEF FlashInv, FlashTypeOK, Request

LEMMA Returns ==
  ASSUME FlashInv, NEW t \in Threads, Return(t)
  PROVE  /\ FlashInv'
         /\ cpc[t] = "wait" /\ operation_result[t] = ran[t]
         /\ cpc'[t] = "out" /\ ran'[t] = EINPROGRESS
         /\ \A u \in Threads \ {t} : UNCHANGED <<cpc[u], req[u], ran[u]>>
<1>1. FlashInv'
  BY ReturnInv, Names
<1> QED BY <1>1, Names DEF FlashInv, FlashTypeOK, Return, Left, OwnResult

\* What a thread returns with is a result.
LEMMA AnswerGiven ==
  ASSUME FlashInv, NEW t \in Threads, Return(t) PROVE operation_result[t] # EINPROGRESS
<1>1. cpc[t] = "wait" /\ completion[t] = 1 /\ operation_result[t] = ran[t]
  BY Names DEF FlashInv, OwnResult, Return
<1>2. ~InQueue(t) /\ ~(fpc # "get" /\ msg.client = t)
  BY <1>1, Names DEF FlashInv, StackSafe, QueuedCallersWait, InQueue
<1>3. ran[t] \in Results
  BY <1>1, <1>2, Names DEF FlashInv, CallKept
<1> QED BY <1>1, <1>3, Names

LEMMA FlashStays ==
  ASSUME FlashInv, UNCHANGED flashVars PROVE FlashInv' /\ UNCHANGED <<cpc, req, ran>>
BY NextFlashInv DEF flashVars

\* Runs of the program counter and the other variables of one thread.
LEMMA Goes ==
  ASSUME ThreadParts, NEW t \in Threads, NEW l \in Pcs, Goto(t, l)
  PROVE  /\ pc' \in [Threads -> Pcs] /\ pc'[t] = l
         /\ \A u \in Threads \ {t} : pc'[u] = pc[u]
BY DEF ThreadParts, Goto

LEMMA Finishes ==
  ASSUME ThreadParts, NEW t \in Validators, Finish(t)
  PROVE  /\ ThreadParts' /\ pc'[t] \in {"off", "giveup"} /\ t \in Threads
         /\ \A u \in Threads \ {t} : UNCHANGED <<pc[u], hdr[u], touched[u]>>
<1>1. \E l \in {"off", "giveup"} : Goto(t, l)
  BY DEF Finish
<1>2. t \in Threads /\ {"off", "giveup"} \subseteq Pcs
  BY ThreadNames DEF Pcs, PcOf
<1>3. /\ pc' \in [Threads -> Pcs] /\ pc'[t] \in {"off", "giveup"}
      /\ \A u \in Threads \ {t} : pc'[u] = pc[u]
  BY <1>1, <1>2, Goes
<1> QED BY <1>2, <1>3, Names DEF ThreadParts, Finish

LEMMA OneMoves ==
  ASSUME BootInv, NEW t \in Threads, FlashInv', Parts', StepOf(t), CallOf(t)', LoadOf(t)'
  PROVE  BootInv'
BY OthersKeep DEF BootInv

\* The thread drops its image, with no call under way.
LEMMA DropsImage ==
  ASSUME BootInv, NEW t \in Validators, Finish(t), FlashInv',
         UNCHANGED <<flash, ram>>, MemoryParts', ControlParts',
         cpc'[t] = "out", ran'[t] = EINPROGRESS,
         \A u \in Threads \ {t} : UNCHANGED <<cpc[u], req[u], ran[u]>>
  PROVE  BootInv'
<1>1. /\ ThreadParts' /\ pc'[t] \in {"off", "giveup"} /\ t \in Threads /\ t # "acpi"
      /\ \A u \in Threads \ {t} : UNCHANGED <<pc[u], hdr[u], touched[u]>>
  BY Finishes, ThreadNames DEF BootInv, Parts
<1>2. CallOf(t)' /\ LoadOf(t)'
  BY <1>1 DEF CallOf, LoadOf, PcOf, Calling, Validated, Loading
<1> QED BY <1>1, <1>2, OneMoves DEF StepOf, Parts

\* The thread goes on to l, its image and the flash as they are.
LEMMA MovesOn ==
  ASSUME BootInv, NEW t \in Threads, NEW l \in PcOf(t), Goto(t, l), FlashInv',
         UNCHANGED <<flash, ram, hdr, touched>>, MemoryParts', ControlParts',
         \A u \in Threads \ {t} : UNCHANGED <<cpc[u], req[u], ran[u]>>,
         CallOf(t)', LoadOf(t)'
  PROVE  BootInv'
<1>1. l \in Pcs
  BY DEF Pcs, PcOf
<1>2. ThreadParts' /\ \A u \in Threads \ {t} : pc'[u] = pc[u]
  BY <1>1, Goes DEF BootInv, Parts, ThreadParts
<1> QED BY <1>2, OneMoves DEF StepOf, Parts

\* What a thread outside its calls has.
LEMMA OutsideCalls ==
  ASSUME BootInv, NEW t \in Threads, pc[t] \notin Calling
  PROVE  cpc[t] = "out" /\ ran[t] = EINPROGRESS
BY DEF BootInv, ThreadInv, CallOf

-----------------------------------------------------------------------------
(* ec_validate_image_header, step by step.                                 *)

LEMMA ReadHeaderStep ==
  ASSUME BootInv, NEW t \in Validators, ReadHeader(t), ControlParts' PROVE BootInv'
<1>1. t \in Threads /\ t # "acpi" /\ "header" \in Pcs
  BY ThreadNames DEF Pcs, PcOf
<1>2. pc[t] = "start" /\ Goto(t, "header") /\ UNCHANGED <<flash, ram, touched, flashVars>>
      /\ MemoryParts'
  BY DEF ReadHeader, memory, history, BootInv, Parts, MemoryParts
<1>3. FlashInv' /\ UNCHANGED <<cpc, req, ran>> /\ cpc[t] = "out" /\ ran[t] = EINPROGRESS
  BY <1>1, <1>2, FlashStays, OutsideCalls DEF BootInv, Calling
<1>4. /\ pc' \in [Threads -> Pcs] /\ pc'[t] = "header"
      /\ \A u \in Threads \ {t} : pc'[u] = pc[u]
  BY <1>1, <1>2, Goes DEF BootInv, Parts
<1>5. /\ hdr' \in [Threads -> Content] /\ \A u \in Threads \ {t} : hdr'[u] = hdr[u]
  <2>1. flash[0] \in Content /\ "blank" \in Content
    BY Names DEF BootInv, Parts, MemoryParts
  <2> QED BY <1>1, <2>1 DEF ReadHeader, BootInv, Parts, ThreadParts
<1>6. CallOf(t)' /\ LoadOf(t)'
  BY <1>1, <1>3, <1>4 DEF CallOf, LoadOf, PcOf, Calling, Validated, Loading
<1> QED BY <1>1, <1>2, <1>3, <1>4, <1>5, <1>6, OneMoves
        DEF StepOf, BootInv, Parts, ThreadParts

LEMMA CheckHeaderStep ==
  ASSUME BootInv, NEW t \in Validators, CheckHeader(t), ControlParts' PROVE BootInv'
<1>1. t \in Threads /\ t # "acpi" /\ pc[t] = "header" /\ "header" \notin Calling
  BY ThreadNames DEF CheckHeader, Calling
<1>2. UNCHANGED <<flash, ram>> /\ MemoryParts' /\ cpc[t] = "out" /\ ran[t] = EINPROGRESS
  BY <1>1, OutsideCalls DEF CheckHeader, memory, BootInv, Parts, MemoryParts
<1>3. CASE hdr[t] \notin Images
  <2>1. Finish(t) /\ UNCHANGED flashVars
    BY <1>3 DEF CheckHeader
  <2>2. FlashInv' /\ UNCHANGED <<cpc, req, ran>>
    BY <2>1, FlashStays DEF BootInv
  <2> QED BY <1>2, <2>1, <2>2, DropsImage
<1>4. CASE hdr[t] \in Images
  <2>1. UNCHANGED <<hdr, touched>>
    BY <1>4 DEF CheckHeader, history
  <2>2. Validation[hdr[t]] \in {"NONE", "CRC", "CHECKSUM"}
    BY <1>4, BootAssumption
  <2>3. CASE Validation[hdr[t]] # "CRC"
    <3>1. PICK l \in {"mode", "sum"} : Goto(t, l) /\ (l = "mode" => Validation[hdr[t]] = "NONE")
      BY <1>4, <2>2, <2>3 DEF CheckHeader
    <3>2. UNCHANGED flashVars
      BY <1>4, <2>2, <2>3 DEF CheckHeader
    <3>3. FlashInv' /\ UNCHANGED <<cpc, req, ran>>
      BY <3>2, FlashStays DEF BootInv
    <3>4. l \in Pcs /\ l \in PcOf(t)
      BY <1>1 DEF Pcs, PcOf
    <3>5. pc'[t] = l
      BY <1>1, <3>1, <3>4, Goes DEF BootInv, Parts
    <3>6. CallOf(t)' /\ LoadOf(t)'
      BY <1>2, <1>4, <2>1, <3>1, <3>3, <3>4, <3>5 DEF CallOf, LoadOf, PcOf, Calling, Loading
    <3> QED BY <1>1, <1>2, <2>1, <3>1, <3>3, <3>4, <3>6, MovesOn
  <2>4. CASE Validation[hdr[t]] = "CRC"
    <3> DEFINE r == [op |-> "CRC", at |-> {1, 2}]
    <3>1. Goto(t, "crc") /\ Request(t, r) /\ r \in Requests /\ r.op = "CRC"
      BY <1>4, <2>4, RequestNames DEF CheckHeader
    <3> HIDE DEF r
    <3>2. /\ FlashInv' /\ cpc'[t] = "put" /\ req'[t] = r /\ UNCHANGED ran
          /\ \A u \in Threads \ {t} : UNCHANGED <<cpc[u], req[u]>>
      BY <1>1, <3>1, Begins DEF BootInv
    <3>3. "crc" \in Pcs /\ "crc" \in PcOf(t)
      BY <1>1 DEF Pcs, PcOf
    <3>4. pc'[t] = "crc"
      BY <1>1, <3>1, <3>3, Goes DEF BootInv, Parts
    <3>5. CallOf(t)'
      BY <1>4, <2>1, <3>1, <3>2, <3>3, <3>4 DEF CallOf, PcOf, Calling
    <3>6. LoadOf(t)'
      BY <1>2, <3>2, <3>4, Names DEF LoadOf, Loading
    <3> QED BY <1>1, <1>2, <2>1, <3>1, <3>2, <3>3, <3>5, <3>6, MovesOn
  <2> QED BY <2>3, <2>4
<1> QED BY <1>3, <1>4

\* The result v is that of the flash, if nothing has written to it since.
LEMMA CheckedStep ==
  ASSUME BootInv, NEW t \in Validators, NEW v, Checked(t, v), pc[t] \in {"crc", "sum"},
         ~touched[t] /\ v \in Images => flash[1] = v /\ flash[2] = v,
         FlashInv', UNCHANGED <<flash, ram>>, MemoryParts', ControlParts',
         cpc'[t] = "out", ran'[t] = EINPROGRESS,
         \A u \in Threads \ {t} : UNCHANGED <<cpc[u], req[u], ran[u]>>
  PROVE  BootInv'
<1>1. t \in Threads /\ t # "acpi" /\ hdr[t] \in Images
  BY ThreadNames DEF BootInv, ThreadInv, CallOf, Validated
<1>2. CASE v = hdr[t]
  <2>1. Goto(t, "mode") /\ UNCHANGED <<hdr, touched>>
    BY <1>2 DEF Checked, history
  <2>2. "mode" \in Pcs /\ "mode" \in PcOf(t)
    BY <1>1 DEF Pcs, PcOf
  <2>3. pc'[t] = "mode"
    BY <1>1, <2>1, <2>2, Goes DEF BootInv, Parts
  <2>4. CallOf(t)'
    BY <1>1, <2>1, <2>2, <2>3 DEF CallOf, Calling
  <2>5. LoadOf(t)'
    BY <1>1, <1>2, <2>1, <2>3 DEF LoadOf, Loading
  <2> QED BY <1>1, <2>1, <2>2, <2>4, <2>5, MovesOn
<1>3. CASE v # hdr[t]
  BY <1>3, DropsImage DEF Checked
<1> QED BY <1>2, <1>3

LEMMA CheckCrcStep ==
  ASSUME BootInv, NEW t \in Validators, CheckCrc(t), ControlParts' PROVE BootInv'
<1>1. t \in Threads /\ t # "acpi"
  BY ThreadNames
<1>2. /\ FlashInv' /\ operation_result[t] = ran[t] /\ cpc'[t] = "out" /\ ran'[t] = EINPROGRESS
      /\ \A u \in Threads \ {t} : UNCHANGED <<cpc[u], req[u], ran[u]>>
  BY <1>1, Returns DEF CheckCrc, BootInv
<1>3. ~touched[t] /\ operation_result[t] \in Images
        => flash[1] = operation_result[t] /\ flash[2] = operation_result[t]
  BY <1>1, <1>2 DEF CheckCrc, BootInv, ThreadInv, LoadOf
<1>4. /\ UNCHANGED <<flash, ram>> /\ MemoryParts' /\ Checked(t, operation_result[t])
      /\ pc[t] = "crc"
  BY DEF CheckCrc, memory, BootInv, Parts, MemoryParts
<1> QED BY <1>2, <1>3, <1>4, CheckedStep

LEMMA CheckSumStep ==
  ASSUME BootInv, NEW t \in Validators, CheckSum(t), ControlParts' PROVE BootInv'
<1>1. t \in Threads /\ t # "acpi" /\ pc[t] = "sum"
  BY ThreadNames DEF CheckSum
<1>2. FlashInv' /\ UNCHANGED <<cpc, req, ran>> /\ cpc[t] = "out" /\ ran[t] = EINPROGRESS
  BY <1>1, FlashStays, OutsideCalls DEF CheckSum, BootInv, Calling
<1>3. UNCHANGED <<flash, ram, ram_buffer, flash_wr_addr>>
      /\ crc_clash' \subseteq Threads \cup {"flash"}
  BY DEF CheckSum, BootInv, Parts, MemoryParts
<1>4. MemoryParts'
  BY <1>3 DEF BootInv, Parts, MemoryParts
<1>5. PICK v \in {ImageValue, "error", "other"} : Checked(t, v)
  BY DEF CheckSum
<1>6. v \in Images => flash[1] = v /\ flash[2] = v
  BY Names DEF ImageValue
<1> QED BY <1>1, <1>2, <1>3, <1>4, <1>5, <1>6, CheckedStep

\* Here begins a load: what was validated is in flash.
LEMMA CheckModeStep ==
  ASSUME BootInv, NEW t \in Validators, CheckMode(t), ControlParts' PROVE BootInv'
<1>1. t \in Threads /\ t # "acpi" /\ pc[t] = "mode" /\ "mode" \notin Calling
  BY ThreadNames DEF CheckMode, Calling
<1>2. UNCHANGED <<flash, ram>> /\ MemoryParts' /\ cpc[t] = "out" /\ ran[t] = EINPROGRESS
  BY <1>1, OutsideCalls DEF CheckMode, memory, BootInv, Parts, MemoryParts
<1>3. CASE info.boot_mode = "STAY"
  <2>1. Finish(t) /\ UNCHANGED flashVars
    BY <1>3 DEF CheckMode
  <2>2. FlashInv' /\ UNCHANGED <<cpc, req, ran>>
    BY <2>1, FlashStays DEF BootInv
  <2> QED BY <1>2, <2>1, <2>2, DropsImage
<1>4. CASE info.boot_mode # "STAY"
  <2> DEFINE r == [op |-> "LOAD", at |-> {1}]
  <2>1. Goto(t, "load1") /\ Request(t, r) /\ r \in Requests /\ UNCHANGED <<hdr, touched>>
    BY <1>4, RequestNames DEF CheckMode, history
  <2> HIDE DEF r
  <2>2. /\ FlashInv' /\ cpc'[t] = "put" /\ req'[t] = r /\ UNCHANGED ran
        /\ \A u \in Threads \ {t} : UNCHANGED <<cpc[u], req[u]>>
    BY <1>1, <2>1, Begins DEF BootInv
  <2>3. "load1" \in Pcs /\ "load1" \in PcOf(t)
    BY <1>1 DEF Pcs, PcOf
  <2>4. pc'[t] = "load1"
    BY <1>1, <2>1, <2>3, Goes DEF BootInv, Parts
  <2>5. CallOf(t) /\ LoadOf(t) /\ hdr[t] \in Images
    BY <1>1 DEF BootInv, ThreadInv, CallOf, Validated
  <2>6. CallOf(t)'
    BY <2>1, <2>2, <2>3, <2>4, <2>5 DEF CallOf, Calling, r
  <2>7. LoadOf(t)'
    BY <1>1, <1>2, <2>1, <2>2, <2>4, <2>5, Names DEF LoadOf, Loading
  <2> QED BY <1>1, <1>2, <2>1, <2>2, <2>3, <2>6, <2>7, MovesOn
<1> QED BY <1>3, <1>4

LEMMA LoadNextStep ==
  ASSUME BootInv, NEW t \in Validators, LoadNext(t), ControlParts' PROVE BootInv'
<1> DEFINE r == [op |-> "LOAD", at |-> {2}]
<1>1. t \in Threads /\ t # "acpi" /\ pc[t] = "next" /\ "next" \notin Calling
  BY ThreadNames DEF LoadNext, Calling
<1>2. UNCHANGED <<flash, ram>> /\ MemoryParts' /\ cpc[t] = "out" /\ ran[t] = EINPROGRESS
  BY <1>1, OutsideCalls DEF LoadNext, memory, BootInv, Parts, MemoryParts
<1>3. Goto(t, "load2") /\ Request(t, r) /\ r \in Requests /\ UNCHANGED <<hdr, touched>>
  BY RequestNames DEF LoadNext, history
<1> HIDE DEF r
<1>4. /\ FlashInv' /\ cpc'[t] = "put" /\ req'[t] = r /\ UNCHANGED ran
      /\ \A u \in Threads \ {t} : UNCHANGED <<cpc[u], req[u]>>
  BY <1>1, <1>3, Begins DEF BootInv
<1>5. "load2" \in Pcs /\ "load2" \in PcOf(t)
  BY <1>1 DEF Pcs, PcOf
<1>6. pc'[t] = "load2"
  BY <1>1, <1>3, <1>5, Goes DEF BootInv, Parts
<1>7. CallOf(t) /\ LoadOf(t) /\ hdr[t] \in Images
  BY <1>1 DEF BootInv, ThreadInv, CallOf, Validated, Loading
<1>8. CallOf(t)'
  BY <1>3, <1>4, <1>5, <1>6, <1>7 DEF CallOf, Calling, r
<1>9. LoadOf(t)'
  BY <1>1, <1>2, <1>3, <1>4, <1>6, <1>7, Names DEF LoadOf, Loading
<1> QED BY <1>1, <1>2, <1>3, <1>4, <1>5, <1>8, <1>9, MovesOn

\* A chunk is in RAM only if its load says so.
LEMMA LoadDoneStep ==
  ASSUME BootInv, NEW t \in Validators, LoadDone(t), ControlParts' PROVE BootInv'
<1>1. t \in Threads /\ t # "acpi" /\ pc[t] \in {"load1", "load2"}
  BY ThreadNames DEF LoadDone
<1>2. UNCHANGED <<flash, ram>> /\ MemoryParts'
  BY DEF LoadDone, memory, BootInv, Parts, MemoryParts
<1>3. /\ FlashInv' /\ operation_result[t] = ran[t] /\ cpc'[t] = "out" /\ ran'[t] = EINPROGRESS
      /\ \A u \in Threads \ {t} : UNCHANGED <<cpc[u], req[u], ran[u]>>
  BY <1>1, Returns DEF LoadDone, BootInv
<1>4. CASE operation_result[t] = "ok"
  <2> DEFINE l == IF pc[t] = "load1" THEN "next" ELSE "commit"
  <2>1. Goto(t, l) /\ UNCHANGED <<hdr, touched>>
    BY <1>4 DEF LoadDone, history
  <2>2. l \in Pcs /\ l \in PcOf(t)
    BY <1>1 DEF Pcs, PcOf
  <2>3. pc'[t] = l
    <3> HIDE DEF l
    <3> QED BY <1>1, <2>1, <2>2, Goes DEF BootInv, Parts
  <2>4. CallOf(t) /\ LoadOf(t) /\ hdr[t] \in Images
    BY <1>1 DEF BootInv, ThreadInv, CallOf, Validated, Loading
  <2>5. CallOf(t)'
    BY <1>1, <1>3, <2>1, <2>2, <2>3, <2>4 DEF CallOf, Calling
  <2>6. LoadOf(t)'
    BY <1>1, <1>2, <1>3, <1>4, <2>1, <2>3, <2>4 DEF LoadOf, Loading
  <2> HIDE DEF l
  <2> QED BY <1>1, <1>2, <1>3, <2>1, <2>2, <2>5, <2>6, MovesOn
<1>5. CASE operation_result[t] # "ok"
  <2>1. Finish(t)
    BY <1>5 DEF LoadDone
  <2> QED BY <1>2, <1>3, <2>1, DropsImage
<1> QED BY <1>4, <1>5

LEMMA CommitStep ==
  ASSUME BootInv, NEW t \in Validators, Commit(t), ControlParts' PROVE BootInv'
<1>1. /\ t \in Threads /\ t # "acpi" /\ pc[t] = "commit" /\ Goto(t, "jump")
      /\ "jump" \in Pcs /\ "jump" \in PcOf(t)
  BY ThreadNames DEF Commit, Pcs, PcOf
<1>2. /\ UNCHANGED <<flash, ram, hdr, touched>> /\ MemoryParts'
      /\ FlashInv' /\ UNCHANGED <<cpc, req, ran>>
  BY FlashStays DEF Commit, memory, history, BootInv, Parts, MemoryParts
<1>3. pc'[t] = "jump"
  BY <1>1, Goes DEF BootInv, Parts
<1>4. CallOf(t) /\ LoadOf(t)
  BY <1>1 DEF BootInv, ThreadInv
<1>5. CallOf(t)' /\ LoadOf(t)'
  BY <1>1, <1>2, <1>3, <1>4 DEF CallOf, LoadOf, Calling, Validated, Loading
<1> QED BY <1>1, <1>2, <1>5, MovesOn

-----------------------------------------------------------------------------
(* Starts: nothing is left of threads and calls.                           *)

LEMMA FreshFlash == FlashInit' => FlashInv'
BY InitFlashInv, PTL

LEMMA FreshStep ==
  ASSUME BootInv, NEW m \in {"start", "off"}, NEW a \in {"idle", "off"}, Fresh(m, a),
         ram' \in [1..2 -> Content], ControlParts'
  PROVE  BootInv'
<1>1. FlashInv'
  BY FreshFlash, Names DEF Fresh, FlashInit
<1>2. /\ pc'["main"] = m /\ pc'["acpi"] = a /\ pc'["work"] = "off"
      /\ pc' \in [Threads -> Pcs]
  BY ThreadNames DEF Fresh, Pcs, PcOf
<1>3. hdr' \in [Threads -> Content] /\ touched' \in [Threads -> BOOLEAN]
  BY Names DEF Fresh
<1>4. MemoryParts'
  <2>1. flash' \in [0..2 -> Content]
    BY Names DEF Fresh, CutShort, BootInv, Parts, MemoryParts
  <2> QED BY <2>1, Names DEF Fresh, MemoryParts
<1>5. \A t \in Threads : cpc'[t] = "out" /\ ran'[t] = EINPROGRESS
  BY DEF Fresh
<1>6. \A t \in Threads : /\ pc'[t] \in PcOf(t) \cap {"start", "off", "idle"}
                         /\ pc'[t] \notin Calling \cup Validated
  BY <1>2, ThreadNames DEF PcOf, Calling, Validated, Loading
<1>7. ThreadInv'
  BY <1>5, <1>6 DEF ThreadInv, CallOf, LoadOf, Loading
<1> QED BY <1>1, <1>2, <1>3, <1>4, <1>7 DEF BootInv, Parts, ThreadParts

LEMMA Bounds == MaxUpdates \in Nat /\ MaxBoots \in Nat
BY BootAssumption

LEMMA RestartStep ==
  ASSUME BootInv, NEW r, Restart(r) PROVE BootInv'
<1>1. Fresh("start", "idle") /\ ram' \in [1..2 -> Content]
  BY Names DEF Restart
<1>2. running' = "boot" /\ work' = FALSE /\ UNCHANGED updates
  BY DEF Restart, Fresh
<1>3. boots' \in 0..MaxBoots
  BY Bounds DEF Restart, BootInv, Parts, ControlParts
<1>4. word' \in {"none", "stay", "exit"}
  BY DEF Restart, BootInv, Parts, ControlParts
<1>5. held' \in BOOLEAN
  BY Zenon DEF Restart
<1>6. ControlParts'
  BY <1>2, <1>3, <1>4, <1>5 DEF BootInv, Parts, ControlParts
<1> QED BY <1>1, <1>6, FreshStep

LEMMA JumpStep ==
  ASSUME BootInv, NEW t \in Validators, Jump(t), UNCHANGED updates PROVE BootInv'
<1>1. Fresh("off", "off") /\ ram' \in [1..2 -> Content]
  BY DEF Jump, BootInv, Parts, MemoryParts
<1>2. ControlParts'
  BY DEF Jump, Fresh, BootInv, Parts, ControlParts
<1> QED BY <1>1, <1>2, FreshStep

LEMMA ValidateStep ==
  ASSUME BootInv, NEW t \in Validators, Validate(t), UNCHANGED updates PROVE BootInv'
<1>1. CASE Jump(t)
  BY <1>1, JumpStep
<1>2. CASE ~Jump(t)
  <2>1. UNCHANGED <<running, work, boots, word, held>>
    BY <1>2 DEF Validate, ReadHeader, CheckHeader, CheckCrc, CheckSum, Checked, CheckMode,
       LoadNext, LoadDone, Commit, shared, history, FinishUnchanged
  <2>2. ControlParts'
    BY <2>1 DEF BootInv, Parts, ControlParts
  <2> QED BY <1>2, <2>2, ReadHeaderStep, CheckHeaderStep, CheckCrcStep, CheckSumStep,
          CheckModeStep, LoadNextStep, LoadDoneStep, CommitStep DEF Validate
<1> QED BY <1>1, <1>2

-----------------------------------------------------------------------------
(* The work, the host's commands, the application.                         *)

LEMMA WorkStep ==
  ASSUME BootInv, WorkStart \/ GiveUp, UNCHANGED updates PROVE BootInv'
<1>1. "work" \in Threads /\ pc["work"] \in {"off", "giveup"}
  BY ThreadNames DEF WorkStart, GiveUp
<1>2. PICK l \in {"start", "off"} : Goto("work", l)
  BY DEF WorkStart, GiveUp
<1>3. l \in Pcs /\ l \in PcOf("work")
  BY DEF Pcs, PcOf
<1>4. /\ UNCHANGED <<flash, ram, hdr, touched, flashVars>> /\ MemoryParts' /\ ControlParts'
  BY DEF WorkStart, GiveUp, shared, memory, history, BootInv, Parts, MemoryParts, ControlParts
<1>5. FlashInv' /\ UNCHANGED <<cpc, req, ran>> /\ cpc["work"] = "out" /\ ran["work"] = EINPROGRESS
  BY <1>1, <1>4, FlashStays, OutsideCalls DEF BootInv, Calling
<1>6. pc'["work"] = l
  BY <1>1, <1>2, <1>3, Goes DEF BootInv, Parts
<1>7. CallOf("work")' /\ LoadOf("work")'
  BY <1>3, <1>5, <1>6 DEF CallOf, LoadOf, Calling, Validated, Loading
<1> QED BY <1>1, <1>2, <1>3, <1>4, <1>5, <1>7, MovesOn

\* The ACPI thread goes on to l, in or out of a call, and the validations' headers,
\* and the flash, are left alone.
LEMMA AcpiMoves ==
  ASSUME BootInv, NEW l \in PcOf("acpi"), Goto("acpi", l), FlashInv',
         UNCHANGED <<flash, ram, touched>>, MemoryParts', ControlParts',
         hdr' \in [Threads -> Content],
         \A u \in Threads \ {"acpi"} : UNCHANGED <<hdr[u], cpc[u], req[u], ran[u]>>,
         (cpc["acpi"] = "out")' <=> l \notin Calling,
         (cpc["acpi"] = "out" => ran["acpi"] = EINPROGRESS)'
  PROVE  BootInv'
<1>1. "acpi" \in Threads /\ l \in Pcs
  BY ThreadNames DEF Pcs
<1>2. /\ pc' \in [Threads -> Pcs] /\ pc'["acpi"] = l
      /\ \A u \in Threads \ {"acpi"} : pc'[u] = pc[u]
  BY <1>1, Goes DEF BootInv, Parts
<1>3. CallOf("acpi")' /\ LoadOf("acpi")'
  BY <1>2 DEF CallOf, LoadOf, PcOf
<1> QED BY <1>1, <1>2, <1>3, OneMoves DEF StepOf, BootInv, Parts, ThreadParts

\* ... outside a call.
LEMMA AcpiStays ==
  ASSUME BootInv, pc["acpi"] \notin Calling, NEW l \in PcOf("acpi") \ Calling, Goto("acpi", l),
         UNCHANGED <<flash, ram, touched, flashVars>>, MemoryParts', ControlParts',
         hdr' \in [Threads -> Content],
         \A u \in Threads \ {"acpi"} : UNCHANGED hdr[u]
  PROVE  BootInv'
<1>1. FlashInv' /\ UNCHANGED <<cpc, req, ran>> /\ cpc["acpi"] = "out" /\ ran["acpi"] = EINPROGRESS
  BY FlashStays, OutsideCalls, ThreadNames DEF BootInv
<1> QED BY <1>1, AcpiMoves

\* ... into one.
LEMMA AcpiCalls ==
  ASSUME BootInv, NEW l \in PcOf("acpi") \cap Calling, Goto("acpi", l),
         NEW r \in Requests, Request("acpi", r),
         UNCHANGED <<flash, ram, touched, hdr>>, MemoryParts', ControlParts'
  PROVE  BootInv'
<1>1. /\ FlashInv' /\ cpc'["acpi"] = "put" /\ UNCHANGED ran
      /\ \A u \in Threads \ {"acpi"} : UNCHANGED <<cpc[u], req[u]>>
  BY Begins, ThreadNames DEF BootInv
<1> QED BY <1>1, AcpiMoves DEF BootInv, Parts, ThreadParts

\* ... out of one.
LEMMA AcpiReturns ==
  ASSUME BootInv, Goto("acpi", "idle"), Return("acpi"),
         UNCHANGED <<flash, ram, touched>>, MemoryParts', ControlParts',
         hdr' \in [Threads -> Content],
         \A u \in Threads \ {"acpi"} : UNCHANGED hdr[u]
  PROVE  BootInv'
<1>1. /\ FlashInv' /\ cpc'["acpi"] = "out" /\ ran'["acpi"] = EINPROGRESS
      /\ \A u \in Threads \ {"acpi"} : UNCHANGED <<cpc[u], req[u], ran[u]>>
  BY Returns, ThreadNames DEF BootInv
<1>2. "idle" \in PcOf("acpi") /\ "idle" \notin Calling
  BY DEF PcOf, Calling
<1> QED BY <1>1, <1>2, AcpiMoves

\* Only the history and the boot info change.
LEMMA NobodyMoves ==
  ASSUME BootInv, UNCHANGED <<flashVars, pc, hdr, touched, flash, ram>>,
         MemoryParts', ControlParts'
  PROVE  BootInv'
<1>1. FlashInv' /\ UNCHANGED <<cpc, req, ran>>
  BY FlashStays DEF BootInv
<1> QED BY <1>1 DEF BootInv, Parts, ThreadParts, ThreadInv, CallOf, LoadOf

LEMMA ControlStep ==
  ASSUME BootInv, AcpiControl PROVE BootInv'
<1>1. pc["acpi"] = "idle" /\ "idle" \notin Calling
  BY DEF AcpiControl, EnterBootloader, ExitBootloader, ResetEc, CrashKernelOops, CrashAssert,
     CrashWatchdog, Crash, RunCrc, Command, Calling
<1>2. UNCHANGED <<flash, ram, touched, flashVars>> /\ MemoryParts'
  BY DEF AcpiControl, EnterBootloader, ExitBootloader, ResetEc, CrashKernelOops, CrashAssert,
     CrashWatchdog, Crash, RunCrc, Asks, memory, history, BootInv, Parts, MemoryParts
<1>3. ControlParts'
  BY Zenon DEF AcpiControl, EnterBootloader, ExitBootloader, ResetEc, CrashKernelOops,
     CrashAssert, CrashWatchdog, Crash, RunCrc, Asks, control, history, BootInv, Parts,
     ControlParts
<1>4. CASE EnterBootloader \/ ExitBootloader
  BY <1>2, <1>3, <1>4, NobodyMoves DEF EnterBootloader, ExitBootloader, control
<1>5. CASE ResetEc \/ CrashKernelOops \/ CrashAssert \/ CrashWatchdog \/ RunCrc
  <2>1. PICK l \in {"reboot", "idle", "hung", "run_crc"} : Goto("acpi", l)
    BY <1>5 DEF ResetEc, CrashKernelOops, CrashAssert, CrashWatchdog, Crash, RunCrc
  <2>2. l \in PcOf("acpi") \ Calling
    BY DEF PcOf, Calling
  <2>3. /\ hdr' \in [Threads -> Content] /\ \A u \in Threads \ {"acpi"} : UNCHANGED hdr[u]
    <3>1. CASE RunCrc
      <4>1. flash[0] \in Content /\ "blank" \in Content
        BY Names DEF BootInv, Parts, MemoryParts
      <4> QED BY <3>1, <4>1 DEF RunCrc, BootInv, Parts, ThreadParts
    <3>2. CASE ~RunCrc
      BY <1>5, <3>2 DEF ResetEc, CrashKernelOops, CrashAssert, CrashWatchdog, Crash, BootInv,
         Parts, ThreadParts
    <3> QED BY <3>1, <3>2
  <2> QED BY <1>1, <1>2, <1>3, <2>1, <2>2, <2>3, AcpiStays
<1> QED BY <1>4, <1>5 DEF AcpiControl

LEMMA UpdateStep ==
  ASSUME BootInv, AcpiUpdate PROVE BootInv'
<1>1. ControlParts'
  <2>1. updates' \in 0..MaxUpdates
    BY Bounds DEF AcpiUpdate, BootInv, Parts, ControlParts
  <2>2. UNCHANGED <<running, work, boots, word, held>>
    BY DEF AcpiUpdate, ErasePartition, EraseRegion, ReadSetup, WriteRamBuffer,
       WriteDesignatedRegion, shared, control, history
  <2> QED BY <2>1, <2>2 DEF BootInv, Parts, ControlParts
<1>2. CASE \E i \in Images : WriteRamBuffer(i)
  <2>1. UNCHANGED <<flashVars, pc, hdr, touched, flash, ram>> /\ MemoryParts'
    BY <1>2, Names DEF WriteRamBuffer, control, history, BootInv, Parts, MemoryParts
  <2> QED BY <1>1, <2>1, NobodyMoves
<1>3. ASSUME NEW l \in {"erase", "wait", "write"}, Goto("acpi", l),
             NEW r \in Requests, Request("acpi", r), UNCHANGED <<memory, hdr, history>>
      PROVE  BootInv'
  <2>1. l \in PcOf("acpi") \cap Calling
    BY DEF PcOf, Calling
  <2>2. UNCHANGED <<flash, ram, touched, hdr>> /\ MemoryParts'
    BY <1>3 DEF memory, history, BootInv, Parts, MemoryParts
  <2> QED BY <1>1, <1>3, <2>1, <2>2, AcpiCalls
<1>4. CASE ErasePartition
  BY <1>3, <1>4, RequestNames DEF ErasePartition
<1>5. CASE \E q \in 0..2 : EraseRegion(q) \/ ReadSetup(q)
  <2>1. 0..2 \subseteq 0..3
    OBVIOUS
  <2> QED BY <1>3, <1>5, <2>1, RequestNames DEF EraseRegion, ReadSetup
<1>6. CASE \E q \in 0..2, auto \in BOOLEAN : WriteDesignatedRegion(q, auto)
  <2>1. PICK q \in 0..2, auto \in BOOLEAN : WriteDesignatedRegion(q, auto)
    BY <1>6
  <2> DEFINE a == IF auto THEN flash_wr_addr ELSE q
  <2>2. a \in 0..3
    BY DEF BootInv, Parts, MemoryParts
  <2>3. /\ Request("acpi", [op |-> "WRITE", at |-> {a}]) /\ Goto("acpi", "write")
        /\ UNCHANGED <<memory, hdr, history>>
    BY <2>1 DEF WriteDesignatedRegion
  <2> HIDE DEF a
  <2> QED BY <1>3, <2>2, <2>3, RequestNames
<1> QED BY <1>2, <1>4, <1>5, <1>6 DEF AcpiUpdate

LEMMA ContinueStep ==
  ASSUME BootInv, EraseDone \/ WriteDone \/ RequestDone \/ RunCrcRequest \/ RunCrcDone,
         UNCHANGED updates
  PROVE  BootInv'
<1>1. ControlParts'
  BY DEF EraseDone, WriteDone, RequestDone, RunCrcRequest, RunCrcDone, shared, history,
     BootInv, Parts, ControlParts
<1>2. CASE EraseDone \/ WriteDone \/ RequestDone
  <2>1. Goto("acpi", "idle") /\ Return("acpi") /\ UNCHANGED <<flash, ram, touched, hdr>>
    BY <1>2 DEF EraseDone, WriteDone, RequestDone, memory, history
  <2>2. MemoryParts'
    BY <1>2 DEF EraseDone, WriteDone, RequestDone, memory, BootInv, Parts, MemoryParts
  <2>3. hdr' \in [Threads -> Content]
    BY <2>1 DEF BootInv, Parts, ThreadParts
  <2> QED BY <1>1, <2>1, <2>2, <2>3, AcpiReturns
<1>3. CASE RunCrcRequest \/ RunCrcDone
  <2>1. UNCHANGED <<flash, ram, touched>> /\ MemoryParts'
    BY <1>3 DEF RunCrcRequest, RunCrcDone, memory, history, BootInv, Parts, MemoryParts
  <2>2. hdr' \in [Threads -> Content] /\ \A u \in Threads \ {"acpi"} : UNCHANGED hdr[u]
    BY <1>3, Names DEF RunCrcRequest, RunCrcDone, BootInv, Parts, ThreadParts
  <2>3. CASE RunCrcDone
    BY <1>1, <2>1, <2>2, <2>3, AcpiReturns DEF RunCrcDone
  <2>4. CASE RunCrcRequest /\ hdr["acpi"] \in Images
    <3>1. /\ Request("acpi", [op |-> "CRC", at |-> {1, 2}]) /\ Goto("acpi", "run_crc_wait")
          /\ UNCHANGED hdr
      BY <2>4 DEF RunCrcRequest
    <3>2. "run_crc_wait" \in PcOf("acpi") \cap Calling
      BY DEF PcOf, Calling
    <3> QED BY <1>1, <2>1, <3>1, <3>2, RequestNames, AcpiCalls
  <2>5. CASE RunCrcRequest /\ hdr["acpi"] \notin Images
    <3>1. pc["acpi"] = "run_crc" /\ Goto("acpi", "idle") /\ UNCHANGED flashVars
      BY <2>5 DEF RunCrcRequest
    <3>2. "idle" \in PcOf("acpi") \ Calling /\ "run_crc" \notin Calling
      BY DEF PcOf, Calling
    <3> QED BY <1>1, <2>1, <2>2, <3>1, <3>2, AcpiStays
  <2> QED BY <1>3, <2>3, <2>4, <2>5
<1> QED BY <1>2, <1>3

LEMMA AppStep ==
  ASSUME BootInv, AppEnterBootloader \/ AppShellJump, UNCHANGED updates PROVE BootInv'
<1>1. UNCHANGED <<flashVars, pc, hdr, touched, flash, ram>> /\ MemoryParts'
  BY DEF AppEnterBootloader, AppShellJump, memory, BootInv, Parts, MemoryParts
<1>2. ControlParts'
  BY DEF AppEnterBootloader, AppShellJump, BootInv, Parts, ControlParts
<1> QED BY <1>1, <1>2, NobodyMoves

-----------------------------------------------------------------------------
(* The flash service: a request is queued, taken, executed, answered.      *)

\* Nobody's place changes, nor what anybody has called for or got.
LEMMA ServiceMoves ==
  ASSUME BootInv, FlashInv', UNCHANGED <<shared, memory, control, history, updates, req, ran>>,
         \A t \in Threads : cpc'[t] = "out" <=> cpc[t] = "out"
  PROVE  BootInv'
<1>1. /\ UNCHANGED <<pc, hdr, touched, flash, ram, req, ran, ram_buffer, flash_wr_addr, crc_clash>>
      /\ UNCHANGED <<running, work, updates, boots, word, held>>
  BY DEF shared, memory, control, history
<1>2. Parts'
  BY <1>1 DEF BootInv, Parts, ThreadParts, MemoryParts, ControlParts
<1>3. ThreadInv'
  BY <1>1 DEF BootInv, ThreadInv, CallOf, LoadOf
<1> QED BY <1>2, <1>3 DEF BootInv

LEMMA PutMoves ==
  ASSUME BootInv, NEW t \in Threads, PutStep(t), UNCHANGED updates PROVE BootInv'
<1>1. Put(t) /\ FlashInv'
  BY PutInv, Names DEF PutStep, BootInv
<1>2. UNCHANGED <<req, ran>> /\ cpc[t] = "put" /\ cpc' = [cpc EXCEPT ![t] = "wait"]
  BY <1>1 DEF Put
<1>3. \A u \in Threads : cpc'[u] = "out" <=> cpc[u] = "out"
  BY <1>2, Names DEF BootInv, FlashInv, FlashTypeOK
<1> QED BY <1>1, <1>2, <1>3, ServiceMoves DEF PutStep

LEMMA ServiceThreadMoves ==
  ASSUME BootInv, FlashThread, UNCHANGED <<shared, memory, control, history, updates>>
  PROVE  BootInv'
<1>1. FlashInv'
  BY NextFlashInv DEF FlashNext, BootInv
<1>2. UNCHANGED <<req, ran, cpc>>
  BY DEF FlashThread, Get, Idle, Answer, Give
<1> QED BY <1>1, <1>2, ServiceMoves

\* The message in hand is of a thread that waits, and what it asked for.
LEMMA InHand ==
  ASSUME BootInv, fpc = "execute"
  PROVE  /\ msg.client \in Threads /\ cpc[msg.client] = "wait"
         /\ msg.request = req[msg.client] /\ pc[msg.client] \in Calling
<1>1. msg.client \in Threads /\ cpc[msg.client] = "wait" /\ msg.request = req[msg.client]
  BY Names DEF BootInv, FlashInv, FlashTypeOK, StackSafe, Messages
<1> QED BY <1>1 DEF BootInv, ThreadInv, CallOf

\* An operation ends with r and changes the flash or the RAM.
LEMMA Executed ==
  ASSUME BootInv, NEW r \in Results, Execute(r)
  PROVE  /\ FlashInv' /\ UNCHANGED <<cpc, req>>
         /\ ran'[msg.client] = r
         /\ \A u \in Threads \ {msg.client} : ran'[u] = ran[u]
<1>1. FlashInv'
  BY ExecuteInv DEF BootInv
<1>2. fpc = "execute"
  BY DEF Execute
<1> QED BY <1>1, <1>2, InHand, Names DEF BootInv, FlashInv, FlashTypeOK, Execute

\* The calls, after an operation: only the result has changed.
LEMMA ExecutedCalls ==
  ASSUME BootInv, NEW r \in Results, Execute(r), UNCHANGED <<pc, hdr>>
  PROVE  \A t \in Threads : CallOf(t)'
<1> SUFFICES ASSUME NEW t \in Threads PROVE CallOf(t)'
  OBVIOUS
<1>1. cpc[msg.client] = "wait"
  BY InHand DEF Execute
<1> QED BY <1>1, Executed DEF BootInv, ThreadInv, CallOf

\* Flash changes: no validation under way is sure of its image any more.
LEMMA ChangeFlashStep ==
  ASSUME BootInv, NEW op, NEW new \in [0..2 -> Content], fpc = "execute", ChangeFlash(op, new),
         UNCHANGED updates
  PROVE  BootInv'
<1>1. PICK r \in {"ok", "error"} : Execute(r)
  BY DEF ChangeFlash, OpFails
<1>2. r \in Results
  BY Names
<1>3. FlashInv'
  BY <1>1, <1>2, Executed
<1>4. UNCHANGED <<pc, hdr, work, running, ram, ram_buffer, flash_wr_addr, crc_clash,
                  boots, word, held>>
  BY DEF ChangeFlash, shared, control
<1>5. \A t \in Threads : CallOf(t)'
  BY <1>1, <1>2, <1>4, ExecutedCalls
<1>6. flash' \in [0..2 -> Content]
  <2>1. flash \in [0..2 -> Content] /\ "mixed" \in Content
    BY Names DEF BootInv, Parts, MemoryParts
  <2> QED BY <2>1 DEF ChangeFlash, CutShort
<1>7. /\ touched' \in [Threads -> BOOLEAN]
      /\ \A t \in Threads \ {"acpi"} : pc[t] \notin {"off", "start", "giveup"} => touched'[t]
  <2>1. touched' = [t \in Threads |->
                      touched[t] \/ (t # "acpi" /\ pc[t] \notin {"off", "start", "giveup"})]
    BY DEF ChangeFlash, Touches
  <2>2. \A t \in Threads :
          (touched[t] \/ (t # "acpi" /\ pc[t] \notin {"off", "start", "giveup"})) \in BOOLEAN
    OBVIOUS
  <2> QED BY <2>1, <2>2, Zenon
<1>8. \A t \in Threads : LoadOf(t)'
  BY <1>4, <1>7 DEF LoadOf, Loading
<1>9. Parts'
  BY <1>4, <1>6, <1>7 DEF BootInv, Parts, ThreadParts, MemoryParts, ControlParts
<1> QED BY <1>3, <1>5, <1>8, <1>9 DEF BootInv, ThreadInv

\* Reading and computing leave flash and RAM alone.  A result is one of the image's
\* if the flash holds that image.
LEMMA ReadsFlash ==
  ASSUME BootInv, NEW r \in Results, Execute(r), msg.request.op # "LOAD",
         r \in Images /\ msg.request.op = "CRC" => flash[1] = r /\ flash[2] = r,
         UNCHANGED <<flash, ram, flash_wr_addr, shared, control, history, updates>>,
         ram_buffer' \in Content, crc_clash' \subseteq Threads \cup {"flash"}
  PROVE  BootInv'
<1>1. /\ UNCHANGED <<pc, hdr, touched, work, running, boots, word, held>>
  BY DEF shared, control, history
<1>2. \A t \in Threads : CallOf(t)'
  BY <1>1, ExecutedCalls
<1>3. ASSUME NEW t \in Threads PROVE LoadOf(t)'
  <2>1. CallOf(t) /\ LoadOf(t)
    BY DEF BootInv, ThreadInv
  <2>2. CASE t # msg.client
    <3>1. ran'[t] = ran[t]
      BY <2>2, Executed
    <3> QED BY <1>1, <2>1, <3>1 DEF LoadOf
  <2>3. CASE t = msg.client
    <3>1. ran'[t] = r /\ req[t].op # "LOAD" /\ (pc[t] = "crc" => msg.request.op = "CRC")
      BY <2>1, <2>3, Executed, InHand DEF Execute, CallOf
    <3>2. pc[t] # "load1" /\ pc[t] # "load2"
      BY <2>1, <3>1 DEF CallOf
    <3> QED BY <1>1, <2>1, <3>1, <3>2 DEF LoadOf
  <2> QED BY <2>2, <2>3
<1>4. Parts'
  BY <1>1 DEF BootInv, Parts, ThreadParts, MemoryParts, ControlParts
<1> QED BY <1>2, <1>3, <1>4, Executed DEF BootInv, ThreadInv

LEMMA ExecuteReadStep == ASSUME BootInv, ExecuteRead, UNCHANGED updates PROVE BootInv'
<1>1. PICK r \in {"ok", "error"} : Execute(r)
  BY DEF ExecuteRead, OpFails
<1>2. r \in Results /\ r \notin Images
  BY Names
<1>3. ram_buffer' \in Content
  <2>1. req[msg.client] \in BootRequests /\ msg.request = req[msg.client]
    BY InHand, Names DEF ExecuteRead, BootInv, FlashInv, FlashTypeOK
  <2>2. msg.request.op = "READ"
    BY DEF ExecuteRead
  <2>3. msg.request.at \in {{0}, {1}, {2}, {3}}
    BY <2>1, <2>2 DEF BootRequests
  <2>4. \A q \in msg.request.at : q # 3 => flash[q] \in Content
    BY <2>3 DEF BootInv, Parts, MemoryParts
  <2> QED BY <2>4, Names DEF ExecuteRead, BootInv, Parts, MemoryParts
<1> QED BY <1>1, <1>2, <1>3, ReadsFlash DEF ExecuteRead, BootInv, Parts, MemoryParts

LEMMA ExecuteCrcStep == ASSUME BootInv, ExecuteCrc, UNCHANGED updates PROVE BootInv'
<1>1. PICK r \in {ImageValue, "other", "error"} : Execute(r)
  BY DEF ExecuteCrc, OpFails
<1>2. r \in Results
  BY Names, ImageValueTyped
<1>3. r \in Images => flash[1] = r /\ flash[2] = r
  BY Names DEF ImageValue
<1>4. crc_clash' \subseteq Threads \cup {"flash"} /\ ram_buffer' \in Content
  BY DEF ExecuteCrc, BootInv, Parts, MemoryParts
<1> QED BY <1>1, <1>2, <1>3, <1>4, ReadsFlash DEF ExecuteCrc

\* A load brings pieces of what is in flash, for whichever thread asked for it.
LEMMA ExecuteLoadStep == ASSUME BootInv, ExecuteLoad, UNCHANGED updates PROVE BootInv'
<1>1. /\ fpc = "execute" /\ msg.request.op = "LOAD"
      /\ UNCHANGED <<flash, ram_buffer, flash_wr_addr, crc_clash, pc, hdr, touched, work,
                     running, boots, word, held>>
  BY DEF ExecuteLoad, shared, control, history
<1>2. PICK r \in {"ok", "error"} :
        /\ Execute(r)
        /\ r = "ok" => ram' = [q \in 1..2 |-> IF q \in msg.request.at THEN flash[q] ELSE ram[q]]
        /\ r = "error" => UNCHANGED ram
  BY DEF ExecuteLoad, OpFails
<1>3. r \in Results
  BY Names
<1>4. /\ ram' \in [1..2 -> Content] /\ \A q \in 1..2 : ram'[q] = ram[q] \/ ram'[q] = flash[q]
      /\ r = "ok" => \A q \in msg.request.at \cap (1..2) : ram'[q] = flash[q]
  <2>1. flash \in [0..2 -> Content] /\ ram \in [1..2 -> Content]
    BY DEF BootInv, Parts, MemoryParts
  <2>2. CASE r = "ok"
    BY <1>2, <2>1, <2>2
  <2>3. CASE r = "error"
    BY <1>2, <2>1, <2>3
  <2> QED BY <2>2, <2>3
<1>5. \A t \in Threads : CallOf(t)'
  BY <1>1, <1>2, <1>3, ExecutedCalls
<1>6. 1 \in 1..2 /\ 2 \in 1..2
  OBVIOUS
<1>7. ASSUME NEW t \in Threads PROVE LoadOf(t)'
  <2>1. CallOf(t) /\ LoadOf(t)
    BY DEF BootInv, ThreadInv
  <2>2. CASE t # msg.client
    <3>1. ran'[t] = ran[t]
      BY <1>2, <1>3, <2>2, Executed
    <3> QED BY <1>1, <1>4, <1>6, <2>1, <3>1 DEF LoadOf, Loading
  <2>3. CASE t = msg.client
    <3>1. ran'[t] = r /\ msg.request = req[t]
      BY <1>1, <1>2, <1>3, <2>3, Executed, InHand
    <3>2. pc[t] # "crc"
      BY <1>1, <2>1, <3>1 DEF CallOf
    <3>3. r = "ok" => /\ pc[t] = "load1" => ram'[1] = flash[1]
                      /\ pc[t] = "load2" => ram'[2] = flash[2]
      BY <1>4, <1>6, <2>1, <3>1 DEF CallOf
    <3> QED BY <1>1, <1>4, <1>6, <2>1, <3>1, <3>2, <3>3 DEF LoadOf, Loading
  <2> QED BY <2>2, <2>3
<1>8. Parts'
  BY <1>1, <1>4 DEF BootInv, Parts, ThreadParts, MemoryParts, ControlParts
<1> QED BY <1>2, <1>3, <1>5, <1>7, <1>8, Executed DEF BootInv, ThreadInv

LEMMA ServiceStep == ASSUME BootInv, FlashServiceThread PROVE BootInv'
<1>1. UNCHANGED updates
  BY DEF FlashServiceThread
<1>2. CASE FlashThread /\ UNCHANGED <<shared, memory, control, history>>
  BY <1>1, <1>2, ServiceThreadMoves
<1>3. CASE ExecuteErase \/ ExecuteWrite
  <2>1. flash \in [0..2 -> Content] /\ ram_buffer \in Content
    BY DEF BootInv, Parts, MemoryParts
  <2>2. \A at : Erased(at) \in [0..2 -> Content] /\ Written(at) \in [0..2 -> Content]
    BY <2>1, Names DEF Erased, Written
  <2> QED BY <1>1, <1>3, <2>2, ChangeFlashStep DEF ExecuteErase, ExecuteWrite
<1>4. CASE ExecuteRead \/ ExecuteCrc \/ ExecuteLoad
  BY <1>1, <1>4, ExecuteReadStep, ExecuteCrcStep, ExecuteLoadStep
<1> QED BY <1>2, <1>3, <1>4 DEF FlashServiceThread

-----------------------------------------------------------------------------
LEMMA InitBootInv == Init => BootInv
<1> SUFFICES ASSUME Init PROVE BootInv
  OBVIOUS
<1>1. FlashInv
  BY InitFlashInv DEF Init
<1>2. ThreadParts
  BY Names DEF Init, ThreadParts, Pcs, PcOf
<1>3. MemoryParts
  <2>1. Images \cup {"blank"} \subseteq Content
    BY Names
  <2>2. flash \in [0..2 -> Content] /\ ram \in [1..2 -> Content]
    BY <2>1, Names DEF Init
  <2> QED BY <2>2, Names DEF Init, MemoryParts
<1>4. ControlParts
  <2>1. 0 \in 0..MaxUpdates /\ 0 \in 0..MaxBoots
    BY Bounds
  <2>2. /\ running = "boot" /\ updates = 0 /\ boots = 0 /\ word = "none"
        /\ work = FALSE /\ held \in BOOLEAN
    BY DEF Init
  <2> QED BY <2>1, <2>2 DEF ControlParts
<1>5. \A t \in Threads : cpc[t] = "out" /\ ran[t] = EINPROGRESS
  BY Names DEF Init, FlashInit
<1>6. \A t \in Threads : /\ pc[t] \in PcOf(t) \cap {"start", "off", "idle"}
                         /\ pc[t] \notin Calling \cup Validated
  BY ThreadNames DEF Init, PcOf, Calling, Validated, Loading
<1>7. ThreadInv
  BY <1>5, <1>6 DEF ThreadInv, CallOf, LoadOf, Loading
<1> QED BY <1>1, <1>2, <1>3, <1>4, <1>7 DEF BootInv, Parts

LEMMA NextBootInv == BootInv /\ [Next]_vars => BootInv'
<1> SUFFICES ASSUME BootInv, [Next]_vars PROVE BootInv'
  OBVIOUS
<1>1. CASE Bootloader
  <2>1. CASE WorkThread \/ MainThread
    BY <2>1, WorkStep, ValidateStep, PutMoves, ThreadNames DEF WorkThread, MainThread
  <2>2. CASE AcpiControl \/ AcpiUpdate
    BY <2>2, ControlStep, UpdateStep
  <2>3. CASE AcpiContinue
    BY <2>3, ContinueStep, PutMoves, ThreadNames DEF AcpiContinue
  <2>4. CASE FlashServiceThread
    BY <2>4, ServiceStep
  <2> QED BY <1>1, <2>1, <2>2, <2>3, <2>4 DEF Bootloader
<1>2. CASE Reboot \/ AppJump \/ UnaskedReset
  BY <1>2, RestartStep DEF Reboot, AppJump, UnaskedReset, Reset
<1>3. CASE (AppEnterBootloader \/ AppShellJump) /\ UNCHANGED updates
  BY <1>3, AppStep
<1>4. CASE UNCHANGED vars
  BY <1>4, ServiceMoves, FlashStays DEF vars, BootInv
<1> QED BY <1>1, <1>2, <1>3, <1>4 DEF Next

\* Every variable of booting and updating keeps its type.
THEOREM BootTypeCorrect == Spec => []BootTypeOK
<1>1. Inv /\ BootInv => BootTypeOK
  <2> SUFFICES ASSUME Inv, BootInv PROVE BootTypeOK
    OBVIOUS
  <2>1. pc \in [Threads -> {"off", "start", "header", "sum", "crc", "mode",
                            "load1", "next", "load2", "commit", "jump", "giveup",
                            "idle", "erase", "write", "wait", "run_crc",
                            "run_crc_wait", "reboot", "hung"}]
    BY DEF BootInv, Parts, ThreadParts, Pcs, PcOf
  <2>2. info \in BootInfo /\ retained \in BootInfo /\ asked \in Reasons /\ expected \in Reasons
    BY DEF Inv, InfoInv, BootInfo
  <2> QED BY <2>1, <2>2 DEF BootTypeOK, BootInv, FlashInv, Parts, ThreadParts, MemoryParts,
          ControlParts
<1> QED BY <1>1, InitInv, NextInv, InitBootInv, NextBootInv, PTL DEF Spec

\* What either of the two threads jumps to is the whole image it validated, if the
\* image is to be validated at all and nothing wrote to flash since the thread read
\* the header.
THEOREM LoadedImageIsVerified == Spec => []LoadedIsVerified
<1>1. BootInv => LoadedIsVerified
  <2> SUFFICES ASSUME BootInv, NEW t \in {"main", "work"}, pc[t] = "jump", ~touched[t],
                      Validation[hdr[t]] # "NONE", NEW q \in 1..2
               PROVE  ram[q] = hdr[t]
    BY DEF LoadedIsVerified, Verified
  <2>1. LoadOf(t) /\ t # "acpi"
    BY ThreadNames DEF BootInv, ThreadInv
  <2>2. q = 1 \/ q = 2
    OBVIOUS
  <2> QED BY <2>1, <2>2 DEF LoadOf, Loading
<1> QED BY <1>1, InitBootInv, NextBootInv, PTL DEF Spec
-----------------------------------------------------------------------------
(* What a validation is told of a good image.                              *)

\* Flash operations succeed, and no image is validated by a checksum, whose
\* computation shares its buffer with that of a CRC.
NothingDisturbs == FlashFails = FALSE /\ \A i \in Images : Validation[i] # "CHECKSUM"

\* What the thread has read and been answered is what the flash says, while nothing
\* has written to flash since it read the header.
GoodOf(t) ==
    /\ pc[t] # "sum"
    /\ ~touched[t] =>
         /\ pc[t] \in {"header"} \cup Validated => hdr[t] = flash[0]
         /\ pc[t] = "crc" /\ ran[t] # EINPROGRESS => ran[t] = ImageValue
         /\ pc[t] \in {"load1", "load2"} => ran[t] \in {EINPROGRESS, "ok"}

GoodInv == crc_clash = {} /\ \A t \in Validators : GoodOf(t)

LEMMA GoodStays ==
  ASSUME GoodInv, crc_clash' = {}, UNCHANGED flash,
         \A t \in Validators : UNCHANGED <<pc[t], hdr[t], touched[t], ran[t]>>
  PROVE  GoodInv'
BY DEF GoodInv, GoodOf, ImageValue

LEMMA GoodMoves ==
  ASSUME GoodInv, crc_clash' = {}, UNCHANGED flash, NEW t \in Validators, GoodOf(t)',
         \A u \in Validators \ {t} : UNCHANGED <<pc[u], hdr[u], touched[u], ran[u]>>
  PROVE  GoodInv'
BY DEF GoodInv, GoodOf, ImageValue

\* The thread is at a place where it has nothing yet, or no longer.
LEMMA GoodAtRest ==
  ASSUME NEW t, pc'[t] \in {"off", "start", "giveup"} PROVE GoodOf(t)'
BY DEF GoodOf, Validated, Loading

\* A thread's step leaves the flash and the other validation alone.
LEMMA ValidateMoves ==
  ASSUME BootInv, NEW t \in Validators, Validate(t), ~Jump(t)
  PROVE  /\ UNCHANGED flash
         /\ \A u \in Validators \ {t} : UNCHANGED <<pc[u], hdr[u], touched[u], ran[u]>>
<1>1. t \in Threads /\ Validators \subseteq Threads
  BY ThreadNames
<1>2. UNCHANGED flash
  BY DEF Validate, ReadHeader, CheckHeader, CheckCrc, CheckSum, CheckMode, LoadNext, LoadDone,
     Commit, memory
<1>3. \A u \in Threads \ {t} : ran'[u] = ran[u]
  <2>1. UNCHANGED flashVars \/ (\E r : Request(t, r)) \/ Return(t)
    BY BootAssumption DEF Validate, ReadHeader, CheckHeader, CheckCrc, CheckSum, CheckMode,
       LoadNext, LoadDone, Commit
  <2>2. UNCHANGED ran \/ ran' = [ran EXCEPT ![t] = EINPROGRESS]
    BY <2>1 DEF flashVars, Request, Return, Left
  <2> QED BY <2>2, Names DEF BootInv, FlashInv, FlashTypeOK
<1>4. (\E l : Goto(t, l)) /\ \A u \in Threads \ {t} : UNCHANGED <<hdr[u], touched[u]>>
  <2>1. CASE ReadHeader(t) \/ LoadNext(t) \/ Commit(t)
    BY <2>1 DEF ReadHeader, LoadNext, Commit, history, BootInv, Parts, ThreadParts
  <2>2. CASE CheckHeader(t)
    BY <2>2, BootAssumption DEF CheckHeader, history, Finish, BootInv, Parts, ThreadParts
  <2>3. CASE CheckCrc(t) \/ CheckSum(t)
    BY <2>3 DEF CheckCrc, CheckSum, Checked, history, Finish, BootInv, Parts, ThreadParts
  <2>4. CASE CheckMode(t) \/ LoadDone(t)
    BY <2>4 DEF CheckMode, LoadDone, history, Finish, BootInv, Parts, ThreadParts
  <2> QED BY <2>1, <2>2, <2>3, <2>4 DEF Validate
<1>5. \A u \in Threads \ {t} : pc'[u] = pc[u]
  BY <1>4 DEF Goto, BootInv, Parts, ThreadParts
<1> QED BY <1>1, <1>2, <1>3, <1>4, <1>5

LEMMA GoodRead ==
  ASSUME NothingDisturbs, BootInv, GoodInv, NEW t \in Validators, ReadHeader(t) PROVE GoodInv'
<1>1. t \in Threads /\ "header" \in Pcs
  BY ThreadNames DEF Pcs, PcOf
<1>2. pc'[t] = "header" /\ UNCHANGED <<flash, crc_clash>>
  BY <1>1, Goes DEF ReadHeader, memory, BootInv, Parts
<1>3. hdr'[t] = flash[0]
  BY <1>1 DEF ReadHeader, NothingDisturbs, BootInv, Parts, ThreadParts
<1>4. GoodOf(t)'
  BY <1>2, <1>3 DEF GoodOf
<1>5. Validate(t) /\ ~Jump(t)
  BY DEF Validate, ReadHeader, Jump
<1> QED BY <1>2, <1>4, <1>5, ValidateMoves, GoodMoves DEF GoodInv

\* The thread drops its image.
LEMMA GoodDrops ==
  ASSUME BootInv, GoodInv, NEW t \in Validators, Validate(t), ~Jump(t), Finish(t),
         UNCHANGED crc_clash
  PROVE  GoodInv'
<1>1. pc'[t] \in {"off", "giveup"}
  BY Finishes DEF BootInv, Parts
<1>2. GoodOf(t)'
  BY <1>1, GoodAtRest
<1> QED BY <1>2, ValidateMoves, GoodMoves DEF GoodInv

\* ... or goes on to l with it.
LEMMA GoodGoesOn ==
  ASSUME BootInv, GoodInv, NEW t \in Validators, Validate(t), ~Jump(t), UNCHANGED <<hdr, touched>>,
         UNCHANGED crc_clash, pc[t] \in {"header"} \cup Validated,
         NEW l \in Validated \ {"sum"}, Goto(t, l), ran'[t] = EINPROGRESS
  PROVE  GoodInv'
<1>1. t \in Threads /\ l \in Pcs
  BY ThreadNames DEF Pcs, PcOf, Validated, Loading
<1>2. pc'[t] = l
  BY <1>1, Goes DEF BootInv, Parts
<1>3. UNCHANGED flash
  BY ValidateMoves
<1>4. GoodOf(t)'
  BY <1>2, <1>3 DEF GoodInv, GoodOf
<1> QED BY <1>4, ValidateMoves, GoodMoves DEF GoodInv

LEMMA GoodCheckHeader ==
  ASSUME NothingDisturbs, BootInv, GoodInv, NEW t \in Validators, CheckHeader(t) PROVE GoodInv'
<1>1. t \in Threads /\ pc[t] = "header" /\ UNCHANGED crc_clash
  BY ThreadNames DEF CheckHeader, memory
<1>2. Validate(t) /\ ~Jump(t)
  BY DEF Validate, CheckHeader, Jump
<1>3. CASE hdr[t] \notin Images
  <2>1. Finish(t)
    BY <1>3 DEF CheckHeader
  <2> QED BY <1>1, <1>2, <2>1, GoodDrops
<1>4. CASE hdr[t] \in Images
  <2>1. Validation[hdr[t]] \in {"NONE", "CRC"} /\ UNCHANGED <<hdr, touched>>
    BY <1>4, BootAssumption DEF NothingDisturbs, CheckHeader, history
  <2>2. /\ \E l \in {"mode", "crc"} : Goto(t, l)
        /\ UNCHANGED flashVars \/ Request(t, [op |-> "CRC", at |-> {1, 2}])
    BY <1>4, <2>1 DEF CheckHeader
  <2>3. ran'[t] = EINPROGRESS
    BY <1>1, <2>2, OutsideCalls DEF flashVars, Request, Calling
  <2> QED BY <1>1, <1>2, <2>1, <2>2, <2>3, GoodGoesOn DEF Validated, Loading
<1> QED BY <1>3, <1>4

LEMMA GoodCheckCrc ==
  ASSUME NothingDisturbs, BootInv, GoodInv, NEW t \in Validators, CheckCrc(t) PROVE GoodInv'
<1>1. t \in Threads /\ pc[t] = "crc" /\ UNCHANGED crc_clash /\ ran'[t] = EINPROGRESS
  BY ThreadNames, Returns DEF CheckCrc, memory, BootInv
<1>2. Validate(t) /\ ~Jump(t)
  BY DEF Validate, CheckCrc, Jump
<1>3. CASE operation_result[t] = hdr[t]
  <2>1. Goto(t, "mode") /\ UNCHANGED <<hdr, touched>>
    BY <1>3 DEF CheckCrc, Checked, history
  <2> QED BY <1>1, <1>2, <2>1, GoodGoesOn DEF Validated, Loading
<1>4. CASE operation_result[t] # hdr[t]
  <2>1. Finish(t)
    BY <1>4 DEF CheckCrc, Checked
  <2> QED BY <1>1, <1>2, <2>1, GoodDrops
<1> QED BY <1>3, <1>4

LEMMA GoodLoads ==
  ASSUME NothingDisturbs, BootInv, GoodInv, NEW t \in Validators,
         CheckMode(t) \/ LoadNext(t) \/ LoadDone(t) \/ Commit(t)
  PROVE  GoodInv'
<1>1. /\ t \in Threads /\ UNCHANGED crc_clash
      /\ pc[t] \in {"header"} \cup Validated
  BY ThreadNames DEF CheckMode, LoadNext, LoadDone, Commit, memory, Validated, Loading
<1>2. Validate(t) /\ ~Jump(t)
  BY DEF Validate, CheckMode, LoadNext, LoadDone, Commit, Jump
<1>3. ran'[t] = EINPROGRESS
  <2>1. CASE LoadDone(t)
    BY <1>1, <2>1, Returns DEF LoadDone, BootInv
  <2>2. CASE CheckMode(t) \/ LoadNext(t) \/ Commit(t)
    <3>1. pc[t] \notin Calling /\ UNCHANGED ran
      BY <2>2 DEF CheckMode, LoadNext, Commit, Calling, flashVars, Request
    <3> QED BY <1>1, <3>1, OutsideCalls
  <2> QED BY <2>1, <2>2
<1>4. \/ Finish(t)
      \/ UNCHANGED <<hdr, touched>> /\ \E l \in Loading : Goto(t, l)
  BY DEF CheckMode, LoadNext, LoadDone, Commit, history, Loading
<1>5. CASE Finish(t)
  BY <1>1, <1>2, <1>5, GoodDrops
<1>6. CASE UNCHANGED <<hdr, touched>> /\ \E l \in Loading : Goto(t, l)
  <2>1. Loading \subseteq Validated \ {"sum"}
    BY DEF Loading, Validated
  <2> QED BY <1>1, <1>2, <1>3, <1>6, <2>1, GoodGoesOn
<1> QED BY <1>4, <1>5, <1>6

\* A start: nothing is left to be wrong.
LEMMA GoodFresh ==
  ASSUME NEW m \in {"start", "off"}, NEW a, Fresh(m, a) PROVE GoodInv'
<1>1. crc_clash' = {} /\ pc'["main"] = m /\ pc'["work"] = "off"
  BY ThreadNames DEF Fresh
<1>2. \A t \in Validators : GoodOf(t)'
  BY <1>1, GoodAtRest, ThreadNames
<1> QED BY <1>1, <1>2 DEF GoodInv

LEMMA GoodValidate ==
  ASSUME NothingDisturbs, BootInv, GoodInv, NEW t \in Validators, Validate(t) PROVE GoodInv'
<1>1. ~CheckSum(t)
  BY DEF CheckSum, GoodInv, GoodOf
<1>2. Jump(t) => GoodInv'
  BY GoodFresh DEF Jump
<1> QED BY <1>1, <1>2, GoodRead, GoodCheckHeader, GoodCheckCrc, GoodLoads DEF Validate

\* A step of nobody's validation.
LEMMA GoodWork == ASSUME BootInv, GoodInv, WorkStart \/ GiveUp PROVE GoodInv'
<1>1. "work" \in Threads /\ "work" \in Validators /\ Validators \subseteq Threads
  BY ThreadNames
<1>2. PICK l \in {"start", "off"} : Goto("work", l)
  BY DEF WorkStart, GiveUp
<1>3. UNCHANGED <<crc_clash, flash, hdr, touched, ran>>
  BY DEF WorkStart, GiveUp, memory, history, flashVars
<1>4. pc'["work"] = l /\ \A u \in Threads \ {"work"} : pc'[u] = pc[u]
  <2>1. l \in Pcs
    BY DEF Pcs, PcOf
  <2> QED BY <1>1, <1>2, <2>1, Goes DEF BootInv, Parts
<1>5. GoodOf("work")'
  BY <1>4, GoodAtRest
<1> QED BY <1>1, <1>3, <1>4, <1>5, GoodMoves DEF GoodInv

LEMMA GoodAcpi ==
  ASSUME BootInv, GoodInv, AcpiControl \/ AcpiUpdate \/ AcpiContinue PROVE GoodInv'
<1>1. "acpi" \in Threads /\ \A t \in Validators : t \in Threads \ {"acpi"}
  BY ThreadNames
<1>2. UNCHANGED <<flash, crc_clash, touched>>
  BY DEF AcpiControl, EnterBootloader, ExitBootloader, ResetEc, CrashKernelOops, CrashAssert,
     CrashWatchdog, Crash, RunCrc, Asks, AcpiUpdate, ErasePartition, EraseRegion, ReadSetup,
     WriteRamBuffer, WriteDesignatedRegion, AcpiContinue, EraseDone, WriteDone, RequestDone,
     RunCrcRequest, RunCrcDone, PutStep, memory, history
<1>3. \A u \in Threads \ {"acpi"} : ran'[u] = ran[u]
  <2>1. UNCHANGED flashVars \/ (\E r : Request("acpi", r)) \/ Return("acpi") \/ Put("acpi")
    BY DEF AcpiControl, EnterBootloader, ExitBootloader, ResetEc, CrashKernelOops, CrashAssert,
       CrashWatchdog, Crash, RunCrc, AcpiUpdate, ErasePartition, EraseRegion, ReadSetup,
       WriteRamBuffer, WriteDesignatedRegion, AcpiContinue, EraseDone, WriteDone, RequestDone,
       RunCrcRequest, RunCrcDone, PutStep
  <2>2. UNCHANGED ran \/ ran' = [ran EXCEPT !["acpi"] = EINPROGRESS]
    BY <2>1 DEF flashVars, Request, Return, Left, Put
  <2> QED BY <2>2, Names DEF BootInv, FlashInv, FlashTypeOK
<1>4. \A u \in Threads \ {"acpi"} : pc'[u] = pc[u]
  <2>1. UNCHANGED pc \/ \E l : Goto("acpi", l)
    BY DEF AcpiControl, EnterBootloader, ExitBootloader, ResetEc, CrashKernelOops, CrashAssert,
       CrashWatchdog, Crash, RunCrc, AcpiUpdate, ErasePartition, EraseRegion, ReadSetup,
       WriteRamBuffer, WriteDesignatedRegion, AcpiContinue, EraseDone, WriteDone, RequestDone,
       RunCrcRequest, RunCrcDone, PutStep, control
  <2> QED BY <2>1 DEF Goto, BootInv, Parts, ThreadParts
<1>5. \A u \in Threads \ {"acpi"} : hdr'[u] = hdr[u]
  <2>1. UNCHANGED hdr \/ \E h : hdr' = [hdr EXCEPT !["acpi"] = h]
    BY DEF AcpiControl, EnterBootloader, ExitBootloader, ResetEc, CrashKernelOops, CrashAssert,
       CrashWatchdog, Crash, RunCrc, AcpiUpdate, ErasePartition, EraseRegion, ReadSetup,
       WriteRamBuffer, WriteDesignatedRegion, AcpiContinue, EraseDone, WriteDone, RequestDone,
       RunCrcRequest, RunCrcDone, PutStep, control
  <2> QED BY <2>1 DEF BootInv, Parts, ThreadParts
<1> QED BY <1>1, <1>2, <1>3, <1>4, <1>5, GoodStays DEF GoodInv

\* The service: only the caller of the operation gets a result, and it is that of
\* the flash.
LEMMA GoodService ==
  ASSUME NothingDisturbs, BootInv, GoodInv, FlashServiceThread PROVE GoodInv'
<1>5. \A t \in Threads : pc[t] # "sum"
  <2>1. pc["acpi"] # "sum"
    BY ThreadNames DEF BootInv, ThreadInv, CallOf, PcOf
  <2> QED BY <2>1, ThreadNames DEF GoodInv, GoodOf
<1>1. UNCHANGED <<pc, hdr>> /\ crc_clash' = {}
  <2>1. UNCHANGED <<pc, hdr>>
    BY DEF FlashServiceThread, ExecuteErase, ExecuteWrite, ExecuteRead, ExecuteCrc,
       ExecuteLoad, ChangeFlash, shared, control, history
  <2>2. CASE ExecuteCrc
    <3>1. {t \in Threads : pc[t] = "sum"} = {}
      BY <1>5
    <3> QED BY <2>1, <2>2, <3>1 DEF ExecuteCrc, GoodInv
  <2>3. CASE ~ExecuteCrc
    BY <2>1, <2>3 DEF FlashServiceThread, ExecuteErase, ExecuteWrite, ExecuteRead, ExecuteLoad,
       ChangeFlash, memory, GoodInv
  <2> QED BY <2>2, <2>3
<1>2. CASE FlashThread /\ UNCHANGED <<shared, memory, control, history>>
  <2>1. UNCHANGED <<flash, pc, hdr, touched, ran>>
    BY <1>2 DEF FlashThread, Get, Idle, Answer, Give, memory, control, history
  <2> QED BY <1>1, <2>1, GoodStays
<1>3. CASE ExecuteErase \/ ExecuteWrite
  <2>1. \A t \in Validators : touched'[t] \/ pc'[t] \in {"off", "start", "giveup"}
    BY <1>1, <1>3, ThreadNames DEF ExecuteErase, ExecuteWrite, ChangeFlash, Touches
  <2>2. \A t \in Validators : GoodOf(t)'
    BY <1>1, <2>1, GoodAtRest DEF GoodInv, GoodOf
  <2> QED BY <1>1, <2>2 DEF GoodInv
<1>4. CASE ExecuteRead \/ ExecuteCrc \/ ExecuteLoad
  <2>1. UNCHANGED <<flash, touched>> /\ fpc = "execute"
    BY <1>4 DEF ExecuteRead, ExecuteCrc, ExecuteLoad, history
  <2>2. PICK r \in {"ok", ImageValue} :
          /\ Execute(r)
          /\ msg.request.op = "CRC" => r = ImageValue
          /\ msg.request.op = "LOAD" => r = "ok"
    BY <1>4, <1>5 DEF ExecuteRead, ExecuteCrc, ExecuteLoad, OpFails, NothingDisturbs, GoodInv
  <2>3. r \in Results
    BY Names, ImageValueTyped
  <2>4. SUFFICES ASSUME NEW t \in Validators PROVE GoodOf(t)'
    BY <1>1 DEF GoodInv
  <2>5. t \in Threads /\ GoodOf(t) /\ CallOf(t)
    BY ThreadNames DEF GoodInv, BootInv, ThreadInv
  <2>6. CASE t # msg.client
    <3>1. ran'[t] = ran[t]
      BY <2>2, <2>3, <2>5, <2>6, Executed
    <3> QED BY <1>1, <2>1, <2>5, <3>1 DEF GoodOf, ImageValue
  <2>7. CASE t = msg.client
    <3>1. ran'[t] = r /\ msg.request = req[t]
      BY <2>1, <2>2, <2>3, <2>7, Executed, InHand
    <3>2. /\ pc[t] = "crc" => r = ImageValue
          /\ pc[t] \in {"load1", "load2"} => r = "ok"
      BY <2>2, <2>5, <3>1 DEF CallOf
    <3>3. ImageValue' = ImageValue
      BY <2>1 DEF ImageValue
    <3> QED BY <1>1, <2>1, <2>5, <3>1, <3>2, <3>3 DEF GoodOf
  <2> QED BY <2>6, <2>7
<1> QED BY <1>2, <1>3, <1>4 DEF FlashServiceThread

LEMMA GoodPut ==
  ASSUME GoodInv, (\E t \in Threads : PutStep(t)) \/ AppEnterBootloader \/ AppShellJump \/ UNCHANGED vars
  PROVE  GoodInv'
<1>1. UNCHANGED <<flash, crc_clash, pc, hdr, touched, ran>>
  BY DEF PutStep, Put, AppEnterBootloader, AppShellJump, vars, flashVars, memory, control, history
<1> QED BY <1>1, GoodStays DEF GoodInv

LEMMA InitGoodInv == Init => GoodInv
<1> SUFFICES ASSUME Init PROVE GoodInv
  OBVIOUS
<1>1. \A t \in Validators : pc[t] \in {"start", "off"}
  BY ThreadNames DEF Init
<1> QED BY <1>1 DEF Init, GoodInv, GoodOf, Validated, Loading

LEMMA NextGoodInv ==
  ASSUME NothingDisturbs PROVE BootInv /\ GoodInv /\ [Next]_vars => GoodInv'
<1> SUFFICES ASSUME BootInv, GoodInv, [Next]_vars PROVE GoodInv'
  OBVIOUS
<1>1. CASE Bootloader
  <2>1. CASE WorkThread \/ MainThread
    BY <2>1, GoodValidate, GoodWork, GoodPut, ThreadNames DEF WorkThread, MainThread
  <2>2. CASE AcpiControl \/ AcpiUpdate \/ AcpiContinue
    BY <2>2, GoodAcpi
  <2>3. CASE FlashServiceThread
    BY <2>3, GoodService
  <2> QED BY <1>1, <2>1, <2>2, <2>3 DEF Bootloader
<1>2. CASE Reboot \/ AppJump \/ UnaskedReset
  BY <1>2, GoodFresh DEF Reboot, AppJump, UnaskedReset, Reset, Restart
<1>3. CASE AppEnterBootloader \/ AppShellJump \/ UNCHANGED vars
  BY <1>3, GoodPut
<1> QED BY <1>1, <1>2, <1>3 DEF Next

-----------------------------------------------------------------------------
(* What counts a failure.                                                  *)

LEMMA StartedFails ==
  ASSUME NEW r \in BootInfo \cup {LOST}, r = LOST \/ r \in BootInfo
  PROVE  InitInfo(r).fails = IF r = LOST THEN 0 ELSE r.fails
BY DEF InitInfo, BootInfo

\* Nothing that a command of the host does, nor a start, counts one.
LEMMA NoFailCounted ==
  ASSUME Inv, \/ WorkStart \/ GiveUp \/ AcpiControl \/ AcpiUpdate \/ AcpiContinue
              \/ FlashServiceThread \/ (\E t \in Threads : PutStep(t))
              \/ AppEnterBootloader \/ AppShellJump \/ UNCHANGED vars
  PROVE  info'.fails = info.fails
<1>1. info \in BootInfo
  BY DEF Inv, InfoInv
<1>2. CASE WorkStart \/ AcpiUpdate \/ FlashServiceThread \/ (\E t \in Threads : PutStep(t)) \/ UNCHANGED vars
  <2>1. UNCHANGED info
    BY <1>2 DEF WorkStart, AcpiUpdate, ErasePartition, EraseRegion, ReadSetup, WriteRamBuffer,
       WriteDesignatedRegion, FlashServiceThread, FlashThread, ExecuteErase, ExecuteWrite,
       ExecuteRead, ExecuteCrc, ExecuteLoad, ChangeFlash, PutStep, vars, shared
  <2> QED BY <2>1
<1>3. CASE GiveUp \/ AppEnterBootloader \/ AppShellJump
  BY <1>1, <1>3 DEF GiveUp, AppEnterBootloader, AppShellJump, Save, BootInfo
<1>4. CASE AcpiControl
  BY <1>1, <1>4 DEF AcpiControl, EnterBootloader, ExitBootloader, ResetEc, CrashKernelOops,
     CrashAssert, CrashWatchdog, Crash, RunCrc, Save, BootInfo
<1>5. CASE AcpiContinue
  BY <1>1, <1>5 DEF AcpiContinue, EraseDone, WriteDone, RequestDone, RunCrcRequest, RunCrcDone,
     CrcVerdict, PutStep, shared, Save, BootInfo
<1> QED BY <1>2, <1>3, <1>4, <1>5

LEMMA NoFailOnStart ==
  ASSUME Inv, NEW r \in {retained, LOST}, Restart(r) PROVE info'.fails \in {0, info.fails}
<1>1. retained \in BootInfo /\ info.fails \in 0..MaxFails /\ retained.fails = info.fails
  BY DEF Inv, InfoInv, BootInfo
<1>2. info' = InitInfo(r) /\ (r = LOST \/ r \in BootInfo)
  BY <1>1 DEF Restart
<1> QED BY <1>1, <1>2, StartedFails

\* A validation that counts a failure has read no image, has been given a value that
\* is not its image's, or has not been given its chunk.
LEMMA FailCounted ==
  ASSUME Inv, BootInv, NEW t \in Validators, Validate(t), info'.fails > info.fails
  PROVE  /\ pc'[t] # pc[t]
         /\ \/ CheckHeader(t) /\ hdr[t] \notin Images
            \/ CheckCrc(t) /\ operation_result[t] # hdr[t]
            \/ CheckSum(t)
            \/ LoadDone(t) /\ operation_result[t] # "ok"
<1>1. info \in BootInfo /\ info.fails \in 0..MaxFails /\ retained.fails = info.fails /\ MaxFails \in Nat
  BY Limits DEF Inv, InfoInv, BootInfo
<1>2. ~Jump(t) /\ ~ReadHeader(t) /\ ~CheckMode(t) /\ ~LoadNext(t)
  BY <1>1 DEF Jump, ReadHeader, CheckMode, LoadNext, shared
<1>3. ~Commit(t)
  <2> SUFFICES ASSUME Commit(t) PROVE info'.fails = 0
    BY <1>1
  <2>1. Save([info EXCEPT !.boot_mode = "NORMAL", !.fails = 0, !.act_main = TRUE])
    BY DEF Commit
  <2> QED BY <1>1, <2>1, LoadedEdited DEF Save
<1>4. CASE CheckHeader(t)
  <2>1. hdr[t] \notin Images
    <3>1. CASE hdr[t] \in Images
      <4>1. info' = info
        BY <1>4, <3>1 DEF CheckHeader
      <4> QED BY <1>1, <4>1
    <3> QED BY <3>1
  <2>2. Finish(t) /\ pc[t] = "header"
    BY <1>4, <2>1 DEF CheckHeader
  <2> QED BY <1>4, <2>1, <2>2, Finishes DEF BootInv, Parts
<1>5. CASE CheckCrc(t) \/ CheckSum(t)
  <2>1. PICK v : Checked(t, v) /\ (CheckCrc(t) => v = operation_result[t])
    BY <1>5 DEF CheckCrc, CheckSum
  <2>2. v # hdr[t]
    BY <1>1, <2>1 DEF Checked, BootInfo
  <2>3. Finish(t) /\ pc[t] \in {"crc", "sum"}
    BY <1>5, <2>1, <2>2 DEF Checked, CheckCrc, CheckSum
  <2> QED BY <1>5, <2>1, <2>2, <2>3, Finishes DEF BootInv, Parts
<1>6. CASE LoadDone(t)
  <2>1. operation_result[t] # "ok"
    BY <1>1, <1>6 DEF LoadDone
  <2>2. Finish(t) /\ pc[t] \in {"load1", "load2"}
    BY <1>6, <2>1 DEF LoadDone
  <2> QED BY <1>6, <2>1, <2>2, Finishes DEF BootInv, Parts
<1> QED BY <1>2, <1>3, <1>4, <1>5, <1>6 DEF Validate

LEMMA NotCondemned ==
  ASSUME Inv, BootInv, GoodInv, [Next]_vars, info'.fails > info.fails, GoodImage
  PROVE  \E t \in {"main", "work"} : touched[t] /\ pc'[t] # pc[t]
<1>1. info.fails \in Nat
  BY Limits DEF Inv, InfoInv, BootInfo
<1>2. ~(Reboot \/ AppJump \/ UnaskedReset)
  <2>1. ASSUME NEW r \in {retained, LOST}, Restart(r) PROVE FALSE
    BY <1>1, <2>1, NoFailOnStart
  <2> QED BY <2>1 DEF Reboot, AppJump, UnaskedReset, Reset
<1>3. PICK t \in Validators : Validate(t)
  BY <1>1, <1>2, NoFailCounted, ThreadNames DEF Next, Bootloader, WorkThread, MainThread
<1>4. t \in Threads /\ GoodOf(t) /\ CallOf(t)
  BY ThreadNames DEF GoodInv, BootInv, ThreadInv
<1>5. touched[t]
  <2> SUFFICES ASSUME ~touched[t] PROVE FALSE
    OBVIOUS
  <2>1. CASE CheckHeader(t) /\ hdr[t] \notin Images
    BY <1>4, <2>1 DEF CheckHeader, GoodOf, GoodImage
  <2>2. CASE CheckCrc(t) /\ operation_result[t] # hdr[t]
    <3>1. pc[t] = "crc" /\ cpc[t] = "wait" /\ operation_result[t] = ran[t]
      BY <1>4, <2>2, Returns DEF CheckCrc, BootInv
    <3>2. operation_result[t] # EINPROGRESS
      BY <1>4, <2>2, AnswerGiven DEF CheckCrc, BootInv
    <3> QED BY <1>4, <2>2, <3>1, <3>2 DEF GoodOf, GoodImage, Validated
  <2>3. CASE CheckSum(t)
    BY <1>4, <2>3 DEF CheckSum, GoodOf
  <2>4. CASE LoadDone(t) /\ operation_result[t] # "ok"
    <3>1. pc[t] \in {"load1", "load2"} /\ operation_result[t] = ran[t]
      BY <1>4, <2>4, Returns DEF LoadDone, BootInv
    <3>2. operation_result[t] # EINPROGRESS
      BY <1>4, <2>4, AnswerGiven DEF LoadDone, BootInv
    <3> QED BY <1>4, <2>4, <3>1, <3>2 DEF GoodOf
  <2> QED BY <1>3, <2>1, <2>2, <2>3, <2>4, FailCounted
<1> QED BY <1>3, <1>5, FailCounted, ThreadNames

\* With flash operations that succeed and images validated by CRC or not at all,
\* only a bad image, or one that is being written to, is counted as a failure.
THEOREM GoodImageIsNotCondemned ==
  ASSUME NothingDisturbs PROVE Spec => GoodNotCondemned
<1>1. Inv /\ BootInv /\ GoodInv /\ [Next]_vars =>
        [info'.fails > info.fails =>
           ~GoodImage \/ \E t \in {"main", "work"} : touched[t] /\ pc'[t] # pc[t]]_vars
  BY NotCondemned
<1>2. BootInv /\ GoodInv /\ [Next]_vars => GoodInv'
  BY NextGoodInv
<1> QED BY <1>1, <1>2, InitInv, NextInv, InitBootInv, NextBootInv, InitGoodInv,
          PTL DEF Spec, GoodNotCondemned

\* The flash service's guarantees hold of the bootloader's own use of it, across
\* resets and the jump to the application.
THEOREM BootCallsAreSafe == Spec => [](StackSafe /\ OwnResult /\ CallKept)
<1>1. BootInv => StackSafe /\ OwnResult /\ CallKept
  BY DEF BootInv, FlashInv
<1> QED BY <1>1, InitBootInv, NextBootInv, PTL DEF Spec

LEMMA ThreeThreads == IsFiniteSet(Threads) /\ Cardinality(Threads) = 3
<1> DEFINE S1 == {"main"}
           S2 == {"main", "work"}
<1>1. IsFiniteSet(S1) /\ Cardinality(S1) = 1
  BY FS_Singleton
<1>2. S2 = S1 \cup {"work"} /\ "work" \notin S1
  OBVIOUS
<1>3. Threads = S2 \cup {"acpi"} /\ "acpi" \notin S2
  BY DEF Threads
<1> HIDE DEF S1, S2
<1>4. IsFiniteSet(S2) /\ Cardinality(S2) = 2
  BY <1>1, <1>2, FS_AddElement
<1> QED BY <1>3, <1>4, FS_AddElement

\* RoomInQueue: no thread of the bootloader ever waits for a place in the flash
\* service's queue, which has four; so none waits for another one's operation
\* but behind it in the queue.
THEOREM BootNeverWaitsForRoom ==
  ASSUME 3 <= QueueLen
  PROVE  Spec => []RoomInQueue
<1>1. IsFiniteSet(Clients) /\ Cardinality(Clients) <= QueueLen
  BY ThreeThreads, BootFlashAssumption
<1>2. BootInv => RoomInQueue
  BY <1>1, QueueHasRoom DEF BootInv
<1> QED BY <1>2, InitBootInv, NextBootInv, PTL DEF Spec

=============================================================================
