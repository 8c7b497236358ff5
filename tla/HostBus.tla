------------------------------- MODULE HostBus -------------------------------
(***************************************************************************)
(* The I2C target through which the host's ACPI commands and the SoC-CP's  *)
(* messages arrive (driver/acpi.c), and the two services behind it         *)
(* (service/acpi/service.c, service/soccp/service.c) up to the call of a   *)
(* command's handler.                                                      *)
(*                                                                         *)
(* The I2C callbacks are interrupts: they store each byte in the receive   *)
(* buffer of the target it is addressed to, and may do so between any two  *)
(* accesses of the service threads to that buffer.  There is no lock and   *)
(* one buffer per target.  The ACPI thread preempts the SoC-CP thread.     *)
(*                                                                         *)
(* Of a command, only its opcode and length are kept; which command bytes  *)
(* belong to is told by its number, xfer.                                  *)
(***************************************************************************)
EXTENDS Integers

CONSTANTS
    AcpiMand,   \* ACPI command table: opcode -> mandatory length
    SoccpMand,  \* SoC-CP command table: opcode -> length (opt is 0 in all)
    Answering,  \* the opcodes whose handler leaves a response
    Unknown,    \* an opcode that is in neither table
    ReceLen,    \* ACPI_RECE_LEN, SOCCP_RECE_LEN
    MaxLen,     \* bounds: bytes of the first command
    MaxLater,   \* ... and of each later one
    MaxCommands \* bound: commands in a behaviour, over both targets

ASSUME HostBusAssumption ==
    /\ \A o \in DOMAIN AcpiMand : AcpiMand[o] \in 1..(ReceLen - 1)
    /\ \A o \in DOMAIN SoccpMand : SoccpMand[o] \in 1..ReceLen
    /\ Unknown \notin DOMAIN AcpiMand \cup DOMAIN SoccpMand \cup Answering
    /\ ReceLen \in Nat \ {0} /\ MaxLen \in Nat \ {0} /\ MaxLater \in 1..MaxLen
    /\ MaxCommands \in Nat

VARIABLES
    i2c_state, i2c_addr,    \* state of the bus; target of the last write
    resp_buf,               \* the response there is to read: whose it is
    opcode, cmd_idx,        \* per target: rece_cmd[0] and length received
    mand, dispatched,       \* ACPI: statics of acpi_buf_set
    event,                  \* per target: its command bit
    pc, p, len, fetched,    \* per service thread: program counter, table entry,
                            \* length passed, and (history) command it was of
    xfer, sent,             \* history: commands begun per target, bytes written
    seen, ran,              \* ... what the service looked at and ran last
    failed,                 \* ... and that its handler failed
    ended,                  \* ... the last ACPI command has met a STOP
    paced                   \* ... every write began with all services done

bus == <<i2c_state, i2c_addr, paced>>
rece == <<opcode, cmd_idx, mand, dispatched>>
thread == <<pc, p, len, fetched>>
past == <<seen, ran, failed>>
vars == <<bus, resp_buf, rece, event, thread, xfer, sent, ended, past>>

Targets == {"acpi", "soccp"}
Table(t) == IF t = "acpi" THEN AcpiMand ELSE SoccpMand
Opcodes(t) == DOMAIN Table(t) \cup {Unknown}
AllOpcodes == Opcodes("acpi") \cup Opcodes("soccp")

\* A command as it stands at some moment: number and bytes received.
Standing(t) == <<xfer[t], cmd_idx[t]>>
Settled(t) == pc[t] = "wait" /\ ~event[t]

TypeOK ==
    /\ i2c_state \in {"IDLE", "START_WRITE", "WRITE", "READ"}
    /\ i2c_addr \in Targets \cup {"none"} /\ paced \in BOOLEAN
    /\ resp_buf \in Targets \X (0..MaxCommands)
    /\ opcode \in [Targets -> AllOpcodes] /\ p \in [Targets -> AllOpcodes]
    /\ \A t \in Targets : opcode[t] \in Opcodes(t) /\ p[t] \in Opcodes(t)
    /\ cmd_idx \in [Targets -> 0..ReceLen] /\ len \in [Targets -> 0..ReceLen]
    /\ mand \in 0..ReceLen /\ dispatched \in BOOLEAN
    /\ event \in [Targets -> BOOLEAN]
    /\ pc \in [Targets -> {"wait", "clear", "match", "check", "call", "run", "respond"}]
    /\ fetched \in [Targets -> 0..MaxCommands]
    /\ xfer \in [Targets -> 0..MaxCommands] /\ sent \in 0..MaxLen
    /\ seen \in [Targets -> (0..MaxCommands) \X (0..ReceLen)]
    /\ ran \in [Targets -> (0..MaxCommands) \X (0..ReceLen)]
    /\ failed \in [Targets -> BOOLEAN] /\ ended \in BOOLEAN

Init ==
    /\ i2c_state = "IDLE" /\ i2c_addr = "none" /\ paced = TRUE
    /\ resp_buf = <<"acpi", 0>>
    /\ opcode = [t \in Targets |-> Unknown] /\ cmd_idx = [t \in Targets |-> 0]
    /\ mand = 0 /\ dispatched = FALSE
    /\ event = [t \in Targets |-> FALSE]
    /\ pc = [t \in Targets |-> "wait"] /\ p = [t \in Targets |-> Unknown]
    /\ len = [t \in Targets |-> 0] /\ fetched = [t \in Targets |-> 0]
    /\ xfer = [t \in Targets |-> 0] /\ sent = 0
    /\ seen = [t \in Targets |-> <<0, 0>>] /\ ran = [t \in Targets |-> <<0, 0>>]
    /\ failed = [t \in Targets |-> FALSE] /\ ended = TRUE

Goto(t, l) == pc' = [pc EXCEPT ![t] = l]

\* The service waits again; what it had read is forgotten.
Done(t) ==
    /\ Goto(t, "wait")
    /\ p' = [p EXCEPT ![t] = Unknown] /\ fetched' = [fetched EXCEPT ![t] = 0]
    /\ len' = [len EXCEPT ![t] = 0]

-----------------------------------------------------------------------------
(* acpi_buf_set and soccp_buf_set, called from the interrupts below.       *)

Post(t) == event' = [event EXCEPT ![t] = TRUE]

\* Mutated: the buffer's end is off by one.
Index_OffByOne(t) == IF cmd_idx[t] > ReceLen THEN 0 ELSE cmd_idx[t]

\* The index is brought back to the start of a full buffer before anything else.
Index(t) == IF cmd_idx[t] >= ReceLen THEN 0 ELSE cmd_idx[t]

\* Mutated: optional bytes leave the command marked as handled.
AcpiStore_KeepsMark(i, m, d) ==
    /\ cmd_idx' = [cmd_idx EXCEPT !["acpi"] = i + 1]
    /\ mand' = m /\ dispatched' = (d \/ i + 1 = m)
    /\ IF i + 1 = m THEN Post("acpi") ELSE UNCHANGED event

\* Mutated: the early dispatch does not mark the command as handled.
AcpiStore_NoMark(i, m, d) ==
    /\ cmd_idx' = [cmd_idx EXCEPT !["acpi"] = i + 1]
    /\ mand' = m /\ dispatched' = FALSE
    /\ IF i + 1 = m THEN Post("acpi") ELSE UNCHANGED event

\* A byte is stored at i; m and d are what mand and dispatched are by then.
AcpiStore(i, m, d) ==
    /\ cmd_idx' = [cmd_idx EXCEPT !["acpi"] = i + 1]
    /\ mand' = m
    /\ dispatched' = (i + 1 = m \/ (i + 1 < m /\ d))
    /\ IF i + 1 = m THEN Post("acpi") ELSE UNCHANGED event

SoccpStore(i) ==
    /\ cmd_idx' = [cmd_idx EXCEPT !["soccp"] = i + 1]
    /\ Post("soccp")
    /\ UNCHANGED <<mand, dispatched>>

\* ACPI_TYPE_PROCESS.
Process ==
    /\ cmd_idx' = [cmd_idx EXCEPT !["acpi"] = Index("acpi")]
    /\ IF dispatched THEN UNCHANGED event ELSE Post("acpi")
    /\ UNCHANGED <<opcode, mand, dispatched>>

-----------------------------------------------------------------------------
(* The I2C callbacks.                                                      *)

Quiet == i2c_state = "IDLE" /\ \A t \in Targets : Settled(t)

\* In any state: after a repeated START what was under way has no STOP of its own.
WriteRequested(t) ==
    /\ xfer["acpi"] + xfer["soccp"] < MaxCommands
    /\ i2c_state' = "START_WRITE" /\ i2c_addr' = t
    /\ sent' = 0 /\ paced' = (paced /\ Quiet)
    /\ UNCHANGED <<resp_buf, rece, event, thread, xfer, ended, past>>

\* The first byte is the opcode.
CommandReceived(o) ==
    LET t == i2c_addr IN
    /\ i2c_state = "START_WRITE" /\ o \in Opcodes(t)
    /\ i2c_state' = "WRITE"
    /\ opcode' = [opcode EXCEPT ![t] = o]
    /\ IF t = "acpi"
       THEN AcpiStore(0, IF o \in DOMAIN AcpiMand THEN AcpiMand[o] ELSE 0, FALSE)
       ELSE SoccpStore(0)
    /\ xfer' = [xfer EXCEPT ![t] = @ + 1] /\ sent' = 1
    /\ ended' = (ended /\ t # "acpi")
    /\ seen' = [seen EXCEPT ![t] = <<0, 0>>] /\ ran' = [ran EXCEPT ![t] = <<0, 0>>]
    /\ failed' = [failed EXCEPT ![t] = FALSE]
    /\ UNCHANGED <<i2c_addr, paced, resp_buf, thread>>

\* Bound.
Limit == IF xfer["acpi"] + xfer["soccp"] = 1 THEN MaxLen ELSE MaxLater

\* Any further byte is data.  Behind a full buffer it takes the opcode's place.
DataReceived ==
    LET t == i2c_addr
        i == Index(t) IN
    /\ i2c_state = "WRITE" /\ sent < Limit
    /\ IF i = 0 THEN \E o \in Opcodes(t) : opcode' = [opcode EXCEPT ![t] = o]
                ELSE UNCHANGED opcode
    /\ IF t = "acpi" THEN AcpiStore(i, mand, dispatched) ELSE SoccpStore(i)
    /\ sent' = sent + 1 /\ ended' = (ended /\ t # "acpi")
    /\ UNCHANGED <<bus, resp_buf, thread, xfer, past>>

\* The first byte of a response is read in the request for it.  A read may follow
\* a write to either target, or its bare address, without a STOP between.
ReadRequested ==
    /\ i2c_state' = "READ"
    /\ UNCHANGED <<i2c_addr, paced, resp_buf, rece, event, thread, xfer, sent, ended, past>>

Stop ==
    /\ i2c_state # "IDLE"
    /\ i2c_state' = "IDLE"
    /\ IF i2c_addr = "acpi" THEN Process ELSE UNCHANGED <<rece, event>>
    /\ ended' = (ended \/ i2c_addr = "acpi")
    /\ UNCHANGED <<i2c_addr, paced, resp_buf, thread, xfer, sent, past>>

Masters ==
    \/ \E t \in Targets : WriteRequested(t)
    \/ \E o \in AllOpcodes : CommandReceived(o)
    \/ DataReceived \/ ReadRequested \/ Stop

-----------------------------------------------------------------------------
(* The service threads: service, acpi_cmd_hdl and soccp_cmd_dispatcher.    *)

Wake(t) ==
    /\ pc[t] = "wait" /\ event[t]
    /\ Goto(t, "clear")
    /\ UNCHANGED <<bus, resp_buf, rece, event, p, len, fetched, xfer, sent, ended, past>>

Clear(t) ==
    /\ pc[t] = "clear"
    /\ event' = [event EXCEPT ![t] = FALSE]
    /\ Goto(t, "match")
    /\ UNCHANGED <<bus, resp_buf, rece, p, len, fetched, xfer, sent, ended, past>>

\* The opcode is looked up ...
Match(t) ==
    /\ pc[t] = "match"
    /\ IF opcode[t] \in DOMAIN Table(t)
       THEN /\ p' = [p EXCEPT ![t] = opcode[t]]
            /\ fetched' = [fetched EXCEPT ![t] = xfer[t]]
            /\ Goto(t, "check") /\ UNCHANGED <<len, seen>>
       ELSE /\ seen' = [seen EXCEPT ![t] = Standing(t)]
            /\ Done(t)
    /\ UNCHANGED <<bus, resp_buf, rece, event, xfer, sent, ended, ran, failed>>

\* Mutated: exactly the mandatory length for both.
Fits_Exactly(t, o, l) == l = Table(t)[o]

\* ... and then the length: at least the mandatory one, exactly it for SoC-CP.
Fits(t, o, l) == IF t = "acpi" THEN l >= AcpiMand[o] ELSE l = SoccpMand[o]

Check(t) ==
    /\ pc[t] = "check"
    /\ seen' = [seen EXCEPT ![t] = <<fetched[t], cmd_idx[t]>>]
    /\ IF Fits(t, p[t], cmd_idx[t])
       THEN Goto(t, "call") /\ UNCHANGED <<p, len, fetched>>
       ELSE Done(t)
    /\ UNCHANGED <<bus, resp_buf, rece, event, xfer, sent, ended, ran, failed>>

\* The length is read again for the call.
Call(t) ==
    /\ pc[t] = "call"
    /\ len' = [len EXCEPT ![t] = cmd_idx[t]]
    /\ Goto(t, "run")
    /\ UNCHANGED <<bus, resp_buf, rece, event, p, fetched, xfer, sent, ended, past>>

\* The handler reads the bytes; one that fails leaves the response as it was.
Handle(t) ==
    \/ /\ failed' = [failed EXCEPT ![t] = FALSE]
       /\ IF p[t] \in Answering
          THEN Goto(t, "respond") /\ UNCHANGED <<p, len, fetched>>
          ELSE Done(t)
    \/ failed' = [failed EXCEPT ![t] = TRUE] /\ Done(t)

\* Mutated: the bit is cleared after the command has been handled.
Run_Clears(t) ==
    /\ pc[t] = "run"
    /\ event' = [event EXCEPT ![t] = FALSE]
    /\ ran' = [ran EXCEPT ![t] = <<xfer[t], len[t]>>]
    /\ Handle(t)
    /\ UNCHANGED <<bus, resp_buf, rece, xfer, sent, ended, seen>>

Run(t) ==
    /\ pc[t] = "run"
    /\ ran' = [ran EXCEPT ![t] = <<xfer[t], len[t]>>]
    /\ Handle(t)
    /\ UNCHANGED <<bus, resp_buf, rece, event, xfer, sent, ended, seen>>

\* acpi_resp_set, soccp_resp_set.
Respond(t) ==
    /\ pc[t] = "respond"
    /\ resp_buf' = <<t, fetched[t]>>
    /\ Done(t)
    /\ UNCHANGED <<bus, rece, event, xfer, sent, ended, past>>

Service(t) ==
    Wake(t) \/ Clear(t) \/ Match(t) \/ Check(t) \/ Call(t) \/ Run(t) \/ Respond(t)

\* The ACPI thread has the higher priority.
Next == Masters \/ Service("acpi") \/ (Settled("acpi") /\ Service("soccp"))

Spec == Init /\ [][Next]_vars

\* Both threads run when they are ready and nothing above them is.
FairSpec == Spec /\ WF_vars(Service("acpi"))
                 /\ WF_vars(Settled("acpi") /\ Service("soccp"))

-----------------------------------------------------------------------------
(* Properties.                                                             *)

\* Every byte of the target's last command counts: any STOP since has asked for
\* the ACPI service, and each byte asks for that of the SoC-CP.
Ended(t) == t = "soccp" \/ ended

\* The last command was looked at with all of its bytes, and run with them if it
\* is known and has the length for it.
Complete(t) == opcode[t] \in DOMAIN Table(t) /\ Fits(t, opcode[t], cmd_idx[t])
Handled(t) == seen[t] = Standing(t) /\ (Complete(t) => ran[t] = Standing(t))

\* No command is overlooked, however the bytes, the STOPs and the early dispatch of
\* the mandatory bytes fall between the service's steps: with the service waiting,
\* the last command has been handled as it stands once its transfer has ended; and
\* an ACPI command cut off by a repeated START, for its mandatory bytes.
LastCommandSeen ==
    /\ \A t \in Targets : Settled(t) /\ Ended(t) => Handled(t)
    /\ Settled("acpi") /\ mand \in 1..cmd_idx["acpi"] => seen["acpi"][1] = xfer["acpi"]

\* ... and the services get there, of masters that fall silent: STOPs without end
\* would keep the ACPI service busy and the SoC-CP's waiting.
EveryTransferSeen ==
    <>[][~Masters]_vars =>
        \A t \in Targets, n \in 1..MaxCommands :
            Ended(t) /\ xfer[t] = n ~> Handled(t) \/ xfer[t] # n \/ ~Ended(t)

\* What the bus's masters read once the services are done is the response of the
\* last command, when that has one and its handler did not fail, although both
\* targets answer through one buffer.  The masters have let the services finish
\* before each write: nothing else orders the two threads' responses.
AnswerStands ==
    LET t == i2c_addr IN
        (/\ paced /\ Quiet /\ t # "none" /\ sent \in 1..ReceLen
         /\ opcode[t] \in Answering /\ ~failed[t]
         /\ cmd_idx[t] >= Table(t)[opcode[t]]
         /\ t = "soccp" => cmd_idx[t] = SoccpMand[opcode[t]])
        => resp_buf = <<t, xfer[t]>>

\* doc/acpi_test.md:23-25: a command is handled when its mandatory bytes are there
\* and once more if optional ones followed.  Of a host that waits between writes,
\* a command of the mandatory length is handled once, although both the last byte
\* and the end of the transfer, and that of every later read, call for it.
RunsOnce ==
    [][Run("acpi") /\ paced /\ len["acpi"] = mand /\ sent = mand /\ sent > 0
         => ran["acpi"] # <<xfer["acpi"], len["acpi"]>>]_vars
=============================================================================
