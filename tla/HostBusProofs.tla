---------------------------- MODULE HostBusProofs ----------------------------
(***************************************************************************)
(* Proofs about the I2C target and the services behind it, for any command *)
(* tables and any number and length of commands.                           *)
(***************************************************************************)
EXTENDS HostBus, TLAPS

LEMMA Facts ==
  /\ "acpi" \in Targets /\ "soccp" \in Targets /\ "none" \notin Targets
  /\ \A t \in Targets : t = "acpi" \/ t = "soccp"
  /\ ReceLen \in Nat \ {0} /\ MaxLen \in Nat \ {0} /\ MaxCommands \in Nat
  /\ MaxLater \in Nat /\ MaxLater <= MaxLen
  /\ \A o \in DOMAIN AcpiMand : AcpiMand[o] \in Nat \ {0} /\ AcpiMand[o] < ReceLen
  /\ \A o \in DOMAIN SoccpMand : SoccpMand[o] \in Nat \ {0} /\ SoccpMand[o] <= ReceLen
<1>1. \A o \in DOMAIN AcpiMand : AcpiMand[o] \in 1..(ReceLen - 1)
  BY HostBusAssumption
<1>2. \A o \in DOMAIN SoccpMand : SoccpMand[o] \in 1..ReceLen
  BY HostBusAssumption
<1>3. /\ ReceLen \in Nat \ {0} /\ MaxLen \in Nat \ {0} /\ MaxCommands \in Nat
      /\ MaxLater \in Nat /\ MaxLater <= MaxLen
  BY HostBusAssumption
<1> QED BY <1>1, <1>2, <1>3 DEF Targets

\* The parts of TypeOK: the bus, the receive buffers, the threads, the history.
BusType ==
    /\ i2c_state \in {"IDLE", "START_WRITE", "WRITE", "READ"}
    /\ i2c_addr \in Targets \cup {"none"} /\ paced \in BOOLEAN
    /\ resp_buf \in Targets \X (0..MaxCommands)
    /\ xfer \in [Targets -> 0..MaxCommands] /\ sent \in 0..MaxLen
ReceType ==
    /\ opcode \in [Targets -> AllOpcodes]
    /\ \A t \in Targets : opcode[t] \in Opcodes(t)
    /\ cmd_idx \in [Targets -> 0..ReceLen]
    /\ mand \in 0..ReceLen /\ dispatched \in BOOLEAN
    /\ event \in [Targets -> BOOLEAN]
ThreadType ==
    /\ pc \in [Targets -> {"wait", "clear", "match", "check", "call", "run", "respond"}]
    /\ p \in [Targets -> AllOpcodes] /\ \A t \in Targets : p[t] \in Opcodes(t)
    /\ len \in [Targets -> 0..ReceLen]
    /\ fetched \in [Targets -> 0..MaxCommands]
    /\ seen \in [Targets -> (0..MaxCommands) \X (0..ReceLen)]
    /\ ran \in [Targets -> (0..MaxCommands) \X (0..ReceLen)]
    /\ failed \in [Targets -> BOOLEAN] /\ ended \in BOOLEAN

\* Of the bus: a byte comes after its address, and a command under way is counted.
BusInv ==
    /\ i2c_state \in {"START_WRITE", "WRITE"} => i2c_addr \in Targets
    /\ xfer["acpi"] + xfer["soccp"] <= MaxCommands
    /\ i2c_state = "START_WRITE" => xfer["acpi"] + xfer["soccp"] < MaxCommands

\* A command is marked as handled at its last mandatory byte, which is not the last
\* of the buffer: the end of its transfer then leaves the index.
Marked == mand < ReceLen /\ (dispatched => cmd_idx["acpi"] = mand)

TypeInv == BusType /\ ReceType /\ ThreadType /\ BusInv /\ Marked

LEMMA TypeIsParts == TypeInv => TypeOK
BY DEF TypeInv, TypeOK, BusType, ReceType, ThreadType

LEMMA InitType == Init => TypeInv
<1> SUFFICES ASSUME Init PROVE TypeInv
  OBVIOUS
<1> USE Facts DEF Init
<1>1. BusType
  BY DEF BusType
<1>u. Unknown \in AllOpcodes /\ \A t \in Targets : Unknown \in Opcodes(t)
  BY DEF Opcodes, AllOpcodes
<1>2. ReceType
  <2>1. /\ opcode \in [Targets -> AllOpcodes] /\ \A t \in Targets : opcode[t] \in Opcodes(t)
    BY <1>u
  <2>2. cmd_idx \in [Targets -> 0..ReceLen] /\ mand \in 0..ReceLen
    OBVIOUS
  <2> QED BY <2>1, <2>2 DEF ReceType
<1>3. ThreadType
  <2>1. /\ p \in [Targets -> AllOpcodes] /\ \A t \in Targets : p[t] \in Opcodes(t)
    BY <1>u
  <2>2. /\ len \in [Targets -> 0..ReceLen] /\ fetched \in [Targets -> 0..MaxCommands]
        /\ <<0, 0>> \in (0..MaxCommands) \X (0..ReceLen)
    OBVIOUS
  <2> QED BY <2>1, <2>2 DEF ThreadType
<1>4. BusInv /\ Marked
  BY DEF BusInv, Marked
<1> QED BY <1>1, <1>2, <1>3, <1>4 DEF TypeInv

\* What a stored byte does to the receive buffer, beyond the opcode.
LEMMA StoreType ==
  ASSUME ReceType, NEW i \in Nat, i < ReceLen, NEW m \in Nat, m < ReceLen,
         NEW d \in BOOLEAN, d => i > m \/ i = m, AcpiStore(i, m, d)
  PROVE  /\ cmd_idx' = [cmd_idx EXCEPT !["acpi"] = i + 1] /\ mand' = m
         /\ cmd_idx' \in [Targets -> 0..ReceLen] /\ mand' \in 0..ReceLen
         /\ dispatched' \in BOOLEAN /\ (dispatched' <=> i + 1 = m)
         /\ event' \in [Targets -> BOOLEAN]
         /\ event' = IF i + 1 = m THEN [event EXCEPT !["acpi"] = TRUE] ELSE event
         /\ Marked'
<1>1. /\ cmd_idx' = [cmd_idx EXCEPT !["acpi"] = i + 1] /\ mand' = m
      /\ cmd_idx \in [Targets -> 0..ReceLen] /\ event \in [Targets -> BOOLEAN]
      /\ "acpi" \in Targets /\ ReceLen \in Nat
  BY Facts DEF AcpiStore, ReceType
<1>2. /\ dispatched' \in BOOLEAN /\ (dispatched' <=> i + 1 = m)
      /\ event' = IF i + 1 = m THEN [event EXCEPT !["acpi"] = TRUE] ELSE event
  <2>1. ~(i + 1 < m /\ d)
    OBVIOUS
  <2>2. dispatched' = (i + 1 = m \/ (i + 1 < m /\ d))
    BY DEF AcpiStore
  <2>3. event' = IF i + 1 = m THEN [event EXCEPT !["acpi"] = TRUE] ELSE event
    BY DEF AcpiStore, Post
  <2> QED BY <2>1, <2>2, <2>3, Zenon
<1>3. i + 1 \in 0..ReceLen /\ m \in 0..ReceLen
  BY <1>1
<1>4. cmd_idx' \in [Targets -> 0..ReceLen] /\ cmd_idx'["acpi"] = i + 1
  BY <1>1, <1>3
<1>5. event' \in [Targets -> BOOLEAN]
  BY <1>1, <1>2
<1> QED BY <1>1, <1>2, <1>3, <1>4, <1>5 DEF Marked

LEMMA IndexType == ASSUME ReceType, NEW t \in Targets
                   PROVE  Index(t) \in Nat /\ Index(t) < ReceLen
BY Facts DEF Index, ReceType

PcOf == {"wait", "clear", "match", "check", "call", "run", "respond"}

\* The part of TypeInv a step leaves alone.
LEMMA Stays ==
  /\ ThreadType /\ UNCHANGED <<thread, past, ended>> => ThreadType'
  /\ ReceType /\ UNCHANGED <<rece, event>> => ReceType'
  /\ Marked /\ UNCHANGED rece => Marked'
  /\ BusType /\ BusInv /\ UNCHANGED <<bus, resp_buf, xfer, sent>> => BusType' /\ BusInv'
<1>1. ThreadType /\ UNCHANGED <<thread, past, ended>> => ThreadType'
  BY DEF ThreadType, thread, past
<1>2. ReceType /\ UNCHANGED <<rece, event>> => ReceType'
  BY DEF ReceType, rece
<1>3. Marked /\ UNCHANGED rece => Marked'
  BY DEF Marked, rece
<1>4. BusType /\ BusInv /\ UNCHANGED <<bus, resp_buf, xfer, sent>> => BusType' /\ BusInv'
  BY DEF BusType, BusInv, bus
<1> QED BY <1>1, <1>2, <1>3, <1>4

LEMMA CommandType ==
  ASSUME TypeInv, NEW o, CommandReceived(o) PROVE TypeInv'
<1> DEFINE t == i2c_addr
           m == IF o \in DOMAIN AcpiMand THEN AcpiMand[o] ELSE 0
<1>1. t \in Targets /\ o \in Opcodes(t) /\ o \in AllOpcodes
  BY Facts DEF TypeInv, BusInv, CommandReceived, AllOpcodes
<1>2. m \in Nat /\ m < ReceLen
  BY Facts
<1>3. BusType' /\ BusInv'
  <2>1. xfer["acpi"] \in Nat /\ xfer["soccp"] \in Nat
        /\ xfer["acpi"] + xfer["soccp"] < MaxCommands
    BY Facts DEF TypeInv, BusInv, BusType, CommandReceived
  <2>2. xfer' = [xfer EXCEPT ![t] = @ + 1] /\ xfer \in [Targets -> 0..MaxCommands]
    BY DEF TypeInv, BusType, CommandReceived
  <2>3. /\ xfer' \in [Targets -> 0..MaxCommands]
        /\ xfer'["acpi"] + xfer'["soccp"] <= MaxCommands
    BY <1>1, <2>1, <2>2, Facts
  <2>4. sent' \in 0..MaxLen
    BY Facts DEF CommandReceived
  <2> QED BY <1>1, <2>3, <2>4 DEF TypeInv, BusType, BusInv, CommandReceived
<1>4. ThreadType'
  BY <1>1, Facts DEF TypeInv, ThreadType, CommandReceived, thread
<1>5. ReceType' /\ Marked'
  <2>1. opcode' \in [Targets -> AllOpcodes] /\ \A u \in Targets : opcode'[u] \in Opcodes(u)
    BY <1>1 DEF TypeInv, ReceType, CommandReceived
  <2>2. CASE t = "acpi"
    <3>1. AcpiStore(0, m, FALSE)
      BY <2>2 DEF CommandReceived
    <3>0. 0 \in Nat /\ 0 < ReceLen
      BY Facts
    <3>2. ReceType
      BY DEF TypeInv
    <3> HIDE DEF m, t
    <3> QED BY <1>2, <2>1, <3>0, <3>1, <3>2, StoreType DEF ReceType
  <2>3. CASE t # "acpi"
    <3>1. SoccpStore(0)
      BY <2>3 DEF CommandReceived
    <3>2. cmd_idx' \in [Targets -> 0..ReceLen] /\ event' \in [Targets -> BOOLEAN]
          /\ cmd_idx'["acpi"] = cmd_idx["acpi"]
      BY <3>1, Facts DEF SoccpStore, Post, TypeInv, ReceType
    <3> QED BY <2>1, <3>1, <3>2 DEF SoccpStore, TypeInv, ReceType, Marked
  <2> QED BY <2>2, <2>3
<1> QED BY <1>3, <1>4, <1>5 DEF TypeInv

LEMMA DataType == ASSUME TypeInv, DataReceived PROVE TypeInv'
<1> DEFINE t == i2c_addr
           i == Index(t)
<1>1. t \in Targets
  BY DEF TypeInv, BusInv, DataReceived
<1>2. i \in Nat /\ i < ReceLen
  BY <1>1, IndexType DEF TypeInv
<1>3. BusType' /\ BusInv'
  <2>1. sent' \in 0..MaxLen
    <3>1. sent \in Nat /\ sent < Limit /\ sent' = sent + 1
      BY Facts DEF DataReceived, TypeInv, BusType
    <3>2. Limit \in Nat /\ Limit <= MaxLen
      BY Facts DEF Limit
    <3> QED BY <3>1, <3>2, Facts
  <2> QED BY <2>1 DEF TypeInv, BusType, BusInv, DataReceived, bus
<1>4. ThreadType'
  BY DEF TypeInv, ThreadType, DataReceived, thread, past
<1>5. ReceType' /\ Marked'
  <2>1. opcode' \in [Targets -> AllOpcodes] /\ \A u \in Targets : opcode'[u] \in Opcodes(u)
    <3>1. UNCHANGED opcode \/ \E o \in Opcodes(t) : opcode' = [opcode EXCEPT ![t] = o]
      BY DEF DataReceived
    <3>2. Opcodes(t) \subseteq AllOpcodes
      BY <1>1, Facts DEF AllOpcodes
    <3> HIDE DEF t
    <3> QED BY <1>1, <3>1, <3>2 DEF TypeInv, ReceType
  <2>2. CASE t = "acpi"
    <3>1. AcpiStore(i, mand, dispatched)
      BY <2>2 DEF DataReceived
    <3>2. ReceType /\ mand \in Nat /\ dispatched \in BOOLEAN /\ mand < ReceLen
      BY Facts DEF TypeInv, ReceType, Marked
    <3>3. dispatched => i = mand
      <4>1. dispatched => cmd_idx["acpi"] = mand
        BY DEF TypeInv, Marked
      <4>2. cmd_idx["acpi"] = mand => Index("acpi") = mand
        BY <3>2, Facts DEF Index
      <4> QED BY <2>2, <4>1, <4>2, Zenon
    <3> HIDE DEF i, t
    <3> QED BY <1>2, <2>1, <3>1, <3>2, <3>3, StoreType DEF ReceType
  <2>3. CASE t # "acpi"
    <3>1. SoccpStore(i)
      BY <2>3 DEF DataReceived
    <3> HIDE DEF i
    <3>2. cmd_idx' \in [Targets -> 0..ReceLen] /\ event' \in [Targets -> BOOLEAN]
          /\ cmd_idx'["acpi"] = cmd_idx["acpi"]
      BY <1>2, <3>1, Facts DEF SoccpStore, Post, TypeInv, ReceType
    <3> QED BY <2>1, <3>1, <3>2 DEF SoccpStore, TypeInv, ReceType, Marked
  <2> QED BY <2>2, <2>3
<1> QED BY <1>3, <1>4, <1>5 DEF TypeInv

LEMMA StopType == ASSUME TypeInv, Stop PROVE TypeInv'
<1>1. BusType' /\ BusInv'
  BY DEF TypeInv, BusType, BusInv, Stop
<1>2. ThreadType'
  BY DEF TypeInv, ThreadType, Stop, thread, past
<1>3. CASE i2c_addr = "acpi"
  <2>1. Process
    BY <1>3 DEF Stop
  <2>2. /\ Index("acpi") \in 0..ReceLen
        /\ mand < ReceLen /\ (dispatched => Index("acpi") = mand)
    <3>1. ReceType /\ mand < ReceLen /\ (dispatched => cmd_idx["acpi"] = mand)
      BY DEF TypeInv, Marked
    <3>2. mand \in Nat /\ (cmd_idx["acpi"] = mand => Index("acpi") = mand)
      BY <3>1, Facts DEF Index, ReceType
    <3>3. Index("acpi") \in 0..ReceLen
      BY <3>1, IndexType, Facts
    <3> QED BY <3>1, <3>2, <3>3, Zenon
  <2>3. cmd_idx' \in [Targets -> 0..ReceLen] /\ cmd_idx'["acpi"] = Index("acpi")
    BY <2>1, <2>2, Facts DEF Process, TypeInv, ReceType
  <2>4. event' \in [Targets -> BOOLEAN]
    BY <2>1 DEF Process, Post, TypeInv, ReceType
  <2>5. ReceType' /\ Marked'
    BY <2>1, <2>2, <2>3, <2>4 DEF Process, TypeInv, ReceType, Marked
  <2> QED BY <1>1, <1>2, <2>5 DEF TypeInv
<1>4. CASE i2c_addr # "acpi"
  <2>1. ReceType' /\ Marked'
    BY <1>4, Stays DEF TypeInv, Stop
  <2> QED BY <1>1, <1>2, <2>1 DEF TypeInv
<1> QED BY <1>3, <1>4

LEMMA OthersType ==
  ASSUME TypeInv, ReadRequested \/ \E t \in Targets : WriteRequested(t) PROVE TypeInv'
<1>1. UNCHANGED <<resp_buf, rece, event, thread, xfer, past, ended>>
  BY DEF ReadRequested, WriteRequested
<1>2. ReceType' /\ ThreadType' /\ Marked'
  BY <1>1, Stays DEF TypeInv
<1>3. BusType' /\ BusInv'
  <2>1. CASE ReadRequested
    BY <2>1 DEF ReadRequested, TypeInv, BusType, BusInv
  <2>2. ASSUME NEW t \in Targets, WriteRequested(t) PROVE BusType' /\ BusInv'
    BY <2>2, Facts DEF WriteRequested, TypeInv, BusType, BusInv
  <2> QED BY <2>1, <2>2
<1> QED BY <1>2, <1>3 DEF TypeInv

\* The service is back at its wait.
LEMMA DoneType ==
  ASSUME ThreadType, NEW t \in Targets, Done(t)
  PROVE  /\ pc' = [pc EXCEPT ![t] = "wait"] /\ pc' \in [Targets -> PcOf]
         /\ p' \in [Targets -> AllOpcodes] /\ \A u \in Targets : p'[u] \in Opcodes(u)
         /\ len' \in [Targets -> 0..ReceLen] /\ fetched' \in [Targets -> 0..MaxCommands]
         /\ \A u \in Targets : u # t => UNCHANGED <<pc[u], p[u], len[u], fetched[u]>>
<1>1. Unknown \in AllOpcodes /\ \A u \in Targets : Unknown \in Opcodes(u)
  BY DEF Opcodes, AllOpcodes
<1>2. 0 \in 0..ReceLen /\ 0 \in 0..MaxCommands
  BY Facts
<1> QED BY <1>1, <1>2 DEF Done, Goto, ThreadType, PcOf

LEMMA ServiceType == ASSUME TypeInv, NEW t \in Targets, Service(t) PROVE TypeInv'
<1> USE DEF Goto, PcOf
<1>0. ThreadType /\ ended' = ended
  BY DEF TypeInv, Service, Wake, Clear, Match, Check, Call, Run, Respond, past
<1>1. CASE Wake(t) \/ Clear(t)
  <2>1. ThreadType'
    BY <1>1 DEF Wake, Clear, TypeInv, ThreadType, past
  <2>2. BusType' /\ BusInv'
    BY <1>1, Stays DEF Wake, Clear, TypeInv
  <2>3. Marked'
    BY <1>1, Stays DEF Wake, Clear, TypeInv
  <2>4. event' \in [Targets -> BOOLEAN] /\ UNCHANGED rece
    BY <1>1 DEF Wake, Clear, TypeInv, ReceType
  <2>5. ReceType'
    BY <2>4 DEF TypeInv, ReceType, rece
  <2> QED BY <2>1, <2>2, <2>3, <2>5 DEF TypeInv
<1>2. ASSUME UNCHANGED <<rece, event>>, ThreadType',
             UNCHANGED <<bus, xfer, sent>>, resp_buf' \in Targets \X (0..MaxCommands)
      PROVE  TypeInv'
  <2>1. ReceType' /\ Marked'
    BY <1>2, Stays DEF TypeInv
  <2>2. BusType' /\ BusInv'
    BY <1>2 DEF TypeInv, BusType, BusInv, bus
  <2> QED BY <1>2, <2>1, <2>2 DEF TypeInv
<1>3. CASE Match(t)
  <2>1. opcode[t] \in AllOpcodes /\ opcode[t] \in Opcodes(t)
        /\ xfer[t] \in 0..MaxCommands /\ cmd_idx[t] \in 0..ReceLen
    BY DEF TypeInv, ReceType, BusType
  <2>2. seen' \in [Targets -> (0..MaxCommands) \X (0..ReceLen)] /\ UNCHANGED <<ran, failed>>
    <3>1. Standing(t) \in (0..MaxCommands) \X (0..ReceLen)
      BY <2>1 DEF Standing
    <3> QED BY <1>3, <3>1 DEF Match, TypeInv, ThreadType
  <2>3. CASE opcode[t] \in DOMAIN Table(t)
    <3>1. /\ p' = [p EXCEPT ![t] = opcode[t]] /\ fetched' = [fetched EXCEPT ![t] = xfer[t]]
          /\ pc' = [pc EXCEPT ![t] = "check"] /\ len' = len
      BY <1>3, <2>3 DEF Match
    <3>2. ThreadType'
      BY <1>0, <2>1, <2>2, <3>1 DEF ThreadType
    <3> QED BY <1>2, <1>3, <3>2 DEF Match, TypeInv, BusType
  <2>4. CASE opcode[t] \notin DOMAIN Table(t)
    <3>1. Done(t)
      BY <1>3, <2>4 DEF Match
    <3>2. ThreadType'
      BY <1>0, <2>2, <3>1, DoneType DEF ThreadType
    <3> QED BY <1>2, <1>3, <3>2 DEF Match, TypeInv, BusType
  <2> QED BY <2>3, <2>4
<1>4. CASE Check(t)
  <2>1. seen' \in [Targets -> (0..MaxCommands) \X (0..ReceLen)] /\ UNCHANGED <<ran, failed>>
    BY <1>4 DEF Check, TypeInv, ReceType, ThreadType
  <2>2. CASE Fits(t, p[t], cmd_idx[t])
    <3>1. ThreadType'
      BY <1>0, <1>4, <2>1, <2>2 DEF Check, ThreadType
    <3> QED BY <1>2, <1>4, <3>1 DEF Check, TypeInv, BusType
  <2>3. CASE ~Fits(t, p[t], cmd_idx[t])
    <3>1. Done(t)
      BY <1>4, <2>3 DEF Check
    <3>2. ThreadType'
      BY <1>0, <2>1, <3>1, DoneType DEF ThreadType
    <3> QED BY <1>2, <1>4, <3>2 DEF Check, TypeInv, BusType
  <2> QED BY <2>2, <2>3
<1>5. CASE Call(t)
  <2>1. ThreadType'
    BY <1>0, <1>5 DEF Call, TypeInv, ReceType, ThreadType, past
  <2> QED BY <1>2, <1>5, <2>1 DEF Call, TypeInv, BusType
<1>6. CASE Run(t)
  <2>1. ran' \in [Targets -> (0..MaxCommands) \X (0..ReceLen)] /\ seen' = seen
    BY <1>6 DEF Run, TypeInv, BusType, ThreadType
  <2>2. failed' \in [Targets -> BOOLEAN]
    BY <1>0, <1>6 DEF Run, Handle, ThreadType
  <2>3. Done(t) \/ (Goto(t, "respond") /\ UNCHANGED <<p, len, fetched>>)
    BY <1>6 DEF Run, Handle
  <2>4. ThreadType'
    BY <1>0, <2>1, <2>2, <2>3, DoneType DEF ThreadType
  <2> QED BY <1>2, <1>6, <2>4 DEF Run, TypeInv, BusType
<1>7. CASE Respond(t)
  <2>1. fetched[t] \in 0..MaxCommands
    BY <1>0 DEF ThreadType
  <2>2. ThreadType'
    BY <1>0, <1>7, DoneType DEF Respond, ThreadType, past
  <2> QED BY <1>2, <1>7, <2>1, <2>2 DEF Respond
<1> QED BY <1>1, <1>3, <1>4, <1>5, <1>6, <1>7 DEF Service

LEMMA NextType == TypeInv /\ [Next]_vars => TypeInv'
<1> SUFFICES ASSUME TypeInv, [Next]_vars PROVE TypeInv'
  OBVIOUS
<1>1. CASE Masters
  BY <1>1, CommandType, DataType, StopType, OthersType DEF Masters
<1>2. CASE Service("acpi") \/ Service("soccp")
  BY <1>2, ServiceType, Facts
<1>3. CASE UNCHANGED vars
  BY <1>3, Stays DEF vars, TypeInv
<1> QED BY <1>1, <1>2, <1>3 DEF Next

\* Every variable keeps its type: in particular no byte is stored outside the buffer
\* of its target, however long the transfer.
THEOREM HostBusTypeCorrect == Spec => []TypeOK
BY InitType, NextType, TypeIsParts, PTL DEF Spec

-----------------------------------------------------------------------------
(* LastCommandSeen.  The early dispatch of an ACPI command leaves it to be *)
(* looked at again unless it ended there; until a STOP, only a marked      *)
(* command counts.                                                         *)

Current(t) == Ended(t) \/ dispatched

\* With no event pending, what the thread of t has taken is of the command as it
\* stands.
Seen(t) ==
    /\ pc[t] = "clear" => event[t]
    /\ Current(t) /\ ~event[t] =>
         /\ pc[t] \in {"wait", "call", "run", "respond"} => seen[t] = Standing(t)
         /\ pc[t] = "check" => fetched[t] = xfer[t] /\ p[t] = opcode[t]
         /\ pc[t] = "run" => len[t] = cmd_idx[t]
         /\ pc[t] \in {"wait", "respond"} /\ Complete(t) => ran[t] = Standing(t)

\* Of an ACPI command that has its mandatory bytes, at least that much.
Early ==
    mand >= 1 /\ cmd_idx["acpi"] >= mand /\ ~event["acpi"] =>
        /\ pc["acpi"] \in {"wait", "call", "run", "respond"} => seen["acpi"][1] = xfer["acpi"]
        /\ pc["acpi"] = "check" => fetched["acpi"] = xfer["acpi"]

SeenInv == Seen("acpi") /\ Seen("soccp") /\ Early

LEMMA SeenHolds == TypeInv /\ SeenInv => LastCommandSeen
<1> SUFFICES ASSUME TypeInv, SeenInv PROVE LastCommandSeen
  OBVIOUS
<1>1. \A t \in Targets : Settled(t) /\ Ended(t) => Handled(t)
  BY Facts DEF SeenInv, Seen, Settled, Current, Handled
<1>2. Settled("acpi") /\ mand \in 1..cmd_idx["acpi"] => seen["acpi"][1] = xfer["acpi"]
  <2>1. mand \in 1..cmd_idx["acpi"] => mand >= 1 /\ cmd_idx["acpi"] >= mand
    BY Facts DEF TypeInv, ReceType
  <2> QED BY <2>1 DEF SeenInv, Early, Settled
<1> QED BY <1>1, <1>2 DEF LastCommandSeen

LEMMA InitSeen == Init => SeenInv
<1> SUFFICES ASSUME Init PROVE SeenInv
  OBVIOUS
<1>1. \A t \in Targets : ~Complete(t)
  BY HostBusAssumption, Facts DEF Init, Complete, Table
<1>2. mand = 0
  BY DEF Init
<1> QED BY <1>1, <1>2, Facts DEF Init, SeenInv, Seen, Early, Standing, Targets

LEMMA SeenStays ==
  ASSUME NEW u \in Targets, Seen(u), Current(u)' => Current(u),
         UNCHANGED <<pc[u], event[u], seen[u], fetched[u], xfer[u], cmd_idx[u],
                     p[u], len[u], ran[u], opcode[u]>>
  PROVE  Seen(u)'
<1>1. Complete(u)' <=> Complete(u)
  BY DEF Complete, Fits, Table
<1> QED BY <1>1 DEF Seen, Standing

\* A command's event is posted: whatever changed of it is still to be looked at.
LEMMA SeenPosted ==
  ASSUME NEW u \in Targets, Seen(u), UNCHANGED pc, Current(u)' => event'[u],
         event[u] => event'[u]
  PROVE  Seen(u)'
BY DEF Seen

LEMMA EarlyStays ==
  ASSUME Early, UNCHANGED <<pc["acpi"], event["acpi"], seen["acpi"], fetched["acpi"],
                            xfer["acpi"], cmd_idx["acpi"], mand>>
  PROVE  Early'
BY DEF Early

LEMMA StorePosts ==
  ASSUME ReceType, NEW i \in Nat, NEW m \in Nat, NEW d \in BOOLEAN, d => i = m,
         AcpiStore(i, m, d)
  PROVE  /\ (dispatched' <=> i + 1 = m) /\ mand' = m /\ (i + 1 # m => UNCHANGED event)
         /\ dispatched' => event'["acpi"]
         /\ event["acpi"] => event'["acpi"]
         /\ event'["soccp"] = event["soccp"] /\ cmd_idx'["soccp"] = cmd_idx["soccp"]
         /\ cmd_idx'["acpi"] = i + 1
<1>1. ~(i + 1 < m /\ d)
  OBVIOUS
<1>2. dispatched' <=> i + 1 = m
  <2>1. dispatched' = (i + 1 = m \/ (i + 1 < m /\ d))
    BY DEF AcpiStore
  <2> QED BY <1>1, <2>1, Zenon
<1> QED BY <1>2, Facts DEF AcpiStore, Post, ReceType

LEMMA CommandSeen ==
  ASSUME TypeInv, SeenInv, NEW o, CommandReceived(o) PROVE SeenInv'
<1> DEFINE m == IF o \in DOMAIN AcpiMand THEN AcpiMand[o] ELSE 0
<1>1. /\ UNCHANGED <<pc, fetched, p, len, i2c_addr>> /\ i2c_addr \in Targets
      /\ \A u \in Targets : u # i2c_addr => UNCHANGED <<xfer[u], opcode[u], seen[u], ran[u]>>
  BY DEF TypeInv, BusInv, BusType, ReceType, ThreadType, CommandReceived, thread
<1>2. CASE i2c_addr = "acpi"
  <2>1. ReceType /\ m \in Nat
    BY Facts DEF TypeInv
  <2>2. AcpiStore(0, m, FALSE) /\ ended' = FALSE
    BY <1>2 DEF CommandReceived
  <2> HIDE DEF m
  <2> DEFINE i == 0
  <2>a. i \in Nat /\ i + 1 = 1 /\ (FALSE => i = m)
    OBVIOUS
  <2>b. AcpiStore(i, m, FALSE)
    BY <2>2
  <2> HIDE DEF i
  <2>3. /\ dispatched' => event'["acpi"]
        /\ event["acpi"] => event'["acpi"]
        /\ event'["soccp"] = event["soccp"] /\ cmd_idx'["soccp"] = cmd_idx["soccp"]
        /\ cmd_idx'["acpi"] = 1 /\ mand' = m /\ (dispatched' <=> 1 = m)
    <3>1. /\ (dispatched' <=> i + 1 = m) /\ mand' = m
          /\ dispatched' => event'["acpi"]
          /\ event["acpi"] => event'["acpi"]
          /\ event'["soccp"] = event["soccp"] /\ cmd_idx'["soccp"] = cmd_idx["soccp"]
          /\ cmd_idx'["acpi"] = i + 1
      BY <2>1, <2>a, <2>b, StorePosts
    <3> QED BY <3>1, <2>a
  <2>4. Seen("acpi")'
    BY <1>1, <2>2, <2>3, SeenPosted, Facts DEF Current, Ended, SeenInv
  <2>5. Seen("soccp")'
    BY <1>1, <1>2, <2>3, SeenStays, Facts DEF Current, Ended, SeenInv
  <2>6. Early'
    BY <2>1, <2>3 DEF Early
  <2> QED BY <2>4, <2>5, <2>6 DEF SeenInv
<1>3. CASE i2c_addr = "soccp"
  <2>1. SoccpStore(0) /\ ended' = ended /\ ended \in BOOLEAN
    BY <1>3 DEF CommandReceived, TypeInv, ThreadType
  <2>2. event'["soccp"] /\ UNCHANGED <<event["acpi"], cmd_idx["acpi"], dispatched, mand>>
    BY <2>1, Facts DEF SoccpStore, Post, TypeInv, ReceType
  <2>3. Seen("soccp")'
    BY <1>1, <2>2, SeenPosted, Facts DEF SeenInv
  <2>4. Seen("acpi")'
    BY <1>1, <1>3, <2>1, <2>2, SeenStays, Facts DEF Current, Ended, SeenInv
  <2>5. Early'
    BY <1>1, <1>3, <2>2, EarlyStays, Facts DEF SeenInv
  <2> QED BY <2>3, <2>4, <2>5 DEF SeenInv
<1> QED BY <1>1, <1>2, <1>3, Facts

LEMMA DataSeen == ASSUME TypeInv, SeenInv, DataReceived PROVE SeenInv'
<1>1. /\ UNCHANGED <<pc, p, len, seen, ran, fetched, xfer, i2c_addr>> /\ i2c_addr \in Targets
      /\ \A u \in Targets : u # i2c_addr => UNCHANGED opcode[u]
  BY DEF TypeInv, BusInv, ReceType, DataReceived, thread, bus, past
<1>2. CASE i2c_addr = "acpi"
  <2>1. ReceType /\ mand \in Nat /\ dispatched \in BOOLEAN /\ Index("acpi") \in Nat
    BY Facts, IndexType DEF TypeInv, ReceType
  <2>2. dispatched => Index("acpi") = mand
    <3>1. mand < ReceLen /\ (dispatched => cmd_idx["acpi"] = mand)
      BY DEF TypeInv, Marked
    <3>2. cmd_idx["acpi"] = mand => Index("acpi") = mand
      BY <2>1, <3>1, Facts DEF Index
    <3> QED BY <3>1, <3>2, Zenon
  <2>3. AcpiStore(Index("acpi"), mand, dispatched) /\ ended' = FALSE
    BY <1>2 DEF DataReceived
  <2>4. /\ dispatched' => event'["acpi"]
        /\ event["acpi"] => event'["acpi"]
        /\ event'["soccp"] = event["soccp"] /\ cmd_idx'["soccp"] = cmd_idx["soccp"]
        /\ cmd_idx'["acpi"] = Index("acpi") + 1 /\ mand' = mand
        /\ (dispatched' <=> Index("acpi") + 1 = mand)
        /\ (Index("acpi") + 1 # mand => UNCHANGED event)
    BY <2>1, <2>2, <2>3, StorePosts
  <2>5. Seen("acpi")'
    BY <1>1, <2>3, <2>4, SeenPosted, Facts DEF Current, Ended, SeenInv
  <2>6. Seen("soccp")'
    BY <1>1, <1>2, <2>4, SeenStays, Facts DEF Current, Ended, SeenInv
  <2>7. Early'
    <3> SUFFICES ASSUME mand >= 1, Index("acpi") + 1 >= mand, Index("acpi") + 1 # mand
                 PROVE  Early'
      BY <2>4 DEF Early
    <3>1. cmd_idx["acpi"] \in Nat /\ Index("acpi") >= mand
      BY <2>1, Facts DEF TypeInv, ReceType
    <3>2. Index("acpi") = cmd_idx["acpi"]
      BY <2>1, <3>1, Facts DEF Index
    <3>3. UNCHANGED event
      BY <2>4
    <3> QED BY <1>1, <2>4, <3>1, <3>2, <3>3 DEF SeenInv, Early
  <2> QED BY <2>5, <2>6, <2>7 DEF SeenInv
<1>3. CASE i2c_addr = "soccp"
  <2>1. SoccpStore(Index("soccp")) /\ ended' = ended /\ ended \in BOOLEAN
    BY <1>3 DEF DataReceived, TypeInv, ThreadType
  <2>2. event'["soccp"] /\ UNCHANGED <<event["acpi"], cmd_idx["acpi"], dispatched, mand>>
    BY <2>1, Facts DEF SoccpStore, Post, TypeInv, ReceType
  <2>3. Seen("soccp")'
    BY <1>1, <2>2, SeenPosted, Facts DEF SeenInv
  <2>4. Seen("acpi")'
    BY <1>1, <1>3, <2>1, <2>2, SeenStays, Facts DEF Current, Ended, SeenInv
  <2>5. Early'
    BY <1>1, <2>2, EarlyStays DEF SeenInv
  <2> QED BY <2>3, <2>4, <2>5 DEF SeenInv
<1> QED BY <1>1, <1>2, <1>3, Facts

LEMMA StopSeen == ASSUME TypeInv, SeenInv, Stop PROVE SeenInv'
<1>1. UNCHANGED <<pc, p, len, seen, ran, fetched, xfer, i2c_addr, opcode, mand, dispatched>>
  BY DEF Stop, Process, thread, past, rece
<1>2. CASE i2c_addr = "acpi" /\ dispatched
  <2>1. /\ dispatched /\ cmd_idx["acpi"] = mand /\ mand < ReceLen
        /\ cmd_idx \in [Targets -> 0..ReceLen] /\ mand \in 0..ReceLen
    BY <1>2 DEF TypeInv, Marked, ReceType
  <2>2. Index("acpi") = cmd_idx["acpi"]
    BY <2>1, Facts DEF Index
  <2>3. UNCHANGED <<cmd_idx, event>>
    BY <1>2, <2>1, <2>2, Facts DEF Stop, Process
  <2>4. Seen("acpi")' /\ Seen("soccp")' /\ Early'
    BY <1>1, <1>2, <2>3, SeenStays, EarlyStays, Facts DEF Current, Ended, SeenInv
  <2> QED BY <2>4 DEF SeenInv
<1>3. CASE i2c_addr = "acpi" /\ ~dispatched
  <2>1. event'["acpi"] /\ UNCHANGED <<event["soccp"], cmd_idx["soccp"]>>
    BY <1>3, Facts DEF Stop, Process, Post, TypeInv, ReceType
  <2>2. Seen("acpi")'
    BY <1>1, <2>1, SeenPosted, Facts DEF SeenInv
  <2>3. Seen("soccp")'
    BY <1>1, <2>1, SeenStays, Facts DEF Current, Ended, SeenInv
  <2>4. Early'
    BY <2>1 DEF Early
  <2> QED BY <2>2, <2>3, <2>4 DEF SeenInv
<1>4. CASE i2c_addr # "acpi"
  <2>1. UNCHANGED <<cmd_idx, event>> /\ ended' = ended
    BY <1>4 DEF Stop, rece, TypeInv, ThreadType
  <2>2. Seen("acpi")' /\ Seen("soccp")' /\ Early'
    BY <1>1, <2>1, SeenStays, EarlyStays, Facts DEF Current, Ended, SeenInv
  <2> QED BY <2>2 DEF SeenInv
<1> QED BY <1>2, <1>3, <1>4

LEMMA OthersSeen ==
  ASSUME SeenInv, ReadRequested \/ \E t \in Targets : WriteRequested(t) PROVE SeenInv'
<1>1. UNCHANGED <<thread, past, xfer, rece, event, ended>>
  BY DEF ReadRequested, WriteRequested
<1> QED BY <1>1, Facts DEF SeenInv, Seen, Early, Current, Ended, Complete, Fits, Table,
                           Standing, rece, thread, past

LEMMA ServiceSeen == ASSUME TypeInv, SeenInv, NEW t \in Targets, Service(t) PROVE SeenInv'
<1>1. /\ UNCHANGED <<rece, xfer, ended>>
      /\ \A u \in Targets : u # t =>
           UNCHANGED <<pc[u], event[u], seen[u], fetched[u], p[u], len[u], ran[u]>>
  BY DEF Service, Wake, Clear, Match, Check, Call, Run, Handle, Respond, Done, Goto,
         TypeInv, ReceType, ThreadType, past
<1>2. \A u \in Targets : u # t => Seen(u)'
  BY <1>1, SeenStays, Facts DEF Current, Ended, SeenInv, rece
<1>3. /\ Seen(t) /\ (Current(t)' <=> Current(t)) /\ (Standing(t)' = Standing(t))
      /\ Complete(t)' <=> Complete(t)
  BY <1>1, Facts DEF SeenInv, Current, Ended, Standing, Complete, Fits, Table, rece
<1>4. /\ pc \in [Targets -> {"wait", "clear", "match", "check", "call", "run", "respond"}]
      /\ event \in [Targets -> BOOLEAN] /\ DOMAIN seen = Targets /\ DOMAIN fetched = Targets
      /\ DOMAIN p = Targets /\ DOMAIN len = Targets /\ DOMAIN ran = Targets
  BY DEF TypeInv, ReceType, ThreadType
<1> USE DEF Goto
<1>5. Seen(t)'
  <2>1. CASE Wake(t)
    BY <2>1, <1>4 DEF Wake, Seen
  <2>2. CASE Clear(t)
    BY <2>2, <1>4 DEF Clear, Seen
  <2>3. CASE Match(t)
    BY <2>3, <1>1, <1>3, <1>4 DEF Match, Done, Seen, Complete, rece
  <2>4. CASE Check(t)
    <3>1. Seen(t) /\ Current(t)' = Current(t)
      BY <1>3 DEF Current, Ended
    <3>2. UNCHANGED <<xfer, cmd_idx, opcode, event>> /\ pc[t] = "check"
          /\ seen'[t] = <<fetched[t], cmd_idx[t]>>
      BY <2>4, <1>1, <1>4 DEF Check, rece
    <3>3. CASE Fits(t, p[t], cmd_idx[t])
      <4>1. pc'[t] = "call" /\ UNCHANGED fetched
        BY <2>4, <3>3, <1>4 DEF Check
      <4> QED BY <3>1, <3>2, <4>1 DEF Seen, Standing
    <3>4. CASE ~Fits(t, p[t], cmd_idx[t])
      <4>1. pc'[t] = "wait"
        BY <2>4, <3>4, <1>4 DEF Check, Done
      <4>2. p[t] = opcode[t] => ~Complete(t)
        BY <3>4 DEF Complete
      <4> QED BY <1>3, <3>1, <3>2, <4>1, <4>2 DEF Seen, Standing
    <3> QED BY <3>3, <3>4
  <2>5. CASE Call(t)
    BY <2>5, <1>1, <1>3, <1>4 DEF Call, Seen, past, rece
  <2>6. CASE Run(t)
    <3>1. /\ ran'[t] = <<xfer[t], len[t]>> /\ UNCHANGED <<event, seen>> /\ pc[t] = "run"
          /\ pc'[t] \in {"wait", "respond"}
      BY <2>6, <1>4 DEF Run, Handle, Done
    <3> QED BY <1>1, <1>3, <3>1 DEF Seen, Standing, rece
  <2>7. CASE Respond(t)
    BY <2>7, <1>1, <1>3, <1>4 DEF Respond, Done, Seen, past
  <2> QED BY <2>1, <2>2, <2>3, <2>4, <2>5, <2>6, <2>7 DEF Service
<1>6. Early'
  <2>1. CASE t = "soccp"
    BY <1>1, <2>1, EarlyStays, Facts DEF SeenInv, rece
  <2>2. CASE t = "acpi"
    <3>1. Early /\ UNCHANGED <<mand, cmd_idx, xfer>>
      BY <1>1 DEF SeenInv, rece
    <3>2. CASE Wake(t) \/ Clear(t)
      BY <2>2, <3>1, <3>2, <1>4, <1>5 DEF Wake, Clear, Early, Seen
    <3>3. CASE Match(t)
      BY <2>2, <3>1, <3>3, <1>4 DEF Match, Done, Early, Standing
    <3>4. CASE Check(t)
      BY <2>2, <3>1, <3>4, <1>4 DEF Check, Done, Early
    <3>5. CASE Call(t) \/ Run(t) \/ Respond(t)
      BY <2>2, <3>1, <3>5, <1>4 DEF Call, Run, Handle, Respond, Done, Early, past
    <3> QED BY <3>2, <3>3, <3>4, <3>5 DEF Service
  <2> QED BY <2>1, <2>2, Facts
<1> QED BY <1>2, <1>5, <1>6, Facts DEF SeenInv

LEMMA NextSeen == TypeInv /\ SeenInv /\ [Next]_vars => SeenInv'
<1> SUFFICES ASSUME TypeInv, SeenInv, [Next]_vars PROVE SeenInv'
  OBVIOUS
<1>1. CASE Masters
  BY <1>1, CommandSeen, DataSeen, StopSeen, OthersSeen DEF Masters
<1>2. CASE Service("acpi") \/ Service("soccp")
  BY <1>2, ServiceSeen, Facts
<1>3. CASE UNCHANGED vars
  <2>1. UNCHANGED <<thread, past, xfer, rece, event, ended>>
    BY <1>3 DEF vars
  <2> QED BY <2>1, Facts DEF SeenInv, Seen, Early, Current, Ended, Complete, Fits, Table,
                             Standing, rece, thread, past
<1> QED BY <1>1, <1>2, <1>3 DEF Next

\* No command is overlooked: with its service waiting, the last one was looked at with
\* all of its bytes, and run with them, once a STOP has followed them, and at least
\* for its mandatory bytes when a repeated START cut it off; for any tables and
\* lengths, however the bytes, the STOPs and the early dispatch fall between the
\* steps of the service.
THEOREM CommandsAreSeen == Spec => []LastCommandSeen
<1>1. Init => TypeInv /\ SeenInv
  BY InitType, InitSeen
<1>2. TypeInv /\ SeenInv /\ [Next]_vars => (TypeInv /\ SeenInv)'
  BY NextType, NextSeen
<1> QED BY <1>1, <1>2, SeenHolds, PTL DEF Spec

-----------------------------------------------------------------------------
(* AnswerStands.  Of paced masters, only the target that was written to    *)
(* last has anything to do, and what its thread has taken is of the last   *)
(* command as long as no byte took the opcode's place.                     *)

Others == paced => \A u \in Targets : u # i2c_addr => Settled(u)

Filled ==
    /\ i2c_state = "START_WRITE" => sent = 0 /\ (paced => \A u \in Targets : Settled(u))
    /\ i2c_state = "WRITE" => sent >= 1 /\ (sent <= ReceLen => cmd_idx[i2c_addr] = sent)
    /\ i2c_state = "IDLE" /\ i2c_addr = "acpi" => ended

Taken(t) == pc[t] \in {"check", "call", "run", "respond"} => p[t] = opcode[t] /\ fetched[t] = xfer[t]

Answered(t) ==
    Current(t) /\ ~event[t] /\ pc[t] = "wait" /\ opcode[t] \in Answering
      /\ ~failed[t] /\ Fits(t, opcode[t], cmd_idx[t])
    => resp_buf = <<t, xfer[t]>>

Whole == paced /\ i2c_addr \in Targets /\ 1 <= sent /\ sent <= ReceLen

AnswerInv == Others /\ Filled /\ (Whole => Taken(i2c_addr) /\ Answered(i2c_addr))

LEMMA AnswerHolds == TypeInv /\ AnswerInv => AnswerStands
<1> SUFFICES ASSUME TypeInv, AnswerInv, paced, Quiet, i2c_addr # "none",
                    sent \in 1..ReceLen, opcode[i2c_addr] \in Answering, ~failed[i2c_addr],
                    cmd_idx[i2c_addr] >= Table(i2c_addr)[opcode[i2c_addr]],
                    i2c_addr = "soccp" => cmd_idx[i2c_addr] = SoccpMand[opcode[i2c_addr]]
             PROVE  resp_buf = <<i2c_addr, xfer[i2c_addr]>>
  BY DEF AnswerStands
<1>1. i2c_addr \in Targets
  BY DEF TypeInv, BusType
<1>2. Whole
  BY <1>1, Facts DEF Whole
<1>3. Current(i2c_addr) /\ ~event[i2c_addr] /\ pc[i2c_addr] = "wait"
  BY <1>1, Facts DEF Quiet, Settled, Current, Ended, AnswerInv, Filled
<1>4. Fits(i2c_addr, opcode[i2c_addr], cmd_idx[i2c_addr])
  BY <1>1, Facts DEF Fits, Table
<1> QED BY <1>2, <1>3, <1>4 DEF AnswerInv, Answered

LEMMA InitAnswer == Init => AnswerInv
BY Facts DEF Init, AnswerInv, Others, Filled, Whole, Settled, Targets

LEMMA OthersAnswer ==
  ASSUME TypeInv, AnswerInv, ReadRequested \/ \E t \in Targets : WriteRequested(t)
  PROVE  AnswerInv'
<1>1. UNCHANGED <<pc, p, fetched, event, opcode, cmd_idx, dispatched, resp_buf, xfer,
                  ended, failed>>
  BY DEF ReadRequested, WriteRequested, rece, thread, past
<1>2. CASE ReadRequested
  <2>1. UNCHANGED <<i2c_addr, paced, sent>> /\ i2c_state' = "READ"
    BY <1>2 DEF ReadRequested
  <2>2. Others' /\ Filled'
    BY <1>1, <2>1 DEF AnswerInv, Others, Filled, Settled
  <2>3. \A t \in Targets : Current(t)' => Current(t)
    BY <1>1 DEF Current, Ended
  <2>4. Whole' => Taken(i2c_addr)' /\ Answered(i2c_addr)'
    BY <1>1, <2>1, <2>3 DEF AnswerInv, Whole, Taken, Answered, Fits
  <2> QED BY <2>2, <2>4 DEF AnswerInv
<1>3. ASSUME NEW t \in Targets, WriteRequested(t) PROVE AnswerInv'
  <2>1. sent' = 0 /\ i2c_state' = "START_WRITE" /\ (paced' => \A u \in Targets : Settled(u))
    BY <1>3 DEF WriteRequested, Quiet
  <2>2. \A u \in Targets : Settled(u) => Settled(u)'
    BY <1>1 DEF Settled
  <2> QED BY <2>1, <2>2 DEF AnswerInv, Others, Filled, Whole
<1> QED BY <1>2, <1>3

LEMMA StopAnswer == ASSUME TypeInv, AnswerInv, Stop PROVE AnswerInv'
<1>1. /\ UNCHANGED <<pc, p, fetched, opcode, dispatched, resp_buf, xfer, i2c_addr, paced, sent,
                     failed>>
      /\ i2c_state' = "IDLE" /\ i2c_state # "IDLE" /\ ended' = (ended \/ i2c_addr = "acpi")
  BY DEF Stop, thread, rece, Process, past
<1>2. Filled'
  BY <1>1 DEF Filled
<1>3. \A u \in Targets : u # i2c_addr => event'[u] = event[u]
  BY Facts DEF Stop, Process, Post, TypeInv, ReceType
<1>4. Others'
  BY <1>1, <1>3 DEF AnswerInv, Others, Settled
<1>5. Whole /\ Taken(i2c_addr) => Taken(i2c_addr)'
  BY <1>1 DEF Taken
<1>6. Whole /\ Answered(i2c_addr) => Answered(i2c_addr)'
  <2>1. CASE i2c_addr = "acpi" /\ ~dispatched
    <3>1. event'["acpi"]
      BY <2>1, Facts DEF Stop, Process, Post, TypeInv, ReceType
    <3> QED BY <1>1, <2>1, <3>1 DEF Answered
  <2>2. CASE i2c_addr = "acpi" /\ dispatched
    <3>1. /\ cmd_idx["acpi"] = mand /\ mand < ReceLen
          /\ cmd_idx \in [Targets -> 0..ReceLen] /\ mand \in 0..ReceLen
      BY <2>2 DEF TypeInv, Marked, ReceType
    <3>2. Index("acpi") = cmd_idx["acpi"]
      BY <3>1, Facts DEF Index
    <3>3. UNCHANGED <<cmd_idx, event>>
      BY <2>2, <3>1, <3>2, Facts DEF Stop, Process
    <3> QED BY <1>1, <2>2, <3>3 DEF Answered, Current, Ended, Fits
  <2>3. CASE i2c_addr # "acpi"
    <3>1. UNCHANGED <<cmd_idx, event>>
      BY <2>3 DEF Stop, rece
    <3> QED BY <1>1, <2>3, <3>1 DEF Answered, Current, Ended, Fits
  <2> QED BY <2>1, <2>2, <2>3
<1>7. Whole' => Whole
  BY <1>1 DEF Whole
<1> QED BY <1>1, <1>2, <1>4, <1>5, <1>6, <1>7 DEF AnswerInv

LEMMA CommandAnswer ==
  ASSUME TypeInv, AnswerInv, NEW o, CommandReceived(o) PROVE AnswerInv'
<1> DEFINE a == i2c_addr
<1>1. /\ UNCHANGED <<pc, i2c_addr, paced>> /\ a \in Targets
      /\ i2c_state = "START_WRITE" /\ i2c_state' = "WRITE" /\ sent' = 1
  BY DEF TypeInv, BusInv, CommandReceived, thread
<1>2. cmd_idx'[a] = 1 /\ \A u \in Targets : u # a => event'[u] = event[u]
  <2>1. CASE a = "acpi"
    <3>1. \E m : AcpiStore(0, m, FALSE)
      BY <2>1 DEF CommandReceived
    <3> QED BY <2>1, <3>1, Facts DEF AcpiStore, Post, TypeInv, ReceType
  <2>2. CASE a = "soccp"
    <3>1. SoccpStore(0)
      BY <2>2 DEF CommandReceived
    <3> QED BY <2>2, <3>1, Facts DEF SoccpStore, Post, TypeInv, ReceType
  <2> QED BY <1>1, <2>1, <2>2, Facts
<1>3. Others' /\ Filled'
  BY <1>1, <1>2 DEF AnswerInv, Others, Filled, Settled
<1>4. paced => pc[a] = "wait"
  BY <1>1 DEF AnswerInv, Filled, Settled
<1>5. Current(a)' => event'[a]
  <2>1. CASE a = "acpi"
    <3> DEFINE m == IF o \in DOMAIN AcpiMand THEN AcpiMand[o] ELSE 0
    <3>1. AcpiStore(0, m, FALSE)
      BY <2>1 DEF CommandReceived
    <3>2. ReceType /\ m \in Nat
      BY Facts DEF TypeInv
    <3> HIDE DEF m
    <3>3. dispatched' => event'["acpi"]
      BY <3>1, <3>2, StorePosts
    <3>4. ended' = FALSE
      BY <2>1 DEF CommandReceived
    <3> QED BY <1>1, <2>1, <3>3, <3>4, Facts DEF Current, Ended
  <2>2. CASE a = "soccp"
    <3>1. SoccpStore(0)
      BY <2>2 DEF CommandReceived
    <3> QED BY <2>2, <3>1, Facts DEF SoccpStore, Post, TypeInv, ReceType
  <2> QED BY <1>1, <2>1, <2>2, Facts
<1>6. Whole' => Taken(a)' /\ Answered(a)'
  BY <1>1, <1>4, <1>5 DEF Whole, Taken, Answered
<1> QED BY <1>1, <1>3, <1>6 DEF AnswerInv

LEMMA DataAnswer == ASSUME TypeInv, AnswerInv, DataReceived PROVE AnswerInv'
<1> DEFINE a == i2c_addr
<1>1. /\ UNCHANGED <<pc, p, fetched, xfer, i2c_addr, i2c_state, paced, failed>> /\ a \in Targets
      /\ i2c_state = "WRITE" /\ sent' = sent + 1 /\ sent \in Nat
  BY Facts DEF TypeInv, BusInv, BusType, DataReceived, thread, bus, past
<1>2. cmd_idx'[a] = Index(a) + 1 /\ \A u \in Targets : u # a => event'[u] = event[u]
  <2>1. CASE a = "acpi"
    <3>1. AcpiStore(Index("acpi"), mand, dispatched)
      BY <2>1 DEF DataReceived
    <3> QED BY <2>1, <3>1, Facts DEF AcpiStore, Post, TypeInv, ReceType
  <2>2. CASE a = "soccp"
    <3>1. SoccpStore(Index("soccp"))
      BY <2>2 DEF DataReceived
    <3> QED BY <2>2, <3>1, Facts DEF SoccpStore, Post, TypeInv, ReceType
  <2> QED BY <1>1, <2>1, <2>2, Facts
<1>3. sent >= 1 /\ (sent <= ReceLen => cmd_idx[a] = sent)
  BY <1>1 DEF AnswerInv, Filled
<1>4. sent' <= ReceLen => Index(a) = sent /\ sent <= ReceLen
  BY <1>1, <1>3, Facts DEF Index
<1>5. Others'
  BY <1>1, <1>2 DEF AnswerInv, Others, Settled
<1>6. Filled'
  BY <1>1, <1>2, <1>4, Facts DEF Filled
<1>7. Current(a)' => event'[a]
  <2>1. CASE a = "acpi"
    <3>1. AcpiStore(Index("acpi"), mand, dispatched)
      BY <2>1 DEF DataReceived
    <3>2. ReceType /\ mand \in Nat /\ dispatched \in BOOLEAN /\ Index("acpi") \in Nat
      BY Facts, IndexType DEF TypeInv, ReceType
    <3>3. dispatched => Index("acpi") = mand
      <4>1. mand < ReceLen /\ (dispatched => cmd_idx["acpi"] = mand)
        BY DEF TypeInv, Marked
      <4>2. cmd_idx["acpi"] = mand => Index("acpi") = mand
        BY <3>2, <4>1, Facts DEF Index
      <4> QED BY <4>1, <4>2, Zenon
    <3>4. dispatched' => event'["acpi"]
      BY <3>1, <3>2, <3>3, StorePosts
    <3>5. ended' = FALSE
      BY <2>1 DEF DataReceived
    <3> QED BY <1>1, <2>1, <3>4, <3>5, Facts DEF Current, Ended
  <2>2. CASE a = "soccp"
    <3>1. SoccpStore(Index("soccp"))
      BY <2>2 DEF DataReceived
    <3> QED BY <2>2, <3>1, Facts DEF SoccpStore, Post, TypeInv, ReceType
  <2> QED BY <1>1, <2>1, <2>2, Facts
<1>8. Whole' => Whole /\ UNCHANGED opcode
  BY <1>1, <1>3, <1>4, Facts DEF Whole, DataReceived
<1>9. Whole' => Taken(a)' /\ Answered(a)'
  BY <1>1, <1>7, <1>8 DEF AnswerInv, Taken, Answered
<1> QED BY <1>1, <1>5, <1>6, <1>9 DEF AnswerInv

LEMMA ServiceAnswer ==
  ASSUME TypeInv, AnswerInv, NEW t \in Targets, Service(t) PROVE AnswerInv'
<1>1. /\ UNCHANGED <<bus, rece, xfer, sent, ended>>
      /\ \A u \in Targets : u # t => UNCHANGED <<pc[u], event[u]>>
  BY DEF Service, Wake, Clear, Match, Check, Call, Run, Handle, Respond, Done, Goto,
         TypeInv, ReceType, ThreadType
<1>2. ~Settled(t)
  BY DEF Service, Wake, Clear, Match, Check, Call, Run, Respond, Settled
<1>3. paced => t = i2c_addr
  BY <1>2 DEF AnswerInv, Others
<1>4. Others'
  BY <1>1, <1>3 DEF AnswerInv, Others, Settled, bus
<1>5. Filled'
  BY <1>1, <1>2 DEF AnswerInv, Filled, bus, rece
<1>6. Whole' => Whole
  BY <1>1 DEF Whole, bus
<1> SUFFICES ASSUME Whole, t = i2c_addr, Taken(t), Answered(t) PROVE Taken(t)' /\ Answered(t)'
  BY <1>1, <1>3, <1>4, <1>5, <1>6 DEF AnswerInv, Whole, bus
<1>7. /\ pc \in [Targets -> {"wait", "clear", "match", "check", "call", "run", "respond"}]
      /\ DOMAIN p = Targets /\ DOMAIN fetched = Targets /\ DOMAIN failed = Targets
      /\ opcode[t] \in Opcodes(t)
      /\ opcode[t] \in DOMAIN Table(t) \/ opcode[t] = Unknown
  BY DEF TypeInv, ReceType, ThreadType, Opcodes
<1>8. UNCHANGED <<opcode, cmd_idx, xfer>> /\ (Current(t)' <=> Current(t))
  BY <1>1 DEF Current, Ended, rece
<1> USE DEF Goto
<1>9. Taken(t)'
  <2>1. CASE Wake(t) \/ Clear(t)
    BY <2>1, <1>7 DEF Wake, Clear, Taken
  <2>2. CASE Match(t)
    BY <2>2, <1>8, <1>7 DEF Match, Done, Taken
  <2>3. CASE Check(t) \/ Call(t) \/ Run(t) \/ Respond(t)
    BY <2>3, <1>8, <1>7 DEF Check, Call, Run, Handle, Respond, Done, Taken
  <2> QED BY <2>1, <2>2, <2>3 DEF Service
<1>10. Answered(t)'
  <2>1. CASE Wake(t) \/ Clear(t)
    BY <2>1, <1>7 DEF Wake, Clear, Answered
  <2>2. CASE Match(t)
    <3>1. Unknown \notin Answering
      BY HostBusAssumption
    <3> QED BY <2>2, <3>1, <1>8, <1>7 DEF Match, Done, Answered
  <2>3. CASE Check(t)
    <3>1. p[t] = opcode[t] /\ pc[t] = "check"
      BY <2>3 DEF Check, Taken
    <3>2. pc'[t] = "wait" => ~Fits(t, opcode[t], cmd_idx[t])
      BY <2>3, <3>1, <1>7 DEF Check, Done
    <3> QED BY <3>2, <1>8 DEF Answered, Fits
  <2>4. CASE Call(t)
    BY <2>4, <1>7 DEF Call, Answered
  <2>5. CASE Run(t)
    <3>1. p[t] = opcode[t]
      BY <2>5 DEF Run, Taken
    <3>2. pc'[t] = "wait" /\ opcode[t] \in Answering => failed'[t]
      BY <2>5, <3>1, <1>7 DEF Run, Handle, Done
    <3> QED BY <3>2, <1>8 DEF Answered
  <2>6. CASE Respond(t)
    <3>1. resp_buf' = <<t, xfer[t]>>
      BY <2>6 DEF Respond, Taken
    <3> QED BY <3>1, <1>8 DEF Answered
  <2> QED BY <2>1, <2>2, <2>3, <2>4, <2>5, <2>6 DEF Service
<1> QED BY <1>9, <1>10

LEMMA NextAnswer == TypeInv /\ AnswerInv /\ [Next]_vars => AnswerInv'
<1> SUFFICES ASSUME TypeInv, AnswerInv, [Next]_vars PROVE AnswerInv'
  OBVIOUS
<1>1. CASE Masters
  BY <1>1, CommandAnswer, DataAnswer, StopAnswer, OthersAnswer DEF Masters
<1>2. CASE Service("acpi") \/ Service("soccp")
  BY <1>2, ServiceAnswer, Facts
<1>3. CASE UNCHANGED vars
  <2>1. UNCHANGED <<bus, rece, event, thread, xfer, sent, resp_buf, ended, past>>
    BY <1>3 DEF vars
  <2> QED BY <2>1 DEF AnswerInv, Others, Filled, Whole, Taken, Answered, Settled,
                      Current, Ended, Fits, bus, rece, thread, past
<1> QED BY <1>1, <1>2, <1>3 DEF Next

\* Masters that let the services finish before each write read the response of the
\* last command, when its handler did not fail, although both targets answer through
\* one buffer.
THEOREM TheLastCommandIsAnswered == Spec => []AnswerStands
<1>1. Init => TypeInv /\ AnswerInv
  BY InitType, InitAnswer
<1>2. TypeInv /\ AnswerInv /\ [Next]_vars => (TypeInv /\ AnswerInv)'
  BY NextType, NextAnswer
<1> QED BY <1>1, <1>2, AnswerHolds, PTL DEF Spec

-----------------------------------------------------------------------------
(* RunsOnce.  A command of the mandatory length has one event, that of its *)
(* last byte; it is pending until the handler has run.                     *)

Written == paced /\ i2c_addr = "acpi" /\ 1 <= sent

Unfinished == Written /\ i2c_state = "WRITE" /\ sent < mand
Pending == event["acpi"] \/ pc["acpi"] \in {"match", "check", "call", "run"}

OnceInv ==
    /\ ran["acpi"][1] <= xfer["acpi"]
    /\ Unfinished => Settled("acpi") /\ ran["acpi"][1] < xfer["acpi"]
    /\ Written /\ sent = mand =>
         /\ dispatched
         /\ pc["acpi"] \in {"match", "check", "call", "run", "respond"} => ~event["acpi"]
         /\ Pending => ran["acpi"] # <<xfer["acpi"], mand>>

LEMMA InitOnce == Init => OnceInv
BY Facts DEF Init, OnceInv, Unfinished, Written, Pending

LEMMA OthersOnce ==
  ASSUME TypeInv, OnceInv, ReadRequested \/ \E t \in Targets : WriteRequested(t)
  PROVE  OnceInv'
<1>1. UNCHANGED <<rece, event, thread, xfer, ran>>
  BY DEF ReadRequested, WriteRequested, past
<1>2. CASE ReadRequested
  BY <1>1, <1>2 DEF ReadRequested, OnceInv, Unfinished, Written, Pending, thread, rece
<1>3. ASSUME NEW t \in Targets, WriteRequested(t) PROVE OnceInv'
  <2>1. ~Written'
    BY <1>3 DEF WriteRequested, Written
  <2> QED BY <1>1, <2>1 DEF OnceInv, Unfinished
<1> QED BY <1>2, <1>3

LEMMA StopOnce == ASSUME TypeInv, OnceInv, Stop PROVE OnceInv'
<1>1. UNCHANGED <<thread, xfer, ran, sent, i2c_addr, paced, mand, dispatched>>
      /\ i2c_state' = "IDLE"
  BY DEF Stop, Process, rece, past
<1>3. ~Unfinished' /\ (Written' => Written)
  BY <1>1 DEF Unfinished, Written
<1>4. Written /\ dispatched => UNCHANGED event
  BY DEF Stop, Process, Written
<1> QED BY <1>1, <1>3, <1>4 DEF OnceInv, Pending, thread

LEMMA CommandOnce ==
  ASSUME TypeInv, AnswerInv, OnceInv, NEW o, CommandReceived(o) PROVE OnceInv'
<1> DEFINE m == IF o \in DOMAIN AcpiMand THEN AcpiMand[o] ELSE 0
<1>1. /\ UNCHANGED <<thread, i2c_addr, paced>> /\ sent' = 1 /\ i2c_addr \in Targets
      /\ paced => Settled("acpi")
  BY Facts DEF CommandReceived, TypeInv, BusInv, AnswerInv, Filled
<1>2. /\ xfer["acpi"] \in Nat /\ xfer'["acpi"] \in Nat /\ xfer'["acpi"] >= xfer["acpi"]
      /\ i2c_addr = "acpi" => xfer'["acpi"] = xfer["acpi"] + 1 /\ ran'["acpi"] = <<0, 0>>
      /\ i2c_addr # "acpi" => ran'["acpi"] = ran["acpi"]
  <2>1. /\ xfer' = [xfer EXCEPT ![i2c_addr] = @ + 1] /\ xfer \in [Targets -> 0..MaxCommands]
        /\ ran' = [ran EXCEPT ![i2c_addr] = <<0, 0>>] /\ DOMAIN ran = Targets
    BY DEF CommandReceived, TypeInv, BusType, ThreadType
  <2> QED BY <1>1, <2>1, Facts
<1>3. ran'["acpi"][1] <= xfer'["acpi"]
  <2>1. ran["acpi"][1] \in Nat /\ ran["acpi"][1] <= xfer["acpi"]
    BY Facts DEF TypeInv, ThreadType, OnceInv
  <2>2. CASE i2c_addr = "acpi"
    BY <1>2, <2>2
  <2>3. CASE i2c_addr # "acpi"
    BY <1>2, <2>1, <2>3
  <2> QED BY <2>2, <2>3
<1>4. CASE i2c_addr # "acpi"
  BY <1>1, <1>3, <1>4 DEF OnceInv, Unfinished, Written
<1>5. CASE i2c_addr = "acpi"
  <2>1. AcpiStore(0, m, FALSE) /\ m \in Nat
    BY <1>5, Facts DEF CommandReceived
  <2> HIDE DEF m
  <2>2. mand' = m /\ (dispatched' <=> 0 + 1 = m) /\ (m # 1 => UNCHANGED event)
    <3>1. ReceType /\ 0 \in Nat
      BY DEF TypeInv
    <3>2. (dispatched' <=> 0 + 1 = m) /\ mand' = m /\ (0 + 1 # m => UNCHANGED event)
      BY <2>1, <3>1, StorePosts
    <3> QED BY <2>1, <3>2
  <2>3. ran'["acpi"][1] < xfer'["acpi"] /\ ran'["acpi"] # <<xfer'["acpi"], mand'>>
    <3>1. ran'["acpi"][1] < xfer'["acpi"]
      BY <1>2, <1>5
    <3> QED BY <1>2, <3>1
  <2>4. Unfinished' => Settled("acpi")'
    <3>1. Unfinished' => paced /\ m # 1
      BY <1>1, <2>1, <2>2 DEF Unfinished, Written
    <3> QED BY <1>1, <2>2, <3>1 DEF Settled, thread
  <2>5. Written' /\ sent' = mand' => dispatched' /\ pc'["acpi"] = "wait"
    BY <1>1, <2>2 DEF Written, Settled, thread
  <2> QED BY <1>3, <2>3, <2>4, <2>5 DEF OnceInv
<1> QED BY <1>4, <1>5

LEMMA DataOnce ==
  ASSUME TypeInv, AnswerInv, OnceInv, DataReceived PROVE OnceInv'
<1>1. /\ UNCHANGED <<thread, ran, i2c_addr, paced, xfer, i2c_state>>
      /\ i2c_state = "WRITE" /\ sent' = sent + 1 /\ sent \in Nat /\ sent >= 1
  BY Facts DEF DataReceived, bus, TypeInv, BusType, AnswerInv, Filled, past
<1>2. xfer["acpi"] \in Nat
  BY Facts DEF TypeInv, BusType
<1>3. ran'["acpi"][1] <= xfer'["acpi"]
  BY <1>1 DEF OnceInv
<1>4. CASE i2c_addr # "acpi"
  BY <1>1, <1>3, <1>4 DEF OnceInv, Unfinished, Written
<1>5. CASE i2c_addr = "acpi"
  <2>1. AcpiStore(Index("acpi"), mand, dispatched) /\ mand \in Nat /\ mand < ReceLen
    BY <1>5, Facts DEF DataReceived, TypeInv, ReceType, Marked
  <2>2. mand' = mand
    BY <2>1 DEF AcpiStore
  <2>3. sent < mand => Index("acpi") = sent
    <3>1. sent <= ReceLen => cmd_idx["acpi"] = sent
      BY <1>1, <1>5 DEF AnswerInv, Filled
    <3> QED BY <1>1, <2>1, <3>1, Facts DEF Index
  <2>4. Written' /\ sent' <= mand' => Unfinished
    BY <1>1, <1>5, <2>1, <2>2 DEF Written, Unfinished
  <2>5. Unfinished => /\ Settled("acpi") /\ ran["acpi"][1] < xfer["acpi"]
                      /\ ran["acpi"] # <<xfer["acpi"], mand>>
    <3>1. Unfinished => Settled("acpi") /\ ran["acpi"][1] < xfer["acpi"]
      BY DEF OnceInv
    <3>2. xfer["acpi"] \in Nat
      BY <1>1, <1>2
    <3> QED BY <3>1, <3>2
  <2>6. Unfinished' => Settled("acpi")' /\ ran'["acpi"][1] < xfer'["acpi"]
    <3>1. Unfinished' => Unfinished /\ sent + 1 < mand
      BY <1>1, <2>1, <2>2, <2>4 DEF Unfinished, Written
    <3>2. sent + 1 < mand => UNCHANGED event
      BY <1>1, <2>1, <2>3 DEF AcpiStore
    <3> QED BY <1>1, <2>5, <3>1, <3>2 DEF Settled, thread
  <2>7. Written' /\ sent' = mand' =>
          dispatched' /\ pc'["acpi"] = "wait" /\ ran'["acpi"] # <<xfer'["acpi"], mand'>>
    <3>1. Written' /\ sent' = mand' => Unfinished /\ sent + 1 = mand
      BY <1>1, <2>1, <2>2, <2>4
    <3>2. sent + 1 = mand => dispatched'
      <4>1. sent + 1 = mand => Index("acpi") + 1 = mand
        BY <1>1, <2>1, <2>3
      <4>2. dispatched' = (Index("acpi") + 1 = mand
                             \/ (Index("acpi") + 1 < mand /\ dispatched))
        BY <2>1 DEF AcpiStore
      <4> QED BY <4>1, <4>2, Zenon
    <3> QED BY <1>1, <2>2, <2>5, <3>1, <3>2 DEF Settled, thread
  <2> QED BY <1>3, <2>6, <2>7 DEF OnceInv
<1> QED BY <1>4, <1>5

LEMMA ServiceOnce ==
  ASSUME TypeInv, AnswerInv, SeenInv, OnceInv, NEW t \in Targets, Service(t)
  PROVE  OnceInv'
<1>1. UNCHANGED <<i2c_state, i2c_addr, paced, mand, dispatched, xfer, sent, cmd_idx>>
  BY DEF Service, Wake, Clear, Match, Check, Call, Run, Respond, bus, rece
<1>2. (Unfinished' <=> Unfinished) /\ (Written' <=> Written)
  BY <1>1 DEF Unfinished, Written
<1> USE DEF Goto
<1>3. CASE t = "soccp"
  <2>1. UNCHANGED <<pc["acpi"], event["acpi"], ran["acpi"]>>
    BY <1>3, Facts DEF Service, Wake, Clear, Match, Check, Call, Run, Handle, Respond, Done,
                       TypeInv, ReceType, ThreadType, past
  <2> QED BY <1>1, <1>2, <2>1 DEF OnceInv, Settled, Pending
<1>4. CASE t = "acpi"
  <2>1. ~Settled("acpi")
    BY <1>4 DEF Service, Wake, Clear, Match, Check, Call, Run, Respond, Settled
  <2>2. ~Unfinished'
    BY <1>2, <2>1 DEF OnceInv
  <2>3. /\ pc \in [Targets -> {"wait", "clear", "match", "check", "call", "run", "respond"}]
        /\ event \in [Targets -> BOOLEAN] /\ DOMAIN ran = Targets /\ xfer["acpi"] \in Nat
        /\ pc["acpi"] = "clear" => event["acpi"]
    BY Facts DEF TypeInv, BusType, ReceType, ThreadType, SeenInv, Seen
  <2>4. CASE Wake("acpi") \/ Clear("acpi")
    BY <2>4, <1>1, <1>2, <2>2, <2>3, Facts DEF Wake, Clear, OnceInv, Pending, past
  <2>5. CASE Match("acpi") \/ Check("acpi") \/ Call("acpi")
    <3>1. /\ UNCHANGED <<event, ran>> /\ pc["acpi"] \in {"match", "check", "call"}
          /\ pc'["acpi"] \in {"check", "call", "run", "wait"}
      BY <2>5, <2>3, Facts DEF Match, Check, Call, Done, past
    <3> QED BY <3>1, <1>1, <1>2, <2>2 DEF OnceInv, Pending
  <2>6. CASE Run("acpi")
    <3>1. /\ UNCHANGED event /\ pc["acpi"] = "run" /\ pc'["acpi"] \in {"respond", "wait"}
          /\ ran'["acpi"][1] = xfer["acpi"]
      BY <2>6, <2>3, Facts DEF Run, Handle, Done
    <3> QED BY <3>1, <1>1, <1>2, <2>2, <2>3 DEF OnceInv, Pending
  <2>7. CASE Respond("acpi")
    <3>1. UNCHANGED <<event, ran>> /\ pc["acpi"] = "respond" /\ pc'["acpi"] = "wait"
      BY <2>7, <2>3, Facts DEF Respond, Done, past
    <3> QED BY <3>1, <1>1, <1>2, <2>2 DEF OnceInv, Pending
  <2> QED BY <1>4, <2>4, <2>5, <2>6, <2>7 DEF Service
<1> QED BY <1>3, <1>4, Facts

LEMMA NextOnce ==
  TypeInv /\ AnswerInv /\ SeenInv /\ OnceInv /\ [Next]_vars => OnceInv'
<1> SUFFICES ASSUME TypeInv, AnswerInv, SeenInv, OnceInv, [Next]_vars PROVE OnceInv'
  OBVIOUS
<1>1. CASE Masters
  BY <1>1, CommandOnce, DataOnce, StopOnce, OthersOnce DEF Masters
<1>2. CASE Service("acpi") \/ Service("soccp")
  BY <1>2, ServiceOnce, Facts
<1>3. CASE UNCHANGED vars
  <2>1. UNCHANGED <<bus, rece, event, thread, xfer, sent, ran>>
    BY <1>3 DEF vars, past
  <2> QED BY <2>1 DEF OnceInv, Unfinished, Written, Pending, Settled, bus, rece, thread
<1> QED BY <1>1, <1>2, <1>3 DEF Next

\* Of masters that wait, a command of the mandatory length is handled once: neither
\* the end of its transfer nor that of any read calls for it again.
THEOREM CommandsRunOnce == Spec => RunsOnce
<1> DEFINE Inv == TypeInv /\ AnswerInv /\ SeenInv /\ OnceInv
           Step == Run("acpi") /\ paced /\ len["acpi"] = mand /\ sent = mand /\ sent > 0
                     => ran["acpi"] # <<xfer["acpi"], len["acpi"]>>
<1>1. Init => Inv
  BY InitType, InitAnswer, InitSeen, InitOnce
<1>2. Inv /\ [Next]_vars => Inv'
  BY NextType, NextAnswer, NextSeen, NextOnce
<1>3. Inv => Step
  <2> SUFFICES ASSUME Inv, Run("acpi"), paced, len["acpi"] = mand, sent = mand, sent > 0
               PROVE  ran["acpi"] # <<xfer["acpi"], len["acpi"]>>
    OBVIOUS
  <2>1. pc["acpi"] = "run" /\ sent \in Nat
    BY Facts DEF Run, TypeInv, BusType
  <2>2. i2c_addr = "acpi"
    BY <2>1, Facts DEF AnswerInv, Others, Settled
  <2>3. Written /\ Pending
    BY <2>1, <2>2 DEF Written, Pending
  <2> QED BY <2>3 DEF OnceInv
<1>4. Inv => [Step]_vars
  BY <1>3
<1> HIDE DEF Inv, Step
<1>5. Spec => [][Step]_vars
  BY <1>1, <1>2, <1>4, PTL DEF Spec
<1> QED BY <1>5 DEF RunsOnce, Step

=============================================================================
