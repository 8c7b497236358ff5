------------------------------ MODULE MCHostBus ------------------------------
(* Finite instances of the I2C target and its services for TLC. *)
EXTENDS HostBus
\* 0x0E has no optional bytes, 0x24 has one; 0x43 and 0x03 of the SoC-CP.
FixedAndOptional == [o \in {"fixed", "optional"} |-> IF o = "fixed" THEN 2 ELSE 1]
SoccpTable == [o \in {"who_am_i", "power"} |-> IF o = "who_am_i" THEN 1 ELSE 2]
Reading == {"fixed", "optional", "who_am_i"}
=============================================================================
