-------------------------------- MODULE MCBoot --------------------------------
(* Finite instances of booting and firmware update for TLC. *)
EXTENDS Boot
OneImage == {"A"}
AllCrc == [i \in Images |-> "CRC"]
AllSum == [i \in Images |-> "CHECKSUM"]
=============================================================================
