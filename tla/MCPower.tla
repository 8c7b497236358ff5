------------------------------- MODULE MCPower -------------------------------
(* Finite instances of the power service for TLC. *)
EXTENDS Power
CONSTANT soccp
SocCp == {soccp}
HostStates == {"S0", "MS"}
SocCpStates == {"S0", "MS", "S3"}
=============================================================================
