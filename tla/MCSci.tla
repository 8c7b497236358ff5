-------------------------------- MODULE MCSci --------------------------------
(* Finite instances of the SCI service for TLC. *)
EXTENDS Sci
CONSTANTS fan, shell
FanOnly == {fan}
FanAndShell == {fan, shell}
ShellOnly == {shell}
TwoStates == {"S0", "S3"}
=============================================================================
