------------------------------ MODULE PwrStates ------------------------------
(***************************************************************************)
(* The platform power states of interface/power.h, shared by the modules   *)
(* that react to them.  G3 is the state the power service boots in.        *)
(***************************************************************************)
PwrSta == {"S0", "MS", "S3", "S4", "S5", "G3"}
BootPwrSta == "G3"
=============================================================================
