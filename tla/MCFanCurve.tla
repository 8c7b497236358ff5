------------------------------ MODULE MCFanCurve ------------------------------
(* A profile without tables and one with them, for TLC. *)
EXTENDS FanCurve
OneOfEachKind == {FAN_PROFILE_BATTERY_SAVER, FAN_PROFILE_BEST_PERFORMANCE_CHG_IN}
=============================================================================
