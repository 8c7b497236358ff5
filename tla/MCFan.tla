-------------------------------- MODULE MCFan --------------------------------
(***************************************************************************)
(* Finite instances of the fan service for TLC.  Two rows are enough for   *)
(* an overlap; 72 degrees is in a different row of each table.             *)
(***************************************************************************)
EXTENDS FanCtrl
Lut70 == <<Row(25, 70, 0), Row(75, 255, 67)>>
Lut80 == <<Row(25, 80, 0), Row(75, 255, 77)>>
Warm == {0, 720}
OneLut == {Lut80}
OffAndOn == {0, 2500}
HighTrip == {<<2000, 2400>>}
SixAndNine == {6, 9}
OneDebug == {"rpm"}
FirstSource == {1}
Tables == {"temp", "profile", "lut", "debug", "fan profile", "fan trip", "power",
           "status"}
Crossings == {"trip", "enable", "power", "tach", "other fan"}
Status == {"enable", "fan state", "sci get", "power", "tach", "status"}
Supply == {"soccp", "fan constraint", "debug", "power", "status"}
OneOfFour == {Tables, Crossings, Status, Supply}
SoccpAndPower == {{"soccp", "power"}}
=============================================================================
