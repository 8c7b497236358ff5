------------------------------ MODULE MCThermal ------------------------------
(* A finite instance of the thermal service for TLC: the first of two      *)
(* thermistors cannot be read; one rate is below the host's minimum.       *)
EXTENDS Thermal
NoOne == {}
HostStates == {"S0", "MS"}
TwoDevices == {1, 2}
Second == {2}
TooFast == {50}
Zero == {0}
=============================================================================
