------------------------------- MODULE MCFlash -------------------------------
(* Finite instances of the flash service for TLC. *)
EXTENDS FlashService
CONSTANTS main, work, acpi
ThreeClients == {main, work, acpi}
SomeRequests == {"erase", "crc"}
OkOrNot == {"ok", "error"}
=============================================================================
