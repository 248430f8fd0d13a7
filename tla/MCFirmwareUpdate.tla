------------------------- MODULE MCFirmwareUpdate -------------------------
(* Small instances of FirmwareUpdate for TLC: two full builds with         *)
(* different tuner images and a bare one.                                  *)
EXTENDS FirmwareUpdate
=============================================================================
