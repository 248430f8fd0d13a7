---------------------------- MODULE MCBluetooth ----------------------------
(* Two operations, faults, overlaps and link changes beside the start's tasks. *)
EXTENDS Bluetooth
=============================================================================
