-------------------------- MODULE MCDeviceTransfer --------------------------
(* Transfers between a few devices, for TLC.                               *)
EXTENDS DeviceTransfer
=============================================================================
