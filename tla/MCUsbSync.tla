----------------------------- MODULE MCUsbSync -----------------------------
(* UsbSync for TLC. *)
EXTENDS UsbSync
=============================================================================
