--------------------------- MODULE MCDeviceControl ---------------------------
(* Small instances of DeviceControl. *)
EXTENDS DeviceControl

=============================================================================
