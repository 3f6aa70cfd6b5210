----------------------------- MODULE MCDeviceLink -----------------------------
(* The instance of DeviceLink for TLC is given by the configuration alone. *)
EXTENDS DeviceLink
=============================================================================
