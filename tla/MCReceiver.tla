----------------------------- MODULE MCReceiver -----------------------------
(* Instances of the receiver subsystem for TLC.                             *)
EXTENDS DeviceReceiverSubsystem
=============================================================================
