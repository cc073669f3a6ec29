------------------------------ MODULE MCSeedKeys ------------------------------
(***************************************************************************)
(* SeedKeys for TLC: seeds enough to replace one while another is in use.  *)
(***************************************************************************)
EXTENDS SeedKeys

\* Everything that may go wrong in the device.
EnvFaults == {"open", "write", "short", "crash"}

\* Every store succeeds: what sdkStoreSeed(NULL) does is the host's doing.
EnvNone == {}
=============================================================================
