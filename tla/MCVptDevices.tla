----------------------------- MODULE MCVptDevices -----------------------------
(* VptDevices on small instances. *)
EXTENDS VptDevices
==============================================================================
