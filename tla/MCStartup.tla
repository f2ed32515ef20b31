----------------------------- MODULE MCStartup -----------------------------
(* Instances of Startup for TLC. *)
EXTENDS Startup

Columns == {"active_slot", "waiting_notice"}
=============================================================================
