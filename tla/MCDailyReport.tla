--------------------------- MODULE MCDailyReport ---------------------------
(* Instances of DailyReport for TLC. *)
EXTENDS DailyReport, TLC

OneDelay == <<1>>
=============================================================================
