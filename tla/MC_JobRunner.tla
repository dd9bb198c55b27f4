---- MODULE MC_JobRunner ----
(***************************************************************************)
(* Instance of JobRunner: one job of each sort, a scan every two ticks, a  *)
(* refresh every four, one restart, one failing update.                    *)
(***************************************************************************)
EXTENDS JobRunner

====
