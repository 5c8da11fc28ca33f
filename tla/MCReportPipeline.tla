-------------------------- MODULE MCReportPipeline --------------------------
(* Instances of ReportPipeline for TLC. *)
EXTENDS ReportPipeline

(* A quick crew, one at the limit and one beyond it. *)
MCCrewTimes == 1..3
=============================================================================
