---------------------------- MODULE MCAnalyzeRun ----------------------------
(* Instances of AnalyzeRun for TLC. *)
EXTENDS AnalyzeRun

CONSTANTS f1, f2
=============================================================================
