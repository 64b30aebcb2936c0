----------------------------- MODULE MCAutoSync -----------------------------
(* AutoSync over a few repositories. *)
EXTENDS AutoSync

AllFaults == FaultKinds
=============================================================================
