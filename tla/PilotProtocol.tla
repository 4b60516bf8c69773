----------------------------- MODULE PilotProtocol -----------------------------
(***************************************************************************)
(* What the pilot's session and its search for a rate have in common.      *)
(***************************************************************************)

\* The conditions that a pilot compares.
Conditions == {"R-A", "K-A"}
=================================================================================
