----------------------------- MODULE MCPilotSession -----------------------------
(* The pilot session on small instances. *)
EXTENDS PilotSession
=================================================================================
