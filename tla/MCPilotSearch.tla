------------------------------ MODULE MCPilotSearch ------------------------------
(* The rate search on a small range of rates. *)
EXTENDS PilotSearch

\* The protocol's percentages and one more, so that a small shared rate makes
\* two of them round to the same rate.
MCLoadPercentages == {25, 30, 50, 75, 90}
=================================================================================
