------------------------- MODULE MCPilotRefinement -------------------------
(***************************************************************************)
(* PilotRefinement for two commands at a time.                             *)
(***************************************************************************)
EXTENDS PilotRefinement

CONSTANTS s1, s2

NoRecordings == {}
=============================================================================
