------------------------------ MODULE MCPilot ------------------------------
(***************************************************************************)
(* Pilot with the sets that a configuration file cannot write down.        *)
(***************************************************************************)
EXTENDS Pilot

CONSTANTS s1, s2

NoRecordings == {}

\* One recording that collides with the provider's output file and one that
\* does not; both speak the script the pipeline did not write.
BothRecordings == {[path |-> "wav", hash |-> s2], [path |-> "mp3", hash |-> s2]}
=============================================================================
