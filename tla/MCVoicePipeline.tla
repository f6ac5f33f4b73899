-------------------------- MODULE MCVoicePipeline --------------------------
(* One call for TLC: its greeting and one turn.                             *)
EXTENDS VoicePipeline
=============================================================================
