------------------------------- MODULE MCAgent -------------------------------
(***************************************************************************)
(* Small instances of AgentRun and AgentStream for TLC.                    *)
(***************************************************************************)
EXTENDS AgentStream

CONSTANTS look, invite
=============================================================================
