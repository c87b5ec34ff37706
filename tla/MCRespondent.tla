---------------------------- MODULE MCRespondent ----------------------------
(***************************************************************************)
(* A small instance of EmbeddedInterview for TLC.                          *)
(***************************************************************************)
EXTENDS EmbeddedInterview
=============================================================================
