---------------------------- MODULE MCWebSession ----------------------------
(***************************************************************************)
(* A small instance of WebSession for TLC.                                 *)
(***************************************************************************)
EXTENDS WebSession
=============================================================================
