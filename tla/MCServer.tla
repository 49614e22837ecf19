------------------------------ MODULE MCServer ------------------------------
(***************************************************************************)
(* Server for TLC: up to MaxContexts lifespans, OtelPlugin's at any place.  *)
(***************************************************************************)
EXTENDS Server
=============================================================================
