-------------------------------- MODULE MCSetup -------------------------------
(***************************************************************************)
(* Instance of Setup for TLC.                                              *)
(***************************************************************************)
EXTENDS Setup
=============================================================================
