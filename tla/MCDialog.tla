------------------------------- MODULE MCDialog -------------------------------
(***************************************************************************)
(* Instance of Dialog for TLC.                                             *)
(***************************************************************************)
EXTENDS Dialog
=============================================================================
