---------------------------- MODULE MCEvsClient ----------------------------
(***************************************************************************)
(* Instance of EvsClient for TLC.  Recovers is a liveness property, so the *)
(* sockets are not declared symmetric.                                     *)
(***************************************************************************)
EXTENDS EvsClient
=============================================================================
