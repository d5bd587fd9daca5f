---------------------------- MODULE MCSharedStream ----------------------------
(***************************************************************************)
(* SharedStream on the instances of the SharedStream_*.cfg files.          *)
(***************************************************************************)
EXTENDS SharedStream

=============================================================================
