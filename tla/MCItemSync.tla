----------------------------- MODULE MCItemSync -----------------------------
(***************************************************************************)
(* Instances of ItemSync for TLC.                                          *)
(***************************************************************************)
EXTENDS ItemSync

=============================================================================
