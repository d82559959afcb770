---------------------------- MODULE MCPlacesPage ----------------------------
(***************************************************************************)
(* Instances of PlacesPage for TLC.                                        *)
(***************************************************************************)
EXTENDS PlacesPage

=============================================================================
