---------------------------- MODULE MCBrowserMap ----------------------------
(***************************************************************************)
(* Instances of BrowserMap for TLC.                                        *)
(***************************************************************************)
EXTENDS BrowserMap

=============================================================================
