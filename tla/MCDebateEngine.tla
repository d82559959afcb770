--------------------------- MODULE MCDebateEngine ---------------------------
(***************************************************************************)
(* Instances of DebateEngine for TLC.                                      *)
(***************************************************************************)
EXTENDS DebateEngine, TLC

\* Requests are interchangeable (used only where no liveness is checked).
RunSymmetry == Permutations(Runs)

=============================================================================
