--------------------------- MODULE MCDebateStore ----------------------------
(***************************************************************************)
(* Instances of DebateStore for TLC.                                       *)
(***************************************************************************)
EXTENDS DebateStore, TLC

\* Requests are interchangeable, and so are files.
StoreSymmetry == Permutations(Runs) \cup Permutations(Files)

=============================================================================
