---------------------------- MODULE MCFlightsPage ---------------------------
(***************************************************************************)
(* Instances of FlightsPage for TLC.                                       *)
(***************************************************************************)
EXTENDS FlightsPage

CONSTANTS p1, p2

MCCaller == {p1, p2} \X Task \X Lane
MCId == 1 .. NumAirports \cup {Plane, Route}
MCValue == [flight : {p1, p2}, at : 0 .. Arrival] \cup {Fixed}

=============================================================================
