\* Two pages with a flight each, one connection that may fail.
SPECIFICATION FlightsFairSpec
CONSTANTS
  p1 = p1
  p2 = p2
  Page = {p1, p2}
  Caller <- MCCaller
  Lane = {1, 2}
  Cid = {p1, p2, Everyone}
  NumAirports = 1
  Plane = Plane
  Route = Route
  Arrival = 1
  Fixed = Fixed
  Id <- MCId
  Value <- MCValue
  Absent = Absent
  Everyone = Everyone
  NoCall = NoCall
  MaxCalls = 10
  LossyPages = {p1}
INVARIANTS
  ArrivedFlightShown
PROPERTIES
  OwnPlaneMovesOn
  FlightsEnd
\* Flights that have arrived have nothing left to do.
CHECK_DEADLOCK FALSE
