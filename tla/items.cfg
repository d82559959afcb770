\* A page that comes and goes, two clients whose calls overlap.
SPECIFICATION ItemsFairSpec
CONSTANTS
  Page = {p1}
  Cid = {p1, p2, Everyone}
  Caller = {c1, c2}
  Id = {i1}
  Value = {v1, v2}
  Absent = Absent
  Everyone = Everyone
  NoCall = NoCall
  MaxCalls = 3
INVARIANTS
  ItemsTypeOK
  PagesFollowStore
  EventsFollowStore
PROPERTIES
  PagesCatchUp
\* When the calls are used up nothing is left to do.
CHECK_DEADLOCK FALSE
