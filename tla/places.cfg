\* Two pages on the same channels, small queues, failing connections.
SPECIFICATION PlacesFairSpec
CONSTANTS
  Page = {p1, p2}
  Connection = {p1, p2}
  Item = {1}
  NumParks = 1
  NoItem = NoItem
  NoEvent = NoEvent
  QueueSize = 2
  LossyPages = {p1}
  MaxClicks = 1
INVARIANTS
  PlacesTypeOK
  ViewFollowsOwnClicks
  PopulatedPageComplete
PROPERTIES
  LonePageIsSeen
  ReadyPageGetsPopulated
\* Closed pages with nothing left to read have nothing left to do.
CHECK_DEADLOCK FALSE
