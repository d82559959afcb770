\* Two markers and two lines, two tiles that come and go; one marker and the line
\* may be mounted again.
SPECIFICATION BrowserSpec
CONSTANTS
  Marker = {m1, m2}
  Line = {l1, l2}
  Value = {v1, v2}
  NoValue = NoValue
  Tile = {t1, t2}
  NoObject = NoObject
  Remounting = {m1, l1}
  MaxObjects = 5
INVARIANTS
  BrowserTypeOK
  NoGhosts
  
PROPERTIES
  FollowKeepsUp
\* The user and the server may stop, and the objects are bounded.
CHECK_DEADLOCK FALSE
