\* Does a client forget a session that the server has lost?
SPECIFICATION McpSpec
CONSTANTS
  t1 = t1
  t2 = t2
  Tenant = {t1, t2}
  Session = {s1, s2, s3}
  NoSession = NoSession
  Unissued = Unissued
  Lost = Lost
  Post = {k1, k2}
  MaxId = 3
  MaxItems = 1
  Client = {c1}
  TokenOf <- MCTokenOf
  Batch <- MCBatch
  Outsider = {}
  HandBatch = {}
  Nobody = Nobody
PROPERTIES ForgetsLostSession
CHECK_DEADLOCK FALSE
