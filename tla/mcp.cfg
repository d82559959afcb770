\* One client with calls of up to two requests, a tenant that posts by hand, restarts.
SPECIFICATION McpFairSpec
CONSTANTS
  t1 = t1
  t2 = t2
  Tenant = {t1, t2}
  Session = {s1, s2, s3}
  NoSession = NoSession
  Unissued = Unissued
  Lost = Lost
  Post = {k1, k2}
  MaxId = 3
  MaxItems = 1
  Client = {c1}
  TokenOf <- MCTokenOf
  Batch <- MCBatch
  Outsider = {t2}
  HandBatch <- MCHandBatch
  Nobody = Nobody
INVARIANTS
  McpTypeOK
  SessionsApart
  AuditSettled
  AnswersInOrder
  LogFollowsAnswers
PROPERTIES
  CallsEnd
\* Clients that are closed have nothing left to do.
CHECK_DEADLOCK FALSE
