SPECIFICATION Spec
CONSTANTS
  Keys = {k1, k2}
  KeyCalls = {v1}
  KeyAdmins = {a1, a2}
  Tokens = {t1, t2}
  NoToken = NoToken
  MaxFailures = 2
  SesCalls = {v1}
  SesAdmins = {b1}
  CfgRequests = {r1, r2}
  NoRequest = NoRequest
  BootstrapPrivate = TRUE
  Dids = {d1, d2}
  Homes = {h1, h2}
  RowIds = {i1, i2}
  Nowhere = Nowhere
  Rows = {q1, q2}
  Loads = {l1, l2}
SYMMETRY Interchangeable
INVARIANTS
  OneAdministrator
  ReplacedSessionsStayDead
  GrantsAreMeant
  RowsTellTheServer
PROPERTIES
  KeysAdmit
  SessionsAdmit
  AdmissionFollowsLastChange
  SyncKeepsDecisions
