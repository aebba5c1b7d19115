CONSTANTS
  Parts = {"config", "access", "directory", "guests", "hooks", "browsers", "robot", "notes", "gateway", "registrar", "signon", "import"}
  Queues = {q1}
  Flows = {f1}
  Dids = {d1}
  Editors = {e1}
  Calls = {c1}
  MaxVersions = 2
  MaxRefs = 1
  Requests = {r1, r2}
  Logins = {l1}
  NoRequest = NoRequest
  MaxTokens = 3
  MaxChanges = 1
  Admins = {a1, a2}
  MaxEdits = 3
  MaxAttempts = 2
  MaxLapses = 1
  Tokens = {t1}
  Visitors = {v1, v2}
  NoVisitor = NoVisitor
  MaxCalls = 3
  Events = {e1}
  Workers = {w1, w2}
  MaxRetries = 2
  MaxAgain = 1
  MaxLate = 1
  Publishers = {p1}
  Conns = {c1, c2}
  NoConn = NoConn
  Cap = 1
  Keep = 2
  MaxSeq = 2
  HandoffCap = 1
  QueueCap = 1
  MaxResponses = 2
  MaxSpeech = 1
  MaxBlocks = 2
  MaxRings = 1
  Nobody = Nobody
  MaxFaults = 1
  MaxStops = 1
  Agents = {a1, a2}
  NoAgent = NoAgent
  Commands = {k1}
  MaxMoves = 6
  Phones = {p1}
  Nonces = {v1, v2, v3, v4, v5, v6, v7}
  NoNonce = NoNonce
  NonceCap = 1
  MaxRequests = 3
  MaxStarts = 1
  States = {f1, f2}
  Callbacks = {c1, c2}
  Subjects = {s1, s2}
  Names = {n1, n2}
  Accounts = {u0, u1, u2}
  Local = u0
  NoName = NoName
  MaxBinds = 1
  Imports = {i1, i2}
  Nothing = Nothing
  MaxImports = 2
SPECIFICATION EdgesSpec
INVARIANTS TypesOK CallFindsItsConfig NoWayBackIn ServersAgree
PROPERTIES OnceOnly OnlyItsOwn NothingOldReturns EdgesSettle
CHECK_DEADLOCK FALSE
