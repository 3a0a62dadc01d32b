SPECIFICATION ServicesSpec
CONSTANTS
  www = www
  addr = addr
  Orders = {o1}
  Idents = {www, addr}
  Kind <- MCKind
  Tasks = {k1, k2}
  Handlers = {h1, h2}
  Certs = {x1, x2}
  NoCert = NoCert
  NoOrder = NoOrder
  NoChallenge = NoChallenge
  MaxResponses = 3
  MaxRetries = 1
  MaxRestarts = 1
  alice = alice
  Users = {alice}
  Sessions = {h1, h2}
  Owner <- MCOwner
  Calls = {k1, k2}
  Reapers = {p1}
  MaxConcurrent = 1
  IdleTimeout = 1
  AbsoluteTimeout = 2
  PersistAfter = 1
  LockOnInactivity = TRUE
  MaxTime = 3
  Logins = {l1, l2, l3}
  MaxAttempts = 2
  PermanentAfter = 2
  NoLogin = NoLogin
  Tokens = {t1}
  EstHandlers = {h1, h2}
  MaxUses = 2
  NoToken = NoToken
  TampSigners = {signer}
  Ingests = {i1, i2}
  Issues = {i1, i2}
  TampKeys = {a1}
  Communities = {m1}
  TampEdits <- MCEdits
  MaxSeqNo = 2
  NoTamp = NoTamp
  WebTokens = {w1, w2}
  WebRequests = {k1, k2}
  OidcStates = {s1}
  NoWebToken = NoWebToken
  NoState = NoState
  WebInactivity = 0
  WebAbsolute = 1
  MaxWebTime = 2
SYMMETRY ServicesSymmetry
INVARIANTS CertificateProven ReadyNotLost ValidHasCertificate
  TerminatedStaysDead LoginsWithinLimit TerminateAllComplete FailuresLock WebSessionsEnd TokenBalance
  TampSequences
PROPERTIES AcmeImplementsPolicy PermanentUntilAdmin
CHECK_DEADLOCK FALSE
